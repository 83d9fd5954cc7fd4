--------------------------- MODULE DatabaseSwitch ---------------------------
(***************************************************************************)
(* The database is exchanged while the server runs: an administrator       *)
(* uploads a SQLite file or a PostgreSQL dump or restores a backup, or a   *)
(* task copies everything to the other kind of database and switches to    *)
(* it.  Log writer, detail store and pending cleaner each keep the handle  *)
(* they were made with and are made anew after an exchange; requests log   *)
(* meanwhile.                                                              *)
(*                                                                         *)
(* A handle is a number that tells it from the others still held; initDB   *)
(* closes the one before, so that only the handle in force is open.  Of a  *)
(* database the model keeps the log rows of the requests it observes.      *)
(*                                                                         *)
(* The administrator makes one exchange at a time, but for requests to     *)
(* start a task, which may overlap; nothing in the code prevents more.  Of *)
(* the steps of one exchange at most one fails, and what a failure falls   *)
(* back to (rename back, reopen the old file) does not fail in turn.       *)
(***************************************************************************)
EXTENDS Naturals, Sequences, FiniteSets, FiniteSetsExt

CONSTANTS
  Uploads,          \* UploadDatabase, RestoreBackup
  Tasks,            \* calls of StartDatabaseMigration, each with the task it creates
  Requests,
  None

\* The empty task id is the id of no task.
ASSUME SwitchAssumption == None \notin Tasks

VARIABLES
  db,               \* the handle in force, 0 for nil
  opts,             \* dbOptions: the kind of database
  store,            \* the database the handle in force is open on
  path,             \* the database that lies at SQLitePath
  content,          \* the status of each request's log row in each database
  comp,             \* the handle of each component
  up,               \* each upload: where it is, its backup, whether it succeeds
  task,             \* each task: where it is and its source options
  activeTask,       \* activeTaskID
  req,              \* each request: where it is, the log writer it holds
  kept,             \* requests whose result the database in use must hold
  broken            \* an exchange has failed after it closed or replaced the handle,
                    \* and none since has made the components anew

dbVars == <<db, opts, store, path>>
vars == <<dbVars, content, comp, up, task, activeTask, req, kept, broken>>

Kinds == {"sqlite", "pg"}
Other(kind) == CHOOSE k \in Kinds : k # kind

\* The databases: the first file, PostgreSQL, an uploaded file, and the empty one that
\* SQLite creates where there is no file.
Stores == {"sqlite", "pg", "blank"} \cup Uploads

ASSUME StoresAssumption ==
  /\ None \notin Stores
  /\ \A u \in Uploads : u \notin {"sqlite", "pg", "blank"}
  /\ IsFiniteSet(Requests)

Rows == [Requests -> {"absent", "pending", "done"}]
NoRows == [r \in Requests |-> "absent"]

Components == {"writer", "details", "cleaner"}

\* Mutant: the cleaner is forgotten.
ReinitsTwo == <<"writer", "details">>

\* ReinitLogWriter, ReinitRequestDetailStore, ReinitPendingCleaner, in this order.
Reinits == <<"writer", "details", "cleaner">>

Active == {"pending", "prepared", "copied", "switched", "saving"}
UploadStages == {"idle", "closed", "moved", "written", "opened", "restored", "reinit",
                 "done", "failed"}

NoUpload == \A u \in Uploads : up[u].at \in {"idle", "done", "failed"}
NoTask == \A t \in Tasks : task[t].at \notin Active

MoveUpload(u, stage) == up' = [up EXCEPT ![u].at = stage]
MoveTask(t, stage) == task' = [task EXCEPT ![t].at = stage]

NoTaskYet == [at |-> "none", source |-> "sqlite", n |-> 1]
-----------------------------------------------------------------------------
Init ==
  /\ db = 1
  /\ opts = "sqlite" /\ store = "sqlite" /\ path = "sqlite"
  /\ content = [s \in Stores |-> NoRows]
  /\ comp = [c \in Components |-> 1]
  /\ up = [u \in Uploads |-> [at |-> "idle", backup |-> None, ok |-> TRUE, n |-> 1]]
  /\ task = [t \in Tasks |-> NoTaskYet]
  /\ activeTask = None
  /\ req = [r \in Requests |-> [at |-> "new", writer |-> 0]]
  /\ kept = {}
  /\ broken = FALSE

\* What lies at SQLitePath, with the file that SQLite creates if nothing does.
File == IF path = None THEN "blank" ELSE path
StoreOf(kind) == IF kind = "pg" THEN "pg" ELSE File
KindOf(s) == IF s = "pg" THEN "pg" ELSE "sqlite"

Handles == 1 .. Cardinality(Components) + Cardinality(Requests) + 2
Held == {db} \cup {comp[c] : c \in Components} \cup {req[r].writer : r \in Requests}
NewHandle == Min(Handles \ Held)

\* initDB: the new handle replaces the old one, which is closed.
Open(s) == db' = NewHandle /\ store' = s /\ opts' = KindOf(s)
-----------------------------------------------------------------------------
(* UploadDatabase, RestoreBackup, uploadPostgresDump *)

\* CloseAndRelease.  When it fails the handle is gone all the same.
Close(u) ==
  /\ up[u].at = "idle"
  /\ NoUpload /\ NoTask /\ db # 0
  /\ db' = 0
  /\ \/ MoveUpload(u, "closed") /\ UNCHANGED broken
     \/ MoveUpload(u, "failed") /\ broken' = TRUE
  /\ UNCHANGED <<opts, store, path, content, comp, task, activeTask, req, kept>>

\* The old file is renamed back, unless it was not moved, and reopenOnError reopens it:
\* that and nothing else.
Reopen(u, s) ==
  /\ Open(s) /\ path' = s
  /\ up' = [up EXCEPT ![u] = [up[u] EXCEPT !.at = "failed", !.backup = None]]
  /\ broken' = TRUE

\* The current file is renamed, and stays as a backup.
MoveAway(u) ==
  /\ up[u].at = "closed" /\ opts = "sqlite"
  /\ \/ /\ up' = [up EXCEPT ![u] = [up[u] EXCEPT !.at = "moved", !.backup = path]]
        /\ path' = None
        /\ UNCHANGED <<db, opts, store, broken>>
     \/ Reopen(u, path)
  /\ UNCHANGED <<content, comp, task, activeTask, req, kept>>

\* Mutant: the backup is not renamed back.
BackupForgotten(u) == "blank"

Backup(u) == up[u].backup

\* What is uploaded is a database from before the observed requests; what is restored is
\* a backup.
Sources(u) == {u} \cup ({Backup(v) : v \in Uploads \ {u}} \ {None})

WriteFile(u) ==
  /\ up[u].at = "moved"
  /\ \/ /\ \E s \in Sources(u) : content' = [content EXCEPT ![u] = content[s]]
        /\ path' = u
        /\ MoveUpload(u, "written")
        /\ UNCHANGED <<db, opts, store, broken>>
     \/ Reopen(u, Backup(u)) /\ UNCHANGED content
  /\ UNCHANGED <<comp, task, activeTask, req, kept>>

\* Reopen.  It fails before the handle is replaced (no database in the file) or after it
\* (createTables, runMigrations).
OpenNew(u) ==
  /\ up[u].at = "written"
  /\ \/ Open(path) /\ MoveUpload(u, "reinit") /\ kept' = {}
     \/ /\ \/ Open(path)
           \/ UNCHANGED <<db, opts, store>>
        /\ MoveUpload(u, "opened")
        /\ UNCHANGED kept
  /\ UNCHANGED <<path, content, comp, task, activeTask, req, broken>>

RollBack(u) ==
  /\ up[u].at = "opened"
  /\ Reopen(u, Backup(u))
  /\ UNCHANGED <<content, comp, task, activeTask, req, kept>>

\* psql runs the dump without a transaction: a failure leaves what it has done.  Then
\* reopenOnError makes the components anew as well.
RestoreDump(u) ==
  /\ up[u].at = "closed" /\ opts = "pg"
  /\ kept' = {}
  /\ \/ /\ content' = [content EXCEPT !["pg"] = content[u]]
        /\ MoveUpload(u, "restored")
        /\ UNCHANGED <<db, opts, store>>
     \/ /\ \E rows \in {content["pg"], content[u]} :
             content' = [content EXCEPT !["pg"] = rows]
        /\ up' = [up EXCEPT ![u] = [up[u] EXCEPT !.at = "reinit", !.ok = FALSE]]
        /\ Open("pg")
  /\ UNCHANGED <<path, comp, task, activeTask, req, broken>>

\* InitWithOptions after the dump; when it fails nothing is tried again.
Reconnect(u) ==
  /\ up[u].at = "restored"
  /\ \/ Open("pg") /\ MoveUpload(u, "reinit") /\ UNCHANGED broken
     \/ /\ \/ Open("pg")
           \/ UNCHANGED <<db, opts, store>>
        /\ MoveUpload(u, "failed") /\ broken' = TRUE
  /\ UNCHANGED <<path, content, comp, task, activeTask, req, kept>>

\* One component is stopped and made with the handle in force.
ReinitNext(n) == comp' = [comp EXCEPT ![Reinits[n]] = db]

\* An upload or a task goes on to the next component, or after the last to a stage.
Advance(x, stage) == IF x.n = Len(Reinits) THEN [x EXCEPT !.n = 1, !.at = stage]
                                           ELSE [x EXCEPT !.n = @ + 1]

ReinitUpload(u) ==
  /\ up[u].at = "reinit"
  /\ ReinitNext(up[u].n)
  /\ up' = [up EXCEPT ![u] = Advance(up[u], IF up[u].ok THEN "done" ELSE "failed")]
  /\ broken' = (broken /\ up[u].n # Len(Reinits))
  /\ UNCHANGED <<dbVars, content, task, activeTask, req, kept>>

Upload(u) == \/ MoveAway(u) \/ WriteFile(u) \/ OpenNew(u) \/ RollBack(u)
             \/ RestoreDump(u) \/ Reconnect(u) \/ ReinitUpload(u)
-----------------------------------------------------------------------------
(* StartDatabaseMigration, runDatabaseMigrationTask *)

Target(t) == Other(task[t].source)

\* The source is what dbOptions says, and the target must be of the other kind.
Ask(t) ==
  /\ task[t].at = "none"
  /\ NoUpload /\ db # 0
  /\ task' = [task EXCEPT ![t] = [task[t] EXCEPT !.at = "asked", !.source = opts]]
  /\ UNCHANGED <<dbVars, content, comp, up, activeTask, req, kept, broken>>

\* createTask, under the manager's lock: refused while the active task runs.
CreateTask(t) ==
  /\ task[t].at = "asked" /\ NoUpload
  /\ IF activeTask # None /\ task[activeTask].at \in Active
     THEN task' = [task EXCEPT ![t] = NoTaskYet] /\ UNCHANGED activeTask
     ELSE MoveTask(t, "pending") /\ activeTask' = t
  /\ UNCHANGED <<dbVars, content, comp, up, req, kept, broken>>

\* Mutant: the goroutine returns without finishTask.
EndUnfinished(t) == MoveTask(t, "gone")

\* finishTask, its first lock: the status.
EndTask(t) == task' = [task EXCEPT ![t] = [NoTaskYet EXCEPT !.at = "ended"]]

\* Source opened, target prepared and, if asked for, emptied.
\* The options may have been replaced since Ask: the target is then the database in use,
\* and what the source lacks is lost.
Prepare(t) ==
  LET target == StoreOf(Target(t)) IN
  /\ task[t].at = "pending"
  /\ \/ /\ MoveTask(t, "prepared")
        /\ \/ /\ content' = [content EXCEPT ![target] = NoRows]
              /\ kept' = IF target = store THEN {} ELSE kept
           \/ UNCHANGED <<content, kept>>
     \/ EndTask(t) /\ UNCHANGED <<content, kept>>
  /\ UNCHANGED <<dbVars, comp, up, activeTask, req, broken>>

\* Rows with the same key collide.
Collide(from, to) == \E r \in Requests : from[r] # "absent" /\ to[r] # "absent"

CopyRows(from, to, copied) ==
  [r \in Requests |-> IF r \in copied /\ to[r] = "absent" THEN from[r] ELSE to[r]]

\* copyTableBetween, one transaction per table: a failure leaves some of the tables.
CopyTables(t) ==
  LET target == StoreOf(Target(t))
      from == content[StoreOf(task[t].source)]
      to == content[target]
  IN
  /\ task[t].at = "prepared"
  /\ \/ /\ ~Collide(from, to)
        /\ content' = [content EXCEPT ![target] = CopyRows(from, to, Requests)]
        /\ MoveTask(t, "copied")
     \/ /\ \E copied \in SUBSET Requests :
             content' = [content EXCEPT ![target] = CopyRows(from, to, copied)]
        /\ EndTask(t)
  /\ UNCHANGED <<dbVars, comp, up, activeTask, req, kept, broken>>

\* switchRuntimeDatabase: InitWithOptions, which may fail before or after it has replaced
\* the handle.
Switch(t) ==
  /\ task[t].at = "copied"
  /\ \/ Open(StoreOf(Target(t))) /\ MoveTask(t, "switched") /\ UNCHANGED broken
     \/ /\ EndTask(t)
        /\ \/ Open(StoreOf(Target(t))) /\ broken' = TRUE
           \/ UNCHANGED <<db, opts, store, broken>>
  /\ path' = IF Target(t) = "sqlite" THEN File ELSE path
  /\ UNCHANGED <<content, comp, up, activeTask, req, kept>>

ReinitTask(t) ==
  /\ task[t].at = "switched"
  /\ ReinitNext(task[t].n)
  /\ task' = [task EXCEPT ![t] = Advance(task[t], "saving")]
  /\ broken' = (broken /\ task[t].n # Len(Reinits))
  /\ UNCHANGED <<dbVars, content, up, activeTask, req, kept>>

\* SaveRuntimeDatabaseOptions: the task succeeds or fails, switched it has.
Save(t) ==
  /\ task[t].at = "saving"
  /\ EndTask(t)
  /\ UNCHANGED <<dbVars, content, comp, up, activeTask, req, kept, broken>>

\* Mutant: the slot is cleared although another task has taken it.
ClearSlot(t) ==
  /\ task[t].at = "ended"
  /\ task' = [task EXCEPT ![t] = NoTaskYet]
  /\ activeTask' = None
  /\ UNCHANGED <<dbVars, content, comp, up, req, kept, broken>>

\* finishTask, its second lock.
FreeSlot(t) ==
  /\ task[t].at = "ended"
  /\ task' = [task EXCEPT ![t] = NoTaskYet]
  /\ activeTask' = IF activeTask = t THEN None ELSE activeTask
  /\ UNCHANGED <<dbVars, content, comp, up, req, kept, broken>>

Run(t) == \/ Prepare(t) \/ CopyTables(t) \/ Switch(t) \/ ReinitTask(t)
          \/ Save(t) \/ FreeSlot(t)
-----------------------------------------------------------------------------
(* Requests *)

\* Authentication needs a handle; WritePendingFromTrace with a closed one is lost.
Begin(r) ==
  /\ req[r].at = "new" /\ db # 0
  /\ req' = [req EXCEPT ![r].at = "sent"]
  /\ content' = IF comp["writer"] = db THEN [content EXCEPT ![store][r] = "pending"]
                                       ELSE content
  /\ UNCHANGED <<dbVars, comp, up, task, activeTask, kept, broken>>

\* GetLogWriter, without the lock of ReinitLogWriter.
TakeWriter(r) ==
  /\ req[r].at = "sent"
  /\ req' = [req EXCEPT ![r] = [at |-> "logging", writer |-> comp["writer"]]]
  /\ UNCHANGED <<dbVars, content, comp, up, task, activeTask, kept, broken>>

\* UpdateFromTrace: the UPDATE of the row, or insertComplete if there is none.  With the
\* handle in force the result is in the database in use.  While a task copies,
\* writes should pause (docs/sqlite-to-postgres-migration.md): nothing is promised.
LogResult(r) ==
  /\ req[r].at = "logging"
  /\ req' = [req EXCEPT ![r] = [at |-> "over", writer |-> 0]]
  /\ IF db # 0 /\ req[r].writer = db
     THEN /\ content' = [content EXCEPT ![store][r] = "done"]
          /\ kept' = IF NoTask THEN kept \cup {r} ELSE kept
     ELSE UNCHANGED <<content, kept>>
  /\ UNCHANGED <<dbVars, comp, up, task, activeTask, broken>>

Request(r) == Begin(r) \/ TakeWriter(r) \/ LogResult(r)
-----------------------------------------------------------------------------
Next == \/ \E u \in Uploads : Close(u) \/ Upload(u)
        \/ \E t \in Tasks : Ask(t) \/ CreateTask(t) \/ Run(t)
        \/ \E r \in Requests : Request(r)

\* The goroutine of a task runs on.
Fairness == \A t \in Tasks : WF_vars(Run(t))

Spec == Init /\ [][Next]_vars /\ Fairness
-----------------------------------------------------------------------------
\* "已有数据库任务正在执行中": two database tasks are never pending or running at once,
\* although the slot is freed in a lock of its own, after the status was set, when
\* another task may have taken it.
OneTask ==
  \A t1, t2 \in Tasks :
    task[t1].at \in Active /\ task[t2].at \in Active => t1 = t2

\* No exchange is under way.
Settled == NoUpload /\ \A t \in Tasks : task[t].at \notin {"switched", "saving"}

\* After an exchange that succeeded, or failed before it touched the database in use,
\* every component works on the handle in force.
ComponentsFollow ==
  Settled /\ ~broken => \A c \in Components : comp[c] = db

\* The database in use holds the results that were logged to it: a failed upload brings
\* the old file back, whatever failed; a task takes the rows along or leaves the
\* database alone; a request that was pending at the switch is logged all the same.
ResultsKept ==
  Settled /\ db # 0 => \A r \in kept : content[store][r] = "done"

\* A task ends, whichever of its steps fails.
TaskEnds == \A t \in Tasks : task[t].at = "pending" ~> task[t].at = "ended"

\* "后续操作如果失败，必须重新打开数据库", "重新初始化日志写入器等依赖数据库的组件": once the
\* database is open again after an upload, every component can use it.
ComponentsUsable ==
  NoUpload /\ NoTask /\ db # 0 => \A c \in Components : comp[c] = db
=============================================================================
