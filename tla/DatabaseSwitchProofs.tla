------------------------ MODULE DatabaseSwitchProofs ------------------------
(***************************************************************************)
(* Theorems about DatabaseSwitch, for any uploads, tasks and requests.     *)
(***************************************************************************)
EXTENDS DatabaseSwitch, TLAPS, FiniteSetTheorems, WellFoundedInduction

UploadState == [at : UploadStages, backup : Stores \cup {None}, ok : BOOLEAN, n : 1 .. 3]
TaskState == [at : {"none", "asked", "ended"} \cup Active, source : Kinds, n : 1 .. 3]

\* The variables the invariant is about have the shape that Init gives them.
Shape ==
  /\ comp = [c \in Components |-> comp[c]]
  /\ path \in Stores \cup {None}
  /\ up \in [Uploads -> UploadState]
  /\ task \in [Tasks -> TaskState]
  /\ opts \in Kinds
  /\ broken \in BOOLEAN

\* A task that is pending or running holds the slot.
SlotHeld == \A t \in Tasks : task[t].at \in Active => activeTask = t

InProgress(u) == up[u].at \notin {"idle", "done", "failed"}

\* The administrator makes one exchange at a time.
OneExchange ==
  \A u \in Uploads : InProgress(u) =>
    /\ \A v \in Uploads : InProgress(v) => v = u
    /\ \A t \in Tasks : task[t].at \notin Active

\* The components that an exchange has already made anew follow the handle.
Remade(n) == \A i \in 1 .. n - 1 : comp[Reinits[i]] = db
AllFollow == \A c \in Components : comp[c] = db

RemadeSoFar ==
  /\ \A u \in Uploads : IF up[u].at = "reinit" THEN Remade(up[u].n) ELSE up[u].n = 1
  /\ \A t \in Tasks : IF task[t].at = "switched" THEN Remade(task[t].n) ELSE task[t].n = 1
  /\ \A t \in Tasks : task[t].at = "saving" => AllFollow

IInv == Shape /\ SlotHeld /\ OneExchange /\ RemadeSoFar /\ ComponentsFollow
-----------------------------------------------------------------------------
\* ReinitNext in the order of Reinits: the component is added to those made anew, and
\* after the third all follow.
LEMMA RemadeNext ==
  ASSUME comp = [c \in Components |-> comp[c]],
         NEW n \in 1 .. 3, Remade(n), ReinitNext(n), db' = db
  PROVE  /\ comp' = [c \in Components |-> comp'[c]]
         /\ n # 3 => Remade(n + 1)'
         /\ n = 3 => AllFollow'
<1>1. /\ Reinits[1] = "writer" /\ Reinits[2] = "details" /\ Reinits[3] = "cleaner"
  BY DEF Reinits
<1>2. comp' = [c \in Components |-> IF c = Reinits[n] THEN db ELSE comp[c]]
  BY Zenon DEF ReinitNext
<1>3. \A i \in 1 .. n : Reinits[i] \in Components /\ comp'[Reinits[i]] = db
  BY <1>1, <1>2 DEF Remade, Components
<1>4. n # 3 => Remade(n + 1)'
  BY <1>3 DEF Remade
<1>5. n = 3 => AllFollow'
  BY <1>1, <1>3 DEF AllFollow, Components
<1> QED
  BY <1>2, <1>4, <1>5

\* The server starts with every component on the first handle and no exchange under way.
LEMMA InitInvariant == Init => IInv
<1> SUFFICES ASSUME Init PROVE IInv
  OBVIOUS
<1> USE DEF Init
<1>1. Shape
  <2>1. comp = [c \in Components |-> comp[c]]
    BY Zenon
  <2>2. path \in Stores \cup {None} /\ opts \in Kinds
    BY DEF Stores, Kinds
  <2>3. \A u \in Uploads : up[u] \in UploadState
    BY DEF UploadState, UploadStages
  <2>4. \A t \in Tasks : task[t] \in TaskState
    BY DEF TaskState, NoTaskYet, Kinds
  <2>5. QED
    BY <2>1, <2>2, <2>3, <2>4 DEF Shape
<1>2. SlotHeld /\ RemadeSoFar
  BY DEF SlotHeld, RemadeSoFar, NoTaskYet, Active
<1>3. OneExchange
  BY DEF OneExchange, InProgress
<1>4. ComponentsFollow
  BY DEF ComponentsFollow
<1> QED
  BY <1>1, <1>2, <1>3, <1>4 DEF IInv
-----------------------------------------------------------------------------
Quiet == {"idle", "done", "failed"}

\* The upload's state becomes s, and it is the only exchange, leaves tasks and components
\* alone, and sets broken if it ends: so do all steps of an upload but ReinitUpload.
UploadMove(u, s) ==
  /\ InProgress(u) \/ (NoUpload /\ NoTask)
  /\ s \in UploadState /\ s.n = 1
  /\ up' = [up EXCEPT ![u] = s]
  /\ s.at \in Quiet => broken'
  /\ path' \in Stores \cup {None} /\ opts' \in Kinds /\ broken' \in BOOLEAN
  /\ comp' = comp /\ task' = task /\ activeTask' = activeTask

\* An UploadMove preserves the invariant.
LEMMA UploadMoves ==
  ASSUME IInv, NEW u \in Uploads, NEW s, UploadMove(u, s)
  PROVE  IInv'
<1> USE DEF UploadMove
<1> USE DEF IInv, Shape
<1>1. /\ up' \in [Uploads -> UploadState] /\ up'[u] = s
      /\ \A v \in Uploads \ {u} : up'[v] = up[v]
  OBVIOUS
<1>2. Shape'
  BY <1>1
<1>3. SlotHeld'
  BY DEF SlotHeld
<1>4. /\ \A v \in Uploads \ {u} : up[v].at \in Quiet
      /\ \A t \in Tasks : task[t].at \notin Active
  BY DEF OneExchange, InProgress, NoUpload, NoTask, Quiet
<1>5. OneExchange'
  BY <1>1, <1>4 DEF OneExchange, InProgress, Quiet
<1>6. RemadeSoFar'
  <2>1. \A v \in Uploads : up'[v].n = 1
    BY <1>1, <1>4 DEF RemadeSoFar, Quiet
  <2>2. \A v \in Uploads : Remade(up[v].n)'
    BY <2>1, 1 .. 1 - 1 = {} DEF Remade
  <2>3. \A t \in Tasks : task'[t].n = 1 /\ task'[t].at \notin {"switched", "saving"}
    BY <1>4 DEF RemadeSoFar, Active
  <2>4. QED
    BY <2>1, <2>2, <2>3, Zenon DEF RemadeSoFar
<1>7. ComponentsFollow'
  <2>1. CASE s.at \in Quiet
    BY <2>1 DEF ComponentsFollow
  <2>2. CASE s.at \notin Quiet
    BY <1>1, <2>2 DEF ComponentsFollow, Settled, NoUpload, Quiet
  <2>3. QED
    BY <2>1, <2>2
<1> QED
  BY <1>2, <1>3, <1>5, <1>6, <1>7

\* initDB leaves dbOptions with one of the two kinds.
LEMMA OpenedKind == ASSUME NEW s, Open(s) PROVE opts' \in Kinds
  BY DEF Open, KindOf, Kinds

\* Every step of an upload but ReinitUpload is an UploadMove.
LEMMA UploadStep ==
  ASSUME IInv, NEW u \in Uploads, Close(u) \/ Upload(u), up[u].at # "reinit"
  PROVE  \E s : UploadMove(u, s)
<1> USE DEF dbVars, UploadStages, MoveUpload, UploadMove, InProgress, Quiet
<1> DEFINE to(stage) == [up[u] EXCEPT !.at = stage]
           with(stage, b) == [up[u] EXCEPT !.at = stage, !.backup = b]
           refused == [up[u] EXCEPT !.at = "reinit", !.ok = FALSE]
<1>1. /\ Shape /\ up[u].n = 1 /\ Backup(u) \in Stores \cup {None}
      /\ path \in Stores \cup {None} /\ opts \in Kinds /\ broken \in BOOLEAN
  BY DEF IInv, RemadeSoFar, Shape, UploadState, Backup
<1>2. \A stage \in UploadStages :
        to(stage) \in UploadState /\ to(stage).at = stage /\ to(stage).n = 1
  BY <1>1 DEF Shape, UploadState
<1>3. \A b \in Stores \cup {None}, stage \in UploadStages :
        with(stage, b) \in UploadState /\ with(stage, b).at = stage /\ with(stage, b).n = 1
  BY <1>1 DEF Shape, UploadState
<1>4. refused \in UploadState /\ refused.at = "reinit" /\ refused.n = 1
  BY <1>1 DEF Shape, UploadState
<1> HIDE DEF to, with, refused
<1>5. CASE Close(u)
  <2>1. UploadMove(u, to("closed")) \/ UploadMove(u, to("failed"))
    BY <1>1, <1>2, <1>5 DEF Close, to
  <2>2. QED
    BY <2>1
<1>6. CASE MoveAway(u)
  <2>1. CASE Reopen(u, path)
    <3>1. UploadMove(u, with("failed", None))
      BY <1>1, <1>3, <1>6, <2>1, OpenedKind DEF MoveAway, Reopen, with
    <3>2. QED
      BY <3>1
  <2>2. CASE ~Reopen(u, path)
    <3>1. UploadMove(u, with("moved", path))
      BY <1>1, <1>3, <1>6, <2>2 DEF MoveAway, with
    <3>2. QED
      BY <3>1
  <2>3. QED
    BY <2>1, <2>2
<1>7. CASE WriteFile(u)
  <2>1. CASE Reopen(u, Backup(u))
    <3>1. UploadMove(u, with("failed", None))
      BY <1>1, <1>3, <1>7, <2>1, OpenedKind DEF WriteFile, Reopen, with
    <3>2. QED
      BY <3>1
  <2>2. CASE ~Reopen(u, Backup(u))
    <3>1. UploadMove(u, to("written"))
      BY <1>1, <1>2, <1>7, <2>2 DEF WriteFile, to, Stores
    <3>2. QED
      BY <3>1
  <2>3. QED
    BY <2>1, <2>2
<1>8. CASE OpenNew(u)
  <2>1. UploadMove(u, to("reinit")) \/ UploadMove(u, to("opened"))
    BY <1>1, <1>2, <1>8, OpenedKind DEF OpenNew, to
  <2>2. QED
    BY <2>1
<1>9. CASE RollBack(u)
  <2>1. UploadMove(u, with("failed", None))
    BY <1>1, <1>3, <1>9, OpenedKind DEF RollBack, Reopen, with
  <2>2. QED
    BY <2>1
<1>10. CASE RestoreDump(u)
  <2>1. UploadMove(u, to("restored")) \/ UploadMove(u, refused)
    BY <1>1, <1>2, <1>4, <1>10, OpenedKind DEF RestoreDump, to, refused
  <2>2. QED
    BY <2>1
<1>11. CASE Reconnect(u)
  <2>1. UploadMove(u, to("reinit")) \/ UploadMove(u, to("failed"))
    BY <1>1, <1>2, <1>11, OpenedKind DEF Reconnect, to
  <2>2. QED
    BY <2>1
<1> QED
  BY <1>5, <1>6, <1>7, <1>8, <1>9, <1>10, <1>11 DEF Upload, ReinitUpload

\* The step of an upload that makes a component anew preserves the invariant: it adds the
\* component to those that follow, and after the last one all do.
LEMMA ReinitUploadStep ==
  ASSUME IInv, NEW u \in Uploads, ReinitUpload(u)
  PROVE  IInv'
<1> USE DEF dbVars
<1>0. PICK n \in 1 .. 3 : n = up[u].n
  BY DEF IInv, Shape, UploadState
<1> DEFINE s == up'[u]
<1>1. /\ Shape /\ up[u] \in UploadState /\ up[u].at = "reinit" /\ Remade(n)
      /\ \A v \in Uploads \ {u} : up[v].at \in Quiet
      /\ \A t \in Tasks : task[t].at \notin Active
  BY <1>0 DEF IInv, Shape, UploadState, RemadeSoFar, OneExchange, InProgress, Quiet,
              ReinitUpload
<1>2. /\ comp' = [c \in Components |-> comp'[c]]
      /\ n # 3 => Remade(n + 1)'
      /\ n = 3 => AllFollow'
  <2>1. ReinitNext(n) /\ db' = db
    BY <1>0 DEF ReinitUpload
  <2>2. QED
    BY <1>1, <2>1, RemadeNext DEF Shape
<1>3. /\ up' \in [Uploads -> UploadState]
      /\ \A v \in Uploads \ {u} : up'[v] = up[v]
      /\ n # 3 => s.at = "reinit" /\ s.n = n + 1
      /\ n = 3 => s.at \in Quiet /\ s.n = 1
  <2>1. Len(Reinits) = 3
    BY DEF Reinits
  <2>2. PICK stage \in {"done", "failed"} : up' = [up EXCEPT ![u] = Advance(up[u], stage)]
    BY DEF ReinitUpload
  <2>3. LET a == Advance(up[u], stage) IN
        /\ a \in UploadState
        /\ n # 3 => a.at = "reinit" /\ a.n = n + 1
        /\ n = 3 => a.at = stage /\ a.n = 1
    <3>1. CASE n = 3
      <4> DEFINE b == [up[u] EXCEPT !.n = 1]
      <4>1. b \in UploadState /\ b.n = 1
        BY <1>1 DEF UploadState
      <4>2. Advance(up[u], stage) = [b EXCEPT !.at = stage]
        BY <1>0, <2>1, <3>1 DEF Advance
      <4> HIDE DEF b
      <4>3. QED
        BY <3>1, <4>1, <4>2 DEF UploadState, UploadStages
    <3>2. CASE n # 3
      <4>1. Advance(up[u], stage) = [up[u] EXCEPT !.n = n + 1] /\ n + 1 \in 1 .. 3
        BY <1>0, <2>1, <3>2 DEF Advance
      <4>2. QED
        BY <1>1, <3>2, <4>1 DEF UploadState
    <3>3. QED
      BY <3>1, <3>2
  <2>4. s = Advance(up[u], stage)
    BY <1>1, <2>2 DEF Shape
  <2>5. QED
    BY <1>1, <2>2, <2>3, <2>4 DEF Shape, Quiet
<1>4. Shape'
  BY <1>1, <1>2, <1>3 DEF Shape, ReinitUpload
<1>5. SlotHeld' /\ OneExchange'
  BY <1>1, <1>3 DEF IInv, SlotHeld, OneExchange, InProgress, ReinitUpload, Quiet
<1>6. RemadeSoFar'
  <2>1. \A v \in Uploads \ {u} : up'[v].n = 1 /\ up'[v].at # "reinit"
    BY <1>1, <1>3 DEF IInv, RemadeSoFar, Quiet
  <2>2. IF s.at = "reinit" THEN Remade(up[u].n)' ELSE s.n = 1
    BY <1>1, <1>2, <1>3 DEF Remade, Quiet
  <2>3. \A t \in Tasks : task'[t].n = 1 /\ task'[t].at \notin {"switched", "saving"}
    BY <1>1 DEF IInv, RemadeSoFar, Active, ReinitUpload
  <2>4. QED
    BY <2>1, <2>2, <2>3, Zenon DEF RemadeSoFar
<1>7. ComponentsFollow'
  <2>1. CASE n = 3
    BY <1>2, <2>1 DEF ComponentsFollow, AllFollow
  <2>2. CASE n # 3
    BY <1>3, <2>2 DEF ComponentsFollow, Settled, NoUpload
  <2>3. QED
    BY <2>1, <2>2
<1> QED
  BY <1>4, <1>5, <1>6, <1>7 DEF IInv
-----------------------------------------------------------------------------
\* The task's state becomes s, and it leaves uploads and components alone; a task that
\* becomes active has the slot; the handle is replaced by an active task only, which goes
\* on to make the components anew or sets broken.
TaskMove(t, s) ==
  /\ s \in TaskState /\ s.n = 1 /\ s.at # "saving"
  /\ task' = [task EXCEPT ![t] = s]
  /\ task[t].at # "switched"
  /\ s.at \in Active => activeTask' = t /\ (task[t].at \in Active \/ NoUpload)
  /\ activeTask' = activeTask \/ \A q \in Tasks \ {t} : task[q].at \notin Active
  /\ \/ db' = db /\ broken' = broken /\ s.at # "switched"
     \/ task[t].at \in Active /\ (s.at = "switched" \/ broken')
  /\ path' \in Stores \cup {None} /\ opts' \in Kinds /\ broken' \in BOOLEAN
  /\ comp' = comp /\ up' = up

\* A TaskMove preserves the invariant: a task that replaces the handle holds the slot, so
\* that no other exchange has components made anew half-way.
LEMMA TaskMoves ==
  ASSUME IInv, NEW t \in Tasks, NEW s, TaskMove(t, s)
  PROVE  IInv'
<1> USE DEF TaskMove
<1>1. /\ Shape /\ task' \in [Tasks -> TaskState] /\ task'[t] = s
      /\ \A q \in Tasks \ {t} : task'[q] = task[q]
  BY DEF IInv, Shape
<1>2. Shape'
  BY <1>1 DEF Shape
<1>3. SlotHeld'
  BY <1>1 DEF IInv, SlotHeld
<1>4. OneExchange'
  BY <1>1 DEF IInv, OneExchange, InProgress, NoUpload
<1>5. db' # db => /\ \A q \in Tasks \ {t} : task[q].at \notin Active
                  /\ \A u \in Uploads : up[u].at # "reinit"
  BY DEF IInv, SlotHeld, OneExchange, InProgress
<1>6. RemadeSoFar'
  <2>1. \A u \in Uploads : IF up'[u].at = "reinit" THEN Remade(up[u].n)' ELSE up'[u].n = 1
    BY <1>5 DEF IInv, RemadeSoFar, Remade
  <2>2. ASSUME NEW q \in Tasks
        PROVE  /\ IF task'[q].at = "switched" THEN Remade(task[q].n)' ELSE task'[q].n = 1
               /\ task'[q].at = "saving" => AllFollow'
    <3>1. CASE q = t
      BY <1>1, <3>1, 1 .. 1 - 1 = {} DEF Remade
    <3>2. CASE q # t
      BY <1>1, <1>5, <3>2 DEF IInv, RemadeSoFar, Remade, AllFollow, Active
    <3>3. QED
      BY <3>1, <3>2
  <2>3. QED
    BY <2>1, <2>2, Zenon DEF RemadeSoFar
<1>7. ComponentsFollow'
  <2>1. CASE db' = db /\ broken' = broken
    BY <1>1, <2>1 DEF IInv, ComponentsFollow, Settled, NoUpload, RemadeSoFar, AllFollow
  <2>2. CASE s.at = "switched" \/ broken'
    BY <1>1, <2>2 DEF ComponentsFollow, Settled
  <2>3. QED
    BY <2>1, <2>2
<1> QED
  BY <1>2, <1>3, <1>4, <1>6, <1>7 DEF IInv

\* The same for a task.
LEMMA ReinitTaskStep ==
  ASSUME IInv, NEW t \in Tasks, ReinitTask(t)
  PROVE  IInv'
<1> USE DEF dbVars
<1>0. PICK n \in 1 .. 3 : n = task[t].n
  BY DEF IInv, Shape, TaskState
<1> DEFINE s == task'[t]
<1>1. /\ Shape /\ task[t] \in TaskState /\ task[t].at = "switched" /\ Remade(n)
      /\ \A q \in Tasks \ {t} : task[q].at \notin Active
      /\ \A u \in Uploads : up[u].at \in Quiet
  BY <1>0 DEF IInv, Shape, TaskState, RemadeSoFar, SlotHeld, OneExchange, InProgress, Quiet,
              Active, ReinitTask
<1>2. /\ comp' = [c \in Components |-> comp'[c]]
      /\ n # 3 => Remade(n + 1)'
      /\ n = 3 => AllFollow'
  <2>1. ReinitNext(n) /\ db' = db
    BY <1>0 DEF ReinitTask
  <2>2. QED
    BY <1>1, <2>1, RemadeNext DEF Shape
<1>3. /\ task' \in [Tasks -> TaskState]
      /\ \A q \in Tasks \ {t} : task'[q] = task[q]
      /\ n # 3 => s.at = "switched" /\ s.n = n + 1
      /\ n = 3 => s.at = "saving" /\ s.n = 1
  <2>1. Len(Reinits) = 3
    BY DEF Reinits
  <2>2. task' = [task EXCEPT ![t] = Advance(task[t], "saving")]
    BY DEF ReinitTask
  <2>3. LET a == Advance(task[t], "saving") IN
        /\ a \in TaskState
        /\ n # 3 => a.at = "switched" /\ a.n = n + 1
        /\ n = 3 => a.at = "saving" /\ a.n = 1
    <3>1. CASE n = 3
      <4> DEFINE b == [task[t] EXCEPT !.n = 1]
      <4>1. b \in TaskState /\ b.n = 1
        BY <1>1 DEF TaskState
      <4>2. Advance(task[t], "saving") = [b EXCEPT !.at = "saving"]
        BY <1>0, <2>1, <3>1 DEF Advance
      <4> HIDE DEF b
      <4>3. QED
        BY <3>1, <4>1, <4>2 DEF TaskState, Active
    <3>2. CASE n # 3
      <4>1. Advance(task[t], "saving") = [task[t] EXCEPT !.n = n + 1] /\ n + 1 \in 1 .. 3
        BY <1>0, <2>1, <3>2 DEF Advance
      <4>2. QED
        BY <1>1, <3>2, <4>1 DEF TaskState
    <3>3. QED
      BY <3>1, <3>2
  <2>4. QED
    BY <1>1, <2>2, <2>3 DEF Shape
<1>4. Shape'
  BY <1>1, <1>2, <1>3 DEF Shape, ReinitTask
<1>5. SlotHeld' /\ OneExchange'
  BY <1>1, <1>3 DEF IInv, SlotHeld, OneExchange, InProgress, ReinitTask, Quiet, Active
<1>6. RemadeSoFar'
  <2>1. \A u \in Uploads : up'[u].n = 1 /\ up'[u].at # "reinit"
    BY <1>1 DEF IInv, RemadeSoFar, ReinitTask, Quiet
  <2>2. /\ IF s.at = "switched" THEN Remade(task[t].n)' ELSE s.n = 1
        /\ s.at = "saving" => AllFollow'
    BY <1>2, <1>3 DEF Remade
  <2>3. \A q \in Tasks \ {t} : task'[q].n = 1 /\ task'[q].at \notin {"switched", "saving"}
    BY <1>1, <1>3 DEF IInv, RemadeSoFar, Active
  <2>4. QED
    BY <2>1, <2>2, <2>3, Zenon DEF RemadeSoFar
<1>7. ComponentsFollow'
  BY <1>3 DEF ComponentsFollow, Settled
<1> QED
  BY <1>4, <1>5, <1>6, <1>7 DEF IInv

\* Every other step of a task is a TaskMove.
LEMMA TaskStep ==
  ASSUME IInv, NEW t \in Tasks, Ask(t) \/ CreateTask(t) \/ Run(t), task[t].at # "switched"
  PROVE  \E s : TaskMove(t, s)
<1> USE DEF dbVars, MoveTask, TaskMove
<1> DEFINE to(stage) == [task[t] EXCEPT !.at = stage]
           ended == [NoTaskYet EXCEPT !.at = "ended"]
           asked == [task[t] EXCEPT !.at = "asked", !.source = opts]
<1>1. /\ Shape /\ task[t].n = 1 /\ File \in Stores /\ (task[t].at \in Active => activeTask = t)
      /\ path \in Stores \cup {None} /\ opts \in Kinds /\ broken \in BOOLEAN
  BY DEF IInv, RemadeSoFar, Shape, SlotHeld, File, Stores
<1>2. \A stage \in Active : to(stage) \in TaskState /\ to(stage).at = stage /\ to(stage).n = 1
  BY <1>1 DEF Shape, TaskState
<1>3. /\ ended \in TaskState /\ ended.at = "ended" /\ ended.n = 1
      /\ asked \in TaskState /\ asked.at = "asked" /\ asked.n = 1
      /\ NoTaskYet \in TaskState /\ NoTaskYet.at = "none" /\ NoTaskYet.n = 1
  BY <1>1 DEF NoTaskYet, Shape, TaskState, Kinds
<1> HIDE DEF to, ended, asked
<1>4. CASE Ask(t)
  <2>1. TaskMove(t, asked)
    BY <1>1, <1>3, <1>4 DEF Ask, asked, Active
  <2>2. QED
    BY <2>1
<1>5. CASE CreateTask(t)
  <2>1. CASE activeTask # None /\ task[activeTask].at \in Active
    <3>1. TaskMove(t, NoTaskYet)
      BY <1>1, <1>3, <1>5, <2>1 DEF CreateTask, Active
    <3>2. QED
      BY <3>1
  <2>2. CASE ~(activeTask # None /\ task[activeTask].at \in Active)
    <3>1. \A q \in Tasks : task[q].at \notin Active
      BY <2>2, SwitchAssumption DEF IInv, SlotHeld, SwitchAssumption
    <3>2. TaskMove(t, to("pending"))
      BY <1>1, <1>2, <1>5, <2>2, <3>1 DEF CreateTask, to, Active
    <3>3. QED
      BY <3>2
  <2>3. QED
    BY <2>1, <2>2
<1>6. CASE Prepare(t)
  <2>1. TaskMove(t, to("prepared")) \/ TaskMove(t, ended)
    BY <1>1, <1>2, <1>3, <1>6 DEF Prepare, EndTask, to, ended, Active
  <2>2. QED
    BY <2>1
<1>7. CASE CopyTables(t)
  <2>1. TaskMove(t, to("copied")) \/ TaskMove(t, ended)
    BY <1>1, <1>2, <1>3, <1>7 DEF CopyTables, EndTask, to, ended, Active
  <2>2. QED
    BY <2>1
<1>8. CASE Switch(t)
  <2>1. TaskMove(t, to("switched")) \/ TaskMove(t, ended)
    BY <1>1, <1>2, <1>3, <1>8, OpenedKind DEF Switch, EndTask, to, ended, Active
  <2>2. QED
    BY <2>1
<1>9. CASE Save(t)
  <2>1. TaskMove(t, ended)
    BY <1>1, <1>3, <1>9 DEF Save, EndTask, ended, Active
  <2>2. QED
    BY <2>1
<1>10. CASE FreeSlot(t)
  <2>1. TaskMove(t, NoTaskYet)
    BY <1>1, <1>3, <1>10 DEF FreeSlot, IInv, SlotHeld, Active
  <2>2. QED
    BY <2>1
<1> QED
  BY <1>4, <1>5, <1>6, <1>7, <1>8, <1>9, <1>10 DEF Run, ReinitTask
-----------------------------------------------------------------------------
\* Requests, and steps that change nothing, leave alone what the invariant is about.
LEMMA Unchanged ==
  ASSUME IInv, UNCHANGED <<dbVars, comp, up, task, activeTask, broken>>
  PROVE  IInv'
  BY DEF IInv, Shape, SlotHeld, OneExchange, InProgress, RemadeSoFar, Remade, AllFollow,
         ComponentsFollow, Settled, NoUpload, dbVars

\* Every step preserves the invariant.
LEMMA Inductive == ASSUME IInv, [Next]_vars PROVE IInv'
<1>1. CASE \E u \in Uploads : Close(u) \/ Upload(u)
  <2>1. PICK u \in Uploads : Close(u) \/ Upload(u)
    BY <1>1
  <2>2. CASE up[u].at # "reinit"
    BY <2>1, <2>2, UploadStep, UploadMoves
  <2>3. CASE up[u].at = "reinit"
    <3>1. ReinitUpload(u)
      BY <2>1, <2>3, Zenon DEF Close, Upload, MoveAway, WriteFile, OpenNew, RollBack,
                               RestoreDump, Reconnect
    <3>2. QED
      BY <3>1, ReinitUploadStep
  <2>4. QED
    BY <2>2, <2>3
<1>2. CASE \E t \in Tasks : Ask(t) \/ CreateTask(t) \/ Run(t)
  <2>1. PICK t \in Tasks : Ask(t) \/ CreateTask(t) \/ Run(t)
    BY <1>2
  <2>2. CASE task[t].at # "switched"
    BY <2>1, <2>2, TaskStep, TaskMoves
  <2>3. CASE task[t].at = "switched"
    <3>1. ReinitTask(t)
      BY <2>1, <2>3 DEF Ask, CreateTask, Run, Prepare, CopyTables, Switch, Save, FreeSlot
    <3>2. QED
      BY <3>1, ReinitTaskStep
  <2>4. QED
    BY <2>2, <2>3
<1>3. CASE \E r \in Requests : Request(r)
  BY <1>3, Unchanged DEF Request, Begin, TakeWriter, LogResult
<1>4. CASE UNCHANGED vars
  BY <1>4, Unchanged DEF vars, dbVars
<1> QED
  BY <1>1, <1>2, <1>3, <1>4 DEF Next

\* The invariant holds throughout.
LEMMA Invariant == Spec => []IInv
  BY InitInvariant, Inductive, PTL DEF Spec

\* Two migration tasks are never pending or running at once, for any number of calls of
\* StartDatabaseMigration: a task that is active holds the slot, and the slot is freed by
\* the task that holds it only.
THEOREM TasksExclude == Spec => []OneTask
<1>1. IInv => OneTask
  BY DEF IInv, SlotHeld, OneTask
<1> QED
  BY <1>1, Invariant, PTL

\* After every exchange that has gone well log writer, detail store and pending cleaner
\* work on the handle in force, for any sequence of uploads, restores and migrations.
THEOREM ComponentsAgree == Spec => []ComponentsFollow
<1>1. IInv => ComponentsFollow
  BY DEF IInv
<1> QED
  BY <1>1, Invariant, PTL
-----------------------------------------------------------------------------
(***************************************************************************)
(* ResultsKept.  Somewhere there is a database that holds the results: the  *)
(* one the handle is open on or, while an upload has moved it away, the     *)
(* backup; and what a task has copied holds them too.                       *)
(***************************************************************************)
Files == Stores \ {"pg"}
Away == {"moved", "written", "opened"}
KeptIn(s) == \A r \in kept : content[s][r] = "done"

Tables ==
  /\ content \in [Stores -> Rows] /\ kept \subseteq Requests
  /\ store \in Stores /\ opts = KindOf(store)
  /\ req = [r \in Requests |-> [at |-> req[r].at, writer |-> req[r].writer]]
  /\ \A r \in kept : req[r].at = "over"

\* SQLite's file is where SQLitePath says, unless an upload has moved it.
InPlace ==
  /\ (\A u \in Uploads : up[u].at # "moved") => path \in Files
  /\ (\A u \in Uploads : up[u].at \notin Away) /\ opts = "sqlite" => store = path

\* What is not yet uploaded is nowhere.
Unwritten ==
  \A u \in Uploads : up[u].at \in {"idle", "closed", "moved"} =>
    path # u /\ store # u /\ \A v \in Uploads : up[v].backup # u

\* While the file is away, nobody logs: the handle is closed, or new and in no hands.
Unused == db # 0 => /\ \A c \in Components : comp[c] # db
                    /\ \A r \in Requests : req[r].writer # db

Safe ==
  \A u \in Uploads :
    /\ up[u].at \in Away => /\ up[u].backup \in Files /\ KeptIn(up[u].backup)
                            /\ opts = "sqlite" /\ Unused /\ (up[u].at # "opened" => db = 0)
    /\ up[u].at \in {"closed", "restored"} => db = 0
    /\ up[u].at = "restored" => kept = {}

Home == (\A u \in Uploads : up[u].at \notin Away) => KeptIn(store)

Copied == \A t \in Tasks : task[t].at = "copied" => KeptIn(StoreOf(Target(t)))

RInv == Tables /\ InPlace /\ Unwritten /\ Safe /\ Home /\ Copied

\* The server starts on its file and has logged nothing.
LEMMA InitResults == Init => RInv
<1> SUFFICES ASSUME Init PROVE RInv
  OBVIOUS
<1> USE StoresAssumption DEF Init
<1>1. Tables
  BY DEF Tables, Stores, NoRows, Rows, KindOf
<1>2. InPlace /\ Unwritten
  BY DEF InPlace, Unwritten, Files, Stores
<1>3. Safe /\ Home
  BY DEF Safe, Home, KeptIn, Away
<1>4. Copied
  BY DEF Copied, NoTaskYet
<1> QED
  BY <1>1, <1>2, <1>3, <1>4 DEF RInv

\* There is always a number for a handle that nobody holds: there are more numbers than
\* holders.
LEMMA HandleFree == NewHandle \notin Held
<1> DEFINE C == {comp[c] : c \in Components}
           R == {req[r].writer : r \in Requests}
<1>1. IsFiniteSet(Components) /\ Cardinality(Components) \in Nat
  <2>1. Components = ({} \cup {"writer"} \cup {"details"}) \cup {"cleaner"}
    BY DEF Components
  <2>2. IsFiniteSet(Components)
    BY <2>1, FS_EmptySet, FS_AddElement
  <2> QED
    BY <2>2, FS_CardinalityType
<1>2. IsFiniteSet(Requests) /\ Cardinality(Requests) \in Nat
  BY StoresAssumption, FS_CardinalityType
<1>3. IsFiniteSet(C) /\ Cardinality(C) <= Cardinality(Components)
  <2> DEFINE f == [c \in Components |-> comp[c]]
  <2>1. f \in Surjection(Components, C)
    BY DEF Surjection
  <2> QED
    BY <1>1, <2>1, FS_Surjection
<1>4. IsFiniteSet(R) /\ Cardinality(R) <= Cardinality(Requests)
  <2> DEFINE f == [r \in Requests |-> req[r].writer]
  <2>1. f \in Surjection(Requests, R)
    BY DEF Surjection
  <2> QED
    BY <1>2, <2>1, FS_Surjection
<1> HIDE DEF C, R
<1>5. /\ IsFiniteSet(C \cup R)
      /\ Cardinality(C \cup R) <= Cardinality(Components) + Cardinality(Requests)
      /\ Cardinality(C \cup R) \in Nat
  <2>1. IsFiniteSet(C \cap R)
    BY <1>3, FS_Subset
  <2>2. /\ IsFiniteSet(C \cup R)
        /\ Cardinality(C \cup R) = Cardinality(C) + Cardinality(R) - Cardinality(C \cap R)
    BY <1>3, <1>4, FS_Union
  <2> QED
    BY <1>1, <1>2, <1>3, <1>4, <2>1, <2>2, FS_CardinalityType
<1>6. Held = (C \cup R) \cup {db}
  BY DEF Held, C, R
<1>7. /\ IsFiniteSet(Held)
      /\ Cardinality(Held) < Cardinality(Components) + Cardinality(Requests) + 2
  BY <1>1, <1>2, <1>5, <1>6, FS_AddElement
<1>8. Cardinality(Handles) = Cardinality(Components) + Cardinality(Requests) + 2
  BY <1>1, <1>2, FS_Interval DEF Handles
<1>9. PICK n \in Handles : n \notin Held
  <2>1. CASE Handles \subseteq Held
    <3>1. Cardinality(Handles) <= Cardinality(Held)
      BY <1>7, <2>1, FS_Subset
    <3> QED
      BY <1>1, <1>2, <1>7, <1>8, <3>1, FS_CardinalityType
  <2> QED
    BY <2>1
<1> DEFINE Free == Handles \ Held
<1>10. \E x \in Free : \A y \in Free : x <= y
  <2>1. Free \subseteq Nat /\ n \in Free
    BY <1>1, <1>2, <1>9 DEF Handles
  <2> HIDE DEF Free
  <2> QED
    <3> DEFINE less == {p \in Nat \X Nat : p[1] < p[2]}
    <3>1. IsWellFoundedOn(less, Nat)
      BY NatLessThanWellFounded, Zenon DEF OpToRel
    <3> HIDE DEF less
    <3>2. PICK x \in Free : \A y \in Free : ~ (<<y, x>> \in less)
      BY <2>1, <3>1, WFMin, Zenon
    <3>3. \A y \in Free : ~ (y < x)
      BY <2>1, <3>2 DEF less
    <3> QED
      BY <2>1, <3>3
<1> QED
  BY <1>10 DEF NewHandle, Min

\* An upload that makes a step is the only exchange.
LEMMA UploadAlone ==
  ASSUME IInv, NEW u \in Uploads, Close(u) \/ Upload(u)
  PROVE  /\ \A v \in Uploads \ {u} : up[v].at \in Quiet
         /\ \A t \in Tasks : task[t].at \notin Active
<1>1. InProgress(u) \/ (NoUpload /\ NoTask)
  BY DEF Close, Upload, MoveAway, WriteFile, OpenNew, RollBack, RestoreDump, Reconnect,
         ReinitUpload, InProgress
<1> QED
  BY <1>1 DEF IInv, OneExchange, InProgress, NoUpload, NoTask, Quiet

\* What a step of an upload must do so that the results are still somewhere; s is the state
\* it brings the upload to.
LEMMA UploadResults ==
  ASSUME IInv, RInv, NEW u \in Uploads, NEW s,
         up' = [up EXCEPT ![u] = s], s.at \in UploadStages, UNCHANGED <<task, req>>,
         \A v \in Uploads \ {u} : up[v].at \in Quiet,
         \A t \in Tasks : task[t].at \notin Active,
         Tables',
         \* where the file lies
         IF s.at = "moved" THEN path' = None ELSE path' \in {path, u, Backup(u)} /\ path' \in Files,
         s.at \notin Away /\ opts' = "sqlite" => store' = path',
         store' \in {store, u, path, Backup(u), "pg"},
         s.backup \in {None, path, Backup(u)},
         s.at \in {"idle", "closed", "moved"} =>
           /\ up[u].at \in {"idle", "closed", "moved"}
           /\ path' \in {path, None} /\ store' = store,
         \* where the results are
         s.at \in Away => /\ s.backup \in Files /\ opts' = "sqlite"
                          /\ \A r \in kept' : content'[s.backup][r] = "done"
                          /\ Unused' /\ (s.at # "opened" => db' = 0),
         s.at \in {"closed", "restored"} => db' = 0,
         s.at = "restored" => kept' = {},
         s.at \notin Away => KeptIn(store)'
  PROVE  RInv'
<1>1. /\ up'[u] = s /\ \A v \in Uploads \ {u} : up'[v] = up[v]
      /\ \A v \in Uploads \ {u} : up[v].at \notin Away \cup {"closed", "restored"}
  BY DEF IInv, Shape, Quiet, Away
<1>2. InPlace'
  BY <1>1 DEF InPlace, Away
<1>3. Unwritten'
  <2>1. ASSUME NEW v \in Uploads, up'[v].at \in {"idle", "closed", "moved"}
        PROVE  path' # v /\ store' # v /\ \A w \in Uploads : up'[w].backup # v
    <3>1. up[v].at \in {"idle", "closed", "moved"}
      BY <1>1, <2>1
    <3>2. /\ path # v /\ store # v /\ \A w \in Uploads : up[w].backup # v
          /\ Backup(u) # v /\ v # "pg" /\ v # None
      BY <3>1, StoresAssumption DEF RInv, Unwritten, Backup, Stores
    <3>3. path' # v /\ store' # v
      BY <1>1, <2>1, <3>2
    <3>4. \A w \in Uploads : up'[w].backup # v
      BY <1>1, <3>2
    <3> QED
      BY <3>3, <3>4
  <2> QED
    BY <2>1 DEF Unwritten
<1>4. Safe'
  <2>1. ASSUME NEW v \in Uploads
        PROVE  /\ up'[v].at \in Away => /\ up'[v].backup \in Files
                                        /\ \A r \in kept' : content'[up'[v].backup][r] = "done"
                                        /\ opts' = "sqlite" /\ Unused'
                                        /\ (up'[v].at # "opened" => db' = 0)
               /\ up'[v].at \in {"closed", "restored"} => db' = 0
               /\ up'[v].at = "restored" => kept' = {}
    <3>1. CASE v = u
      <4>1. up'[v] = s
        BY <1>1, <3>1
      <4> QED
        BY <4>1
    <3>2. CASE v # u
      BY <1>1, <3>2
    <3> QED
      BY <3>1, <3>2
  <2> QED
    BY <2>1 DEF Safe, KeptIn
<1>5. Home'
  BY <1>1 DEF Home
<1>6. Copied'
  BY DEF Copied, Active
<1> QED
  BY <1>2, <1>3, <1>4, <1>5, <1>6 DEF RInv

\* Each step of an upload keeps the results.
LEMMA UploadKeeps ==
  ASSUME IInv, RInv, NEW u \in Uploads, Close(u) \/ Upload(u)
  PROVE  RInv'
<1> USE UploadAlone DEF dbVars, MoveUpload
<1> DEFINE to(stage) == [up[u] EXCEPT !.at = stage]
           with(stage, b) == [up[u] EXCEPT !.at = stage, !.backup = b]
<1>0. /\ up[u] \in UploadState /\ Tables /\ Files \subseteq Stores /\ None \notin Files
      /\ u \in Files /\ "pg" \in Stores
      /\ \A v \in Uploads \ {u} : up[v].at \in Quiet
      /\ \A t \in Tasks : task[t].at \notin Active
  BY StoresAssumption DEF IInv, Shape, RInv, Files, Stores
<1>1. /\ \A stage : to(stage).at = stage /\ to(stage).backup = Backup(u)
      /\ \A stage, b : with(stage, b).at = stage /\ with(stage, b).backup = b
  BY <1>0 DEF UploadState, Backup
<1>2. /\ up[u].at # "moved" => path \in Files
      /\ up[u].at \notin Away /\ opts = "sqlite" => store = path
      /\ up[u].at \notin Away => KeptIn(store)
      /\ up[u].at \in Away => /\ Backup(u) \in Files /\ KeptIn(Backup(u)) /\ opts = "sqlite"
                              /\ (up[u].at # "opened" => db = 0)
      /\ up[u].at \in {"closed", "restored"} => db = 0
      /\ up[u].at = "restored" => kept = {}
  BY <1>0 DEF RInv, InPlace, Home, Safe, Backup, Quiet, Away
<1> HIDE DEF to, with
<1>3. \A s \in Files : KindOf(s) = "sqlite" /\ s # "pg"
  BY DEF KindOf, Files
<1>4. KindOf("pg") = "pg"
  BY DEF KindOf
<1>5. CASE Close(u)
  <2>1. /\ up[u].at = "idle" /\ db' = 0
        /\ UNCHANGED <<opts, store, path, content, comp, task, activeTask, req, kept>>
        /\ up' = [up EXCEPT ![u] = to("closed")] \/ up' = [up EXCEPT ![u] = to("failed")]
    BY <1>5 DEF Close, to
  <2>2. Tables' /\ KeptIn(store)'
    BY <1>0, <1>2, <2>1 DEF Tables, KeptIn, Away
  <2>3. ASSUME NEW stage \in {"closed", "failed"}, up' = [up EXCEPT ![u] = to(stage)] PROVE RInv'
    <3>1. PICK s : s = to(stage)
      OBVIOUS
    <3>2. s.at = stage /\ s.backup = Backup(u) /\ up' = [up EXCEPT ![u] = s]
      BY <1>1, <2>3, <3>1
    <3>3. path \in Files /\ (opts = "sqlite" => store = path) /\ stage \in UploadStages \ Away
      BY <1>2, <2>1 DEF Away, UploadStages
    <3> QED
      BY <1>0, <2>1, <2>2, <2>3, <3>2, <3>3, UploadResults
  <2> QED
    BY <2>1, <2>3
\* Every way back opens a file that has the results.
<1>6. ASSUME NEW f \in Files, KeptIn(f), Reopen(u, f), f \in {path, Backup(u)},
             UNCHANGED <<content, comp, task, activeTask, req, kept>>
      PROVE  RInv'
  <2>1. PICK s : s = with("failed", None)
    OBVIOUS
  <2>2. /\ s.at = "failed" /\ s.backup = None /\ up' = [up EXCEPT ![u] = s]
        /\ store' = f /\ opts' = "sqlite" /\ path' = f
    BY <1>1, <1>3, <1>6, <2>1 DEF Reopen, Open, with
  <2>3. Tables' /\ KeptIn(store)'
    BY <1>0, <1>3, <1>6, <2>2 DEF Tables, KeptIn
  <2> QED
    BY <1>0, <1>6, <2>2, <2>3, UploadResults DEF UploadStages, Away
<1>7. CASE MoveAway(u)
  <2>1. /\ up[u].at = "closed" /\ path \in Files /\ store = path /\ KeptIn(path) /\ db = 0
        /\ opts = "sqlite"
    BY <1>2, <1>7 DEF MoveAway, Away
  <2>2. CASE Reopen(u, path)
    BY <1>6, <1>7, <2>1, <2>2 DEF MoveAway
  <2>3. CASE ~Reopen(u, path)
    <3>1. PICK s : s = with("moved", path)
      OBVIOUS
    <3>2. /\ s.at = "moved" /\ s.backup = path /\ up' = [up EXCEPT ![u] = s] /\ path' = None
          /\ UNCHANGED <<db, opts, store, content, comp, task, activeTask, req, kept>>
      BY <1>1, <1>7, <2>3, <3>1 DEF MoveAway, with
    <3>3. Tables' /\ (\A r \in kept' : content'[path][r] = "done") /\ Unused'
      BY <1>0, <2>1, <3>2 DEF Tables, KeptIn, Unused
    <3> QED
      BY <1>0, <2>1, <3>2, <3>3, UploadResults DEF UploadStages, Away
  <2> QED
    BY <2>2, <2>3
<1>8. CASE WriteFile(u)
  <2>1. /\ up[u].at = "moved" /\ Backup(u) \in Files /\ KeptIn(Backup(u)) /\ db = 0
        /\ opts = "sqlite" /\ Backup(u) # u /\ store # u
    BY <1>2, <1>8 DEF WriteFile, Away, RInv, Unwritten, Backup
  <2>2. CASE Reopen(u, Backup(u))
    <3>1. UNCHANGED <<content, comp, task, activeTask, req, kept>>
      BY <1>8, <2>1, <2>2 DEF WriteFile, Reopen
    <3> QED
      BY <1>6, <2>1, <2>2, <3>1
  <2>3. CASE ~Reopen(u, Backup(u))
    <3>1. PICK s : s = to("written")
      OBVIOUS
    <3>2. /\ s.at = "written" /\ s.backup = Backup(u) /\ up' = [up EXCEPT ![u] = s] /\ path' = u
          /\ UNCHANGED <<db, opts, store, comp, task, activeTask, req, kept>>
      BY <1>1, <1>8, <2>3, <3>1 DEF WriteFile, to
    <3>3. PICK b \in Sources(u) : content' = [content EXCEPT ![u] = content[b]]
      BY <1>8, <2>3 DEF WriteFile
    <3>4. Sources(u) \subseteq Stores
      BY <1>0 DEF Sources, Backup, IInv, Shape, UploadState, Files
    <3>5. content' \in [Stores -> Rows]
      BY <1>0, <3>3, <3>4 DEF Tables
    <3>6. Tables' /\ Unused'
      BY <1>0, <2>1, <3>2, <3>5 DEF Tables, Unused
    <3>7. \A r \in kept' : content'[Backup(u)][r] = "done"
      BY <1>0, <2>1, <3>2, <3>3 DEF Tables, KeptIn, Files
    <3> QED
      BY <1>0, <2>1, <3>2, <3>6, <3>7, UploadResults DEF UploadStages, Away
  <2> QED
    BY <2>2, <2>3
<1>9. CASE OpenNew(u)
  <2>1. /\ up[u].at = "written" /\ Backup(u) \in Files /\ KeptIn(Backup(u)) /\ db = 0
        /\ opts = "sqlite" /\ path \in Files
    BY <1>2, <1>9 DEF OpenNew, Away
  <2>2. UNCHANGED <<path, content, comp, task, activeTask, req>>
    BY <1>9 DEF OpenNew
  <2>3. CASE Open(path) /\ MoveUpload(u, "reinit") /\ kept' = {}
    <3>1. PICK s : s = to("reinit")
      OBVIOUS
    <3>2. /\ s.at = "reinit" /\ s.backup = Backup(u) /\ up' = [up EXCEPT ![u] = s]
          /\ store' = path /\ opts' = "sqlite"
      BY <1>1, <1>3, <2>1, <2>3, <3>1 DEF Open, to
    <3>3. Tables' /\ KeptIn(store)'
      BY <1>0, <1>3, <2>1, <2>2, <2>3, <3>2 DEF Tables, KeptIn
    <3> QED
      BY <1>0, <2>1, <2>2, <3>2, <3>3, UploadResults DEF UploadStages, Away
  <2>4. CASE /\ Open(path) \/ UNCHANGED <<db, opts, store>>
             /\ MoveUpload(u, "opened") /\ UNCHANGED kept
    <3>1. PICK s : s = to("opened")
      OBVIOUS
    <3>2. /\ s.at = "opened" /\ s.backup = Backup(u) /\ up' = [up EXCEPT ![u] = s]
          /\ store' \in {store, path} /\ opts' = "sqlite" /\ store' \in Stores
          /\ opts' = KindOf(store')
      BY <1>0, <1>1, <1>3, <2>1, <2>4, <3>1 DEF Open, to, Tables
    <3>3. Tables' /\ \A r \in kept' : content'[Backup(u)][r] = "done"
      BY <1>0, <2>1, <2>2, <2>4, <3>2 DEF Tables, KeptIn
    <3>4. Unused'
      BY <2>1, <2>2, <2>4, HandleFree DEF Unused, Open, Held
    <3> QED
      BY <1>0, <2>1, <2>2, <3>2, <3>3, <3>4, UploadResults DEF UploadStages, Away
  <2> QED
    BY <1>9, <2>3, <2>4 DEF OpenNew
<1>10. CASE RollBack(u)
  BY <1>2, <1>6, <1>10 DEF RollBack, Away
<1>11. CASE RestoreDump(u)
  <2>1. /\ up[u].at = "closed" /\ opts = "pg" /\ store = "pg" /\ db = 0 /\ kept' = {}
        /\ path \in Files /\ UNCHANGED <<path, comp, task, activeTask, req>>
    BY <1>0, <1>2, <1>11 DEF RestoreDump, Tables, KindOf
  <2>2. PICK rows \in {content["pg"], content[u]} : content' = [content EXCEPT !["pg"] = rows]
    BY <1>11 DEF RestoreDump
  <2>3. content' \in [Stores -> Rows]
    BY <1>0, <2>2 DEF Tables, Files
  <2>4. store' = "pg" /\ opts' = "pg"
    BY <1>4, <1>11, <2>1 DEF RestoreDump, Open
  <2>5. Tables' /\ KeptIn(store)'
    BY <1>0, <1>4, <2>1, <2>3, <2>4 DEF Tables, KeptIn
  <2>6. PICK s : up' = [up EXCEPT ![u] = s] /\ s.backup = Backup(u) /\
                 (s.at = "reinit" \/ (s.at = "restored" /\ db' = 0))
    <3>1. CASE MoveUpload(u, "restored") /\ UNCHANGED db
      <4>1. PICK s : s = to("restored")
        OBVIOUS
      <4>2. up' = [up EXCEPT ![u] = s] /\ s.at = "restored" /\ s.backup = Backup(u) /\ db' = 0
        BY <1>1, <2>1, <3>1, <4>1 DEF to
      <4> QED
        BY <4>2
    <3>2. CASE up' = [up EXCEPT ![u] = [up[u] EXCEPT !.at = "reinit", !.ok = FALSE]]
      <4>1. PICK s : s = [up[u] EXCEPT !.at = "reinit", !.ok = FALSE]
        OBVIOUS
      <4>2. s.at = "reinit" /\ s.backup = Backup(u)
        BY <1>0, <4>1 DEF UploadState, Backup
      <4> QED
        BY <3>2, <4>1, <4>2
    <3> QED
      BY <1>11, <3>1, <3>2 DEF RestoreDump
  <2> QED
    BY <1>0, <2>1, <2>4, <2>5, <2>6, UploadResults DEF UploadStages, Away
<1>12. CASE Reconnect(u)
  <2>1. /\ up[u].at = "restored" /\ db = 0 /\ kept = {} /\ path \in Files
        /\ UNCHANGED <<path, content, comp, task, activeTask, req, kept>>
        /\ opts = "sqlite" => store = path
    BY <1>2, <1>12 DEF Reconnect, Away
  <2>2. /\ store' \in {store, "pg"} /\ store' \in Stores /\ opts' = KindOf(store')
        /\ opts' = "sqlite" => store' = path'
    BY <1>0, <1>4, <1>12, <2>1 DEF Reconnect, Open, Tables
  <2>3. Tables' /\ KeptIn(store)'
    BY <1>0, <2>1, <2>2 DEF Tables, KeptIn
  <2>4. PICK s : /\ up' = [up EXCEPT ![u] = s] /\ s.backup = Backup(u)
                 /\ s.at \in {"reinit", "failed"}
    <3>1. up' = [up EXCEPT ![u] = to("reinit")] \/ up' = [up EXCEPT ![u] = to("failed")]
      BY <1>12 DEF Reconnect, to
    <3> QED
      BY <1>1, <3>1
  <2> QED
    BY <1>0, <2>1, <2>2, <2>3, <2>4, UploadResults DEF UploadStages, Away
<1>13. CASE ReinitUpload(u)
  <2>1. /\ up[u].at = "reinit"
        /\ UNCHANGED <<db, opts, store, path, content, task, activeTask, req, kept>>
        /\ path \in Files /\ (opts = "sqlite" => store = path)
    BY <1>2, <1>13 DEF ReinitUpload, Away
  <2>2. Tables' /\ KeptIn(store)'
    BY <1>0, <1>2, <2>1 DEF Tables, KeptIn, Away
  <2>3. PICK s : /\ up' = [up EXCEPT ![u] = s] /\ s.backup = Backup(u)
                 /\ s.at \in {"reinit", "done", "failed"}
    <3>1. PICK stage \in {"done", "failed"} : up' = [up EXCEPT ![u] = Advance(up[u], stage)]
      BY <1>13 DEF ReinitUpload
    <3>2. Advance(up[u], stage).backup = Backup(u) /\ Advance(up[u], stage).at \in {"reinit", stage}
      BY <1>0, <2>1 DEF Advance, UploadState, Backup
    <3> QED
      BY <3>1, <3>2
  <2> QED
    BY <1>0, <2>1, <2>2, <2>3, UploadResults DEF UploadStages, Away
<1> QED
  BY <1>5, <1>7, <1>8, <1>9, <1>10, <1>11, <1>12, <1>13 DEF Upload

\* An active task is the only exchange; the database in use is its source, if that is the
\* kind the options say, and its target otherwise.
LEMMA TaskAlone ==
  ASSUME IInv, RInv, NEW t \in Tasks, task[t].at \in Active
  PROVE  /\ \A u \in Uploads : up[u].at \in Quiet
         /\ \A q \in Tasks \ {t} : task[q].at \notin Active
         /\ path \in Files /\ File = path /\ KeptIn(store)
         /\ opts = "sqlite" => store = path
         /\ StoreOf(task[t].source) # StoreOf(Target(t))
         /\ {StoreOf(task[t].source), StoreOf(Target(t))} = {path, "pg"}
         /\ store \in {StoreOf(task[t].source), StoreOf(Target(t))}
<1>1. /\ \A u \in Uploads : up[u].at \in Quiet
      /\ \A q \in Tasks \ {t} : task[q].at \notin Active
  BY DEF IInv, OneExchange, InProgress, SlotHeld, Quiet
<1>2. path \in Files /\ KeptIn(store) /\ (opts = "sqlite" => store = path)
  BY <1>1 DEF RInv, InPlace, Home, Quiet, Away
<1>3. File = path
  BY <1>2, StoresAssumption DEF File, Files
<1>4. Other("pg") = "sqlite" /\ Other("sqlite") = "pg"
  BY DEF Other, Kinds
<1>5. path # "pg" /\ (store = path \/ store = "pg")
  BY <1>2 DEF Files, RInv, Tables, KindOf
<1>6. task[t].source \in {"sqlite", "pg"}
  BY DEF IInv, Shape, TaskState, Kinds
<1> QED
  BY <1>1, <1>2, <1>3, <1>4, <1>5, <1>6 DEF Target, StoreOf

\* What a step of an active task must do so that the results are still somewhere; s is the
\* state it brings the task to.
LEMMA TaskResults ==
  ASSUME IInv, RInv, NEW t \in Tasks, NEW s,
         task[t].at \in Active, task' = [task EXCEPT ![t] = s],
         UNCHANGED <<path, up>>, Tables', KeptIn(store)',
         store' \in {store, path, "pg"}, opts' = "sqlite" => store' = path,
         s.at = "copied" => KeptIn(StoreOf(Other(s.source)))'
  PROVE  RInv'
<1>1. /\ \A u \in Uploads : up[u].at \in Quiet
      /\ \A q \in Tasks \ {t} : task[q].at \notin Active
      /\ path \in Files
  BY TaskAlone
<1>2. InPlace' /\ Home' /\ Safe'
  BY <1>1 DEF InPlace, Home, Safe, Quiet, Away
<1>3. Unwritten'
  BY StoresAssumption DEF RInv, Unwritten
<1>4. Copied'
  <2>1. task'[t] = s /\ \A q \in Tasks \ {t} : task'[q] = task[q]
    BY DEF IInv, Shape
  <2>2. \A q \in Tasks : task'[q].at = "copied" => q = t
    BY <1>1, <2>1 DEF Active
  <2> QED
    BY <2>1, <2>2 DEF Copied, Target
<1> QED
  BY <1>2, <1>3, <1>4 DEF RInv

\* So it is, a fortiori, when a task changes its state only, and has not just copied.
LEMMA TaskRests ==
  ASSUME IInv, RInv, NEW t \in Tasks, NEW s, task' = [task EXCEPT ![t] = s], s.at # "copied",
         UNCHANGED <<dbVars, content, comp, up, req, kept>>
  PROVE  RInv'
<1> USE DEF dbVars
<1>1. \A q \in Tasks : task'[q].at = "copied" => task'[q] = task[q]
  BY DEF IInv, Shape
<1>2. Tables' /\ InPlace' /\ Unwritten' /\ Home'
  BY DEF RInv, Tables, InPlace, Unwritten, Home, KeptIn
<1>3. Safe'
  BY DEF RInv, Safe, KeptIn, Unused
<1>4. Copied'
  BY <1>1 DEF RInv, Copied, KeptIn, Target, StoreOf, File
<1> QED
  BY <1>2, <1>3, <1>4 DEF RInv

\* Rows that a copy finds are never lost, and it takes those along that the target lacks.
LEMMA Copying ==
  ASSUME NEW from \in Rows, NEW to \in Rows, NEW copied
  PROVE  /\ CopyRows(from, to, copied) \in Rows
         /\ \A r \in Requests : to[r] = "done" => CopyRows(from, to, copied)[r] = "done"
         /\ ~Collide(from, to) =>
              \A r \in Requests : from[r] = "done" => CopyRows(from, to, Requests)[r] = "done"
  BY DEF Rows, CopyRows, Collide

\* Each step of a task keeps the results.
LEMMA TaskKeeps ==
  ASSUME IInv, RInv, NEW t \in Tasks, Ask(t) \/ CreateTask(t) \/ Run(t)
  PROVE  RInv'
<1> USE DEF dbVars, MoveTask, EndTask
<1> DEFINE to(stage) == [task[t] EXCEPT !.at = stage]
           ended == [NoTaskYet EXCEPT !.at = "ended"]
           target == StoreOf(Target(t))
           source == StoreOf(task[t].source)
<1>1. /\ \A stage : to(stage).at = stage /\ to(stage).source = task[t].source
      /\ ended.at = "ended" /\ NoTaskYet.at = "none"
  BY DEF IInv, Shape, TaskState, NoTaskYet
<1>2. /\ Tables /\ Files \subseteq Stores /\ "pg" \in Stores
  BY DEF RInv, Files, Stores
<1>3. task[t].at \in Active =>
        /\ path \in Files /\ File = path /\ KeptIn(store) /\ (opts = "sqlite" => store = path)
        /\ source # target /\ {source, target} = {path, "pg"} /\ store \in {source, target}
  BY TaskAlone
<1>4. ASSUME NEW s, s.source = task[t].source, UNCHANGED path
      PROVE  StoreOf(Other(s.source))' = target
  BY <1>4 DEF Target, StoreOf, File
<1> HIDE DEF to, ended, source, target
<1>5. CASE Ask(t)
  <2>1. PICK s : s = [task[t] EXCEPT !.at = "asked", !.source = opts]
    OBVIOUS
  <2>2. s.at = "asked"
    BY <2>1 DEF IInv, Shape, TaskState
  <2> QED
    BY <1>5, <2>1, <2>2, TaskRests DEF Ask
<1>6. CASE CreateTask(t)
  <2>1. PICK s : task' = [task EXCEPT ![t] = s] /\ s.at # "copied"
    <3>1. \/ task' = [task EXCEPT ![t] = NoTaskYet]
          \/ task' = [task EXCEPT ![t] = to("pending")]
      BY <1>6 DEF CreateTask, to
    <3> QED
      BY <1>1, <3>1
  <2> QED
    BY <1>1, <1>6, <2>1, TaskRests DEF CreateTask
<1>7. CASE Prepare(t)
  <2>1. /\ task[t].at \in Active /\ UNCHANGED <<db, opts, store, path, comp, up, req>>
    BY <1>7 DEF Prepare, Active
  <2>2. PICK s : task' = [task EXCEPT ![t] = s] /\ s.at \in {"prepared", "ended"}
    <3>1. PICK s \in {to("prepared"), ended} : task' = [task EXCEPT ![t] = s]
      BY <1>7 DEF Prepare, to, ended
    <3> QED
      BY <1>1, <3>1
  <2>3. \/ /\ content' = [content EXCEPT ![target] = NoRows]
           /\ kept' = IF target = store THEN {} ELSE kept
        \/ UNCHANGED <<content, kept>>
    BY <1>7 DEF Prepare, target
  <2>4. NoRows \in Rows
    BY DEF NoRows, Rows
  <2>5. Tables' /\ KeptIn(store)'
    BY <1>2, <1>3, <2>1, <2>3, <2>4 DEF Tables, KeptIn
  <2> QED
    BY <1>2, <1>3, <2>1, <2>2, <2>5, TaskResults
<1>8. CASE CopyTables(t)
  <2>1. /\ task[t].at \in Active /\ UNCHANGED <<db, opts, store, path, comp, up, req, kept>>
    BY <1>8 DEF CopyTables, Active
  <2>2. source \in Stores /\ target \in Stores /\ source # target /\ store \in {source, target}
    BY <1>2, <1>3, <2>1
  <2>3. content[source] \in Rows /\ content[target] \in Rows /\ kept \subseteq Requests
    BY <1>2, <2>2 DEF Tables
  <2>4. PICK copied, s :
          /\ content' = [content EXCEPT ![target] =
                           CopyRows(content[source], content[target], copied)]
          /\ task' = [task EXCEPT ![t] = s]
          /\ \/ s = ended
             \/ s = to("copied") /\ copied = Requests
                                 /\ ~Collide(content[source], content[target])
    BY <1>8 DEF CopyTables, to, ended, source, target
  <2> DEFINE rows == CopyRows(content[source], content[target], copied)
  <2>5. /\ rows \in Rows /\ content' \in [Stores -> Rows] /\ content'[target] = rows
        /\ \A x \in Stores \ {target} : content'[x] = content[x]
        /\ \A r \in kept : content[target][r] = "done" => rows[r] = "done"
    <3>1. rows \in Rows /\ \A r \in Requests : content[target][r] = "done" => rows[r] = "done"
      BY <2>3, Copying
    <3> HIDE DEF rows
    <3>2. content' = [content EXCEPT ![target] = rows]
      BY <2>4 DEF rows
    <3> QED
      BY <1>2, <2>2, <2>3, <3>1, <3>2 DEF Tables
  <2>6. \A r \in kept : content[store][r] = "done"
    BY <1>3, <2>1 DEF KeptIn
  <2>7. Tables' /\ \A r \in kept : content'[store][r] = "done"
    <3> HIDE DEF rows
    <3> QED
      BY <1>2, <2>1, <2>2, <2>5, <2>6 DEF Tables
  <2>8. s.at = "copied" => \A r \in kept : content'[target][r] = "done"
    <3>1. CASE store = target
      BY <2>7, <3>1
    <3>2. CASE s = to("copied") /\ store = source
      <4>1. \A r \in Requests : content[source][r] = "done" => rows[r] = "done"
        BY <1>1, <2>3, <2>4, <3>2, Copying
      <4> QED
        BY <2>3, <2>5, <2>6, <3>2, <4>1
    <3> QED
      BY <1>1, <2>2, <2>4, <3>1, <3>2
  <2>9. s.at = "copied" => KeptIn(StoreOf(Other(s.source)))'
    BY <1>1, <1>4, <2>1, <2>4, <2>8 DEF KeptIn
  <2> QED
    BY <1>3, <2>1, <2>4, <2>7, <2>9, TaskResults DEF KeptIn
<1>9. CASE Switch(t)
  <2>1. /\ task[t].at = "copied" /\ task[t].at \in Active
        /\ UNCHANGED <<content, comp, up, req, kept>>
    BY <1>9 DEF Switch, Active
  <2>2. UNCHANGED path
    BY <1>3, <1>9, <2>1 DEF Switch
  <2>3. KeptIn(target) /\ target \in {path, "pg"}
    BY <1>3, <2>1 DEF RInv, Copied, target
  <2>4. PICK s : task' = [task EXCEPT ![t] = s] /\ s.at # "copied"
    <3>1. PICK s \in {to("switched"), ended} : task' = [task EXCEPT ![t] = s]
      BY <1>9 DEF Switch, to, ended
    <3> QED
      BY <1>1, <3>1
  <2>5. Open(target) \/ UNCHANGED <<opts, store>>
    BY <1>9 DEF Switch, target
  <2>6. /\ store' \in {store, target} /\ opts' = KindOf(store') /\ KeptIn(store)'
        /\ (opts' = "sqlite" => store' = path)
    BY <1>2, <1>3, <2>1, <2>3, <2>5 DEF Open, KeptIn, KindOf, Tables
  <2>7. Tables'
    BY <1>2, <1>3, <2>1, <2>2, <2>3, <2>6 DEF Tables
  <2> QED
    BY <2>1, <2>2, <2>3, <2>4, <2>6, <2>7, TaskResults
<1>10. CASE ReinitTask(t)
  <2>1. /\ task[t].at \in Active
        /\ UNCHANGED <<db, opts, store, path, content, up, req, kept>>
    BY <1>10 DEF ReinitTask, Active
  <2>2. PICK s : task' = [task EXCEPT ![t] = s] /\ s.at \in {"switched", "saving"}
    <3>1. Advance(task[t], "saving").at \in {"switched", "saving"}
      BY <1>10 DEF ReinitTask, Advance, IInv, Shape, TaskState
    <3> QED
      BY <1>10, <3>1 DEF ReinitTask
  <2>3. Tables' /\ KeptIn(store)'
    BY <1>2, <1>3, <2>1 DEF Tables, KeptIn
  <2> QED
    BY <1>3, <2>1, <2>2, <2>3, TaskResults
<1>11. CASE Save(t)
  <2>1. task' = [task EXCEPT ![t] = ended]
    BY <1>11 DEF Save, ended
  <2> QED
    BY <1>1, <1>11, <2>1, TaskRests DEF Save
<1>12. CASE FreeSlot(t)
  BY <1>1, <1>12, TaskRests DEF FreeSlot
<1> QED
  BY <1>5, <1>6, <1>7, <1>8, <1>9, <1>10, <1>11, <1>12 DEF Run
-----------------------------------------------------------------------------
\* What a request must do so that the results are still somewhere.
LEMMA RequestResults ==
  ASSUME IInv, RInv, UNCHANGED <<dbVars, comp, up, task>>, Tables', Unused => Unused',
         \A s \in Stores : \A r \in kept : content[s][r] = "done" => content'[s][r] = "done",
         \/ kept' = kept
         \/ KeptIn(store)' /\ ~Unused /\ NoTask /\ db # 0
  PROVE  RInv'
<1> USE DEF dbVars
<1>1. InPlace' /\ Unwritten'
  BY DEF RInv, InPlace, Unwritten
<1>2. Safe'
  <2>1. CASE kept' = kept
    BY <2>1 DEF RInv, Safe, KeptIn, Files
  <2>2. CASE ~Unused /\ db # 0
    BY <2>2 DEF RInv, Safe
  <2> QED
    BY <2>1, <2>2
<1>3. Home'
  BY DEF RInv, Home, KeptIn, Tables
<1>4. Copied'
  <2>1. CASE kept' = kept
    <3>1. ASSUME NEW t \in Tasks, task[t].at = "copied"
          PROVE  KeptIn(StoreOf(Target(t)))'
      <4>1. StoreOf(Target(t))' = StoreOf(Target(t)) /\ KeptIn(StoreOf(Target(t)))
        BY <3>1 DEF StoreOf, Target, File, RInv, Copied
      <4>2. StoreOf(Target(t)) \in Stores
        BY DEF IInv, Shape, StoreOf, File, Stores
      <4> QED
        BY <2>1, <4>1, <4>2 DEF KeptIn
    <3> QED
      BY <3>1 DEF Copied
  <2>2. CASE NoTask
    BY <2>2 DEF Copied, NoTask, Active
  <2> QED
    BY <2>1, <2>2
<1> QED
  BY <1>1, <1>2, <1>3, <1>4 DEF RInv

\* Each step of a request keeps the results: it begins before it has one, and it logs with
\* the handle in force, which is in no hands while the file is away.
LEMMA RequestKeeps ==
  ASSUME IInv, RInv, NEW r \in Requests, Request(r)
  PROVE  RInv'
<1> USE DEF dbVars
<1>1. /\ Tables /\ req[r] = [at |-> req[r].at, writer |-> req[r].writer]
      /\ store \in Stores /\ content \in [Stores -> Rows] /\ kept \subseteq Requests
      /\ \A k \in kept : req[k].at = "over"
      /\ DOMAIN req = Requests
  BY DEF RInv, Tables
<1>2. ASSUME NEW x \in {"pending", "done"}, content' = [content EXCEPT ![store][r] = x]
      PROVE  /\ content' \in [Stores -> Rows] /\ content'[store][r] = x
             /\ \A s \in Stores, k \in Requests :
                  k # r => content'[s][k] = content[s][k]
             /\ \A s \in Stores : content'[s][r] \in {x, content[s][r]}
  BY <1>1, <1>2 DEF Rows
<1>3. CASE Begin(r)
  <2>1. /\ req[r].at = "new" /\ r \notin kept /\ UNCHANGED <<dbVars, comp, up, task, kept>>
        /\ req' = [req EXCEPT ![r].at = "sent"]
    BY <1>1, <1>3 DEF Begin
  <2>2. /\ content' \in [Stores -> Rows]
        /\ \A s \in Stores, k \in Requests : k # r => content'[s][k] = content[s][k]
    BY <1>1, <1>2, <1>3 DEF Begin
  <2>3. /\ req' = [k \in Requests |-> [at |-> req'[k].at, writer |-> req'[k].writer]]
        /\ \A k \in Requests : req'[k].writer = req[k].writer
        /\ \A k \in Requests \ {r} : req'[k] = req[k]
    BY <1>1, <2>1 DEF Tables
  <2>4. Tables' /\ (Unused => Unused')
    BY <1>1, <2>1, <2>2, <2>3 DEF Tables, Unused
  <2> QED
    BY <1>1, <2>1, <2>2, <2>4, RequestResults
<1>4. CASE TakeWriter(r)
  <2>1. /\ req[r].at = "sent" /\ r \notin kept
        /\ UNCHANGED <<dbVars, content, comp, up, task, kept>>
        /\ req' = [req EXCEPT ![r] = [at |-> "logging", writer |-> comp["writer"]]]
    BY <1>1, <1>4 DEF TakeWriter
  <2>2. /\ req' = [k \in Requests |-> [at |-> req'[k].at, writer |-> req'[k].writer]]
        /\ \A k \in Requests \ {r} : req'[k] = req[k]
        /\ req'[r].writer = comp["writer"]
    BY <1>1, <2>1 DEF Tables
  <2>3. Tables' /\ (Unused => Unused')
    BY <1>1, <2>1, <2>2 DEF Tables, Unused, Components
  <2> QED
    BY <2>1, <2>3, RequestResults
<1>5. CASE LogResult(r)
  <2>1. /\ UNCHANGED <<dbVars, comp, up, task>> /\ req[r].at = "logging" /\ r \notin kept
        /\ req' = [req EXCEPT ![r] = [at |-> "over", writer |-> 0]]
    BY <1>1, <1>5 DEF LogResult
  <2>2. /\ req' = [k \in Requests |-> [at |-> req'[k].at, writer |-> req'[k].writer]]
        /\ \A k \in Requests \ {r} : req'[k] = req[k]
        /\ req'[r].at = "over" /\ req'[r].writer = 0
    BY <1>1, <2>1 DEF Tables
  <2>3. Unused => Unused'
    BY <2>1, <2>2 DEF Unused
  <2>4. CASE db # 0 /\ req[r].writer = db
    <3>1. /\ content' \in [Stores -> Rows] /\ content'[store][r] = "done"
          /\ \A s \in Stores, k \in Requests : k # r => content'[s][k] = content[s][k]
      BY <1>2, <1>5, <2>4 DEF LogResult
    <3>2. kept' = kept \/ (NoTask /\ kept' = kept \cup {r})
      BY <1>5, <2>4 DEF LogResult
    <3>3. ~Unused
      BY <2>4 DEF Unused
    <3>4. Tables'
      BY <1>1, <2>1, <2>2, <3>1, <3>2 DEF Tables
    <3>5. \A s \in Stores : \A k \in kept : content[s][k] = "done" => content'[s][k] = "done"
      BY <1>1, <2>1, <3>1
    <3>6. KeptIn(store)'
      <4>1. KeptIn(store)
        BY <2>4, <3>3 DEF RInv, Home, Safe
      <4> QED
        BY <1>1, <2>1, <3>1, <3>2, <3>5, <4>1 DEF KeptIn
    <3> QED
      BY <2>1, <2>3, <2>4, <3>2, <3>3, <3>4, <3>5, <3>6, RequestResults
  <2>5. CASE ~(db # 0 /\ req[r].writer = db)
    <3>1. UNCHANGED <<content, kept>>
      BY <1>5, <2>5 DEF LogResult
    <3>2. Tables'
      BY <1>1, <2>1, <2>2, <3>1 DEF Tables
    <3> QED
      BY <2>1, <2>3, <3>1, <3>2, RequestResults
  <2> QED
    BY <2>4, <2>5
<1> QED
  BY <1>3, <1>4, <1>5 DEF Request

\* Every step keeps the results.
LEMMA ResultsInductive == ASSUME IInv, RInv, [Next]_vars PROVE RInv'
<1>1. CASE UNCHANGED vars
  BY <1>1 DEF vars, dbVars, RInv, Tables, InPlace, Unwritten, Safe, Home, Copied, KeptIn,
              Unused, StoreOf, Target, File
<1> QED
  BY <1>1, UploadKeeps, TaskKeeps, RequestKeeps DEF Next

\* Whatever uploads, restores and tasks do, and whichever of their steps fails, the
\* database in use holds every result that was logged to it or to the one it took over
\* from: for any number of exchanges and requests.
THEOREM ResultsStored == Spec => []ResultsKept
<1>1. RInv => ResultsKept
  BY DEF RInv, Home, KeptIn, ResultsKept, Settled, NoUpload, Away
<1>2. Init /\ [][Next]_vars => [](IInv /\ RInv)
  BY InitInvariant, InitResults, Inductive, ResultsInductive, PTL
<1> QED
  BY <1>1, <1>2, PTL DEF Spec
=============================================================================
