---------------------------- MODULE DetailStore -----------------------------
(***************************************************************************)
(* RequestDetailStore: the headers and bodies of requests, kept in memory  *)
(* while they are being captured, moved to the table request_log_details   *)
(* (hot) when an entry has been idle for the TTL, and from there to the    *)
(* archive when the row is older than the archive threshold.  One cleanup  *)
(* goroutine moves them, in several steps between which requests store     *)
(* more, an administrator reads (Get) and the process may stop.  Any query *)
(* may fail, and a process that could not open the archive has none.       *)
(*                                                                         *)
(* The parts of a detail are abstract; a time is only what the code        *)
(* compares it with: an entry is idle or not, a row is old or not.         *)
(***************************************************************************)
EXTENDS Naturals

CONSTANTS
  Requests,         \* requests whose details are captured
  None,             \* no entry, no row
  MaxCrashes        \* bound on the times the process stops

\* UpdateRequestData, UpdateTranslatedRequest*, UpdateResponseData, in this order.
Parts == {"request", "translated", "response"}
Before(p) == CASE p = "request" -> {}
               [] p = "translated" -> {"request"}
               [] p = "response" -> {"request"}

VARIABLES
  mem,              \* s.details: the entry of each request, or None
  hot,              \* request_log_details: the row of each request, or None
  arch,             \* the archive's row of each request: its parts, or None
  archiveDB,        \* whether this process has the archive (s.archiveDB # nil)
  stored,           \* the parts each request has handed to the store
  ended,            \* requests that will store no more
  excused,          \* requests of which the store promises nothing any more
  cleaner,          \* the cleanup goroutine
  reader,           \* one call of Get
  crashes

vars == <<mem, hot, arch, archiveDB, stored, ended, excused, cleaner, reader, crashes>>

Entry == [parts : SUBSET Parts, idle : BOOLEAN]
Row == [parts : SUBSET Parts, old : BOOLEAN]

ASSUME DetailAssumption ==
  None \notin Entry \cup Row /\ \A parts \in SUBSET Parts : parts # None

\* snap: the entries to persist or the rows to archive, as they were read.
CleanerAt == {"sleep", "persist", "remove", "archive", "copied"}
Asleep == [at |-> "sleep", snap |-> [r \in Requests |-> None], left |-> {}, saved |-> {}]
\* failed: a query of this Get failed, or it needed an archive that is not there.
NotReading == [at |-> "idle", want |-> {}, got |-> {}, failed |-> FALSE]

Absent(r) == mem[r] = None

\* What a Get that starts now must return.
Promised(r) == IF r \in excused THEN {} ELSE stored[r]
-----------------------------------------------------------------------------
Init ==
  /\ mem = [r \in Requests |-> None]
  /\ hot = [r \in Requests |-> None]
  /\ arch = [r \in Requests |-> None]
  /\ archiveDB \in BOOLEAN
  /\ stored = [r \in Requests |-> {}]
  /\ ended = {}
  /\ excused = {}
  /\ cleaner = Asleep
  /\ reader = [r \in Requests |-> NotReading]
  /\ crashes = 0

\* The entry of r with part p, created if it is not there.
With(r, p) ==
  [parts |-> (IF Absent(r) THEN {} ELSE mem[r].parts) \cup {p}, idle |-> FALSE]

\* Update*: under the lock.  A part that comes when the entry has been idle for the TTL,
\* or is gone, is late: the entry may be in the hands of the cleaner, or already moved.
StorePart(r, p) ==
  /\ r \notin ended
  /\ p \notin stored[r] /\ Before(p) \subseteq stored[r]
  /\ "response" \notin stored[r]
  /\ mem' = [mem EXCEPT ![r] = With(r, p)]
  /\ stored' = [stored EXCEPT ![r] = @ \cup {p}]
  /\ excused' = IF stored[r] # {} /\ (Absent(r) \/ mem[r].idle) THEN excused \cup {r}
                                                                ELSE excused
  /\ UNCHANGED <<hot, arch, archiveDB, ended, cleaner, reader, crashes>>

End(r) ==
  /\ stored[r] # {} /\ r \notin ended
  /\ ended' = ended \cup {r}
  /\ UNCHANGED <<mem, hot, arch, archiveDB, stored, excused, cleaner, reader, crashes>>

\* The TTL of five minutes passes without an update.
GoIdle(r) ==
  /\ ~Absent(r) /\ ~mem[r].idle
  /\ mem' = [mem EXCEPT ![r].idle = TRUE]
  /\ UNCHANGED <<hot, arch, archiveDB, stored, ended, excused, cleaner, reader, crashes>>

\* The archive threshold, at least a day, passes after created_at.  By then the request
\* is over and its entry is in the table.
GrowOld(r) ==
  /\ hot[r] # None /\ ~hot[r].old
  /\ r \in ended /\ Absent(r)
  /\ hot' = [hot EXCEPT ![r].old = TRUE]
  /\ UNCHANGED <<mem, arch, archiveDB, stored, ended, excused, cleaner, reader, crashes>>
-----------------------------------------------------------------------------
(* cleanup *)

\* Under the read lock: the idle entries are copied.
Snapshot ==
  /\ cleaner.at = "sleep"
  /\ LET expired == {r \in Requests : ~Absent(r) /\ mem[r].idle} IN
     cleaner' = [at |-> "persist", left |-> expired, saved |-> {},
                 snap |-> [r \in Requests |-> IF r \in expired THEN mem[r].parts ELSE None]]
  /\ UNCHANGED <<mem, hot, arch, archiveDB, stored, ended, excused, reader, crashes>>

\* persistToDB: INSERT ... ON CONFLICT DO UPDATE of every column.
Upsert(r, parts) == [parts |-> parts, old |-> FALSE]

\* Without the lock, one copy after the other; an error leaves the entry in memory.
Persist(r) ==
  /\ cleaner.at = "persist" /\ r \in cleaner.left
  /\ \/ /\ hot' = [hot EXCEPT ![r] = Upsert(r, cleaner.snap[r])]
        /\ cleaner' = [cleaner EXCEPT !.left = @ \ {r}, !.saved = @ \cup {r}]
     \/ /\ cleaner' = [cleaner EXCEPT !.left = @ \ {r}]
        /\ UNCHANGED hot
  /\ UNCHANGED <<mem, arch, archiveDB, stored, ended, excused, reader, crashes>>

\* Mutant: every entry that had expired goes, also when the database refused it.
RemoveExpired ==
  /\ cleaner.at = "persist" /\ cleaner.left = {}
  /\ mem' = [r \in Requests |-> IF cleaner.snap[r] # None THEN None ELSE mem[r]]
  /\ cleaner' = [Asleep EXCEPT !.at = "archive"]
  /\ UNCHANGED <<hot, arch, archiveDB, stored, ended, excused, reader, crashes>>

\* Mutant: only entries marked Persisted go, and nothing marks them.
RemoveMarked ==
  /\ cleaner.at = "persist" /\ cleaner.left = {}
  /\ cleaner' = [Asleep EXCEPT !.at = "archive"]
  /\ UNCHANGED <<mem, hot, arch, archiveDB, stored, ended, excused, reader, crashes>>

\* Under the lock: the entries whose copy was saved are deleted, as they are now.
RemoveSaved ==
  /\ cleaner.at = "persist" /\ cleaner.left = {}
  /\ mem' = [r \in Requests |-> IF r \in cleaner.saved THEN None ELSE mem[r]]
  /\ cleaner' = [Asleep EXCEPT !.at = "archive"]
  /\ UNCHANGED <<hot, arch, archiveDB, stored, ended, excused, reader, crashes>>
-----------------------------------------------------------------------------
(* archiveOldDetails *)

OldRows == {r \in Requests : hot[r] # None /\ hot[r].old}

\* No archive, not due yet, nothing to archive, the query fails.
SkipArchive ==
  /\ cleaner.at = "archive"
  /\ cleaner' = Asleep
  /\ UNCHANGED <<mem, hot, arch, archiveDB, stored, ended, excused, reader, crashes>>

\* Mutant: the transactions are swapped, the rows leave the table first.
CopyBatchAfterDelete ==
  /\ cleaner.at = "archive" /\ archiveDB
  /\ \E batch \in SUBSET OldRows \ {{}} :
       /\ hot' = [r \in Requests |-> IF r \in batch THEN None ELSE hot[r]]
       /\ cleaner' = [Asleep EXCEPT !.at = "copied", !.left = batch]
  /\ UNCHANGED <<mem, arch, archiveDB, stored, ended, excused, reader, crashes>>

\* Phase 1: the batch is read and inserted in one transaction of the archive, ON
\* CONFLICT DO NOTHING.
CopyBatch ==
  /\ cleaner.at = "archive" /\ archiveDB
  /\ \E batch \in SUBSET OldRows \ {{}} :
       /\ arch' = [r \in Requests |->
                     IF r \in batch /\ arch[r] = None THEN hot[r].parts ELSE arch[r]]
       /\ cleaner' = [Asleep EXCEPT !.at = "copied", !.left = batch]
  /\ UNCHANGED <<mem, hot, archiveDB, stored, ended, excused, reader, crashes>>

\* Phase 2: every row of the batch is found in the archive; one transaction deletes them
\* from the table.  Any error leaves them in both.
DeleteBatch ==
  /\ cleaner.at = "copied"
  /\ \/ /\ \A r \in cleaner.left : arch[r] # None
        /\ hot' = [r \in Requests |-> IF r \in cleaner.left THEN None ELSE hot[r]]
     \/ UNCHANGED hot
  /\ cleaner' = Asleep
  /\ UNCHANGED <<mem, arch, archiveDB, stored, ended, excused, reader, crashes>>
-----------------------------------------------------------------------------
(* Get *)

\* getFromDB: the parts of a row; an error counts as no row.
Archived(r) == IF arch[r] = None THEN {} ELSE arch[r]

ReadMemory(r) ==
  /\ reader[r].at = "idle"
  /\ reader' = [reader EXCEPT ![r] =
       [NotReading EXCEPT !.at = IF Absent(r) THEN "hot" ELSE "done",
                          !.want = Promised(r),
                          !.got = IF Absent(r) THEN {} ELSE mem[r].parts]]
  /\ UNCHANGED <<mem, hot, arch, archiveDB, stored, ended, excused, cleaner, crashes>>

\* Found in the table; or not there, or the query fails, and the archive is next.
ReadHot(r) ==
  /\ reader[r].at = "hot"
  /\ \/ /\ hot[r] # None
        /\ reader' = [reader EXCEPT ![r].at = "done", ![r].got = hot[r].parts]
     \/ /\ hot[r] = None
        /\ reader' = [reader EXCEPT ![r].at = "arch"]
     \/ reader' = [reader EXCEPT ![r].at = "arch", ![r].failed = TRUE]
  /\ UNCHANGED <<mem, hot, arch, archiveDB, stored, ended, excused, cleaner, crashes>>

\* Without an archive, and when the query fails, the answer is "not found".
ReadArchive(r) ==
  /\ reader[r].at = "arch"
  /\ \/ /\ archiveDB
        /\ reader' = [reader EXCEPT ![r].at = "done", ![r].got = Archived(r)]
     \/ reader' = [reader EXCEPT ![r].at = "done", ![r].failed = TRUE]
  /\ UNCHANGED <<mem, hot, arch, archiveDB, stored, ended, excused, cleaner, crashes>>

ReturnDetail(r) ==
  /\ reader[r].at = "done"
  /\ reader' = [reader EXCEPT ![r] = NotReading]
  /\ UNCHANGED <<mem, hot, arch, archiveDB, stored, ended, excused, cleaner, crashes>>
-----------------------------------------------------------------------------
\* The process stops and starts again: what was in memory is gone, and the archive may
\* be opened this time or not.
Crash ==
  /\ crashes < MaxCrashes
  /\ crashes' = crashes + 1
  /\ excused' = excused \cup {r \in Requests : ~Absent(r)}
  /\ mem' = [r \in Requests |-> None]
  /\ archiveDB' \in BOOLEAN
  /\ ended' = Requests
  /\ cleaner' = Asleep
  /\ reader' = [r \in Requests |-> NotReading]
  /\ UNCHANGED <<hot, arch, stored>>

Request(r) == \/ \E p \in Parts : StorePart(r, p)
              \/ End(r) \/ GoIdle(r) \/ GrowOld(r)

Cleanup == \/ Snapshot \/ (\E r \in Requests : Persist(r)) \/ RemoveSaved
           \/ SkipArchive \/ CopyBatch \/ DeleteBatch

Get(r) == ReadMemory(r) \/ ReadHot(r) \/ ReadArchive(r) \/ ReturnDetail(r)

Next == \/ \E r \in Requests : Request(r) \/ Get(r)
        \/ Cleanup
        \/ Crash

\* The ticker of the cleanup goroutine, and a database that accepts a row if it is
\* offered again and again.
Fairness ==
  /\ WF_vars(Cleanup)
  /\ \A r \in Requests :
       /\ WF_vars(GoIdle(r))
       /\ SF_vars(Persist(r) /\ cleaner'.saved # cleaner.saved)

Spec == Init /\ [][Next]_vars /\ Fairness
-----------------------------------------------------------------------------
\* Get looks in memory, in the table and in the archive, one after the other, while the
\* cleaner moves the entry the same way, and does not miss it: what had been stored when
\* it started is returned, also after a restart between the two phases of the archive.
\* Get says "not found" of a stored detail only if one of its own queries failed or the
\* archive could not be opened, and never returns a part of what it should.  Nothing is
\* promised of parts that come after the TTL.
GetFindsStored ==
  \A r \in Requests :
    reader[r].at = "done" /\ r \notin excused =>
      \/ reader[r].want \subseteq reader[r].got
      \/ reader[r].failed /\ reader[r].got = {}

\* "never deletion without copy" (archiveOldDetails): a row leaves the table only when
\* the archive holds the same parts, whatever failed or stopped before.
ArchiveKeeps ==
  [][\A r \in Requests :
       hot[r] # None /\ hot'[r] = None => arch[r] = hot[r].parts]_vars

\* An entry does not stay in memory: when its request is over it is moved, however
\* often the database refuses it.
MemoryDrains == \A r \in Requests : r \in ended /\ ~Absent(r) ~> Absent(r)

\* cleanup "removes expired entries and persists them to database": an entry that it
\* removes is in the table as it was when it was removed.
RemovedIsPersisted ==
  [][\A r \in Requests :
       RemoveSaved /\ ~Absent(r) /\ mem'[r] = None =>
         hot[r] # None /\ mem[r].parts \subseteq hot[r].parts]_vars
=============================================================================
