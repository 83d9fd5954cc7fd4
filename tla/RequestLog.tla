----------------------------- MODULE RequestLog -----------------------------
(***************************************************************************)
(* The row of a proxied request in request_logs: inserted as pending when  *)
(* the request is sent upstream (WritePendingFromTrace), overwritten with  *)
(* the result when the response body is closed or the upstream fails       *)
(* (UpdateFromTrace), and marked as timed out by PendingCleaner when it    *)
(* has been pending too long, which happens to requests that still run.    *)
(*                                                                         *)
(* Of the trace the model keeps whether it carries an error; of time,      *)
(* whether the row is older than the cleaner's timeout.                    *)
(***************************************************************************)
EXTENDS Naturals

CONSTANTS
  Requests,
  MaxCrashes        \* bound on the times the process stops

ASSUME RequestLogAssumption == MaxCrashes \in Nat

VARIABLES
  row,              \* request_logs.status of each request, or "absent"
  req,              \* where the goroutine serving each request is
  failed,           \* requests whose trace carries an error
  old,              \* requests that started longer ago than the cleaner's timeout
  crashes

logVars == <<row, req, failed, old, crashes>>

\* "timeout" is status 'error' with error_type 'timeout_cleanup'.
Results == {"success", "error"}
Statuses == {"absent", "pending", "timeout"} \cup Results

\* "sent": waiting for the upstream.  "open": the body is in a LoggingBodyWrapper that
\* has not been closed.  "logging": UpdateFromTrace is next.  "retried": the client
\* reads the body of a retry, which no LoggingBodyWrapper wraps.
Stages == {"new", "sent", "open", "logging", "retried", "over"}
Running == {"sent", "open", "logging", "retried"}

Move(r, stage) == req' = [req EXCEPT ![r] = stage]
-----------------------------------------------------------------------------
LogInit ==
  /\ row = [r \in Requests |-> "absent"]
  /\ req = [r \in Requests |-> "new"]
  /\ failed = {}
  /\ old = {}
  /\ crashes = 0

\* WritePendingFromTrace: the INSERT, or its failure, after which the request goes on.
InsertPending(r) ==
  /\ req[r] = "new"
  /\ Move(r, "sent")
  /\ row' = [row EXCEPT ![r] = "pending"]
  /\ UNCHANGED <<failed, old, crashes>>

PendingLost(r) ==
  /\ req[r] = "new"
  /\ Move(r, "sent")
  /\ UNCHANGED <<row, failed, old, crashes>>

\* ErrorHandler: no response, or ModifyResponse gave up on it.
UpstreamFails(r) ==
  /\ req[r] = "sent"
  /\ Move(r, "logging")
  /\ failed' = failed \cup {r}
  /\ UNCHANGED <<row, old, crashes>>

\* ModifyResponse wraps the body: a stream or, with an error in the trace, a response
\* that is not 2xx.
Respond(r) ==
  /\ req[r] = "sent"
  /\ Move(r, "open")
  /\ \/ failed' = failed \cup {r}
     \/ UNCHANGED failed
  /\ UNCHANGED <<row, old, crashes>>

\* handleNonStreamingResponse has read the whole body.
ReadBody(r) ==
  /\ req[r] = "sent"
  /\ Move(r, "logging")
  /\ UNCHANGED <<row, failed, old, crashes>>

\* It could not: it returns without an update of the row.
BodyLost(r) ==
  /\ req[r] = "sent"
  /\ Move(r, "over")
  /\ UNCHANGED <<row, failed, old, crashes>>

\* The stream is idle for too long: HealthyStreamWrapper.forceClose.
StreamTimesOut(r) ==
  /\ req[r] = "open"
  /\ failed' = failed \cup {r}
  /\ UNCHANGED <<row, req, old, crashes>>

\* LoggingBodyWrapper.Close, once.
CloseBody(r) ==
  /\ req[r] = "open"
  /\ Move(r, "logging")
  /\ UNCHANGED <<row, failed, old, crashes>>

\* UpdateFromTrace: status 'error' when the trace carries one.
Result(r) == IF r \in failed THEN "error" ELSE "success"

\* PseudoNonStreamBodyWrapper closes the body it rejects while the request goes on with
\* the body of a retry; otherwise the request is over.
AfterLogging(r) == \E stage \in {"over", "retried"} : Move(r, stage)

\* The UPDATE finds the row by id, whatever its status, or insertComplete inserts it.
UpdateRow(r) ==
  /\ req[r] = "logging"
  /\ row' = [row EXCEPT ![r] = Result(r)]
  /\ AfterLogging(r)
  /\ UNCHANGED <<failed, old, crashes>>

UpdateLost(r) ==
  /\ req[r] = "logging"
  /\ AfterLogging(r)
  /\ UNCHANGED <<row, failed, old, crashes>>

EndRetry(r) ==
  /\ req[r] = "retried"
  /\ Move(r, "over")
  /\ UNCHANGED <<row, failed, old, crashes>>

GrowOld(r) ==
  /\ req[r] # "new" /\ r \notin old
  /\ old' = old \cup {r}
  /\ UNCHANGED <<row, req, failed, crashes>>
-----------------------------------------------------------------------------
(* PendingCleaner *)

\* Mutant: the UPDATE looks at created_at only.
StaleAnyStatus == old

\* Mutant: the UPDATE looks for rows of requests that have been answered.
StaleIfAnswered == {r \in old : row[r] = "pending" /\ req[r] = "over"}

\* The rows of the cleaner's UPDATE.
Stale == {r \in old : row[r] = "pending"}

\* One run of cleanup, at the start and every interval.
Cleanup ==
  /\ Stale # {}
  /\ row' = [r \in Requests |-> IF r \in Stale THEN "timeout" ELSE row[r]]
  /\ UNCHANGED <<req, failed, old, crashes>>

\* The process stops and starts again.
Restart ==
  /\ crashes < MaxCrashes
  /\ crashes' = crashes + 1
  /\ req' = [r \in Requests |-> IF req[r] \in Running THEN "over" ELSE req[r]]
  /\ UNCHANGED <<row, failed, old>>
-----------------------------------------------------------------------------
\* The steps in which a LogWriter has changed the row of r, and the others of r.
Written(r) == InsertPending(r) \/ UpdateRow(r)

Unwritten(r) ==
  \/ PendingLost(r) \/ UpstreamFails(r) \/ Respond(r) \/ ReadBody(r) \/ BodyLost(r)
  \/ StreamTimesOut(r) \/ CloseBody(r) \/ UpdateLost(r) \/ EndRetry(r) \/ GrowOld(r)
=============================================================================
