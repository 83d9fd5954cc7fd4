--------------------------- MODULE RetryTransport ---------------------------
(***************************************************************************)
(* RetryTransport.RoundTrip: the attempts of a request to the amp upstream,*)
(* up to the response that is handed to modifyResponse.                    *)
(***************************************************************************)
EXTENDS Attempts

CONSTANT Configs  \* the retry configurations an administrator may set

VARIABLES
  conf,  \* the configuration in force, rt.cfg
  rt     \* locals of RoundTrip: configuration read at the start, attempt, kind

Config == [enabled : BOOLEAN, max : Nat, busy : BOOLEAN, empty : BOOLEAN]

rtVars == <<conf, rt>>

RetryInit ==
  /\ conf \in Configs
  /\ rt = [cfg |-> conf, attempt |-> 0, direct |-> FALSE]

\* The administrator saves another configuration; a running RoundTrip keeps the
\* one it has read.
UpdateConfig ==
  /\ conf' \in Configs \ {conf}
  /\ UNCHANGED <<call, pc, gone, conn, resp, body, row, rt>>

\* cacheRequestBody: a body within the limit is kept for every attempt; a larger
\* one is rebuilt from the bytes that were read, and sent once.
CacheBody ==
  /\ pc = "send" /\ call.path = "amp"
  /\ rt' = [cfg |-> conf, attempt |-> 1,
            direct |-> ~conf.enabled \/ conf.max <= 1 \/ call.large]
  /\ pc' = "attempt"
  /\ UNCHANGED <<call, gone, conn, resp, body, row, conf>>

\* Reading the client's body fails.
CacheFails ==
  /\ pc = "send" /\ call.path = "amp"
  /\ conf.enabled /\ conf.max > 1
  /\ pc' = "refuse"
  /\ UNCHANGED <<call, gone, conn, resp, body, row, conf, rt>>

More == ~rt.direct /\ rt.attempt < rt.cfg.max

NextAttempt == pc' = "attempt" /\ rt' = [rt EXCEPT !.attempt = @ + 1]
GiveUp == pc' = "refuse" /\ rt' = rt

\* The head of the loop: a client that has left ends the attempts.
StopIfGone ==
  /\ pc = "attempt" /\ gone
  /\ GiveUp
  /\ UNCHANGED <<call, gone, conn, resp, body, row, conf>>

Respond ==
  /\ pc = "attempt"
  /\ \E r \in Responses : Answered(r)
  /\ pc' = "judge"
  /\ UNCHANGED <<call, gone, row, conf, rt>>

\* The transport fails, with an error that shouldRetryError takes or not.
AttemptFails ==
  /\ pc = "attempt"
  /\ Unanswered
  /\ \/ More /\ NextAttempt
     \/ GiveUp
  /\ UNCHANGED <<call, gone, resp, body, row, conf>>

RetryStatus == resp.status = "busy" /\ rt.cfg.busy /\ More
RetryEmpty == resp.status = "ok" /\ ~resp.sse /\ resp.empty /\ rt.cfg.empty /\ More
Gated == resp.sse /\ ~rt.direct /\ ~(call.accepts /\ rt.attempt > 1)

\* A status to retry. parseRetryDelayFromBody reads up to 64 KB, unless there is
\* a Retry-After header, and puts them back with a Close that does nothing: a
\* body that is longer keeps its connection.
DropBusy ==
  /\ pc = "judge" /\ RetryStatus
  /\ \E left \in {"closed", "drained", "unread"} :
       conn' = [conn EXCEPT ![body.from] = left]
  /\ body' = NoBody
  /\ NextAttempt
  /\ UNCHANGED <<call, gone, resp, row, conf>>

DropEmpty ==
  /\ pc = "judge" /\ ~RetryStatus /\ RetryEmpty
  /\ conn' = Closed
  /\ body' = NoBody
  /\ NextAttempt
  /\ UNCHANGED <<call, gone, resp, row, conf>>

\* The first byte arrives and is put back before the rest (its frame stands for it).
GateOpens ==
  /\ pc = "judge" /\ ~RetryStatus /\ ~RetryEmpty /\ Gated
  /\ \E c \in Chunks(Kinds) :
       /\ Len(c) = 1
       /\ body' = [After(c) EXCEPT !.left = c]
  /\ pc' = "modify"
  /\ UNCHANGED <<call, gone, conn, resp, row, conf, rt>>

\* The first byte does not arrive in time, the body ends or breaks before it, or
\* the client leaves.
GateFails ==
  /\ pc = "judge" /\ ~RetryStatus /\ ~RetryEmpty /\ Gated
  /\ conn' = Closed
  /\ body' = NoBody
  /\ IF ~call.accepts /\ More THEN NextAttempt ELSE GiveUp
  /\ UNCHANGED <<call, gone, resp, row, conf>>

\* Any other response is returned as it is, the status to retry of the last attempt too.
Return ==
  /\ pc = "judge" /\ ~RetryStatus /\ ~RetryEmpty /\ ~Gated
  /\ pc' = "modify"
  /\ UNCHANGED <<call, gone, conn, resp, body, row, conf, rt>>

RoundTrip ==
  \/ CacheBody \/ CacheFails \/ StopIfGone \/ Respond \/ AttemptFails
  \/ DropBusy \/ DropEmpty \/ GateOpens \/ GateFails \/ Return
=============================================================================
