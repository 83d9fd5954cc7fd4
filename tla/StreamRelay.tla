---------------------------- MODULE StreamRelay -----------------------------
(***************************************************************************)
(* The layers a response goes through on its way to the client: the wrapper*)
(* that retries an SSE stream which begins with a retryable error, token   *)
(* extraction, and at the top the copy to the client, the aggregation to   *)
(* JSON, the buffering of a JSON body or that of pseudo-non-stream with its *)
(* audit.  Every Read of the top goes down to resp.Body.                   *)
(***************************************************************************)
EXTENDS Attempts

CONSTANTS
  RetryMax,  \* sseConcurrencyRetryMax, 3 in the code
  AuditMax   \* pseudoNonStreamMaxRetries, 2 in the code

VARIABLES
  w,        \* SSEConcurrencyRetryWrapper; a stream without one is always started
  mode,     \* what reads at the top
  held,     \* what it has buffered
  audits,   \* pseudo-non-stream: responses asked for again so far
  counted,  \* frames the token extractor has seen: what is billed
  chunk,    \* what the copy to the client is about to write
  out,      \* what the client has been sent
  end       \* how its response ended

Modes == {"stream", "aggregate", "json", "pseudo", "sent"}
Wrapper == [wrapped : BOOLEAN, started : BOOLEAN, exhausted : BOOLEAN, staged : Seq(Frame),
            buf : Seq(Frame), retries : 0..(RetryMax + 1), failed : BOOLEAN]

\* NewSSEConcurrencyRetryWrapper, or none.
Wrap(on) == [wrapped |-> on, started |-> ~on, exhausted |-> FALSE, staged |-> <<>>,
             buf |-> <<>>, retries |-> 0, failed |-> FALSE]

relayVars == <<w, mode, held, audits, counted, chunk, out, end>>

RelayInit ==
  /\ w = Wrap(FALSE)
  /\ mode = "stream"
  /\ held = <<>>
  /\ audits = 0
  /\ counted = <<>>
  /\ chunk = <<>>
  /\ out = <<>>
  /\ end = "none"

\* Mutant: what the audit has asked for again is counted as well.
ExtractingAlways == call.model /\ resp.sse

\* Tokens are taken from a stream as it passes; not from an error of a channel, nor
\* from what the audit has asked for again.
Extracting == call.model /\ resp.sse /\ audits = 0 /\ (call.path = "amp" \/ resp.status = "ok")

\* A Read of the top returns frames.
Deliver(frames) ==
  /\ counted' = IF Extracting THEN counted \o frames ELSE counted
  /\ IF mode = "stream"
     THEN chunk' = frames /\ pc' = "write" /\ held' = held
     ELSE held' = held \o frames /\ pc' = "relay" /\ chunk' = chunk

Unmoved == pc' = "relay" /\ UNCHANGED <<counted, chunk, held>>

\* A Read of the top returns io.EOF: the copy is complete, a buffer is.
Over ==
  /\ pc' = IF mode = "stream" THEN "close" ELSE "finish"
  /\ end' = IF mode = "stream" THEN "eof" ELSE end
  /\ UNCHANGED <<counted, chunk, held>>

\* Mutant: an error is retried wherever it is found.
PassingNever(v) == FALSE

\* Once a frame has been forwarded everything passes.
Passing(v) == v.started

\* isRetryPreludeFrame, and comments; isRetryableErrorPayload.
Prelude(frame) == frame.kind = "prelude"
Retryable(frame) == frame.kind = "retryable"

\* Mutant: off by one.
RetriesFewer(v) == Retryable(Head(v.buf)) /\ v.retries + 1 < RetryMax

\* An error before that is answered by a retry, as long as any is left.
Retries(v) == Retryable(Head(v.buf)) /\ v.retries < RetryMax

\* One round of the wrapper's Read, once it holds what it could read. Frames of
\* the prelude are staged until it is known whether the stream goes on.
Round(v) ==
  IF Passing(v) THEN
    IF v.buf # <<>> THEN Deliver(v.buf) /\ w' = [v EXCEPT !.buf = <<>>] /\ end' = end
    ELSE IF v.exhausted THEN Over /\ w' = v
    ELSE Unmoved /\ w' = v /\ end' = end
  ELSE IF v.buf = <<>> THEN
    IF ~v.exhausted THEN Unmoved /\ w' = v /\ end' = end
    ELSE /\ w' = [v EXCEPT !.started = TRUE, !.staged = <<>>]
         /\ IF v.staged = <<>> THEN Over ELSE Deliver(v.staged) /\ end' = end
  ELSE CASE Prelude(Head(v.buf)) ->
              /\ Unmoved
              /\ w' = [v EXCEPT !.staged = Append(@, Head(v.buf)), !.buf = Tail(@)]
              /\ end' = end
         [] Retries(v) ->
              /\ w' = [v EXCEPT !.retries = @ + 1]
              /\ pc' = "retry"
              /\ UNCHANGED <<counted, chunk, held, end>>
         [] OTHER ->
              /\ Deliver(v.staged \o v.buf)
              /\ w' = [v EXCEPT !.started = TRUE, !.staged = <<>>, !.buf = <<>>,
                         !.retries = IF Retryable(Head(v.buf)) THEN @ + 1 ELSE @]
              /\ end' = end

\* The wrapper reads more from upstream first, unless that is at its end. Without
\* the wrapper this is the Read of the layers above.
ReadMore ==
  /\ pc = "relay" /\ ~w.exhausted
  /\ \/ \E c \in Chunks(IF resp.sse THEN Kinds ELSE IF resp.empty THEN {} ELSE {"data"}) :
          /\ body' = After(c)
          /\ Round([w EXCEPT !.buf = @ \o c])
     \/ AtEOF /\ body' = body /\ Round([w EXCEPT !.exhausted = TRUE])
  /\ UNCHANGED <<call, gone, row, conn, resp, mode, audits, out>>

ReadOn ==
  /\ pc = "relay" /\ w.exhausted
  /\ Round(w)
  /\ UNCHANGED <<call, gone, row, conn, resp, body, mode, audits, out>>

\* Upstream breaks. The copy and pseudo-non-stream end the response where it is;
\* aggregation fails and the client gets 502; a JSON body is replaced by an error
\* (channel) or cut to what was read (amp).
ReadBreaks ==
  /\ pc = "relay" /\ ~w.exhausted
  /\ Breaks
  /\ CASE mode = "aggregate" -> pc' = "refuse" /\ UNCHANGED <<mode, chunk, end>>
       [] mode = "json" -> /\ pc' = "write" /\ mode' = "sent" /\ end' = "cut"
                           /\ chunk' = IF call.path = "amp" THEN held ELSE <<>>
       [] OTHER -> pc' = "close" /\ end' = "cut" /\ UNCHANGED <<mode, chunk>>
  /\ UNCHANGED <<call, gone, row, conn, resp, body, w, held, audits, counted, out>>

\* Mutant: the stream that is given up is not closed.
KeepForRetry ==
  /\ pc = "retry"
  /\ pc' = "resend"
  /\ w' = [w EXCEPT !.exhausted = FALSE]
  /\ UNCHANGED <<call, gone, row, conn, resp, body, mode, held, audits, counted, chunk, out, end>>

\* After the wait: the stream is closed and asked for again. What was staged and
\* the frame with the error are dropped only when that succeeds.
CloseForRetry ==
  /\ pc = "retry"
  /\ conn' = Closed
  /\ pc' = "resend"
  /\ w' = [w EXCEPT !.exhausted = FALSE]
  /\ UNCHANGED <<call, gone, row, resp, body, mode, held, audits, counted, chunk, out, end>>

\* Mutant: the prelude of the attempt that failed stays staged.
RetryStaged ==
  /\ pc = "resend"
  /\ Answered(resp)
  /\ w' = [w EXCEPT !.buf = <<>>]
  /\ pc' = "relay"
  /\ UNCHANGED <<call, gone, row, mode, held, audits, counted, chunk, out, end>>

\* Mutant: a new wrapper, which begins to count retries again.
RetryAnew ==
  /\ pc = "resend"
  /\ Answered(resp)
  /\ w' = Wrap(TRUE)
  /\ pc' = "relay"
  /\ UNCHANGED <<call, gone, row, mode, held, audits, counted, chunk, out, end>>

RetryAnswered ==
  /\ pc = "resend"
  /\ Answered(resp)
  /\ w' = [w EXCEPT !.staged = <<>>, !.buf = <<>>]
  /\ pc' = "relay"
  /\ UNCHANGED <<call, gone, row, mode, held, audits, counted, chunk, out, end>>

RetryFails ==
  /\ pc = "resend"
  /\ Unanswered
  /\ Deliver(w.staged \o w.buf)
  /\ w' = [w EXCEPT !.started = TRUE, !.failed = TRUE, !.staged = <<>>, !.buf = <<>>]
  /\ UNCHANGED <<call, gone, row, resp, body, mode, audits, out, end>>

\* ReverseProxy writes what it has read to the client, and stops when that fails.
Write ==
  /\ pc = "write"
  /\ \/ /\ ~gone
        /\ out' = out \o chunk
        /\ pc' = IF mode = "sent" THEN "close" ELSE "relay"
        /\ end' = IF mode = "sent" /\ end = "none" THEN "eof" ELSE end
     \/ gone /\ out' = out /\ pc' = "close" /\ end' = "cut"
  /\ chunk' = <<>>
  /\ UNCHANGED <<call, gone, row, conn, resp, body, w, mode, held, audits, counted>>

\* The response object of the latest frame that has one.
Snapshots(frames) == SelectSeq(frames, LAMBDA f : f.kind \in {"prelude", "final"})

Send(frames) == pc' = "write" /\ mode' = "sent" /\ chunk' = frames

\* The buffered response is sent: JSON as it is, an aggregated stream as its last
\* snapshot, a pseudo-non-stream one when the audit approves it or cannot ask again.
Finish ==
  /\ pc = "finish"
  /\ LET all == IF mode = "aggregate" THEN Snapshots(held) ELSE held IN
     IF mode = "aggregate" /\ all = <<>>
     THEN pc' = "refuse" /\ UNCHANGED <<mode, chunk>>
     ELSE Send(IF mode = "aggregate" THEN <<Last(all)>> ELSE all)
  /\ row' = IF mode \in {"json", "aggregate"} /\ call.path = "channel" /\ pc' = "write" THEN Ended ELSE row
  /\ UNCHANGED <<call, gone, conn, resp, body, w, held, audits, counted, out, end>>

\* The audit rejects the response: it is closed, which ends its log row, and asked
\* for again. The new body is read as it comes, below none of the other layers.
Reject ==
  /\ pc = "finish" /\ mode = "pseudo" /\ audits < AuditMax
  /\ conn' = Closed
  /\ pc' = "again"
  /\ row' = Ended
  /\ UNCHANGED <<call, gone, resp, body, w, mode, held, audits, counted, chunk, out, end>>

AgainAnswered ==
  /\ pc = "again"
  /\ Answered(resp)
  /\ audits' = audits + 1
  /\ held' = <<>>
  /\ w' = Wrap(FALSE)
  /\ pc' = "relay"
  /\ UNCHANGED <<call, gone, row, mode, counted, chunk, out, end>>

\* The last response is used.
AgainFails ==
  /\ pc = "again"
  /\ Unanswered
  /\ Send(held)
  /\ UNCHANGED <<call, gone, row, resp, body, w, held, audits, counted, out, end>>

Relay ==
  \/ ReadMore \/ ReadOn \/ ReadBreaks \/ CloseForRetry \/ RetryAnswered \/ RetryFails
  \/ Write \/ Finish \/ Reject \/ AgainAnswered \/ AgainFails
=============================================================================
