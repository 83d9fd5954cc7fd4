---------------------------- MODULE ProxiedCall -----------------------------
(***************************************************************************)
(* A client's call through one of the two reverse proxies: the amp proxy,  *)
(* whose transport retries, or a channel's, whose ModifyResponse does; then*)
(* the layers of StreamRelay; beside them the goroutine that writes        *)
(* keep-alives, the client, who may leave, and the administrator.          *)
(***************************************************************************)
EXTENDS RetryTransport, StreamRelay

VARIABLES
  again,  \* retries that ModifyResponse has made of an error response
  ka      \* SSEKeepAliveWrapper's goroutine

ASSUME CallAssumption ==
  /\ RetryMax \in Nat /\ AuditMax \in Nat
  /\ MaxFrames \in Nat \ {0} /\ MaxSent \in Nat \ {0}
  /\ Calls \subseteq Call
  /\ Configs \subseteq Config

callVars == <<call, pc, gone, conn, resp, body, row, again, ka>>
vars == <<callVars, rtVars, relayVars>>

Init == AttemptsInit /\ RetryInit /\ RelayInit /\ again = 0 /\ ka = "off"

\* Of a model invocation a pending row is written.
Direct(path) ==
  /\ pc = "start" /\ call.path = path
  /\ pc' = "send"
  /\ row' = IF call.model THEN "pending" ELSE row
  /\ UNCHANGED <<call, gone, conn, resp, body, again, ka, rtVars, relayVars>>

AmpDirect == Direct("amp")          \* in the Director of the amp proxy
ChannelDirect == Direct("channel")  \* in ChannelProxyHandler

(*************************** the channel's proxy ***************************)

\* The channel's transport is a plain one: a single request.
ChannelRespond ==
  /\ pc = "send" /\ call.path = "channel"
  /\ \E r \in Responses : Answered(r)
  /\ pc' = "modify"
  /\ UNCHANGED <<call, gone, row, again, ka, rtVars, relayVars>>

ChannelFails ==
  /\ pc = "send" /\ call.path = "channel"
  /\ Unanswered
  /\ pc' = "refuse"
  /\ UNCHANGED <<call, gone, resp, body, row, again, ka, rtVars, relayVars>>

\* 429 and 5xx of /v1/responses; "bad" stands for some of the 5xx, too.
MayPeek == pc = "modify" /\ call.path = "channel" /\ call.responses /\ resp.status # "ok"

\* Up to 8 KB of the error are read and the body is closed. An error that is not
\* retryable, or cannot be read, is put back; of another one is asked again.
Judged(next) ==
  /\ conn' = Closed
  /\ \/ /\ pc' = "wrap"
        /\ \E c \in Chunks({"data"}) \cup {<<>>} : body' = Rebuilt(c)
     \/ /\ ~gone
        /\ pc' = next
        /\ body' = body

Peek ==
  /\ MayPeek
  /\ Judged("repeat")
  /\ UNCHANGED <<call, gone, resp, row, again, ka, rtVars, relayVars>>

NoPeek ==
  /\ pc = "modify"
  /\ ~(MayPeek /\ resp.status = "busy")
  /\ pc' = "wrap"
  /\ UNCHANGED <<call, gone, conn, resp, body, row, again, ka, rtVars, relayVars>>

\* One more attempt, after a wait. When all have failed the body in hand is the
\* one that has been closed.
AfterRepeat == IF again + 1 < RetryMax THEN "repeat" ELSE "wrap"

RepeatAnswered ==
  /\ pc = "repeat"
  /\ \E r \in Responses :
       /\ Answered(r)
       /\ pc' = IF r.status = "ok" THEN "wrap" ELSE "judgeRepeat"
  /\ UNCHANGED <<call, gone, row, again, ka, rtVars, relayVars>>

JudgeRepeat ==
  /\ pc = "judgeRepeat"
  /\ Judged(AfterRepeat)
  /\ again' = again + 1
  /\ UNCHANGED <<call, gone, resp, row, ka, rtVars, relayVars>>

RepeatFails ==
  /\ pc = "repeat"
  /\ Unanswered
  /\ pc' = AfterRepeat
  /\ again' = again + 1
  /\ UNCHANGED <<call, gone, resp, body, row, ka, rtVars, relayVars>>

(**************************** ModifyResponse *******************************)

Aggregating == call.path = "channel" /\ call.responses /\ resp.sse /\ ~call.wants
Piped == resp.sse /\ (call.path = "amp" \/ resp.status = "ok")

ModeOf ==
  IF Aggregating THEN "aggregate"
  ELSE IF ~resp.sse /\ resp.status = "ok" THEN "json"
  ELSE IF Piped /\ call.pseudo THEN "pseudo"
  ELSE "stream"

\* The layers are put on the body; a stream that is copied gets keep-alives.
WrapBody ==
  /\ pc = "wrap"
  /\ w' = Wrap(call.path = "channel" /\ call.responses /\ resp.sse)
  /\ mode' = ModeOf
  /\ ka' = IF Piped /\ ModeOf = "stream" THEN "idle" ELSE ka
  /\ pc' = "relay"
  /\ UNCHANGED <<call, gone, conn, resp, body, row, again, rtVars, held, audits, counted, chunk, out, end>>

\* The proxy's ErrorHandler: 502 to the client.
Refuse ==
  /\ pc = "refuse"
  /\ conn' = Closed
  /\ end' = "refused"
  /\ row' = Ended
  /\ pc' = "done"
  /\ UNCHANGED <<call, gone, resp, body, again, ka, rtVars, w, mode, held, audits, counted, chunk, out>>

\* The JSON of a channel is logged when it has been read; when that fails its row
\* is left to the pending cleaner.
Unread == call.path = "channel" /\ ~resp.sse /\ resp.status = "ok"

\* ReverseProxy closes the body, and with it every layer below.
CloseBody ==
  /\ pc = "close"
  /\ conn' = Closed
  /\ row' = IF Unread THEN row ELSE Ended
  /\ ka' = IF ka = "idle" THEN "off" ELSE ka
  /\ pc' = "done"
  /\ UNCHANGED <<call, gone, resp, body, again, rtVars, relayVars>>

(****************************** beside the call *****************************)

\* The ticker fires and nothing was read for the interval: the goroutine has seen,
\* under mu, that the wrapper is not closed, and lets mu go.
KeepAliveDue ==
  /\ ka = "idle"
  /\ ka' = "due"
  /\ UNCHANGED <<call, pc, gone, conn, resp, body, row, again, rtVars, relayVars>>

\* It writes to the ResponseWriter under writeMu, which the copy does not take.
KeepAliveBegins ==
  /\ ka = "due"
  /\ ka' = "writing"
  /\ UNCHANGED <<call, pc, gone, conn, resp, body, row, again, rtVars, relayVars>>

\* A write that fails closes the wrapper and the body below it.
KeepAliveEnds ==
  /\ ka = "writing"
  /\ \/ /\ ~gone
        /\ ka' = IF pc = "done" THEN "off" ELSE "idle"
        /\ conn' = conn /\ row' = row
     \/ /\ gone \/ pc = "done"
        /\ ka' = "off"
        /\ conn' = Closed /\ row' = Ended
  /\ UNCHANGED <<call, pc, gone, resp, body, again, rtVars, relayVars>>

Leave ==
  /\ ~gone /\ pc # "done"
  /\ gone' = TRUE
  /\ UNCHANGED <<call, pc, conn, resp, body, row, again, ka, rtVars, relayVars>>

Serve ==
  \/ RoundTrip /\ UNCHANGED <<again, ka, relayVars>>
  \/ AmpDirect \/ ChannelDirect \/ ChannelRespond \/ ChannelFails \/ Peek \/ NoPeek \/ RepeatAnswered \/ JudgeRepeat \/ RepeatFails
  \/ WrapBody \/ Refuse \/ CloseBody
  \/ Relay /\ UNCHANGED <<again, ka, rtVars>>

Next ==
  \/ Serve
  \/ KeepAliveDue \/ KeepAliveBegins \/ KeepAliveEnds
  \/ Leave
  \/ UpdateConfig /\ UNCHANGED <<again, ka, relayVars>>

\* The call's goroutine runs on; a read ends at some time, if only because the
\* connection breaks or the client leaves.
Spec == Init /\ [][Next]_vars /\ WF_vars(Serve)

(******************************* properties ********************************)

\* Frames of one response, from its first on, none left out or repeated.
Unbroken(frames) ==
  \A i \in DOMAIN frames : frames[i].from = frames[1].from /\ frames[i].nth = i

\* What the client is sent is the beginning of a single attempt's response, however
\* many attempts were staged, gated, put back, rejected or abandoned before it.
OneAttempt ==
  \/ Unbroken(out \o chunk)
  \/ mode = "sent" /\ Aggregating

\* Once the client has seen a frame, nothing is sent upstream any more.
RepeatOnlyUnseen == [][Len(conn') > Len(conn) => out = <<>> /\ chunk = <<>>]_vars

\* An error that could be retried reaches the client as the beginning of its stream
\* only after all retries have been used, or one of them has failed.
RetriedBeforeShown ==
  \A i \in DOMAIN out :
    /\ w.wrapped /\ ~Aggregating
    /\ out[i].kind = "retryable"
    /\ \A j \in 1..(i - 1) : out[j].kind = "prelude"
    => w.retries > RetryMax \/ w.failed

\* The tokens that are billed are those of the response the client gets, unless the
\* audit has exchanged it: no abandoned attempt is counted, and none twice.
CountedIsServed ==
  /\ Unbroken(counted)
  /\ Extracting /\ ~Aggregating => IsPrefix(out, counted)
  /\ Extracting /\ mode = "stream" => counted = out \o chunk \/ gone

\* While the call runs, the connection of every response it has dropped is given
\* back, except that of an error of which more than 64 KB were left unread.
DroppedReleased ==
  \A i \in 1..Len(conn) : conn[i] = "open" => i = body.from /\ pc # "done"

\* Every call ends, within the requests that MaxSent allows, and its log row with
\* it, unless the JSON of a channel could not be read.
CallEnds == <>(pc = "done" /\ (row = "pending" => Unread /\ end = "cut"))
=============================================================================
