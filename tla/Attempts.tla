------------------------------ MODULE Attempts ------------------------------
(***************************************************************************)
(* One call of a client, and the HTTP requests the server sends upstream   *)
(* on its behalf.  A body is a sequence of SSE frames (or pieces of JSON); *)
(* what the provider sends, and when it stops or breaks, is any choice.    *)
(***************************************************************************)
EXTENDS Integers, Sequences, SequencesExt

CONSTANTS
  Calls,      \* what a call may be like, see Call
  MaxFrames,  \* bound on the frames of one response
  MaxSent     \* bound on the requests sent upstream for one call

VARIABLES
  call,   \* the call: which handler serves it and what the client asked for
  pc,     \* where the goroutine that serves it stands
  gone,   \* the client has left: the request's context is cancelled
  conn,   \* per request sent upstream, the state of its connection
  resp,   \* status and content type of the response in hand
  body,   \* its body: resp.Body
  row     \* the log row of the call

Call == [path : {"amp", "channel"},      \* amp upstream proxy or channel router
         accepts : BOOLEAN,              \* Accept: text/event-stream or ?stream=true
         wants : BOOLEAN,                \* the client wants a stream
         pseudo : BOOLEAN,               \* pseudo-non-stream is on
         responses : BOOLEAN,            \* the path is /v1/responses
         large : BOOLEAN,                \* the request body exceeds MaxBodyBytes
         model : BOOLEAN]                \* a model invocation, which is logged

\* prelude: comments, response.created and the like; retryable: an overloaded or
\* broken provider's error event; final: response.completed; data: any other.
Kinds == {"prelude", "retryable", "data", "final"}
Frame == [from : 1..MaxSent, nth : 1..MaxFrames, kind : Kinds]

\* ok: 2xx; busy: 429, 500, 502, 503 or 504; bad: any other.
Response == [status : {"ok", "busy", "bad"}, sse : BOOLEAN, empty : BOOLEAN]

\* Of 2xx JSON, empty says that it has no body.
Responses == { r \in Response : r.empty => ~r.sse /\ r.status = "ok" }

\* Frames in hand come first (bytes read already and put back), then, when the
\* body is live, what the connection still brings.
Body == [from : 0..MaxSent, live : BOOLEAN, left : Seq(Frame), next : 1..(MaxFrames + 1)]

NoBody == [from |-> 0, live |-> FALSE, left |-> <<>>, next |-> 1]
NoResponse == [status |-> "ok", sse |-> FALSE, empty |-> FALSE]

AttemptsInit ==
  /\ call \in Calls
  /\ pc = "start"
  /\ gone = FALSE
  /\ conn = <<>>
  /\ resp = NoResponse
  /\ body = NoBody
  /\ row = "none"

CanSend == Len(conn) < MaxSent

\* A request answered with r: its body is read from its own connection.
Answered(r) ==
  /\ CanSend
  /\ ~gone
  /\ conn' = Append(conn, "open")
  /\ resp' = r
  /\ body' = [from |-> Len(conn) + 1, live |-> TRUE, left |-> <<>>, next |-> 1]

\* A request that fails, or whose response is dropped and closed at once.
Unanswered ==
  /\ CanSend
  /\ conn' = Append(conn, "closed")

\* The connection of the body in hand after resp.Body.Close().
Closed == IF body.live THEN [conn EXCEPT ![body.from] = "closed"] ELSE conn

\* The trace of a logged call is written to its row.
Ended == IF row = "pending" THEN "ended" ELSE row

\* The body in hand with its bytes read into memory and put back: Close is
\* then a no-op, and nothing more comes from the connection.
Rebuilt(frames) == [body EXCEPT !.live = FALSE, !.left = frames]

\* What one Read may return: the bytes in hand, or one or two new frames.
Chunks(kinds) ==
  IF body.left # <<>> THEN {body.left}
  ELSE IF ~body.live \/ gone \/ conn[body.from] # "open" THEN {}
  ELSE { [i \in 1..Len(ks) |-> [from |-> body.from, nth |-> body.next + i - 1, kind |-> ks[i]]] :
           ks \in { s \in [1..1 -> kinds] \cup [1..2 -> kinds] :
                      body.next + Len(s) - 1 <= MaxFrames } }

\* The body after such a Read.
After(chunk) ==
  IF body.left # <<>> THEN [body EXCEPT !.left = <<>>]
  ELSE [body EXCEPT !.next = @ + Len(chunk)]

\* A Read that returns io.EOF: the bytes in memory are used up, or the
\* provider has ended the response.
AtEOF == body.left = <<>> /\ (~body.live \/ (~gone /\ conn[body.from] = "open"))

\* A Read that returns any other error: the connection breaks or times out,
\* the client has left, or the body has been closed.
Breaks == body.left = <<>> /\ body.live
=============================================================================
