-------------------------- MODULE ProxiedCallProofs --------------------------
(***************************************************************************)
(* Theorems about ProxiedCall, for any frames, attempts, retries and calls. *)
(*                                                                         *)
(* The invariant follows the frames of the response in hand through the     *)
(* layers: delivered at the top, staged and buffered by the wrapper, put    *)
(* back in the body, to come from the connection.  At every moment they are *)
(* the frames 1, 2, ... of one attempt, cut in pieces.                      *)
(***************************************************************************)
EXTENDS ProxiedCall, SequenceTheorems, TLAPS

\* Where the layers of StreamRelay are not yet in place; where no connection is in use;
\* where one is.
Before == {"start", "send", "attempt", "judge", "modify", "repeat", "judgeRepeat", "wrap"}
Shut == {"start", "send", "attempt", "repeat", "resend", "again", "done"}
InUse == {"judge", "modify", "judgeRepeat"}

\* The response is still being sent.
Flowing == pc \notin {"close", "done"}

ConnStates == {"open", "closed", "drained", "unread"}
WrapperState ==
  [wrapped : BOOLEAN, started : BOOLEAN, exhausted : BOOLEAN, staged : Seq(Frame),
   buf : Seq(Frame), retries : Nat, failed : BOOLEAN]

Shape ==
  /\ conn \in Seq(ConnStates) /\ Len(conn) <= MaxSent
  /\ body \in Body
  /\ w \in WrapperState /\ mode \in Modes /\ audits \in Nat
  /\ held \in Seq(Frame) /\ counted \in Seq(Frame)
  /\ (out \in Seq(Frame) /\ chunk \in Seq(Frame)) \/ (mode = "sent" /\ Aggregating)

\* A connection that is open is that of the body in hand.
Connections ==
  /\ \A i \in 1..Len(conn) : conn[i] = "open" => i = body.from /\ body.live /\ pc \notin Shut
  /\ body.live => body.from \in 1..Len(conn)
  /\ pc \in InUse => body.live

\* Nothing has reached the layers before they are in place, nor the client when the call
\* is refused.
Fresh ==
  /\ pc \in Before \cup {"refuse"} => out = <<>> /\ chunk = <<>>
  /\ pc \in Before => /\ held = <<>> /\ counted = <<>> /\ audits = 0 /\ mode = "stream"
                      /\ w.wrapped = FALSE /\ w.started = TRUE
                      /\ w.staged = <<>> /\ w.buf = <<>>

\* What the top has got so far: the copy has passed it on, a buffer holds it.
Delivered == IF mode = "stream" THEN out \o chunk ELSE held

\* Which reader of the top is at which point.
Tops ==
  /\ pc # "write" => chunk = <<>>
  /\ mode \notin {"stream", "sent"} => out = <<>> /\ chunk = <<>>
  /\ mode = "stream" => held = <<>>
  /\ pc \in {"relay", "retry", "resend", "finish", "again"} => mode # "sent"
  /\ pc = "again" => mode = "pseudo"
  /\ pc = "finish" => mode \in {"aggregate", "json", "pseudo"}
  /\ mode = "sent" /\ ~Aggregating => out \o chunk \in {<<>>, held}
  /\ mode = "sent" /\ Flowing => pc = "write" /\ out = <<>>
  /\ mode = "aggregate" => Aggregating

\* The frames of attempt f that come after the first k.
Consecutive(frames, f, k) ==
  \A i \in 1..Len(frames) : frames[i].from = f /\ frames[i].nth = k + i

\* d has been delivered, v is the wrapper and b the body: together they hold the frames of
\* b's attempt from the first on, and the connection brings the next.
LineOf(d, v, b) ==
  /\ Consecutive(d, b.from, 0)
  /\ Consecutive(v.staged, b.from, Len(d))
  /\ Consecutive(v.buf, b.from, Len(d) + Len(v.staged))
  /\ Consecutive(b.left, b.from, Len(d) + Len(v.staged) + Len(v.buf))
  /\ b.live => b.next = Len(d) + Len(v.staged) + Len(v.buf) + Len(b.left) + 1

\* A wrapper that stages has let nothing through.
StagingOf(d, v) ==
  /\ ~v.started => d = <<>> /\ v.wrapped
  /\ v.started => v.staged = <<>>

Opening(frames, n) == \A i \in 1..n : frames[i].kind = "prelude"
Proceeds(frames) ==
  \E i \in 1..Len(frames) : /\ frames[i].kind \notin {"prelude", "retryable"}
                            /\ Opening(frames, i - 1)

\* A wrapper has started because the retries were used up or failed, because there was
\* nothing but a prelude, or because the stream has gone on without an error.
GateOf(d, v) ==
  /\ Opening(v.staged, Len(v.staged))
  /\ v.wrapped /\ v.started =>
       \/ v.retries > RetryMax \/ v.failed
       \/ v.exhausted /\ v.buf = <<>> /\ Opening(d, Len(d))
       \/ Proceeds(d)

Pieces == LineOf(Delivered, w, body) /\ StagingOf(Delivered, w) /\ GateOf(Delivered, w)
Pipeline == Flowing => Pieces
Retrying == pc \in {"retry", "resend"} => ~w.started

\* What is counted is what the top has got.
Exact == Extracting => counted = Delivered
Tally == Unbroken(counted) /\ (Flowing => Exact)

\* The properties, which outlive the pipeline.
Shown == OneAttempt /\ RetriedBeforeShown /\ CountedIsServed

IInv == /\ Shape /\ Connections /\ Fresh /\ Tops /\ Pipeline /\ Retrying /\ Tally
        /\ (~Flowing => Shown)

(***************************** frames in a row *****************************)

LEMMA Nothing ==
  ASSUME NEW f, NEW k
  PROVE  /\ <<>> \in Seq(Frame) /\ Len(<<>>) = 0 /\ Unbroken(<<>>)
         /\ Consecutive(<<>>, f, k) /\ Opening(<<>>, 0)
  BY DEF Consecutive, Opening, Unbroken

LEMMA Joined ==
  ASSUME NEW a \in Seq(Frame), NEW b \in Seq(Frame)
  PROVE  /\ a \o b \in Seq(Frame) /\ Len(a) \in Nat /\ Len(b) \in Nat
         /\ Len(a \o b) = Len(a) + Len(b)
         /\ \A i \in 1..Len(a) : (a \o b)[i] = a[i]
         /\ \A i \in 1..Len(b) : (a \o b)[Len(a) + i] = b[i]
         /\ a = <<>> => a \o b = b
         /\ b = <<>> => a \o b = a
  <1>1. /\ a \o b \in Seq(Frame) /\ Len(a) \in Nat /\ Len(b) \in Nat
        /\ Len(a \o b) = Len(a) + Len(b)
        /\ \A i \in 1..Len(a) + Len(b) : (a \o b)[i] = IF i <= Len(a) THEN a[i] ELSE b[i - Len(a)]
    BY ConcatProperties, LenProperties
  <1>2. \A i \in 1..Len(b) : (a \o b)[Len(a) + i] = b[i]
    <2> TAKE i \in 1..Len(b)
    <2>1. Len(a) + i \in 1..Len(a) + Len(b) /\ ~(Len(a) + i <= Len(a)) /\ Len(a) + i - Len(a) = i
      BY <1>1
    <2> QED
      BY <1>1, <2>1
  <1>3. (a = <<>> => a \o b = b) /\ (b = <<>> => a \o b = a)
    BY ConcatEmptySeq
  <1> QED
    BY <1>1, <1>2, <1>3

LEMMA Lengths ==
  ASSUME NEW d \in Seq(Frame), NEW a \in Seq(Frame), NEW b \in Seq(Frame)
  PROVE  Len(d \o (a \o b)) = Len(d) + Len(a) + Len(b)
  <1>1. Len(a \o b) = Len(a) + Len(b) /\ a \o b \in Seq(Frame)
    BY Joined
  <1>2. Len(d \o (a \o b)) = Len(d) + Len(a \o b)
    BY <1>1, Joined
  <1> QED
    BY <1>1, <1>2, LenProperties

LEMMA InARow ==
  ASSUME NEW a \in Seq(Frame), NEW b \in Seq(Frame), NEW f, NEW k \in Nat
  PROVE  Consecutive(a \o b, f, k) <=> Consecutive(a, f, k) /\ Consecutive(b, f, k + Len(a))
  <1>1. ASSUME Consecutive(a \o b, f, k) PROVE Consecutive(a, f, k) /\ Consecutive(b, f, k + Len(a))
    <2>1. Consecutive(a, f, k)
      BY <1>1, Joined DEF Consecutive
    <2>2. ASSUME NEW i \in 1..Len(b) PROVE b[i].from = f /\ b[i].nth = k + Len(a) + i
      <3>1. Len(a) + i \in 1..Len(a \o b) /\ (a \o b)[Len(a) + i] = b[i] /\ k + (Len(a) + i) = k + Len(a) + i
        BY Joined
      <3> QED
        BY <1>1, <3>1 DEF Consecutive
    <2> QED
      BY <2>1, <2>2 DEF Consecutive
  <1>2. ASSUME Consecutive(a, f, k), Consecutive(b, f, k + Len(a)), NEW i \in 1..Len(a \o b)
        PROVE  (a \o b)[i].from = f /\ (a \o b)[i].nth = k + i
    <2>1. CASE i \in 1..Len(a)
      BY <1>2, <2>1, Joined DEF Consecutive
    <2>2. CASE i - Len(a) \in 1..Len(b)
      <3>1. (a \o b)[i] = b[i - Len(a)] /\ i = Len(a) + (i - Len(a))
        BY <2>2, Joined
      <3>2. b[i - Len(a)].nth = k + Len(a) + (i - Len(a)) /\ b[i - Len(a)].from = f
        BY <1>2, <2>2 DEF Consecutive
      <3> QED
        BY <3>1, <3>2, Joined
    <2> QED
      BY <2>1, <2>2, Joined
  <1> QED
    BY <1>1, <1>2 DEF Consecutive

LEMMA Beheaded ==
  ASSUME NEW a \in Seq(Frame), a # <<>>, NEW f, NEW k \in Nat, Consecutive(a, f, k)
  PROVE  /\ Head(a) \in Frame /\ Head(a).from = f /\ Head(a).nth = k + 1
         /\ Tail(a) \in Seq(Frame) /\ Len(Tail(a)) = Len(a) - 1
         /\ Consecutive(Tail(a), f, k + 1)
  BY HeadTailProperties DEF Consecutive

LEMMA Extended ==
  ASSUME NEW a \in Seq(Frame), NEW e \in Frame, NEW f, NEW k \in Nat, Consecutive(a, f, k),
         e.from = f, e.nth = k + Len(a) + 1
  PROVE  /\ Append(a, e) \in Seq(Frame) /\ Len(Append(a, e)) = Len(a) + 1
         /\ Consecutive(Append(a, e), f, k)
         /\ Opening(a, Len(a)) /\ e.kind = "prelude" => Opening(Append(a, e), Len(Append(a, e)))
  <1>1. /\ Append(a, e) \in Seq(Frame) /\ Len(Append(a, e)) = Len(a) + 1 /\ Len(a) \in Nat
        /\ \A i \in 1..Len(a) : Append(a, e)[i] = a[i]
        /\ Append(a, e)[Len(a) + 1] = e
    BY AppendProperties, LenProperties
  <1>2. \A i \in 1..(Len(a) + 1) : i \in 1..Len(a) \/ i = Len(a) + 1
    BY <1>1
  <1>3. Consecutive(Append(a, e), f, k)
    <2>1. k + Len(a) + 1 = k + (Len(a) + 1)
      BY <1>1
    <2> QED
      BY <1>1, <1>2, <2>1 DEF Consecutive
  <1>4. Opening(a, Len(a)) /\ e.kind = "prelude" => Opening(Append(a, e), Len(Append(a, e)))
    BY <1>1, <1>2 DEF Opening
  <1> QED
    BY <1>1, <1>3, <1>4

\* A frame goes from the head of b to the end of a.
LEMMA MovedOne ==
  ASSUME NEW d \in Seq(Frame), NEW a \in Seq(Frame), NEW b \in Seq(Frame), b # <<>>, NEW f,
         Consecutive(a, f, Len(d)), Consecutive(b, f, Len(d) + Len(a)),
         Opening(a, Len(a)), Head(b).kind = "prelude"
  PROVE  /\ Append(a, Head(b)) \in Seq(Frame) /\ Tail(b) \in Seq(Frame)
         /\ Consecutive(Append(a, Head(b)), f, Len(d))
         /\ Opening(Append(a, Head(b)), Len(Append(a, Head(b))))
         /\ Consecutive(Tail(b), f, Len(d) + Len(Append(a, Head(b))))
         /\ Len(d) + Len(Append(a, Head(b))) + Len(Tail(b)) = Len(d) + Len(a) + Len(b)
  <1>1. Len(d) \in Nat /\ Len(a) \in Nat /\ Len(b) \in Nat
    BY LenProperties
  <1>2. /\ Head(b) \in Frame /\ Head(b).from = f /\ Head(b).nth = Len(d) + Len(a) + 1
        /\ Tail(b) \in Seq(Frame) /\ Len(Tail(b)) = Len(b) - 1
        /\ Consecutive(Tail(b), f, Len(d) + Len(a) + 1)
    BY <1>1, Beheaded
  <1>3. /\ Append(a, Head(b)) \in Seq(Frame) /\ Len(Append(a, Head(b))) = Len(a) + 1
        /\ Consecutive(Append(a, Head(b)), f, Len(d))
        /\ Opening(Append(a, Head(b)), Len(Append(a, Head(b))))
    BY <1>1, <1>2, Extended
  <1>4. /\ Len(d) + Len(Append(a, Head(b))) = Len(d) + Len(a) + 1
        /\ Len(d) + Len(Append(a, Head(b))) + Len(Tail(b)) = Len(d) + Len(a) + Len(b)
    BY <1>1, <1>2, <1>3
  <1> QED
    BY <1>2, <1>3, <1>4

LEMMA FromTheFirst ==
  ASSUME NEW a \in Seq(Frame), NEW f, Consecutive(a, f, 0)
  PROVE  Unbroken(a)
  <1>1. DOMAIN a = 1..Len(a) /\ Len(a) \in Nat
    BY LenProperties
  <1>2. ASSUME NEW i \in 1..Len(a) PROVE a[i].from = a[1].from /\ a[i].nth = i
    <2>1. 1 \in 1..Len(a) /\ 0 + i = i
      BY <1>1
    <2> QED
      BY <2>1 DEF Consecutive
  <1> QED
    BY <1>1, <1>2 DEF Unbroken

LEMMA Begins ==
  ASSUME NEW a \in Seq(Frame), NEW b \in Seq(Frame)
  PROVE  IsPrefix(a, a \o b)
  <1>1. Len(a) \in Nat /\ Len(a) <= Len(a \o b)
    BY Joined
  <1>2. \A i \in 1..Len(a) : (a \o b)[i] = a[i] /\ a[i] \in Frame
    BY Joined, ElementOfSeq
  <1>3. SubSeq(a, 1, Len(a)) \in Seq(Frame) /\ SubSeq(a \o b, 1, Len(a)) \in Seq(Frame)
        /\ Len(SubSeq(a, 1, Len(a))) = Len(a) /\ Len(SubSeq(a \o b, 1, Len(a))) = Len(a)
        /\ \A i \in 1..Len(a) : SubSeq(a, 1, Len(a))[i] = a[i] /\ SubSeq(a \o b, 1, Len(a))[i] = (a \o b)[i]
    BY <1>1, <1>2
  <1>4. SubSeq(a, 1, Len(a)) = SubSeq(a \o b, 1, Len(a))
    BY <1>1, <1>2, <1>3, SeqEqual
  <1> QED
    BY <1>1, <1>4 DEF IsPrefix

(************************* what a Read may return **************************)

\* The bytes of a Read follow on what is in the layers, and the body stands after them.
LEMMA ChunkFrames ==
  ASSUME CallAssumption, Shape, Connections, NEW kinds \in SUBSET Kinds, NEW c \in Chunks(kinds),
         NEW k \in Nat, Consecutive(body.left, body.from, k), body.live => body.next = k + Len(body.left) + 1
  PROVE  /\ c \in Seq(Frame) /\ Consecutive(c, body.from, k)
         /\ After(c) \in Body /\ After(c).from = body.from /\ After(c).live = body.live
         /\ After(c).left = <<>>
         /\ body.live => After(c).next = k + Len(c) + 1
  <1>1. CASE body.left # <<>>
    <2>1. c = body.left /\ After(c) = [body EXCEPT !.left = <<>>]
      BY <1>1 DEF Chunks, After
    <2>2. After(c) \in Body /\ After(c).from = body.from /\ After(c).live = body.live
          /\ After(c).left = <<>> /\ After(c).next = body.next
      BY <2>1, Nothing DEF Shape, Body
    <2> QED
      BY <2>1, <2>2 DEF Shape, Body
  <1>2. CASE body.left = <<>>
    <2>1. body.live
      BY <1>2 DEF Chunks
    <2>2. body.from \in 1..MaxSent /\ body.next = k + 1 /\ Len(body.left) = 0
      BY <1>2, <2>1, Nothing, CallAssumption DEF Connections, Shape, CallAssumption
    <2>3. PICK ks \in [1..1 -> kinds] \cup [1..2 -> kinds] :
            /\ body.next + Len(ks) - 1 <= MaxFrames
            /\ c = [i \in 1..Len(ks) |-> [from |-> body.from, nth |-> body.next + i - 1, kind |-> ks[i]]]
      BY <1>2 DEF Chunks
    <2>4. Len(ks) \in {1, 2} /\ \A i \in 1..Len(ks) : ks[i] \in Kinds
      <3>1. ks \in [1..1 -> Kinds] \/ ks \in [1..2 -> Kinds]
        OBVIOUS
      <3> QED
        BY <3>1
    <2>5. ASSUME NEW i \in 1..Len(ks) PROVE c[i] \in Frame /\ c[i].from = body.from /\ c[i].nth = k + i
      BY <2>2, <2>3, <2>4, <2>5, CallAssumption DEF Frame, CallAssumption
    <2>6. c \in [1..Len(ks) -> Frame]
      BY <2>3, <2>5
    <2>7. c \in Seq(Frame) /\ Len(c) = Len(ks)
      BY <2>4, <2>6, LenProperties
    <2>8. After(c) = [body EXCEPT !.next = @ + Len(c)] /\ body.next + Len(c) \in 1..MaxFrames + 1
      BY <1>2, <2>2, <2>3, <2>4, <2>7, CallAssumption DEF After, CallAssumption
    <2>9. After(c) \in Body /\ After(c).from = body.from /\ After(c).live = body.live
          /\ After(c).left = <<>> /\ After(c).next = body.next + Len(c)
      BY <1>2, <2>8 DEF Shape, Body
    <2>10. After(c).next = k + Len(c) + 1
      BY <2>2, <2>4, <2>7, <2>9
    <2> QED
      BY <2>5, <2>7, <2>9, <2>10 DEF Consecutive
  <1> QED
    BY <1>1, <1>2

\* A body that has been closed, or of which nothing has been read, has no open connection.
LEMMA ClosedAll ==
  ASSUME Shape, Connections
  PROVE  /\ Closed \in Seq(ConnStates) /\ Len(Closed) = Len(conn)
         /\ \A i \in 1..Len(Closed) : Closed[i] # "open"
  <1>1. CASE body.live
    <2>1. Closed = [conn EXCEPT ![body.from] = "closed"] /\ body.from \in 1..Len(conn) /\ "closed" \in ConnStates
      BY <1>1 DEF Closed, Connections, ConnStates
    <2>2. /\ Closed \in Seq(ConnStates) /\ Len(Closed) = Len(conn)
          /\ \A i \in 1..Len(conn) : Closed[i] = IF i = body.from THEN "closed" ELSE conn[i]
      BY <2>1, ExceptSeq DEF Shape
    <2> QED
      BY <2>2 DEF Connections
  <1>2. CASE ~body.live
    BY <1>2 DEF Closed, Connections, Shape
  <1> QED
    BY <1>1, <1>2

(*************************** what the client sees **************************)

\* While the pieces fit, the properties hold.
LEMMA Conclude == Shape /\ Tops /\ Pieces /\ Unbroken(counted) /\ Exact => Shown
  <1> SUFFICES ASSUME Shape, Tops, Pieces, Unbroken(counted), Exact
               PROVE  Shown
    OBVIOUS
  <1>1. Consecutive(Delivered, body.from, 0)
    BY DEF Pieces, LineOf
  <1>2. CASE mode = "sent" /\ Aggregating
    BY <1>2 DEF Shown, OneAttempt, RetriedBeforeShown, CountedIsServed
  <1>3. ASSUME ~(mode = "sent" /\ Aggregating) PROVE Shown
    <2>1. out \in Seq(Frame) /\ chunk \in Seq(Frame) /\ held \in Seq(Frame)
      BY <1>3 DEF Shape
    <2>2. \/ out \o chunk = Delivered
          \/ out = <<>> /\ chunk = <<>> /\ mode # "stream"
      BY <1>3, <2>1, ConcatEqualIffEmpty DEF Tops, Delivered
    <2>3. OneAttempt
      BY <1>1, <2>1, <2>2, Joined, FromTheFirst, Nothing DEF OneAttempt
    <2>4. RetriedBeforeShown
      <3> SUFFICES ASSUME NEW i \in DOMAIN out, w.wrapped, out[i].kind = "retryable",
                          \A j \in 1..(i - 1) : out[j].kind = "prelude"
                   PROVE  w.retries > RetryMax \/ w.failed
        BY DEF RetriedBeforeShown
      <3>1. i \in 1..Len(out) /\ Len(out) \in Nat
        BY <2>1, LenProperties
      <3>2. /\ Delivered = out \o chunk /\ Len(out) <= Len(Delivered) /\ Len(Delivered) \in Nat
            /\ \A j \in 1..i : Delivered[j] = out[j]
        BY <2>1, <2>2, <3>1, Joined
      <3>3. ~Opening(Delivered, Len(Delivered))
        BY <3>1, <3>2 DEF Opening
      <3>4. ~Proceeds(Delivered)
        BY <3>1, <3>2 DEF Proceeds, Opening
      <3>5. Delivered # <<>>
        BY <3>1, <3>2
      <3> QED
        BY <3>3, <3>4, <3>5 DEF Pieces, StagingOf, GateOf
    <2>5. Extracting /\ ~Aggregating => IsPrefix(out, counted)
      <3>1. IsPrefix(out, out \o chunk)
        BY <2>1, Begins
      <3>2. counted \in Seq(Frame) /\ <<>> \in Seq(Frame)
        BY Nothing DEF Shape
      <3>3. IsPrefix(<<>>, counted)
        <4>1. IsPrefix(<<>>, <<>> \o counted)
          BY <3>2, Begins
        <4> QED
          BY <3>2, <4>1, ConcatEmptySeq
      <3> QED
        BY <2>2, <3>1, <3>3 DEF Exact
    <2>6. Extracting /\ mode = "stream" => counted = out \o chunk
      BY <2>2 DEF Exact
    <2> QED
      BY <2>3, <2>4, <2>5, <2>6 DEF Shown, CountedIsServed
  <1> QED
    BY <1>2, <1>3

\* What the client has seen stays true when nothing more is said, or what was about to be
\* written is lost as the client has left.
LEMMA ShownStays ==
  ASSUME Shape, Shown, UNCHANGED <<call, resp, mode, audits, counted, out>>,
         chunk' = chunk \/ (chunk' = <<>> /\ (gone' \/ chunk = <<>>)), gone => gone',
         w'.wrapped = w.wrapped, w'.retries = w.retries, w'.failed = w.failed
  PROVE  Shown'
  <1>1. Aggregating' = Aggregating /\ Extracting' = Extracting
    BY DEF Aggregating, Extracting
  <1>2. OneAttempt'
    <2>1. CASE mode = "sent" /\ Aggregating
      BY <1>1, <2>1 DEF OneAttempt
    <2>2. CASE ~(mode = "sent" /\ Aggregating) /\ chunk' = <<>>
      <3>1. out \in Seq(Frame) /\ chunk \in Seq(Frame) /\ Unbroken(out \o chunk) /\ out' \o chunk' = out
        BY <2>2, ConcatEmptySeq DEF Shape, Shown, OneAttempt
      <3>2. /\ DOMAIN out = 1..Len(out) /\ DOMAIN (out \o chunk) = 1..Len(out \o chunk)
            /\ Len(out) \in Nat /\ Len(out) <= Len(out \o chunk) /\ Len(out \o chunk) \in Nat
        BY <3>1, Joined, LenProperties
      <3>3. \A i \in 1..Len(out) : (out \o chunk)[i] = out[i]
        BY <3>1, Joined
      <3>4. Unbroken(out)
        BY <3>1, <3>2, <3>3 DEF Unbroken
      <3> QED
        BY <3>1, <3>4 DEF OneAttempt
    <2> QED
      BY <1>1, <2>1, <2>2 DEF Shown, OneAttempt
  <1>3. RetriedBeforeShown'
    BY <1>1 DEF Shown, RetriedBeforeShown
  <1>4. CountedIsServed'
    BY <1>1 DEF Shown, CountedIsServed, Unbroken
  <1> QED
    BY <1>2, <1>3, <1>4 DEF Shown

LEMMA Shows == IInv => Shown
  BY Conclude DEF IInv, Pipeline, Tally

(****************************** a Read of the top **************************)

\* The next frames are delivered: what is in the layers moves up.
LEMMA Advance ==
  ASSUME IInv, pc \in {"relay", "resend"}, NEW frames \in Seq(Frame), Deliver(frames),
         UNCHANGED <<call, resp, mode, audits, out>>,
         w' \in WrapperState, body' \in Body, conn' \in Seq(ConnStates), Len(conn') <= MaxSent, Connections',
         LineOf(Delivered \o frames, w', body'), StagingOf(Delivered \o frames, w'),
         GateOf(Delivered \o frames, w')
  PROVE  IInv'
  <1>1. /\ mode # "sent" /\ chunk = <<>> /\ Pieces /\ (mode # "stream" => out = <<>>)
        /\ mode = "stream" => held = <<>>
    BY DEF IInv, Tops, Pipeline, Flowing
  <1>2. /\ out \in Seq(Frame) /\ held \in Seq(Frame) /\ counted \in Seq(Frame)
        /\ Delivered \in Seq(Frame) /\ Delivered = (IF mode = "stream" THEN out ELSE held)
    BY <1>1, ConcatEmptySeq DEF IInv, Shape, Delivered
  <1>3. /\ counted' = IF Extracting THEN counted \o frames ELSE counted
        /\ mode = "stream" => chunk' = frames /\ pc' = "write" /\ held' = <<>>
        /\ mode # "stream" => held' = held \o frames /\ pc' = "relay" /\ chunk' = <<>>
    BY <1>1 DEF Deliver
  <1>4. Delivered' = Delivered \o frames
    BY <1>1, <1>2, <1>3 DEF Delivered
  <1>5. Extracting' = Extracting /\ Aggregating' = Aggregating
    BY DEF Extracting, Aggregating
  <1>6. Shape'
    <2>1. held' \in Seq(Frame) /\ counted' \in Seq(Frame) /\ chunk' \in Seq(Frame)
      BY <1>2, <1>3, Joined, Nothing
    <2> QED
      BY <1>2, <2>1 DEF IInv, Shape
  <1>7. Pieces'
    BY <1>4 DEF Pieces
  <1>8. Consecutive(Delivered', body'.from, 0) /\ Delivered' \in Seq(Frame)
    BY <1>2, <1>4, Joined DEF LineOf
  <1>9. Exact' /\ Unbroken(counted)'
    <2>1. CASE Extracting
      <3>1. counted' = Delivered'
        BY <2>1, <1>3, <1>4 DEF IInv, Tally, Exact, Flowing
      <3>2. Unbroken(Delivered')
        BY <1>8, FromTheFirst
      <3> QED
        BY <3>1, <3>2 DEF Exact, Unbroken
    <2>2. CASE ~Extracting
      BY <2>2, <1>3, <1>5 DEF IInv, Tally, Exact, Unbroken
    <2> QED
      BY <2>1, <2>2
  <1>10. Tops'
    <2>1. mode' = "aggregate" => Aggregating'
      BY <1>5 DEF IInv, Tops
    <2> QED
      BY <1>1, <1>3, <2>1 DEF Tops, Flowing
  <1>11. pc' \in {"write", "relay"}
    BY <1>3
  <1> QED
    BY <1>6, <1>7, <1>9, <1>10, <1>11 DEF IInv, Fresh, Pipeline, Retrying, Tally, Flowing, Before

\* Nothing is delivered, but the layers may have changed.
LEMMA Still ==
  ASSUME IInv, pc \in {"relay", "retry", "resend"},
         pc' \in {"relay", "retry", "resend", "finish", "close"},
         pc' = "finish" => mode # "stream", pc' \in {"retry", "resend"} => ~w'.started,
         UNCHANGED <<call, resp, mode, audits, out, counted, chunk, held>>, gone => gone',
         w' \in WrapperState, body' \in Body, conn' \in Seq(ConnStates), Len(conn') <= MaxSent, Connections',
         LineOf(Delivered, w', body'), StagingOf(Delivered, w'), GateOf(Delivered, w')
  PROVE  IInv'
  <1>1. mode # "sent" /\ chunk = <<>> /\ Unbroken(counted) /\ Exact
    BY DEF IInv, Tops, Tally, Flowing
  <1>2. Delivered' = Delivered /\ Extracting' = Extracting /\ Aggregating' = Aggregating
    BY DEF Delivered, Extracting, Aggregating
  <1>3. Shape'
    BY <1>2 DEF IInv, Shape
  <1>4. Pieces' /\ Exact' /\ Unbroken(counted)'
    <2>1. Pieces'
      BY <1>2 DEF Pieces
    <2>2. Exact'
      BY <1>1, <1>2 DEF Exact
    <2>3. Unbroken(counted)'
      BY <1>1 DEF Unbroken
    <2> QED
      BY <2>1, <2>2, <2>3
  <1>5. Tops'
    <2>1. mode' = "aggregate" => Aggregating'
      BY <1>2 DEF IInv, Tops
    <2> QED
      BY <1>1, <2>1 DEF IInv, Shape, Tops, Flowing, Modes
  <1>6. Shown'
    BY <1>3, <1>4, <1>5, Conclude, PTL
  <1> QED
    BY <1>3, <1>4, <1>5, <1>6 DEF IInv, Fresh, Pipeline, Retrying, Tally, Flowing, Before

\* All that the wrapper holds is let go, in order.
LEMMA Poured ==
  ASSUME NEW d \in Seq(Frame), NEW v \in WrapperState, NEW b \in Body, LineOf(d, v, b),
         NEW u, u.staged = <<>>, u.buf = <<>>
  PROVE  LineOf(d \o (v.staged \o v.buf), u, b)
  <1>1. v.staged \in Seq(Frame) /\ v.buf \in Seq(Frame)
    BY DEF WrapperState
  <1> DEFINE all == v.staged \o v.buf
  <1>2. /\ all \in Seq(Frame) /\ Len(all) = Len(v.staged) + Len(v.buf)
        /\ Len(d) \in Nat /\ Len(v.staged) \in Nat /\ Len(v.buf) \in Nat
    BY <1>1, Joined
  <1>3. Consecutive(all, b.from, Len(d))
    BY <1>1, <1>2, InARow DEF LineOf
  <1> HIDE DEF all
  <1>4. Consecutive(d \o all, b.from, 0) /\ Len(d \o all) = Len(d) + Len(v.staged) + Len(v.buf)
    <2>1. 0 + Len(d) = Len(d)
      BY <1>2
    <2>2. Consecutive(d \o all, b.from, 0)
      BY <1>2, <1>3, <2>1, InARow DEF LineOf
    <2>3. Len(d \o all) = Len(d) + Len(v.staged) + Len(v.buf)
      BY <1>1, Lengths DEF all
    <2> QED
      BY <2>2, <2>3
  <1>5. /\ Consecutive(b.left, b.from, Len(d \o all))
        /\ b.live => b.next = Len(d \o all) + Len(b.left) + 1
    BY <1>4 DEF LineOf
  <1>6. Len(d \o all) + 0 + 0 = Len(d \o all)
    BY <1>2, <1>4
  <1>7. LineOf(d \o all, u, b)
    BY <1>4, <1>5, <1>6, Nothing DEF LineOf
  <1> QED
    BY <1>7 DEF all

LEMMA ProceedsOn ==
  ASSUME NEW a \in Seq(Frame), NEW b \in Seq(Frame)
  PROVE  /\ Proceeds(a) => Proceeds(a \o b)
         /\ Opening(a, Len(a)) /\ b # <<>> /\ Head(b).kind \notin {"prelude", "retryable"} => Proceeds(a \o b)
  <1>1. ASSUME NEW i \in 1..Len(a), a[i].kind \notin {"prelude", "retryable"}, Opening(a, i - 1)
        PROVE  Proceeds(a \o b)
    <2>1. i \in 1..Len(a \o b) /\ \A j \in 1..i : (a \o b)[j] = a[j]
      BY Joined
    <2> QED
      BY <1>1, <2>1 DEF Proceeds, Opening
  <1>2. ASSUME Opening(a, Len(a)), b # <<>>, Head(b).kind \notin {"prelude", "retryable"}
        PROVE  Proceeds(a \o b)
    <2>1. /\ Head(b) = b[1] /\ 1 \in 1..Len(b) /\ Len(a) \in Nat
      BY <1>2, LenProperties
    <2>2. /\ Len(a) + 1 \in 1..Len(a \o b) /\ (a \o b)[Len(a) + 1] = Head(b) /\ Len(a) + 1 - 1 = Len(a)
          /\ \A j \in 1..Len(a) : (a \o b)[j] = a[j]
      BY <2>1, Joined
    <2>3. Opening(a \o b, Len(a) + 1 - 1)
      BY <1>2, <2>2 DEF Opening
    <2> QED
      BY <1>2, <2>2, <2>3 DEF Proceeds
  <1> QED
    BY <1>1, <1>2 DEF Proceeds

\* One round of the wrapper's Read keeps the invariant, whatever it holds by then.
LEMMA RoundStep ==
  ASSUME CallAssumption, IInv, pc = "relay", NEW v \in WrapperState,
         body' \in Body, body'.from = body.from, body'.live = body.live,
         LineOf(Delivered, v, body'), StagingOf(Delivered, v), GateOf(Delivered, v),
         Round(v), UNCHANGED <<call, gone, conn, resp, mode, audits, out>>
  PROVE  IInv'
  <1>1. /\ v.staged \in Seq(Frame) /\ v.buf \in Seq(Frame) /\ v.retries \in Nat /\ RetryMax \in Nat
        /\ v.wrapped \in BOOLEAN /\ v.started \in BOOLEAN /\ v.exhausted \in BOOLEAN /\ v.failed \in BOOLEAN
    BY DEF WrapperState, CallAssumption
  <1>2. Delivered \in Seq(Frame) /\ Len(Delivered) \in Nat
    BY Joined, LenProperties DEF IInv, Shape, Tops, Delivered
  <1>3. conn' \in Seq(ConnStates) /\ Len(conn') <= MaxSent
    BY DEF IInv, Shape
  <1>4. pc' \notin Shut /\ pc' \notin InUse => Connections'
    BY DEF IInv, Connections
  <1> DEFINE all == v.staged \o v.buf
  <1>5. all \in Seq(Frame) /\ (v.staged = <<>> => all = v.buf) /\ (v.buf = <<>> => all = v.staged)
    BY <1>1, Joined
  <1> HIDE DEF all
  <1>6. ASSUME Deliver(all), w' \in WrapperState, w'.staged = <<>>, w'.buf = <<>>, w'.started,
               GateOf(Delivered \o all, w')
        PROVE  IInv'
    <2>1. LineOf(Delivered \o all, w', body')
      BY <1>2, <1>6, Poured DEF all
    <2>2. StagingOf(Delivered \o all, w')
      BY <1>6 DEF StagingOf
    <2>3. Connections'
      BY <1>4, <1>6 DEF Deliver, Shut, InUse
    <2> QED
      BY <1>3, <1>5, <1>6, <2>1, <2>2, <2>3, Advance
  <1>7. ASSUME pc' \in {"relay", "retry", "finish", "close"}, pc' = "finish" => mode # "stream",
               pc' = "retry" => ~w'.started, UNCHANGED <<counted, chunk, held>>, w' \in WrapperState,
               LineOf(Delivered, w', body'), StagingOf(Delivered, w'), GateOf(Delivered, w')
        PROVE  IInv'
    <2>1. Connections'
      BY <1>4, <1>7 DEF Shut, InUse
    <2> QED
      BY <1>3, <1>7, <2>1, Still
  <1>8. CASE Passing(v)
    <2>1. v.started /\ v.staged = <<>>
      BY <1>8 DEF Passing, StagingOf
    <2>2. CASE v.buf # <<>>
      <3>1. Deliver(all) /\ w' = [v EXCEPT !.buf = <<>>]
        BY <1>5, <1>8, <2>1, <2>2 DEF Round
      <3>2. w' \in WrapperState /\ w'.staged = <<>> /\ w'.buf = <<>> /\ w'.started
        BY <2>1, <3>1, Nothing DEF WrapperState
      <3>3. GateOf(Delivered \o all, w')
        BY <1>2, <1>5, <2>1, <2>2, <3>1, ProceedsOn, Nothing DEF GateOf, WrapperState
      <3> QED
        BY <1>6, <3>1, <3>2, <3>3
    <2>3. CASE v.buf = <<>>
      BY <1>7, <1>8, <2>3 DEF Round, Over, Unmoved
    <2> QED
      BY <2>2, <2>3
  <1>9. ASSUME ~Passing(v), v.buf = <<>> PROVE IInv'
    <2>1. ~v.started /\ Delivered = <<>>
      BY <1>9 DEF Passing, StagingOf
    <2>2. CASE ~v.exhausted
      BY <1>7, <1>9, <2>2 DEF Round, Unmoved
    <2>3. CASE v.exhausted
      <3>1. w' = [v EXCEPT !.started = TRUE, !.staged = <<>>]
        BY <1>9, <2>3 DEF Round
      <3>2. /\ w' \in WrapperState /\ w'.staged = <<>> /\ w'.buf = <<>> /\ w'.started
            /\ w'.exhausted
        BY <1>9, <2>3, <3>1, Nothing DEF WrapperState
      <3>3. CASE v.staged # <<>>
        <4>1. Deliver(all)
          BY <1>5, <1>9, <2>3, <3>3 DEF Round
        <4>2. Delivered \o all = v.staged
          BY <1>2, <1>5, <1>9, <2>1, Joined
        <4>3. GateOf(Delivered \o all, w')
          BY <3>2, <4>2, Nothing DEF GateOf
        <4> QED
          BY <1>6, <3>2, <4>1, <4>3
      <3>4. CASE v.staged = <<>>
        <4>1. Over
          BY <1>9, <2>3, <3>4 DEF Round
        <4>2. LineOf(Delivered, w', body') /\ StagingOf(Delivered, w') /\ GateOf(Delivered, w')
          BY <1>9, <2>1, <3>2, <3>4, Nothing DEF LineOf, StagingOf, GateOf
        <4> QED
          BY <1>7, <3>2, <4>1, <4>2 DEF Over
      <3> QED
        BY <3>3, <3>4
    <2> QED
      BY <2>2, <2>3
  <1>10. ASSUME ~Passing(v), v.buf # <<>> PROVE IInv'
    <2>1. /\ ~v.started /\ Delivered = <<>> /\ Opening(v.staged, Len(v.staged)) /\ v.wrapped
          /\ Len(v.staged) \in Nat
      BY <1>1, <1>10, LenProperties DEF Passing, StagingOf, GateOf
    <2>2. CASE Prelude(Head(v.buf))
      <3> DEFINE h == Head(v.buf)
      <3>1. w' = [v EXCEPT !.staged = Append(@, h), !.buf = Tail(@)] /\ Unmoved
        BY <1>10, <2>2 DEF Round, Prelude, Retries, Retryable
      <3>2. h.kind = "prelude"
        BY <2>2 DEF Prelude
      <3>3. /\ Append(v.staged, h) \in Seq(Frame) /\ Tail(v.buf) \in Seq(Frame)
            /\ Consecutive(Append(v.staged, h), body'.from, Len(Delivered))
            /\ Opening(Append(v.staged, h), Len(Append(v.staged, h)))
            /\ Consecutive(Tail(v.buf), body'.from, Len(Delivered) + Len(Append(v.staged, h)))
            /\ Len(Delivered) + Len(Append(v.staged, h)) + Len(Tail(v.buf))
                 = Len(Delivered) + Len(v.staged) + Len(v.buf)
        <4>1. /\ Consecutive(v.staged, body'.from, Len(Delivered))
              /\ Consecutive(v.buf, body'.from, Len(Delivered) + Len(v.staged))
          BY DEF LineOf
        <4>2. ASSUME NEW a, NEW b, a = v.staged, b = v.buf
              PROVE  /\ Append(a, h) \in Seq(Frame) /\ Tail(b) \in Seq(Frame)
                     /\ Consecutive(Append(a, h), body'.from, Len(Delivered))
                     /\ Opening(Append(a, h), Len(Append(a, h)))
                     /\ Consecutive(Tail(b), body'.from, Len(Delivered) + Len(Append(a, h)))
                     /\ Len(Delivered) + Len(Append(a, h)) + Len(Tail(b)) = Len(Delivered) + Len(a) + Len(b)
          <5>1. /\ a \in Seq(Frame) /\ b \in Seq(Frame) /\ b # <<>> /\ Opening(a, Len(a))
                /\ Head(b) = h /\ Head(b).kind = "prelude"
                /\ Consecutive(a, body'.from, Len(Delivered))
                /\ Consecutive(b, body'.from, Len(Delivered) + Len(a))
            BY <1>1, <1>10, <2>1, <3>2, <4>1, <4>2
          <5> HIDE DEF h
          <5> QED
            BY <1>2, <5>1, MovedOne
        <4> QED
          BY <4>2, Zenon
      <3> HIDE DEF h
      <3>4. /\ w' \in WrapperState /\ w'.staged = Append(v.staged, h) /\ w'.buf = Tail(v.buf)
            /\ w'.started = v.started /\ w'.wrapped = v.wrapped
        BY <3>1, <3>3 DEF WrapperState
      <3>5. LineOf(Delivered, w', body')
        BY <3>3, <3>4 DEF LineOf
      <3>6. StagingOf(Delivered, w') /\ GateOf(Delivered, w')
        BY <2>1, <3>3, <3>4 DEF StagingOf, GateOf
      <3> QED
        BY <1>7, <3>1, <3>4, <3>5, <3>6 DEF Unmoved
    <2>3. CASE ~Prelude(Head(v.buf)) /\ Retries(v)
      <3>1. w' = [v EXCEPT !.retries = @ + 1] /\ pc' = "retry" /\ UNCHANGED <<counted, chunk, held>>
        BY <1>10, <2>3 DEF Round
      <3>2. /\ w' \in WrapperState /\ w'.staged = v.staged /\ w'.buf = v.buf
            /\ w'.started = v.started /\ w'.wrapped = v.wrapped
        <4>1. v.retries + 1 \in Nat
          BY <1>1
        <4> QED
          BY <3>1, <4>1 DEF WrapperState
      <3>3. LineOf(Delivered, w', body') /\ StagingOf(Delivered, w') /\ GateOf(Delivered, w')
        BY <2>1, <3>2 DEF LineOf, StagingOf, GateOf
      <3> QED
        BY <1>7, <2>1, <3>1, <3>2, <3>3
    <2>4. CASE ~Prelude(Head(v.buf)) /\ ~Retries(v)
      <3>1. /\ Deliver(all)
            /\ w' = [v EXCEPT !.started = TRUE, !.staged = <<>>, !.buf = <<>>,
                        !.retries = IF Retryable(Head(v.buf)) THEN @ + 1 ELSE @]
        BY <1>10, <2>4 DEF Round, all
      <3>2. /\ w' \in WrapperState /\ w'.staged = <<>> /\ w'.buf = <<>> /\ w'.started
            /\ w'.retries = IF Retryable(Head(v.buf)) THEN v.retries + 1 ELSE v.retries
        <4>1. (IF Retryable(Head(v.buf)) THEN v.retries + 1 ELSE v.retries) \in Nat
          BY <1>1
        <4> QED
          BY <3>1, <4>1, Nothing DEF WrapperState
      <3>3. Delivered \o all = all
        BY <1>2, <1>5, <2>1, Joined
      <3>4. CASE Retryable(Head(v.buf))
        <4>1. w'.retries > RetryMax
          BY <1>1, <2>4, <3>2, <3>4 DEF Retries
        <4> QED
          BY <1>6, <3>1, <3>2, <4>1, Nothing DEF GateOf
      <3>5. CASE ~Retryable(Head(v.buf))
        <4>1. Proceeds(all)
          BY <1>1, <1>10, <2>1, <2>4, <3>5, ProceedsOn DEF all, Prelude, Retryable
        <4>2. GateOf(Delivered \o all, w')
          BY <3>2, <3>3, <4>1, Nothing DEF GateOf
        <4> QED
          BY <1>6, <3>1, <3>2, <4>2
      <3> QED
        BY <3>4, <3>5
    <2> QED
      BY <2>2, <2>3, <2>4
  <1> QED
    BY <1>8, <1>9, <1>10

\* What was read goes to the end of the wrapper's buffer.
LEMMA Received ==
  ASSUME CallAssumption, Shape, Connections, NEW d \in Seq(Frame), LineOf(d, w, body),
         NEW kinds \in SUBSET Kinds, NEW c \in Chunks(kinds)
  PROVE  /\ [w EXCEPT !.buf = @ \o c] \in WrapperState /\ After(c) \in Body
         /\ After(c).from = body.from /\ After(c).live = body.live
         /\ LineOf(d, [w EXCEPT !.buf = @ \o c], After(c))
  <1>1. ASSUME NEW a, NEW b, a = w.staged, b = w.buf
        PROVE  /\ c \in Seq(Frame) /\ b \o c \in Seq(Frame)
               /\ Consecutive(b \o c, body.from, Len(d) + Len(a))
               /\ After(c) \in Body /\ After(c).from = body.from /\ After(c).live = body.live
               /\ Consecutive(After(c).left, body.from, Len(d) + Len(a) + Len(b \o c))
               /\ After(c).live => After(c).next = Len(d) + Len(a) + Len(b \o c) + Len(After(c).left) + 1
    <2>1. /\ a \in Seq(Frame) /\ b \in Seq(Frame)
          /\ Consecutive(b, body.from, Len(d) + Len(a))
          /\ Consecutive(body.left, body.from, Len(d) + Len(a) + Len(b))
          /\ body.live => body.next = Len(d) + Len(a) + Len(b) + Len(body.left) + 1
      BY <1>1 DEF LineOf, Shape, WrapperState
    <2> DEFINE k == Len(d) + Len(a) + Len(b)
    <2>2. k \in Nat /\ Len(d) \in Nat /\ Len(a) \in Nat /\ Len(b) \in Nat
      BY <2>1, LenProperties
    <2>3. Consecutive(body.left, body.from, k) /\ (body.live => body.next = k + Len(body.left) + 1)
      BY <2>1
    <2> HIDE DEF k
    <2>4. /\ c \in Seq(Frame) /\ Consecutive(c, body.from, k)
          /\ After(c) \in Body /\ After(c).from = body.from /\ After(c).live = body.live
          /\ After(c).left = <<>>
          /\ body.live => After(c).next = k + Len(c) + 1
      BY <2>2, <2>3, ChunkFrames
    <2>5. Len(b \o c) = Len(b) + Len(c) /\ b \o c \in Seq(Frame) /\ Len(c) \in Nat
      BY <2>1, <2>4, Joined
    <2>6. Consecutive(b \o c, body.from, Len(d) + Len(a))
      BY <2>1, <2>2, <2>4, InARow DEF k
    <2>7. k + Len(c) + 1 = Len(d) + Len(a) + Len(b \o c) + Len(<<>>) + 1
      BY <2>2, <2>5 DEF k
    <2> QED
      BY <2>4, <2>5, <2>6, <2>7, Nothing
  <1>2. /\ [w EXCEPT !.buf = @ \o c] \in WrapperState
        /\ [w EXCEPT !.buf = @ \o c].buf = w.buf \o c
        /\ [w EXCEPT !.buf = @ \o c].staged = w.staged
    BY <1>1 DEF Shape, WrapperState
  <1> DEFINE v == [w EXCEPT !.buf = @ \o c]
  <1> HIDE DEF v
  <1>3. v.buf = w.buf \o c /\ v.staged = w.staged
    BY <1>2 DEF v
  <1>4. LineOf(d, v, After(c))
    <2>1. Consecutive(d, After(c).from, 0) /\ Consecutive(v.staged, After(c).from, Len(d))
      BY <1>1, <1>3 DEF LineOf
    <2>2. Consecutive(v.buf, After(c).from, Len(d) + Len(v.staged))
      BY <1>1, <1>3
    <2>3. /\ Consecutive(After(c).left, After(c).from, Len(d) + Len(v.staged) + Len(v.buf))
          /\ After(c).live => After(c).next = Len(d) + Len(v.staged) + Len(v.buf) + Len(After(c).left) + 1
      BY <1>1, <1>3
    <2> QED
      BY <2>1, <2>2, <2>3 DEF LineOf
  <1> QED
    BY <1>1, <1>2, <1>4 DEF v

LEMMA ReadKeeps ==
  ASSUME CallAssumption, IInv, ReadMore \/ ReadOn
  PROVE  IInv'
  <1>1. /\ pc = "relay" /\ Pieces /\ Shape /\ Connections /\ UNCHANGED <<call, gone, conn, resp, mode, audits, out>>
    BY DEF IInv, Pipeline, Flowing, ReadMore, ReadOn
  <1>2. Delivered \in Seq(Frame) /\ w \in WrapperState /\ body \in Body
    BY <1>1, Joined DEF IInv, Shape, Tops, Delivered
  <1>3. CASE ReadOn
    BY <1>1, <1>2, <1>3, RoundStep DEF ReadOn, Pieces
  <1>4. ASSUME ~w.exhausted, NEW kinds \in SUBSET Kinds, NEW c \in Chunks(kinds), body' = After(c),
               Round([w EXCEPT !.buf = @ \o c])
        PROVE  IInv'
    <2> DEFINE v == [w EXCEPT !.buf = @ \o c]
    <2>1. v \in WrapperState /\ LineOf(Delivered, v, body') /\ body' \in Body
          /\ body'.from = body.from /\ body'.live = body.live
      BY <1>1, <1>2, <1>4, Received DEF Pieces
    <2>2. /\ v.wrapped = w.wrapped /\ v.started = w.started /\ v.exhausted = w.exhausted
          /\ v.staged = w.staged /\ v.retries = w.retries /\ v.failed = w.failed
      BY <1>2 DEF WrapperState
    <2>3. Round(v)
      BY <1>4
    <2> HIDE DEF v
    <2>4. StagingOf(Delivered, v) /\ GateOf(Delivered, v)
      BY <1>1, <1>4, <2>2 DEF Pieces, StagingOf, GateOf
    <2> QED
      BY <1>1, <2>1, <2>3, <2>4, RoundStep
  <1>5. ASSUME ~w.exhausted, body' = body, Round([w EXCEPT !.exhausted = TRUE])
        PROVE  IInv'
    <2> DEFINE v == [w EXCEPT !.exhausted = TRUE]
    <2>1. /\ v \in WrapperState
          /\ v.wrapped = w.wrapped /\ v.started = w.started /\ v.buf = w.buf
          /\ v.staged = w.staged /\ v.retries = w.retries /\ v.failed = w.failed
      BY <1>2 DEF WrapperState
    <2>2. Round(v)
      BY <1>5
    <2> HIDE DEF v
    <2>3. StagingOf(Delivered, v) /\ GateOf(Delivered, v) /\ LineOf(Delivered, v, body')
      BY <1>1, <1>5, <2>1 DEF Pieces, StagingOf, GateOf, LineOf
    <2> QED
      BY <1>1, <1>2, <1>5, <2>1, <2>2, <2>3, RoundStep
  <1>6. CASE ReadMore
    <2>1. (IF resp.sse THEN Kinds ELSE IF resp.empty THEN {} ELSE {"data"}) \in SUBSET Kinds
      BY DEF Kinds
    <2> QED
      BY <1>4, <1>5, <1>6, <2>1 DEF ReadMore
  <1> QED
    BY <1>3, <1>6

(************************** the rest of the relay **************************)

\* A request that is answered has the only open connection.
LEMMA AnsweredOpens ==
  ASSUME CallAssumption, Shape, Connections, pc \in Shut, NEW r, Answered(r)
  PROVE  /\ conn' \in Seq(ConnStates) /\ Len(conn') <= MaxSent
         /\ \A i \in 1..Len(conn') : conn'[i] = "open" => i = body'.from
         /\ body' \in Body /\ body'.live /\ body'.from \in 1..Len(conn')
         /\ body'.left = <<>> /\ body'.next = 1
  <1>1. /\ conn' = Append(conn, "open") /\ Len(conn) < MaxSent /\ Len(conn) \in Nat
        /\ body' = [from |-> Len(conn) + 1, live |-> TRUE, left |-> <<>>, next |-> 1]
        /\ conn \in Seq(ConnStates) /\ "open" \in ConnStates
        /\ \A i \in 1..Len(conn) : conn[i] # "open"
    BY LenProperties DEF Answered, CanSend, Shape, Connections, ConnStates
  <1>2. /\ conn' \in Seq(ConnStates) /\ Len(conn') = Len(conn) + 1
        /\ \A i \in 1..Len(conn) : conn'[i] = conn[i]
    BY <1>1, AppendProperties
  <1>3. body' \in Body
    BY <1>1, Nothing, CallAssumption DEF Body, CallAssumption
  <1> QED
    BY <1>1, <1>2, <1>3, CallAssumption DEF CallAssumption

LEMMA UnansweredOpensNone ==
  ASSUME CallAssumption, Shape, Connections, pc \in Shut, Unanswered
  PROVE  /\ conn' \in Seq(ConnStates) /\ Len(conn') <= MaxSent /\ Len(conn') = Len(conn) + 1
         /\ \A i \in 1..Len(conn') : conn'[i] # "open"
         /\ body.live => body.from \in 1..Len(conn')
  <1>1. /\ conn' = Append(conn, "closed") /\ Len(conn) < MaxSent /\ Len(conn) \in Nat
        /\ conn \in Seq(ConnStates) /\ "closed" \in ConnStates
        /\ \A i \in 1..Len(conn) : conn[i] # "open"
        /\ body.live => body.from \in 1..Len(conn)
    BY LenProperties DEF Unanswered, CanSend, Shape, Connections, ConnStates
  <1>2. /\ conn' \in Seq(ConnStates) /\ Len(conn') = Len(conn) + 1
        /\ conn'[Len(conn) + 1] = "closed"
        /\ \A i \in 1..Len(conn) : conn'[i] = conn[i]
    BY <1>1, AppendProperties
  <1>3. \A i \in 1..Len(conn') : i \in 1..Len(conn) \/ i = Len(conn) + 1
    BY <1>1, <1>2
  <1> QED
    BY <1>1, <1>2, <1>3, CallAssumption DEF CallAssumption

\* Nothing moves in the layers.
LEMMA Same ==
  ASSUME IInv, UNCHANGED <<call, resp, mode, audits, out, counted, chunk, held, w, body>>, gone => gone',
         conn' \in {conn, Closed}, Flowing' => Flowing, Connections', Fresh', Tops', Retrying'
  PROVE  IInv'
  <1>1. conn' \in Seq(ConnStates) /\ Len(conn') <= MaxSent
    BY ClosedAll DEF IInv, Shape
  <1>2. Shape'
    BY <1>1 DEF IInv, Shape, Aggregating
  <1>3. Delivered' = Delivered
    BY DEF Delivered
  <1>4. Pipeline' /\ Tally'
    <2>1. Pieces => Pieces'
      BY <1>3 DEF Pieces
    <2>2. Exact => Exact'
      BY <1>3 DEF Exact, Extracting
    <2>3. Unbroken(counted) => Unbroken(counted)'
      BY DEF Unbroken
    <2> QED
      BY <2>1, <2>2, <2>3 DEF IInv, Pipeline, Tally
  <1>5. Shown'
    BY Shows, ShownStays DEF IInv
  <1> QED
    BY <1>2, <1>4, <1>5 DEF IInv

\* A buffer is sent, whole or not at all, or as its last snapshot.
LEMMA SendKeeps ==
  ASSUME IInv, pc \in {"relay", "finish", "again"}, mode # "stream", pc' = "write", mode' = "sent",
         chunk' \in {<<>>, held} \/ mode = "aggregate",
         UNCHANGED <<call, resp, audits, out, counted, held, w, body>>,
         conn' \in Seq(ConnStates), Len(conn') <= MaxSent, Connections'
  PROVE  IInv'
  <1>1. /\ out = <<>> /\ mode # "sent" /\ Pieces /\ Unbroken(counted) /\ Exact /\ held \in Seq(Frame)
        /\ mode = "aggregate" => Aggregating
    BY DEF IInv, Shape, Tops, Pipeline, Tally, Flowing
  <1>2. Delivered' = Delivered /\ Extracting' = Extracting /\ Aggregating' = Aggregating
    BY <1>1 DEF Delivered, Extracting, Aggregating
  <1>3. Shape'
    <2>1. (out' \in Seq(Frame) /\ chunk' \in Seq(Frame)) \/ Aggregating'
      BY <1>1, <1>2, Nothing
    <2> QED
      BY <2>1 DEF IInv, Shape, Modes
  <1>4. Pieces' /\ Exact' /\ Unbroken(counted)'
    <2>1. Pieces'
      BY <1>1, <1>2 DEF Pieces
    <2>2. Exact'
      BY <1>1, <1>2 DEF Exact
    <2>3. Unbroken(counted)'
      BY <1>1 DEF Unbroken
    <2> QED
      BY <2>1, <2>2, <2>3
  <1>5. Tops'
    <2>1. ~Aggregating' => out' \o chunk' \in {<<>>, held'}
      BY <1>1, <1>2, Joined, Nothing
    <2> QED
      BY <1>1, <2>1 DEF Tops, Flowing
  <1> QED
    BY <1>3, <1>4, <1>5 DEF IInv, Fresh, Pipeline, Retrying, Tally, Flowing, Before

LEMMA RetryKeeps ==
  ASSUME CallAssumption, IInv, CloseForRetry \/ RetryAnswered \/ RetryFails
  PROVE  IInv'
  <1>1. /\ ~w.started /\ Delivered = <<>> /\ Pieces /\ Shape /\ Connections
        /\ w \in WrapperState /\ body \in Body
    BY DEF IInv, Shape, Pipeline, Pieces, StagingOf, Retrying, Flowing, CloseForRetry, RetryAnswered, RetryFails
  <1>2. CASE CloseForRetry
    <2>1. /\ pc = "retry" /\ pc' = "resend" /\ w' = [w EXCEPT !.exhausted = FALSE] /\ conn' = Closed
          /\ UNCHANGED <<gone, call, resp, mode, audits, out, counted, chunk, held, body>>
      BY <1>2 DEF CloseForRetry
    <2>2. /\ w' \in WrapperState /\ w'.staged = w.staged /\ w'.buf = w.buf
          /\ w'.started = w.started /\ w'.wrapped = w.wrapped
      BY <1>1, <2>1 DEF WrapperState
    <2>3. LineOf(Delivered, w', body') /\ StagingOf(Delivered, w') /\ GateOf(Delivered, w')
      BY <1>1, <2>1, <2>2 DEF Pieces, LineOf, StagingOf, GateOf
    <2>4. conn' \in Seq(ConnStates) /\ Len(conn') <= MaxSent /\ Connections'
      BY <1>1, <2>1, ClosedAll DEF Shape, Connections, InUse
    <2> QED
      BY <1>1, <2>1, <2>2, <2>3, <2>4, Still
  <1>3. CASE RetryAnswered
    <2>1. /\ pc = "resend" /\ pc' = "relay" /\ w' = [w EXCEPT !.staged = <<>>, !.buf = <<>>]
          /\ UNCHANGED <<gone, call, resp, mode, audits, out, counted, chunk, held>>
          /\ Answered(resp)
      BY <1>3 DEF RetryAnswered, Answered
    <2>2. /\ w' \in WrapperState /\ w'.staged = <<>> /\ w'.buf = <<>>
          /\ w'.started = w.started /\ w'.wrapped = w.wrapped
      BY <1>1, <2>1, Nothing DEF WrapperState
    <2>3. /\ conn' \in Seq(ConnStates) /\ Len(conn') <= MaxSent
          /\ \A i \in 1..Len(conn') : conn'[i] = "open" => i = body'.from
          /\ body' \in Body /\ body'.live /\ body'.from \in 1..Len(conn')
          /\ body'.left = <<>> /\ body'.next = 1
      BY <1>1, <2>1, AnsweredOpens DEF Shut
    <2>4. LineOf(<<>>, w', body') /\ StagingOf(<<>>, w') /\ GateOf(<<>>, w')
      BY <1>1, <2>2, <2>3, Nothing DEF Pieces, LineOf, StagingOf, GateOf
    <2>5. Connections'
      BY <2>1, <2>3 DEF Connections, Shut, InUse
    <2> QED
      BY <1>1, <2>1, <2>2, <2>3, <2>4, <2>5, Still
  <1>4. CASE RetryFails
    <2> DEFINE all == w.staged \o w.buf
    <2>1. /\ pc = "resend" /\ Deliver(all) /\ Unanswered
          /\ w' = [w EXCEPT !.started = TRUE, !.failed = TRUE, !.staged = <<>>, !.buf = <<>>]
          /\ UNCHANGED <<gone, call, resp, mode, audits, out, body>>
      BY <1>4 DEF RetryFails
    <2>2. /\ w' \in WrapperState /\ w'.staged = <<>> /\ w'.buf = <<>> /\ w'.started /\ w'.failed
      BY <1>1, <2>1, Nothing DEF WrapperState
    <2>3. all \in Seq(Frame) /\ Delivered \in Seq(Frame)
      BY <1>1, Joined, Nothing DEF WrapperState
    <2>4. LineOf(Delivered \o all, w', body')
      BY <1>1, <2>1, <2>2, <2>3, Poured DEF Pieces
    <2> HIDE DEF all
    <2>5. StagingOf(Delivered \o all, w') /\ GateOf(Delivered \o all, w')
      BY <2>2, Nothing DEF StagingOf, GateOf
    <2>6. /\ conn' \in Seq(ConnStates) /\ Len(conn') <= MaxSent
          /\ \A i \in 1..Len(conn') : conn'[i] # "open"
          /\ body.live => body.from \in 1..Len(conn')
      BY <1>1, <2>1, UnansweredOpensNone DEF Shut
    <2>7. Connections' /\ body' \in Body
      BY <1>1, <2>1, <2>6 DEF Connections, Deliver, InUse
    <2> QED
      BY <2>1, <2>2, <2>3, <2>4, <2>5, <2>6, <2>7, Advance
  <1> QED
    BY <1>2, <1>3, <1>4

LEMMA WriteKeeps ==
  ASSUME IInv, Write
  PROVE  IInv'
  <1>1. /\ pc = "write" /\ chunk' = <<>>
        /\ UNCHANGED <<call, gone, conn, resp, body, w, mode, held, audits, counted>>
        /\ Shape /\ Connections /\ Tops /\ Pieces /\ Unbroken(counted) /\ Exact
    BY DEF Write, IInv, Pipeline, Tally, Flowing
  <1>2. Aggregating' = Aggregating /\ Extracting' = Extracting
    BY <1>1 DEF Aggregating, Extracting
  <1>3. ~(mode = "sent" /\ Aggregating) => out \in Seq(Frame) /\ chunk \in Seq(Frame)
    BY <1>1 DEF Shape
  <1>4. CASE ~gone /\ out' = out \o chunk /\ pc' = IF mode = "sent" THEN "close" ELSE "relay"
    <2>1. ~(mode = "sent" /\ Aggregating) =>
             out' \in Seq(Frame) /\ chunk' \in Seq(Frame) /\ out' \o chunk' = out \o chunk
      BY <1>1, <1>3, <1>4, Joined, Nothing
    <2>2. Delivered' = Delivered
      BY <1>1, <2>1 DEF Delivered
    <2>3. Shape'
      BY <1>1, <1>2, <2>1 DEF Shape
    <2>4. Pieces'
      BY <1>1, <2>2 DEF Pieces
    <2>5. Exact' /\ Unbroken(counted)'
      BY <1>1, <1>2, <2>2 DEF Exact, Unbroken
    <2>6. Tops'
      <3>1. mode \notin {"stream", "sent"} => out' = <<>>
        BY <1>1, <1>4, Joined, Nothing DEF Tops
      <3>2. mode' = "sent" /\ ~Aggregating' => out' \o chunk' \in {<<>>, held'}
        BY <1>1, <1>2, <2>1 DEF Tops
      <3> QED
        BY <1>1, <1>2, <1>4, <3>1, <3>2 DEF Tops, Flowing
    <2>7. Connections'
      BY <1>1, <1>4 DEF Connections, Shut, InUse
    <2>8. Shown'
      BY <2>3, <2>4, <2>5, <2>6, Conclude, PTL
    <2> QED
      BY <1>4, <2>3, <2>4, <2>5, <2>6, <2>7, <2>8
         DEF IInv, Fresh, Pipeline, Retrying, Tally, Flowing, Before
  <1>5. CASE gone /\ out' = out /\ pc' = "close"
    <2>1. Shape'
      BY <1>1, <1>2, <1>3, <1>5, Nothing DEF Shape
    <2>2. Unbroken(counted)'
      BY <1>1 DEF Unbroken
    <2>3. Tops'
      <3>1. mode = "sent" => out' \o chunk' = <<>>
        BY <1>1, <1>5, Joined, Nothing DEF Tops, Flowing
      <3> QED
        BY <1>1, <1>2, <1>5, <3>1 DEF Tops, Flowing
    <2>4. Connections'
      BY <1>1, <1>5 DEF Connections, Shut, InUse
    <2>5. Shown'
      BY <1>1, <1>5, Shows, ShownStays
    <2> QED
      BY <1>5, <2>1, <2>2, <2>3, <2>4, <2>5 DEF IInv, Fresh, Pipeline, Retrying, Tally, Flowing, Before
  <1> QED
    BY <1>4, <1>5 DEF Write

LEMMA BreaksKeep ==
  ASSUME IInv, ReadBreaks
  PROVE  IInv'
  <1>1. /\ pc = "relay" /\ UNCHANGED <<call, gone, row, conn, resp, body, w, held, audits, counted, out>>
        /\ Connections /\ Tops /\ Shape /\ chunk = <<>> /\ mode # "sent"
    BY DEF ReadBreaks, IInv, Tops
  <1>2. CASE mode = "aggregate"
    <2>1. pc' = "refuse" /\ UNCHANGED <<mode, chunk>>
      BY <1>2 DEF ReadBreaks
    <2>2. Connections'
      BY <1>1, <2>1 DEF Connections, Shut, InUse
    <2>3. Fresh' /\ Tops' /\ Retrying'
      BY <1>1, <1>2, <2>1 DEF Fresh, Tops, Retrying, Before, Flowing, Aggregating
    <2> QED
      BY <1>1, <2>1, <2>2, <2>3, Same DEF Flowing
  <1>3. CASE mode = "json"
    <2>1. pc' = "write" /\ mode' = "sent" /\ chunk' \in {<<>>, held}
      BY <1>3 DEF ReadBreaks
    <2>2. Connections'
      BY <1>1, <2>1 DEF Connections, Shut, InUse
    <2> QED
      BY <1>1, <1>3, <2>1, <2>2, SendKeeps DEF Shape
  <1>4. CASE mode \notin {"aggregate", "json"}
    <2>1. pc' = "close" /\ UNCHANGED <<mode, chunk>>
      BY <1>4 DEF ReadBreaks
    <2>2. Connections'
      BY <1>1, <2>1 DEF Connections, Shut, InUse
    <2>3. Fresh' /\ Tops' /\ Retrying'
      BY <1>1, <1>4, <2>1 DEF Fresh, Tops, Retrying, Before, Flowing, Aggregating
    <2> QED
      BY <1>1, <2>1, <2>2, <2>3, Same DEF Flowing
  <1> QED
    BY <1>2, <1>3, <1>4

LEMMA FinishKeeps ==
  ASSUME IInv, Finish
  PROVE  IInv'
  <1>1. /\ pc = "finish" /\ UNCHANGED <<call, gone, conn, resp, body, w, held, audits, counted, out>>
        /\ Connections /\ Tops /\ Shape /\ chunk = <<>> /\ mode \in {"aggregate", "json", "pseudo"}
    BY DEF Finish, IInv, Tops
  <1>2. ASSUME pc' = "refuse", UNCHANGED <<mode, chunk>> PROVE IInv'
    <2>1. Connections'
      BY <1>1, <1>2 DEF Connections, Shut, InUse
    <2>2. Fresh' /\ Tops' /\ Retrying'
      BY <1>1, <1>2 DEF Fresh, Tops, Retrying, Before, Flowing, Aggregating
    <2> QED
      BY <1>1, <1>2, <2>1, <2>2, Same DEF Flowing
  <1>3. ASSUME pc' = "write", mode' = "sent", chunk' = held \/ mode = "aggregate" PROVE IInv'
    <2>1. Connections'
      BY <1>1, <1>3 DEF Connections, Shut, InUse
    <2> QED
      BY <1>1, <1>3, <2>1, SendKeeps DEF Shape
  <1>4. \/ pc' = "refuse" /\ UNCHANGED <<mode, chunk>>
        \/ pc' = "write" /\ mode' = "sent" /\ (chunk' = held \/ mode = "aggregate")
    BY DEF Finish, Send
  <1> QED
    BY <1>2, <1>3, <1>4

LEMMA AuditKeeps ==
  ASSUME CallAssumption, IInv, Reject \/ AgainAnswered \/ AgainFails
  PROVE  IInv'
  <1>1. Connections /\ Tops /\ Shape /\ chunk = <<>> /\ out = <<>> /\ mode = "pseudo" /\ Unbroken(counted)
    BY DEF Reject, AgainAnswered, AgainFails, IInv, Tops, Tally
  <1>2. CASE Reject
    <2>1. /\ pc = "finish" /\ pc' = "again" /\ conn' = Closed
          /\ UNCHANGED <<call, gone, resp, body, w, mode, held, audits, counted, chunk, out>>
      BY <1>2 DEF Reject
    <2>2. Connections'
      BY <1>1, <2>1, ClosedAll DEF Connections, InUse
    <2>3. Fresh' /\ Tops' /\ Retrying'
      BY <1>1, <2>1 DEF Fresh, Tops, Retrying, Before, Flowing, Aggregating
    <2> QED
      BY <2>1, <2>2, <2>3, Same DEF Flowing
  <1>3. CASE AgainAnswered
    <2>1. /\ pc = "again" /\ pc' = "relay" /\ Answered(resp) /\ audits' = audits + 1 /\ held' = <<>>
          /\ w' = Wrap(FALSE) /\ UNCHANGED <<call, mode, counted, chunk, out>>
      BY <1>3 DEF AgainAnswered
    <2>2. /\ conn' \in Seq(ConnStates) /\ Len(conn') <= MaxSent
          /\ \A i \in 1..Len(conn') : conn'[i] = "open" => i = body'.from
          /\ body' \in Body /\ body'.live /\ body'.from \in 1..Len(conn')
          /\ body'.left = <<>> /\ body'.next = 1
      BY <1>1, <2>1, AnsweredOpens DEF Shut
    <2>3. Connections'
      BY <2>1, <2>2 DEF Connections, Shut, InUse
    <2>4. /\ w' \in WrapperState /\ w'.staged = <<>> /\ w'.buf = <<>> /\ w'.started /\ ~w'.wrapped
      BY <2>1, Nothing DEF WrapperState, Wrap
    <2>5. Delivered' = <<>>
      BY <1>1, <2>1 DEF Delivered
    <2>6. Pieces'
      <3>1. LineOf(<<>>, w', body') /\ StagingOf(<<>>, w') /\ GateOf(<<>>, w')
        BY <2>2, <2>4, Nothing DEF LineOf, StagingOf, GateOf
      <3> QED
        BY <2>5, <3>1 DEF Pieces
    <2>7. audits' \in Nat /\ audits' # 0
      BY <1>1, <2>1 DEF Shape
    <2>8. Exact' /\ Unbroken(counted)'
      BY <1>1, <2>1, <2>7 DEF Exact, Extracting, Unbroken
    <2>9. Shape'
      BY <1>1, <2>1, <2>2, <2>4, <2>7, Nothing DEF Shape
    <2>10. Tops'
      BY <1>1, <2>1 DEF Tops, Flowing
    <2> QED
      BY <2>1, <2>3, <2>6, <2>8, <2>9, <2>10 DEF IInv, Fresh, Pipeline, Retrying, Tally, Flowing, Before
  <1>4. CASE AgainFails
    <2>1. /\ pc = "again" /\ Unanswered /\ pc' = "write" /\ mode' = "sent" /\ chunk' = held
          /\ UNCHANGED <<call, resp, body, w, held, audits, counted, out>>
      BY <1>4 DEF AgainFails, Send
    <2>2. /\ conn' \in Seq(ConnStates) /\ Len(conn') <= MaxSent
          /\ \A i \in 1..Len(conn') : conn'[i] # "open"
          /\ body.live => body.from \in 1..Len(conn')
      BY <1>1, <2>1, UnansweredOpensNone DEF Shut
    <2>3. Connections'
      BY <2>1, <2>2 DEF Connections, InUse
    <2> QED
      BY <1>1, <2>1, <2>2, <2>3, SendKeeps
  <1> QED
    BY <1>2, <1>3, <1>4

LEMMA RelayStep ==
  ASSUME CallAssumption, IInv, Relay
  PROVE  IInv'
  BY ReadKeeps, RetryKeeps, WriteKeeps, BreaksKeep, FinishKeeps, AuditKeeps DEF Relay

(********************** before the layers are in place *********************)

\* The frames put back in a body are its first, and the connection brings the next.
Rewound(b) == /\ Consecutive(b.left, b.from, 0)
              /\ b.live => b.next = 0 + Len(b.left) + 1

LEMMA RewoundLine ==
  ASSUME NEW b \in Body, NEW v, v.staged = <<>>, v.buf = <<>>
  PROVE  LineOf(<<>>, v, b) <=> Rewound(b)
  <1>1. ASSUME NEW n \in Nat PROVE 0 + n + 1 = Len(<<>>) + Len(<<>>) + Len(<<>>) + n + 1
    OBVIOUS
  <1>2. ASSUME NEW n, n = Len(b.left) PROVE n \in Nat
    <2>1. b.left \in Seq(Frame)
      BY DEF Body
    <2> QED
      BY <1>2, <2>1, LenProperties
  <1>3. Len(<<>>) + Len(<<>>) + Len(<<>>) = 0 /\ Len(<<>>) = 0 /\ Len(<<>>) + Len(<<>>) = 0
    OBVIOUS
  <1>4. ASSUME NEW n, n = Len(b.left)
        PROVE  b.next = 0 + n + 1 <=> b.next = Len(<<>>) + Len(<<>>) + Len(<<>>) + n + 1
    BY <1>1, <1>2, <1>4
  <1> QED
    BY <1>3, <1>4, Nothing DEF LineOf, Rewound

LEMMA Early ==
  ASSUME IInv, pc \in Before
  PROVE  /\ Shape /\ Connections /\ Rewound(body) /\ body \in Body /\ Unbroken(counted)
         /\ held = <<>> /\ counted = <<>> /\ mode = "stream" /\ w.wrapped = FALSE /\ w.started = TRUE
         /\ w.staged = <<>> /\ w.buf = <<>> /\ out = <<>> /\ chunk = <<>> /\ Delivered = <<>>
  <1>1. /\ held = <<>> /\ counted = <<>> /\ mode = "stream" /\ w.wrapped = FALSE /\ w.started = TRUE
        /\ w.staged = <<>> /\ w.buf = <<>> /\ out = <<>> /\ chunk = <<>>
    BY DEF IInv, Fresh
  <1>2. Delivered = <<>>
    BY <1>1, Joined, Nothing DEF Delivered
  <1>3. LineOf(<<>>, w, body) /\ body \in Body
    BY <1>2 DEF IInv, Pipeline, Pieces, Flowing, Before, Shape
  <1> QED
    BY <1>1, <1>2, <1>3, RewoundLine DEF IInv, Tally

LEMMA EarlyStep ==
  ASSUME IInv, pc \in Before, pc' \in Before \cup {"refuse"}, UNCHANGED <<call, relayVars>>,
         conn' \in Seq(ConnStates), Len(conn') <= MaxSent, Connections', body' \in Body, Rewound(body')
  PROVE  IInv'
  <1>1. UNCHANGED <<w, mode, held, audits, counted, chunk, out>>
    BY DEF relayVars
  <1>2. /\ Shape /\ Unbroken(counted)
        /\ held = <<>> /\ counted = <<>> /\ mode = "stream" /\ w.wrapped = FALSE /\ w.started = TRUE
        /\ w.staged = <<>> /\ w.buf = <<>> /\ out = <<>> /\ chunk = <<>> /\ Delivered = <<>>
    BY Early
  <1>3. Shape'
    BY <1>1, <1>2, Nothing DEF Shape
  <1>4. Delivered' = <<>>
    BY <1>1, <1>2 DEF Delivered
  <1>5. LineOf(<<>>, w', body')
    BY <1>1, <1>2, RewoundLine
  <1>6. Pieces'
    <2>1. StagingOf(<<>>, w') /\ GateOf(<<>>, w')
      BY <1>1, <1>2, Nothing DEF StagingOf, GateOf
    <2> QED
      BY <1>4, <1>5, <2>1 DEF Pieces
  <1>7. Exact' /\ Unbroken(counted)'
    BY <1>1, <1>2, <1>4 DEF Exact, Unbroken
  <1>8. Tops' /\ Fresh'
    BY <1>1, <1>2 DEF IInv, Tops, Fresh, Before, Flowing
  <1> QED
    BY <1>3, <1>6, <1>7, <1>8 DEF IInv, Pipeline, Retrying, Tally, Before, Flowing

\* The layers are put on a response that is as it came, or put back.
LEMMA WrapKeeps ==
  ASSUME IInv, WrapBody
  PROVE  IInv'
  <1>1. /\ pc = "wrap" /\ pc' = "relay" /\ w' = Wrap(call.path = "channel" /\ call.responses /\ resp.sse)
        /\ mode' = ModeOf /\ UNCHANGED <<call, conn, resp, body, held, audits, counted, chunk, out>>
    BY DEF WrapBody
  <1>2. /\ Shape /\ Connections /\ Rewound(body) /\ body \in Body /\ Unbroken(counted)
        /\ held = <<>> /\ counted = <<>> /\ out = <<>> /\ chunk = <<>>
    BY <1>1, Early DEF Before
  <1>3. /\ w' \in WrapperState /\ w'.staged = <<>> /\ w'.buf = <<>> /\ (w'.wrapped <=> ~w'.started)
    BY <1>1, Nothing DEF WrapperState, Wrap
  <1>4. mode' \in Modes \ {"sent"} /\ (mode' = "aggregate" <=> Aggregating)
    BY <1>1 DEF ModeOf, Modes
  <1>5. Shape'
    BY <1>1, <1>2, <1>3, <1>4 DEF Shape
  <1>6. Delivered' = <<>>
    BY <1>1, <1>2, Joined, Nothing DEF Delivered
  <1>7. Pieces'
    <2>1. LineOf(<<>>, w', body')
      BY <1>1, <1>2, <1>3, RewoundLine
    <2>2. StagingOf(<<>>, w') /\ GateOf(<<>>, w')
      BY <1>3, Nothing DEF StagingOf, GateOf
    <2> QED
      BY <1>6, <2>1, <2>2 DEF Pieces
  <1>8. Exact' /\ Unbroken(counted)'
    BY <1>1, <1>2, <1>6 DEF Exact, Unbroken
  <1>9. Tops'
    <2>1. Aggregating' = Aggregating
      BY <1>1 DEF Aggregating
    <2> QED
      BY <1>1, <1>2, <1>4, <2>1 DEF Tops, Flowing
  <1>10. Connections'
    BY <1>1, <1>2 DEF Connections, Shut, InUse
  <1> QED
    BY <1>1, <1>5, <1>7, <1>8, <1>9, <1>10 DEF IInv, Fresh, Pipeline, Retrying, Tally, Flowing, Before

(******************************* every step ********************************)

\* What a step before the layers does to the connections and the body, per kind of step.
LEMMA EarlyAnswered ==
  ASSUME CallAssumption, IInv, pc \in Before, pc \in Shut, NEW r, Answered(r),
         pc' \in {"judge", "modify", "judgeRepeat", "wrap"}, UNCHANGED <<call, relayVars>>
  PROVE  IInv'
  <1>1. /\ conn' \in Seq(ConnStates) /\ Len(conn') <= MaxSent
        /\ \A i \in 1..Len(conn') : conn'[i] = "open" => i = body'.from
        /\ body' \in Body /\ body'.live /\ body'.from \in 1..Len(conn')
        /\ body'.left = <<>> /\ body'.next = 1
    BY Early, AnsweredOpens
  <1>2. Connections'
    BY <1>1 DEF Connections, Shut
  <1>3. Rewound(body')
    BY <1>1, Nothing DEF Rewound
  <1>4. pc' \in Before
    BY DEF Before
  <1> QED
    BY <1>1, <1>2, <1>3, <1>4, EarlyStep

LEMMA EarlyUnanswered ==
  ASSUME CallAssumption, IInv, pc \in Before, pc \in Shut, Unanswered, UNCHANGED body,
         pc' \in {"attempt", "refuse", "repeat", "wrap"}, UNCHANGED <<call, relayVars>>
  PROVE  IInv'
  <1>1. /\ conn' \in Seq(ConnStates) /\ Len(conn') <= MaxSent
        /\ \A i \in 1..Len(conn') : conn'[i] # "open"
        /\ body.live => body.from \in 1..Len(conn')
        /\ Rewound(body') /\ body' \in Body
    BY Early, UnansweredOpensNone
  <1>2. Connections'
    BY <1>1 DEF Connections, InUse
  <1>3. pc' \in Before \cup {"refuse"}
    BY DEF Before
  <1> QED
    BY <1>1, <1>2, <1>3, EarlyStep

\* The response in hand is dropped, or its bytes are in memory.
LEMMA EarlyDropped ==
  ASSUME IInv, pc \in Before, conn' \in Seq(ConnStates), Len(conn') = Len(conn),
         \A i \in 1..Len(conn') : conn'[i] # "open", body' \in Body, Rewound(body'),
         body'.live => body'.from \in 1..Len(conn),
         pc' \in {"attempt", "refuse", "repeat", "wrap"}, UNCHANGED <<call, relayVars>>
  PROVE  IInv'
  <1>1. Len(conn') <= MaxSent
    BY Early DEF Shape
  <1>2. Connections'
    BY DEF Connections, InUse
  <1>3. pc' \in Before \cup {"refuse"}
    BY DEF Before
  <1> QED
    BY <1>1, <1>2, <1>3, EarlyStep

\* Only the place in the code changes.
LEMMA EarlyPassed ==
  ASSUME IInv, pc \in Before, UNCHANGED <<call, conn, body, relayVars>>,
         \/ pc \in Shut /\ pc' \in {"send", "attempt", "refuse"}
         \/ pc \in {"judge", "modify"} /\ pc' \in {"modify", "wrap"}
  PROVE  IInv'
  <1>1. Rewound(body') /\ body' \in Body /\ conn' \in Seq(ConnStates) /\ Len(conn') <= MaxSent
    BY Early DEF Shape
  <1>2. Connections'
    BY Early DEF Connections, Shut, InUse
  <1>3. pc' \in Before \cup {"refuse"}
    BY DEF Before
  <1> QED
    BY <1>1, <1>2, <1>3, EarlyStep

LEMMA NoneInHand == NoBody \in Body /\ Rewound(NoBody) /\ ~NoBody.live
  BY CallAssumption, Nothing DEF CallAssumption, NoBody, Body, Rewound

\* Bytes read of a fresh response, and put back.
LEMMA PutBack ==
  ASSUME CallAssumption, IInv, pc \in Before, NEW kinds \in SUBSET Kinds, NEW c \in Chunks(kinds)
  PROVE  /\ c \in Seq(Frame) /\ Consecutive(c, body.from, 0)
         /\ [After(c) EXCEPT !.left = c] \in Body /\ Rewound([After(c) EXCEPT !.left = c])
         /\ [After(c) EXCEPT !.left = c].from = body.from /\ [After(c) EXCEPT !.left = c].live = body.live
  <1>1. /\ c \in Seq(Frame) /\ Consecutive(c, body.from, 0)
        /\ After(c) \in Body /\ After(c).from = body.from /\ After(c).live = body.live
        /\ body.live => After(c).next = 0 + Len(c) + 1
    BY Early, ChunkFrames DEF Rewound
  <1> QED
    BY <1>1 DEF Body, Rewound

LEMMA RoundTripStep ==
  ASSUME CallAssumption, IInv, RoundTrip, UNCHANGED relayVars
  PROVE  IInv'
  <1>1. CASE CacheBody \/ CacheFails \/ StopIfGone \/ Return
    <2>1. /\ UNCHANGED <<call, conn, body>> /\ pc \in Before
          /\ \/ pc \in Shut /\ pc' \in {"attempt", "refuse"}
             \/ pc = "judge" /\ pc' = "modify"
      BY <1>1 DEF CacheBody, CacheFails, StopIfGone, Return, GiveUp, Before, Shut
    <2> QED
      BY <2>1, EarlyPassed
  <1>2. CASE Respond
    <2>1. pc = "attempt" /\ pc' = "judge" /\ call' = call /\ \E r \in Responses : Answered(r)
      BY <1>2 DEF Respond
    <2> QED
      BY <2>1, EarlyAnswered DEF Before, Shut
  <1>3. CASE AttemptFails
    <2>1. pc = "attempt" /\ pc' \in {"attempt", "refuse"} /\ UNCHANGED <<call, body>> /\ Unanswered
      BY <1>3 DEF AttemptFails, NextAttempt, GiveUp
    <2> QED
      BY <2>1, EarlyUnanswered DEF Before, Shut
  <1>4. CASE DropBusy
    <2>1. pc = "judge" /\ pc' = "attempt" /\ call' = call /\ body' = NoBody
      BY <1>4 DEF DropBusy, NextAttempt
    <2>2. Shape /\ Connections /\ body.live /\ body.from \in 1..Len(conn)
      BY <2>1 DEF IInv, Connections, InUse
    <2>3. PICK left \in {"closed", "drained", "unread"} : conn' = [conn EXCEPT ![body.from] = left]
      BY <1>4 DEF DropBusy
    <2>4. /\ conn' \in Seq(ConnStates) /\ Len(conn') = Len(conn)
          /\ \A i \in 1..Len(conn) : conn'[i] = IF i = body.from THEN left ELSE conn[i]
      BY <2>2, <2>3, ExceptSeq DEF Shape, ConnStates
    <2>5. \A i \in 1..Len(conn') : conn'[i] # "open"
      BY <2>2, <2>3, <2>4 DEF Connections
    <2> QED
      BY <2>1, <2>4, <2>5, NoneInHand, EarlyDropped DEF Before
  <1>5. CASE DropEmpty \/ GateFails
    <2>1. /\ pc = "judge" /\ pc' \in {"attempt", "refuse"} /\ call' = call /\ body' = NoBody
          /\ conn' = Closed
      BY <1>5 DEF DropEmpty, GateFails, NextAttempt, GiveUp
    <2> QED
      BY <2>1, Early, ClosedAll, NoneInHand, EarlyDropped DEF Before
  <1>6. CASE GateOpens
    <2>1. pc = "judge" /\ pc' = "modify" /\ UNCHANGED <<call, conn>> /\ Kinds \in SUBSET Kinds
      BY <1>6 DEF GateOpens
    <2>2. PICK c \in Chunks(Kinds) : body' = [After(c) EXCEPT !.left = c]
      BY <1>6 DEF GateOpens
    <2>3. body' \in Body /\ Rewound(body') /\ body'.from = body.from /\ body'.live = body.live
      BY <2>1, <2>2, PutBack DEF Before
    <2>4. Shape /\ Connections
      BY DEF IInv
    <2>5. Connections'
      BY <2>1, <2>3, <2>4 DEF Connections, Shut, InUse
    <2> QED
      BY <2>1, <2>3, <2>4, <2>5, EarlyStep DEF Before, Shape
  <1> QED
    BY <1>1, <1>2, <1>3, <1>4, <1>5, <1>6 DEF RoundTrip

LEMMA JudgedKeeps ==
  ASSUME CallAssumption, IInv, pc \in {"modify", "judgeRepeat"}, NEW next \in {"repeat", "wrap"},
         Judged(next), UNCHANGED <<call, relayVars>>
  PROVE  IInv'
  <1>1. /\ conn' \in Seq(ConnStates) /\ Len(conn') = Len(conn) /\ \A i \in 1..Len(conn') : conn'[i] # "open"
        /\ pc' \in {"wrap", "repeat"} /\ pc \in Before /\ body \in Body /\ Rewound(body) /\ Connections
    BY Early, ClosedAll DEF Judged, Before
  <1>2. body' \in Body /\ Rewound(body') /\ (body'.live => body'.from \in 1..Len(conn))
    <2>1. CASE body' = body
      BY <1>1, <2>1 DEF Connections
    <2>2. ASSUME NEW c \in Seq(Frame), Consecutive(c, body.from, 0), body' = Rebuilt(c)
          PROVE  body' \in Body /\ Rewound(body') /\ ~body'.live
      <3>1. body' = [body EXCEPT !.live = FALSE, !.left = c]
        BY <2>2 DEF Rebuilt
      <3> QED
        BY <1>1, <2>2, <3>1 DEF Body, Rewound
    <2>3. ASSUME NEW c \in Chunks({"data"}), body' = Rebuilt(c)
          PROVE  body' \in Body /\ Rewound(body') /\ ~body'.live
      <3>1. {"data"} \in SUBSET Kinds
        BY DEF Kinds
      <3>2. c \in Seq(Frame) /\ Consecutive(c, body.from, 0)
        BY <1>1, <3>1, PutBack
      <3> QED
        BY <2>2, <2>3, <3>2
    <2>4. CASE body' = Rebuilt(<<>>)
      BY <2>2, <2>4, Nothing
    <2>5. body' = body \/ \E c \in Chunks({"data"}) \cup {<<>>} : body' = Rebuilt(c)
      BY DEF Judged
    <2> QED
      BY <2>1, <2>3, <2>4, <2>5
  <1> QED
    BY <1>1, <1>2, EarlyDropped

LEMMA ChannelStep ==
  ASSUME CallAssumption, IInv,
         AmpDirect \/ ChannelDirect \/ ChannelRespond \/ ChannelFails \/ Peek \/ NoPeek
           \/ RepeatAnswered \/ JudgeRepeat \/ RepeatFails
  PROVE  IInv'
  <1>1. CASE AmpDirect \/ ChannelDirect \/ NoPeek
    <2>1. /\ UNCHANGED <<call, conn, body, relayVars>> /\ pc \in Before
          /\ \/ pc \in Shut /\ pc' = "send"
             \/ pc = "modify" /\ pc' = "wrap"
      BY <1>1 DEF AmpDirect, ChannelDirect, Direct, NoPeek, Before, Shut
    <2> QED
      BY <2>1, EarlyPassed
  <1>2. CASE ChannelRespond \/ RepeatAnswered
    <2>1. /\ pc \in {"send", "repeat"} /\ pc' \in {"modify", "wrap", "judgeRepeat"} /\ UNCHANGED <<call, relayVars>>
          /\ \E r \in Responses : Answered(r)
      BY <1>2 DEF ChannelRespond, RepeatAnswered
    <2> QED
      BY <2>1, EarlyAnswered DEF Before, Shut
  <1>3. CASE ChannelFails \/ RepeatFails
    <2>1. /\ pc \in {"send", "repeat"} /\ pc' \in {"refuse", "repeat", "wrap"} /\ UNCHANGED <<call, body, relayVars>>
          /\ Unanswered
      BY <1>3 DEF ChannelFails, RepeatFails, AfterRepeat
    <2> QED
      BY <2>1, EarlyUnanswered DEF Before, Shut
  <1>4. CASE Peek \/ JudgeRepeat
    <2>1. /\ pc \in {"modify", "judgeRepeat"} /\ UNCHANGED <<call, relayVars>>
          /\ Judged("repeat") \/ Judged(AfterRepeat)
      BY <1>4 DEF Peek, MayPeek, JudgeRepeat
    <2> QED
      BY <2>1, JudgedKeeps DEF AfterRepeat
  <1> QED
    BY <1>1, <1>2, <1>3, <1>4

\* The end of the call, and what happens beside it.
LEMMA OtherStep ==
  ASSUME CallAssumption, IInv,
         \/ Refuse \/ CloseBody \/ KeepAliveDue \/ KeepAliveBegins \/ KeepAliveEnds \/ Leave
         \/ (UpdateConfig /\ UNCHANGED <<again, ka, relayVars>>)
         \/ UNCHANGED vars
  PROVE  IInv'
  <1>1. /\ UNCHANGED <<call, resp, mode, audits, out, counted, chunk, held, w, body>>
        /\ gone => gone'
        /\ conn' \in {conn, Closed} /\ (pc' = pc \/ (pc \in {"refuse", "close"} /\ pc' = "done" /\ conn' = Closed))
    BY DEF Refuse, CloseBody, KeepAliveDue, KeepAliveBegins, KeepAliveEnds, Leave, UpdateConfig, vars, callVars, rtVars, relayVars
  <1>2. Connections'
    <2>1. /\ Closed \in Seq(ConnStates) /\ Len(Closed) = Len(conn)
          /\ \A i \in 1..Len(Closed) : Closed[i] # "open"
      BY ClosedAll DEF IInv
    <2> QED
      BY <1>1, <2>1 DEF IInv, Connections, Shut, InUse
  <1>3. Flowing' => Flowing
    BY <1>1 DEF Flowing
  <1>4. Fresh' /\ Retrying'
    BY <1>1 DEF IInv, Fresh, Retrying, Before
  <1>5. Tops'
    <2>1. Aggregating' = Aggregating
      BY <1>1 DEF Aggregating
    <2> QED
      BY <1>1, <2>1 DEF IInv, Tops, Flowing
  <1> QED
    BY <1>1, <1>2, <1>3, <1>4, <1>5, Same

LEMMA Step ==
  ASSUME IInv, [Next]_vars
  PROVE  IInv'
  <1>1. CASE RoundTrip /\ UNCHANGED <<again, ka, relayVars>>
    BY <1>1, CallAssumption, RoundTripStep
  <1>2. CASE WrapBody
    BY <1>2, WrapKeeps
  <1>3. CASE Relay
    BY <1>3, CallAssumption, RelayStep
  <1> QED
    BY <1>1, <1>2, <1>3, CallAssumption, ChannelStep, OtherStep DEF Next, Serve

LEMMA Initially == Init => IInv
  <1> SUFFICES ASSUME Init PROVE IInv
    OBVIOUS
  <1>1. /\ pc = "start" /\ conn = <<>> /\ body = NoBody /\ w = Wrap(FALSE) /\ mode = "stream"
        /\ held = <<>> /\ audits = 0 /\ counted = <<>> /\ chunk = <<>> /\ out = <<>>
    BY DEF Init, AttemptsInit, RelayInit
  <1>2. /\ w \in WrapperState /\ w.staged = <<>> /\ w.buf = <<>> /\ w.started = TRUE /\ w.wrapped = FALSE
    BY <1>1, Nothing DEF WrapperState, Wrap
  <1>3. Shape
    <2>1. conn \in Seq(ConnStates) /\ Len(conn) <= MaxSent
      BY <1>1, EmptySeq, CallAssumption DEF CallAssumption
    <2> QED
      BY <1>1, <1>2, <2>1, NoneInHand, Nothing DEF Shape, Modes
  <1>4. Connections /\ Fresh /\ Tops /\ Retrying
    <2>1. Connections
      BY <1>1, NoneInHand DEF Connections, InUse
    <2>2. Fresh /\ Retrying
      BY <1>1, <1>2 DEF Fresh, Retrying, Before
    <2>3. Tops
      BY <1>1 DEF Tops
    <2> QED
      BY <2>1, <2>2, <2>3
  <1>5. Delivered = <<>>
    BY <1>1, Joined, Nothing DEF Delivered
  <1>6. Pieces
    BY <1>1, <1>2, <1>5, NoneInHand, RewoundLine, Nothing DEF Pieces, StagingOf, GateOf
  <1>7. Tally
    BY <1>1, <1>5, Nothing DEF Tally, Exact
  <1> QED
    BY <1>1, <1>3, <1>4, <1>6, <1>7 DEF IInv, Pipeline, Flowing

LEMMA Invariant == Spec => []IInv
  <1>1. IInv /\ [Next]_vars => IInv'
    BY Step
  <1> QED
    BY Initially, <1>1, PTL DEF Spec

(******************************** theorems *********************************)

\* What the client is sent is the beginning of one attempt's response, for any number of
\* frames, retries and audits (SSEConcurrencyRetryWrapper.Read, rt.RoundTrip,
\* PseudoNonStreamBody.Read).
THEOREM OneAttemptSent == Spec => []OneAttempt
  <1>1. IInv => OneAttempt
    BY Shows DEF Shown
  <1> QED
    BY Invariant, <1>1, PTL

\* An error at the beginning of a stream reaches the client only when its retries have been
\* used, or one of them has failed (isRetryableErrorPayload, maxRetries).
THEOREM ErrorsRetried == Spec => []RetriedBeforeShown
  <1>1. IInv => RetriedBeforeShown
    BY Shows DEF Shown
  <1> QED
    BY Invariant, <1>1, PTL

\* What is billed is what is served, however many attempts came before
\* (SSETokenExtractor.Read under the retry wrapper).
THEOREM BilledIsServed == Spec => []CountedIsServed
  <1>1. IInv => CountedIsServed
    BY Shows DEF Shown
  <1> QED
    BY Invariant, <1>1, PTL

\* Only the response in hand has an open connection, and none is left when the call ends
\* (resp.Body.Close in every branch that drops a response).
THEOREM Released == Spec => []DroppedReleased
  <1>1. IInv => DroppedReleased
    BY DEF IInv, Connections, DroppedReleased, Shut
  <1> QED
    BY Invariant, <1>1, PTL

\* What asks upstream does so before the client has seen anything.
LEMMA AsksUnseen ==
  ASSUME IInv, [Next]_vars
  PROVE  Len(conn') > Len(conn) => out = <<>> /\ chunk = <<>>
  <1>1. CASE pc \in Before \cup {"resend", "again"}
    <2>1. chunk = <<>> /\ (pc = "again" => mode = "pseudo") /\ (pc = "resend" => Delivered = <<>> /\ mode # "sent")
      BY <1>1 DEF IInv, Fresh, Tops, Pipeline, Pieces, StagingOf, Retrying, Flowing, Before
    <2>2. pc = "resend" /\ mode = "stream" => out = <<>>
      <3>1. mode = "stream" => out \in Seq(Frame) /\ Delivered = out \o chunk
        BY DEF IInv, Shape, Delivered
      <3> QED
        BY <2>1, <3>1, Joined
    <2> QED
      BY <1>1, <2>1, <2>2 DEF IInv, Fresh, Tops
  <1>2. CASE pc \notin Before \cup {"resend", "again"}
    <2>1. ~RoundTrip
      BY <1>2 DEF RoundTrip, CacheBody, CacheFails, StopIfGone, Respond, AttemptFails, DropBusy, DropEmpty,
                  GateOpens, GateFails, Return, Before
    <2>2. ~(AmpDirect \/ ChannelDirect \/ ChannelRespond \/ ChannelFails \/ Peek \/ NoPeek
              \/ RepeatAnswered \/ JudgeRepeat \/ RepeatFails)
      BY <1>2 DEF AmpDirect, ChannelDirect, Direct, ChannelRespond, ChannelFails, Peek, NoPeek, MayPeek,
                  RepeatAnswered, JudgeRepeat, RepeatFails, Before
    <2>3. Relay => conn' \in {conn, Closed}
      BY <1>2 DEF Relay, ReadMore, ReadOn, ReadBreaks, CloseForRetry, RetryAnswered, RetryFails, Write,
                  Finish, Reject, AgainAnswered, AgainFails
    <2>4. conn' \in {conn, Closed}
      BY <2>1, <2>2, <2>3 DEF Next, Serve, WrapBody, Refuse, CloseBody, KeepAliveDue, KeepAliveBegins,
                              KeepAliveEnds, Leave, UpdateConfig, vars, callVars
    <2>5. Len(conn') = Len(conn) /\ Len(conn) \in Nat
      BY <2>4, ClosedAll, LenProperties DEF IInv, Shape
    <2> QED
      BY <2>5
  <1> QED
    BY <1>1, <1>2

\* No request is sent upstream any more once the client has seen a frame, or is about to
\* (the started flag of SSEConcurrencyRetryWrapper).
THEOREM UnseenOnly == Spec => RepeatOnlyUnseen
  <1>1. IInv /\ [Next]_vars => [Len(conn') > Len(conn) => out = <<>> /\ chunk = <<>>]_vars
    BY AsksUnseen
  <1> QED
    BY Invariant, <1>1, PTL DEF Spec, RepeatOnlyUnseen
=============================================================================
