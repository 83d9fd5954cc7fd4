---------------------------- MODULE LiveLogProofs -----------------------------
(***************************************************************************)
(* What LiveLog keeps for any number of requests and clients, any buffers    *)
(* and any number of restarts: a result stays in its row, and a client that  *)
(* has missed nothing of a row shows it as it is once nothing is on its way. *)
(***************************************************************************)
EXTENDS LiveLog, TLAPS

TypeOK ==
  /\ row \in [Requests -> Statuses] /\ req \in [Requests -> Stages]
  /\ notify \in Seq(Requests) /\ held \in Message \cup {None}
  /\ register \subseteq Clients /\ clients \subseteq Clients
  /\ send \in [Clients -> Seq(Message)]
  /\ conn \in [Clients -> {"off", "open", "broken"}]
  /\ shown \in [Clients -> [Requests -> Statuses]]

\* A request that has logged its result does not log again.
LoggedOnce == \A r \in Requests : row[r] \in Results => req[r] \in {"retried", "over"}

\* A client of which the hub has not heard yet has been sent nothing.
FreshClients ==
  \A c \in register : c \notin clients /\ send[c] = <<>> /\ shown[c] = Nothing

\* A row as the hub announces it; the cleaner's change is not announced.
Current(status, r) == status = row[r] \/ row[r] = "timeout"

\* The last that a queue holds of r, or else what was shown before, is current.
UpToDate(queue, last, r) ==
  /\ \A i \in 1 .. Len(queue) :
       queue[i].id = r /\ (\A j \in i + 1 .. Len(queue) : queue[j].id # r) =>
         Current(queue[i].status, r)
  /\ (\A i \in 1 .. Len(queue) : queue[i].id # r) => Current(last, r)

\* The last that is on its way to a client, or shown, is current.
Fresh(c, r) == IF held # None /\ held.id = r THEN Current(held.status, r)
                                             ELSE UpToDate(send[c], shown[c][r], r)

Informed ==
  \A c \in clients, r \in Requests :
    conn[c] = "open" /\ <<c, r>> \notin missed /\ r \notin ToSet(notify) => Fresh(c, r)

Inv == TypeOK /\ LoggedOnce /\ FreshClients /\ Informed

(********************************* queues **********************************)

LEMMA Ends ==
  ASSUME NEW S, NEW q \in Seq(S)
  PROVE  /\ \A x \in S : ToSet(Append(q, x)) = ToSet(q) \cup {x} /\ Append(q, x) \in Seq(S)
         /\ q # <<>> => /\ ToSet(q) = ToSet(Tail(q)) \cup {Head(q)}
                        /\ Head(q) \in S /\ Tail(q) \in Seq(S)
  <1>1. ASSUME NEW x \in S PROVE ToSet(Append(q, x)) = ToSet(q) \cup {x}
    <2>1. /\ \A i \in 1 .. Len(q) : Append(q, x)[i] = q[i]
          /\ Append(q, x)[Len(q) + 1] = x /\ DOMAIN Append(q, x) = 1 .. Len(q) + 1
          /\ DOMAIN q = 1 .. Len(q) /\ Len(q) \in Nat
      OBVIOUS
    <2>2. \A i \in 1 .. Len(q) + 1 : i \in 1 .. Len(q) \/ i = Len(q) + 1
      BY <2>1
    <2>3. ToSet(Append(q, x)) \subseteq ToSet(q) \cup {x}
      BY <2>1, <2>2 DEF ToSet
    <2>4. Len(q) + 1 \in 1 .. Len(q) + 1 /\ \A i \in 1 .. Len(q) : i \in 1 .. Len(q) + 1
      BY <2>1
    <2>5. ToSet(q) \cup {x} \subseteq ToSet(Append(q, x))
      BY <2>1, <2>4 DEF ToSet
    <2> QED
      BY <2>3, <2>5
  <1>2. ASSUME q # <<>> PROVE ToSet(q) = ToSet(Tail(q)) \cup {Head(q)}
    <2>1. /\ \A i \in 1 .. Len(q) - 1 : Tail(q)[i] = q[i + 1]
          /\ Head(q) = q[1] /\ DOMAIN Tail(q) = 1 .. Len(q) - 1
          /\ DOMAIN q = 1 .. Len(q) /\ Len(q) \in Nat /\ Len(q) > 0
      BY <1>2
    <2>2. \A i \in 2 .. Len(q) : i - 1 \in 1 .. Len(q) - 1 /\ q[i] = Tail(q)[i - 1]
      BY <2>1
    <2>3. \A i \in 1 .. Len(q) : i = 1 \/ i \in 2 .. Len(q)
      BY <2>1
    <2>4. ToSet(q) \subseteq ToSet(Tail(q)) \cup {Head(q)}
      <3>1. \A i \in 2 .. Len(q) : q[i] \in ToSet(Tail(q))
        BY <2>1, <2>2 DEF ToSet
      <3>2. \A i \in DOMAIN q : q[i] \in ToSet(Tail(q)) \cup {Head(q)}
        BY <2>1, <2>3, <3>1
      <3> QED
        BY <3>2 DEF ToSet
    <2>5. 1 \in 1 .. Len(q) /\ \A i \in 1 .. Len(q) - 1 : i + 1 \in 1 .. Len(q)
      BY <2>1
    <2>6. \A i \in DOMAIN Tail(q) : Tail(q)[i] \in ToSet(q)
      BY <2>1, <2>5 DEF ToSet
    <2>7. Head(q) \in ToSet(q)
      BY <2>1, <2>5 DEF ToSet
    <2>8. ToSet(Tail(q)) \cup {Head(q)} \subseteq ToSet(q)
      BY <2>6, <2>7 DEF ToSet
    <2> QED
      BY <2>4, <2>8
  <1> QED
    BY <1>1, <1>2

\* A message joins the queue: one of r is the last then, another changes nothing.
LEMMA Joins ==
  ASSUME NEW q \in Seq(Message), NEW m \in Message, NEW last, NEW r,
         IF m.id = r THEN Current(m.status, r) ELSE UpToDate(q, last, r)
  PROVE  UpToDate(Append(q, m), last, r)
  <1>1. /\ Len(Append(q, m)) = Len(q) + 1 /\ Len(q) \in Nat
        /\ Append(q, m)[Len(q) + 1] = m
        /\ \A i \in 1 .. Len(q) : Append(q, m)[i] = q[i]
    OBVIOUS
  <1>2. CASE m.id = r
    BY <1>1, <1>2 DEF UpToDate
  <1>3. CASE m.id # r
    BY <1>1, <1>3 DEF UpToDate
  <1> QED
    BY <1>2, <1>3

\* A message leaves the queue and is shown.
LEMMA Leaves ==
  ASSUME NEW q \in Seq(Message), q # <<>>, NEW last, NEW r, UpToDate(q, last, r)
  PROVE  UpToDate(Tail(q), IF Head(q).id = r THEN Head(q).status ELSE last, r)
  <1>1. /\ Len(Tail(q)) = Len(q) - 1 /\ Len(q) \in Nat /\ Len(q) > 0 /\ Head(q) = q[1]
        /\ \A i \in 1 .. Len(q) - 1 : Tail(q)[i] = q[i + 1]
    OBVIOUS
  <1>2. \A i \in 1 .. Len(q) - 1 : i + 1 \in 1 .. Len(q)
    BY <1>1
  <1>3. \A i \in 2 .. Len(q) : i - 1 \in 1 .. Len(q) - 1 /\ q[i] = Tail(q)[i - 1]
    BY <1>1
  <1>4. ASSUME NEW i \in 1 .. Len(q) - 1, Tail(q)[i].id = r,
               \A j \in i + 1 .. Len(q) - 1 : Tail(q)[j].id # r
        PROVE  Current(Tail(q)[i].status, r)
    <2>1. PICK k \in 1 .. Len(q) : k = i + 1 /\ q[k] = Tail(q)[i]
      BY <1>1, <1>2
    <2>2. \A j \in k + 1 .. Len(q) : j \in 2 .. Len(q) /\ j - 1 \in i + 1 .. Len(q) - 1
      BY <1>1, <2>1
    <2>3. \A j \in k + 1 .. Len(q) : q[j].id # r
      BY <1>3, <1>4, <2>2
    <2> QED
      BY <1>4, <2>1, <2>3 DEF UpToDate
  <1>5. ASSUME \A i \in 1 .. Len(q) - 1 : Tail(q)[i].id # r
        PROVE  Current(IF Head(q).id = r THEN Head(q).status ELSE last, r)
    <2>1. \A i \in 2 .. Len(q) : q[i].id # r
      BY <1>1, <1>3, <1>5
    <2>2. 1 \in 1 .. Len(q) /\ \A i \in 1 .. Len(q) : i = 1 \/ i \in 2 .. Len(q)
      BY <1>1
    <2> QED
      BY <1>1, <2>1, <2>2 DEF UpToDate
  <1> QED
    BY <1>1, <1>4, <1>5 DEF UpToDate

(********************************** steps **********************************)

LEMMA Initially == Init => Inv
  BY MessageAssumption DEF Init, LogInit, HubInit, Inv, TypeOK, Statuses, Stages, Nothing,
       LoggedOnce, FreshClients, Informed, Results

\* A row that changes without an announcement becomes "timeout".
LEMMA Unannounced ==
  ASSUME Inv, UNCHANGED hubVars, row' \in [Requests -> Statuses],
         \A q \in Requests : row'[q] = row[q] \/ row'[q] = "timeout"
  PROVE  FreshClients' /\ Informed'
  <1>1. FreshClients'
    BY DEF Inv, FreshClients, hubVars
  <1>2. \A s, q : q \in Requests /\ Current(s, q) => Current(s, q)'
    BY DEF Current
  <1>3. \A c \in Clients, q \in Requests : Fresh(c, q) => Fresh(c, q)'
    BY <1>2 DEF Fresh, UpToDate, hubVars
  <1> QED
    BY <1>1, <1>3 DEF Inv, TypeOK, Informed, hubVars

\* Of the rows, a step of RequestLog moves that of one request, and a result never.
LEMMA RowsMove ==
  ASSUME TypeOK, LoggedOnce, LogStep \/ Restart
  PROVE  /\ row' \in [Requests -> Statuses] /\ req' \in [Requests -> Stages] /\ LoggedOnce'
         /\ \A r \in Requests : row[r] \in Results => row'[r] = row[r]
  <1> DEFINE Goal == /\ row' \in [Requests -> Statuses] /\ req' \in [Requests -> Stages] /\ LoggedOnce'
                     /\ \A r \in Requests : row[r] \in Results => row'[r] = row[r]
  <1>1. ASSUME NEW r \in Requests, NEW stage \in Stages, req' = [req EXCEPT ![r] = stage],
               UNCHANGED row, req[r] \in {"retried", "over"} => stage \in {"retried", "over"}
        PROVE  Goal
    BY <1>1 DEF TypeOK, LoggedOnce
  <1>2. ASSUME NEW r \in Requests, Unwritten(r) PROVE Goal
    <2>1. CASE UNCHANGED <<row, req>>
      BY <2>1 DEF TypeOK, LoggedOnce
    <2>2. CASE \/ PendingLost(r) \/ UpstreamFails(r) \/ Respond(r) \/ ReadBody(r) \/ BodyLost(r)
               \/ CloseBody(r) \/ UpdateLost(r) \/ EndRetry(r)
      <3>1. \E stage \in Stages : req' = [req EXCEPT ![r] = stage] /\ UNCHANGED row /\
              (req[r] \in {"retried", "over"} => stage \in {"retried", "over"})
        BY <2>2 DEF PendingLost, UpstreamFails, Respond, ReadBody, BodyLost, CloseBody, UpdateLost,
             EndRetry, AfterLogging, Move, Stages
      <3> QED
        BY <1>1, <3>1
    <2> QED
      BY <1>2, <2>1, <2>2 DEF Unwritten, StreamTimesOut, GrowOld
  <1>3. ASSUME NEW r \in Requests, InsertPending(r) PROVE Goal
    BY <1>3 DEF InsertPending, Move, TypeOK, LoggedOnce, Statuses, Stages, Results
  <1>4. ASSUME NEW r \in Requests, UpdateRow(r) PROVE Goal
    <2>1. PICK stage \in {"over", "retried"} : req' = [req EXCEPT ![r] = stage]
      BY <1>4 DEF UpdateRow, AfterLogging, Move
    <2>2. /\ req[r] = "logging" /\ row' = [row EXCEPT ![r] = Result(r)]
          /\ Result(r) \in Results
      BY <1>4 DEF UpdateRow, Result, Results
    <2> QED
      BY <2>1, <2>2 DEF TypeOK, LoggedOnce, Statuses, Stages, Results
  <1>5. CASE Cleanup
    BY <1>5 DEF Cleanup, Stale, TypeOK, LoggedOnce, Statuses, Results
  <1>6. CASE Restart
    BY <1>6 DEF Restart, Running, TypeOK, LoggedOnce, Stages, Results
  <1> QED
    BY <1>2, <1>3, <1>4, <1>5, <1>6 DEF LogStep, Written

LEMMA LogStepKeeps ==
  ASSUME Inv, LogStep
  PROVE  Inv'
  <1>1. row' \in [Requests -> Statuses] /\ req' \in [Requests -> Stages] /\ LoggedOnce'
    BY RowsMove DEF Inv
  <1>2. CASE UNCHANGED hubVars /\ \A q \in Requests : row'[q] = row[q] \/ row'[q] = "timeout"
    <2>1. TypeOK'
      BY <1>1, <1>2 DEF Inv, TypeOK, hubVars
    <2> QED
      BY <1>1, <1>2, <2>1, Unannounced DEF Inv
  <1>3. ASSUME NEW r \in Requests, Written(r), NotifyLogCompleted(r) PROVE Inv'
    <2>1. UNCHANGED <<held, register, unregister, clients, send, conn, shown>>
      BY <1>3 DEF NotifyLogCompleted
    <2>2. \A q \in Requests : q # r => row'[q] = row[q]
      BY <1>3 DEF Written, InsertPending, UpdateRow, Inv, TypeOK
    <2>3. /\ notify' \in Seq(Requests) /\ ToSet(notify) \subseteq ToSet(notify')
          /\ missed \subseteq missed'
          /\ r \in ToSet(notify') \/ Clients \X {r} \subseteq missed'
      <3>1. notify \in Seq(Requests)
        BY DEF Inv, TypeOK
      <3>2. Append(notify, r) \in Seq(Requests) /\ ToSet(Append(notify, r)) = ToSet(notify) \cup {r}
        BY <3>1, Ends
      <3>3. CASE notify' = Append(notify, r) /\ missed' = missed
        BY <3>2, <3>3
      <3>4. CASE notify' = notify /\ missed' = missed \cup (Clients \X {r})
        BY <3>1, <3>4
      <3> QED
        BY <1>3, <3>3, <3>4 DEF NotifyLogCompleted
    <2>4. TypeOK'
      BY <1>1, <2>1, <2>3 DEF Inv, TypeOK
    <2>5. FreshClients'
      BY <2>1 DEF Inv, FreshClients
    <2>6. ASSUME NEW c \in clients', NEW q \in Requests, conn'[c] = "open",
                 <<c, q>> \notin missed', q \notin ToSet(notify')
          PROVE  Fresh(c, q)'
      <3>1. c \in Clients /\ c \in clients
        BY <2>1 DEF Inv, TypeOK
      <3>2. q # r
        BY <2>3, <2>6, <3>1
      <3>3. Fresh(c, q)
        BY <2>1, <2>3, <2>6, <3>1 DEF Inv, Informed
      <3> QED
        BY <2>1, <2>2, <3>2, <3>3 DEF Fresh, UpToDate, Current
    <2> QED
      BY <1>1, <2>4, <2>5, <2>6 DEF Inv, Informed
  <1>4. ASSUME NEW r \in Requests, Unwritten(r) PROVE UNCHANGED row
    BY <1>4 DEF Unwritten, PendingLost, UpstreamFails, Respond, ReadBody, BodyLost, StreamTimesOut,
         CloseBody, UpdateLost, EndRetry, GrowOld
  <1>5. Cleanup => \A q \in Requests : row'[q] = row[q] \/ row'[q] = "timeout"
    BY DEF Cleanup
  <1> QED
    BY <1>2, <1>3, <1>4, <1>5 DEF LogStep

\* A step of the hub or of a connection leaves the rows alone: what it does to the
\* types and to clients not yet registered, and that a client that should be is informed.
LEMMA HubStepKeeps ==
  ASSUME Inv, HubStep, UNCHANGED logVars
  PROVE  Inv'
  <1>1. UNCHANGED <<row, req>> /\ LoggedOnce'
    BY DEF Inv, LoggedOnce, logVars
  <1>2. TypeOK /\ FreshClients /\ Informed
    BY DEF Inv
  <1>3. ASSUME NEW c \in Clients, HubRegister(c) PROVE Inv'
    <2>1. TypeOK'
      BY <1>1, <1>2, <1>3 DEF HubRegister, TypeOK
    <2>2. FreshClients'
      BY <1>2, <1>3 DEF HubRegister, FreshClients
    <2>3. ASSUME NEW d \in clients', NEW q \in Requests, conn'[d] = "open",
                 <<d, q>> \notin missed', q \notin ToSet(notify')
          PROVE  Fresh(d, q)'
      <3>1. CASE d = c
        <4>1. row[q] = "absent"
          BY <1>3, <2>3, <3>1 DEF HubRegister
        <4>2. held' = None /\ send'[c] = <<>> /\ shown'[c][q] = "absent"
          BY <1>2, <1>3 DEF HubRegister, FreshClients, Nothing
        <4> QED
          BY <1>1, <3>1, <4>1, <4>2 DEF Fresh, UpToDate, Current
      <3>2. CASE d \in clients
        <4>1. Fresh(d, q)
          BY <1>2, <1>3, <2>3, <3>2 DEF HubRegister, Informed
        <4> QED
          BY <1>1, <1>3, <4>1 DEF HubRegister, Fresh, UpToDate, Current
      <3> QED
        BY <1>3, <2>3, <3>1, <3>2 DEF HubRegister
    <2> QED
      BY <1>1, <2>1, <2>2, <2>3 DEF Inv, Informed
  <1>4. ASSUME NEW c \in Clients, HubUnregister(c) \/ Connect(c) \/ Disconnect(c) PROVE Inv'
    <2>1. TypeOK'
      <3>1. Nothing \in [Requests -> Statuses] /\ <<>> \in Seq(Message)
        BY DEF Nothing, Statuses
      <3>2. CASE HubUnregister(c)
        BY <1>1, <1>2, <3>2 DEF HubUnregister, TypeOK
      <3>3. CASE Connect(c)
        BY <1>1, <1>2, <3>1, <3>3 DEF Connect, TypeOK
      <3>4. CASE Disconnect(c)
        BY <1>1, <1>2, <3>4 DEF Disconnect, TypeOK
      <3> QED
        BY <1>4, <3>2, <3>3, <3>4
    <2>2. FreshClients'
      BY <1>2, <1>4 DEF HubUnregister, Connect, Disconnect, FreshClients, TypeOK
    <2>3. ASSUME NEW d \in clients', NEW q \in Requests, conn'[d] = "open",
                 <<d, q>> \notin missed', q \notin ToSet(notify')
          PROVE  Fresh(d, q)'
      <3>1. /\ d \in clients /\ conn[d] = "open" /\ send'[d] = send[d] /\ shown'[d] = shown[d]
            /\ UNCHANGED <<held, missed, notify>>
        BY <1>2, <1>4, <2>3 DEF HubUnregister, Connect, Disconnect, TypeOK
      <3>2. Fresh(d, q)
        BY <1>2, <2>3, <3>1 DEF Informed
      <3> QED
        BY <1>1, <3>1, <3>2 DEF Fresh, UpToDate, Current
    <2> QED
      BY <1>1, <2>1, <2>2, <2>3 DEF Inv, Informed
  <1>5. CASE Fetch
    <2>0. /\ held = None /\ notify # <<>> /\ notify' = Tail(notify)
          /\ UNCHANGED <<register, unregister, clients, send, conn, shown>>
          /\ ToSet(notify) = ToSet(Tail(notify)) \cup {Head(notify)}
          /\ Head(notify) \in Requests /\ Tail(notify) \in Seq(Requests)
      BY <1>2, <1>5, Ends DEF Fetch, TypeOK
    <2> DEFINE h == Head(notify)
               message == [id |-> h, status |-> row[h]]
    <2>1. message \in Message /\ message # None
      BY <1>2, <2>0, MessageAssumption DEF TypeOK, Message
    <2>2. TypeOK'
      BY <1>1, <1>2, <1>5, <2>0, <2>1 DEF Fetch, TypeOK
    <2>3. FreshClients'
      BY <1>2, <2>0 DEF FreshClients
    <2>4. ASSUME NEW d \in clients', NEW q \in Requests, conn'[d] = "open",
                 <<d, q>> \notin missed', q \notin ToSet(notify')
          PROVE  Fresh(d, q)'
      <3>1. d \in clients /\ d \in Clients /\ clients # {}
        BY <1>2, <2>0, <2>4 DEF TypeOK
      <3>2. CASE q = h
        <4>1. held' = message
          BY <1>5, <2>4, <3>1, <3>2 DEF Fetch
        <4> QED
          BY <1>1, <2>1, <3>2, <4>1 DEF Fresh, Current
      <3>3. CASE q # h
        <4>1. <<d, q>> \notin missed /\ (held' = None \/ held'.id # q)
          BY <1>5, <2>0, <2>4, <3>1, <3>3 DEF Fetch
        <4>2. Fresh(d, q)
          BY <1>2, <2>0, <2>4, <3>1, <3>3, <4>1 DEF Informed
        <4> QED
          BY <1>1, <2>0, <4>1, <4>2 DEF Fresh, UpToDate, Current
      <3> QED
        BY <3>2, <3>3
    <2> QED
      BY <1>1, <2>2, <2>3, <2>4 DEF Inv, Informed
  <1>6. CASE Broadcast
    <2> DEFINE full == {c \in clients : Len(send[c]) >= SendCap}
    <2>1. /\ held # None /\ held \in Message /\ held' = None
          /\ send' = [c \in Clients |-> IF c \in clients \ full THEN Append(send[c], held)
                                                                ELSE send[c]]
          /\ missed' = missed \cup (full \X {held.id})
          /\ UNCHANGED <<notify, register, unregister, clients, conn, shown>>
      BY <1>2, <1>6 DEF Broadcast, TypeOK
    <2> HIDE DEF full
    <2>2. \A c \in Clients : Append(send[c], held) \in Seq(Message)
      BY <1>2, <2>1 DEF TypeOK
    <2>3. TypeOK'
      BY <1>1, <1>2, <2>1, <2>2 DEF TypeOK
    <2>4. FreshClients'
      BY <1>2, <2>1 DEF FreshClients, TypeOK
    <2>5. ASSUME NEW d \in clients', NEW q \in Requests, conn'[d] = "open",
                 <<d, q>> \notin missed', q \notin ToSet(notify')
          PROVE  Fresh(d, q)'
      <3>1. d \in clients /\ d \in Clients /\ Fresh(d, q)
        BY <1>2, <2>1, <2>5 DEF TypeOK, Informed
      <3>2. CASE d \in full
        <4>1. held.id # q /\ send'[d] = send[d]
          BY <2>1, <2>5, <3>1, <3>2
        <4> QED
          BY <1>1, <2>1, <3>1, <4>1 DEF Fresh, UpToDate, Current
      <3>3. CASE d \notin full
        <4>1. send'[d] = Append(send[d], held) /\ send[d] \in Seq(Message)
          BY <1>2, <2>1, <3>1, <3>3 DEF TypeOK
        <4>2. IF held.id = q THEN Current(held.status, q) ELSE UpToDate(send[d], shown[d][q], q)
          BY <2>1, <3>1 DEF Fresh
        <4>3. UpToDate(Append(send[d], held), shown[d][q], q)
          BY <2>1, <4>1, <4>2, Joins
        <4> QED
          BY <1>1, <2>1, <4>1, <4>3 DEF Fresh, UpToDate, Current
      <3> QED
        BY <3>2, <3>3
    <2> QED
      BY <1>1, <2>3, <2>4, <2>5 DEF Inv, Informed
  <1>7. ASSUME NEW c \in Clients, Write(c) PROVE Inv'
    <2>1. /\ send[c] # <<>> /\ send[c] \in Seq(Message) /\ c \notin register
          /\ Head(send[c]) \in Message /\ Tail(send[c]) \in Seq(Message)
          /\ send' = [send EXCEPT ![c] = Tail(send[c])]
          /\ UNCHANGED <<notify, held, register, unregister, clients, missed>>
      BY <1>2, <1>7, Ends DEF Write, TypeOK, FreshClients
    <2> DEFINE m == Head(send[c])
    <2>2. /\ m.id \in Requests /\ m.status \in Statuses
      BY <2>1 DEF Message
    <2>3. \/ conn' = conn /\ shown' = [shown EXCEPT ![c][m.id] = m.status]
          \/ conn' = [conn EXCEPT ![c] = "broken"] /\ shown' = shown
      BY <1>7 DEF Write
    <2> HIDE DEF m
    <2>4. TypeOK'
      <3>1. send' \in [Clients -> Seq(Message)]
        BY <1>2, <2>1 DEF TypeOK
      <3>2. conn' \in [Clients -> {"off", "open", "broken"}]
        BY <1>2, <2>3 DEF TypeOK
      <3>3. [shown[c] EXCEPT ![m.id] = m.status] \in [Requests -> Statuses]
        BY <1>2, <2>2 DEF TypeOK
      <3>4. shown' \in [Clients -> [Requests -> Statuses]]
        BY <1>2, <2>3, <3>3 DEF TypeOK
      <3> QED
        BY <1>1, <1>2, <2>1, <3>1, <3>2, <3>4 DEF TypeOK
    <2>5. FreshClients'
      BY <1>2, <2>1, <2>3 DEF FreshClients, TypeOK
    <2>6. ASSUME NEW d \in clients', NEW q \in Requests, conn'[d] = "open",
                 <<d, q>> \notin missed', q \notin ToSet(notify')
          PROVE  Fresh(d, q)'
      <3>1. d \in clients /\ d \in Clients
        BY <1>2, <2>1, <2>6 DEF TypeOK
      <3>2. conn[d] = "open" /\ Fresh(d, q)
        BY <1>2, <2>1, <2>3, <2>6, <3>1 DEF TypeOK, Informed
      <3>3. CASE d # c
        <4>1. send'[d] = send[d] /\ shown'[d] = shown[d]
          BY <1>2, <2>1, <2>3, <3>1, <3>3 DEF TypeOK
        <4> QED
          BY <1>1, <2>1, <3>2, <4>1 DEF Fresh, UpToDate, Current
      <3>4. CASE d = c
        <4>1. /\ send'[c] = Tail(send[c])
              /\ shown'[c][q] = IF m.id = q THEN m.status ELSE shown[c][q]
          BY <1>2, <2>1, <2>2, <2>3, <2>6, <3>4 DEF TypeOK
        <4>2. UpToDate(send[c], shown[c][q], q) =>
                UpToDate(Tail(send[c]), IF m.id = q THEN m.status ELSE shown[c][q], q)
          BY <2>1, Leaves DEF m
        <4> QED
          <5>1. CASE held # None /\ held.id = q
            BY <1>1, <2>1, <3>2, <3>4, <5>1 DEF Fresh, Current
          <5>2. CASE ~(held # None /\ held.id = q)
            <6>1. UpToDate(Tail(send[c]), shown'[c][q], q)
              BY <3>2, <3>4, <4>1, <4>2, <5>2 DEF Fresh
            <6>2. UpToDate(send'[c], shown'[c][q], q)
              BY <4>1, <6>1
            <6> QED
              BY <1>1, <2>1, <3>4, <5>2, <6>2 DEF Fresh, UpToDate, Current
          <5> QED
            BY <5>1, <5>2
      <3> QED
        BY <3>3, <3>4
    <2> QED
      BY <1>1, <2>4, <2>5, <2>6 DEF Inv, Informed
  <1> QED
    BY <1>3, <1>4, <1>5, <1>6, <1>7 DEF HubStep

LEMMA RestartKeeps ==
  ASSUME Inv, RestartAll
  PROVE  Inv'
  <1>1. row' \in [Requests -> Statuses] /\ req' \in [Requests -> Stages] /\ LoggedOnce'
    BY RowsMove DEF Inv, RestartAll
  <1>2. /\ notify' = <<>> /\ held' = None /\ register' = {} /\ clients' = {}
        /\ send' = [c \in Clients |-> <<>>]
        /\ conn' = [c \in Clients |-> "off"]
        /\ shown' = [c \in Clients |-> Nothing]
    BY DEF RestartAll
  <1>3. TypeOK'
    BY <1>1, <1>2 DEF TypeOK, Nothing, Statuses
  <1> QED
    BY <1>1, <1>2, <1>3 DEF Inv, FreshClients, Informed

LEMMA Step == Inv /\ [Next]_vars => Inv'
  <1>1. ASSUME Inv, UNCHANGED vars PROVE Inv'
    BY <1>1 DEF vars, Inv, TypeOK, LoggedOnce, FreshClients, Informed, Fresh, UpToDate, Current
  <1> QED
    BY <1>1, LogStepKeeps, HubStepKeeps, RestartKeeps DEF Next

LEMMA Invariant == Spec => []Inv
  BY Initially, Step, PTL DEF Spec

(******************************** theorems *********************************)

\* The types, for any number of requests and clients and any buffers.
THEOREM TypeCorrect == Spec => []TypeOK
  <1>1. Inv => TypeOK
    BY DEF Inv
  <1> QED
    BY Invariant, <1>1, PTL

\* What UpdateFromTrace has written stays: PendingCleaner replaces "pending" only, and
\* LoggingBodyWrapper closes once.
THEOREM ResultsStay == Spec => ResultStays
  <1>1. Inv /\ [Next]_vars => [\A r \in Requests : row[r] \in Results => row'[r] = row[r]]_vars
    BY RowsMove DEF Next, RestartAll, logVars, Inv, vars
  <1> QED
    BY Invariant, <1>1, PTL DEF Spec, ResultStays

\* Hub fetches a row late, drops what does not fit and forgets who leaves; a client that
\* has missed nothing of a row shows it as it is, once nothing is on its way.
THEOREM ClientsInformed == Spec => []ClientsCatchUp
  <1>1. ASSUME Inv, NEW c \in clients, NEW r \in Requests, conn[c] = "open",
               <<c, r>> \notin missed, ~Underway(c, r)
        PROVE  shown[c][r] = row[r] \/ row[r] = "timeout"
    BY <1>1 DEF Inv, Informed, Fresh, UpToDate, Current, Underway
  <1>2. Inv => ClientsCatchUp
    BY <1>1 DEF ClientsCatchUp
  <1> QED
    BY Invariant, <1>2, PTL
=============================================================================
