------------------------------ MODULE LiveLog -------------------------------
(***************************************************************************)
(* The live view of request_logs: LogWriter notifies realtime.Hub of each  *)
(* row it has written, the hub's goroutine fetches the row and broadcasts  *)
(* it to the administrators' WebSocket clients.  Composes RequestLog with  *)
(* the hub, its clients and the goroutines of AdminRequestLogsWS.          *)
(*                                                                         *)
(* Nothing here ever waits for a slow receiver: a notification that finds  *)
(* the buffer full, and a message that finds a client's buffer full, are   *)
(* dropped.                                                                *)
(***************************************************************************)
EXTENDS RequestLog, SequencesExt

CONSTANTS
  Clients,          \* WebSocket connections
  None,             \* the hub holds no message
  NotifyCap,        \* capacity of Hub.notify (256)
  SendCap           \* capacity of Client.send (64)

ASSUME LiveLogAssumption == NotifyCap \in Nat /\ SendCap \in Nat

VARIABLES
  notify,           \* Hub.notify: a channel of request ids
  held,             \* the row the hub has fetched and not yet broadcast, or None
  register,         \* Hub.register: clients waiting in the channel
  unregister,       \* Hub.unregister
  clients,          \* Hub.clients
  send,             \* Client.send of each client: the rows queued for it
  conn,             \* "off", "open", or "broken": its WriteLoop has returned
  shown,            \* the last row of each request each client has been sent
  missed            \* pairs of a client and a request of which it missed a row

hubVars == <<notify, held, register, unregister, clients, send, conn, shown, missed>>
vars == <<row, req, failed, old, crashes,
          notify, held, register, unregister, clients, send, conn, shown, missed>>

Message == [id : Requests, status : Statuses]
Nothing == [r \in Requests |-> "absent"]

ASSUME MessageAssumption == None \notin Message
-----------------------------------------------------------------------------
HubInit ==
  /\ notify = <<>>
  /\ held = None
  /\ register = {} /\ unregister = {} /\ clients = {}
  /\ send = [c \in Clients |-> <<>>]
  /\ conn = [c \in Clients |-> "off"]
  /\ shown = [c \in Clients |-> Nothing]
  /\ missed = {}

\* Mutant: a completed row is announced only when it was pending before.
NotifyIfWaiting(r) ==
  /\ notify' = IF Len(notify) < NotifyCap /\ row[r] \in {"absent", "pending"}
               THEN Append(notify, r) ELSE notify
  /\ missed' = IF Len(notify) < NotifyCap THEN missed ELSE missed \cup (Clients \X {r})
  /\ UNCHANGED <<held, register, unregister, clients, send, conn, shown>>

NotifyLogCompleted(r) ==
  /\ IF Len(notify) < NotifyCap
     THEN /\ notify' = Append(notify, r)
          /\ UNCHANGED missed
     ELSE /\ missed' = missed \cup (Clients \X {r})
          /\ UNCHANGED notify
  /\ UNCHANGED <<held, register, unregister, clients, send, conn, shown>>
-----------------------------------------------------------------------------
(* Hub.run: one goroutine, whose select takes any channel that is ready. *)

HubRegister(c) ==
  /\ held = None /\ c \in register
  /\ register' = register \ {c}
  /\ clients' = clients \cup {c}
  /\ missed' = missed \cup ({c} \X {r \in Requests : row[r] # "absent"})
  /\ UNCHANGED <<notify, held, unregister, send, conn, shown>>

\* The client's channel is closed too, which ends its WriteLoop.
HubUnregister(c) ==
  /\ held = None /\ c \in unregister
  /\ unregister' = unregister \ {c}
  /\ clients' = clients \ {c}
  /\ UNCHANGED <<notify, held, register, send, conn, shown, missed>>

\* The notification is taken and the row, as it is now, fetched.
Fetch ==
  /\ held = None /\ notify # <<>>
  /\ notify' = Tail(notify)
  /\ IF clients = {} THEN UNCHANGED <<held, missed>>
     ELSE LET r == Head(notify) IN
          \/ /\ held' = [id |-> r, status |-> row[r]]
             /\ missed' = missed \ (Clients \X {r})
          \/ /\ missed' = missed \cup (Clients \X {r})
             /\ UNCHANGED held
  /\ UNCHANGED <<register, unregister, clients, send, conn, shown>>

Broadcast ==
  LET full == {c \in clients : Len(send[c]) >= SendCap} IN
  /\ held # None
  /\ send' = [c \in Clients |-> IF c \in clients \ full THEN Append(send[c], held)
                                                        ELSE send[c]]
  /\ missed' = missed \cup (full \X {held.id})
  /\ held' = None
  /\ UNCHANGED <<notify, register, unregister, clients, conn, shown>>
-----------------------------------------------------------------------------
(* AdminRequestLogsWS. *)

\* NewClient and Register; the goroutines of the connection are started.
Connect(c) ==
  /\ conn[c] = "off" /\ c \notin register \cup unregister \cup clients
  /\ conn' = [conn EXCEPT ![c] = "open"]
  /\ register' = register \cup {c}
  /\ send' = [send EXCEPT ![c] = <<>>]
  /\ shown' = [shown EXCEPT ![c] = Nothing]
  /\ UNCHANGED <<notify, held, unregister, clients, missed>>

\* WriteLoop: a message is written, or the loop returns.
Write(c) ==
  /\ conn[c] = "open" /\ send[c] # <<>>
  /\ send' = [send EXCEPT ![c] = Tail(@)]
  /\ \/ /\ LET m == Head(send[c]) IN shown' = [shown EXCEPT ![c][m.id] = m.status]
        /\ UNCHANGED conn
     \/ /\ conn' = [conn EXCEPT ![c] = "broken"]
        /\ UNCHANGED shown
  /\ UNCHANGED <<notify, held, register, unregister, clients, missed>>

\* ReadLoop returns; Unregister, deferred.
Disconnect(c) ==
  /\ conn[c] # "off"
  /\ conn' = [conn EXCEPT ![c] = "off"]
  /\ unregister' = unregister \cup {c}
  /\ UNCHANGED <<notify, held, register, clients, send, shown, missed>>
-----------------------------------------------------------------------------
Init == LogInit /\ HubInit

LogStep ==
  \/ \E r \in Requests : \/ Written(r) /\ NotifyLogCompleted(r)
                         \/ Unwritten(r) /\ UNCHANGED hubVars
  \/ Cleanup /\ UNCHANGED hubVars

HubStep ==
  \/ Fetch
  \/ Broadcast
  \/ \E c \in Clients : \/ HubRegister(c) \/ HubUnregister(c)
                        \/ Connect(c) \/ Write(c) \/ Disconnect(c)

\* The hub is gone with the process; clients have to connect again.
RestartAll ==
  /\ Restart
  /\ notify' = <<>> /\ held' = None
  /\ register' = {} /\ unregister' = {} /\ clients' = {}
  /\ send' = [c \in Clients |-> <<>>]
  /\ conn' = [c \in Clients |-> "off"]
  /\ shown' = [c \in Clients |-> Nothing]
  /\ missed' = {}

Next == LogStep \/ (HubStep /\ UNCHANGED logVars) \/ RestartAll

Fairness ==
  /\ WF_vars(Cleanup /\ UNCHANGED hubVars)
  /\ \A r \in Requests : WF_vars(GrowOld(r) /\ UNCHANGED hubVars)

Spec == Init /\ [][Next]_vars /\ Fairness
-----------------------------------------------------------------------------
\* What a request has logged about itself stays: neither the cleaner, which may have
\* timed the row out before, nor a second update replaces it.
ResultStays ==
  [][\A r \in Requests : row[r] \in Results => row'[r] = row[r]]_vars

\* No row stays pending: not when the process stopped, the body could not be read or
\* the update failed.
PendingEnds == \A r \in Requests : row[r] = "pending" ~> row[r] # "pending"

\* A row of r is on its way to client c.
Underway(c, r) ==
  \/ r \in ToSet(notify)
  \/ held # None /\ held.id = r
  \/ \E i \in 1 .. Len(send[c]) : send[c][i].id = r

\* Fetching late is safe: when nothing is under way and nothing was dropped, an open
\* client shows each row as it is, except for what the cleaner has done to it, which it
\* does not announce.
ClientsCatchUp ==
  \A c \in clients, r \in Requests :
    conn[c] = "open" /\ <<c, r>> \notin missed /\ ~Underway(c, r) =>
      shown[c][r] = row[r] \/ row[r] = "timeout"

=============================================================================
