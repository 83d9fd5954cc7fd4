------------------------- MODULE SubscriptionsProofs -------------------------
(***************************************************************************)
(* What Subscriptions keeps for every number of administrators, users,     *)
(* plans and subscriptions.                                                *)
(*                                                                         *)
(* OneInForce alone is not inductive: two calls that hold a subscription   *)
(* they read earlier must not be able to undo each other.  The invariant   *)
(* below says what the database itself keeps (one row with status 'active' *)
(* per user, no row without its plan) and what a call may rely on (a       *)
(* subscription it has found stays in the table).                          *)
(***************************************************************************)
EXTENDS Subscriptions, TLAPS

\* One row with status 'active' per user, in force or expired.
OneActive ==
  \A s, t \in Subs : ActiveRow(s) /\ ActiveRow(t) /\ sub[s].user = sub[t].user => s = t

\* Every row's plan is there.
RowsPlanned == \A s \in Subs : sub[s].status # "absent" => plan[sub[s].plan] # "absent"

\* What a call has found is in the table, and a call that is to write has found something.
FoundThere ==
  \A a \in Admins :
    /\ op[a].found # None => sub[op[a].found].status # "absent"
    /\ op[a].at \in {"cancelWrite", "expiryWrite"} => op[a].found # None

Inv == TypeOK /\ OneActive /\ RowsPlanned /\ FoundThere

\* Before the first call there is no row at all.
LEMMA Initially == Init => Inv
  <1> SUFFICES ASSUME Init PROVE Inv
    OBVIOUS
  <1>1. now \in Time /\ Never \in Time \cup {Never}
    BY SubscriptionsAssumption DEF Init, Time
  <1>2. TypeOK
    BY <1>1 DEF Init, TypeOK, Sub, Op
  <1> QED
    BY <1>2 DEF Init, Inv, OneActive, RowsPlanned, FoundThere, ActiveRow

\* FindActive gives None or a row with status 'active'.
LEMMA Found ==
  ASSUME NEW u, NEW s \in FindActive(u)
  PROVE  s = None \/ (s \in Subs /\ InForce(s) /\ ActiveRow(s))
  BY DEF FindActive, InForce

\* A step of one call that reads, or ends, and leaves the tables alone.
LEMMA CallMoves ==
  ASSUME Inv, NEW a \in Admins, NEW o \in Op,
         op' = [op EXCEPT ![a] = o], UNCHANGED <<plan, sub, now>>,
         o.found # None => sub[o.found].status # "absent",
         o.at \in {"cancelWrite", "expiryWrite"} => o.found # None
  PROVE  Inv'
  <1>1. op' \in [Admins -> Op]
    BY DEF Inv, TypeOK
  <1>2. \A b \in Admins : op'[b] = IF b = a THEN o ELSE op[b]
    BY DEF Inv, TypeOK
  <1>3. FoundThere'
    BY <1>2 DEF Inv, FoundThere
  <1>4. TypeOK'
    BY <1>1 DEF Inv, TypeOK
  <1>5. OneActive' /\ RowsPlanned'
    BY DEF Inv, OneActive, RowsPlanned, ActiveRow
  <1> QED
    BY <1>3, <1>4, <1>5 DEF Inv

LEMMA Reads ==
  ASSUME Inv, NEW a \in Admins,
         \/ AssignCheck(a) \/ AssignRead(a) \/ FindForCancel(a) \/ FindForExpiry(a)
         \/ DeleteCheck(a) \/ DeleteCount(a) \/ Fail(a)
  PROVE  Inv'
  <1> op[a] \in Op /\ op \in [Admins -> Op]
    BY DEF Inv, TypeOK
  <1> op[a].found # None => sub[op[a].found].status # "absent"
    BY DEF Inv, FoundThere
  <1>1. CASE AssignCheck(a)
    <2> PICK u \in Users, p \in Plans :
          op' = [op EXCEPT ![a] = [@ EXCEPT !.at = "assignRead", !.user = u, !.plan = p]]
      BY <1>1 DEF AssignCheck
    <2> DEFINE o == [op[a] EXCEPT !.at = "assignRead", !.user = u, !.plan = p]
    <2>1. o \in Op /\ o.found = op[a].found /\ o.at = "assignRead"
      BY DEF Op
    <2>2. op' = [op EXCEPT ![a] = o]
      OBVIOUS
    <2>3. UNCHANGED <<plan, sub, now>>
      BY <1>1 DEF AssignCheck
    <2> HIDE DEF o
    <2> QED
      BY <2>1, <2>2, <2>3, CallMoves
  <1>2. CASE AssignRead(a)
    <2> PICK s \in FindActive(op[a].user) :
          op' = [op EXCEPT ![a] = [@ EXCEPT !.at = "assignWrite", !.found = s]]
      BY <1>2 DEF AssignRead
    <2> DEFINE o == [op[a] EXCEPT !.at = "assignWrite", !.found = s]
    <2>1. s = None \/ (s \in Subs /\ ActiveRow(s))
      BY Found
    <2>2. o \in Op /\ o.found = s /\ o.at = "assignWrite"
      BY <2>1 DEF Op
    <2>3. op' = [op EXCEPT ![a] = o]
      OBVIOUS
    <2> HIDE DEF o
    <2> QED
      <3>1. UNCHANGED <<plan, sub, now>>
        BY <1>2 DEF AssignRead
      <3>2. o.found # None => sub[o.found].status # "absent"
        BY <2>1, <2>2 DEF ActiveRow
      <3>3. o.at \notin {"cancelWrite", "expiryWrite"}
        BY <2>2
      <3> QED
        BY <2>2, <2>3, <3>1, <3>2, <3>3, CallMoves
  <1>3. CASE FindForCancel(a)
    <2> PICK u \in Users : \E s \in FindActive(u) \ {None} :
          op' = [op EXCEPT ![a] = [@ EXCEPT !.at = "cancelWrite", !.user = u, !.found = s]]
      BY <1>3 DEF FindForCancel
    <2> PICK s \in FindActive(u) \ {None} :
          op' = [op EXCEPT ![a] = [@ EXCEPT !.at = "cancelWrite", !.user = u, !.found = s]]
      OBVIOUS
    <2> DEFINE o == [op[a] EXCEPT !.at = "cancelWrite", !.user = u, !.found = s]
    <2>1. s \in Subs /\ ActiveRow(s)
      BY Found
    <2>2. o \in Op /\ o.found = s /\ s # None
      BY <2>1, SubscriptionsAssumption DEF Op
    <2>3. op' = [op EXCEPT ![a] = o]
      OBVIOUS
    <2> HIDE DEF o
    <2> QED
      BY <1>3, <2>1, <2>2, <2>3, CallMoves DEF FindForCancel, ActiveRow
  <1>4. CASE FindForExpiry(a)
    <2> PICK u \in Users : \E s \in FindActive(u) \ {None} :
          op' = [op EXCEPT ![a] = [@ EXCEPT !.at = "expiryWrite", !.user = u, !.found = s]]
      BY <1>4 DEF FindForExpiry
    <2> PICK s \in FindActive(u) \ {None} :
          op' = [op EXCEPT ![a] = [@ EXCEPT !.at = "expiryWrite", !.user = u, !.found = s]]
      OBVIOUS
    <2> DEFINE o == [op[a] EXCEPT !.at = "expiryWrite", !.user = u, !.found = s]
    <2>1. s \in Subs /\ ActiveRow(s)
      BY Found
    <2>2. o \in Op /\ o.found = s /\ s # None
      BY <2>1, SubscriptionsAssumption DEF Op
    <2>3. op' = [op EXCEPT ![a] = o]
      OBVIOUS
    <2> HIDE DEF o
    <2> QED
      BY <1>4, <2>1, <2>2, <2>3, CallMoves DEF FindForExpiry, ActiveRow
  <1>5. CASE DeleteCheck(a)
    <2> PICK p \in Plans : op' = [op EXCEPT ![a] = [@ EXCEPT !.at = "deleteCount", !.plan = p]]
      BY <1>5 DEF DeleteCheck
    <2> DEFINE o == [op[a] EXCEPT !.at = "deleteCount", !.plan = p]
    <2>1. o \in Op /\ o.found = op[a].found /\ o.at = "deleteCount"
      BY DEF Op
    <2>2. op' = [op EXCEPT ![a] = o]
      OBVIOUS
    <2> HIDE DEF o
    <2> QED
      BY <1>5, <2>1, <2>2, CallMoves DEF DeleteCheck
  <1>6. CASE DeleteCount(a)
    <2> PICK step \in {"deleteRefused", "deleteWrite"} : op' = [op EXCEPT ![a].at = step]
      BY <1>6 DEF DeleteCount, Continue
    <2> DEFINE o == [op[a] EXCEPT !.at = step]
    <2>1. o \in Op /\ o.found = op[a].found /\ o.at = step
      BY DEF Op
    <2>2. op' = [op EXCEPT ![a] = o]
      OBVIOUS
    <2>3. UNCHANGED <<plan, sub, now>>
      BY <1>6 DEF DeleteCount
    <2> HIDE DEF o
    <2> QED
      BY <2>1, <2>2, <2>3, CallMoves
  <1>7. CASE Fail(a)
    <2> DEFINE o == [op[a] EXCEPT !.at = "idle", !.found = None]
    <2>1. o \in Op /\ o.found = None /\ o.at = "idle"
      BY DEF Op
    <2>2. op' = [op EXCEPT ![a] = o]
      BY <1>7 DEF Fail, Return
    <2> HIDE DEF o
    <2> QED
      BY <1>7, <2>1, <2>2, CallMoves DEF Fail
  <1> QED
    BY <1>1, <1>2, <1>3, <1>4, <1>5, <1>6, <1>7

\* The steps that write to the tables.
LEMMA Assigns == ASSUME Inv, NEW a \in Admins, AssignWrite(a) PROVE Inv'
  <1>1. PICK n \in Subs, e \in Time \cup {Never} :
          /\ sub[n].status = "absent"
          /\ sub' = [s \in Subs |->
                       IF s = n THEN [status |-> "active", user |-> op[a].user,
                                      plan |-> op[a].plan, expires |-> e]
                       ELSE IF s = op[a].found THEN Stopped(s)
                       ELSE sub[s]]
    BY DEF AssignWrite
  <1> DEFINE new == [status |-> "active", user |-> op[a].user, plan |-> op[a].plan, expires |-> e]
             o == [op[a] EXCEPT !.at = "idle", !.found = None]
  <1>2. op[a] \in Op /\ op \in [Admins -> Op] /\ sub \in [Subs -> Sub]
    BY DEF Inv, TypeOK
  <1>3. new \in Sub /\ new.status = "active" /\ new.user = op[a].user /\ new.plan = op[a].plan
    BY <1>2 DEF Sub, Op
  <1>4. o \in Op /\ o.found = None /\ o.at = "idle"
    BY <1>2 DEF Op
  <1>5. op' = [op EXCEPT ![a] = o]
    BY DEF AssignWrite, Return
  <1>6. \A s \in Subs : /\ Stopped(s) \in Sub
                         /\ Stopped(s).status = "cancelled" /\ Stopped(s).plan = sub[s].plan
    BY <1>2 DEF Stopped, Sub
  <1>7. sub' = [s \in Subs |-> IF s = n THEN new ELSE IF s = op[a].found THEN Stopped(s) ELSE sub[s]]
    BY <1>1
  <1> HIDE DEF new, o
  <1>8. sub' \in [Subs -> Sub]
    BY <1>2, <1>3, <1>6, <1>7
  <1>9. op' \in [Admins -> Op] /\ \A b \in Admins : op'[b] = IF b = a THEN o ELSE op[b]
    BY <1>2, <1>4, <1>5
  <1>10. TypeOK'
    BY <1>8, <1>9 DEF Inv, TypeOK, AssignWrite
  <1>11. \A s \in Subs :
           ActiveRow(s)' => s = n \/ (ActiveRow(s) /\ s # op[a].found /\ sub'[s] = sub[s])
    BY <1>6, <1>7 DEF ActiveRow
  <1>12. \A s \in Subs : ActiveRow(s) /\ sub[s].user = op[a].user => s = op[a].found
    BY DEF AssignWrite, FreeSlot
  <1>13. sub'[n].user = op[a].user
    BY <1>3, <1>7
  <1>14. OneActive'
    BY <1>11, <1>12, <1>13 DEF Inv, OneActive, ActiveRow
  <1>15. \A s \in Subs : s = n \/ (sub'[s].plan = sub[s].plan /\
                                 (sub[s].status # "absent" => sub'[s].status # "absent"))
    BY <1>6, <1>7
  <1>16. RowsPlanned'
    <2> SUFFICES ASSUME NEW s \in Subs, sub'[s].status # "absent" PROVE plan[sub'[s].plan] # "absent"
      BY DEF RowsPlanned, AssignWrite
    <2>1. CASE s = n
      BY <2>1, <1>3, <1>7 DEF AssignWrite
    <2>2. CASE s # n /\ s = op[a].found
      <3>1. sub[s].status # "absent"
        BY <2>2, SubscriptionsAssumption DEF Inv, FoundThere
      <3>2. sub'[s].plan = sub[s].plan
        BY <2>2, <1>15
      <3> QED
        BY <3>1, <3>2 DEF Inv, RowsPlanned
    <2>3. CASE s # n /\ s # op[a].found
      BY <2>3, <1>7 DEF Inv, RowsPlanned
    <2> QED
      BY <2>1, <2>2, <2>3
  <1>17. \A s \in Subs : sub[s].status # "absent" => sub'[s].status # "absent"
    BY <1>3, <1>6, <1>7
  <1>18. FoundThere'
    BY <1>4, <1>9, <1>17 DEF Inv, FoundThere, TypeOK, Op
  <1> QED
    BY <1>10, <1>14, <1>16, <1>18 DEF Inv

\* CancelWrite and ExpiryWrite: one row, that stays in the table, keeps its user and plan,
\* and is not active unless it was.
LEMMA RowMoves ==
  ASSUME Inv, NEW a \in Admins, NEW r \in Sub,
         op[a].at \in {"cancelWrite", "expiryWrite"},
         sub' = [sub EXCEPT ![op[a].found] = r],
         r.status # "absent", r.user = sub[op[a].found].user, r.plan = sub[op[a].found].plan,
         r.status = "active" => ActiveRow(op[a].found),
         Return(a), UNCHANGED <<plan, now>>
  PROVE  Inv'
  <1> DEFINE f == op[a].found  o == [op[a] EXCEPT !.at = "idle", !.found = None]
  <1>1. op[a] \in Op /\ op \in [Admins -> Op] /\ sub \in [Subs -> Sub]
    BY DEF Inv, TypeOK
  <1>2. f \in Subs /\ sub[f].status # "absent"
    BY <1>1 DEF Inv, FoundThere, Op
  <1>3. o \in Op /\ o.found = None /\ o.at = "idle"
    BY <1>1 DEF Op
  <1>4. op' = [op EXCEPT ![a] = o]
    BY DEF Return
  <1>5. sub' = [sub EXCEPT ![f] = r] /\ r.user = sub[f].user /\ r.plan = sub[f].plan
        /\ (r.status = "active" => ActiveRow(f))
    OBVIOUS
  <1> HIDE DEF f, o
  <1>6. \A s \in Subs : sub'[s] = IF s = f THEN r ELSE sub[s]
    BY <1>1, <1>5
  <1>7. op' \in [Admins -> Op] /\ \A b \in Admins : op'[b] = IF b = a THEN o ELSE op[b]
    BY <1>1, <1>3, <1>4
  <1>8. TypeOK'
    BY <1>1, <1>5, <1>7 DEF Inv, TypeOK
  <1>9. OneActive'
    BY <1>2, <1>5, <1>6 DEF Inv, OneActive, ActiveRow
  <1>10. RowsPlanned'
    BY <1>2, <1>5, <1>6 DEF Inv, RowsPlanned
  <1>11. FoundThere'
    BY <1>1, <1>3, <1>6, <1>7 DEF Inv, FoundThere, Op
  <1> QED
    BY <1>8, <1>9, <1>10, <1>11 DEF Inv

LEMMA WritesOfCalls ==
  ASSUME Inv, NEW a \in Admins, CancelWrite(a) \/ ExpiryWrite(a) \/ DeleteWrite(a)
  PROVE  Inv'
  <1>1. op[a] \in Op /\ op \in [Admins -> Op] /\ sub \in [Subs -> Sub]
    BY DEF Inv, TypeOK
  <1>2. op[a].at \in {"cancelWrite", "expiryWrite"} => op[a].found \in Subs /\ sub[op[a].found].status # "absent"
    BY <1>1 DEF Inv, FoundThere, Op
  <1>3. CASE CancelWrite(a)
    <2> DEFINE r == Stopped(op[a].found)
    <2>1. r \in Sub /\ r.status = "cancelled" /\ r.user = sub[op[a].found].user /\ r.plan = sub[op[a].found].plan
      BY <1>1, <1>2, <1>3 DEF Stopped, Sub, CancelWrite
    <2>2. sub' = [sub EXCEPT ![op[a].found] = r]
      BY <1>3 DEF CancelWrite
    <2> HIDE DEF r
    <2> QED
      BY <1>3, <2>1, <2>2, RowMoves DEF CancelWrite
  <1>4. CASE ExpiryWrite(a)
    <2> PICK e \in Time : sub' = [sub EXCEPT ![op[a].found] = Extended(op[a].found, e)]
      BY <1>4 DEF ExpiryWrite
    <2> DEFINE r == Extended(op[a].found, e)
    <2>1. /\ r \in Sub /\ r.status = sub[op[a].found].status
          /\ r.user = sub[op[a].found].user /\ r.plan = sub[op[a].found].plan
      BY <1>1, <1>2, <1>4 DEF Extended, Sub, ExpiryWrite
    <2>2. sub' = [sub EXCEPT ![op[a].found] = r]
      OBVIOUS
    <2> HIDE DEF r
    <2> QED
      BY <1>2, <1>4, <2>1, <2>2, RowMoves DEF ExpiryWrite, ActiveRow
  <1>5. CASE DeleteWrite(a)
    <2> DEFINE o == [op[a] EXCEPT !.at = "idle", !.found = None]
    <2>1. o \in Op /\ o.found = None /\ o.at = "idle"
      BY <1>1 DEF Op
    <2>2. op' = [op EXCEPT ![a] = o]
      BY <1>5 DEF DeleteWrite, Return
    <2> HIDE DEF o
    <2>3. op' \in [Admins -> Op] /\ \A b \in Admins : op'[b] = IF b = a THEN o ELSE op[b]
      BY <1>1, <2>1, <2>2
    <2>4. TypeOK'
      BY <1>5, <2>3 DEF Inv, TypeOK, DeleteWrite
    <2>5. FoundThere'
      BY <1>5, <2>1, <2>3 DEF Inv, FoundThere, DeleteWrite
    <2>6. OneActive'
      BY <1>5 DEF Inv, OneActive, ActiveRow, DeleteWrite
    <2>7. RowsPlanned'
      BY <1>1, <1>5 DEF Inv, TypeOK, RowsPlanned, DeleteWrite, InUse, Sub
    <2> QED
      BY <2>4, <2>5, <2>6, <2>7 DEF Inv
  <1> QED
    BY <1>3, <1>4, <1>5

\* The plans and the clock.
LEMMA Others ==
  ASSUME Inv, Tick \/ (\E p \in Plans : CreatePlan(p) \/ SetEnabled(p))
  PROVE  Inv'
  <1>1. CASE Tick
    <2>1. now' \in Time
      BY <1>1, SubscriptionsAssumption DEF Inv, TypeOK, Tick, Time
    <2> QED
      BY <1>1, <2>1 DEF Inv, TypeOK, OneActive, RowsPlanned, FoundThere, ActiveRow, Tick
  <1>2. ASSUME NEW p \in Plans, CreatePlan(p) \/ SetEnabled(p) PROVE Inv'
    <2>1. PICK e \in {"enabled", "disabled"} : plan' = [plan EXCEPT ![p] = e]
      BY <1>2 DEF CreatePlan, SetEnabled
    <2>2. UNCHANGED <<sub, op, now>>
      BY <1>2 DEF CreatePlan, SetEnabled
    <2>3. plan' \in [Plans -> {"absent", "enabled", "disabled"}] /\ plan'[p] # "absent"
      BY <2>1 DEF Inv, TypeOK
    <2>4. RowsPlanned'
      BY <2>1, <2>2, <2>3 DEF Inv, TypeOK, RowsPlanned, Sub
    <2> QED
      BY <2>2, <2>3, <2>4 DEF Inv, TypeOK, OneActive, FoundThere, ActiveRow
  <1> QED
    BY <1>1, <1>2

LEMMA Step == Inv /\ [Next]_vars => Inv'
  <1> SUFFICES ASSUME Inv, [Next]_vars PROVE Inv'
    OBVIOUS
  <1>1. ASSUME NEW a \in Admins, Call(a) PROVE Inv'
    BY <1>1, Reads, Assigns, WritesOfCalls DEF Call
  <1>2. CASE UNCHANGED vars
    BY <1>2 DEF vars, Inv, TypeOK, OneActive, RowsPlanned, FoundThere, ActiveRow
  <1> QED
    BY <1>1, <1>2, Others DEF Next

LEMMA Invariant == Spec => []Inv
  BY Initially, Step, PTL DEF Spec

\* Every variable keeps its type.
THEOREM TypeCorrect == Spec => []TypeOK
  <1>1. Inv => TypeOK
    BY DEF Inv
  <1> QED
    BY <1>1, Invariant, PTL

\* Billing charges the one subscription it finds: no user ever has two in force, for
\* any number of administrators at work.
THEOREM OneSubscription == Spec => []OneInForce
  <1>1. Inv => OneInForce
    BY DEF Inv, OneActive, OneInForce, InForce
  <1> QED
    BY <1>1, Invariant, PTL

\* The plan of a subscription in force is there, whatever Delete has counted before
\* the subscription was assigned.
THEOREM PlanStays == Spec => []PlanInForceExists
  <1>1. Inv => PlanInForceExists
    BY DEF Inv, RowsPlanned, PlanInForceExists, InForce, ActiveRow
  <1> QED
    BY <1>1, Invariant, PTL

\* A subscription once cancelled or replaced stays so, also under an UpdateExpiry or an
\* Assign that found it before.
THEOREM CancelledStays == Spec => CancelledForEver
  <1> DEFINE Stays == \A s \in Subs : sub[s].status = "cancelled" => sub'[s].status = "cancelled"
  <1>1. ASSUME Inv, [Next]_vars PROVE Stays
    <2> USE <1>1
    <2>1. op \in [Admins -> Op] /\ sub \in [Subs -> Sub]
      BY DEF Inv, TypeOK
    <2>2. CASE UNCHANGED sub
      BY <2>2
    <2>3. ASSUME NEW a \in Admins, AssignWrite(a) PROVE Stays
      BY <2>1, <2>3 DEF AssignWrite, Stopped, Sub
    <2>4. ASSUME NEW a \in Admins, CancelWrite(a) PROVE Stays
      BY <2>1, <2>4 DEF CancelWrite, Stopped, Sub
    <2>5. ASSUME NEW a \in Admins, ExpiryWrite(a) PROVE Stays
      BY <2>1, <2>5 DEF ExpiryWrite, Extended, Sub
    <2> QED
      BY <2>2, <2>3, <2>4, <2>5
      DEF Next, Call, vars, Tick, CreatePlan, SetEnabled, AssignCheck, AssignRead, FindForCancel,
          FindForExpiry, DeleteCheck, DeleteCount, DeleteWrite, Fail
  <1>2. [][Inv /\ Next]_vars => [][Stays]_vars
    <2>1. [Inv /\ Next]_vars => [Stays]_vars
      BY <1>1
    <2> QED
      BY <2>1, PTL
  <1> QED
    BY <1>1, Invariant, PTL DEF Spec, CancelledForEver
=============================================================================
