--------------------------- MODULE BillingProofs ----------------------------
(***************************************************************************)
(* Theorems about Billing, for any users, requests, costs, plans and       *)
(* bounds.  Those that need the settlements to be isolated assume SQLite.  *)
(***************************************************************************)
EXTENDS Billing, FiniteSetTheorems, WellFoundedInduction, TLAPS

\* The steps of SettleRequestCost before its commit.
Settling == {"settling", "readSetting", "readSub", "readUsage", "planned", "locked"}
\* Every step before the one that may record a charge.
BeforeCharge == {"new", "checkBalance", "admitted", "running", "refused"} \cup Settling

\* Nothing is recorded for a request before its settlement commits, and the cost
\* being settled is one a response can have.
NotYetCharged ==
  \A r \in Requests :
    /\ pc[r] \in BeforeCharge => event[r] = NoEvent /\ row[r].bill = "none"
    /\ pc[r] \in Settling => cost[r] \in Costs

\* SQLite: what a settlement has read is still what the database holds, unless its
\* snapshot is marked stale; a settlement that writes is alone and is not stale.
SnapshotCurrent ==
  Backend = "sqlite" =>
    \A r \in Requests :
      /\ pc[r] \notin {"readSetting", "readSub", "readUsage"}
      /\ pc[r] \in {"planned", "locked"} /\ r \notin stale =>
           /\ tx[r].balance = balance[UserOf[r]]
           /\ tx[r].primary = primary[UserOf[r]]
      /\ pc[r] = "locked" =>
           /\ r \notin stale
           /\ \A q \in Requests : pc[q] = "locked" => q = r

IInv == TypeOK /\ NotYetCharged /\ LogMatchesEvents /\ SnapshotCurrent
-----------------------------------------------------------------------------
\* Split never charges a source more than it holds, nor more than the cost in all.
LEMMA SplitWithin ==
  ASSUME NEW c \in Nat, NEW first \in Sources, NEW quota \in Nat, NEW funds \in Nat
  PROVE  LET split == Split(c, first, quota, funds) IN
         /\ split = [subscription |-> split.subscription, balance |-> split.balance]
         /\ split.subscription \in Nat /\ split.subscription <= quota
         /\ split.balance \in Nat /\ split.balance <= funds
         /\ Total(split) \in Nat /\ Total(split) <= c
  BY DEF Split, Least, Total, Sources

\* The quota read is an amount, whatever the events are.
LEMMA QuotaIsAmount ==
  ASSUME BillingAssumption, NEW s, NEW t
  PROVE  Quota(s, t) \subseteq Amount
  BY BillingAssumption DEF Quota, Amount, BillingAssumption

\* In a well-typed state the amounts a settlement has decided on are amounts, and
\* the debit is covered by the balance it has read.
LEMMA PlanIsAmount ==
  ASSUME TypeOK, NEW r \in Requests
  PROVE  /\ Plan(r).subscription \in Amount
         /\ Plan(r).balance \in Amount
         /\ Plan(r).balance <= tx[r].balance
         /\ Total(Plan(r)) \in Nat /\ Total(Plan(r)) <= cost[r]
  <1>1. /\ MaxMicros \in Nat
        /\ cost[r] \in Nat /\ cost[r] <= MaxMicros
        /\ tx[r].quota \in Nat /\ tx[r].quota <= MaxMicros
        /\ tx[r].balance \in Nat /\ tx[r].balance <= MaxMicros
        /\ tx[r].primary \in Sources
    BY BillingAssumption DEF BillingAssumption, TypeOK, Amount, TxLocals
  <1>2. QED
    BY <1>1, SplitWithin DEF Plan, Amount
-----------------------------------------------------------------------------
\* Updating fields of a well-typed record leaves it well typed.
LEMMA RowUpdate ==
  ASSUME NEW w \in LogRow
  PROVE  /\ [w EXCEPT !.status = "pending"] \in LogRow
         /\ [w EXCEPT !.status = "final"] \in LogRow
         /\ \A b \in {"settled", "overuse"}, s \in Amount, f \in Amount :
              [w EXCEPT !.bill = b, !.subscription = s, !.balance = f] \in LogRow
  BY DEF LogRow

LEMMA TxUpdate ==
  ASSUME NEW t \in TxLocals
  PROVE  /\ \A p \in Sources : [t EXCEPT !.primary = p] \in TxLocals
         /\ \A s \in Subs \cup {None} : [t EXCEPT !.sub = s] \in TxLocals
         /\ \A q \in Amount : [t EXCEPT !.quota = q] \in TxLocals
         /\ \A f \in Amount : [t EXCEPT !.balance = f] \in TxLocals
         /\ \A n \in Time : [t EXCEPT !.at = n] \in TxLocals
  BY DEF TxLocals

LEMMA EmptyRecords ==
  ASSUME BillingAssumption
  PROVE  NoEvent \in Event /\ NoRow \in LogRow /\ NoTx \in TxLocals
  BY BillingAssumption
  DEF BillingAssumption, NoEvent, NoRow, NoTx, Event, LogRow, TxLocals, Amount, Time, Sources

LEMMA InitType == Init => TypeOK
  BY BillingAssumption
  DEF Init, TypeOK, BillingAssumption, Amount, Time, Steps, Sources, NoEvent, NoRow, NoTx,
      Event, LogRow, TxLocals

\* What users and administrators do keeps the types.
LEMMA ManageType ==
  ASSUME TypeOK, NEW u \in Users, Manage(u)
  PROVE  TypeOK'
  <1> USE BillingAssumption DEF TypeOK, BillingAssumption, Amount, Time, Invalidate
  <1>1. CASE TopUp(u)
    BY <1>1 DEF TopUp
  <1>2. CASE SetPriority(u)
    BY <1>2 DEF SetPriority
  <1>3. CASE ChangeSub(u)
    BY <1>3 DEF ChangeSub
  <1>4. CASE Expire(u)
    BY <1>4 DEF Expire
  <1>5. QED
    BY <1>1, <1>2, <1>3, <1>4 DEF Manage

\* The steps that serve a request, other than its commit, keep the types.
LEMMA ServeType ==
  ASSUME TypeOK, NEW r \in Requests, Serve(r), ~Commit(r)
  PROVE  TypeOK'
  <1> USE BillingAssumption DEF TypeOK, BillingAssumption, Goto, Steps
  <1>1. CASE CheckQuota(r)
    BY <1>1 DEF CheckQuota
  <1>2. CASE CheckBalance(r)
    BY <1>2 DEF CheckBalance
  <1>3. CASE WritePending(r)
    <2>1. row' \in [Requests -> LogRow]
      <3>1. CASE row' = [row EXCEPT ![r].status = "pending"]
        BY <3>1, RowUpdate
      <3>2. CASE row' = row
        BY <3>2
      <3>3. QED
        BY <1>3, <3>1, <3>2 DEF WritePending
    <2>2. stale' \subseteq Requests
      BY <1>3 DEF WritePending, Invalidate
    <2>3. QED
      BY <1>3, <2>1, <2>2 DEF WritePending
  <1>4. CASE Finish(r)
    BY <1>4 DEF Finish
  <1>5. CASE ReadSnapshot(r)
    <2>1. PICK q \in Quota(active[UserOf[r]], now) :
             tx' = [tx EXCEPT ![r] = [primary |-> primary[UserOf[r]],
                                      sub |-> active[UserOf[r]], quota |-> q,
                                      balance |-> balance[UserOf[r]], at |-> now]]
      BY <1>5 DEF ReadSnapshot
    <2>2. q \in Amount
      BY QuotaIsAmount
    <2>3. QED
      BY <1>5, <2>1, <2>2 DEF ReadSnapshot, TxLocals
  <1>6. CASE ReadSetting(r)
    BY <1>6, TxUpdate DEF ReadSetting
  <1>7. CASE ReadSub(r)
    BY <1>7, TxUpdate DEF ReadSub
  <1>8. CASE ReadUsage(r)
    <2>1. PICK q \in Quota(tx[r].sub, now) : tx' = [tx EXCEPT ![r].quota = q]
      BY <1>8 DEF ReadUsage
    <2>2. q \in Amount
      BY QuotaIsAmount
    <2>3. QED
      BY <1>8, <2>1, <2>2, TxUpdate DEF ReadUsage
  <1>9. CASE ReadBalance(r)
    BY <1>9, TxUpdate DEF ReadBalance
  <1>10. CASE BeginWrite(r)
    BY <1>10, TxUpdate DEF BeginWrite
  <1>11. CASE Rollback(r)
    BY <1>11, EmptyRecords DEF Rollback
  <1>12. CASE WriteLog(r)
    <2>1. row' \in [Requests -> LogRow]
      <3>1. CASE row' = [row EXCEPT ![r].status = "final"]
        BY <3>1, RowUpdate
      <3>2. CASE row' = row
        BY <3>2
      <3>3. QED
        BY <1>12, <3>1, <3>2 DEF WriteLog
    <2>2. stale' \subseteq Requests
      BY <1>12 DEF WriteLog, Invalidate
    <2>3. QED
      BY <1>12, <2>1, <2>2 DEF WriteLog
  <1>13. QED
    BY <1>1, <1>2, <1>3, <1>4, <1>5, <1>6, <1>7, <1>8, <1>9, <1>10, <1>11, <1>12
    DEF Serve, Settle

LEMMA CommitType ==
  ASSUME TypeOK, NEW r \in Requests, Commit(r)
  PROVE  TypeOK'
  <1> USE BillingAssumption DEF BillingAssumption
  <1>1. /\ Plan(r).subscription \in Amount
        /\ Plan(r).balance \in Amount
    BY PlanIsAmount
  <1>2. event' \in [Requests -> Event]
    <2>1. tx[r].sub \in Subs \cup {None} /\ tx[r].at \in Time
      BY DEF TypeOK, TxLocals
    <2>2. [subscription |-> Plan(r).subscription, balance |-> Plan(r).balance,
           sub |-> IF Plan(r).subscription > 0 THEN tx[r].sub ELSE None,
           at |-> tx[r].at] \in Event
      BY <1>1, <2>1 DEF Event
    <2>3. QED
      BY <2>2, EmptyRecords DEF Commit, EventOf, TypeOK
  <1>3. balance' \in [Users -> Amount]
    <2>1. Debit(balance[UserOf[r]], Plan(r).balance) \in Amount
      BY <1>1 DEF Debit, TypeOK, Amount
    <2>2. QED
      BY <2>1 DEF Commit, TypeOK
  <1>4. row' \in [Requests -> LogRow]
    BY <1>1, RowUpdate DEF Commit, BillStatus, TypeOK
  <1>5. /\ pc' \in [Requests -> Steps]
        /\ tx' \in [Requests -> TxLocals]
        /\ stale' \subseteq Requests
    BY EmptyRecords DEF Commit, Goto, Invalidate, TypeOK, Steps
  <1>6. QED
    BY <1>2, <1>3, <1>4, <1>5 DEF Commit, TypeOK

LEMMA NextType == TypeOK /\ [Next]_vars => TypeOK'
  <1> SUFFICES ASSUME TypeOK, [Next]_vars PROVE TypeOK'
    OBVIOUS
  <1>1. CASE \E u \in Users : Manage(u)
    BY <1>1, ManageType
  <1>2. CASE SetLimits
    BY <1>2 DEF SetLimits, TypeOK, Invalidate
  <1>3. CASE Tick
    BY <1>3, BillingAssumption DEF Tick, TypeOK, Time, BillingAssumption
  <1>4. CASE \E r \in Requests : Serve(r)
    BY <1>4, ServeType, CommitType
  <1>5. CASE Crash
    BY <1>5, BillingAssumption, EmptyRecords DEF Crash, TypeOK, Steps
  <1>6. CASE UNCHANGED vars
    BY <1>6 DEF vars, TypeOK
  <1>7. QED
    BY <1>1, <1>2, <1>3, <1>4, <1>5, <1>6 DEF Next

\* No interleaving takes a balance below zero or an amount out of its range, on
\* either database: the floor of the debit (SettleRequestCost) is enough.
THEOREM TypeCorrect == Spec => []TypeOK
  BY InitType, NextType, PTL DEF Spec
-----------------------------------------------------------------------------
(* The log row and the events. *)

\* What a step for request r leaves of the other requests: everything but tx and stale
\* is untouched.
LEMMA ServeFrame ==
  ASSUME TypeOK, NEW r \in Requests, Serve(r), NEW q \in Requests, q # r
  PROVE  /\ pc'[q] = pc[q] /\ cost'[q] = cost[q]
         /\ event'[q] = event[q] /\ row'[q] = row[q] /\ tx'[q] = tx[q]
  <1> USE DEF TypeOK, Goto
  <1>1. CASE CheckQuota(r) \/ CheckBalance(r)
    BY <1>1 DEF CheckQuota, CheckBalance
  <1>2. CASE WritePending(r) \/ WriteLog(r)
    BY <1>2 DEF WritePending, WriteLog
  <1>3. CASE Finish(r)
    BY <1>3 DEF Finish
  <1>4. CASE ReadSnapshot(r)
    BY <1>4 DEF ReadSnapshot
  <1>5. CASE ReadSetting(r) \/ ReadSub(r) \/ ReadUsage(r) \/ ReadBalance(r)
    BY <1>5 DEF ReadSetting, ReadSub, ReadUsage, ReadBalance
  <1>6. CASE BeginWrite(r) \/ Rollback(r)
    BY <1>6 DEF BeginWrite, Rollback
  <1>7. CASE Commit(r)
    BY <1>7 DEF Commit
  <1>8. QED
    BY <1>1, <1>2, <1>3, <1>4, <1>5, <1>6, <1>7 DEF Serve, Settle

\* What is known of one request: its conjuncts of NotYetCharged and LogMatchesEvents.
LogPart(r) ==
  /\ pc[r] \in BeforeCharge => event[r] = NoEvent /\ row[r].bill = "none"
  /\ pc[r] \in Settling => cost[r] \in Costs
  /\ row[r].bill # "none" =>
       /\ row[r].subscription = event[r].subscription
       /\ row[r].balance = event[r].balance
       /\ (row[r].bill = "settled") <=> (Total(event[r]) = cost[r])
  /\ Charged(r) /\ row[r].status = "pending" => row[r].bill # "none"

LEMMA LogParts ==
  (NotYetCharged /\ LogMatchesEvents) <=> \A r \in Requests : LogPart(r)
  BY DEF NotYetCharged, LogMatchesEvents, LogPart

LEMMA NothingCharged == Total(NoEvent) = 0
  BY DEF Total, NoEvent

\* A commit leaves the row and the event of its request in agreement.
LEMMA CommitLog ==
  ASSUME TypeOK, NEW r \in Requests, LogPart(r), Commit(r)
  PROVE  LogPart(r)'
  <1> DEFINE plan == Plan(r)
  <1>1. /\ pc[r] = "locked" /\ pc'[r] = "logging" /\ cost' = cost
        /\ event[r] = NoEvent /\ row[r].bill = "none"
    BY DEF Commit, Goto, TypeOK, LogPart, BeforeCharge, Settling
  <1>2. /\ plan.subscription \in Nat /\ plan.balance \in Nat
        /\ Total(plan) = plan.subscription + plan.balance
        /\ Total(plan) <= cost[r] /\ cost[r] \in Nat
    BY PlanIsAmount, BillingAssumption
    DEF BillingAssumption, Amount, Total, TypeOK
  <1>3. /\ event'[r].subscription = plan.subscription
        /\ event'[r].balance = plan.balance
    <2>1. CASE Total(plan) = 0
      BY <1>2, <2>1 DEF Commit, EventOf, TypeOK, NoEvent
    <2>2. CASE Total(plan) # 0
      BY <2>2 DEF Commit, EventOf, TypeOK
    <2>3. QED
      BY <2>1, <2>2
  <1>4. CASE row[r].status = "absent"
    BY <1>1, <1>4 DEF Commit, LogPart, BeforeCharge, Settling
  <1>5. CASE row[r].status # "absent"
    <2>1. /\ row'[r].bill = IF Total(plan) < cost[r] THEN "overuse" ELSE "settled"
          /\ row'[r].subscription = plan.subscription
          /\ row'[r].balance = plan.balance
      BY <1>5 DEF Commit, BillStatus, TypeOK, LogRow
    <2>2. Total(event[r])' = Total(plan)
      BY <1>3 DEF Total
    <2>3. (row'[r].bill = "settled") <=> (Total(event[r])' = cost'[r])
      BY <1>1, <1>2, <2>1, <2>2
    <2>4. row'[r].bill # "none"
      BY <2>1
    <2>5. QED
      BY <1>1, <1>3, <2>1, <2>3, <2>4 DEF LogPart, BeforeCharge, Settling
  <1>6. QED
    BY <1>4, <1>5

\* The other steps for a request.
LEMMA ServeLog ==
  ASSUME TypeOK, NEW r \in Requests, LogPart(r), Serve(r)
  PROVE  LogPart(r)'
  <1> USE DEF TypeOK, Goto, LogPart, Charged, BeforeCharge, Settling
  <1>1. CASE CheckQuota(r)
    BY <1>1 DEF CheckQuota
  <1>2. CASE CheckBalance(r)
    BY <1>2 DEF CheckBalance
  <1>3. CASE WritePending(r)
    BY <1>3, NothingCharged DEF WritePending, LogRow
  <1>4. CASE Finish(r)
    BY <1>4, NothingCharged DEF Finish
  <1>5. CASE ReadSnapshot(r)
    BY <1>5 DEF ReadSnapshot
  <1>6. CASE ReadSetting(r) \/ ReadSub(r) \/ ReadUsage(r) \/ ReadBalance(r)
    BY <1>6 DEF ReadSetting, ReadSub, ReadUsage, ReadBalance
  <1>7. CASE BeginWrite(r) \/ Rollback(r)
    BY <1>7 DEF BeginWrite, Rollback
  <1>8. CASE Commit(r)
    BY <1>8, CommitLog
  <1>9. CASE WriteLog(r)
    BY <1>9 DEF WriteLog, LogRow
  <1>10. QED
    BY <1>1, <1>2, <1>3, <1>4, <1>5, <1>6, <1>7, <1>8, <1>9 DEF Serve, Settle

\* A step for another request, of an administrator, of the clock, or a crash.
LEMMA FrameLog ==
  ASSUME NEW r, LogPart(r),
         event'[r] = event[r], row'[r] = row[r], cost'[r] = cost[r],
         pc'[r] = pc[r] \/ pc'[r] = "dead"
  PROVE  LogPart(r)'
  BY DEF LogPart, Charged, BeforeCharge, Settling

LEMMA NextLog ==
  ASSUME TypeOK, [Next]_vars, NEW r \in Requests, LogPart(r)
  PROVE  LogPart(r)'
  <1>1. CASE \E u \in Users : Manage(u)
    BY <1>1, FrameLog DEF Manage, TopUp, SetPriority, ChangeSub, Expire
  <1>2. CASE SetLimits \/ Tick
    BY <1>2, FrameLog DEF SetLimits, Tick
  <1>3. CASE \E q \in Requests : Serve(q)
    <2>1. PICK q \in Requests : Serve(q)
      BY <1>3
    <2>2. CASE q = r
      BY <2>1, <2>2, ServeLog
    <2>3. CASE q # r
      BY <2>1, <2>3, ServeFrame, FrameLog
    <2>4. QED
      BY <2>2, <2>3
  <1>4. CASE Crash
    BY <1>4, FrameLog DEF Crash, TypeOK
  <1>5. CASE UNCHANGED vars
    BY <1>5, FrameLog DEF vars
  <1>6. QED
    BY <1>1, <1>2, <1>3, <1>4, <1>5 DEF Next
-----------------------------------------------------------------------------
(* What a settlement has read. *)

\* A commit of anyone else leaves no snapshot current, and there is no writer.
LEMMA WriteElsewhere ==
  ASSUME Backend = "sqlite", SnapshotCurrent, NoWriter, Invalidate,
         UNCHANGED <<pc, tx>>
  PROVE  SnapshotCurrent'
  BY DEF SnapshotCurrent, NoWriter, Invalidate

LEMMA ServeSnapshot ==
  ASSUME TypeOK, SnapshotCurrent, NEW r \in Requests, Serve(r), Backend = "sqlite"
  PROVE  SnapshotCurrent'
  <1> USE DEF TypeOK, Goto
  <1>1. CASE CheckQuota(r)
    BY <1>1 DEF CheckQuota, SnapshotCurrent
  <1>2. CASE CheckBalance(r)
    BY <1>2 DEF CheckBalance, SnapshotCurrent
  <1>3. CASE WritePending(r)
    <2>1. CASE NoWriter /\ Invalidate
      BY <1>3, <2>1 DEF WritePending, SnapshotCurrent, NoWriter, Invalidate
    <2>2. CASE UNCHANGED stale
      BY <1>3, <2>2 DEF WritePending, SnapshotCurrent
    <2>3. QED
      BY <1>3, <2>1, <2>2 DEF WritePending
  <1>4. CASE Finish(r)
    BY <1>4 DEF Finish, SnapshotCurrent
  <1>5. CASE ReadSnapshot(r)
    BY <1>5 DEF ReadSnapshot, SnapshotCurrent
  <1>6. CASE ReadSetting(r) \/ ReadSub(r) \/ ReadUsage(r) \/ ReadBalance(r)
    BY <1>6 DEF ReadSetting, ReadSub, ReadUsage, ReadBalance, SnapshotCurrent
  <1>7. CASE BeginWrite(r)
    <2>1. tx'[r].balance = tx[r].balance /\ tx'[r].primary = tx[r].primary
      BY <1>7 DEF BeginWrite, TxLocals
    <2>2. QED
      BY <1>7, <2>1, ServeFrame DEF BeginWrite, SnapshotCurrent, NoWriter
  <1>8. CASE Rollback(r)
    BY <1>8 DEF Rollback, SnapshotCurrent
  <1>9. CASE Commit(r)
    BY <1>9, ServeFrame DEF Commit, SnapshotCurrent, Invalidate
  <1>10. CASE WriteLog(r)
    <2>1. CASE NoWriter /\ Invalidate
      BY <1>10, <2>1 DEF WriteLog, SnapshotCurrent, NoWriter, Invalidate
    <2>2. CASE UNCHANGED stale
      BY <1>10, <2>2 DEF WriteLog, SnapshotCurrent
    <2>3. QED
      BY <1>10, <2>1, <2>2 DEF WriteLog
  <1>11. QED
    BY <1>1, <1>2, <1>3, <1>4, <1>5, <1>6, <1>7, <1>8, <1>9, <1>10 DEF Serve, Settle

LEMMA NextSnapshot ==
  ASSUME TypeOK, SnapshotCurrent, [Next]_vars
  PROVE  SnapshotCurrent'
  <1> SUFFICES ASSUME Backend = "sqlite" PROVE SnapshotCurrent'
    BY DEF SnapshotCurrent
  <1>1. CASE \E u \in Users : Manage(u)
    <2>1. PICK u \in Users : Manage(u)
      BY <1>1
    <2>2. CASE TopUp(u)
      BY <2>2, WriteElsewhere DEF TopUp, UserRowFree
    <2>3. CASE SetPriority(u) \/ ChangeSub(u)
      BY <2>3, WriteElsewhere DEF SetPriority, ChangeSub
    <2>4. CASE Expire(u)
      BY <2>4 DEF Expire, SnapshotCurrent
    <2>5. QED
      BY <2>1, <2>2, <2>3, <2>4 DEF Manage
  <1>2. CASE SetLimits
    BY <1>2, WriteElsewhere DEF SetLimits
  <1>3. CASE Tick
    BY <1>3 DEF Tick, SnapshotCurrent
  <1>4. CASE \E r \in Requests : Serve(r)
    BY <1>4, ServeSnapshot
  <1>5. CASE Crash
    BY <1>5 DEF Crash, SnapshotCurrent, TypeOK
  <1>6. CASE UNCHANGED vars
    BY <1>6 DEF vars, SnapshotCurrent
  <1>7. QED
    BY <1>1, <1>2, <1>3, <1>4, <1>5, <1>6 DEF Next
-----------------------------------------------------------------------------
(* The inductive invariant. *)

LEMMA InitInv == Init => IInv
  <1> SUFFICES ASSUME Init PROVE IInv
    OBVIOUS
  <1>1. TypeOK
    BY InitType
  <1>2. \A r \in Requests : LogPart(r)
    BY NothingCharged DEF Init, LogPart, Charged, NoRow, BeforeCharge, Settling
  <1>3. SnapshotCurrent
    BY DEF Init, SnapshotCurrent
  <1>4. QED
    BY <1>1, <1>2, <1>3, LogParts DEF IInv

LEMMA NextInv == IInv /\ [Next]_vars => IInv'
  <1> SUFFICES ASSUME IInv, [Next]_vars PROVE IInv'
    OBVIOUS
  <1>1. TypeOK'
    BY NextType DEF IInv
  <1>2. \A r \in Requests : LogPart(r)'
    BY LogParts, NextLog DEF IInv
  <1>3. NotYetCharged' /\ LogMatchesEvents'
    BY <1>2 DEF NotYetCharged, LogMatchesEvents, LogPart, Charged
  <1>4. SnapshotCurrent'
    BY NextSnapshot DEF IInv
  <1>5. QED
    BY <1>1, <1>3, <1>4 DEF IInv

LEMMA Invariant == Spec => []IInv
  BY InitInv, NextInv, PTL DEF Spec

\* On either database the log row of a request shows the charges of its billing
\* events, and "settled" means that they cover the cost.
THEOREM LogConsistent == Spec => []LogMatchesEvents
  BY Invariant, PTL DEF IInv
-----------------------------------------------------------------------------
(* The debit and the event. *)

\* Only a commit changes an event, and only the event of its own request.
LEMMA EventByCommit ==
  ASSUME TypeOK, [Next]_vars, NEW r \in Requests, event'[r] # event[r]
  PROVE  Commit(r)
  <1>1. \A u \in Users : ~Manage(u)
    BY DEF Manage, TopUp, SetPriority, ChangeSub, Expire
  <1>2. ~SetLimits /\ ~Tick /\ ~Crash /\ ~UNCHANGED vars
    BY DEF SetLimits, Tick, Crash, vars
  <1>3. PICK q \in Requests : Serve(q)
    BY <1>1, <1>2 DEF Next
  <1>4. q = r
    BY <1>3, ServeFrame
  <1>5. QED
    BY <1>3, <1>4
    DEF Serve, Settle, CheckQuota, CheckBalance, WritePending, Finish, ReadSnapshot,
        ReadSetting, ReadSub, ReadUsage, ReadBalance, BeginWrite, Rollback, WriteLog

\* The event that a commit records and the balance it leaves.
LEMMA CommitAmounts ==
  ASSUME TypeOK, NEW r \in Requests, Commit(r)
  PROVE  /\ event'[r].subscription = Plan(r).subscription
         /\ event'[r].balance = Plan(r).balance
         /\ balance'[UserOf[r]] = Debit(balance[UserOf[r]], Plan(r).balance)
         /\ Plan(r).balance \in Nat /\ balance[UserOf[r]] \in Nat
  <1>1. /\ Plan(r).subscription \in Nat /\ Plan(r).balance \in Nat
        /\ Total(Plan(r)) = Plan(r).subscription + Plan(r).balance
    BY PlanIsAmount, BillingAssumption DEF BillingAssumption, Amount, Total
  <1>2. /\ event'[r].subscription = Plan(r).subscription
        /\ event'[r].balance = Plan(r).balance
    <2>1. CASE Total(Plan(r)) = 0
      BY <1>1, <2>1 DEF Commit, EventOf, TypeOK, NoEvent
    <2>2. CASE Total(Plan(r)) # 0
      BY <2>2 DEF Commit, EventOf, TypeOK
    <2>3. QED
      BY <2>1, <2>2
  <1>3. /\ UserOf[r] \in Users
        /\ balance[UserOf[r]] \in Nat
    BY BillingAssumption DEF BillingAssumption, TypeOK, Amount
  <1>4. balance'[UserOf[r]] = Debit(balance[UserOf[r]], Plan(r).balance)
    BY <1>3 DEF Commit, TypeOK
  <1>5. QED
    BY <1>1, <1>2, <1>3, <1>4

\* On either database, whatever is committed between the reads and the writes of a
\* settlement, it takes from the balance no more than the event it records.
THEOREM NoDebitBeyondEvent == Spec => DebitWithinEvent
  <1>1. ASSUME TypeOK, [Next]_vars, NEW r \in Requests, event'[r] # event[r]
        PROVE  balance'[UserOf[r]] >= balance[UserOf[r]] - event'[r].balance
    BY <1>1, EventByCommit, CommitAmounts DEF Debit
  <1>2. TypeOK /\ [Next]_vars =>
          [\A r \in Requests :
             event'[r] # event[r] =>
               balance'[UserOf[r]] >= balance[UserOf[r]] - event'[r].balance]_vars
    BY <1>1
  <1>3. QED
    BY <1>2, TypeCorrect, PTL DEF Spec, DebitWithinEvent

\* On SQLite what a committing settlement has read is what the database holds.
LEMMA CommitReadsCurrent ==
  ASSUME IInv, Backend = "sqlite", NEW r \in Requests, Commit(r)
  PROVE  /\ tx[r].balance = balance[UserOf[r]]
         /\ tx[r].primary = primary[UserOf[r]]
         /\ Plan(r).balance <= balance[UserOf[r]]
  BY PlanIsAmount DEF IInv, SnapshotCurrent, Commit

\* On SQLite a settlement takes from the balance exactly what its event records: the
\* floor of the debit is never reached.
THEOREM DebitExact ==
  ASSUME Backend = "sqlite"
  PROVE  Spec => DebitMatchesEvent
  <1>1. ASSUME IInv, [Next]_vars PROVE DebitStep
    <2> SUFFICES ASSUME NEW r \in Requests, event'[r] # event[r]
                 PROVE  balance'[UserOf[r]] = balance[UserOf[r]] - event'[r].balance
      BY DEF DebitStep
    <2>1. TypeOK
      BY <1>1 DEF IInv
    <2>2. Commit(r)
      BY <1>1, <2>1, EventByCommit
    <2>3. QED
      BY <1>1, <2>1, <2>2, CommitAmounts, CommitReadsCurrent DEF Debit
  <1>2. IInv /\ [Next]_vars => [DebitStep]_vars
    BY <1>1
  <1>3. QED
    BY <1>2, Invariant, PTL DEF Spec, DebitMatchesEvent
-----------------------------------------------------------------------------
(* On SQLite the settlements implement the ledger. *)

\* The ledger's view of a request.
ChargeOf(r) == IF Charged(r) THEN [subscription |-> event[r].subscription,
                                   balance |-> event[r].balance]
               ELSE None

LEMMA LedgerInit == Init => L!Init
  BY NothingCharged DEF Init, L!Init, L!Amount, L!Sources, Amount, Sources, Charged

\* A settlement that charges is one ChargeRequest.
LEMMA CommitCharges ==
  ASSUME IInv, Backend = "sqlite", NEW r \in Requests, Commit(r), Total(Plan(r)) # 0
  PROVE  L!ChargeRequest(r)
  <1> DEFINE u == UserOf[r]
  <1>1. /\ pc[r] = "locked" /\ event[r] = NoEvent /\ cost[r] \in Costs
        /\ tx[r].quota \in Amount
    BY DEF IInv, TypeOK, NotYetCharged, Commit, BeforeCharge, Settling, TxLocals
  <1>2. Plan(r) = Split(cost[r], primary[u], tx[r].quota, balance[u])
    BY CommitReadsCurrent DEF Plan
  <1>3. Plan(r) = [subscription |-> Plan(r).subscription, balance |-> Plan(r).balance]
    BY DEF Plan, Split
  <1>4. /\ event'[r].subscription = Plan(r).subscription
        /\ event'[r].balance = Plan(r).balance
    BY CommitAmounts DEF IInv
  <1>5. ChargeOf(r) = None /\ ChargeOf(r)' = Plan(r)
    <2>1. ~Charged(r)
      BY <1>1, NothingCharged DEF Charged
    <2>2. Total(event[r])' = Total(Plan(r))
      BY <1>4 DEF Total
    <2>3. Charged(r)'
      BY <2>2, PlanIsAmount DEF Charged, IInv
    <2>4. QED
      BY <1>3, <1>4, <2>1, <2>3 DEF ChargeOf
  <1>6. \A q \in Requests : q # r => ChargeOf(q)' = ChargeOf(q)
    BY DEF Commit, IInv, TypeOK, ChargeOf, Charged
  <1>7. [q \in Requests |-> ChargeOf(q)'] =
          [[q \in Requests |-> ChargeOf(q)] EXCEPT ![r] = Plan(r)]
    BY <1>5, <1>6
  <1>8. balance' = [balance EXCEPT ![u] = @ - Plan(r).balance]
    <2>1. Debit(balance[u], Plan(r).balance) = balance[u] - Plan(r).balance
      BY CommitReadsCurrent, CommitAmounts DEF Debit, IInv
    <2>2. QED
      BY <2>1 DEF Commit
  <1>9. primary' = primary
    BY DEF Commit
  <1>10. Plan(r) = L!Split(cost[r], primary[u], tx[r].quota, balance[u])
    BY <1>2 DEF Split, Least, L!Split, L!Least
  <1>11. /\ [q \in Requests |-> ChargeOf(q)][r] = None
         /\ cost[r] \in Costs /\ tx[r].quota \in L!Amount
    BY <1>1, <1>5 DEF Amount, L!Amount
  <1>12. L!ChargeRequest(r)!(cost[r], tx[r].quota)
    BY <1>7, <1>8, <1>9, <1>10, <1>11 DEF ChargeOf
  <1>13. QED
    BY <1>11, <1>12 DEF L!ChargeRequest

\* A settlement that cannot charge anything leaves the ledger as it is.
LEMMA CommitOfNothing ==
  ASSUME IInv, NEW r \in Requests, Commit(r), Total(Plan(r)) = 0
  PROVE  UNCHANGED L!vars
  <1>1. event[r] = NoEvent
    BY DEF IInv, NotYetCharged, Commit, BeforeCharge, Settling
  <1>2. event' = event
    BY <1>1 DEF Commit, EventOf, IInv, TypeOK
  <1>3. balance' = balance
    <2>1. Plan(r).balance = 0 /\ balance[UserOf[r]] \in Nat
      BY PlanIsAmount, CommitAmounts, BillingAssumption
      DEF IInv, Total, Amount, BillingAssumption
    <2>2. Debit(balance[UserOf[r]], Plan(r).balance) = balance[UserOf[r]]
      BY <2>1 DEF Debit
    <2>3. QED
      BY <2>2 DEF Commit, IInv, TypeOK
  <1>4. QED
    BY <1>2, <1>3 DEF Commit, L!vars, Charged

LEMMA LedgerStep ==
  ASSUME IInv, Backend = "sqlite", [Next]_vars
  PROVE  [L!Next]_(L!vars)
  <1>1. CASE \E u \in Users : Manage(u)
    <2>1. PICK u \in Users : Manage(u)
      BY <1>1
    <2>2. CASE TopUp(u)
      BY <2>2 DEF TopUp, L!Next, L!Deposit, Charged
    <2>3. CASE SetPriority(u)
      BY <2>3 DEF SetPriority, L!Next, L!Prefer, L!Sources, Sources, Charged
    <2>4. CASE ChangeSub(u) \/ Expire(u)
      BY <2>4 DEF ChangeSub, Expire, L!vars, Charged
    <2>5. QED
      BY <2>1, <2>2, <2>3, <2>4 DEF Manage
  <1>2. CASE SetLimits \/ Tick \/ Crash \/ UNCHANGED vars
    BY <1>2 DEF SetLimits, Tick, Crash, vars, L!vars, Charged
  <1>3. CASE \E r \in Requests : Serve(r)
    <2>1. PICK r \in Requests : Serve(r)
      BY <1>3
    <2>2. CASE Commit(r) /\ Total(Plan(r)) # 0
      BY <2>2, CommitCharges DEF L!Next
    <2>3. CASE Commit(r) /\ Total(Plan(r)) = 0
      BY <2>3, CommitOfNothing
    <2>4. CASE ~Commit(r)
      BY <2>1, <2>4
      DEF Serve, Settle, CheckQuota, CheckBalance, WritePending, Finish, ReadSnapshot,
          ReadSetting, ReadSub, ReadUsage, ReadBalance, BeginWrite, Rollback, WriteLog,
          L!vars, Charged
    <2>5. QED
      BY <2>2, <2>3, <2>4
  <1>4. QED
    BY <1>1, <1>2, <1>3 DEF Next

\* On SQLite the reads and writes of a settlement, spread over many steps and racing
\* with top-ups and other settlements, are one indivisible charge of the ledger.
THEOREM LedgerImplemented ==
  ASSUME Backend = "sqlite"
  PROVE  Spec => ImplementsLedger
  <1>1. IInv /\ [Next]_vars => [L!Next]_(L!vars)
    BY LedgerStep
  <1>2. QED
    BY <1>1, LedgerInit, Invariant, PTL DEF Spec, ImplementsLedger, L!Spec
-----------------------------------------------------------------------------
(* On SQLite "overuse" means that the balance is used up. *)

\* What Split leaves of a cost is left because both sources are used up.
LEMMA SplitExhausts ==
  ASSUME NEW c \in Nat, NEW first \in Sources, NEW quota \in Nat, NEW funds \in Nat,
         Total(Split(c, first, quota, funds)) < c
  PROVE  Split(c, first, quota, funds).balance = funds
  BY DEF Split, Least, Total, Sources

\* Only a commit sets the billing status of a row.
LEMMA BillByCommit ==
  ASSUME TypeOK, [Next]_vars, NEW r \in Requests, row'[r].bill # row[r].bill
  PROVE  Commit(r)
  <1>1. \A u \in Users : ~Manage(u)
    BY DEF Manage, TopUp, SetPriority, ChangeSub, Expire
  <1>2. ~SetLimits /\ ~Tick /\ ~Crash /\ ~UNCHANGED vars
    BY DEF SetLimits, Tick, Crash, vars
  <1>3. PICK q \in Requests : Serve(q)
    BY <1>1, <1>2 DEF Next
  <1>4. q = r
    BY <1>3, ServeFrame
  <1>5. ~WritePending(r) /\ ~WriteLog(r)
    BY DEF WritePending, WriteLog, TypeOK, LogRow
  <1>6. QED
    BY <1>3, <1>4, <1>5
    DEF Serve, Settle, CheckQuota, CheckBalance, Finish, ReadSnapshot,
        ReadSetting, ReadSub, ReadUsage, ReadBalance, BeginWrite, Rollback

\* On SQLite a request is marked "overuse" only when its settlement leaves no balance,
\* whatever was topped up or settled meanwhile (SettleRequestCost).
THEOREM OveruseBroke ==
  ASSUME Backend = "sqlite"
  PROVE  Spec => OveruseMeansBroke
  <1>1. ASSUME IInv, [Next]_vars, NEW r \in Requests,
               row[r].bill # "overuse", row'[r].bill = "overuse"
        PROVE  balance'[UserOf[r]] = 0
    <2>1. TypeOK /\ Commit(r)
      BY <1>1, BillByCommit DEF IInv
    <2>2. Total(Plan(r)) < cost[r]
      BY <1>1, <2>1 DEF Commit, BillStatus, TypeOK
    <2>3. /\ cost[r] \in Nat /\ tx[r].primary \in Sources
          /\ tx[r].quota \in Nat /\ tx[r].balance \in Nat
      BY <2>1, BillingAssumption DEF BillingAssumption, TypeOK, TxLocals, Amount
    <2>4. Plan(r).balance = tx[r].balance
      BY <2>2, <2>3, SplitExhausts DEF Plan
    <2>5. Plan(r).balance = balance[UserOf[r]]
      BY <1>1, <2>1, <2>4, CommitReadsCurrent
    <2>6. QED
      BY <2>1, <2>5, CommitAmounts DEF Debit
  <1>2. IInv /\ [Next]_vars =>
          [\A r \in Requests :
             row[r].bill # "overuse" /\ row'[r].bill = "overuse" => balance'[UserOf[r]] = 0]_vars
    BY <1>1
  <1>3. QED
    BY <1>2, Invariant, PTL DEF Spec, OveruseMeansBroke
-----------------------------------------------------------------------------
(* What was paid from a subscription is a sum over a set of requests.  It is defined by *)
(* recursion over the subsets; its properties are by induction on their size, which a   *)
(* set of numbers states: the least number that is not in it leads to a contradiction.  *)

Below == {ss \in Nat \X Nat : ss[1] < ss[2]}

\* Induction over the natural numbers, for a set of them.
LEMMA Counting ==
  ASSUME NEW G \in SUBSET Nat, 0 \in G, \A n \in G : n + 1 \in G
  PROVE  G = Nat
  <1>1. IsWellFoundedOn(Below, Nat)
    BY NatLessThanWellFounded DEF OpToRel, Below
  <1> DEFINE Rest == Nat \ G
  <1>2. SUFFICES ASSUME Rest # {} PROVE FALSE
    OBVIOUS
  <1>3. PICK n \in Rest : \A m \in Rest : <<m, n>> \notin Below
    <2> HIDE DEF Rest
    <2>1. Rest \subseteq Nat
      BY DEF Rest
    <2> QED
      BY <1>1, <1>2, <2>1, WFMin
  <1>4. n \in Nat /\ n # 0 /\ n - 1 \in Nat
    OBVIOUS
  <1>5. <<n - 1, n>> \in Below
    BY <1>4 DEF Below
  <1>6. n - 1 \in G
    BY <1>3, <1>4, <1>5
  <1>7. n - 1 + 1 = n
    BY <1>4
  <1> QED
    BY <1>6, <1>7

\* What the requests of S have paid from a subscription, by the events E.
Paid(E, S) == MapThenSumSet(LAMBDA r : E[r].subscription, S)

Term(E, i, s) ==
  IF s = {} THEN 0 ELSE LET x == CHOOSE x \in s : TRUE
                        IN  E[x].subscription + i[s \ {x}]
Recursion(E, S, i) == i = [s \in SUBSET S |-> Term(E, i, s)]
Sums(E, S) == CHOOSE i : Recursion(E, S, i)

\* The sum is the function's value at the whole set.
LEMMA PaidIsSum == ASSUME NEW E, NEW S PROVE Paid(E, S) = Sums(E, S)[S]
  BY DEF Paid, Sums, Recursion, Term, MapThenSumSet, MapThenFoldSet

\* The element that the recursion takes out leaves a smaller subset.
LEMMA OneLess ==
  ASSUME NEW S, IsFiniteSet(S), NEW s \in SUBSET S, s # {}
  PROVE  LET x == CHOOSE x \in s : TRUE
         IN  x \in s /\ s \ {x} \in SUBSET S /\ Cardinality(s \ {x}) = Cardinality(s) - 1
  <1>1. IsFiniteSet(s)
    BY FS_Subset
  <1> QED
    BY <1>1, FS_RemoveElement

\* The recursion has a solution, so that the function that is chosen is one.
LEMMA SumsDefined ==
  ASSUME NEW E, NEW S, IsFiniteSet(S)
  PROVE  Recursion(E, S, Sums(E, S))
  <1> DEFINE Small(n) == {s \in SUBSET S : Cardinality(s) <= n}
             Upto(n) == \E i : i = [s \in Small(n) |-> Term(E, i, s)]
  <1>0. \A s \in SUBSET S : IsFiniteSet(s) /\ Cardinality(s) \in Nat
    BY FS_Subset, FS_CardinalityType
  <1>1. Upto(0)
    <2>1. \A s \in Small(0) : s = {}
      BY <1>0, FS_EmptySet
    <2> DEFINE i == [s \in Small(0) |-> 0]
    <2>2. i = [s \in Small(0) |-> Term(E, i, s)]
      BY <2>1 DEF Term
    <2> QED
      BY <2>2
  <1>2. ASSUME NEW n \in Nat, Upto(n) PROVE Upto(n + 1)
    <2>1. PICK i : i = [s \in Small(n) |-> Term(E, i, s)]
      BY <1>2
    <2> DEFINE j == [s \in Small(n + 1) |-> Term(E, i, s)]
    <2>2. ASSUME NEW s \in Small(n + 1) PROVE Term(E, i, s) = Term(E, j, s)
      <3>1. CASE s = {}
        BY <3>1 DEF Term
      <3>2. CASE s # {}
        <4> DEFINE x == CHOOSE x \in s : TRUE
        <4>1. s \ {x} \in SUBSET S /\ Cardinality(s \ {x}) = Cardinality(s) - 1
          BY <3>2, OneLess
        <4>2. s \ {x} \in Small(n) /\ s \ {x} \in Small(n + 1)
          BY <4>1, <1>0
        <4>3. i[s \ {x}] = Term(E, i, s \ {x}) /\ j[s \ {x}] = Term(E, i, s \ {x})
          BY <2>1, <4>2
        <4> QED
          BY <4>3 DEF Term
      <3> QED
        BY <3>1, <3>2
    <2>3. j = [s \in Small(n + 1) |-> Term(E, j, s)]
      BY <2>2
    <2> QED
      BY <2>3
  <1>3. \A n \in Nat : Upto(n)
    <2> DEFINE G == {n \in Nat : Upto(n)}
    <2> HIDE DEF Upto
    <2>1. 0 \in G /\ \A n \in G : n + 1 \in G
      BY <1>1, <1>2
    <2>2. G = Nat
      BY <2>1, Counting
    <2> QED
      BY <2>2
  <1>4. Small(Cardinality(S)) = SUBSET S
    BY FS_Subset, <1>0
  <1>5. \E i : Recursion(E, S, i)
    <2>1. Upto(Cardinality(S))
      <3> HIDE DEF Upto
      <3> QED
        BY <1>3, FS_CardinalityType
    <2> HIDE DEF Small
    <2> QED
      BY <2>1, <1>4 DEF Recursion
  <1> QED
    BY <1>5 DEF Sums

\* Subsets of a finite set have a size, which is 0 for the empty one only.
LEMMA Parts ==
  ASSUME NEW S, IsFiniteSet(S), NEW s \in SUBSET S
  PROVE  IsFiniteSet(s) /\ Cardinality(s) \in Nat /\ (Cardinality(s) = 0 <=> s = {})
  <1>1. IsFiniteSet(s)
    BY FS_Subset
  <1> QED
    BY <1>1, FS_CardinalityType, FS_EmptySet

\* The recursion, at one subset.
LEMMA Summing ==
  ASSUME NEW E, NEW S, IsFiniteSet(S), NEW s \in SUBSET S
  PROVE  /\ s = {} => Sums(E, S)[s] = 0
         /\ s # {} => LET x == CHOOSE x \in s : TRUE
                      IN  Sums(E, S)[s] = E[x].subscription + Sums(E, S)[s \ {x}]
  <1> DEFINE i == Sums(E, S)
  <1>1. Recursion(E, S, i)
    BY SumsDefined
  <1> HIDE DEF i
  <1>2. i[s] = Term(E, i, s)
    BY <1>1 DEF Recursion
  <1> QED
    BY <1>2 DEF i, Term

\* A sum depends only on what the members of its set paid, not on the set it is part of.
LEMMA SumsAgree ==
  ASSUME NEW D, NEW E, NEW S, NEW T, IsFiniteSet(S), IsFiniteSet(T),
         \A x \in S \cap T : D[x].subscription = E[x].subscription
  PROVE  \A s \in SUBSET (S \cap T) : Sums(D, S)[s] = Sums(E, T)[s]
  <1> DEFINE Same(n) == \A s \in SUBSET (S \cap T) :
                          Cardinality(s) = n => Sums(D, S)[s] = Sums(E, T)[s]
             G == {n \in Nat : Same(n)}
  <1>0. IsFiniteSet(S \cap T)
    BY FS_Intersection
  <1>1. Same(0)
    <2>1. ASSUME NEW s \in SUBSET (S \cap T), Cardinality(s) = 0
          PROVE  Sums(D, S)[s] = Sums(E, T)[s]
      <3>1. s = {}
        BY <2>1, <1>0, Parts
      <3>2. Sums(D, S)[s] = 0
        BY <3>1, Summing
      <3>3. Sums(E, T)[s] = 0
        BY <3>1, Summing
      <3> QED
        BY <3>2, <3>3
    <2> QED
      BY <2>1
  <1>2. ASSUME NEW n \in Nat, Same(n) PROVE Same(n + 1)
    <2>1. ASSUME NEW s \in SUBSET (S \cap T), Cardinality(s) = n + 1
          PROVE  Sums(D, S)[s] = Sums(E, T)[s]
      <3> DEFINE x == CHOOSE x \in s : TRUE
      <3>1. s # {} /\ s \in SUBSET S /\ s \in SUBSET T
        BY <1>0, <2>1, Parts
      <3>2. x \in s /\ Cardinality(s \ {x}) = Cardinality(s) - 1
        BY <3>1, OneLess
      <3>3. x \in s /\ s \ {x} \in SUBSET (S \cap T) /\ Cardinality(s \ {x}) = n
        BY <2>1, <3>2
      <3>4. Sums(D, S)[s \ {x}] = Sums(E, T)[s \ {x}]
        BY <1>2, <3>3
      <3>5. D[x].subscription = E[x].subscription
        BY <3>3
      <3>6. /\ Sums(D, S)[s] = D[x].subscription + Sums(D, S)[s \ {x}]
            /\ Sums(E, T)[s] = E[x].subscription + Sums(E, T)[s \ {x}]
        BY <3>1, Summing
      <3> QED
        BY <3>4, <3>5, <3>6
    <2> QED
      BY <2>1
  <1> HIDE DEF Same
  <1>3. 0 \in G /\ \A n \in G : n + 1 \in G
    BY <1>1, <1>2
  <1>4. \A n \in Nat : Same(n)
    BY <1>3, Counting
  <1> USE DEF Same
  <1>5. \A s \in SUBSET (S \cap T) : Cardinality(s) \in Nat
    BY <1>0, Parts
  <1> QED
    BY <1>4, <1>5

\* A subset's sum is a value of the function of the larger set.
LEMMA PaidWithin ==
  ASSUME NEW E, NEW S, IsFiniteSet(S), NEW s \in SUBSET S
  PROVE  Paid(E, s) = Sums(E, S)[s]
  <1>1. IsFiniteSet(s) /\ s \in SUBSET (s \cap S)
    BY Parts
  <1>2. Sums(E, s)[s] = Sums(E, S)[s]
    BY <1>1, SumsAgree
  <1> QED
    BY <1>2, PaidIsSum

\* The order in which the sum is taken does not matter.
LEMMA SumOfOneMore ==
  ASSUME NEW E, NEW S, IsFiniteSet(S), \A x \in S : E[x].subscription \in Nat
  PROVE  \A s \in SUBSET S :
           /\ Sums(E, S)[s] \in Nat
           /\ \A x \in s : Sums(E, S)[s] = E[x].subscription + Sums(E, S)[s \ {x}]
  <1> DEFINE sum(s) == Sums(E, S)[s]
             Adds(s) == sum(s) \in Nat /\ \A x \in s : sum(s) = E[x].subscription + sum(s \ {x})
             All(n) == \A s \in SUBSET S : Cardinality(s) <= n => Adds(s)
             G == {n \in Nat : All(n)}
  <1>1. All(0)
    <2>1. ASSUME NEW s \in SUBSET S, Cardinality(s) <= 0
          PROVE  Adds(s)
      <3>1. s = {}
        BY <2>1, Parts
      <3>2. sum({}) = 0
        BY Summing
      <3> HIDE DEF sum
      <3> QED
        BY <3>1, <3>2
    <2> QED
      BY <2>1
  <1>2. ASSUME NEW n \in Nat, All(n) PROVE All(n + 1)
    <2>1. ASSUME NEW s \in SUBSET S, Cardinality(s) = n + 1
          PROVE  Adds(s)
      <3> DEFINE y == CHOOSE x \in s : TRUE
      <3>1. s # {} /\ s \ {y} \in SUBSET S
        BY <2>1, Parts
      <3>2. y \in s /\ s \ {y} \in SUBSET S /\ Cardinality(s \ {y}) = n
        BY <2>1, <3>1, OneLess
      <3>3. Adds(s \ {y})
        BY <1>2, <3>2
      <3>4. sum(s) = E[y].subscription + sum(s \ {y})
        BY <3>1, Summing
      <3> HIDE DEF y, sum
      <3>5. ASSUME NEW x \in s, x # y
            PROVE  sum(s) = E[x].subscription + sum(s \ {x})
        <4>1. IsFiniteSet(s) /\ Cardinality(s \ {x}) = n /\ s \ {x} \in SUBSET S
          BY <2>1, Parts, FS_RemoveElement
        <4>2. Adds(s \ {x})
          <5> HIDE DEF Adds
          <5> QED
            BY <1>2, <4>1
        <4> DEFINE t == (s \ {x}) \ {y}
        <4>3. sum(s \ {x}) = E[y].subscription + sum(t)
          BY <3>2, <3>5, <4>2
        <4>4. t = (s \ {y}) \ {x} /\ t \in SUBSET S
          OBVIOUS
        <4>5. sum(s \ {y}) = E[x].subscription + sum(t)
          BY <3>3, <3>5, <4>4
        <4>6. Cardinality(t) <= n
          BY <4>1, FS_Subset
        <4>7. sum(t) \in Nat
          BY <1>2, <4>4, <4>6
        <4> HIDE DEF t
        <4> QED
          BY <3>2, <3>4, <4>3, <4>5, <4>7
      <3>6. sum(s) \in Nat
        BY <3>2, <3>3, <3>4
      <3> QED
        BY <3>2, <3>4, <3>5, <3>6
    <2> HIDE DEF Adds
    <2>2. \A s \in SUBSET S : Cardinality(s) \in Nat
      BY Parts
    <2> QED
      BY <1>2, <2>1, <2>2
  <1> HIDE DEF All
  <1>3. 0 \in G /\ \A n \in G : n + 1 \in G
    BY <1>1, <1>2
  <1>4. \A n \in Nat : All(n)
    BY <1>3, Counting
  <1> USE DEF All
  <1>5. \A s \in SUBSET S : Cardinality(s) \in Nat /\ Cardinality(s) <= Cardinality(s)
    BY Parts
  <1> HIDE DEF Adds
  <1>6. \A s \in SUBSET S : Adds(s)
    BY <1>4, <1>5
  <1> QED
    BY <1>6 DEF Adds

\* Any member of the set can be taken out of the sum.
LEMMA PaidAdds ==
  ASSUME NEW E, NEW S, IsFiniteSet(S), \A x \in S : E[x].subscription \in Nat
  PROVE  /\ Paid(E, S) \in Nat
         /\ \A x \in S : Paid(E, S) = E[x].subscription + Paid(E, S \ {x})
  <1>1. /\ Paid(E, S) = Sums(E, S)[S]
        /\ \A x \in S : Paid(E, S \ {x}) = Sums(E, S)[S \ {x}]
    BY PaidWithin
  <1>2. /\ Sums(E, S)[S] \in Nat
        /\ \A x \in S : Sums(E, S)[S] = E[x].subscription + Sums(E, S)[S \ {x}]
    BY SumOfOneMore
  <1> QED
    BY <1>1, <1>2

\* Events that charge the same have the same sum.
LEMMA PaidSame ==
  ASSUME NEW D, NEW E, NEW S, IsFiniteSet(S),
         \A x \in S : D[x].subscription = E[x].subscription
  PROVE  Paid(D, S) = Paid(E, S)
  BY SumsAgree, PaidIsSum

\* A part of a set has paid no more than the set.
LEMMA PaidLess ==
  ASSUME NEW E, NEW S, IsFiniteSet(S), \A x \in S : E[x].subscription \in Nat,
         NEW T \in SUBSET S
  PROVE  Paid(E, T) <= Paid(E, S)
  <1> DEFINE Less(n) == \A s \in SUBSET S : Cardinality(s) = n =>
                          \A t \in SUBSET s : Paid(E, t) <= Paid(E, s)
             G == {n \in Nat : Less(n)}
  <1>0. \A s \in SUBSET S : /\ Paid(E, s) \in Nat
                            /\ \A x \in s : Paid(E, s) = E[x].subscription + Paid(E, s \ {x})
    BY PaidAdds, FS_Subset
  <1>1. Less(0)
    <2>1. ASSUME NEW s \in SUBSET S, Cardinality(s) = 0, NEW t \in SUBSET s
          PROVE  Paid(E, t) <= Paid(E, s)
      <3>1. t = s
        BY <2>1, Parts
      <3> QED
        BY <1>0, <3>1
    <2> QED
      BY <2>1
  <1>2. ASSUME NEW n \in Nat, Less(n) PROVE Less(n + 1)
    <2>1. ASSUME NEW s \in SUBSET S, Cardinality(s) = n + 1, NEW t \in SUBSET s
          PROVE  Paid(E, t) <= Paid(E, s)
      <3>1. CASE t = s
        BY <1>0, <3>1
      <3>2. CASE t # s
        <4>1. PICK x \in s : x \notin t
          BY <3>2
        <4>2. /\ Cardinality(s \ {x}) = n /\ s \ {x} \in SUBSET S
              /\ t \in SUBSET (s \ {x}) /\ t \in SUBSET S
          <5>1. IsFiniteSet(s) /\ Cardinality(s \ {x}) = Cardinality(s) - 1
            BY Parts, FS_RemoveElement
          <5> QED
            BY <2>1, <4>1, <5>1
        <4>3. Paid(E, t) <= Paid(E, s \ {x})
          BY <1>2, <4>2
        <4>4. /\ Paid(E, s) = E[x].subscription + Paid(E, s \ {x})
              /\ E[x].subscription \in Nat /\ Paid(E, s \ {x}) \in Nat /\ Paid(E, t) \in Nat
          BY <1>0, <4>2
        <4> QED
          BY <4>3, <4>4
      <3> QED
        BY <3>1, <3>2
    <2> QED
      BY <2>1
  <1> HIDE DEF Less
  <1>3. 0 \in G /\ \A n \in G : n + 1 \in G
    BY <1>1, <1>2
  <1>4. \A n \in Nat : Less(n)
    <2>1. G \in SUBSET Nat
      OBVIOUS
    <2>2. G = Nat
      BY <1>3, <2>1, Counting
    <2> QED
      BY <2>2
  <1> USE DEF Less
  <1>5. Cardinality(S) \in Nat /\ S \in SUBSET S
    BY Parts
  <1> QED
    BY <1>4, <1>5
-----------------------------------------------------------------------------
(* On SQLite no window is overdrawn. *)

\* Nothing has happened after now, and there are finitely many events.
Past == \A r \in Requests : event[r].at <= now /\ tx[r].at <= now
FiniteEvents == IsFiniteSet({r \in Requests : event[r] # NoEvent})

\* The quota that a settlement has read is what the limits left at some time t, and
\* neither have the events been changed since, nor the limits.
ReadAt(r, t) ==
  /\ t <= now
  /\ tx[r].quota \in Quota(tx[r].sub, t)
  /\ \A q \in Requests : event[q].at <= t
  /\ pc[r] = "locked" => t <= tx[r].at
QuotaCurrent ==
  Backend = "sqlite" =>
    \A r \in Requests : pc[r] \in {"planned", "locked"} /\ r \notin stale =>
      \E t \in Time : ReadAt(r, t)

QuotaInv == Past /\ FiniteEvents /\ QuotaCurrent

\* At first nobody has read anything.
LEMMA QuotaInit == Init => QuotaInv
  <1> SUFFICES ASSUME Init PROVE QuotaInv
    OBVIOUS
  <1>1. {r \in Requests : event[r] # NoEvent} = {}
    BY DEF Init
  <1>2. FiniteEvents
    BY <1>1, FS_EmptySet DEF FiniteEvents
  <1>3. Past /\ QuotaCurrent
    BY DEF Init, Past, QuotaCurrent, NoEvent, NoTx
  <1> QED
    BY <1>2, <1>3 DEF QuotaInv

\* The quota depends on the events and the limits only.
LEMMA QuotaSame ==
  ASSUME event' = event, limits' = limits
  PROVE  \A s, t : Quota(s, t)' = Quota(s, t)
  BY DEF Quota

\* A commit of anyone else leaves no snapshot current, and there is no writer.
LEMMA NoneCurrent ==
  ASSUME Backend = "sqlite", NoWriter, Invalidate,
         \A r \in Requests : pc'[r] \in {"planned", "locked"} => pc'[r] = pc[r]
  PROVE  QuotaCurrent'
  BY DEF QuotaCurrent, NoWriter, Invalidate

\* A step that changes neither events nor limits nor what a settlement that goes on has read.
LEMMA StillCurrent ==
  ASSUME TypeOK, Backend = "sqlite", QuotaCurrent, event' = event, limits' = limits,
         now' \in Nat, now <= now',
         \A r \in Requests : pc'[r] \in {"planned", "locked"} /\ r \notin stale' =>
                               pc'[r] = pc[r] /\ r \notin stale /\ tx'[r] = tx[r]
  PROVE  QuotaCurrent'
  <1>1. ASSUME NEW r \in Requests, pc'[r] \in {"planned", "locked"}, r \notin stale'
        PROVE  \E t \in Time : ReadAt(r, t)'
    <2>1. pc'[r] = pc[r] /\ r \notin stale /\ tx'[r] = tx[r]
      BY <1>1
    <2>2. PICK t \in Time : ReadAt(r, t)
      BY <1>1, <2>1 DEF QuotaCurrent
    <2>3. Quota(tx[r].sub, t)' = Quota(tx[r].sub, t)
      BY <2>1, QuotaSame
    <2>4. t <= now'
      BY <2>2, BillingAssumption DEF ReadAt, TypeOK, Time, BillingAssumption
    <2> QED
      BY <2>1, <2>2, <2>3, <2>4 DEF ReadAt
  <1> QED
    BY <1>1 DEF QuotaCurrent

\* Every time that is recorded was the clock's.
LEMMA PastStays ==
  ASSUME TypeOK, Past, [Next]_vars
  PROVE  Past'
  <1> USE BillingAssumption DEF BillingAssumption, TypeOK, Time, Goto
  <1>0. now \in Nat /\ now' \in Nat /\ now <= now'
    <2>1. CASE Tick
      BY <2>1 DEF Tick
    <2>2. CASE \E u \in Users : Manage(u)
      BY <2>2 DEF Manage, TopUp, SetPriority, ChangeSub, Expire
    <2>3. CASE SetLimits \/ Crash \/ UNCHANGED vars
      BY <2>3 DEF SetLimits, Crash, vars
    <2>4. CASE \E r \in Requests : Serve(r)
      BY <2>4 DEF Serve, Settle, CheckQuota, CheckBalance, WritePending, Finish, ReadSnapshot,
           ReadSetting, ReadSub, ReadUsage, ReadBalance, BeginWrite, Commit, Rollback, WriteLog
    <2> QED
      BY <2>1, <2>2, <2>3, <2>4 DEF Next
  <1>1. ASSUME NEW q \in Requests PROVE event'[q].at <= now'
    <2>1. CASE event'[q] = event[q]
      <3>1. event[q].at <= now /\ event[q].at \in Nat
        BY DEF Past, Event
      <3> QED
        BY <1>0, <2>1, <3>1
    <2>2. CASE event'[q] # event[q]
      <3>1. Commit(q)
        BY <2>2, EventByCommit
      <3>2. event'[q] = EventOf(q) /\ now' = now
        BY <3>1 DEF Commit
      <3>3. event'[q].at = 0 \/ event'[q].at = tx[q].at
        BY <3>2 DEF EventOf, NoEvent
      <3> QED
        BY <1>0, <3>2, <3>3 DEF Past
    <2> QED
      BY <2>1, <2>2
  <1>2. ASSUME NEW q \in Requests PROVE tx'[q].at <= now'
    <2>1. tx[q].at <= now /\ tx[q].at \in Nat
      BY DEF Past, TxLocals
    <2>2. tx'[q].at \in {0, tx[q].at, now}
      <3>1. CASE tx'[q] = tx[q]
        BY <3>1
      <3>2. CASE tx'[q] # tx[q]
        <4>1. Crash \/ \E r \in Requests : Serve(r)
          BY <3>2 DEF Next, Manage, TopUp, SetPriority, ChangeSub, Expire, SetLimits, Tick, vars
        <4>2. CASE Crash
          BY <4>2 DEF Crash, NoTx
        <4>3. CASE \E r \in Requests : Serve(r)
          <5>1. Serve(q)
            BY <3>2, <4>3, ServeFrame
          <5>2. CASE ReadSnapshot(q)
            BY <5>2 DEF ReadSnapshot
          <5>3. CASE ReadSetting(q) \/ ReadSub(q) \/ ReadUsage(q) \/ ReadBalance(q)
            BY <5>3 DEF ReadSetting, ReadSub, ReadUsage, ReadBalance, TxLocals
          <5>4. CASE BeginWrite(q)
            BY <5>4 DEF BeginWrite
          <5>5. CASE Commit(q) \/ Rollback(q)
            BY <5>5 DEF Commit, Rollback, NoTx
          <5> QED
            BY <3>2, <5>1, <5>2, <5>3, <5>4, <5>5
               DEF Serve, Settle, CheckQuota, CheckBalance, WritePending, Finish, WriteLog
        <4> QED
          BY <4>1, <4>2, <4>3
      <3> QED
        BY <3>1, <3>2
    <2> QED
      BY <1>0, <2>1, <2>2
  <1> QED
    BY <1>1, <1>2 DEF Past

\* A step records at most one event.
LEMMA FiniteStays ==
  ASSUME TypeOK, FiniteEvents, [Next]_vars
  PROVE  FiniteEvents'
  <1> DEFINE S == {r \in Requests : event[r] # NoEvent}
             T == {r \in Requests : event'[r] # NoEvent}
  <1>1. CASE event' = event
    BY <1>1 DEF FiniteEvents
  <1>2. CASE event' # event
    <2>1. PICK r \in Requests : event'[r] # event[r]
      <3>1. event' \in [Requests -> Event] /\ event \in [Requests -> Event]
        BY NextType DEF TypeOK
      <3> QED
        BY <1>2, <3>1
    <2>2. Commit(r)
      BY <2>1, EventByCommit
    <2>3. T \subseteq S \cup {r}
      BY <2>2 DEF Commit, TypeOK
    <2>4. IsFiniteSet(S \cup {r})
      BY FS_AddElement DEF FiniteEvents
    <2>5. IsFiniteSet(T)
      BY <2>3, <2>4, FS_Subset
    <2> QED
      BY <2>5 DEF FiniteEvents
  <1> QED
    BY <1>1, <1>2

\* A step of a request leaves what the others have read as it was, or marks them stale.
LEMMA ServeCurrent ==
  ASSUME TypeOK, SnapshotCurrent, Past, QuotaCurrent, Backend = "sqlite",
         NEW r \in Requests, Serve(r)
  PROVE  QuotaCurrent'
  <1> USE BillingAssumption DEF BillingAssumption, TypeOK, Time, Goto
  <1>0. now \in Nat /\ now \in Time /\ now <= now
    OBVIOUS
  <1>1. CASE CheckQuota(r) \/ CheckBalance(r) \/ Finish(r)
    BY <1>0, <1>1, StillCurrent DEF CheckQuota, CheckBalance, Finish
  <1>2. CASE WritePending(r)
    <2>1. CASE NoWriter /\ Invalidate
      BY <1>2, <2>1, NoneCurrent DEF WritePending
    <2>2. CASE UNCHANGED stale
      BY <1>0, <1>2, <2>2, StillCurrent DEF WritePending
    <2> QED
      BY <1>2, <2>1, <2>2 DEF WritePending
  <1>3. CASE ReadSnapshot(r)
    <2>1. \A q \in Requests : event[q].at <= now
      BY DEF Past
    <2>2. UNCHANGED <<event, limits, now, stale>> /\ \A s, t : Quota(s, t)' = Quota(s, t)
      BY <1>3, QuotaSame DEF ReadSnapshot
    <2>3. \E t \in Time : ReadAt(r, t)'
      <3>1. PICK t \in Time : t = now
        BY <1>0
      <3>2. ReadAt(r, t)'
        BY <1>0, <1>3, <2>1, <2>2, <3>1 DEF ReadSnapshot, ReadAt
      <3> QED
        BY <3>2
    <2>4. ASSUME NEW q \in Requests, q # r, pc'[q] \in {"planned", "locked"}, q \notin stale'
          PROVE  \E t \in Time : ReadAt(q, t)'
      <3>1. pc'[q] = pc[q] /\ tx'[q] = tx[q] /\ q \notin stale
        BY <1>3, <2>4 DEF ReadSnapshot
      <3>2. PICK t \in Time : ReadAt(q, t)
        BY <2>4, <3>1 DEF QuotaCurrent
      <3> QED
        BY <2>2, <3>1, <3>2 DEF ReadAt
    <2> QED
      BY <2>3, <2>4 DEF QuotaCurrent
  <1>4. CASE BeginWrite(r)
    <2>1. /\ pc[r] = "planned" /\ r \notin stale /\ pc'[r] = "locked"
          /\ UNCHANGED <<event, limits, now, stale>> /\ \A s, t : Quota(s, t)' = Quota(s, t)
          /\ tx'[r].at = now /\ tx'[r].quota = tx[r].quota /\ tx'[r].sub = tx[r].sub
      BY <1>4, QuotaSame DEF BeginWrite, TxLocals
    <2>2. PICK t \in Time : ReadAt(r, t)
      BY <2>1 DEF QuotaCurrent
    <2>3. ReadAt(r, t)'
      BY <2>1, <2>2 DEF ReadAt
    <2>4. ASSUME NEW q \in Requests, q # r, pc'[q] \in {"planned", "locked"}, q \notin stale'
          PROVE  \E u \in Time : ReadAt(q, u)'
      <3>1. pc'[q] = pc[q] /\ tx'[q] = tx[q] /\ q \notin stale
        BY <1>4, <2>4 DEF BeginWrite
      <3>2. PICK u \in Time : ReadAt(q, u)
        BY <2>4, <3>1 DEF QuotaCurrent
      <3> QED
        BY <2>1, <3>1, <3>2 DEF ReadAt
    <2> QED
      BY <2>3, <2>4 DEF QuotaCurrent
  <1>5. CASE ReadSetting(r) \/ ReadSub(r) \/ ReadUsage(r) \/ ReadBalance(r)
    BY <1>5 DEF ReadSetting, ReadSub, ReadUsage, ReadBalance, SnapshotCurrent
  <1>6. CASE Rollback(r)
    BY <1>0, <1>6, StillCurrent DEF Rollback
  <1>7. CASE Commit(r)
    <2>1. \A q \in Requests : q # r => pc[q] # "locked"
      BY <1>7 DEF Commit, SnapshotCurrent
    <2>2. \A q \in Requests : pc'[q] \in {"planned", "locked"} => q \in stale'
      BY <1>7, <2>1 DEF Commit, Invalidate
    <2> QED
      BY <2>2 DEF QuotaCurrent
  <1>8. CASE WriteLog(r)
    <2>1. CASE NoWriter /\ Invalidate
      BY <1>8, <2>1, NoneCurrent DEF WriteLog
    <2>2. CASE UNCHANGED stale
      BY <1>0, <1>8, <2>2, StillCurrent DEF WriteLog
    <2> QED
      BY <1>8, <2>1, <2>2 DEF WriteLog
  <1> QED
    BY <1>1, <1>2, <1>3, <1>4, <1>5, <1>6, <1>7, <1>8 DEF Serve, Settle

\* So do the steps of everybody else.
LEMMA CurrentStays ==
  ASSUME TypeOK, SnapshotCurrent, Past, QuotaCurrent, [Next]_vars
  PROVE  QuotaCurrent'
  <1> SUFFICES ASSUME Backend = "sqlite" PROVE QuotaCurrent'
    BY DEF QuotaCurrent
  <1>0. now \in Nat /\ now <= now /\ now + 1 \in Nat /\ now <= now + 1
    BY BillingAssumption DEF BillingAssumption, TypeOK, Time
  <1>1. CASE \E u \in Users : Manage(u)
    <2>1. PICK u \in Users : Manage(u)
      BY <1>1
    <2>2. CASE TopUp(u)
      BY <2>2, NoneCurrent DEF TopUp, UserRowFree
    <2>3. CASE SetPriority(u) \/ ChangeSub(u)
      BY <2>3, NoneCurrent DEF SetPriority, ChangeSub
    <2>4. CASE Expire(u)
      BY <1>0, <2>4, StillCurrent DEF Expire
    <2> QED
      BY <2>1, <2>2, <2>3, <2>4 DEF Manage
  <1>2. CASE SetLimits
    BY <1>2, NoneCurrent DEF SetLimits
  <1>3. CASE Tick
    BY <1>0, <1>3, StillCurrent DEF Tick
  <1>4. CASE \E r \in Requests : Serve(r)
    BY <1>4, ServeCurrent
  <1>5. CASE Crash
    BY <1>5 DEF Crash, QuotaCurrent, TypeOK
  <1>6. CASE UNCHANGED vars
    BY <1>0, <1>6, StillCurrent DEF vars
  <1> QED
    BY <1>1, <1>2, <1>3, <1>4, <1>5, <1>6 DEF Next

\* The two invariants together are inductive.
LEMMA QuotaInvariant == Spec => [](IInv /\ QuotaInv)
  <1>1. IInv /\ QuotaInv /\ [Next]_vars => QuotaInv'
    BY PastStays, FiniteStays, CurrentStays DEF IInv, QuotaInv
  <1> QED
    BY Invariant, QuotaInit, <1>1, PTL DEF Spec

\* A window at a later time has none of the earlier events that it had not before.
LEMMA WindowsMoveOn ==
  ASSUME NEW l \in Limit, NEW at \in Nat, NEW t \in Nat, NEW u \in Nat, at <= t, t <= u,
         InWindow(l, at, u)
  PROVE  InWindow(l, at, t)
  <1>1. l.len \in Nat /\ l.len > 0
    BY DEF Limit
  <1>2. at \div l.len <= t \div l.len /\ t \div l.len <= u \div l.len
    BY <1>1
  <1>3. at \div l.len \in Int /\ t \div l.len \in Int /\ u \div l.len \in Int
    BY <1>1
  <1>4. CASE l.mode = "fixed"
    BY <1>2, <1>3, <1>4 DEF InWindow
  <1>5. CASE l.mode = "sliding"
    BY <1>1, <1>5 DEF InWindow
  <1>6. CASE l.mode = "total"
    BY <1>6 DEF InWindow
  <1> QED
    BY <1>4, <1>5, <1>6 DEF Limit

\* A charge is in the window of its own time.
LEMMA WindowHolds ==
  ASSUME NEW l \in Limit, NEW t \in Nat
  PROVE  InWindow(l, t, t)
  <1>1. l.len \in Nat /\ l.len > 0 /\ l.mode \in {"fixed", "sliding", "total"}
    BY DEF Limit
  <1>2. t > t - l.len /\ t <= t
    BY <1>1
  <1> QED
    BY <1>1, <1>2 DEF InWindow

\* The requests whose charges are in the window of l at t.
Counted(E, s, l, t) == {q \in Requests : E[q].sub = s /\ InWindow(l, E[q].at, t)}

\* What a window has used is what its events have paid.
LEMMA UsagePaid ==
  ASSUME NEW E, NEW s, NEW l, NEW t
  PROVE  Usage(E, s, l, t) = Paid(E, Counted(E, s, l, t))
  BY DEF Usage, Paid, Counted

\* The charges of the window at the commit were all in the window when the quota was read.
LEMMA CommitWithinLimit ==
  ASSUME IInv, QuotaInv, Backend = "sqlite", NEW r \in Requests, Commit(r),
         event'[r].subscription > 0, NEW l \in limits
  PROVE  Usage(event', event'[r].sub, l, event'[r].at) <= l.micros
  <1> DEFINE s == tx[r].sub
             u == tx[r].at
             used(t) == Usage(event, s, l, t)
  <1>1. /\ TypeOK /\ l \in Limit /\ l.micros \in Nat /\ MaxMicros \in Nat /\ MaxTime \in Nat
        /\ \A q \in Requests : event[q].subscription \in Nat /\ event[q].at \in Nat
        /\ tx[r].quota \in Nat /\ u \in Nat
    BY BillingAssumption DEF IInv, TypeOK, BillingAssumption, Limit, Amount, Time, Event, TxLocals
  <1>2. PICK t \in Time : ReadAt(r, t)
    BY DEF IInv, SnapshotCurrent, QuotaInv, QuotaCurrent, Commit
  <1>3. t \in Nat /\ t <= u /\ \A q \in Requests : event[q].at <= t
    BY <1>1, <1>2 DEF ReadAt, Commit, Time
  <1>4. /\ event[r] = NoEvent
        /\ event' = [event EXCEPT ![r] = EventOf(r)]
    BY DEF IInv, NotYetCharged, Commit, BeforeCharge, Settling
  <1>5. /\ event'[r].subscription = Plan(r).subscription
        /\ Plan(r).subscription \in Nat /\ Plan(r).subscription <= tx[r].quota
        /\ event'[r].sub = s /\ event'[r].at = u
        /\ \A q \in Requests : q # r => event'[q] = event[q]
    <2>1. event'[r].subscription = Plan(r).subscription
      BY <1>1, CommitAmounts
    <2>2. Plan(r).subscription \in Nat /\ Plan(r).subscription <= tx[r].quota
      BY <1>1, SplitWithin, BillingAssumption
         DEF Plan, BillingAssumption, TypeOK, TxLocals, Amount
    <2>3. event'[r] = EventOf(r) /\ EventOf(r) # NoEvent
      BY <1>1, <1>4 DEF TypeOK, NoEvent
    <2> QED
      BY <1>1, <1>4, <2>1, <2>2, <2>3 DEF EventOf, TypeOK
  <1>6. s # None /\ tx[r].quota <= Left(event, s, l, t) /\ tx[r].quota > 0
    BY <1>1, <1>2, <1>5 DEF ReadAt, Quota
  <1> DEFINE before == Counted(event, s, l, t)
             others == Counted(event, s, l, u)
             after == Counted(event', s, l, u)
  <1>7. IsFiniteSet(before)
    <2>1. before \subseteq {q \in Requests : event[q] # NoEvent}
      BY <1>6 DEF Counted, NoEvent
    <2> QED
      BY <2>1, FS_Subset DEF QuotaInv, FiniteEvents
  <1>8. others \subseteq before
    BY <1>1, <1>3, WindowsMoveOn DEF Counted
  <1>9. r \notin others /\ after = others \cup {r}
    <2>1. r \notin others
      BY <1>4, <1>6 DEF Counted, NoEvent
    <2>2. r \in after
      BY <1>1, <1>5, WindowHolds DEF Counted
    <2>3. \A q \in Requests : q # r => (q \in after <=> q \in others)
      BY <1>5 DEF Counted
    <2> QED
      BY <2>1, <2>2, <2>3 DEF Counted
  <1>10. IsFiniteSet(others) /\ IsFiniteSet(after)
    BY <1>7, <1>8, <1>9, FS_Subset, FS_AddElement
  <1>11. /\ Paid(event', after) = event'[r].subscription + Paid(event', after \ {r})
         /\ after \ {r} = others
    <2>1. \A q \in after : event'[q].subscription \in Nat
      BY <1>1, <1>5 DEF Counted
    <2> QED
      BY <1>9, <1>10, <2>1, PaidAdds
  <1>12. Paid(event', others) = Paid(event, others)
    BY <1>5, <1>9, <1>10, PaidSame DEF Counted
  <1>13. Paid(event, others) <= Paid(event, before) /\ Paid(event, before) \in Nat
         /\ Paid(event, others) \in Nat
    <2>1. /\ \A q \in before : event[q].subscription \in Nat
          /\ \A q \in others : event[q].subscription \in Nat
      BY <1>1 DEF Counted
    <2> QED
      BY <1>7, <1>8, <1>10, <2>1, PaidLess, PaidAdds
  <1>14. used(t) = Paid(event, before) /\ Usage(event', s, l, u) = Paid(event', after)
    BY UsagePaid
  <1>15. Left(event, s, l, t) = IF used(t) >= l.micros THEN 0 ELSE l.micros - used(t)
    BY DEF Left
  <1> HIDE DEF s, u, used, before, others, after
  <1>16. Usage(event', s, l, u) = Plan(r).subscription + Paid(event, others)
    BY <1>5, <1>11, <1>12, <1>14
  <1>17. Plan(r).subscription <= l.micros - Paid(event, before)
    BY <1>1, <1>5, <1>6, <1>13, <1>14, <1>15
  <1>18. Usage(event', s, l, u) <= l.micros
    BY <1>1, <1>5, <1>13, <1>16, <1>17
  <1> QED
    BY <1>5, <1>18

\* On SQLite no charge takes a window beyond its limit, for any number of settlements that
\* overlap, plans that change and windows that turn meanwhile (calcSubscriptionRemainingTx).
THEOREM QuotaKept ==
  ASSUME Backend = "sqlite"
  PROVE  Spec => QuotaRespected
  <1>1. ASSUME IInv, QuotaInv, [Next]_vars, NEW r \in Requests,
               event'[r] # event[r], event'[r].subscription > 0, NEW l \in limits
        PROVE  Usage(event', event'[r].sub, l, event'[r].at) <= l.micros
    <2>1. Commit(r)
      BY <1>1, EventByCommit DEF IInv
    <2> QED
      BY <1>1, <2>1, CommitWithinLimit
  <1>2. IInv /\ QuotaInv /\ [Next]_vars =>
          [\A r \in Requests :
             event'[r] # event[r] /\ event'[r].subscription > 0 =>
               \A l \in limits : Usage(event', event'[r].sub, l, event'[r].at) <= l.micros]_vars
    BY <1>1
  <1> QED
    BY <1>2, QuotaInvariant, PTL DEF Spec, QuotaRespected
=============================================================================
