------------------------------ MODULE Billing -------------------------------
(***************************************************************************)
(* The billing of proxied requests: admission (BillingCheckMiddleware and  *)
(* CanStartRequest), the settlement of a finished request in a database    *)
(* transaction (SettleRequestCost), its row in request_logs, and what      *)
(* administrators and users change meanwhile: top-ups, the primary source, *)
(* subscriptions and plan limits.                                          *)
(*                                                                         *)
(* The transaction is modelled at the granularity of the isolation the     *)
(* database gives it.  SQLite (WAL, deferred BEGIN): the reads are one     *)
(* snapshot, and the first write fails when another connection has         *)
(* committed since or holds the write lock.  PostgreSQL (READ COMMITTED):  *)
(* every read sees the latest commit, and an UPDATE waits for the row.     *)
(***************************************************************************)
EXTENDS Charge, FiniteSetsExt

CONSTANTS
  Users, Requests, UserOf, None,
  Subs,             \* subscription instances an administrator may assign
  Backend,          \* "sqlite" or "postgres"
  Costs,            \* cost of a response; 0: nothing to settle
  TopUps,           \* amounts an administrator may add
  LimitSets,        \* the sets of limits the plan may be given
  MaxMicros,        \* bound on every amount
  MaxTime           \* bound on the clock

Amount == 0 .. MaxMicros
Time == 0 .. MaxTime

\* A plan limit.  A "fixed" window is the period of length len that contains
\* the instant, a "sliding" one the len units before it, and a "total" limit
\* counts since the start of the subscription.
Limit == [mode : {"fixed", "sliding", "total"}, len : Nat \ {0}, micros : Amount]

ASSUME BillingAssumption ==
  /\ UserOf \in [Requests -> Users]
  /\ None \notin Subs
  /\ Backend \in {"sqlite", "postgres"}
  /\ MaxMicros \in Nat /\ MaxTime \in Nat
  /\ Costs \subseteq Amount
  /\ TopUps \subseteq Amount
  /\ \A L \in LimitSets : L \subseteq Limit

VARIABLES
  balance,          \* users.balance_micros
  primary,          \* user_billing_settings.primary_source
  active,           \* the subscription queryActiveSubscription finds, or None
  limits,           \* subscription_plan_limits of the plan
  event,            \* billing_events of each request, keyed by its unique index
  row,              \* request_logs: status and charges of each request
  pc,               \* where the goroutine serving each request is
  cost,             \* the cost computed when the response ended
  tx,               \* what the settlement of each request has read
  stale,            \* open SQLite snapshots some later commit has invalidated
  now

vars == <<balance, primary, active, limits, event, row, pc, cost, tx, stale, now>>

Steps == {"new", "checkBalance", "admitted", "running", "settling", "readSetting",
          "readSub", "readUsage", "planned", "locked", "logging", "done",
          "refused", "dead"}

\* The rows of billing_events and request_logs, and the locals of SettleRequestCost.
Event == [subscription : Amount, balance : Amount, sub : Subs \cup {None}, at : Time]
LogRow == [status : {"absent", "pending", "final"},
           bill : {"none", "settled", "overuse"},
           subscription : Amount, balance : Amount]
TxLocals == [primary : Sources, sub : Subs \cup {None}, quota : Amount,
             balance : Amount, at : Time]

NoEvent == [subscription |-> 0, balance |-> 0, sub |-> None, at |-> 0]
NoRow == [status |-> "absent", bill |-> "none", subscription |-> 0, balance |-> 0]
NoTx == [primary |-> "subscription", sub |-> None, quota |-> 0, balance |-> 0, at |-> 0]

Charged(r) == Total(event[r]) > 0
-----------------------------------------------------------------------------
(* Subscription quota: GetWindowBounds and calcSubscriptionRemainingTx. *)

\* A unit of time stands for many instants: the events of the present unit are in the
\* past, which is where a sliding window ends.
InWindow(l, at, t) ==
  CASE l.mode = "fixed"   -> at \div l.len = t \div l.len
    [] l.mode = "sliding" -> at > t - l.len /\ at <= t
    [] l.mode = "total"   -> TRUE

\* The sum of the charge events of subscription s in the window of l at t.
Usage(E, s, l, t) ==
  MapThenSumSet(LAMBDA r : E[r].subscription,
                {r \in Requests : E[r].sub = s /\ InWindow(l, E[r].at, t)})

Left(E, s, l, t) ==
  LET used == Usage(E, s, l, t) IN IF used >= l.micros THEN 0 ELSE l.micros - used

\* Mutant: any limit that leaves something will do.
QuotaOfGreatest(s, t) ==
  IF s = None \/ limits = {} THEN {0}
  ELSE {q \in Amount : /\ \E l \in limits : q = Left(event, s, l, t)
                       /\ \A l \in limits : q >= Left(event, s, l, t)}

\* The quota of s is the least of what its limits leave; a plan without limits
\* gives none.  A singleton, as a set so that its element is an Amount.
Quota(s, t) ==
  IF s = None \/ limits = {} THEN {0}
  ELSE {q \in Amount : /\ \E l \in limits : q = Left(event, s, l, t)
                       /\ \A l \in limits : q <= Left(event, s, l, t)}
-----------------------------------------------------------------------------
(* What the database lets a transaction do. *)

Goto(r, step) == pc' = [pc EXCEPT ![r] = step]

\* Mutant: the loop stops after the primary source.
PlanPrimaryOnly(r) ==
  IF tx[r].primary = "subscription"
  THEN [subscription |-> Least(cost[r], tx[r].quota), balance |-> 0]
  ELSE [subscription |-> 0, balance |-> Least(cost[r], tx[r].balance)]

\* The amounts SettleRequestCost has decided on from what it has read.
Plan(r) == Split(cost[r], tx[r].primary, tx[r].quota, tx[r].balance)

\* Mutant: the balance event is not inserted.
EventOfQuotaOnly(r) ==
  LET plan == Plan(r)
  IN  IF plan.subscription = 0 THEN NoEvent
      ELSE [subscription |-> plan.subscription, balance |-> 0, sub |-> tx[r].sub,
            at |-> tx[r].at]

\* The events inserted: one per source that is charged.
EventOf(r) ==
  LET plan == Plan(r)
  IN  IF Total(plan) = 0 THEN NoEvent
      ELSE [subscription |-> plan.subscription, balance |-> plan.balance,
            sub |-> IF plan.subscription > 0 THEN tx[r].sub ELSE None, at |-> tx[r].at]

\* Mutant: overuse is what the primary source does not cover.
BillStatusOfPrimary(r) ==
  IF Plan(r)[tx[r].primary] < cost[r] THEN "overuse" ELSE "settled"

\* billing_status of the log row.
BillStatus(r) == IF Total(Plan(r)) < cost[r] THEN "overuse" ELSE "settled"

\* Mutant: without the floor.
DebitUnfloored(funds, charge) == funds - charge

\* The UPDATE of users: balance_micros - ?, floored at 0.
Debit(funds, charge) == IF funds >= charge THEN funds - charge ELSE 0

\* The settlement of r has written, and holds what it has written until it ends.
HoldsUser(r) == pc[r] = "locked" /\ Plan(r).balance > 0
NoWriter == Backend = "sqlite" => \A r \in Requests : pc[r] # "locked"
UserRowFree(u) ==
  /\ NoWriter
  /\ Backend = "postgres" => \A r \in Requests : UserOf[r] = u => ~HoldsUser(r)

\* Mutant: the database lets a snapshot write that others have overtaken.
InvalidateNothing == stale' = {}

\* A commit: every snapshot still open for reading is of an older database.
Invalidate == stale' = IF Backend = "sqlite" THEN {r \in Requests : pc[r] = "planned"}
                                             ELSE {}
-----------------------------------------------------------------------------
Init ==
  /\ balance \in [Users -> Amount]
  /\ primary = [u \in Users |-> "subscription"]
  /\ active = [u \in Users |-> None]
  /\ limits \in LimitSets
  /\ event = [r \in Requests |-> NoEvent]
  /\ row = [r \in Requests |-> NoRow]
  /\ pc = [r \in Requests |-> "new"]
  /\ cost = [r \in Requests |-> 0]
  /\ tx = [r \in Requests |-> NoTx]
  /\ stale = {}
  /\ now = 0

\* UserService.TopUp; the request is an UPDATE of its own.
TopUp(u) ==
  /\ UserRowFree(u)
  /\ \E a \in TopUps : /\ balance[u] + a <= MaxMicros
                       /\ balance' = [balance EXCEPT ![u] = @ + a]
  /\ Invalidate
  /\ UNCHANGED <<primary, active, limits, event, row, pc, cost, tx, now>>

\* BillingSettingService.Update; the secondary source is always the other one.
SetPriority(u) ==
  /\ NoWriter
  /\ \E s \in Sources \ {primary[u]} : primary' = [primary EXCEPT ![u] = s]
  /\ Invalidate
  /\ UNCHANGED <<balance, active, limits, event, row, pc, cost, tx, now>>

\* An administrator assigns a new subscription (replacing the old) or cancels it.
ChangeSub(u) ==
  /\ NoWriter
  /\ \E s \in {None} \cup {n \in Subs : /\ \A v \in Users : active[v] # n
                                        /\ \A r \in Requests : /\ event[r].sub # n
                                                               /\ tx[r].sub # n} :
       /\ s # active[u]
       /\ active' = [active EXCEPT ![u] = s]
  /\ Invalidate
  /\ UNCHANGED <<balance, primary, limits, event, row, pc, cost, tx, now>>

\* expires_at passes: the query stops finding the row, nothing is committed.
Expire(u) ==
  /\ active[u] # None
  /\ active' = [active EXCEPT ![u] = None]
  /\ UNCHANGED <<balance, primary, limits, event, row, pc, cost, tx, stale, now>>

\* SubscriptionPlanService.Update replaces the limits of the plan.
SetLimits ==
  /\ NoWriter
  /\ \E L \in LimitSets \ {limits} : limits' = L
  /\ Invalidate
  /\ UNCHANGED <<balance, primary, active, event, row, pc, cost, tx, now>>

Tick ==
  /\ now < MaxTime
  /\ now' = now + 1
  /\ UNCHANGED <<balance, primary, active, limits, event, row, pc, cost, tx, stale>>
-----------------------------------------------------------------------------
(* Admission and the response. *)

\* CanStartRequest reads the quota first; an error lets the request through, and a
\* limit whose usage cannot be read is left out, the last one leaving no quota.
CheckQuota(r) ==
  /\ pc[r] = "new"
  /\ \E q \in Quota(active[UserOf[r]], now) :
       \/ Goto(r, IF q > 0 THEN "admitted" ELSE "checkBalance")
       \/ Goto(r, "admitted")
       \/ active[UserOf[r]] # None /\ Goto(r, "checkBalance")
  /\ UNCHANGED <<balance, primary, active, limits, event, row, cost, tx, stale, now>>

CheckBalance(r) ==
  /\ pc[r] = "checkBalance"
  /\ \/ Goto(r, IF balance[UserOf[r]] > 0 THEN "admitted" ELSE "refused")
     \/ Goto(r, "admitted")
  /\ UNCHANGED <<balance, primary, active, limits, event, row, cost, tx, stale, now>>

\* WritePendingFromTrace; when its INSERT fails the request goes on without a row.
WritePending(r) ==
  /\ pc[r] = "admitted"
  /\ Goto(r, "running")
  /\ \/ /\ NoWriter
        /\ row' = [row EXCEPT ![r].status = "pending"]
        /\ Invalidate
     \/ UNCHANGED <<row, stale>>
  /\ UNCHANGED <<balance, primary, active, limits, event, cost, tx, now>>

\* The response has ended and its cost is computed: LoggingBodyWrapper.Close or
\* handleNonStreamingResponse.  A cost of 0 is not settled.
Finish(r) ==
  /\ pc[r] = "running"
  /\ \E c \in Costs : /\ cost' = [cost EXCEPT ![r] = c]
                      /\ Goto(r, IF c > 0 THEN "settling" ELSE "logging")
  /\ UNCHANGED <<balance, primary, active, limits, event, row, tx, stale, now>>
-----------------------------------------------------------------------------
(* SettleRequestCost. *)

\* SQLite: BEGIN is deferred, the first SELECT fixes what all of them see.
ReadSnapshot(r) ==
  /\ Backend = "sqlite"
  /\ pc[r] = "settling"
  /\ LET u == UserOf[r] IN
     \E q \in Quota(active[u], now) :
       tx' = [tx EXCEPT ![r] = [primary |-> primary[u], sub |-> active[u], quota |-> q,
                                balance |-> balance[u], at |-> now]]
  /\ Goto(r, "planned")
  /\ UNCHANGED <<balance, primary, active, limits, event, row, cost, stale, now>>

\* PostgreSQL: queryBillingSetting, queryActiveSubscription,
\* calcSubscriptionRemainingTx and queryBalance each see the latest commit.
ReadSetting(r) ==
  /\ Backend = "postgres"
  /\ pc[r] = "settling"
  /\ tx' = [tx EXCEPT ![r].primary = primary[UserOf[r]]]
  /\ Goto(r, "readSetting")
  /\ UNCHANGED <<balance, primary, active, limits, event, row, cost, stale, now>>

ReadSub(r) ==
  /\ pc[r] = "readSetting"
  /\ tx' = [tx EXCEPT ![r].sub = active[UserOf[r]]]
  /\ Goto(r, "readSub")
  /\ UNCHANGED <<balance, primary, active, limits, event, row, cost, stale, now>>

ReadUsage(r) ==
  /\ pc[r] = "readSub"
  /\ \E q \in Quota(tx[r].sub, now) : tx' = [tx EXCEPT ![r].quota = q]
  /\ Goto(r, "readUsage")
  /\ UNCHANGED <<balance, primary, active, limits, event, row, cost, stale, now>>

ReadBalance(r) ==
  /\ pc[r] = "readUsage"
  /\ tx' = [tx EXCEPT ![r].balance = balance[UserOf[r]]]
  /\ Goto(r, "planned")
  /\ UNCHANGED <<balance, primary, active, limits, event, row, cost, stale, now>>

\* The first write of the transaction, and on PostgreSQL the lock of the user's row.
\* created_at of the events is taken here.
BeginWrite(r) ==
  /\ pc[r] = "planned"
  /\ r \notin stale
  /\ NoWriter
  /\ Plan(r).balance > 0 => UserRowFree(UserOf[r])
  /\ tx' = [tx EXCEPT ![r].at = now]
  /\ Goto(r, "locked")
  /\ UNCHANGED <<balance, primary, active, limits, event, row, cost, stale, now>>

\* COMMIT: the events, the debit, floored at 0, and the charges on the log row.
Commit(r) ==
  LET u == UserOf[r]
      plan == Plan(r)
  IN
  /\ pc[r] = "locked"
  /\ event' = [event EXCEPT ![r] = EventOf(r)]
  /\ balance' = [balance EXCEPT ![u] = Debit(@, plan.balance)]
  /\ row' = IF row[r].status = "absent" THEN row
            ELSE [row EXCEPT ![r] =
                   [@ EXCEPT !.bill = BillStatus(r),
                             !.subscription = plan.subscription,
                             !.balance = plan.balance]]
  /\ Goto(r, "logging")
  /\ tx' = [tx EXCEPT ![r] = NoTx]
  /\ Invalidate
  /\ UNCHANGED <<primary, active, limits, cost, now>>

\* A statement fails: begin, a read, the write lock (SQLITE_BUSY, at once, when the
\* snapshot is stale or another connection writes), a write or the commit.  The
\* transaction is rolled back and the callers only log it.
Rollback(r) ==
  /\ pc[r] \in {"settling", "readSetting", "readSub", "readUsage", "planned", "locked"}
  /\ Goto(r, "logging")
  /\ tx' = [tx EXCEPT ![r] = NoTx]
  /\ stale' = stale \ {r}
  /\ UNCHANGED <<balance, primary, active, limits, event, row, cost, now>>

\* Mutant: without a pending row there is nothing to update, and the caller retries.
WriteLogOfPending(r) ==
  /\ pc[r] = "logging"
  /\ row[r].status = "pending"
  /\ NoWriter
  /\ row' = [row EXCEPT ![r].status = "final"]
  /\ Goto(r, "done")
  /\ Invalidate
  /\ UNCHANGED <<balance, primary, active, limits, event, cost, tx, now>>

\* UpdateFromTrace; without a pending row it inserts a complete one, whose billing
\* columns have their defaults.  It is the end of the request also when it fails.
WriteLog(r) ==
  /\ pc[r] = "logging"
  /\ Goto(r, "done")
  /\ \/ /\ NoWriter
        /\ row' = [row EXCEPT ![r].status = "final"]
        /\ Invalidate
     \/ UNCHANGED <<row, stale>>
  /\ UNCHANGED <<balance, primary, active, limits, event, cost, tx, now>>

\* The process stops; open transactions are rolled back by the database.
Crash ==
  /\ \E r \in Requests : pc[r] \notin {"new", "done", "refused", "dead"}
  /\ pc' = [r \in Requests |-> IF pc[r] \in {"new", "done", "refused"} THEN pc[r] ELSE "dead"]
  /\ tx' = [r \in Requests |-> NoTx]
  /\ stale' = {}
  /\ UNCHANGED <<balance, primary, active, limits, event, row, cost, now>>
-----------------------------------------------------------------------------
Settle(r) == \/ ReadSnapshot(r) \/ ReadSetting(r) \/ ReadSub(r) \/ ReadUsage(r)
             \/ ReadBalance(r) \/ BeginWrite(r) \/ Commit(r) \/ Rollback(r)

Serve(r) == \/ CheckQuota(r) \/ CheckBalance(r) \/ WritePending(r) \/ Finish(r)
            \/ Settle(r) \/ WriteLog(r)

Manage(u) == TopUp(u) \/ SetPriority(u) \/ ChangeSub(u) \/ Expire(u)

Next == \/ \E u \in Users : Manage(u)
        \/ SetLimits
        \/ Tick
        \/ \E r \in Requests : Serve(r)
        \/ Crash

\* The goroutine of a request keeps running until it has written its log row.
Fairness == \A r \in Requests : WF_vars(Settle(r)) /\ WF_vars(WriteLog(r))

Spec == Init /\ [][Next]_vars /\ Fairness
-----------------------------------------------------------------------------
TypeOK ==
  /\ balance \in [Users -> Amount]
  /\ primary \in [Users -> Sources]
  /\ active \in [Users -> Subs \cup {None}]
  /\ limits \in LimitSets
  /\ event \in [Requests -> Event]
  /\ row \in [Requests -> LogRow]
  /\ pc \in [Requests -> Steps]
  /\ cost \in [Requests -> Amount]
  /\ tx \in [Requests -> TxLocals]
  /\ stale \subseteq Requests
  /\ now \in Time
-----------------------------------------------------------------------------
(* Safety. *)

\* The charges on a log row are those of the billing events, "settled" says that
\* they cover the cost, and events never exist beside a pending row that does not
\* show them: events, debit and row are written by one transaction.
LogMatchesEvents ==
  \A r \in Requests :
    /\ row[r].bill # "none" =>
         /\ row[r].subscription = event[r].subscription
         /\ row[r].balance = event[r].balance
         /\ (row[r].bill = "settled") <=> (Total(event[r]) = cost[r])
    /\ Charged(r) /\ row[r].status = "pending" => row[r].bill # "none"

\* SettleRequestCost takes from the balance exactly the amount of the balance event
\* it inserts, whatever was committed between its reads and its writes.
DebitStep ==
  \A r \in Requests :
    event'[r] # event[r] => LET u == UserOf[r]
                            IN  balance'[u] = balance[u] - event'[r].balance
DebitMatchesEvent == [][DebitStep]_vars

\* Whatever the isolation, a settlement takes no more than the event it records.
DebitWithinEvent ==
  [][\A r \in Requests :
       event'[r] # event[r] =>
         balance'[UserOf[r]] >= balance[UserOf[r]] - event'[r].balance]_vars

\* No charge takes the usage of a window beyond the limit of the plan, also when the
\* window turns, the plan changes or another request settles meanwhile
\* (calcSubscriptionRemainingTx).
QuotaRespected ==
  [][\A r \in Requests :
       event'[r] # event[r] /\ event'[r].subscription > 0 =>
         \A l \in limits : Usage(event', event'[r].sub, l, event'[r].at) <= l.micros]_vars

\* A request is marked "overuse" only when the balance has been used up.
OveruseMeansBroke ==
  [][\A r \in Requests :
       row[r].bill # "overuse" /\ row'[r].bill = "overuse" => balance'[UserOf[r]] = 0]_vars

\* Settling is one indivisible charge of the ledger.
L == INSTANCE Ledger WITH
       charged <- [r \in Requests |->
                     IF Charged(r) THEN [subscription |-> event[r].subscription,
                                         balance |-> event[r].balance]
                     ELSE None]
ImplementsLedger == L!Spec

(* Liveness. *)

\* A finished request gets past its settlement, charged or given up, unless the
\* process stops: no lock, stale snapshot or failed statement holds it for ever.
SettlementEnds ==
  \A r \in Requests : pc[r] = "settling" ~> pc[r] \in {"done", "dead"}
=============================================================================
