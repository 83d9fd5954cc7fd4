--------------------------- MODULE Subscriptions ----------------------------
(***************************************************************************)
(* Subscription plans and the subscriptions of users, as administrators    *)
(* change them concurrently: UserSubscriptionService (Assign, Cancel,      *)
(* UpdateExpiry) and SubscriptionPlanService (Create, Update, SetEnabled,  *)
(* Delete) over the tables subscription_plans and user_subscriptions.      *)
(*                                                                         *)
(* Each call reads in one step and writes in a later one.  What a          *)
(* transaction writes is one step, since nothing is read between its       *)
(* writes.  Any call may fail at any point and then has written nothing,   *)
(* which covers the statements SQLite refuses for a stale snapshot.        *)
(***************************************************************************)
EXTENDS Integers

CONSTANTS
  Admins,           \* concurrent administrator requests
  Users,
  Plans,            \* plan identifiers
  Subs,             \* subscription identifiers
  None,             \* no subscription found
  MaxTime           \* bound on the clock

ASSUME SubscriptionsAssumption == None \notin Subs /\ MaxTime \in Nat

VARIABLES
  plan,             \* subscription_plans: "absent", "enabled" or "disabled"
  sub,              \* user_subscriptions
  op,               \* what each administrator's request has read and is about to do
  now

vars == <<plan, sub, op, now>>

Time == 0 .. MaxTime
Never == MaxTime + 1    \* expires_at IS NULL

Sub == [status : {"absent", "active", "cancelled"}, user : Users, plan : Plans,
        expires : Time \cup {Never}]
Op == [at : {"idle", "assignRead", "assignWrite", "cancelWrite", "expiryWrite",
             "deleteCount", "deleteWrite", "deleteRefused"},
       user : Users, plan : Plans, found : Subs \cup {None}]

\* A row with status 'active', and one that the queries find as active.
ActiveRow(s) == sub[s].status = "active"
InForce(s) == ActiveRow(s) /\ sub[s].expires > now

\* GetActiveByUserID and the query of Assign.
FindActive(u) ==
  LET found == {s \in Subs : InForce(s) /\ sub[s].user = u}
  IN  IF found = {} THEN {None} ELSE found

Continue(a, step) == op' = [op EXCEPT ![a].at = step]
Return(a) == op' = [op EXCEPT ![a] = [@ EXCEPT !.at = "idle", !.found = None]]
Idle(a) == op[a].at = "idle"
-----------------------------------------------------------------------------
\* Mutant: without the unique index.
FreeSlotUnindexed(u, except) == TRUE

\* idx_user_subs_active_unique: one row with status 'active' per user.
FreeSlot(u, except) == \A s \in Subs : ActiveRow(s) /\ sub[s].user = u => s = except

\* Mutant: without the foreign key.
InUseUnchecked(p) == FALSE

\* The foreign key plan_id, ON DELETE RESTRICT.
InUse(p) == \E s \in Subs : sub[s].status # "absent" /\ sub[s].plan = p

\* UpdateStatus with SubscriptionStatusCancelled.
Stopped(s) == [sub[s] EXCEPT !.status = "cancelled"]

\* Mutant: the row is written back as it was read, active.
ExtendedAsRead(s, e) == [sub[s] EXCEPT !.expires = e, !.status = "active"]

\* UpdateExpiry writes expires_at only.
Extended(s, e) == [sub[s] EXCEPT !.expires = e]
-----------------------------------------------------------------------------
Init ==
  /\ plan = [p \in Plans |-> "absent"]
  /\ \E u \in Users, p \in Plans :
       /\ sub = [s \in Subs |-> [status |-> "absent", user |-> u, plan |-> p,
                                 expires |-> Never]]
       /\ op = [a \in Admins |-> [at |-> "idle", user |-> u, plan |-> p, found |-> None]]
  /\ now = 0

Tick ==
  /\ now < MaxTime
  /\ now' = now + 1
  /\ UNCHANGED <<plan, sub, op>>

CreatePlan(p) ==
  /\ plan[p] = "absent"
  /\ \A s \in Subs : sub[s].status # "absent" => sub[s].plan # p
  /\ \E e \in {"enabled", "disabled"} : plan' = [plan EXCEPT ![p] = e]
  /\ UNCHANGED <<sub, op, now>>

\* Update and SetEnabled: one UPDATE, of no row when the plan is gone.
SetEnabled(p) ==
  /\ plan[p] # "absent"
  /\ \E e \in {"enabled", "disabled"} : e # plan[p] /\ plan' = [plan EXCEPT ![p] = e]
  /\ UNCHANGED <<sub, op, now>>
-----------------------------------------------------------------------------
\* Assign: the plan is read and checked before the transaction begins.
AssignCheck(a) ==
  /\ Idle(a)
  /\ \E u \in Users, p \in Plans :
       /\ plan[p] = "enabled"
       /\ op' = [op EXCEPT ![a] = [@ EXCEPT !.at = "assignRead", !.user = u, !.plan = p]]
  /\ UNCHANGED <<plan, sub, now>>

AssignRead(a) ==
  /\ op[a].at = "assignRead"
  /\ \E s \in FindActive(op[a].user) :
       op' = [op EXCEPT ![a] = [@ EXCEPT !.at = "assignWrite", !.found = s]]
  /\ UNCHANGED <<plan, sub, now>>

\* UPDATE of the subscription found, INSERT of the new one, COMMIT.  The expiry is
\* whatever the administrator sends, the past included.
AssignWrite(a) ==
  /\ op[a].at = "assignWrite"
  /\ plan[op[a].plan] # "absent"
  /\ FreeSlot(op[a].user, op[a].found)
  /\ \E n \in Subs, e \in Time \cup {Never} :
       /\ sub[n].status = "absent"
       /\ sub' = [s \in Subs |->
                    IF s = n THEN [status |-> "active", user |-> op[a].user,
                                   plan |-> op[a].plan, expires |-> e]
                    ELSE IF s = op[a].found THEN Stopped(s)
                    ELSE sub[s]]
  /\ Return(a)
  /\ UNCHANGED <<plan, now>>

\* Cancel and UpdateExpiry begin with GetActiveByUserID.
FindForCancel(a) ==
  /\ Idle(a)
  /\ \E u \in Users : \E s \in FindActive(u) \ {None} :
       op' = [op EXCEPT ![a] = [@ EXCEPT !.at = "cancelWrite", !.user = u, !.found = s]]
  /\ UNCHANGED <<plan, sub, now>>

CancelWrite(a) ==
  /\ op[a].at = "cancelWrite"
  /\ sub' = [sub EXCEPT ![op[a].found] = Stopped(op[a].found)]
  /\ Return(a)
  /\ UNCHANGED <<plan, now>>

FindForExpiry(a) ==
  /\ Idle(a)
  /\ \E u \in Users : \E s \in FindActive(u) \ {None} :
       op' = [op EXCEPT ![a] = [@ EXCEPT !.at = "expiryWrite", !.user = u, !.found = s]]
  /\ UNCHANGED <<plan, sub, now>>

ExpiryWrite(a) ==
  /\ op[a].at = "expiryWrite"
  /\ \E e \in Time : sub' = [sub EXCEPT ![op[a].found] = Extended(op[a].found, e)]
  /\ Return(a)
  /\ UNCHANGED <<plan, now>>
-----------------------------------------------------------------------------
\* SubscriptionPlanService.Delete: the plan exists; no row of it has status 'active';
\* DELETE.
DeleteCheck(a) ==
  /\ Idle(a)
  /\ \E p \in Plans :
       /\ plan[p] # "absent"
       /\ op' = [op EXCEPT ![a] = [@ EXCEPT !.at = "deleteCount", !.plan = p]]
  /\ UNCHANGED <<plan, sub, now>>

DeleteCount(a) ==
  /\ op[a].at = "deleteCount"
  /\ Continue(a, IF \E s \in Subs : ActiveRow(s) /\ sub[s].plan = op[a].plan
                 THEN "deleteRefused" ELSE "deleteWrite")
  /\ UNCHANGED <<plan, sub, now>>

DeleteWrite(a) ==
  /\ op[a].at = "deleteWrite"
  /\ ~InUse(op[a].plan)
  /\ plan' = [plan EXCEPT ![op[a].plan] = "absent"]
  /\ Return(a)
  /\ UNCHANGED <<sub, now>>

\* The call ends with an error: ErrPlanHasActiveSubs, a constraint, the database.
Fail(a) ==
  /\ ~Idle(a)
  /\ Return(a)
  /\ UNCHANGED <<plan, sub, now>>
-----------------------------------------------------------------------------
Call(a) == \/ AssignCheck(a) \/ AssignRead(a) \/ AssignWrite(a)
           \/ FindForCancel(a) \/ CancelWrite(a)
           \/ FindForExpiry(a) \/ ExpiryWrite(a)
           \/ DeleteCheck(a) \/ DeleteCount(a) \/ DeleteWrite(a)
           \/ Fail(a)

Next == \/ \E a \in Admins : Call(a)
        \/ \E p \in Plans : CreatePlan(p) \/ SetEnabled(p)
        \/ Tick

Spec == Init /\ [][Next]_vars
-----------------------------------------------------------------------------
\* The statuses 'paused' and 'expired' of the schema are never written.
TypeOK ==
  /\ plan \in [Plans -> {"absent", "enabled", "disabled"}]
  /\ sub \in [Subs -> Sub]
  /\ op \in [Admins -> Op]
  /\ now \in Time

\* Billing charges the one subscription queryActiveSubscription finds: no two are in
\* force for a user, however Assign, Cancel and UpdateExpiry interleave.
OneInForce ==
  \A s, t \in Subs : InForce(s) /\ InForce(t) /\ sub[s].user = sub[t].user => s = t

\* The plan whose limits billing reads is there, whatever a concurrent Delete of the
\* plan has counted before the subscription was assigned.
PlanInForceExists == \A s \in Subs : InForce(s) => plan[sub[s].plan] # "absent"

\* A subscription that was cancelled or replaced never comes back, also when an
\* UpdateExpiry found it before.
CancelledForEver ==
  [][\A s \in Subs : sub[s].status = "cancelled" => sub'[s].status = "cancelled"]_vars
=============================================================================
