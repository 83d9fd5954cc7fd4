------------------------------- MODULE Ledger -------------------------------
(***************************************************************************)
(* What billing promises, seen from outside: an account per user that is   *)
(* only ever topped up or charged, each charge being one indivisible step  *)
(* that divides the cost of one request between the quota left in the      *)
(* user's subscription and the balance, the primary source first, and      *)
(* takes from the balance exactly what it records.  Billing is shown to    *)
(* implement it when the database isolates the settlements.                *)
(***************************************************************************)
EXTENDS Charge

CONSTANTS
  Users,            \* accounts
  Requests,         \* proxied requests, each of one user
  UserOf,           \* the user of each request
  None,             \* not a charge
  Costs,            \* what a response may cost
  TopUps,           \* amounts an administrator may add
  MaxMicros         \* bound on every amount

VARIABLES
  balance,          \* balance[u]: what user u has left
  primary,          \* primary[u]: the source charged first
  charged           \* charged[r]: what request r was charged, or None

vars == <<balance, primary, charged>>

Amount == 0 .. MaxMicros

Init ==
  /\ balance \in [Users -> Amount]
  /\ primary \in [Users -> Sources]
  /\ charged = [r \in Requests |-> None]

Deposit(u) ==
  /\ \E a \in TopUps : balance' = [balance EXCEPT ![u] = @ + a]
  /\ UNCHANGED <<primary, charged>>

Prefer(u) ==
  /\ \E s \in Sources : primary' = [primary EXCEPT ![u] = s]
  /\ UNCHANGED <<balance, charged>>

\* The quota left is the business of the subscription, not of the ledger: any.
ChargeRequest(r) ==
  \E cost \in Costs, quota \in Amount :
    LET u == UserOf[r]
        split == Split(cost, primary[u], quota, balance[u])
    IN  /\ charged[r] = None
        /\ charged' = [charged EXCEPT ![r] = split]
        /\ balance' = [balance EXCEPT ![u] = @ - split.balance]
        /\ UNCHANGED primary

Next ==
  \/ \E u \in Users : Deposit(u) \/ Prefer(u)
  \/ \E r \in Requests : ChargeRequest(r)

Spec == Init /\ [][Next]_vars
=============================================================================
