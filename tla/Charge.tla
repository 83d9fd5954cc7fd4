------------------------------- MODULE Charge -------------------------------
(***************************************************************************)
(* How a cost is divided between a user's two billing sources, without     *)
(* any state: the loop over [primary, secondary] of                        *)
(* BillingService.SettleRequestCost.  Amounts are micro-dollars.           *)
(***************************************************************************)
EXTENDS Integers

\* The values of model.BillingSource.
Sources == {"subscription", "balance"}

Least(a, b) == IF a <= b THEN a ELSE b

\* What is charged to each source for a cost, when the subscription has quota
\* left, the account holds funds, and first is the user's primary source.
Split(cost, first, quota, funds) ==
  IF first = "subscription"
  THEN LET s == Least(cost, quota)
       IN  [subscription |-> s, balance |-> Least(cost - s, funds)]
  ELSE LET b == Least(cost, funds)
       IN  [subscription |-> Least(cost - b, quota), balance |-> b]

Total(split) == split.subscription + split.balance
=============================================================================
