----------------------------- MODULE MCBilling ------------------------------
(* Instances of Billing for TLC: one user, so that the requests contend for the
   same balance and quota; two requests, the least that interleave. *)
EXTENDS Billing, TLC

CONSTANTS u1, r1, r2

Symmetry == Permutations(Requests)

MCUserOf == [r \in Requests |-> u1]

Daily(mode, m) == [mode |-> mode, len |-> 1, micros |-> m]
Ever(m) == [mode |-> "total", len |-> 1, micros |-> m]

\* A plan with a window that turns and a total, and one an administrator lowers it to.
TwoPlans == {{Daily("fixed", 1), Ever(2)}, {Daily("sliding", 1)}}
TotalOnly == {{Ever(2)}}
=============================================================================
