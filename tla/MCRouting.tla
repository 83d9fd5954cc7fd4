----------------------------- MODULE MCRouting ------------------------------
(* Instances of Routing for TLC. *)
EXTENDS Routing, TLC

CONSTANTS g1, g2, u1, u2, m1, m2

\* What an administrator submits: the default priority, a better one, a channel that is off.
MCRows == {[on |-> TRUE, priority |-> 0, models |-> {m1}],
           [on |-> FALSE, priority |-> 1, models |-> Models]}

\* One model mapped to another, and to another on a channel.
MCMappings == {[from |-> m1, to |-> m2, prefer |-> None],
               [from |-> m1, to |-> m2, prefer |-> 2]}

On(p, ms) == [on |-> TRUE, priority |-> p, models |-> ms]

\* Channel 1 is open, channel 2 only for g1 and for m2; u1 is in g1, u2 in no group; 3 is unused.
Two == [chan |-> (1 :> On(2, {m1, m2}) @@ 2 :> On(1, {m2}) @@ 3 :> None),
        groups |-> {g1}, chanGroups |-> {<<2, g1>>}, userGroups |-> {<<u1, g1>>}]

\* As Two, but both are open and of one tier, and there is no group yet.
Tied == [Two EXCEPT !.chan = 1 :> On(1, {m1}) @@ 2 :> On(1, {m1}) @@ 3 :> None,
                    !.groups = {}, !.chanGroups = {}, !.userGroups = {}]
TwoChannels == {Two, Tied}

\* The requests are alike.
AnyRequest == Permutations(Requests)
=============================================================================
