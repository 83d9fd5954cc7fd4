--------------------------- MODULE MCProxiedCall ----------------------------
EXTENDS ProxiedCall

\* Every kind of call that the code tells apart.
AllCalls ==
  { c \in Call :
      /\ c.path = "amp" => ~c.responses /\ c.wants
      /\ c.path = "channel" => ~c.accepts /\ ~c.large
      /\ c.path = "channel" /\ ~c.responses => c.wants
      /\ c.large => ~c.pseudo /\ c.accepts
      /\ ~c.model => ~c.pseudo /\ ~c.accepts /\ c.wants /\ ~c.large }

TwoConfigs == { [enabled |-> TRUE, max |-> 2, busy |-> TRUE, empty |-> TRUE],
                [enabled |-> FALSE, max |-> 2, busy |-> TRUE, empty |-> TRUE] }
=============================================================================
