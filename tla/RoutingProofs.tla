---------------------------- MODULE RoutingProofs ----------------------------
(***************************************************************************)
(* What a request is routed to is right for any number of channels,        *)
(* groups, requests and administrators: proofs of TypeOK, OnlyUsable,      *)
(* BestTier, BoundServed and EvenWhileSteady.                              *)
(***************************************************************************)
EXTENDS Routing, TLAPS, FiniteSetTheorems

-----------------------------------------------------------------------------
(* The choice within a tier.                                               *)

Rank(C) == [c \in C |-> Cardinality({d \in C : d < c})]

\* No two channels have the same position.
LEMMA Ranking ==
  ASSUME NEW C, C \subseteq Nat, IsFiniteSet(C)
  PROVE  Rank(C) \in Injection(C, 0..(Cardinality(C) - 1))
<1> DEFINE N == 0..(Cardinality(C) - 1)
           Below(c) == {d \in C : d < c}
<1>1. Cardinality(C) \in Nat
  BY FS_CardinalityType
<1>2. \A c \in C : IsFiniteSet(Below(c)) /\ Cardinality(Below(c)) \in Nat
  BY FS_Subset, FS_CardinalityType
<1>3. \A c \in C : Cardinality(Below(c)) < Cardinality(C)
  <2> SUFFICES ASSUME NEW c \in C PROVE Cardinality(Below(c)) < Cardinality(C)
    OBVIOUS
  <2>1. Below(c) \in SUBSET C /\ c \notin Below(c)
    OBVIOUS
  <2>2. Cardinality(Below(c)) <= Cardinality(C) /\ Cardinality(Below(c)) # Cardinality(C)
    BY <2>1, FS_Subset
  <2> QED
    BY <1>1, <1>2, <2>2
<1>4. \A c, e \in C : c < e => Cardinality(Below(c)) < Cardinality(Below(e))
  <2> SUFFICES ASSUME NEW c \in C, NEW e \in C, c < e
               PROVE  Cardinality(Below(c)) < Cardinality(Below(e))
    OBVIOUS
  <2>a. \A d \in C : d \in Nat
    OBVIOUS
  <2>b. \A d \in C : d < c => d < e
    BY <2>a
  <2>1. Below(c) \in SUBSET Below(e)
    BY <2>b
  <2>3. c \in Below(e) /\ c \notin Below(c)
    BY <2>a
  <2>2. /\ Cardinality(Below(c)) <= Cardinality(Below(e))
        /\ Cardinality(Below(c)) # Cardinality(Below(e))
    BY <1>2, <2>1, <2>3, FS_Subset
  <2> QED
    BY <1>2, <2>2
<1>5. Rank(C) \in [C -> N]
  BY <1>1, <1>2, <1>3 DEF Rank
<1>6. \A c, e \in C : c # e => Rank(C)[c] # Rank(C)[e]
  <2> SUFFICES ASSUME NEW c \in C, NEW e \in C, c # e PROVE Rank(C)[c] # Rank(C)[e]
    OBVIOUS
  <2>1. Rank(C)[c] = Cardinality(Below(c)) /\ Rank(C)[e] = Cardinality(Below(e))
    BY DEF Rank
  <2>2. c < e \/ e < c
    OBVIOUS
  <2> QED
    BY <1>2, <1>4, <2>1, <2>2
<1> QED
  BY <1>5, <1>6 DEF Injection, IsInjective

\* sort.Slice gives each position to exactly one channel.
LEMMA EveryPosition ==
  ASSUME NEW C, C \subseteq Nat, IsFiniteSet(C), NEW n \in 0..(Cardinality(C) - 1)
  PROVE  /\ At(C, n) \in C
         /\ Cardinality({d \in C : d < At(C, n)}) = n
<1> DEFINE N == 0..(Cardinality(C) - 1)
<1>1. IsFiniteSet(N) /\ Cardinality(N) = Cardinality(C)
  BY FS_CardinalityType, FS_Interval
<1>2. Rank(C) \in Surjection(C, N)
  BY <1>1, Ranking, FS_Injection
<1>3. \E c \in C : Cardinality({d \in C : d < c}) = n
  BY <1>2 DEF Surjection, Rank
<1> QED
  BY <1>3 DEF At

\* The position of a channel is where it is found.
LEMMA FoundAtRank ==
  ASSUME NEW C, C \subseteq Nat, IsFiniteSet(C),
         NEW c \in C, NEW n \in 0..(Cardinality(C) - 1)
  PROVE  /\ Rank(C)[c] \in 0..(Cardinality(C) - 1)
         /\ At(C, n) = c <=> n = Rank(C)[c]
<1> DEFINE f == Rank(C)
<1>a. f \in Injection(C, 0..(Cardinality(C) - 1))
  BY Ranking
<1> HIDE DEF f
<1>1. f[c] \in 0..(Cardinality(C) - 1) /\ \A d \in C : f[d] = f[c] => d = c
  BY <1>a DEF Injection, IsInjective
<1> USE DEF f
<1>2. At(C, n) \in C /\ Rank(C)[At(C, n)] = n
  BY EveryPosition DEF Rank
<1> QED
  BY <1>1, <1>2

\* A tier of a nonempty set of candidates is not empty: its priority is at position 0.
LEMMA TierExists ==
  ASSUME NEW listed, NEW C, C # {}, IsFiniteSet(C), listed \in [C -> Nat]
  PROVE  Tier(listed) # {}
<1> DEFINE P == {listed[c] : c \in C}
<1>1. P \subseteq Nat /\ P # {}
  OBVIOUS
<1>2. IsFiniteSet(P)
  <2>1. listed \in Surjection(C, P)
    BY DEF Surjection
  <2> QED
    BY <2>1, FS_Surjection
<1>3. 0 \in 0..(Cardinality(P) - 1)
  BY <1>1, <1>2, FS_CardinalityType, FS_EmptySet
<1>4. PICK x \in P : Cardinality({d \in P : d < x}) = 0
  BY <1>1, <1>2, <1>3, EveryPosition
<1>5. {d \in P : d < x} = {}
  <2>1. {d \in P : d < x} \subseteq P
    OBVIOUS
  <2> QED
    BY <1>2, <1>4, <2>1, FS_Subset, FS_EmptySet
<1>6. PICK c \in C : x = listed[c]
  OBVIOUS
<1>7. ASSUME NEW d \in C PROVE x <= listed[d]
  <2>1. listed[d] \in P /\ listed[d] \in Nat /\ x \in Nat
    BY <1>1
  <2>2. ~ (listed[d] < x)
    BY <1>5, <2>1
  <2> QED
    BY <2>1, <2>2
<1> QED
  BY <1>6, <1>7 DEF Tier
-----------------------------------------------------------------------------
(* Types.                                                                  *)

Listing == UNION {[C -> Priorities] : C \in SUBSET Channels}

LEMMA ListingIs ==
  /\ \A l \in Listing : DOMAIN l \subseteq Channels /\ l \in [DOMAIN l -> Priorities]
  /\ \A C \in SUBSET Channels : [C -> Priorities] \subseteq Listing
BY DEF Listing

LEMMA KeepType ==
  ASSUME NEW l \in Listing, NEW C
  PROVE  /\ Keep(l, C) \in Listing
         /\ DOMAIN Keep(l, C) = DOMAIN l \cap C
         /\ \A c \in DOMAIN l \cap C : Keep(l, C)[c] = l[c]
<1>1. DOMAIN l \subseteq Channels /\ l \in [DOMAIN l -> Priorities]
  BY ListingIs
<1>2. Keep(l, C) \in [DOMAIN l \cap C -> Priorities]
  BY <1>1 DEF Keep
<1> QED
  BY <1>1, <1>2, ListingIs DEF Keep

LEMMA IdleType == Idle \in Goroutine
<1>1. << >> \in [{} -> Priorities]
  OBVIOUS
<1>2. << >> \in Listing
  BY <1>1, ListingIs
<1> QED
  BY <1>2 DEF Idle, Goroutine, Listing

\* The channel that is drawn is one of the best tier.
LEMMA DrawnFromTier ==
  ASSUME NEW l \in Listing, DOMAIN l # {}, NEW n \in Nat
  PROVE  Turn(Tier(l), n) \in Tier(l)
<1> DEFINE T == Tier(l)
<1>1. DOMAIN l \subseteq Nat /\ IsFiniteSet(DOMAIN l) /\ l \in [DOMAIN l -> Nat]
  BY ListingIs, RoutingAssumption, FS_Subset
<1>2. T # {}
  BY <1>1, TierExists
<1>3. T \subseteq Nat /\ IsFiniteSet(T)
  <2>1. T \subseteq DOMAIN l
    BY DEF Tier
  <2> QED
    BY <1>1, <2>1, FS_Subset
<1>4. Cardinality(T) \in Nat \ {0}
  BY <1>2, <1>3, FS_CardinalityType, FS_EmptySet
<1> HIDE DEF T
<1>5. n % Cardinality(T) \in 0..(Cardinality(T) - 1)
  BY <1>4
<1>6. At(T, n % Cardinality(T)) \in T
  BY <1>3, <1>5, EveryPosition
<1> QED
  BY <1>6 DEF Turn, T
-----------------------------------------------------------------------------
(* What a request has read and still knows.                                *)

\* A request that runs has a model, and a channel that is bound comes from a mapping.
Binding(q) ==
  /\ q.model \in Models
  /\ q.at = "map" => q.map = None
  /\ q.at \in {"mapFind", "mapCheck", "find", "check"} =>
       q.map \in Mappings /\ q.map.prefer \in Channels
  /\ q.at \in {"find", "check"} => q.want = q.map.prefer /\ q.model = q.map.to

\* What q has read of channel c holds in the tables.
About(q, c) ==
  LET checked == q.at = "draw" \/ (q.at = "single" /\ c \notin q.left) IN
  /\ q.gids = MembershipOf(q.user)
  /\ q.at \in {"groups", "single", "draw"} =>
       /\ c \in DOMAIN q.listed <=>
            Serves(c, q.model) /\ (checked => Accessible(GroupsOf(c), q.gids))
       /\ c \in DOMAIN q.listed => q.listed[c] = chan[c].priority
  /\ q.at = "mapCheck" /\ c = q.map.prefer => Serves(c, q.map.to)
  /\ q.at = "check" /\ c = q.want => Serves(c, q.model)
  /\ q.at \in {"list", "groups", "single", "draw"} /\ q.map # None /\ c = q.map.prefer =>
       ~ (Serves(c, q.map.to) /\ Accessible(GroupsOf(c), q.gids))

Knows(r) ==
  Running(r) => Binding(req[r]) /\ \A c \in Channels \ unsure[r] : About(req[r], c)

Knowing == \A r \in Requests : Knows(r)
-----------------------------------------------------------------------------
IInv == TypeOK /\ Knowing
-----------------------------------------------------------------------------
(* The requests' steps.                                                    *)

\* Request r becomes q, which knows the tables except for the channels in U; so are all steps
\* of requests.
Move(r, q, U) ==
  /\ req' = [req EXCEPT ![r] = q] /\ q \in Goroutine
  /\ unsure' = [unsure EXCEPT ![r] = U] /\ U \in SUBSET Channels
  /\ q.at \notin {"new", "done"} => Binding(q) /\ \A c \in Channels \ U : About(q, c)
  /\ UNCHANGED <<tables, edit>>
  /\ counter' \in [Models -> Nat]

\* The tables that About reads are the same.
LEMMA SameTables ==
  ASSUME UNCHANGED tables
  PROVE  /\ chan' = chan
         /\ \A c : GroupsOf(c)' = GroupsOf(c)
         /\ \A u : MembershipOf(u)' = MembershipOf(u)
         /\ \A c, m : Serves(c, m)' <=> Serves(c, m)
BY DEF tables, GroupsOf, MembershipOf, Serves

LEMMA Moves ==
  ASSUME IInv, NEW r \in Requests, NEW q, NEW U, Move(r, q, U)
  PROVE  IInv'
<1> USE DEF Move
<1>1. /\ req' \in [Requests -> Goroutine] /\ req'[r] = q
      /\ unsure' \in [Requests -> SUBSET Channels] /\ unsure'[r] = U
      /\ \A o \in Requests \ {r} : req'[o] = req[o] /\ unsure'[o] = unsure[o]
  BY DEF IInv, TypeOK
<1>2. TypeOK'
  BY <1>1 DEF IInv, TypeOK, tables
<1>3. ASSUME NEW o \in Requests PROVE Knows(o)'
  <2> SUFFICES ASSUME Running(o)'
               PROVE  (Binding(req[o]) /\ \A c \in Channels \ unsure[o] : About(req[o], c))'
    BY DEF Knows
  <2>1. Binding(req'[o]) /\ \A c \in Channels \ unsure'[o] : About(req'[o], c)
    BY <1>1 DEF IInv, Knowing, Knows, Running
  <2>2. Binding(req[o])'
    BY <2>1 DEF Binding
  <2>3. ASSUME NEW c \in Channels \ unsure'[o] PROVE About(req[o], c)'
    BY <2>1, SameTables DEF About
  <2> QED
    BY <2>2, <2>3
<1> QED
  BY <1>2, <1>3 DEF IInv, Knowing

LEMMA Before ==
  ASSUME IInv, NEW r \in Requests
  PROVE  /\ req[r] \in Goroutine /\ unsure[r] \in SUBSET Channels
         /\ unsure = [unsure EXCEPT ![r] = unsure[r]]
         /\ counter \in [Models -> Nat]
         /\ Running(r) => /\ Binding(req[r])
                          /\ \A c \in Channels \ unsure[r] : About(req[r], c)
BY DEF IInv, TypeOK, Knowing, Knows

\* The groups that were read are the user's.
LEMMA ArriveMoves ==
  ASSUME IInv, NEW r \in Requests, NEW u \in Users, NEW m \in Models, Arrive(r, u, m)
  PROVE  IInv'
<1>1. PICK ok \in BOOLEAN :
        /\ Request(r, [Idle EXCEPT !.at = "map", !.user = u, !.model = m,
                                   !.gids = IF ok THEN MembershipOf(u) ELSE {}])
        /\ unsure' = [unsure EXCEPT ![r] = IF ok THEN {} ELSE Channels]
  BY DEF Arrive
<1> DEFINE q == [Idle EXCEPT !.at = "map", !.user = u, !.model = m,
                             !.gids = IF ok THEN MembershipOf(u) ELSE {}]
           U == IF ok THEN {} ELSE Channels
<1>2. q \in Goroutine
  BY IdleType DEF Goroutine, MembershipOf
<1>3. Binding(q) /\ \A c \in Channels \ U : About(q, c)
  BY DEF Binding, About, Idle
<1>4. Move(r, q, U)
  BY <1>1, <1>2, <1>3, Before DEF Move, Arrive, QuietTables, Request
<1> HIDE DEF q, U
<1> QED
  BY <1>4, Moves

LEMMA MapMoves ==
  ASSUME IInv, NEW r \in Requests,
         Unmapped(r) \/ \E mp \in Mappings : MapModel(r, mp) \/ MapChannel(r, mp)
  PROVE  IInv'
<1> DEFINE q == req[r]
<1>1. /\ q \in Goroutine /\ q.map = None /\ q.model \in Models
      /\ \A c \in Channels \ unsure[r] : q.gids = MembershipOf(q.user)
  BY Before DEF Unmapped, MapModel, MapChannel, Running, Binding, About
<1>2. CASE Unmapped(r)
  <2> DEFINE p == [q EXCEPT !.at = "list"]
  <2>1. p \in Goroutine /\ Binding(p) /\ \A c \in Channels \ unsure[r] : About(p, c)
    BY <1>1 DEF Goroutine, Binding, About
  <2>2. Move(r, p, unsure[r])
    BY <1>2, <2>1, Before DEF Move, Unmapped, QuietTables, Request
  <2> HIDE DEF p
  <2> QED
    BY <2>2, Moves
<1>3. ASSUME NEW mp \in Mappings, MapModel(r, mp) PROVE IInv'
  <2>1. PICK m \in Models : Request(r, [q EXCEPT !.at = "list", !.model = m])
    <3>1. mp.to \in Models /\ q.model \in Models
      BY <1>1, <1>3, RoutingAssumption DEF MapModel, Goroutine
    <3> QED
      BY <1>1, <1>3, <3>1 DEF MapModel, Goroutine
  <2> DEFINE p == [q EXCEPT !.at = "list", !.model = m]
  <2>2. p \in Goroutine /\ Binding(p) /\ \A c \in Channels \ unsure[r] : About(p, c)
    BY <1>1 DEF Goroutine, Binding, About
  <2>3. Move(r, p, unsure[r])
    BY <1>3, <2>1, <2>2, Before DEF Move, MapModel, QuietTables, Request
  <2> HIDE DEF p
  <2> QED
    BY <2>3, Moves
<1>4. ASSUME NEW mp \in Mappings, MapChannel(r, mp) PROVE IInv'
  <2> DEFINE p == [q EXCEPT !.at = "mapFind", !.map = mp]
  <2>1. mp.prefer \in Channels
    BY <1>4, RoutingAssumption DEF MapChannel
  <2>2. p \in Goroutine /\ Binding(p) /\ \A c \in Channels \ unsure[r] : About(p, c)
    BY <1>1, <2>1 DEF Goroutine, Binding, About
  <2>3. Move(r, p, unsure[r])
    BY <1>4, <2>2, Before DEF Move, MapChannel, QuietTables, Request
  <2> HIDE DEF p
  <2> QED
    BY <2>3, Moves
<1> QED
  BY <1>2, <1>3, <1>4

\* A request that was routed keeps nothing.
LEMMA RoutedType ==
  ASSUME IInv, NEW r \in Requests, NEW c \in Channels \cup {None}
  PROVE  Routed(r, c) \in Goroutine /\ Routed(r, c).at = "done"
         /\ Routed(r, c).chosen = c /\ Routed(r, c).model = req[r].model
<1>1. Routed(r, c) = [Idle EXCEPT !.at = "done", !.model = req[r].model, !.chosen = c]
  BY DEF Routed
<1> QED
  BY <1>1, Before, IdleType DEF Goroutine, Idle

\* A channel that is refused does not serve the mapping's model or is closed to the user.
LEMMA BoundMoves ==
  ASSUME IInv, NEW r \in Requests, FindBound(r) \/ CheckBound(r) \/ BoundFails(r)
  PROVE  IInv'
<1> DEFINE q == req[r]
           list == [q EXCEPT !.at = "list"]
<1>1. /\ q \in Goroutine /\ q.at \in {"mapFind", "mapCheck", "find", "check"}
      /\ q.map \in Mappings /\ q.map.prefer \in Channels /\ q.map # None /\ q.model \in Models
      /\ q.at \in {"find", "check"} => q.want = q.map.prefer /\ q.model = q.map.to
      /\ \A c \in Channels \ unsure[r] : About(q, c)
  BY Before, RoutingAssumption DEF FindBound, CheckBound, BoundFails, Running, Binding
<1>2. /\ Bound(r) = q.map.prefer /\ BoundModel(r) = q.map.to /\ q.map.to \in Models
  BY <1>1, RoutingAssumption DEF Bound, BoundModel
<1>3. list \in Goroutine /\ Binding(list)
  BY <1>1 DEF Goroutine, Binding
<1>4. ASSUME NEW c \in Channels \ unsure[r],
             c = q.map.prefer => ~ (Serves(c, q.map.to) /\ Accessible(GroupsOf(c), q.gids))
      PROVE  About(list, c)
  BY <1>1, <1>4 DEF About, Goroutine
<1>5. CASE FindBound(r) /\ Serves(Bound(r), BoundModel(r))
  <2> DEFINE p == [q EXCEPT !.at = IF @ = "find" THEN "check" ELSE "mapCheck"]
  <2>1. p \in Goroutine /\ Binding(p)
    BY <1>1, <1>5 DEF Goroutine, Binding, FindBound
  <2>2. \A c \in Channels \ unsure[r] : About(p, c)
    BY <1>1, <1>2, <1>5 DEF Goroutine, About, FindBound
  <2>3. Move(r, p, unsure[r])
    BY <1>5, <2>1, <2>2, Before DEF Move, FindBound, QuietTables, Request
  <2> HIDE DEF p
  <2> QED
    BY <2>3, Moves
<1>6. CASE FindBound(r) /\ ~ Serves(Bound(r), BoundModel(r))
  <2>1. \A c \in Channels \ unsure[r] : About(list, c)
    BY <1>2, <1>4, <1>6
  <2>2. Move(r, list, unsure[r])
    BY <1>3, <1>6, <2>1, Before DEF Move, FindBound, QuietTables, Request, Refuse
  <2> HIDE DEF list
  <2> QED
    BY <2>2, Moves
<1>7. CASE CheckBound(r) /\ Accessible(GroupsOf(Bound(r)), q.gids)
  <2> DEFINE p == Accept(r)
  <2>1. p \in Goroutine
    BY <1>1, <1>2, <1>7, RoutedType DEF Goroutine, Accept, CheckBound
  <2>2. p.at \notin {"new", "done"} => Binding(p) /\ \A c \in Channels \ unsure[r] : About(p, c)
    BY <1>1, <1>2, <1>7, RoutedType DEF Goroutine, Accept, CheckBound, Binding, About
  <2>3. Move(r, p, unsure[r])
    BY <1>7, <2>1, <2>2, Before DEF Move, CheckBound, QuietTables, Request
  <2> HIDE DEF p
  <2> QED
    BY <2>3, Moves
<1>8. CASE CheckBound(r) /\ ~ Accessible(GroupsOf(Bound(r)), q.gids)
  <2>1. \A c \in Channels \ unsure[r] : About(list, c)
    BY <1>2, <1>4, <1>8
  <2>2. Move(r, list, unsure[r])
    BY <1>3, <1>8, <2>1, Before DEF Move, CheckBound, QuietTables, Request, Refuse
  <2> HIDE DEF list
  <2> QED
    BY <2>2, Moves
<1>9. CASE BoundFails(r)
  <2> DEFINE p == Fail(r)
  <2>1. p \in Goroutine /\ (p.at \notin {"new", "done"} => Binding(p))
    BY <1>3, RoutedType DEF Fail, Refuse
  <2>2. Move(r, p, Channels)
    BY <1>9, <2>1, Before DEF Move, BoundFails, QuietTables, Request
  <2> HIDE DEF p
  <2> QED
    BY <2>2, Moves
<1> QED
  BY <1>5, <1>6, <1>7, <1>8, <1>9

\* The candidates are the channels that serve the model, and at last those open to the user.
LEMMA SelectMoves ==
  ASSUME IInv, NEW r \in Requests,
         List(r) \/ ListFails(r) \/ LookUpAll(r) \/ LookUpAllFails(r)
  PROVE  IInv'
<1> DEFINE q == req[r]
<1>1. /\ q \in Goroutine /\ q.listed \in Listing /\ q.at \in {"list", "groups"} /\ Binding(q)
      /\ \A c \in Channels \ unsure[r] : About(q, c)
  BY Before DEF List, ListFails, LookUpAll, LookUpAllFails, Running, Goroutine, Listing
<1>2. CASE List(r)
  <2> DEFINE matching == {c \in Channels : Serves(c, q.model)}
             l == [c \in matching |-> chan[c].priority]
             p == [q EXCEPT !.at = "groups", !.listed = l]
  <2>1. CASE matching = {}
    <3>1. Move(r, Routed(r, None), unsure[r])
      BY <1>2, <2>1, Before, RoutedType DEF Move, List, QuietTables, Request
    <3> QED
      BY <3>1, Moves
  <2>2. CASE matching # {}
    <3>1. l \in [matching -> Priorities]
      BY DEF Serves, IInv, TypeOK, Row
    <3>2. l \in Listing
      BY <3>1, ListingIs
    <3>3. p \in Goroutine
      BY <1>1, <3>2 DEF Goroutine, Listing
    <3>4. /\ p.at = "groups" /\ p.listed = l /\ p.gids = q.gids /\ p.user = q.user
          /\ p.model = q.model /\ p.map = q.map
      BY <1>1 DEF Goroutine
    <3>5. Binding(p) /\ \A c \in Channels \ unsure[r] : About(p, c)
      BY <1>1, <1>2, <3>4 DEF Binding, About, List
    <3>6. Move(r, p, unsure[r])
      BY <1>2, <2>2, <3>3, <3>5, Before DEF Move, List, QuietTables, Request
    <3> HIDE DEF p
    <3> QED
      BY <3>6, Moves
  <2> QED
    BY <2>1, <2>2
<1>3. CASE ListFails(r)
  <2>1. Move(r, Routed(r, None), Channels)
    BY <1>3, Before, RoutedType DEF Move, ListFails, QuietTables, Request
  <2> QED
    BY <2>1, Moves
<1>4. CASE LookUpAll(r)
  <2> DEFINE open == {c \in Channels : Accessible(GroupsOf(c), q.gids)}
             l == Keep(q.listed, open)
             p == [q EXCEPT !.at = "draw", !.listed = l]
  <2>1. /\ l \in Listing /\ DOMAIN l = DOMAIN q.listed \cap open
        /\ \A c \in DOMAIN l : l[c] = q.listed[c]
    <3> HIDE DEF open, q
    <3>1. /\ l \in Listing /\ DOMAIN l = DOMAIN q.listed \cap open
          /\ \A c \in DOMAIN q.listed \cap open : l[c] = q.listed[c]
      BY <1>1, KeepType
    <3> QED
      BY <3>1
  <2> HIDE DEF l
  <2>2. p \in Goroutine
    BY <1>1, <2>1 DEF Goroutine, Listing
  <2>3. /\ p.at = "draw" /\ p.listed = l /\ p.gids = q.gids /\ p.user = q.user
        /\ p.model = q.model /\ p.map = q.map
    BY <1>1 DEF Goroutine
  <2>4. Binding(p) /\ \A c \in Channels \ unsure[r] : About(p, c)
    BY <1>1, <1>4, <2>1, <2>3 DEF Binding, About, LookUpAll
  <2>5. Move(r, p, unsure[r])
    BY <1>4, <2>2, <2>4, Before DEF Move, LookUpAll, QuietTables, Request, l
  <2> HIDE DEF p
  <2> QED
    BY <2>5, Moves
<1>5. CASE LookUpAllFails(r)
  <2> DEFINE p == [q EXCEPT !.at = "single", !.left = DOMAIN q.listed]
  <2>1. p \in Goroutine
    BY <1>1, ListingIs DEF Goroutine
  <2>2. /\ p.at = "single" /\ p.listed = q.listed /\ p.gids = q.gids /\ p.user = q.user
        /\ p.model = q.model /\ p.map = q.map /\ p.left = DOMAIN q.listed
    BY <1>1 DEF Goroutine
  <2>3. Binding(p) /\ \A c \in Channels \ unsure[r] : About(p, c)
    BY <1>1, <1>5, <2>2 DEF Binding, About, LookUpAllFails
  <2>4. Move(r, p, unsure[r])
    BY <1>5, <2>1, <2>3, Before DEF Move, LookUpAllFails, QuietTables, Request
  <2> HIDE DEF p
  <2> QED
    BY <2>4, Moves
<1> QED
  BY <1>2, <1>3, <1>4, <1>5

LEMMA LookUpOneMoves ==
  ASSUME IInv, NEW r \in Requests, NEW c \in Channels, LookUpOne(r, c)
  PROVE  IInv'
<1> DEFINE q == req[r]
<1>1. /\ q \in Goroutine /\ q.listed \in Listing /\ q.at = "single" /\ c \in q.left
      /\ Binding(q) /\ \A d \in Channels \ unsure[r] : About(q, d)
  BY Before DEF LookUpOne, Running, Goroutine, Listing
<1> DEFINE at == IF q.left = {c} THEN "draw" ELSE q.at
           open == Accessible(GroupsOf(c), q.gids)
<1>2. PICK ok \in BOOLEAN :
        /\ Request(r, [q EXCEPT
             !.at = at, !.left = @ \ {c},
             !.listed = IF ~ok \/ ~open THEN Keep(@, Channels \ {c}) ELSE @])
        /\ unsure' = IF ok THEN unsure ELSE [unsure EXCEPT ![r] = @ \cup {c}]
  BY DEF LookUpOne
<1> DEFINE l == IF ~ok \/ ~open THEN Keep(q.listed, Channels \ {c}) ELSE q.listed
           rest == q.left \ {c}
           p == [q EXCEPT !.at = at, !.left = rest, !.listed = l]
           U == IF ok THEN unsure[r] ELSE unsure[r] \cup {c}
<1>3. /\ l \in Listing
      /\ \A d \in Channels : d \in DOMAIN l <=>
           d \in DOMAIN q.listed /\ (d # c \/ (ok /\ open))
      /\ \A d \in DOMAIN l : l[d] = q.listed[d]
  <2> HIDE DEF q, open
  <2>1. /\ Keep(q.listed, Channels \ {c}) \in Listing
        /\ DOMAIN Keep(q.listed, Channels \ {c}) = DOMAIN q.listed \cap (Channels \ {c})
        /\ \A d \in DOMAIN q.listed \cap (Channels \ {c}) :
             Keep(q.listed, Channels \ {c})[d] = q.listed[d]
    BY <1>1, KeepType
  <2> QED
    BY <1>1, <2>1, ListingIs
<1>a. at \in {"single", "draw"} /\ rest \in SUBSET Channels
  BY <1>1 DEF Goroutine
<1>b. Request(r, p)
  BY <1>2
<1> HIDE DEF l, at, rest
<1>4. p \in Goroutine
  BY <1>1, <1>3, <1>a DEF Goroutine, Listing
<1>5. /\ p.at = at /\ p.left = rest /\ p.listed = l /\ p.gids = q.gids
      /\ p.user = q.user /\ p.model = q.model /\ p.map = q.map
  BY <1>1 DEF Goroutine
<1>6. Binding(p)
  BY <1>1, <1>5, <1>a DEF Binding
<1>7. ASSUME NEW d \in Channels \ U PROVE About(p, d)
  <2> USE DEF at, rest
  <2>1. About(q, d)
    BY <1>1
  <2>2. CASE d # c
    BY <1>1, <1>3, <1>5, <2>1, <2>2 DEF About
  <2>3. CASE d = c
    <3>1. ok
      BY <2>3
    <3> QED
      BY <1>1, <1>3, <1>5, <2>1, <2>3, <3>1 DEF About
  <2> QED
    BY <2>2, <2>3
<1>8. unsure' = [unsure EXCEPT ![r] = U]
  BY <1>2, Before
<1>9. Move(r, p, U)
  BY <1>2, <1>4, <1>6, <1>7, <1>8, <1>b, Before DEF Move, LookUpOne, QuietTables, Request
<1> HIDE DEF p, U
<1> QED
  BY <1>9, Moves

\* What is drawn from two candidates or more, and from fewer.
LEMMA DrawChooses ==
  ASSUME IInv, NEW r \in Requests, Draw(r)
  PROVE  \E c \in Channels \cup {None} :
           /\ req' = [req EXCEPT ![r] = Routed(r, c)]
           /\ c \in Tier(req[r].listed) \/ (c = None /\ DOMAIN req[r].listed = {})
<1> DEFINE l == req[r].listed
           n == counter[req[r].model]
<1>1. /\ l \in Listing /\ DOMAIN l \subseteq Channels /\ IsFiniteSet(DOMAIN l)
      /\ l \in [DOMAIN l -> Nat]
  <2>1. l \in Listing
    BY Before DEF Goroutine, Listing
  <2> HIDE DEF l
  <2>2. DOMAIN l \subseteq Channels /\ l \in [DOMAIN l -> Priorities]
    BY <2>1, ListingIs
  <2> QED
    BY <2>1, <2>2, RoutingAssumption, FS_Subset
<1>2. CASE Cardinality(DOMAIN l) > 1
  <2>1. DOMAIN l # {}
    BY <1>2, FS_EmptySet
  <2>2. counter[req[r].model] \in Nat
    BY Before DEF Draw, Running, Binding
  <2>3. Turn(Tier(l), n) \in Tier(l)
    BY <1>1, <2>1, <2>2, DrawnFromTier
  <2>4. req' = [req EXCEPT ![r] = Routed(r, Turn(Tier(l), n))]
    BY <1>1, <1>2, FS_CardinalityType DEF Draw, Request
  <2>5. Tier(l) \subseteq Channels
    BY <1>1 DEF Tier
  <2> QED
    BY <2>3, <2>4, <2>5
<1>3. CASE Cardinality(DOMAIN l) <= 1 /\ DOMAIN l = {}
  BY <1>3 DEF Draw, Request
<1>4. CASE Cardinality(DOMAIN l) <= 1 /\ DOMAIN l # {}
  <2>1. PICK c \in DOMAIN l : DOMAIN l = {c}
    <3>1. Cardinality(DOMAIN l) = 1
      BY <1>1, <1>4, FS_CardinalityType, FS_EmptySet
    <3> QED
      BY <1>1, <3>1, FS_Singleton
  <2>2. (CHOOSE d \in DOMAIN l : TRUE) = c
    BY <2>1
  <2>3. req' = [req EXCEPT ![r] = Routed(r, c)]
    BY <1>4, <2>2 DEF Draw, Request
  <2>4. c \in Tier(l) /\ c \in Channels
    BY <1>1, <2>1 DEF Tier
  <2> QED
    BY <2>3, <2>4
<1> QED
  BY <1>1, <1>2, <1>3, <1>4, FS_CardinalityType

LEMMA DrawMoves ==
  ASSUME IInv, NEW r \in Requests, Draw(r)
  PROVE  IInv'
<1>1. PICK c \in Channels \cup {None} : req' = [req EXCEPT ![r] = Routed(r, c)]
  BY DrawChooses
<1>2. counter' \in [Models -> Nat]
  <2>1. req[r].model \in Models /\ counter \in [Models -> Nat]
    BY Before DEF Draw, Running, Binding
  <2>2. counter' \in {counter, [counter EXCEPT ![req[r].model] = @ + 1]}
    BY DEF Draw
  <2> QED
    BY <2>1, <2>2
<1>3. UNCHANGED <<tables, edit, unsure>>
  BY DEF Draw, QuietTables
<1>4. Move(r, Routed(r, c), unsure[r])
  BY <1>1, <1>2, <1>3, Before, RoutedType DEF Move
<1> QED
  BY <1>4, Moves

\* Every step of a request preserves the invariant.
LEMMA RequestSteps ==
  ASSUME IInv, NEW r \in Requests, RequestStep(r)
  PROVE  IInv'
BY ArriveMoves, MapMoves, BoundMoves, SelectMoves, LookUpOneMoves, DrawMoves DEF RequestStep
-----------------------------------------------------------------------------
(* The administrators' steps.                                              *)

Tables ==
  /\ chan \in [Channels -> Row \cup {None}]
  /\ groups \subseteq Groups
  /\ chanGroups \subseteq {c \in Channels : chan[c] # None} \X groups
  /\ userGroups \subseteq Users \X groups
  /\ edit \in [Admins -> {Free} \cup Form \cup OfChannel \cup OfGroup]

\* For a request that runs, what an edit changes is of channels it is then unsure of.
Settled(r, c) ==
  /\ c \notin unsure[r] /\ chan'[c] = chan[c] /\ GroupsOf(c)' = GroupsOf(c)
  /\ MembershipOf(req[r].user)' = MembershipOf(req[r].user)

Edited ==
  /\ Tables' /\ req' = req /\ counter' = counter
  /\ unsure' \in [Requests -> SUBSET Channels]
  /\ \A r \in Requests : Running(r) => \A c \in Channels \ unsure'[r] : Settled(r, c)

LEMMA EditedKnows ==
  ASSUME IInv, Edited
  PROVE  IInv'
<1>1. TypeOK'
  BY DEF IInv, TypeOK, Edited, Tables
<1>2. ASSUME NEW r \in Requests PROVE Knows(r)'
  <2> SUFFICES ASSUME Running(r)'
               PROVE  (Binding(req[r]) /\ \A c \in Channels \ unsure[r] : About(req[r], c))'
    BY DEF Knows
  <2>1. Running(r) /\ Knows(r) /\ req' = req
    BY DEF Running, Edited, IInv, Knowing
  <2>2. Binding(req[r])'
    BY <2>1 DEF Knows, Binding
  <2>3. ASSUME NEW c \in Channels \ unsure'[r] PROVE About(req[r], c)'
    <3>1. About(req[r], c) /\ Settled(r, c)
      BY <2>1 DEF Knows, Edited, Settled
    <3>2. \A m : Serves(c, m)' <=> Serves(c, m)
      BY <3>1 DEF Settled, Serves
    <3> QED
      BY <2>1, <3>1, <3>2 DEF About, Settled, Accessible
  <2> QED
    BY <2>2, <2>3
<1> QED
  BY <1>1, <1>2 DEF IInv, Knowing

LEMMA Unsettled ==
  ASSUME IInv, NEW C \in SUBSET Channels, Unsettle(C), QuietRequests, Tables',
         userGroups' = userGroups \/ C = Channels,
         \A c \in Channels \ C : chan'[c] = chan[c] /\ GroupsOf(c)' = GroupsOf(c)
  PROVE  Edited
<1>1. /\ unsure \in [Requests -> SUBSET Channels] /\ req' = req /\ counter' = counter
      /\ unsure' = [r \in Requests |-> IF Running(r) THEN unsure[r] \cup C ELSE {}]
  BY DEF IInv, TypeOK, Unsettle, QuietRequests
<1>2. unsure' \in [Requests -> SUBSET Channels]
  BY <1>1
<1>3. ASSUME NEW r \in Requests, Running(r), NEW c \in Channels \ unsure'[r] PROVE Settled(r, c)
  <2>1. c \notin unsure[r] /\ c \notin C
    BY <1>1, <1>3
  <2>2. userGroups' = userGroups
    BY <2>1
  <2>3. MembershipOf(req[r].user)' = MembershipOf(req[r].user)
    BY <1>1, <2>2 DEF MembershipOf
  <2> QED
    BY <2>1, <2>3 DEF Settled
<1> QED
  BY <1>1, <1>2, <1>3 DEF Edited

\* Steps that touch neither channels nor memberships.
LEMMA Untouched ==
  ASSUME IInv, QuietRequests, Tables', chan' = chan, chanGroups' = chanGroups,
         userGroups' = userGroups, unsure' = unsure
  PROVE  Edited
<1>1. \A c \in Channels : GroupsOf(c)' = GroupsOf(c)
  BY DEF GroupsOf
<1>2. \A r \in Requests : MembershipOf(req[r].user)' = MembershipOf(req[r].user)
  BY DEF MembershipOf, QuietRequests
<1> QED
  BY <1>1, <1>2 DEF Edited, Settled, IInv, TypeOK, QuietRequests

LEMMA EditIs ==
  ASSUME IInv, NEW a \in Admins
  PROVE  /\ edit[a].at = "update" => edit[a] \in Form
         /\ edit[a].at \in {"groups", "delete", "enable", "disable"} => edit[a] \in OfChannel
         /\ edit[a].at \in {"dropUsers", "dropChannels", "dropGroup"} => edit[a] \in OfGroup
         /\ [edit EXCEPT ![a] = Free] \in [Admins -> {Free} \cup Form \cup OfChannel \cup OfGroup]
BY DEF IInv, TypeOK, Free, Form, OfChannel, OfGroup

LEMMA SavedType == ASSUME NEW row \in Rows PROVE Saved(row) \in Row /\ Saved(row) # None
BY RoutingAssumption DEF Saved, Row

\* The edits of a channel change what is known of that channel alone.
LEMMA ChannelEdits ==
  ASSUME IInv, NEW a \in Admins,
         \/ \E c \in Channels, row \in Rows, gs \in SUBSET Groups :
              CreateChannel(a, c, row, gs) \/ BeginUpdate(a, c, row, gs)
         \/ \E c \in Channels, what \in {"delete", "enable", "disable"} : BeginOther(a, c, what)
         \/ SaveRow(a) \/ SaveGroups(a) \/ LoseGroups(a) \/ SaveOther(a)
  PROVE  Edited
<1> USE DEF Tables
<1>1. Tables
  BY DEF IInv, TypeOK
<1>2. ASSUME NEW c \in Channels, NEW row \in Rows, NEW gs \in SUBSET Groups,
             CreateChannel(a, c, row, gs)
      PROVE  Edited
  <2>1. edit' \in [Admins -> {Free} \cup Form \cup OfChannel \cup OfGroup]
    BY <1>1, <1>2 DEF CreateChannel, OfChannel
  <2>2. Tables'
    BY <1>1, <1>2, <2>1, SavedType DEF CreateChannel
  <2>3. \A d \in Channels \ {c} : chan'[d] = chan[d] /\ GroupsOf(d)' = GroupsOf(d)
    BY <1>1, <1>2 DEF CreateChannel, GroupsOf
  <2> QED
    BY <1>2, <2>2, <2>3, Unsettled DEF CreateChannel
<1>3. ASSUME NEW c \in Channels, NEW row \in Rows, NEW gs \in SUBSET Groups,
             BeginUpdate(a, c, row, gs)
      PROVE  Edited
  <2>1. edit' \in [Admins -> {Free} \cup Form \cup OfChannel \cup OfGroup]
    BY <1>1, <1>3, SavedType DEF BeginUpdate, Call, Form
  <2>2. Tables'
    BY <1>1, <1>3, <2>1 DEF BeginUpdate, tables
  <2> QED
    BY <1>3, <2>2, Untouched DEF BeginUpdate, tables
<1>4. ASSUME NEW c \in Channels, NEW what \in {"delete", "enable", "disable"},
             BeginOther(a, c, what)
      PROVE  Edited
  <2>1. edit' \in [Admins -> {Free} \cup Form \cup OfChannel \cup OfGroup]
    BY <1>1, <1>4 DEF BeginOther, Call, OfChannel
  <2>2. Tables'
    BY <1>1, <1>4, <2>1 DEF BeginOther, tables
  <2> QED
    BY <1>4, <2>2, Untouched DEF BeginOther, tables
<1>5. CASE SaveRow(a)
  <2> DEFINE c == edit[a].id
  <2>1. edit[a] \in Form /\ c \in Channels /\ edit[a].row \in Row /\ edit[a].row # None
    BY <1>5, EditIs, RoutingAssumption DEF SaveRow, Form
  <2>2. [edit[a] EXCEPT !.at = "groups"] \in OfChannel
    BY <2>1 DEF Form, OfChannel
  <2>3. edit' \in [Admins -> {Free} \cup Form \cup OfChannel \cup OfGroup]
    BY <1>1, <1>5, <2>2 DEF SaveRow, Go
  <2>4. Tables'
    BY <1>1, <1>5, <2>1, <2>3 DEF SaveRow
  <2>5. \A d \in Channels \ {c} : chan'[d] = chan[d] /\ GroupsOf(d)' = GroupsOf(d)
    BY <1>1, <1>5 DEF SaveRow, GroupsOf
  <2> QED
    BY <1>5, <2>1, <2>4, <2>5, Unsettled DEF SaveRow
<1>6. CASE SaveGroups(a)
  <2> DEFINE c == edit[a].id
  <2>1. c \in Channels /\ edit[a].gids \subseteq Groups
    BY <1>6, EditIs DEF SaveGroups, OfChannel
  <2>2. edit' \in [Admins -> {Free} \cup Form \cup OfChannel \cup OfGroup]
    BY <1>6, EditIs DEF SaveGroups, Return
  <2>3. Tables'
    BY <1>1, <1>6, <2>1, <2>2 DEF SaveGroups
  <2>4. \A d \in Channels \ {c} : chan'[d] = chan[d] /\ GroupsOf(d)' = GroupsOf(d)
    BY <1>1, <1>6 DEF SaveGroups, GroupsOf
  <2> QED
    BY <1>6, <2>1, <2>3, <2>4, Unsettled DEF SaveGroups
<1>7. CASE LoseGroups(a)
  <2>1. Tables'
    BY <1>1, <1>7, EditIs DEF LoseGroups, Return, tables
  <2> QED
    BY <1>7, <2>1, Untouched DEF LoseGroups, tables
<1>8. CASE SaveOther(a)
  <2> DEFINE c == edit[a].id
  <2>1. c \in Channels
    BY <1>8, EditIs DEF SaveOther, OfChannel
  <2>2. edit' \in [Admins -> {Free} \cup Form \cup OfChannel \cup OfGroup]
    BY <1>8, EditIs DEF SaveOther, Return
  <2>3. Tables'
    <3>1. CASE edit[a].at = "delete"
      BY <1>1, <1>8, <2>1, <2>2, <3>1 DEF SaveOther
    <3>2. CASE edit[a].at \in {"enable", "disable"}
      <4>1. ASSUME NEW on \in BOOLEAN, NEW row \in Row
            PROVE  [row EXCEPT !.on = on] \in Row /\ [row EXCEPT !.on = on] # None
        BY RoutingAssumption DEF Row
      <4>2. chan' = [chan EXCEPT ![c] = IF @ = None THEN None
                                        ELSE [@ EXCEPT !.on = (edit[a].at = "enable")]]
        BY <1>8, <3>2 DEF SaveOther
      <4>3. /\ chan' \in [Channels -> Row \cup {None}]
            /\ \A d \in Channels : chan'[d] = None <=> chan[d] = None
        BY <1>1, <2>1, <4>1, <4>2
      <4> QED
        BY <1>1, <1>8, <2>2, <3>2, <4>3 DEF SaveOther
    <3> QED
      BY <1>8, <3>1, <3>2 DEF SaveOther
  <2>4. \A d \in Channels \ {c} : chan'[d] = chan[d] /\ GroupsOf(d)' = GroupsOf(d)
    BY <1>1, <1>8 DEF SaveOther, GroupsOf
  <2> QED
    BY <1>8, <2>1, <2>3, <2>4, Unsettled DEF SaveOther
<1> QED
  BY <1>2, <1>3, <1>4, <1>5, <1>6, <1>7, <1>8

\* The statements of a group's deletion change the channels that the group could use.
LEMMA GroupEdits ==
  ASSUME IInv, NEW a \in Admins,
         \/ \E g \in Groups : CreateGroup(a, g) \/ BeginDeleteGroup(a, g)
         \/ DropUsers(a) \/ DropChannels(a) \/ DropGroup(a) \/ KeepGroup(a)
  PROVE  Edited
<1> USE DEF Tables
<1>1. Tables
  BY DEF IInv, TypeOK
<1>2. ASSUME NEW g \in Groups, CreateGroup(a, g) PROVE Edited
  <2>1. Tables'
    BY <1>1, <1>2 DEF CreateGroup
  <2> QED
    BY <1>2, <2>1, Untouched DEF CreateGroup
<1>3. ASSUME NEW g \in Groups, BeginDeleteGroup(a, g) PROVE Edited
  <2>1. Tables'
    BY <1>1, <1>3 DEF BeginDeleteGroup, Call, tables, OfGroup
  <2> QED
    BY <1>3, <2>1, Untouched DEF BeginDeleteGroup, tables
<1>4. CASE DropUsers(a)
  <2> DEFINE C == IF userGroups' = userGroups THEN {} ELSE Channels
  <2>1. edit' \in [Admins -> {Free} \cup Form \cup OfChannel \cup OfGroup]
    BY <1>1, <1>4, EditIs DEF DropUsers, Go, OfGroup
  <2>2. Tables'
    BY <1>1, <1>4, <2>1 DEF DropUsers
  <2>3. \A c \in Channels : chan'[c] = chan[c] /\ GroupsOf(c)' = GroupsOf(c)
    BY <1>4 DEF DropUsers, GroupsOf
  <2>4. Unsettle(C) /\ QuietRequests /\ (userGroups' = userGroups \/ C = Channels)
    BY <1>4 DEF DropUsers
  <2> HIDE DEF C
  <2>5. C \in SUBSET Channels
    BY DEF C
  <2> QED
    BY <2>2, <2>3, <2>4, <2>5, Unsettled
<1>5. CASE DropChannels(a)
  <2> DEFINE C == IF chanGroups' = chanGroups THEN {} ELSE Holding(edit[a].id)
  <2>1. edit' \in [Admins -> {Free} \cup Form \cup OfChannel \cup OfGroup]
    BY <1>1, <1>5, EditIs DEF DropChannels, Go, OfGroup
  <2>2. Tables'
    BY <1>1, <1>5, <2>1 DEF DropChannels
  <2>3. \A c \in Channels \ C : chan'[c] = chan[c] /\ GroupsOf(c)' = GroupsOf(c)
    BY <1>5 DEF DropChannels, GroupsOf, Holding
  <2>4. Unsettle(C) /\ QuietRequests /\ userGroups' = userGroups
    BY <1>5 DEF DropChannels
  <2>5. C \in SUBSET Channels
    BY DEF Holding
  <2> HIDE DEF C
  <2> QED
    BY <2>2, <2>3, <2>4, <2>5, Unsettled
<1>6. CASE DropGroup(a)
  <2> DEFINE g == edit[a].id
             C == IF userGroups' = userGroups THEN Holding(g) ELSE Channels
  <2>1. edit' \in [Admins -> {Free} \cup Form \cup OfChannel \cup OfGroup]
    BY <1>6, EditIs DEF DropGroup, Return
  <2>2. Tables'
    BY <1>1, <1>6, <2>1 DEF DropGroup
  <2>3. \A c \in Channels \ C : chan'[c] = chan[c] /\ GroupsOf(c)' = GroupsOf(c)
    BY <1>6 DEF DropGroup, GroupsOf, Holding
  <2>4. Unsettle(C) /\ QuietRequests /\ (userGroups' = userGroups \/ C = Channels)
    BY <1>6 DEF DropGroup
  <2>5. C \in SUBSET Channels
    BY DEF Holding
  <2> HIDE DEF C
  <2> QED
    BY <2>2, <2>3, <2>4, <2>5, Unsettled
<1>7. CASE KeepGroup(a)
  <2>1. Tables'
    BY <1>1, <1>7, EditIs DEF KeepGroup, Return, tables
  <2> QED
    BY <1>7, <2>1, Untouched DEF KeepGroup, tables
<1> QED
  BY <1>2, <1>3, <1>4, <1>5, <1>6, <1>7

\* New memberships are unknown to the requests of that user.
LEMMA MembershipEdits ==
  ASSUME IInv, NEW a \in Admins, NEW u \in Users, NEW gs \in SUBSET Groups,
         SetUserGroups(a, u, gs)
  PROVE  Edited
<1> USE DEF SetUserGroups, QuietRequests
<1>1. Tables'
  BY DEF IInv, TypeOK, Tables
<1>2. unsure' \in [Requests -> SUBSET Channels]
  BY DEF IInv, TypeOK
<1>3. ASSUME NEW r \in Requests, Running(r), NEW c \in Channels \ unsure'[r] PROVE Settled(r, c)
  <2>1. req[r].user # u /\ unsure'[r] = unsure[r]
    BY <1>3
  <2>2. MembershipOf(req[r].user)' = MembershipOf(req[r].user)
    BY <2>1 DEF MembershipOf
  <2>3. GroupsOf(c)' = GroupsOf(c)
    BY DEF GroupsOf
  <2> QED
    BY <2>1, <2>2, <2>3 DEF Settled
<1> QED
  BY <1>1, <1>2, <1>3 DEF Edited
-----------------------------------------------------------------------------
LEMMA InitInvariant == Init => IInv
<1> SUFFICES ASSUME Init PROVE IInv
  OBVIOUS
<1>1. PICK s \in Starts : /\ chan = s.chan /\ groups = s.groups
                          /\ chanGroups = s.chanGroups /\ userGroups = s.userGroups
  BY DEF Init
<1>2. TypeOK
  BY <1>1, StartsAssumption, IdleType DEF Init, TypeOK
<1>3. Knowing
  BY DEF Init, Knowing, Knows, Running, Idle
<1> QED
  BY <1>2, <1>3 DEF IInv

LEMMA NextInvariant == IInv /\ [Next]_vars => IInv'
<1> SUFFICES ASSUME IInv, [Next]_vars PROVE IInv'
  OBVIOUS
<1>1. ASSUME NEW r \in Requests, RequestStep(r) PROVE IInv'
  BY <1>1, RequestSteps
<1>2. ASSUME NEW a \in Admins, AdminStep(a) PROVE IInv'
  <2>1. Edited
    BY <1>2, ChannelEdits, GroupEdits, MembershipEdits DEF AdminStep
  <2> QED
    BY <2>1, EditedKnows
<1>3. CASE UNCHANGED vars
  <2>1. Tables'
    BY <1>3 DEF IInv, TypeOK, Tables, vars, tables
  <2>2. Edited
    BY <1>3, <2>1, Untouched DEF vars, tables, QuietRequests
  <2> QED
    BY <2>2, EditedKnows
<1> QED
  BY <1>1, <1>2, <1>3 DEF Next, Rest

LEMMA Invariant == Spec => []IInv
BY InitInvariant, NextInvariant, PTL DEF Spec

\* The tables and the goroutines keep their types.
THEOREM TypeCorrect == Spec => []TypeOK
<1>1. IInv => TypeOK
  BY DEF IInv
<1> QED
  BY <1>1, Invariant, PTL
-----------------------------------------------------------------------------
(* What is decided.                                                        *)

\* Only these steps decide for a request.
LEMMA Deciding ==
  ASSUME IInv, [Next]_vars, NEW r \in Requests, Decides(r)
  PROVE  CheckBound(r) \/ BoundFails(r) \/ List(r) \/ ListFails(r) \/ Draw(r)
<1> USE DEF Decides
<1>1. req' # req
  OBVIOUS
<1>2. ASSUME NEW a \in Admins, AdminStep(a) PROVE FALSE
  <2>1. Edited
    BY <1>2, ChannelEdits, GroupEdits, MembershipEdits DEF AdminStep
  <2> QED
    BY <1>1, <2>1 DEF Edited
<1>3. PICK o \in Requests : RequestStep(o)
  BY <1>1, <1>2 DEF Next, Rest, vars
<1>4. CASE Draw(o)
  <2>1. PICK q : req' = [req EXCEPT ![o] = q]
    BY <1>4, DrawChooses
  <2> QED
    BY <1>4, <2>1 DEF IInv, TypeOK
<1>5. CASE CheckBound(o) \/ BoundFails(o) \/ List(o) \/ ListFails(o)
  <2>1. PICK q : req' = [req EXCEPT ![o] = q]
    BY <1>5 DEF CheckBound, BoundFails, List, ListFails, Request
  <2> QED
    BY <1>5, <2>1 DEF IInv, TypeOK
<1> DEFINE Continues == req'[o].at # "done" /\ \A p \in Requests \ {o} : req'[p] = req[p]
<1>6. /\ req[o] \in Goroutine /\ Idle \in Goroutine
      /\ DOMAIN req = Requests /\ req \in [Requests -> Goroutine]
  BY Before, IdleType DEF IInv, TypeOK
<1>7. ASSUME \/ \E u \in Users, m \in Models : Arrive(o, u, m)
             \/ Unmapped(o)
             \/ \E mp \in Mappings : MapModel(o, mp) \/ MapChannel(o, mp)
             \/ FindBound(o) \/ LookUpAll(o) \/ LookUpAllFails(o)
      PROVE  FALSE
  <2>1. ASSUME NEW u \in Users, NEW m \in Models, Arrive(o, u, m) PROVE Continues
    BY <1>6, <2>1 DEF Arrive, Request, Goroutine, Idle
  <2>2. CASE Unmapped(o)
    BY <1>6, <2>2 DEF Unmapped, Request, Goroutine
  <2>3. ASSUME NEW mp \in Mappings, MapModel(o, mp) PROVE Continues
    BY <1>6, <2>3 DEF MapModel, Request, Goroutine
  <2>4. ASSUME NEW mp \in Mappings, MapChannel(o, mp) PROVE Continues
    BY <1>6, <2>4 DEF MapChannel, Request, Goroutine
  <2>5. CASE FindBound(o)
    BY <1>6, <2>5 DEF FindBound, Request, Refuse, Goroutine
  <2>6. CASE LookUpAll(o)
    BY <1>6, <2>6 DEF LookUpAll, Request, Goroutine
  <2>7. CASE LookUpAllFails(o)
    BY <1>6, <2>7 DEF LookUpAllFails, Request, Goroutine
  <2> QED
    BY <1>7, <2>1, <2>2, <2>3, <2>4, <2>5, <2>6, <2>7
<1>8. ASSUME NEW c \in Channels, LookUpOne(o, c) PROVE FALSE
  <2>1. PICK q : req' = [req EXCEPT ![o] = q] /\ q.at # "done"
    <3> DEFINE at == IF req[o].left = {c} THEN "draw" ELSE req[o].at
    <3>1. at # "done"
      BY <1>8 DEF LookUpOne
    <3>2. PICK l, s : Request(o, [req[o] EXCEPT !.at = at, !.left = s, !.listed = l])
      BY <1>8 DEF LookUpOne
    <3> HIDE DEF at
    <3>3. req[o] \in Goroutine
      BY Before
    <3>4. [req[o] EXCEPT !.at = at, !.left = s, !.listed = l].at = at
      BY <3>3 DEF Goroutine
    <3> QED
      BY <3>1, <3>2, <3>4 DEF Request
  <2> QED
    BY <2>1 DEF IInv, TypeOK
<1> QED
  BY <1>3, <1>4, <1>5, <1>7, <1>8 DEF RequestStep

ChosenUsable(r) == req'[r].chosen \in {None} \cup unsure'[r] \cup Sure(r, req'[r].model)

ChosenBest(r) ==
  Sure(r, req'[r].model) # {} =>
    LET c == req'[r].chosen IN
    /\ c # None
    /\ \/ c = req[r].want
       \/ \A d \in Sure(r, req'[r].model) : req[r].listed[c] <= chan[d].priority

ChosenBound(r) ==
  req[r].map # None =>
    (req[r].map.prefer \in Sure(r, req[r].map.to) =>
       req'[r].chosen = req[r].map.prefer /\ req'[r].model = req[r].map.to)

\* A bound channel: it was found to serve the model, and is open to the user.
LEMMA BoundDecision ==
  ASSUME IInv, NEW r \in Requests, CheckBound(r), Decides(r)
  PROVE  ChosenUsable(r) /\ ChosenBest(r) /\ ChosenBound(r)
<1> DEFINE q == req[r]
<1>1. /\ q \in Goroutine /\ Binding(q) /\ unsure' = unsure
      /\ \A c \in Channels \ unsure[r] : About(q, c)
      /\ req' = [req EXCEPT ![r] = req'[r]]
  BY Before DEF CheckBound, Running, Request, IInv, TypeOK
<1>2. q.at = "check" /\ Accessible(GroupsOf(q.want), q.gids) /\ req'[r] = Routed(r, q.want)
  <2>1. CASE ~ Accessible(GroupsOf(Bound(r)), q.gids)
    BY <1>1, <2>1 DEF CheckBound, Decides, Request, Refuse, Goroutine, IInv, TypeOK
  <2>2. CASE Accessible(GroupsOf(Bound(r)), q.gids) /\ q.at = "mapCheck"
    <3>1. PICK m, w : req' = [req EXCEPT ![r] = [q EXCEPT !.at = "find", !.model = m, !.want = w]]
      BY <2>2 DEF CheckBound, Request, Accept
    <3>2. [q EXCEPT !.at = "find", !.model = m, !.want = w].at = "find"
      BY <1>1 DEF Goroutine
    <3>3. req'[r].at = "find"
      BY <3>1, <3>2 DEF IInv, TypeOK
    <3> QED
      BY <3>3 DEF Decides
  <2>3. CASE Accessible(GroupsOf(Bound(r)), q.gids) /\ q.at = "check"
    BY <1>1, <2>3 DEF CheckBound, Decides, Request, Accept, Bound, IInv, TypeOK
  <2> QED
    BY <2>1, <2>2, <2>3 DEF CheckBound
<1>3. /\ q.want = q.map.prefer /\ q.model = q.map.to /\ q.want \in Channels
      /\ req'[r].chosen = q.want /\ req'[r].model = q.model
  BY <1>1, <1>2, RoutedType DEF Binding
<1>4. q.want \notin unsure[r] => Usable(q.want, q.user, q.model)
  BY <1>1, <1>2, <1>3 DEF About, Usable
<1> QED
  BY <1>1, <1>3, <1>4, RoutingAssumption DEF ChosenUsable, ChosenBest, ChosenBound, Sure

\* After an error nothing is known; the request is routed to no channel.
LEMMA FailedDecision ==
  ASSUME IInv, NEW r \in Requests, BoundFails(r) \/ ListFails(r), Decides(r)
  PROVE  ChosenUsable(r) /\ ChosenBest(r) /\ ChosenBound(r)
<1>1. unsure'[r] = Channels
  BY DEF BoundFails, ListFails, IInv, TypeOK
<1>2. \A m : Sure(r, m) = {}
  BY <1>1 DEF Sure
<1>3. req'[r].chosen = None
  <2>1. req'[r] = Routed(r, None) \/ req'[r] = Refuse(r)
    BY DEF BoundFails, ListFails, Fail, Request, IInv, TypeOK
  <2>2. Refuse(r).at # "done"
    BY Before DEF Refuse, Goroutine
  <2> QED
    BY <2>1, <2>2, RoutedType DEF Decides
<1> QED
  BY <1>2, <1>3 DEF ChosenUsable, ChosenBest, ChosenBound

\* No channel serves the model.
LEMMA EmptyDecision ==
  ASSUME IInv, NEW r \in Requests, List(r), Decides(r)
  PROVE  ChosenUsable(r) /\ ChosenBest(r) /\ ChosenBound(r)
<1> DEFINE q == req[r]
<1>1. /\ q \in Goroutine /\ q.at = "list" /\ unsure' = unsure
      /\ \A c \in Channels \ unsure[r] : About(q, c)
  BY Before DEF List, Running
<1>2. {c \in Channels : Serves(c, q.model)} = {} /\ req'[r] = Routed(r, None)
  <2>1. CASE {c \in Channels : Serves(c, q.model)} = {}
    BY <2>1 DEF List, Request, IInv, TypeOK
  <2>2. CASE {c \in Channels : Serves(c, q.model)} # {}
    <3>1. req'[r].at = "groups"
      BY <1>1, <2>2 DEF List, Request, IInv, TypeOK, Goroutine
    <3> QED
      BY <3>1 DEF Decides
  <2> QED
    BY <2>1, <2>2
<1>3. req'[r].chosen = None /\ req'[r].model = q.model
  BY <1>2, RoutedType
<1>4. Sure(r, q.model) = {}
  BY <1>2 DEF Sure, Usable
<1>5. ChosenBound(r)
  BY <1>1 DEF ChosenBound, Sure, Usable, About
<1> QED
  BY <1>3, <1>4, <1>5 DEF ChosenUsable, ChosenBest

\* The candidates are, as far as the request knows, the usable channels.
LEMMA DrawnDecision ==
  ASSUME IInv, NEW r \in Requests, Draw(r)
  PROVE  ChosenUsable(r) /\ ChosenBest(r) /\ ChosenBound(r)
<1> DEFINE q == req[r]
<1>1. /\ q \in Goroutine /\ q.at = "draw" /\ unsure' = unsure
      /\ \A c \in Channels \ unsure[r] : About(q, c)
  BY Before DEF Draw, Running
<1>2. PICK c \in Channels \cup {None} :
        /\ req' = [req EXCEPT ![r] = Routed(r, c)]
        /\ c \in Tier(q.listed) \/ (c = None /\ DOMAIN q.listed = {})
  BY DrawChooses
<1>3. req'[r].chosen = c /\ req'[r].model = q.model
  BY <1>2, RoutedType DEF IInv, TypeOK
<1>4. ASSUME NEW d \in Channels \ unsure[r]
      PROVE  d \in DOMAIN q.listed <=> Usable(d, q.user, q.model)
  BY <1>1 DEF About, Usable
<1>5. ASSUME NEW d \in Channels \ unsure[r], d \in DOMAIN q.listed
      PROVE  q.listed[d] = chan[d].priority
  BY <1>1, <1>5 DEF About
<1>6. ChosenUsable(r)
  BY <1>1, <1>2, <1>3, <1>4 DEF ChosenUsable, Sure, Tier
<1>7. ChosenBest(r)
  <2> SUFFICES ASSUME Sure(r, q.model) # {}
               PROVE  c # None /\ \A d \in Sure(r, q.model) : q.listed[c] <= chan[d].priority
    BY <1>3 DEF ChosenBest
  <2>1. \A d \in Sure(r, q.model) :
          d \in DOMAIN q.listed /\ q.listed[d] = chan[d].priority
    BY <1>1, <1>4, <1>5 DEF Sure
  <2>2. c \in Tier(q.listed) /\ DOMAIN q.listed \subseteq Channels
    BY <1>1, <1>2, <2>1, ListingIs DEF Goroutine, Listing
  <2> QED
    BY <2>1, <2>2, RoutingAssumption DEF Tier
<1>8. ChosenBound(r)
  BY <1>1 DEF ChosenBound, Sure, Usable, About
<1> QED
  BY <1>6, <1>7, <1>8

LEMMA Decided ==
  ASSUME IInv, [Next]_vars, NEW r \in Requests, Decides(r)
  PROVE  ChosenUsable(r) /\ ChosenBest(r) /\ ChosenBound(r)
BY Deciding, BoundDecision, FailedDecision, EmptyDecision, DrawnDecision

\* No request is routed to a channel that is disabled, does not match or is closed to its user,
\* unless it was edited meanwhile, however many requests and administrators there are.
THEOREM RoutedToUsable == Spec => OnlyUsable
<1>1. ASSUME IInv, [Next]_vars, NEW r \in Requests, Decides(r)
      PROVE  req'[r].chosen \in {None} \cup unsure'[r] \cup Sure(r, req'[r].model)
  BY <1>1, Decided DEF ChosenUsable
<1>2. IInv /\ [Next]_vars =>
        [\A r \in Requests : Decides(r) =>
           req'[r].chosen \in {None} \cup unsure'[r] \cup Sure(r, req'[r].model)]_vars
  BY <1>1
<1> QED
  BY <1>2, Invariant, PTL DEF Spec, OnlyUsable

\* No usable channel of a better priority is passed over.
THEOREM RoutedToBest == Spec => BestTier
<1>1. IInv /\ [Next]_vars =>
        [\A r \in Requests : Decides(r) /\ Sure(r, req'[r].model) # {} =>
           LET c == req'[r].chosen IN
           /\ c # None
           /\ \/ c = req[r].want
              \/ \A d \in Sure(r, req'[r].model) : req[r].listed[c] <= chan[d].priority]_vars
  BY Decided DEF ChosenBest
<1> QED
  BY <1>1, Invariant, PTL DEF Spec, BestTier

\* A mapping that binds a usable channel is carried out.
THEOREM BoundIsServed == Spec => BoundServed
<1>1. IInv /\ [Next]_vars =>
        [\A r \in Requests : Decides(r) /\ req[r].map # None =>
           (req[r].map.prefer \in Sure(r, req[r].map.to) =>
              req'[r].chosen = req[r].map.prefer /\ req'[r].model = req[r].map.to)]_vars
  BY Decided DEF ChosenBound
<1> QED
  BY <1>1, Invariant, PTL DEF Spec, BoundServed
-----------------------------------------------------------------------------
(* The turns.                                                              *)

\* What \div and % are to each other.
LEMMA Division ==
  ASSUME NEW a \in Nat, NEW n \in Nat \ {0}
  PROVE  a % n \in 0..(n - 1) /\ a \div n \in Nat /\ a = n * (a \div n) + (a % n)
<1> DEFINE x == a \div n
           r == a % n
<1>1. r \in 0..(n - 1) /\ x \in Nat
  OBVIOUS
<1>2. r = a - n * x
  OBVIOUS
<1> HIDE DEF x, r
<1>3. n * x \in Int
  BY <1>1
<1>4. a = n * x + r
  BY <1>1, <1>2, <1>3
<1> QED
  BY <1>1, <1>4 DEF x, r

\* A remainder is known by its range.
LEMMA Remainder ==
  ASSUME NEW n \in Nat \ {0}, NEW b \in Nat, NEW r \in 0..(n - 1), NEW a \in Nat, a = n * b + r
  PROVE  a % n = r
OBVIOUS

\* Multiplication is distributive here.
LEMMA OneMoreTime == ASSUME NEW n \in Int, NEW b \in Int PROVE n * (b + 1) = n * b + n
OBVIOUS

\* A round of n turns, from anywhere in it.
LEMMA RemainderAfter ==
  ASSUME NEW n \in Nat \ {0}, NEW a \in Nat, NEW d \in 0..(n - 1)
  PROVE  (a + d) % n = IF (a % n) + d < n THEN (a % n) + d ELSE (a % n) + d - n
<1> DEFINE b == a \div n
           r == a % n
<1>1. b \in Nat /\ r \in 0..(n - 1) /\ a = n * b + r
  BY Division
<1>2. n * (b + 1) = n * b + n /\ n * b \in Nat
  BY <1>1, OneMoreTime
<1> HIDE DEF b, r
<1>3. CASE r + d < n
  <2>1. a + d = n * b + (r + d) /\ r + d \in 0..(n - 1) /\ a + d \in Nat
    BY <1>1, <1>2, <1>3
  <2>2. (a + d) % n = r + d
    BY <1>1, <2>1, Remainder
  <2> QED
    BY <1>3, <2>2 DEF r
<1>4. CASE r + d >= n
  <2>1. PICK c \in Nat, e \in 0..(n - 1) : c = b + 1 /\ e = r + d - n
    BY <1>1, <1>4
  <2>2. a + d = n * c + e /\ a + d \in Nat
    BY <1>1, <1>2, <2>1
  <2>3. \A z \in Nat : z = n * c + e => z % n = e
    BY Remainder
  <2>4. ~(r + d < n)
    BY <1>1, <1>4
  <2> QED
    BY <2>1, <2>2, <2>3, <2>4 DEF r
<1> QED
  BY <1>1, <1>3, <1>4

\* The same position comes again after a round at the earliest.
LEMMA RoundApart ==
  ASSUME NEW n \in Nat \ {0}, NEW a \in Nat, NEW b \in Nat, a < b, a % n = b % n
  PROVE  a + n <= b
<1> DEFINE x == a \div n
           y == b \div n
           r == a % n
<1>1. x \in Nat /\ y \in Nat /\ r \in 0..(n - 1) /\ a = n * x + r /\ b = n * y + r
  BY Division
<1> HIDE DEF x, y, r
<1>2. CASE x < y
  <2>1. n * x + n <= n * y
    BY <1>1, <1>2
  <2>2. n * x \in Nat /\ n * y \in Nat
    BY <1>1
  <2> QED
    BY <1>1, <2>1, <2>2
<1>3. CASE x >= y
  <2>1. n * y <= n * x /\ n * x \in Nat /\ n * y \in Nat
    BY <1>1, <1>3
  <2> QED
    BY <1>1, <2>1
<1> QED
  BY <1>1, <1>2, <1>3

\* Which of the turns from number b on fall to position p of n.
Turns(n, b, len, p) == {k \in 1..len : (b + k - 1) % n = p}

\* No position has two turns more than another.
LEMMA TurnsEven ==
  ASSUME NEW n \in Nat \ {0}, NEW b \in Nat, NEW len \in Nat,
         NEW p \in 0..(n - 1), NEW q \in 0..(n - 1)
  PROVE  Cardinality(Turns(n, b, len, p)) <= Cardinality(Turns(n, b, len, q)) + 1
<1> DEFINE P == Turns(n, b, len, p)
           Q == Turns(n, b, len, q)
           A == {k \in P : k + n <= len}
           d == IF q >= p THEN q - p ELSE q - p + n
           f == [k \in A |-> k + d]
<1>1. d \in 0..(n - 1)
  OBVIOUS
<1>2. /\ P \in SUBSET (1..len) /\ Q \in SUBSET (1..len)
      /\ IsFiniteSet(1..len)
  BY FS_Interval DEF Turns
<1>3. /\ IsFiniteSet(P) /\ Cardinality(P) \in Nat
      /\ IsFiniteSet(Q) /\ Cardinality(Q) \in Nat
  BY <1>2, FS_Subset, FS_CardinalityType
\* Position q follows every turn of p but the last.
<1>4. ASSUME NEW k \in A PROVE k + d \in Q
  <2>1. k \in 1..len /\ k + d \in 1..len /\ (b + k - 1) % n = p
    BY <1>1 DEF Turns
  <2> DEFINE a == b + k - 1
  <2>2. a \in Nat /\ b + (k + d) - 1 = a + d
    BY <1>1, <2>1
  <2> HIDE DEF a, d
  <2>3. (a + d) % n = IF p + d < n THEN p + d ELSE p + d - n
    BY <1>1, <2>1, <2>2, RemainderAfter DEF a
  <2>4. (IF p + d < n THEN p + d ELSE p + d - n) = q
    BY DEF d
  <2> QED
    BY <2>1, <2>2, <2>3, <2>4 DEF Turns
<1>5. f \in Injection(A, Q)
  <2>1. \A k \in A : k \in Int
    BY <1>2
  <2> HIDE DEF A, Q, d
  <2>2. f \in [A -> Q]
    BY <1>4
  <2>3. \A k, l \in A : f[k] = f[l] => k = l
    BY <1>1, <2>1
  <2> HIDE DEF f
  <2> QED
    BY <2>2, <2>3 DEF Injection, IsInjective
<1>6. Cardinality(A) <= Cardinality(Q) /\ IsFiniteSet(A) /\ Cardinality(A) \in Nat
  BY <1>3, <1>5, FS_Injection, FS_CardinalityType
<1>7. ASSUME NEW k \in P, NEW l \in P, k < l PROVE k \in A
  <2>1. k \in 1..len /\ l \in 1..len /\ (b + k - 1) % n = (b + l - 1) % n
    BY DEF Turns
  <2>2. b + k - 1 \in Nat /\ b + l - 1 \in Nat /\ b + k - 1 < b + l - 1
    BY <1>7, <2>1
  <2>3. (b + k - 1) + n <= b + l - 1
    BY <2>1, <2>2, RoundApart
  <2> QED
    BY <2>1, <2>3
<1>8. PICK x : P \subseteq A \cup {x}
  <2>1. CASE P \subseteq A
    BY <2>1
  <2>2. CASE ~(P \subseteq A)
    <3>1. PICK x \in P : x \notin A
      BY <2>2
    <3>2. ASSUME NEW y \in P, y \notin A PROVE y = x
      <4>1. x \in Int /\ y \in Int
        BY <1>2
      <4> QED
        BY <1>7, <3>1, <3>2, <4>1
    <3> QED
      BY <3>2
  <2> QED
    BY <2>1, <2>2
<1>9. Cardinality(P) <= Cardinality(A) + 1
  <2>1. /\ IsFiniteSet(A \cup {x}) /\ Cardinality(A \cup {x}) \in Nat
        /\ Cardinality(A \cup {x}) <= Cardinality(A) + 1
    BY <1>6, FS_AddElement, FS_CardinalityType
  <2>2. Cardinality(P) <= Cardinality(A \cup {x})
    BY <1>8, <2>1, FS_Subset
  <2> QED
    BY <1>3, <1>6, <2>1, <2>2
<1> HIDE DEF P, Q, A
<1>10. Cardinality(P) <= Cardinality(Q) + 1
  BY <1>3, <1>6, <1>9
<1> QED
  BY <1>10 DEF P, Q

\* Turns taken one after the other are even.
LEMMA TakenEven ==
  ASSUME NEW T, T \subseteq Nat, IsFiniteSet(T), NEW b \in Nat, NEW len \in Nat,
         NEW w, DOMAIN w = 1..len, \A k \in 1..len : w[k].pick = Turn(T, b + k - 1)
  PROVE  Even(w, T)
<1> SUFFICES ASSUME NEW c \in T, NEW d \in T PROVE Picks(w, c) <= Picks(w, d) + 1
  BY DEF Even
<1> DEFINE n == Cardinality(T)
<1>1. n \in Nat \ {0}
  BY FS_CardinalityType, FS_EmptySet
<1>2. ASSUME NEW e \in T
      PROVE  /\ Rank(T)[e] \in 0..(n - 1)
             /\ Picks(w, e) = Cardinality(Turns(n, b, len, Rank(T)[e]))
  <2>1. 0 \in 0..(n - 1)
    BY <1>1
  <2>2. Rank(T)[e] \in 0..(n - 1)
    BY <2>1, FoundAtRank
  <2>3. ASSUME NEW k \in 1..len
        PROVE  w[k].pick = e <=> (b + k - 1) % n = Rank(T)[e]
    <3>1. b + k - 1 \in Nat
      OBVIOUS
    <3>2. (b + k - 1) % n \in 0..(n - 1)
      BY <1>1, <3>1, Division
    <3>3. PICK m \in 0..(n - 1) : m = (b + k - 1) % n
      BY <3>2
    <3>4. w[k].pick = At(T, m)
      BY <3>3 DEF Turn
    <3>5. At(T, m) = e <=> m = Rank(T)[e]
      BY FoundAtRank
    <3> QED
      BY <3>3, <3>4, <3>5
  <2>4. {k \in DOMAIN w : w[k].pick = e} = Turns(n, b, len, Rank(T)[e])
    BY <2>3 DEF Turns
  <2> QED
    BY <2>2, <2>4 DEF Picks
<1> HIDE DEF n
<1> QED
  BY <1>1, <1>2, TurnsEven

\* Every use of a counter took the channel whose turn it was: the counter is shared by all
\* requests for the model, and counts the uses.
Use == [tier : SUBSET Channels, pick : Channels]
InTurn ==
  /\ draws \in [Models -> Seq(Use)]
  /\ \A m \in Models :
       /\ counter[m] = Len(draws[m])
       /\ \A k \in 1..Len(draws[m]) : draws[m][k].pick = Turn(draws[m][k].tier, k - 1)

\* Only Draw uses a counter.
LEMMA DrawsByDraw ==
  ASSUME IInv, [Next]_vars, ~UNCHANGED <<counter, draws>>
  PROVE  \E r \in Requests : Draw(r)
<1>1. ASSUME NEW a \in Admins, AdminStep(a) PROVE FALSE
  <2>1. QuietRequests
    BY <1>1 DEF AdminStep, CreateChannel, BeginUpdate, BeginOther, SaveRow, SaveGroups,
         LoseGroups, SaveOther, CreateGroup, BeginDeleteGroup, DropUsers, DropChannels,
         DropGroup, KeepGroup, SetUserGroups
  <2> QED
    BY <2>1 DEF QuietRequests
<1>2. PICK r \in Requests : RequestStep(r)
  BY <1>1 DEF Next, Rest, vars
<1> QED
  BY <1>2 DEF RequestStep, Arrive, Unmapped, MapModel, MapChannel, FindBound, CheckBound,
       BoundFails, List, ListFails, LookUpAll, LookUpAllFails, LookUpOne

\* The pick and the increment are one step, so no two draws take the same turn.
LEMMA InTurnStays ==
  ASSUME IInv, InTurn, [Next]_vars
  PROVE  InTurn'
<1>1. CASE UNCHANGED <<counter, draws>>
  BY <1>1 DEF InTurn
<1>2. ASSUME NEW r \in Requests, Draw(r), ~UNCHANGED <<counter, draws>>
      PROVE  InTurn'
  <2> DEFINE l == req[r].listed
             m == req[r].model
             T == Tier(l)
             pick == Turn(T, counter[m])
             s == draws[m]
             use == [tier |-> T, pick |-> pick]
  <2>1. /\ counter' = [counter EXCEPT ![m] = @ + 1]
        /\ draws' = [draws EXCEPT ![m] = Append(s, use)]
    BY <1>2 DEF Draw
  <2>a. DOMAIN l # {}
    <3>1. ~(Cardinality(DOMAIN l) <= 1)
      BY <1>2 DEF Draw
    <3> HIDE DEF l
    <3> QED
      BY <3>1, FS_EmptySet
  <2>2. m \in Models /\ counter \in [Models -> Nat] /\ l \in Listing
    BY <1>2, Before DEF Draw, Running, Binding, Goroutine, Listing
  <2>3. s \in Seq(Use) /\ counter[m] = Len(s)
    BY <2>2 DEF InTurn
  <2>4. use \in Use
    <3> HIDE DEF l
    <3>1. DOMAIN l # {} /\ DOMAIN l \subseteq Channels
      BY <2>2, <2>a, ListingIs
    <3>2. pick \in T
      BY <2>2, <3>1, DrawnFromTier
    <3>3. T \subseteq Channels
      BY <3>1 DEF Tier
    <3> HIDE DEF T, pick
    <3> QED
      BY <3>2, <3>3 DEF Use
  <2> HIDE DEF l, T
  <2>5. /\ Append(s, use) \in Seq(Use) /\ Len(Append(s, use)) = Len(s) + 1
        /\ \A k \in 1..Len(s) : Append(s, use)[k] = s[k]
        /\ Append(s, use)[Len(s) + 1] = use
    <3> HIDE DEF use, s
    <3> QED
      BY <2>3, <2>4
  <2>6. draws' \in [Models -> Seq(Use)]
    BY <2>1, <2>2, <2>5 DEF InTurn
  <2>7. ASSUME NEW o \in Models, o # m
        PROVE  counter'[o] = counter[o] /\ draws'[o] = draws[o]
    BY <2>1, <2>2, <2>7 DEF InTurn
  <2>8. counter'[m] = Len(s) + 1 /\ draws'[m] = Append(s, use)
    BY <2>1, <2>2, <2>3 DEF InTurn
  <2>9. ASSUME NEW k \in 1..(Len(s) + 1)
        PROVE  Append(s, use)[k].pick = Turn(Append(s, use)[k].tier, k - 1)
    <3>1. CASE k \in 1..Len(s)
      BY <2>2, <2>5, <3>1 DEF InTurn
    <3>2. CASE k = Len(s) + 1
      <4>1. k - 1 = counter[m]
        BY <2>2, <2>3, <3>2
      <4> QED
        BY <2>5, <3>2, <4>1
    <3> QED
      BY <2>3, <3>1, <3>2
  <2>10. ASSUME NEW o \in Models
         PROVE  /\ counter'[o] = Len(draws'[o])
                /\ \A k \in 1..Len(draws'[o]) :
                     draws'[o][k].pick = Turn(draws'[o][k].tier, k - 1)
    <3>1. CASE o = m
      BY <2>5, <2>8, <2>9, <3>1
    <3>2. CASE o # m
      BY <2>7, <3>2 DEF InTurn
    <3> QED
      BY <3>1, <3>2
  <2> QED
    BY <2>6, <2>10 DEF InTurn
<1> QED
  BY <1>1, <1>2, DrawsByDraw

\* Uses in turn are even while the tier stays the same.
LEMMA InTurnEven == InTurn => EvenWhileSteady
<1> SUFFICES ASSUME InTurn, NEW m \in Models, NEW i \in DOMAIN draws[m], NEW j \in DOMAIN draws[m],
                    \A k \in i..j : draws[m][k].tier = draws[m][i].tier
             PROVE  Even(SubSeq(draws[m], i, j), draws[m][i].tier)
  BY DEF EvenWhileSteady
<1> DEFINE s == draws[m]
           T == s[i].tier
           w == SubSeq(s, i, j)
           len == IF i <= j THEN j - i + 1 ELSE 0
<1>1. /\ s \in Seq(Use) /\ Len(s) \in Nat /\ i \in 1..Len(s) /\ j \in 1..Len(s)
      /\ \A k \in 1..Len(s) : s[k] \in Use /\ s[k].pick = Turn(s[k].tier, k - 1)
  BY DEF InTurn
<1>2. T \subseteq Nat /\ IsFiniteSet(T)
  <2>1. T \subseteq Channels
    BY <1>1 DEF Use
  <2> HIDE DEF T
  <2> QED
    BY <2>1, RoutingAssumption, FS_Subset
<1> HIDE DEF s
<1>3. DOMAIN w = 1..len /\ \A k \in 1..len : w[k] = s[i + k - 1]
  BY <1>1
<1>4. ASSUME NEW k \in 1..len PROVE w[k].pick = Turn(T, (i - 1) + k - 1)
  <2>1. /\ i + k - 1 \in i..j /\ i + k - 1 \in 1..Len(s)
        /\ (i + k - 1) - 1 = (i - 1) + k - 1
    BY <1>1
  <2>2. s[i + k - 1].tier = T /\ s[i + k - 1].pick = Turn(s[i + k - 1].tier, (i + k - 1) - 1)
    BY <1>1, <2>1 DEF s
  <2> QED
    BY <1>3, <2>1, <2>2
<1>5. i - 1 \in Nat /\ len \in Nat
  BY <1>1
<1> HIDE DEF T, w, len
<1>6. Even(w, T)
  BY <1>2, <1>3, <1>4, <1>5, TakenEven
<1> QED
  BY <1>6 DEF T, w, s

\* While the candidates of a model stay the same, its requests are spread evenly over the best
\* tier, however many channels, requests and models there are (rrCounter.next).
THEOREM SpreadEvenly == Spec => []EvenWhileSteady
<1>1. Init => InTurn
  <2> SUFFICES ASSUME Init PROVE InTurn
    OBVIOUS
  <2>1. draws = [m \in Models |-> << >>] /\ counter = [m \in Models |-> 0]
    BY DEF Init
  <2> QED
    BY <2>1 DEF InTurn
<1>2. IInv /\ InTurn /\ [Next]_vars => InTurn'
  BY InTurnStays
<1>3. InTurn => EvenWhileSteady
  BY InTurnEven
<1> QED
  BY <1>1, <1>2, <1>3, Invariant, PTL DEF Spec
=============================================================================
