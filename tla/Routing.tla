------------------------------ MODULE Routing -------------------------------
(***************************************************************************)
(* Which channel serves a request.  APIKeyAuthMiddleware reads the user's  *)
(* groups, ApplyModelMappingMiddleware may replace the model and bind a    *)
(* channel, ChannelRouterMiddleware takes the bound channel or selects one *)
(* by model, groups, priority and a round-robin counter.  Each of them     *)
(* reads the database on its own, while administrators edit channels,      *)
(* groups and memberships, some of these edits in several statements.      *)
(*                                                                         *)
(* A channel's list of models, its aliases, wildcards and type default are *)
(* the set of models it matches; its weight, which the selection reads     *)
(* only to order rows that it sorts again, is left out.                    *)
(***************************************************************************)
EXTENDS Naturals, Sequences, FiniteSets

CONSTANTS
  Channels,         \* channel IDs that are ever given out; numbers, for their order
  Groups, Users, Models,
  Requests,         \* requests that come
  Admins,           \* handlers of administrators that run at the same time
  Priorities,       \* priorities of channels; 0 in a form stands for those below 1
  Rows,             \* what the channel form may hold
  Mappings,         \* model mappings: [from, to, prefer]
  Starts,           \* what the tables hold at first: [chan, groups, chanGroups, userGroups]
  MaxEdits,         \* bound on the calls of administrators
  None

DefaultPriority == 100

Row == [on : BOOLEAN, priority : Priorities, models : SUBSET Models]

ASSUME RoutingAssumption ==
  /\ Channels \subseteq Nat /\ IsFiniteSet(Channels)
  /\ None \notin Channels /\ None \notin Mappings /\ None \notin Row
  /\ Priorities \subseteq Nat \ {0} /\ DefaultPriority \in Priorities
  /\ Rows \subseteq [on : BOOLEAN, priority : Priorities \cup {0}, models : SUBSET Models]
  /\ Mappings \subseteq [from : Models, to : Models, prefer : Channels \cup {None}]

VARIABLES
  chan,             \* channels: the row of each, or None
  groups,           \* groups
  chanGroups,       \* channel_groups: <<channel, group>>
  userGroups,       \* user_groups: <<user, group>>
  req,              \* the goroutine of each request
  counter,          \* channelService.rrCounter: how often each model was drawn for
  edit,             \* the handler of each administrator
  spent,            \* IDs that were given out, and the number of calls so far
  draws,            \* history: every use of each model's counter
  unsure            \* history: channels of which a request may have read what no longer holds

tables == <<chan, groups, chanGroups, userGroups>>
vars == <<tables, req, counter, edit, spent, draws, unsure>>

ASSUME StartsAssumption ==
  \A s \in Starts :
    /\ s.chan \in [Channels -> Row \cup {None}]
    /\ s.groups \subseteq Groups
    /\ s.chanGroups \subseteq {c \in Channels : s.chan[c] # None} \X s.groups
    /\ s.userGroups \subseteq Users \X s.groups

\* `listed` holds the priorities of the channels that are still candidates.
Idle == [at |-> "new", user |-> None, model |-> None, map |-> None, want |-> None,
         gids |-> {}, listed |-> <<>>, left |-> {}, chosen |-> None]
Free == [at |-> "idle", id |-> None, row |-> None, gids |-> {}]

GroupsOf(c) == {g \in Groups : <<c, g>> \in chanGroups}
MembershipOf(u) == {g \in Groups : <<u, g>> \in userGroups}

\* channelAccessibleWithSet
Accessible(cgids, ugids) == cgids = {} \/ cgids \cap ugids # {}

\* A row that is listed by ListEnabled and passes channelMatchesModel.
Serves(c, m) == chan[c] # None /\ chan[c].on /\ m \in chan[c].models

Running(r) == req[r].at \notin {"new", "done"}

Unsettle(C) ==
  unsure' = [r \in Requests |-> IF Running(r) THEN unsure[r] \cup C ELSE {}]
-----------------------------------------------------------------------------
Init ==
  /\ \E s \in Starts : /\ chan = s.chan
                       /\ groups = s.groups
                       /\ chanGroups = s.chanGroups
                       /\ userGroups = s.userGroups
  /\ req = [r \in Requests |-> Idle]
  /\ counter = [m \in Models |-> 0]
  /\ edit = [a \in Admins |-> Free]
  /\ spent = [ids |-> {c \in Channels : chan[c] # None} \cup groups, calls |-> 0]
  /\ draws = [m \in Models |-> <<>>]
  /\ unsure = [r \in Requests |-> {}]

-----------------------------------------------------------------------------
(* A request.                                                              *)

Request(r, new) == req' = [req EXCEPT ![r] = new]
QuietTables == UNCHANGED <<tables, edit, spent>>

\* GetMinRateMultiplierByUserID; when it fails the request goes on without groups.
Arrive(r, u, m) ==
  /\ req[r].at = "new"
  /\ \E ok \in BOOLEAN :
       /\ Request(r, [Idle EXCEPT !.at = "map", !.user = u, !.model = m,
                                  !.gids = IF ok THEN MembershipOf(u) ELSE {}])
       /\ unsure' = [unsure EXCEPT ![r] = IF ok THEN {} ELSE Channels]
  /\ QuietTables /\ UNCHANGED <<counter, draws>>

\* applyMappingWithHeaders found no mapping, or one that keeps the model and binds nothing.
Unmapped(r) ==
  /\ req[r].at = "map"
  /\ Request(r, [req[r] EXCEPT !.at = "list"])
  /\ QuietTables /\ UNCHANGED <<counter, draws, unsure>>

\* A mapping to another model applies when some channel serves it, whatever its groups;
\* when there is none, or the list cannot be read, the mapping is skipped.
\* (The mapping's channel service has counters of its own, which only this call draws from.)
MapModel(r, mp) ==
  /\ req[r].at = "map" /\ mp.from = req[r].model
  /\ mp.prefer = None /\ mp.to # req[r].model
  /\ \E ok \in BOOLEAN :
       LET some == ok /\ \E c \in Channels : Serves(c, mp.to) IN
       Request(r, [req[r] EXCEPT !.at = "list", !.model = IF some THEN mp.to ELSE @])
  /\ QuietTables /\ UNCHANGED <<counter, draws, unsure>>

\* A mapping with a channel: it must be usable for the new model (FindBound, CheckBound).
MapChannel(r, mp) ==
  /\ req[r].at = "map" /\ mp.from = req[r].model /\ mp.prefer # None
  /\ Request(r, [req[r] EXCEPT !.at = "mapFind", !.map = mp])
  /\ QuietTables /\ UNCHANGED <<counter, draws, unsure>>

\* SelectSpecificChannelForModelWithGroups is called twice, by the mapping and by the router.
Bound(r) == IF req[r].at \in {"mapFind", "mapCheck"} THEN req[r].map.prefer ELSE req[r].want
\* Mutant: the mapping checks the channel for the model that was asked for.
BoundModelAsked(r) == req[r].model
BoundModel(r) == IF req[r].at \in {"mapFind", "mapCheck"} THEN req[r].map.to ELSE req[r].model

\* What is left of a request that was routed to c, or to None: the channel proxy or the Amp upstream.
Routed(r, c) == [Idle EXCEPT !.at = "done", !.model = req[r].model, !.chosen = c]

\* The bound channel is refused: no mapping, or automatic selection.
Refuse(r) == [req[r] EXCEPT !.at = "list"]

\* It is good: the mapping applies, or the request is routed.
Accept(r) ==
  IF req[r].at = "mapCheck"
  THEN [req[r] EXCEPT !.at = "find", !.model = req[r].map.to, !.want = req[r].map.prefer]
  ELSE Routed(r, req[r].want)

\* An error skips the mapping, and ends the router's selection without a channel.
Fail(r) ==
  IF req[r].at \in {"mapFind", "mapCheck"} THEN Refuse(r) ELSE Routed(r, None)

BoundFails(r) ==
  /\ req[r].at \in {"mapFind", "mapCheck", "find", "check"}
  /\ Request(r, Fail(r))
  /\ unsure' = [unsure EXCEPT ![r] = Channels]
  /\ QuietTables /\ UNCHANGED <<counter, draws>>

FindBound(r) ==
  /\ req[r].at \in {"mapFind", "find"}
  /\ IF Serves(Bound(r), BoundModel(r))
     THEN Request(r, [req[r] EXCEPT !.at = IF @ = "find" THEN "check" ELSE "mapCheck"])
     ELSE Request(r, Refuse(r))
  /\ QuietTables /\ UNCHANGED <<counter, draws, unsure>>

CheckBound(r) ==
  /\ req[r].at \in {"mapCheck", "check"}
  /\ IF Accessible(GroupsOf(Bound(r)), req[r].gids)
     THEN Request(r, Accept(r))
     ELSE Request(r, Refuse(r))
  /\ QuietTables /\ UNCHANGED <<counter, draws, unsure>>

\* SelectChannelForModelWithGroups: ListEnabled and the match.
List(r) ==
  /\ req[r].at = "list"
  /\ LET matching == {c \in Channels : Serves(c, req[r].model)} IN
     Request(r, IF matching = {} THEN Routed(r, None)
                ELSE [req[r] EXCEPT !.at = "groups",
                                    !.listed = [c \in matching |-> chan[c].priority]])
  /\ QuietTables /\ UNCHANGED <<counter, draws, unsure>>

ListFails(r) ==
  /\ req[r].at = "list"
  /\ Request(r, Routed(r, None))
  /\ unsure' = [unsure EXCEPT ![r] = Channels]
  /\ QuietTables /\ UNCHANGED <<counter, draws>>

Keep(listed, C) == [c \in DOMAIN listed \cap C |-> listed[c]]

\* GetGroupIDsByChannelIDs, one query.
LookUpAll(r) ==
  /\ req[r].at = "groups"
  /\ Request(r, [req[r] EXCEPT
       !.at = "draw",
       !.listed = Keep(@, {c \in Channels : Accessible(GroupsOf(c), req[r].gids)})])
  /\ QuietTables /\ UNCHANGED <<counter, draws, unsure>>

\* It failed: GetGroupIDs for each channel instead.
LookUpAllFails(r) ==
  /\ req[r].at = "groups"
  /\ Request(r, [req[r] EXCEPT !.at = "single", !.left = DOMAIN req[r].listed])
  /\ QuietTables /\ UNCHANGED <<counter, draws, unsure>>

\* Mutant: one that could be read is a candidate, whatever its groups.
LookUpOneOpen(r, c) ==
  /\ req[r].at = "single" /\ c \in req[r].left
  /\ \E ok \in BOOLEAN :
       LET dropped == ~ok IN
       /\ Request(r, [req[r] EXCEPT
            !.at = IF req[r].left = {c} THEN "draw" ELSE @,
            !.left = @ \ {c},
            !.listed = IF dropped THEN Keep(@, Channels \ {c}) ELSE @])
       /\ unsure' = IF ok THEN unsure ELSE [unsure EXCEPT ![r] = @ \cup {c}]
  /\ QuietTables /\ UNCHANGED <<counter, draws>>

\* A channel whose groups cannot be read is not a candidate.
LookUpOne(r, c) ==
  /\ req[r].at = "single" /\ c \in req[r].left
  /\ \E ok \in BOOLEAN :
       LET dropped == ~ok \/ ~Accessible(GroupsOf(c), req[r].gids) IN
       /\ Request(r, [req[r] EXCEPT
            !.at = IF req[r].left = {c} THEN "draw" ELSE @,
            !.left = @ \ {c},
            !.listed = IF dropped THEN Keep(@, Channels \ {c}) ELSE @])
       /\ unsure' = IF ok THEN unsure ELSE [unsure EXCEPT ![r] = @ \cup {c}]
  /\ QuietTables /\ UNCHANGED <<counter, draws>>

\* Mutant: the greatest number is the best priority.
TierGreatest(listed) ==
  {c \in DOMAIN listed : \A d \in DOMAIN listed : listed[c] >= listed[d]}
Tier(listed) == {c \in DOMAIN listed : \A d \in DOMAIN listed : listed[c] <= listed[d]}

\* The element of a set of IDs at position n, from 0, after sort.Slice.
At(C, n) == CHOOSE c \in C : Cardinality({d \in C : d < c}) = n

\* Mutant: the first two requests of a model each make a counter of their own.
TurnUnshared(C, n) == At(C, (IF n = 0 THEN 0 ELSE n - 1) % Cardinality(C))
Turn(C, n) == At(C, n % Cardinality(C))

\* The counter is used when there are two candidates, even if one of them is alone in its tier.
Draw(r) ==
  /\ req[r].at = "draw"
  /\ LET listed == req[r].listed
         m == req[r].model
         pick == Turn(Tier(listed), counter[m]) IN
     IF Cardinality(DOMAIN listed) <= 1
     THEN /\ Request(r, Routed(r, IF DOMAIN listed = {} THEN None
                                  ELSE CHOOSE c \in DOMAIN listed : TRUE))
          /\ UNCHANGED <<counter, draws>>
     ELSE /\ Request(r, Routed(r, pick))
          /\ counter' = [counter EXCEPT ![m] = @ + 1]
          /\ draws' = [draws EXCEPT ![m] = Append(@, [tier |-> Tier(listed), pick |-> pick])]
  /\ QuietTables /\ UNCHANGED unsure
-----------------------------------------------------------------------------
(* Administrators.                                                         *)

Call(a, new) ==
  /\ edit[a] = Free /\ spent.calls < MaxEdits
  /\ edit' = [edit EXCEPT ![a] = new]
  /\ spent' = [spent EXCEPT !.calls = @ + 1]

Go(a, at) == edit' = [edit EXCEPT ![a].at = at]
Return(a) == edit' = [edit EXCEPT ![a] = Free]
QuietRequests == UNCHANGED <<req, counter, draws>>

\* Mutant: the form's priority as it is.
SavedAsGiven(row) == row
\* ChannelService.Create and Update: what the form holds, with its defaults.
Saved(row) == [row EXCEPT !.priority = IF @ < 1 THEN DefaultPriority ELSE @]

\* Create: the row, and when groups were chosen they follow (SaveGroups).
CreateChannel(a, c, row, gs) ==
  /\ c \notin spent.ids
  /\ edit[a] = Free /\ spent.calls < MaxEdits
  /\ edit' = [edit EXCEPT ![a] = IF gs = {} THEN Free
                                 ELSE [at |-> "groups", id |-> c, row |-> None, gids |-> gs]]
  /\ spent' = [ids |-> spent.ids \cup {c}, calls |-> spent.calls + 1]
  /\ chan' = [chan EXCEPT ![c] = Saved(row)]
  /\ Unsettle({c})
  /\ QuietRequests /\ UNCHANGED <<groups, chanGroups, userGroups>>

\* GetByID finds the channel; Update, Delete and SetEnabled go on with a statement of their own.
BeginUpdate(a, c, row, gs) ==
  /\ chan[c] # None
  /\ Call(a, [at |-> "update", id |-> c, row |-> Saved(row), gids |-> gs])
  /\ QuietRequests /\ UNCHANGED <<tables, unsure>>

BeginOther(a, c, what) ==
  /\ what \in {"delete", "enable", "disable"} /\ chan[c] # None
  /\ Call(a, [at |-> what, id |-> c, row |-> None, gids |-> {}])
  /\ QuietRequests /\ UNCHANGED <<tables, unsure>>

\* The UPDATE matches nothing when the channel is gone.
SaveRow(a) ==
  /\ edit[a].at = "update"
  /\ chan' = [chan EXCEPT ![edit[a].id] = IF @ = None THEN None ELSE edit[a].row]
  /\ Unsettle({edit[a].id})
  /\ Go(a, "groups")
  /\ QuietRequests /\ UNCHANGED <<groups, chanGroups, userGroups, spent>>

\* SetGroups, in a transaction: the foreign keys refuse a channel or a group that is gone.
\* (Two that overlap are serial over SQLite; over PostgreSQL they may leave the union.)
SaveGroups(a) ==
  LET c == edit[a].id IN
  /\ edit[a].at = "groups"
  /\ edit[a].gids = {} \/ (chan[c] # None /\ edit[a].gids \subseteq groups)
  /\ chanGroups' = {p \in chanGroups : p[1] # c} \cup ({c} \X edit[a].gids)
  /\ Unsettle({c})
  /\ Return(a)
  /\ QuietRequests /\ UNCHANGED <<chan, groups, userGroups, spent>>

\* Its error is dropped.
LoseGroups(a) ==
  /\ edit[a].at = "groups"
  /\ Return(a)
  /\ QuietRequests /\ UNCHANGED <<tables, spent, unsure>>

SaveOther(a) ==
  LET c == edit[a].id IN
  /\ \/ /\ edit[a].at = "delete"
        /\ chan' = [chan EXCEPT ![c] = None]
        /\ chanGroups' = {p \in chanGroups : p[1] # c}
     \/ /\ edit[a].at \in {"enable", "disable"}
        /\ chan' = [chan EXCEPT ![c] = IF @ = None THEN None
                                       ELSE [@ EXCEPT !.on = (edit[a].at = "enable")]]
        /\ UNCHANGED chanGroups
  /\ Unsettle({c})
  /\ Return(a)
  /\ QuietRequests /\ UNCHANGED <<groups, userGroups, spent>>

\* GroupService.Create, with a name that is not taken.
CreateGroup(a, g) ==
  /\ g \notin spent.ids
  /\ edit[a] = Free /\ spent.calls < MaxEdits
  /\ groups' = groups \cup {g}
  /\ spent' = [ids |-> spent.ids \cup {g}, calls |-> spent.calls + 1]
  /\ QuietRequests /\ UNCHANGED <<chan, chanGroups, userGroups, edit, unsure>>

\* GroupService.Delete: three statements, of which the first two may fail unnoticed.
BeginDeleteGroup(a, g) ==
  /\ g \in groups
  /\ Call(a, [at |-> "dropUsers", id |-> g, row |-> None, gids |-> {}])
  /\ QuietRequests /\ UNCHANGED <<tables, unsure>>

DropUsers(a) ==
  /\ edit[a].at = "dropUsers"
  /\ userGroups' \in {userGroups, {p \in userGroups : p[2] # edit[a].id}}
  /\ Unsettle(IF userGroups' = userGroups THEN {} ELSE Channels)
  /\ Go(a, "dropChannels")
  /\ QuietRequests /\ UNCHANGED <<chan, groups, chanGroups, spent>>

Holding(g) == {c \in Channels : <<c, g>> \in chanGroups}

DropChannels(a) ==
  /\ edit[a].at = "dropChannels"
  /\ chanGroups' \in {chanGroups, {p \in chanGroups : p[2] # edit[a].id}}
  /\ Unsettle(IF chanGroups' = chanGroups THEN {} ELSE Holding(edit[a].id))
  /\ Go(a, "dropGroup")
  /\ QuietRequests /\ UNCHANGED <<chan, groups, userGroups, spent>>

\* ON DELETE CASCADE takes what is left of the group, or the statement fails.
DropGroup(a) ==
  LET g == edit[a].id IN
  /\ edit[a].at = "dropGroup"
  /\ groups' = groups \ {g}
  /\ userGroups' = {p \in userGroups : p[2] # g}
  /\ chanGroups' = {p \in chanGroups : p[2] # g}
  /\ Unsettle(IF userGroups' = userGroups THEN Holding(g) ELSE Channels)
  /\ Return(a)
  /\ QuietRequests /\ UNCHANGED <<chan, spent>>

KeepGroup(a) ==
  /\ edit[a].at = "dropGroup"
  /\ Return(a)
  /\ QuietRequests /\ UNCHANGED <<tables, spent, unsure>>

\* UserRepository.SetGroups, in one transaction, for the groups an administrator chose.
SetUserGroups(a, u, gs) ==
  /\ edit[a] = Free /\ spent.calls < MaxEdits
  /\ gs \subseteq groups
  /\ userGroups' = {p \in userGroups : p[1] # u} \cup ({u} \X gs)
  /\ spent' = [spent EXCEPT !.calls = @ + 1]
  /\ unsure' = [r \in Requests |-> IF Running(r) /\ req[r].user = u THEN Channels
                                                                    ELSE unsure[r]]
  /\ QuietRequests /\ UNCHANGED <<chan, groups, chanGroups, edit>>

\* Nothing is left to do.
Rest ==
  /\ \A r \in Requests : req[r].at = "done"
  /\ edit = [a \in Admins |-> Free]
  /\ UNCHANGED vars

RequestStep(r) ==
  \/ \E u \in Users, m \in Models : Arrive(r, u, m)
  \/ Unmapped(r)
  \/ \E mp \in Mappings : MapModel(r, mp) \/ MapChannel(r, mp)
  \/ FindBound(r) \/ CheckBound(r) \/ BoundFails(r)
  \/ List(r) \/ ListFails(r)
  \/ LookUpAll(r) \/ LookUpAllFails(r)
  \/ \E c \in Channels : LookUpOne(r, c)
  \/ Draw(r)

AdminStep(a) ==
  \/ \E c \in Channels, row \in Rows, gs \in SUBSET Groups :
       CreateChannel(a, c, row, gs) \/ BeginUpdate(a, c, row, gs)
  \/ \E c \in Channels, what \in {"delete", "enable", "disable"} : BeginOther(a, c, what)
  \/ SaveRow(a) \/ SaveGroups(a) \/ LoseGroups(a) \/ SaveOther(a)
  \/ \E g \in Groups : CreateGroup(a, g) \/ BeginDeleteGroup(a, g)
  \/ DropUsers(a) \/ DropChannels(a) \/ DropGroup(a) \/ KeepGroup(a)
  \/ \E u \in Users, gs \in SUBSET Groups : SetUserGroups(a, u, gs)

Next ==
  \/ \E r \in Requests : RequestStep(r)
  \/ \E a \in Admins : AdminStep(a)
  \/ Rest

Spec == Init /\ [][Next]_vars
-----------------------------------------------------------------------------
Goroutine ==
  [at : {"new", "map", "mapFind", "mapCheck", "find", "check", "list", "groups", "single",
         "draw", "done"},
   user : Users \cup {None}, model : Models \cup {None}, map : Mappings \cup {None},
   want : Channels \cup {None}, gids : SUBSET Groups,
   listed : UNION {[C -> Priorities] : C \in SUBSET Channels}, left : SUBSET Channels,
   chosen : Channels \cup {None}]

Form == [at : {"update"}, id : Channels, row : Row, gids : SUBSET Groups]
OfChannel == [at : {"groups", "delete", "enable", "disable"}, id : Channels,
              row : Row \cup {None}, gids : SUBSET Groups]
OfGroup == [at : {"dropUsers", "dropChannels", "dropGroup"}, id : Groups, row : {None},
            gids : {{}}]

TypeOK ==
  /\ chan \in [Channels -> Row \cup {None}]
  /\ groups \subseteq Groups
  /\ chanGroups \subseteq {c \in Channels : chan[c] # None} \X groups
  /\ userGroups \subseteq Users \X groups
  /\ req \in [Requests -> Goroutine]
  /\ counter \in [Models -> Nat]
  /\ edit \in [Admins -> {Free} \cup Form \cup OfChannel \cup OfGroup]
  /\ unsure \in [Requests -> SUBSET Channels]

(* What a request is routed to is judged against the tables at the moment it is decided, and
   only by the channels of which everything the request read still holds. *)
Usable(c, u, m) == Serves(c, m) /\ Accessible(GroupsOf(c), MembershipOf(u))
Decides(r) == req[r].at # "done" /\ req'[r].at = "done"
Sure(r, m) == {c \in Channels \ unsure'[r] : Usable(c, req[r].user, m)}

\* A request is never routed to a channel that is disabled, does not match the model or is
\* closed to the user's groups, except one that was edited while the request was being routed.
\* The list, the groups and the user's groups are three reads.
OnlyUsable ==
  [][\A r \in Requests : Decides(r) =>
       req'[r].chosen \in {None} \cup unsure'[r] \cup Sure(r, req'[r].model)]_vars

\* No channel that is usable is passed over for one of a worse priority, or for none: an edit of
\* another channel, a lost group lookup or a mapping in between does not hide it.
BestTier ==
  [][\A r \in Requests : Decides(r) /\ Sure(r, req'[r].model) # {} =>
       LET c == req'[r].chosen IN
       /\ c # None
       /\ \/ c = req[r].want
          \/ \A d \in Sure(r, req'[r].model) : req[r].listed[c] <= chan[d].priority]_vars

\* A mapping that binds a usable channel is carried out: the two middlewares, which check the
\* channel one after the other, agree on the channel and on the model.
BoundServed ==
  [][\A r \in Requests : Decides(r) /\ req[r].map # None =>
       (req[r].map.prefer \in Sure(r, req[r].map.to) =>
          req'[r].chosen = req[r].map.prefer /\ req'[r].model = req[r].map.to)]_vars

Picks(s, c) == Cardinality({k \in DOMAIN s : s[k].pick = c})
Even(s, tier) == \A c, d \in tier : Picks(s, c) <= Picks(s, d) + 1

\* While the candidates of a model stay the same, its requests, however they interleave, are
\* spread evenly over the best tier.
EvenWhileSteady ==
  \A m \in Models : LET s == draws[m] IN
    \A i, j \in DOMAIN s :
      (\A k \in i..j : s[k].tier = s[i].tier) => Even(SubSeq(s, i, j), s[i].tier)
=============================================================================
