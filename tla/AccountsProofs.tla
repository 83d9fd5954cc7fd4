---------------------------- MODULE AccountsProofs ----------------------------
(***************************************************************************)
(* What Accounts keeps for every number of users, keys and calls.           *)
(*                                                                          *)
(* The constraints of the schema make Consistent inductive once the types   *)
(* of the rows are known.  That only the entitled change an account is not  *)
(* in the tables: it needs what a call in flight may rely on.  CallsOK says  *)
(* that a call past AdminMiddleware was entitled, and that a call past the   *)
(* owner check of DeleteAPIKey names a key no one else can own, since an id  *)
(* is never given out twice.                                                *)
(***************************************************************************)
EXTENDS Accounts, TLAPS

\* What the body of a call, and what it has read so far, look like.
BodyOK(op, arg) ==
  /\ op = "SetAdmin" => arg \in BOOLEAN
  /\ op = "ResetPassword" => arg \in Passwords
  /\ op = "ChangePassword" => arg.new \in Passwords
  /\ op = "ChangeUsername" => arg \in Names
  /\ op = "UpdateSettings" => arg.secret \in Secrets \cup {Unset}
  /\ op = "DeleteAPIKey" => arg \in used
  /\ op = "Register" => arg.name \in Names /\ arg.pass \in Passwords

\* A call, and what it may rely on once it is past its check.
CallOK(k) ==
  /\ k = [id |-> k.id, op |-> k.op, by |-> k.by, to |-> k.to, arg |-> k.arg,
          step |-> k.step, seen |-> k.seen]
  /\ BodyOK(k.op, k.arg)
  /\ k.op = "UpdateSettings" /\ k.step # "read" => k.seen.was \subseteq Row
  /\ k.op = "DeleteUser" => k.to # k.by
  /\ k.op \in AdminOps /\ k.step = "write" => k.id \in entitled
  /\ At(k, "DeleteAPIKey", "write") => \A r \in keys : r.id = k.arg => r.owner = k.by

CallsOK ==
  /\ \A j, k \in calls : j.id = k.id => j = k
  /\ \A k \in calls : CallOK(k)

\* An id is given to one key.
KeysOK == /\ \A r \in keys : r.id \in used
          /\ \A r, t \in keys : r.id = t.id => r = t

Inv == TypeOK /\ Consistent /\ KeysOK /\ CallsOK

\* One user and no call.
LEMMA Initially == Init => Inv
  <1> SUFFICES ASSUME Init PROVE Inv
    OBVIOUS
  <1> PICK u \in Users : /\ users = [v \in {u} |-> [name |-> Root, pass |-> RootPassword, admin |-> TRUE]]
                         /\ used = {u}
    BY DEF Init
  <1>1. [name |-> Root, pass |-> RootPassword, admin |-> TRUE] \in User
    BY AccountsAssumption DEF User
  <1>2. DOMAIN users = {u} /\ users \in [DOMAIN users -> User]
    BY <1>1
  <1>3. TypeOK
    BY <1>2 DEF Init, TypeOK
  <1>4. Consistent
    BY <1>2 DEF Init, Consistent, NamesUnique, RowsOwned, SettingsUnique
  <1> QED
    BY <1>3, <1>4 DEF Init, Inv, KeysOK, CallsOK

\* Calls that end, or stay as they are, keep what they rely on, when ids given out stay
\* given out and a new key has a new id.
LEMMA CallsStay ==
  ASSUME CallsOK, calls' \subseteq calls, Record, used \subseteq used',
         \A r \in keys' : r \in keys \/ r.id \notin used
  PROVE  CallsOK'
  <1> SUFFICES ASSUME NEW k \in calls' PROVE CallOK(k)'
    BY DEF CallsOK
  <1>1. CallOK(k) /\ k \in calls
    BY DEF CallsOK
  <1>2. BodyOK(k.op, k.arg)'
    BY <1>1 DEF CallOK, BodyOK
  <1>3. k.id \in entitled => k.id \in entitled'
    BY <1>1 DEF Record
  <1>4. At(k, "DeleteAPIKey", "write") => \A r \in keys' : r.id = k.arg => r.owner = k.by
    <2> SUFFICES ASSUME At(k, "DeleteAPIKey", "write"), NEW r \in keys', r.id = k.arg
                 PROVE  r.owner = k.by
      OBVIOUS
    <2>1. k.arg \in used
      BY <1>1 DEF CallOK, BodyOK, At
    <2> QED
      BY <1>1, <2>1 DEF CallOK
  <1> QED
    BY <1>1, <1>2, <1>3, <1>4 DEF CallOK, At

\* The request bodies that Begin draws from are well formed.
LEMMA Bodied ==
  ASSUME mix \in Mixes, NEW op \in AdminOps \cup OwnOps, NEW arg \in Bodies(op)
  PROVE  BodyOK(op, arg)
  <1>1. mix.passwords \subseteq Passwords
    BY AccountsAssumption
  <1>2. CASE op = "SetAdmin"
    BY <1>2 DEF Bodies, BodyOK
  <1>3. CASE op = "ResetPassword"
    BY <1>1, <1>3 DEF Bodies, BodyOK
  <1>4. CASE op = "ChangePassword"
    BY <1>1, <1>4 DEF Bodies, BodyOK
  <1>5. CASE op = "ChangeUsername"
    BY <1>5 DEF Bodies, BodyOK
  <1>6. CASE op = "UpdateSettings"
    BY <1>6 DEF Bodies, BodyOK
  <1>7. CASE op = "DeleteAPIKey"
    BY <1>7 DEF Bodies, BodyOK
  <1>8. CASE op \in {"DeleteUser", "CreateAPIKey"}
    BY <1>8 DEF Bodies, BodyOK
  <1> QED
    BY <1>2, <1>3, <1>4, <1>5, <1>6, <1>7, <1>8 DEF AdminOps, OwnOps

\* A call begins.
LEMMA Begins ==
  ASSUME Inv, Record, UNCHANGED mix, NEW c \in Calls, Starts(c)
  PROVE  Inv'
  <1>1. PICK k : Begin(k) /\ CallOK(k) /\ k.step = "read"
    <2>1. ASSUME NEW op \in AdminOps \cup OwnOps \cup {"Register", "Proxied"}, NEW by, NEW to, NEW arg,
                 BodyOK(op, arg), op = "DeleteUser" => to # by
          PROVE  CallOK(Call(c, op, by, to, arg)) /\ Call(c, op, by, to, arg).step = "read"
      BY <2>1 DEF Call, CallOK, At
    <2>2. CASE BeginOwn(c)
      <3> PICK by \in tokens, op \in OwnOps \cap mix.ops :
            \E arg \in Bodies(op) : Begin(Call(c, op, by, by, arg))
        BY <2>2 DEF BeginOwn
      <3> PICK arg \in Bodies(op) : Begin(Call(c, op, by, by, arg))
        OBVIOUS
      <3>1. BodyOK(op, arg) /\ op # "DeleteUser"
        BY Bodied DEF Inv, TypeOK, OwnOps
      <3> QED
        BY <2>1, <3>1
    <2>3. CASE BeginAdmin(c)
      <3> PICK by \in tokens, op \in AdminOps \cap mix.ops, to \in used \cap Users :
            /\ op = "DeleteUser" => to # by
            /\ \E arg \in Bodies(op) : Begin(Call(c, op, by, to, arg))
        BY <2>3 DEF BeginAdmin
      <3> PICK arg \in Bodies(op) : Begin(Call(c, op, by, to, arg))
        OBVIOUS
      <3>1. BodyOK(op, arg)
        BY Bodied DEF Inv, TypeOK
      <3> QED
        BY <2>1, <3>1
    <2>4. CASE BeginRegister(c)
      <3> PICK n \in Names, p \in mix.passwords :
            Begin(Call(c, "Register", Nobody, Nobody, [name |-> n, pass |-> p]))
        BY <2>4 DEF BeginRegister
      <3>1. BodyOK("Register", [name |-> n, pass |-> p])
        BY AccountsAssumption DEF Inv, TypeOK, BodyOK
      <3> QED
        BY <2>1, <3>1
    <2>5. CASE BeginProxied(c)
      <3> PICK id \in used \cap Keys : Begin(Call(c, "Proxied", Nobody, Nobody, id))
        BY <2>5 DEF BeginProxied
      <3>1. BodyOK("Proxied", id)
        BY DEF BodyOK
      <3> QED
        BY <2>1, <3>1
    <2> QED
      BY <2>2, <2>3, <2>4, <2>5 DEF Starts
  <1>2. UNCHANGED <<users, keys, settings, events, used, tokens>>
    BY <1>1 DEF Begin, tables
  <1>3. CallOK(k)'
    BY <1>1, <1>2 DEF CallOK, BodyOK, At
  <1>4. ASSUME NEW j \in calls PROVE CallOK(j)'
    <2>1. j.id \in entitled => j.id \in entitled'
      BY <1>1 DEF Begin, Record
    <2> QED
      BY <1>2, <2>1 DEF Inv, CallsOK, CallOK, BodyOK, At
  <1>5. CallsOK'
    BY <1>1, <1>3, <1>4 DEF Inv, CallsOK, Begin
  <1> QED
    BY <1>2, <1>5 DEF Inv, KeysOK, TypeOK, Consistent, NamesUnique, RowsOwned, SettingsUnique

\* A call with its step and what it has seen replaced, field by field: first in a set of
\* records, then for any call.
LEMMA FieldsIn ==
  ASSUME NEW I, NEW O, NEW B, NEW T, NEW A, NEW P, NEW S,
         NEW k \in [id : I, op : O, by : B, to : T, arg : A, step : P, seen : S],
         NEW step \in P, NEW seen \in S
  PROVE  LET g == [k EXCEPT !.step = step, !.seen = seen]
         IN  /\ g \in [id : I, op : O, by : B, to : T, arg : A, step : P, seen : S]
             /\ g.id = k.id /\ g.op = k.op /\ g.by = k.by /\ g.to = k.to /\ g.arg = k.arg
             /\ g.step = step /\ g.seen = seen
  OBVIOUS

LEMMA Fields ==
  ASSUME NEW k, NEW step, NEW seen,
         k = [id |-> k.id, op |-> k.op, by |-> k.by, to |-> k.to, arg |-> k.arg,
              step |-> k.step, seen |-> k.seen]
  PROVE  [k EXCEPT !.step = step, !.seen = seen]
           = [id |-> k.id, op |-> k.op, by |-> k.by, to |-> k.to, arg |-> k.arg,
              step |-> step, seen |-> seen]
  <1> DEFINE I == {k.id}  O == {k.op}  B == {k.by}  T == {k.to}  A == {k.arg}
             P == {k.step, step}  S == {k.seen, seen}
             g == [k EXCEPT !.step = step, !.seen = seen]
  <1>1. k \in [id : I, op : O, by : B, to : T, arg : A, step : P, seen : S]
    OBVIOUS
  <1>2. step \in P /\ seen \in S
    OBVIOUS
  <1> HIDE DEF P, S, I, O, B, T, A
  <1>3. /\ g \in [id : I, op : O, by : B, to : T, arg : A, step : P, seen : S]
        /\ g.id = k.id /\ g.op = k.op /\ g.by = k.by /\ g.to = k.to /\ g.arg = k.arg
        /\ g.step = step /\ g.seen = seen
    BY <1>1, <1>2, FieldsIn
  <1> HIDE DEF g
  <1>4. g = [id |-> k.id, op |-> k.op, by |-> k.by, to |-> k.to, arg |-> k.arg,
             step |-> step, seen |-> seen]
    BY <1>3
  <1> QED
    BY <1>4 DEF g

\* A call that reads and goes on.
LEMMA Advances ==
  ASSUME Inv, Record, UNCHANGED <<mix, users, keys, settings, events, used, tokens>>,
         NEW k \in calls, NEW step, NEW seen, Goes(k, step, seen),
         k.op = "UpdateSettings" => seen.was \subseteq Row,
         k.op \in AdminOps => k.by \in Admins,
         k.op = "DeleteAPIKey" => \A r \in keys : r.id = k.arg => r.owner = k.by
  PROVE  Inv'
  <1> DEFINE g == [k EXCEPT !.step = step, !.seen = seen]
  <1>1. CallOK(k)
    BY DEF Inv, CallsOK
  <1>2. g = [id |-> k.id, op |-> k.op, by |-> k.by, to |-> k.to, arg |-> k.arg,
             step |-> step, seen |-> seen]
    BY <1>1, Fields DEF CallOK
  <1>3. calls' = (calls \ {k}) \cup {g}
    BY DEF Goes
  <1> HIDE DEF g
  <1>4. \A j \in calls' : j.id \in entitled => j.id \in entitled'
    BY <1>2, <1>3 DEF Record
  <1>5. CallOK(g)'
    <2>1. g.op \in AdminOps => g.id \in entitled'
      BY <1>2, <1>3 DEF Record, Admins
    <2> QED
      BY <1>1, <1>2, <2>1 DEF CallOK, BodyOK, At
  <1>6. ASSUME NEW j \in calls \ {k} PROVE CallOK(j)'
    <2>1. CallOK(j) /\ j \in calls'
      BY <1>3 DEF Inv, CallsOK
    <2> QED
      BY <1>4, <2>1 DEF CallOK, BodyOK, At
  <1>7. CallsOK'
    BY <1>2, <1>3, <1>5, <1>6 DEF Inv, CallsOK
  <1> QED
    BY <1>7 DEF Inv, KeysOK, TypeOK, Consistent, NamesUnique, RowsOwned, SettingsUnique

\* The users table after an INSERT that the UNIQUE constraint lets pass.
LEMMA Inserted ==
  ASSUME TypeOK, NamesUnique, NEW u, NEW name \in Names, NEW pass \in Passwords, NEW admin \in BOOLEAN,
         NameFree(name, u), InsertUser(u, name, pass, admin)
  PROVE  /\ users' \in [DOMAIN users' -> User] /\ DOMAIN users' = DOMAIN users \cup {u}
         /\ u \in Users /\ used' = used \cup {u}
         /\ \A v \in DOMAIN users : v # u /\ users'[v] = users[v]
         /\ NamesUnique'
  <1> DEFINE new == [name |-> name, pass |-> pass, admin |-> admin]
  <1>1. new \in User /\ new.name = name
    BY DEF User
  <1>2. users' = [v \in DOMAIN users \cup {u} |-> IF v = u THEN new ELSE users[v]]
    BY DEF InsertUser
  <1> HIDE DEF new
  <1>3. u \in Users /\ u \notin DOMAIN users /\ used' = used \cup {u}
    BY DEF TypeOK, InsertUser
  <1>4. users' \in [DOMAIN users' -> User] /\ DOMAIN users' = DOMAIN users \cup {u}
    BY <1>1, <1>2 DEF TypeOK
  <1>5. NamesUnique'
    BY <1>1, <1>2, <1>3 DEF NamesUnique, NameFree, Named
  <1> QED
    BY <1>2, <1>3, <1>4, <1>5

\* The users table after an UPDATE of one row, whose name stays or is free.
LEMMA Updated ==
  ASSUME TypeOK, NamesUnique, NEW u \in DOMAIN users, NEW row \in User, NameFree(row.name, u), SetUser(u, row)
  PROVE  users' \in [DOMAIN users -> User] /\ NamesUnique'
  <1>1. users' = [v \in DOMAIN users |-> IF v = u THEN row ELSE users[v]]
    BY DEF SetUser
  <1>2. users' \in [DOMAIN users -> User]
    BY <1>1 DEF TypeOK
  <1>3. NamesUnique'
    BY <1>1 DEF NamesUnique, NameFree, Named
  <1> QED
    BY <1>2, <1>3

\* The rows that the four UPDATEs of the users table write.
LEMMA NewRow ==
  ASSUME TypeOK, NamesUnique, NEW u \in DOMAIN users, NEW pass \in Passwords, NEW name \in Names,
         NEW admin \in BOOLEAN
  PROVE  /\ [users[u] EXCEPT !.pass = pass] \in User
         /\ [users[u] EXCEPT !.admin = admin] \in User
         /\ [users[u] EXCEPT !.name = name] \in User
         /\ [users[u] EXCEPT !.name = name].name = name
         /\ NameFree([users[u] EXCEPT !.pass = pass].name, u)
         /\ NameFree([users[u] EXCEPT !.admin = admin].name, u)
  <1>1. users[u] \in User
    BY DEF TypeOK
  <1>2. /\ [users[u] EXCEPT !.pass = pass] \in User
        /\ [users[u] EXCEPT !.admin = admin] \in User
        /\ [users[u] EXCEPT !.name = name] \in User
        /\ [users[u] EXCEPT !.name = name].name = name
        /\ [users[u] EXCEPT !.pass = pass].name = users[u].name
        /\ [users[u] EXCEPT !.admin = admin].name = users[u].name
    BY <1>1 DEF User
  <1>3. NameFree(users[u].name, u)
    BY DEF NamesUnique, NameFree, Named
  <1> QED
    BY <1>2, <1>3

\* A step that writes the users table and no other.
LEMMA UserWrites ==
  ASSUME Inv, Record, UNCHANGED <<mix, keys, settings, events>>, calls' \subseteq calls,
         tokens' \subseteq used' \cap Users, used \subseteq used',
         users' \in [DOMAIN users' -> User], DOMAIN users \subseteq DOMAIN users',
         DOMAIN users' \subseteq used' \cap Users, NamesUnique'
  PROVE  Inv'
  <1>1. CallsOK'
    BY CallsStay DEF Inv
  <1>2. TypeOK'
    BY DEF Inv, TypeOK
  <1>3. Consistent'
    BY DEF Inv, Consistent, RowsOwned, SettingsUnique
  <1>4. KeysOK'
    BY DEF Inv, KeysOK
  <1> QED
    BY <1>1, <1>2, <1>3, <1>4 DEF Inv

\* A step that writes the other tables.
LEMMA RowWrites ==
  ASSUME Inv, Record, UNCHANGED <<mix, users, tokens>>, calls' \subseteq calls, used \subseteq used',
         keys' \subseteq [id : Keys, owner : Users], \A r \in keys' : r \in keys \/ r.id \notin used,
         settings' \subseteq Row, events' \subseteq Users, RowsOwned', SettingsUnique', KeysOK'
  PROVE  Inv'
  <1>1. CallsOK'
    BY CallsStay DEF Inv
  <1>2. TypeOK'
    BY DEF Inv, TypeOK
  <1>3. Consistent'
    BY DEF Inv, Consistent, NamesUnique
  <1> QED
    BY <1>1, <1>2, <1>3 DEF Inv

\* The steps of the calls, by the table they write.
LEMMA Checks ==
  ASSUME Inv, Record, UNCHANGED mix, NEW k \in calls,
         \/ AdminCheck(k) \/ RegisterCheck(k) \/ ChangePasswordCheck(k) \/ ChangeUsernameCheck(k)
         \/ SettingsRead(k) \/ SettingsUpsert(k) \/ DeleteAPIKeyCheck(k)
         \/ ProxiedKey(k) \/ ProxiedSettings(k)
  PROVE  Inv'
  <1>1. UNCHANGED <<users, keys, settings, events, used, tokens>>
    BY DEF AdminCheck, RegisterCheck, ChangePasswordCheck, ChangeUsernameCheck, SettingsRead,
           SettingsUpsert, DeleteAPIKeyCheck, ProxiedKey, ProxiedSettings, tables
  <1>2. CASE Done(k)
    BY <1>1, <1>2, UserWrites DEF Done, Inv, TypeOK, Consistent, NamesUnique
  <1>3. CASE ~Done(k)
    <2>1. CallOK(k)
      BY DEF Inv, CallsOK
    <2>2. PICK step, seen :
            /\ Goes(k, step, seen)
            /\ k.op = "UpdateSettings" => seen.was \subseteq Row
            /\ k.op \in AdminOps => k.by \in Admins
            /\ k.op = "DeleteAPIKey" => \A r \in keys : r.id = k.arg => r.owner = k.by
      <3>1. CASE AdminCheck(k)
        BY <1>3, <3>1 DEF AdminCheck, MayAdminister, AdminOps
      <3>2. CASE RegisterCheck(k) \/ ChangePasswordCheck(k) \/ ChangeUsernameCheck(k)
                 \/ ProxiedKey(k) \/ ProxiedSettings(k)
        BY <1>3, <3>2 DEF RegisterCheck, ChangePasswordCheck, ChangeUsernameCheck, ProxiedKey,
                          ProxiedSettings, At, AdminOps
      <3>3. CASE SettingsRead(k)
        <4>1. RowsOf(k.by) \subseteq Row
          BY DEF RowsOf, Inv, TypeOK
        <4> QED
          BY <3>3, <4>1 DEF SettingsRead, At, AdminOps
      <3>4. CASE SettingsUpsert(k)
        BY <2>1, <3>4 DEF SettingsUpsert, At, AdminOps, CallOK
      <3>5. CASE DeleteAPIKeyCheck(k)
        BY <1>3, <3>5 DEF Inv, KeysOK, DeleteAPIKeyCheck, At, AdminOps
      <3> QED
        BY <3>1, <3>2, <3>3, <3>4, <3>5
    <2> QED
      BY <1>1, <2>2, Advances
  <1> QED
    BY <1>2, <1>3

LEMMA WritesOfUsers ==
  ASSUME Inv, Record, UNCHANGED mix, NEW k \in calls,
         \/ RegisterCreate(k) \/ ChangePasswordWrite(k) \/ ChangeUsernameWrite(k)
         \/ SetAdmin(k) \/ ResetPassword(k)
  PROVE  Inv'
  <1>1. CallOK(k) /\ TypeOK /\ NamesUnique
    BY DEF Inv, CallsOK, Consistent
  <1>2. UNCHANGED <<keys, settings, events>> /\ calls' \subseteq calls
    BY DEF RegisterCreate, ChangePasswordWrite, ChangeUsernameWrite, SetAdmin, ResetPassword, Done
  <1>3. CASE RegisterCreate(k)
    <2>1. CASE UNCHANGED <<users, used, tokens>>
      BY <1>1, <1>2, <2>1, UserWrites DEF TypeOK, NamesUnique
    <2>2. CASE ~UNCHANGED <<users, used, tokens>>
      <3> PICK u \in Users : /\ NameFree(k.arg.name, u)
                             /\ InsertUser(u, k.arg.name, k.arg.pass, FALSE)
                             /\ tokens' = tokens \cup {u}
        BY <1>3, <2>2 DEF RegisterCreate
      <3>1. k.arg.name \in Names /\ k.arg.pass \in Passwords
        BY <1>1, <1>3 DEF CallOK, BodyOK, RegisterCreate, At
      <3>2. /\ users' \in [DOMAIN users' -> User] /\ DOMAIN users' = DOMAIN users \cup {u}
            /\ u \in Users /\ used' = used \cup {u} /\ NamesUnique'
        BY <1>1, <3>1, Inserted
      <3> QED
        BY <1>1, <1>2, <3>2, UserWrites DEF TypeOK
    <2> QED
      BY <2>1, <2>2
  <1>4. ASSUME UNCHANGED <<used, tokens>>,
               UNCHANGED users \/ (users' \in [DOMAIN users -> User] /\ NamesUnique')
        PROVE  Inv'
    BY <1>1, <1>2, <1>4, UserWrites DEF TypeOK, NamesUnique
  <1>5. ASSUME NEW u, NEW p \in Passwords, WritePassword(u, p), UNCHANGED <<used, tokens>>
        PROVE  Inv'
    <2>1. CASE u \in DOMAIN users
      <3> DEFINE row == [users[u] EXCEPT !.pass = p]
      <3>1. row \in User /\ NameFree(row.name, u)
        BY <1>1, <2>1, NewRow, AccountsAssumption
      <3>2. SetUser(u, row)
        BY <1>5, <2>1 DEF WritePassword
      <3> HIDE DEF row
      <3> QED
        BY <1>1, <1>4, <1>5, <2>1, <3>1, <3>2, Updated
    <2>2. CASE u \notin DOMAIN users
      BY <1>4, <1>5, <2>2 DEF WritePassword
    <2> QED
      BY <2>1, <2>2
  <1>6. CASE ChangePasswordWrite(k)
    BY <1>1, <1>5, <1>6 DEF ChangePasswordWrite, At, CallOK, BodyOK
  <1>7. CASE ResetPassword(k)
    BY <1>1, <1>5, <1>7 DEF ResetPassword, At, CallOK, BodyOK
  <1>8. CASE SetAdmin(k)
    <2>1. CASE k.to \in DOMAIN users
      <3> DEFINE row == [users[k.to] EXCEPT !.admin = k.arg]
      <3>1. k.arg \in BOOLEAN
        BY <1>1, <1>8 DEF SetAdmin, At, CallOK, BodyOK
      <3>2. row \in User /\ NameFree(row.name, k.to)
        BY <1>1, <2>1, <3>1, NewRow, AccountsAssumption
      <3>3. SetUser(k.to, row) /\ UNCHANGED <<used, tokens>>
        BY <1>8, <2>1 DEF SetAdmin
      <3> HIDE DEF row
      <3> QED
        BY <1>1, <1>4, <2>1, <3>2, <3>3, Updated
    <2>2. CASE k.to \notin DOMAIN users
      BY <1>4, <1>8, <2>2 DEF SetAdmin
    <2> QED
      BY <2>1, <2>2
  <1>9. CASE ChangeUsernameWrite(k)
    <2>1. CASE k.by \in DOMAIN users /\ NameFree(k.arg, k.by)
      <3> DEFINE row == [users[k.by] EXCEPT !.name = k.arg]
      <3>1. k.arg \in Names
        BY <1>1, <1>9 DEF ChangeUsernameWrite, At, CallOK, BodyOK
      <3>2. row \in User /\ NameFree(row.name, k.by)
        BY <1>1, <2>1, <3>1, NewRow, AccountsAssumption
      <3>3. SetUser(k.by, row) /\ UNCHANGED <<used, tokens>>
        BY <1>9, <2>1 DEF ChangeUsernameWrite
      <3> HIDE DEF row
      <3> QED
        BY <1>1, <1>4, <2>1, <3>2, <3>3, Updated
    <2>2. CASE ~(k.by \in DOMAIN users /\ NameFree(k.arg, k.by))
      BY <1>4, <1>9, <2>2 DEF ChangeUsernameWrite
    <2> QED
      BY <2>1, <2>2
  <1> QED
    BY <1>3, <1>6, <1>7, <1>8, <1>9

LEMMA WritesOfRows ==
  ASSUME Inv, Record, UNCHANGED mix, NEW k \in calls,
         SettingsWrite(k) \/ CreateAPIKey(k) \/ DeleteAPIKeyWrite(k) \/ ProxiedSettle(k)
  PROVE  Inv'
  <1>1. CallOK(k) /\ TypeOK /\ RowsOwned /\ SettingsUnique /\ KeysOK
    BY DEF Inv, CallsOK, Consistent
  <1>2. UNCHANGED <<users, tokens>> /\ calls' \subseteq calls
    BY DEF SettingsWrite, CreateAPIKey, DeleteAPIKeyWrite, ProxiedSettle, Done
  <1>3. CASE SettingsWrite(k)
    <2> DEFINE row == Merged(k, k.seen.was)
    <2>1. row.owner = k.by /\ (k.by \in Users => row \in Row)
      <3> DEFINE rows == k.seen.was
                 secret == IF k.arg.secret = Unset /\ rows # {}
                           THEN (CHOOSE r \in rows : TRUE).secret ELSE k.arg.secret
      <3>1. rows \subseteq Row /\ k.arg.secret \in Secrets \cup {Unset}
        BY <1>1, <1>3 DEF CallOK, BodyOK, SettingsWrite, At
      <3>2. rows # {} => (CHOOSE r \in rows : TRUE) \in Row
        BY <3>1
      <3>3. secret \in Secrets \cup {Unset}
        BY <3>1, <3>2 DEF Row
      <3>4. row = [owner |-> k.by, secret |-> secret]
        BY DEF Merged
      <3> HIDE DEF rows, secret, row
      <3> QED
        BY <3>3, <3>4 DEF Row
    <2>2. settings' = IF k.seen.insert
                      THEN IF Referenced(k.by) /\ OneRow(k.by) THEN settings \cup {row} ELSE settings
                      ELSE {IF r.owner = k.by THEN row ELSE r : r \in settings}
      BY <1>3 DEF SettingsWrite
    <2> HIDE DEF row
    <2>3. settings' \subseteq Row
      <3>1. Referenced(k.by) => k.by \in Users
        BY <1>1 DEF TypeOK, Referenced
      <3>2. \A r \in settings : r \in Row /\ r.owner \in Users
        BY <1>1 DEF TypeOK, Row
      <3> QED
        BY <2>1, <2>2, <3>1, <3>2
    <2>4. {r.owner : r \in settings'} \subseteq DOMAIN users
      BY <1>1, <2>1, <2>2 DEF RowsOwned, Referenced
    <2>5. SettingsUnique'
      BY <1>1, <2>1, <2>2 DEF SettingsUnique, OneRow
    <2>6. UNCHANGED <<keys, events, used>>
      BY <1>3 DEF SettingsWrite
    <2>7. RowsOwned' /\ KeysOK'
      BY <1>1, <1>2, <2>4, <2>6 DEF RowsOwned, KeysOK
    <2> QED
      BY <1>1, <1>2, <2>3, <2>5, <2>6, <2>7, RowWrites DEF TypeOK
  <1>4. CASE CreateAPIKey(k)
    <2>1. UNCHANGED <<settings, events>>
      BY <1>4 DEF CreateAPIKey
    <2>2. CASE UNCHANGED <<keys, used>>
      BY <1>1, <1>2, <2>1, <2>2, RowWrites DEF TypeOK, RowsOwned, SettingsUnique, KeysOK
    <2>3. CASE ~UNCHANGED <<keys, used>>
      <3> PICK id \in Keys \ used : /\ k.by \in DOMAIN users
                                    /\ keys' = keys \cup {[id |-> id, owner |-> k.by]}
                                    /\ used' = used \cup {id}
        BY <1>4, <2>3 DEF CreateAPIKey, Referenced
      <3>1. keys' \subseteq [id : Keys, owner : Users] /\ \A r \in keys' : r \in keys \/ r.id \notin used
        BY <1>1 DEF TypeOK
      <3>2. RowsOwned' /\ SettingsUnique' /\ KeysOK'
        BY <1>1, <1>2, <2>1 DEF RowsOwned, SettingsUnique, KeysOK
      <3> QED
        BY <1>1, <1>2, <2>1, <3>1, <3>2, RowWrites DEF TypeOK
    <2> QED
      BY <2>2, <2>3
  <1>5. CASE DeleteAPIKeyWrite(k)
    <2>1. keys' \subseteq keys /\ UNCHANGED <<settings, events, used>>
      BY <1>5 DEF DeleteAPIKeyWrite
    <2> QED
      BY <1>1, <1>2, <2>1, RowWrites DEF TypeOK, RowsOwned, SettingsUnique, KeysOK
  <1>6. CASE ProxiedSettle(k)
    <2>1. UNCHANGED <<keys, settings, used>> /\ (events' = events \/ (events' = events \cup {k.seen} /\ k.seen \in DOMAIN users))
      BY <1>6 DEF ProxiedSettle, Referenced
    <2> QED
      BY <1>1, <1>2, <2>1, RowWrites DEF TypeOK, RowsOwned, SettingsUnique, KeysOK
  <1> QED
    BY <1>3, <1>4, <1>5, <1>6

LEMMA Deletes ==
  ASSUME Inv, Record, UNCHANGED mix, NEW k \in calls, DeleteUser(k)
  PROVE  Inv'
  <1>1. /\ users' = [v \in DOMAIN users \ {k.to} |-> users[v]]
        /\ keys' \subseteq keys /\ settings' \subseteq settings /\ events' \subseteq events
        /\ UNCHANGED <<used, tokens>> /\ calls' \subseteq calls
    BY DEF DeleteUser, Done
  <1>2. CallsOK' /\ KeysOK'
    BY <1>1, CallsStay DEF Inv, KeysOK
  <1>3. TypeOK'
    BY <1>1 DEF Inv, TypeOK
  <1>4. NamesUnique' /\ SettingsUnique'
    BY <1>1 DEF Inv, Consistent, NamesUnique, SettingsUnique
  <1>5. RowsOwned'
    BY <1>1 DEF Inv, Consistent, RowsOwned, DeleteUser
  <1> QED
    BY <1>2, <1>3, <1>4, <1>5 DEF Inv, Consistent

\* Login, the end of a token, and a restart of the server.
LEMMA Others ==
  ASSUME Inv, Record, UNCHANGED mix, Login \/ TokenExpires \/ Restart
  PROVE  Inv'
  <1>1. TypeOK /\ NamesUnique
    BY DEF Inv, Consistent
  <1>2. CASE Login \/ TokenExpires
    <2>1. UNCHANGED <<users, keys, settings, events, used, calls>> /\ tokens' \subseteq used \cap Users
      BY <1>1, <1>2 DEF Login, TokenExpires, tables, TypeOK
    <2> QED
      BY <1>1, <2>1, UserWrites DEF TypeOK, NamesUnique
  <1>3. CASE Restart
    <2>1. UNCHANGED <<keys, settings, events, tokens>> /\ calls' \subseteq calls
      BY <1>3 DEF Restart
    <2>2. CASE UNCHANGED <<users, used>>
      BY <1>1, <2>1, <2>2, UserWrites DEF TypeOK, NamesUnique
    <2>3. CASE ~UNCHANGED <<users, used>>
      <3> PICK u \in Users : DOMAIN users = {} /\ InsertUser(u, Root, RootPassword, TRUE)
        BY <1>3, <2>3 DEF Restart, EnsureAdmin
      <3>1. NameFree(Root, u)
        BY DEF NameFree, Named
      <3>2. /\ users' \in [DOMAIN users' -> User] /\ DOMAIN users' = DOMAIN users \cup {u}
            /\ u \in Users /\ used' = used \cup {u} /\ NamesUnique'
        BY <1>1, <3>1, Inserted, AccountsAssumption
      <3> QED
        BY <1>1, <2>1, <3>2, UserWrites DEF TypeOK
    <2> QED
      BY <2>2, <2>3
  <1> QED
    BY <1>2, <1>3

LEMMA Step == Inv /\ [Next]_vars => Inv'
  <1> SUFFICES ASSUME Inv, [Next]_vars PROVE Inv'
    OBVIOUS
  <1>1. CASE Next
    <2>1. Record /\ UNCHANGED mix /\ CodeNext
      BY <1>1 DEF Next
    <2> QED
      BY <2>1, Begins, Checks, WritesOfUsers, WritesOfRows, Deletes, Others
      DEF CodeNext, OwnSteps, AdminWrites, ProxiedSteps
  <1>2. CASE UNCHANGED vars
    BY <1>2 DEF vars, Inv, TypeOK, Consistent, NamesUnique, RowsOwned, SettingsUnique, KeysOK,
                CallsOK, CallOK, BodyOK, At
  <1> QED
    BY <1>1, <1>2

LEMMA Invariant == Spec => []Inv
  BY Initially, Step, PTL DEF Spec

\* Every variable keeps its type.
THEOREM TypeCorrect == Spec => []TypeOK
  <1>1. Inv => TypeOK
    BY DEF Inv
  <1> QED
    BY <1>1, Invariant, PTL

\* No two users share a name, and every row belongs to a user who exists, for any number
\* of calls in flight when the user is deleted.
THEOREM TablesConsistent == Spec => []Consistent
  <1>1. Inv => Consistent
    BY DEF Inv
  <1> QED
    BY <1>1, Invariant, PTL

\* The call that writes ends with its step, and an administrator's was entitled.
LEMMA WriterEnds ==
  ASSUME Inv, NEW k \in calls, Done(k)
  PROVE  /\ k \in Ended
         /\ k.op \in AdminOps /\ k.step = "write" => k.id \in entitled
  BY DEF Inv, CallsOK, CallOK, Ended, Done

\* The row of one user is replaced.
LEMMA OneUserChanges ==
  ASSUME TypeOK, NEW u \in DOMAIN users, NEW row, SetUser(u, row), UNCHANGED keys,
         row.admin # users[u].admin => AdminFor(u),
         row.pass # users[u].pass => AdminFor(u) \/ OwnerOf(u),
         row.name # users[u].name => OwnerOf(u)
  PROVE  StepEntitled
  <1>1. DOMAIN users' = DOMAIN users /\ \A v \in DOMAIN users : users'[v] = IF v = u THEN row ELSE users[v]
    BY DEF SetUser
  <1> QED
    BY <1>1 DEF StepEntitled

\* What the three UPDATEs change of a row, and what they leave.
LEMMA OneField ==
  ASSUME TypeOK, NEW u \in DOMAIN users, NEW pass \in Passwords, NEW name \in Names, NEW admin \in BOOLEAN
  PROVE  /\ [users[u] EXCEPT !.pass = pass].name = users[u].name
         /\ [users[u] EXCEPT !.pass = pass].admin = users[u].admin
         /\ [users[u] EXCEPT !.admin = admin].name = users[u].name
         /\ [users[u] EXCEPT !.admin = admin].pass = users[u].pass
         /\ [users[u] EXCEPT !.name = name].pass = users[u].pass
         /\ [users[u] EXCEPT !.name = name].admin = users[u].admin
  BY DEF TypeOK, User

LEMMA EntitledStep == ASSUME Inv, Next PROVE StepEntitled
  <1>1. TypeOK /\ NamesUnique /\ CodeNext /\ UNCHANGED mix /\ Record
    BY DEF Inv, Consistent, Next
  <1>2. ASSUME UNCHANGED keys, DOMAIN users \subseteq DOMAIN users',
               \A v \in DOMAIN users : users'[v] = users[v]
        PROVE  StepEntitled
    BY <1>2 DEF StepEntitled
  <1>3. ASSUME NEW k \in calls, RegisterCreate(k) PROVE StepEntitled
    <2>1. UNCHANGED keys /\ CallOK(k)
      BY <1>3 DEF RegisterCreate, Inv, CallsOK
    <2>2. CASE UNCHANGED users
      BY <1>2, <2>1, <2>2
    <2>3. CASE ~UNCHANGED users
      <3> PICK u \in Users : InsertUser(u, k.arg.name, k.arg.pass, FALSE)
        BY <1>3, <2>3 DEF RegisterCreate
      <3>1. u \notin DOMAIN users
        BY <1>1 DEF TypeOK, InsertUser
      <3> QED
        BY <1>2, <2>1, <3>1 DEF InsertUser
    <2> QED
      BY <2>2, <2>3
  <1>4. CASE Restart
    <2>1. UNCHANGED keys
      BY <1>4 DEF Restart
    <2>2. UNCHANGED users \/ DOMAIN users = {}
      BY <1>4 DEF Restart, EnsureAdmin
    <2> QED
      BY <1>2, <2>1, <2>2
  <1>5. ASSUME NEW k \in calls, NEW u, NEW p \in Passwords, WritePassword(u, p), Done(k), UNCHANGED keys,
               (k.id \in entitled /\ k.to = u) \/ k.by = u
        PROVE  StepEntitled
    <2>1. AdminFor(u) \/ OwnerOf(u)
      BY <1>5, WriterEnds DEF AdminFor, OwnerOf
    <2>2. CASE u \in DOMAIN users
      <3> DEFINE row == [users[u] EXCEPT !.pass = p]
      <3>1. row.name = users[u].name /\ row.admin = users[u].admin
        BY <1>1, <1>5, <2>2, OneField, AccountsAssumption
      <3>2. SetUser(u, row)
        BY <1>5, <2>2 DEF WritePassword
      <3> HIDE DEF row
      <3> QED
        BY <1>1, <1>5, <2>1, <2>2, <3>1, <3>2, OneUserChanges
    <2>3. CASE u \notin DOMAIN users
      BY <1>2, <1>5, <2>3 DEF WritePassword
    <2> QED
      BY <2>2, <2>3
  <1>6. ASSUME NEW k \in calls, ChangePasswordWrite(k) PROVE StepEntitled
    BY <1>5, <1>6 DEF ChangePasswordWrite, At, Inv, CallsOK, CallOK, BodyOK
  <1>7. ASSUME NEW k \in calls, ResetPassword(k) PROVE StepEntitled
    <2>1. k.id \in entitled
      BY <1>7, WriterEnds DEF ResetPassword, At, AdminOps
    <2> QED
      BY <1>5, <1>7, <2>1 DEF ResetPassword, At, Inv, CallsOK, CallOK, BodyOK
  <1>8. ASSUME NEW k \in calls, SetAdmin(k) PROVE StepEntitled
    <2>1. AdminFor(k.to) /\ k.arg \in BOOLEAN
      BY <1>8, WriterEnds DEF SetAdmin, At, AdminOps, AdminFor, Inv, CallsOK, CallOK, BodyOK
    <2>2. CASE k.to \in DOMAIN users
      <3> DEFINE row == [users[k.to] EXCEPT !.admin = k.arg]
      <3>1. row.name = users[k.to].name /\ row.pass = users[k.to].pass
        BY <1>1, <2>1, <2>2, OneField, AccountsAssumption
      <3>2. SetUser(k.to, row) /\ UNCHANGED keys
        BY <1>8, <2>2 DEF SetAdmin
      <3> HIDE DEF row
      <3> QED
        BY <1>1, <2>1, <2>2, <3>1, <3>2, OneUserChanges
    <2>3. CASE k.to \notin DOMAIN users
      BY <1>2, <1>8, <2>3 DEF SetAdmin
    <2> QED
      BY <2>2, <2>3
  <1>9. ASSUME NEW k \in calls, ChangeUsernameWrite(k) PROVE StepEntitled
    <2>1. OwnerOf(k.by) /\ k.arg \in Names
      BY <1>9, WriterEnds DEF ChangeUsernameWrite, At, OwnerOf, Inv, CallsOK, CallOK, BodyOK
    <2>2. CASE k.by \in DOMAIN users /\ NameFree(k.arg, k.by)
      <3> DEFINE row == [users[k.by] EXCEPT !.name = k.arg]
      <3>1. row.pass = users[k.by].pass /\ row.admin = users[k.by].admin
        BY <1>1, <2>1, <2>2, OneField, AccountsAssumption
      <3>2. SetUser(k.by, row) /\ UNCHANGED keys
        BY <1>9, <2>2 DEF ChangeUsernameWrite
      <3> HIDE DEF row
      <3> QED
        BY <1>1, <2>1, <2>2, <3>1, <3>2, OneUserChanges
    <2>3. CASE ~(k.by \in DOMAIN users /\ NameFree(k.arg, k.by))
      BY <1>2, <1>9, <2>3 DEF ChangeUsernameWrite
    <2> QED
      BY <2>2, <2>3
  <1>10. ASSUME NEW k \in calls, DeleteUser(k) PROVE StepEntitled
    <2>1. k \in Ended /\ k.id \in entitled /\ k.to # k.by
      BY <1>10, WriterEnds DEF DeleteUser, At, AdminOps, Inv, CallsOK, CallOK
    <2>2. /\ DOMAIN users' = DOMAIN users \ {k.to}
          /\ \A v \in DOMAIN users' : users'[v] = users[v]
          /\ \A r \in keys \ keys' : r.owner = k.to
      BY <1>10 DEF DeleteUser
    <2> QED
      BY <2>1, <2>2 DEF StepEntitled
  <1>11. ASSUME NEW k \in calls, DeleteAPIKeyWrite(k) PROVE StepEntitled
    <2>1. OwnerOf(k.by)
      BY <1>11, WriterEnds DEF DeleteAPIKeyWrite, OwnerOf
    <2>2. \A r \in keys \ keys' : r.owner = k.by
      BY <1>11 DEF DeleteAPIKeyWrite, Inv, CallsOK, CallOK
    <2>3. UNCHANGED users
      BY <1>11 DEF DeleteAPIKeyWrite
    <2> QED
      BY <2>1, <2>2, <2>3 DEF StepEntitled
  <1>12. ASSUME NEW k \in calls, SettingsWrite(k) \/ CreateAPIKey(k) \/ ProxiedSettle(k) PROVE StepEntitled
    BY <1>12 DEF SettingsWrite, CreateAPIKey, ProxiedSettle, StepEntitled
  <1>13. ASSUME NEW k \in calls,
               \/ AdminCheck(k) \/ RegisterCheck(k) \/ ChangePasswordCheck(k) \/ ChangeUsernameCheck(k)
               \/ SettingsRead(k) \/ SettingsUpsert(k) \/ DeleteAPIKeyCheck(k)
               \/ ProxiedKey(k) \/ ProxiedSettings(k)
         PROVE StepEntitled
    <2>1. UNCHANGED <<users, keys>>
      BY <1>13 DEF AdminCheck, RegisterCheck, ChangePasswordCheck, ChangeUsernameCheck, SettingsRead,
             SettingsUpsert, DeleteAPIKeyCheck, ProxiedKey, ProxiedSettings, tables
    <2> QED
      BY <1>2, <2>1
  <1>14. ASSUME (\E c \in Calls : Starts(c)) \/ Login \/ TokenExpires PROVE StepEntitled
    <2>1. UNCHANGED <<users, keys>>
      BY <1>14 DEF Starts, BeginOwn, BeginAdmin, BeginRegister, BeginProxied, Begin, Login,
                   TokenExpires, tables
    <2> QED
      BY <1>2, <2>1
  <1> QED
    BY <1>1, <1>3, <1>4, <1>6, <1>7, <1>8, <1>9, <1>10, <1>11, <1>12, <1>13, <1>14
    DEF CodeNext, OwnSteps, AdminWrites, ProxiedSteps

\* Only a caller who was an administrator since the call began, never the user himself,
\* removes a user or changes his flag; a name and a key are changed by their owner.
THEOREM EntitledOnly == Spec => OnlyEntitled
  <1>1. Inv /\ [Next]_vars => [StepEntitled]_vars
    BY EntitledStep
  <1> QED
    BY <1>1, Invariant, PTL DEF Spec, OnlyEntitled

\* A stored upstream key changes only to one that a request names, unless the row was
\* changed under that request.
THEOREM FormKeepsKey == Spec => SettingsKept
  <1> DEFINE Kept == \A u \in Users : \A r \in RowsOf(u), t \in (RowsOf(u))' :
          r.secret # t.secret =>
             \E k \in Ended : /\ k.op = "UpdateSettings" /\ k.by = u
                              /\ \/ k.arg.secret = t.secret /\ t.secret # Unset
                                 \/ k.seen.was # RowsOf(u)
  <1>1. ASSUME Inv, Next PROVE Kept
    <2> USE <1>1
    <2>1. SettingsUnique
      BY DEF Inv, Consistent
    <2>2. ASSUME settings' \subseteq settings PROVE Kept
      BY <2>1, <2>2 DEF RowsOf, SettingsUnique
    <2>3. ASSUME NEW k \in calls, SettingsWrite(k) PROVE Kept
      <3> DEFINE row == Merged(k, k.seen.was)
      <3>1. k \in Ended
        BY <2>3, WriterEnds DEF SettingsWrite
      <3>2. row.owner = k.by /\ row.secret = IF k.arg.secret = Unset /\ k.seen.was # {}
                THEN (CHOOSE r \in k.seen.was : TRUE).secret ELSE k.arg.secret
        BY DEF Merged
      <3>3. settings' = IF k.seen.insert
                      THEN IF Referenced(k.by) /\ OneRow(k.by) THEN settings \cup {row} ELSE settings
                      ELSE {IF r.owner = k.by THEN row ELSE r : r \in settings}
        BY <2>3 DEF SettingsWrite
      <3> HIDE DEF row
      <3> SUFFICES ASSUME NEW u \in Users, NEW r \in RowsOf(u), NEW t \in (RowsOf(u))',
                          r.secret # t.secret
                   PROVE  /\ k.op = "UpdateSettings" /\ k.by = u
                          /\ \/ k.arg.secret = t.secret /\ t.secret # Unset
                             \/ k.seen.was # RowsOf(u)
        BY <3>1
      <3>4. r \in settings /\ r.owner = u /\ t \in settings' /\ t.owner = u
        BY DEF RowsOf
      <3>5. t = row /\ k.by = u
        BY <2>1, <3>2, <3>3, <3>4 DEF SettingsUnique, OneRow
      <3>6. RowsOf(u) = {r}
        BY <2>1, <3>4 DEF RowsOf, SettingsUnique
      <3>7. k.seen.was = {r} => k.arg.secret # Unset
        BY <3>2, <3>5
      <3> QED
        BY <2>3, <3>2, <3>5, <3>6, <3>7 DEF SettingsWrite, At
    <2>4. CodeNext
      BY DEF Next
    <2>5. (\E k \in calls : SettingsWrite(k)) \/ settings' \subseteq settings
      BY <2>4 DEF CodeNext, Starts, BeginOwn, BeginAdmin, BeginRegister, BeginProxied, Begin, AdminCheck,
             AdminWrites, SetAdmin, DeleteUser, ResetPassword, OwnSteps, RegisterCheck, RegisterCreate,
             ChangePasswordCheck, ChangePasswordWrite, ChangeUsernameCheck, ChangeUsernameWrite,
             SettingsRead, SettingsUpsert, CreateAPIKey, DeleteAPIKeyCheck, DeleteAPIKeyWrite,
             ProxiedSteps, ProxiedKey, ProxiedSettings, ProxiedSettle, Login, TokenExpires, Restart, tables
    <2> QED
      BY <2>2, <2>3, <2>5
  <1>2. Inv /\ [Next]_vars => [Kept]_vars
    BY <1>1
  <1> QED
    BY <1>2, Invariant, PTL DEF Spec, SettingsKept
=============================================================================
