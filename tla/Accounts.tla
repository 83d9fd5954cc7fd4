------------------------------- MODULE Accounts -------------------------------
(***************************************************************************)
(* User accounts, their tokens, API keys and Amp settings: the calls of     *)
(* internal/handler/user.go and amp.go with the services and repositories   *)
(* under them, and the part of a proxied request that reads the same        *)
(* tables.                                                                  *)
(*                                                                          *)
(* No lock and no transaction spans a call: each one is a token check       *)
(* (which does not touch the database) followed by separate SQL statements, *)
(* and one action below is one statement.  The tables are                   *)
(*   users     id -> [name, pass, admin]     (username is UNIQUE)           *)
(*   keys      rows [id, owner]              (user_api_keys)                *)
(*   settings  rows [owner, secret] (user_id is UNIQUE)            *)
(*   events    owners with rows in billing_events                           *)
(* and the last three reference users ON DELETE CASCADE.                     *)
(***************************************************************************)
EXTENDS Naturals, FiniteSets

CONSTANTS Users,        \* account ids (uuids: an id is used once)
          Keys,         \* API key ids (likewise)
          Names,        \* usernames
          Passwords,
          Secrets,      \* upstream API keys a user may store
          Calls,        \* HTTP calls in flight
          Nobody,       \* the caller of a call made without a token
          Unset,        \* an empty field: of a request, or of a settings row
          Root,         \* config.AdminUsername
          RootPassword, \* config.AdminPassword
          Mixes         \* bound: what one behaviour's calls are, [ops, passwords]

ASSUME AccountsAssumption ==
    /\ Nobody \notin Users
    /\ Unset \notin Secrets
    /\ Root \in Names
    /\ RootPassword \in Passwords
    /\ \A m \in Mixes : m.passwords \subseteq Passwords

VARIABLES users, keys, settings, events,  \* the database
          used,      \* the ids given out so far
          tokens,    \* the users for whom a valid token is held by someone
          calls,     \* the calls in flight, a set of records with an id each
          entitled,  \* history: the calls whose caller was an admin since they began
          mix        \* bound: which of Mixes this behaviour makes

vars == <<users, keys, settings, events, used, tokens, calls, entitled, mix>>
tables == <<users, keys, settings, events>>

User == [name: Names, pass: Passwords, admin: BOOLEAN]
Row == [owner: Users, secret: Secrets \cup {Unset}]

AdminOps == {"SetAdmin", "DeleteUser", "ResetPassword"}
OwnOps == {"ChangePassword", "ChangeUsername", "UpdateSettings", "CreateAPIKey", "DeleteAPIKey"}

\* A call is at its next statement; "to" is the account it is about, "arg" the
\* body of the request and "seen" what it has read so far.
Call(c, op, by, to, arg) ==
    [id |-> c, op |-> op, by |-> by, to |-> to, arg |-> arg, step |-> "read", seen |-> Unset]

Named(n) == {u \in DOMAIN users : users[u].name = n}
Admins == {u \in DOMAIN users : users[u].admin}

(***************************************************************************)
(* The constraints of the schema: a row that breaks one is refused, the     *)
(* statement fails and the call ends with an error.                         *)
(***************************************************************************)
NameFree(n, u) == Named(n) \subseteq {u}

\* Mutant: foreign keys are not enforced.
ReferencedOnce(u) == u \in used
Referenced(u) == u \in DOMAIN users
OneRow(u) == \A r \in settings : r.owner # u

Done(k) == calls' = calls \ {k}
Goes(k, step, seen) == calls' = (calls \ {k}) \cup {[k EXCEPT !.step = step, !.seen = seen]}
At(k, op, step) == k.op = op /\ k.step = step

(***************************************************************************)
(* A call begins: JWTAuthMiddleware checks the signature and the dates of   *)
(* the token only, so the token of a deleted user still passes.  DeleteUser *)
(* refuses the caller's own id before any statement.                        *)
(***************************************************************************)
Bodies(op) ==
    CASE op = "SetAdmin"       -> BOOLEAN
      [] op = "ResetPassword"  -> mix.passwords
      [] op = "ChangePassword" -> [old: mix.passwords, new: mix.passwords]
      [] op = "ChangeUsername" -> Names
      [] op = "UpdateSettings" -> [secret: Secrets \cup {Unset}]
      [] op = "DeleteAPIKey"   -> used \cap Keys
      [] OTHER                 -> {Unset}

Begin(k) ==
    /\ k.op \in mix.ops
    /\ \A j \in calls : j.id # k.id
    /\ calls' = calls \cup {k}
    /\ UNCHANGED <<tables, used, tokens>>

BeginOwn(c) ==
    \E by \in tokens, op \in OwnOps \cap mix.ops : \E arg \in Bodies(op) : Begin(Call(c, op, by, by, arg))

BeginAdmin(c) ==
    \E by \in tokens, op \in AdminOps \cap mix.ops, to \in used \cap Users :
        /\ op = "DeleteUser" => to # by
        /\ \E arg \in Bodies(op) : Begin(Call(c, op, by, to, arg))

BeginRegister(c) ==
    \E n \in Names, p \in mix.passwords :
        Begin(Call(c, "Register", Nobody, Nobody, [name |-> n, pass |-> p]))

BeginProxied(c) ==
    \E id \in used \cap Keys : Begin(Call(c, "Proxied", Nobody, Nobody, id))

(***************************************************************************)
(* AdminMiddleware reads the caller's row: gone or not an admin, and the    *)
(* call is refused.                                                         *)
(***************************************************************************)
\* Mutant: the flag is not looked at.
MayAdministerAny(u) == u \in DOMAIN users

MayAdminister(u) == u \in Admins

AdminCheck(k) ==
    /\ k.op \in AdminOps /\ k.step = "read"
    /\ IF MayAdminister(k.by) THEN Goes(k, "write", Unset) ELSE Done(k)
    /\ UNCHANGED <<tables, used, tokens>>

(***************************************************************************)
(* The users table.                                                         *)
(***************************************************************************)
InsertUser(u, name, pass, admin) ==
    /\ u \in Users \ used
    /\ users' = [v \in DOMAIN users \cup {u} |->
                    IF v = u THEN [name |-> name, pass |-> pass, admin |-> admin] ELSE users[v]]
    /\ used' = used \cup {u}

SetUser(u, row) == users' = [v \in DOMAIN users |-> IF v = u THEN row ELSE users[v]]

RegisterCheck(k) ==
    /\ At(k, "Register", "read")
    /\ IF Named(k.arg.name) # {} THEN Done(k) ELSE Goes(k, "write", Unset)
    /\ UNCHANGED <<tables, used, tokens>>

\* The new user receives a token at once.
RegisterCreate(k) ==
    /\ At(k, "Register", "write")
    /\ Done(k)
    /\ UNCHANGED <<keys, settings, events>>
    /\ \/ \E u \in Users :
            /\ NameFree(k.arg.name, u)
            /\ InsertUser(u, k.arg.name, k.arg.pass, FALSE)
            /\ tokens' = tokens \cup {u}
       \/ /\ ~NameFree(k.arg.name, Nobody) \/ Users \subseteq used   \* the bound on ids
          /\ UNCHANGED <<users, used, tokens>>

\* One read; the comparison of the hash and the signing touch nothing shared.
Login ==
    \E u \in DOMAIN users, p \in mix.passwords :
        /\ users[u].pass = p
        /\ tokens' = tokens \cup {u}
        /\ UNCHANGED <<tables, used, calls>>

\* 24 hours without a call (a call after the first hour returns a new token).
TokenExpires ==
    \E u \in tokens : tokens' = tokens \ {u} /\ UNCHANGED <<tables, used, calls>>

\* The old password is compared with the hash read here, not with the one that
\* the write replaces.
ChangePasswordCheck(k) ==
    /\ At(k, "ChangePassword", "read")
    /\ IF k.by \in DOMAIN users /\ users[k.by].pass = k.arg.old
       THEN Goes(k, "write", Unset) ELSE Done(k)
    /\ UNCHANGED <<tables, used, tokens>>

\* UPDATE ... WHERE id = ?: no row and the call fails, changing nothing.
WritePassword(u, p) ==
    IF u \in DOMAIN users THEN SetUser(u, [users[u] EXCEPT !.pass = p]) ELSE UNCHANGED users

ChangePasswordWrite(k) ==
    /\ At(k, "ChangePassword", "write")
    /\ WritePassword(k.by, k.arg.new)
    /\ Done(k)
    /\ UNCHANGED <<keys, settings, events, used, tokens>>

ResetPassword(k) ==
    /\ At(k, "ResetPassword", "write")
    /\ WritePassword(k.to, k.arg)
    /\ Done(k)
    /\ UNCHANGED <<keys, settings, events, used, tokens>>

ChangeUsernameCheck(k) ==
    /\ At(k, "ChangeUsername", "read")
    /\ IF Named(k.arg) # {} THEN Done(k) ELSE Goes(k, "write", Unset)
    /\ UNCHANGED <<tables, used, tokens>>

ChangeUsernameWrite(k) ==
    /\ At(k, "ChangeUsername", "write")
    /\ IF k.by \in DOMAIN users /\ NameFree(k.arg, k.by)
       THEN SetUser(k.by, [users[k.by] EXCEPT !.name = k.arg]) ELSE UNCHANGED users
    /\ Done(k)
    /\ UNCHANGED <<keys, settings, events, used, tokens>>

SetAdmin(k) ==
    /\ At(k, "SetAdmin", "write")
    /\ IF k.to \in DOMAIN users
       THEN SetUser(k.to, [users[k.to] EXCEPT !.admin = k.arg]) ELSE UNCHANGED users
    /\ Done(k)
    /\ UNCHANGED <<keys, settings, events, used, tokens>>

\* DELETE FROM users: the rows that reference the user go with it.
DeleteUser(k) ==
    /\ At(k, "DeleteUser", "write")
    /\ users' = [v \in DOMAIN users \ {k.to} |-> users[v]]
    /\ keys' = {r \in keys : r.owner # k.to}
    /\ settings' = {r \in settings : r.owner # k.to}
    /\ events' = events \ {k.to}
    /\ Done(k)
    /\ UNCHANGED <<used, tokens>>

(***************************************************************************)
(* Amp settings: UpdateSettings reads the row and fills the fields the      *)
(* request leaves empty from it, then Upsert reads the row again to choose  *)
(* between INSERT and UPDATE.                                               *)
(***************************************************************************)
RowsOf(u) == {r \in settings : r.owner = u}

\* Mutant: an empty field is stored as it is.
MergedAsAsked(k, rows) == [owner |-> k.by, secret |-> k.arg.secret]

Merged(k, rows) ==
    [owner |-> k.by,
     secret |-> IF k.arg.secret = Unset /\ rows # {}
                THEN (CHOOSE r \in rows : TRUE).secret ELSE k.arg.secret]

SettingsRead(k) ==
    /\ At(k, "UpdateSettings", "read")
    /\ Goes(k, "upsert", [was |-> RowsOf(k.by), insert |-> FALSE])
    /\ UNCHANGED <<tables, used, tokens>>

SettingsUpsert(k) ==
    /\ At(k, "UpdateSettings", "upsert")
    /\ Goes(k, "write", [was |-> k.seen.was, insert |-> RowsOf(k.by) = {}])
    /\ UNCHANGED <<tables, used, tokens>>

SettingsWrite(k) ==
    /\ At(k, "UpdateSettings", "write")
    /\ LET row == Merged(k, k.seen.was) IN
       settings' = IF k.seen.insert
                   THEN IF Referenced(k.by) /\ OneRow(k.by) THEN settings \cup {row} ELSE settings
                   ELSE {IF r.owner = k.by THEN row ELSE r : r \in settings}
    /\ Done(k)
    /\ UNCHANGED <<users, keys, events, used, tokens>>

(***************************************************************************)
(* API keys: created with one INSERT; deleted by id after the owner of the  *)
(* row has been compared with the caller.                                   *)
(***************************************************************************)
CreateAPIKey(k) ==
    /\ At(k, "CreateAPIKey", "read")
    /\ \/ \E id \in Keys \ used :
            /\ Referenced(k.by)
            /\ keys' = keys \cup {[id |-> id, owner |-> k.by]}
            /\ used' = used \cup {id}
       \/ /\ ~Referenced(k.by) \/ Keys \subseteq used   \* the bound on ids
          /\ UNCHANGED <<keys, used>>
    /\ Done(k)
    /\ UNCHANGED <<users, settings, events, tokens>>

DeleteAPIKeyCheck(k) ==
    /\ At(k, "DeleteAPIKey", "read")
    /\ IF [id |-> k.arg, owner |-> k.by] \in keys THEN Goes(k, "write", Unset) ELSE Done(k)
    /\ UNCHANGED <<tables, used, tokens>>

DeleteAPIKeyWrite(k) ==
    /\ At(k, "DeleteAPIKey", "write")
    /\ keys' = {r \in keys : r.id # k.arg}
    /\ Done(k)
    /\ UNCHANGED <<users, settings, events, used, tokens>>

(***************************************************************************)
(* A proxied request: APIKeyAuthMiddleware looks the key up, then its       *)
(* owner's settings; when the response has ended the request is settled.    *)
(* The UPDATE of last_used_at by a goroutine of its own changes no row that *)
(* is modelled, and expires_at is not among the columns GetByKeyHash reads. *)
(***************************************************************************)
ProxiedKey(k) ==
    /\ At(k, "Proxied", "read")
    /\ \/ \E r \in keys : r.id = k.arg /\ Goes(k, "settings", r.owner)
       \/ (\A r \in keys : r.id # k.arg) /\ Done(k)
    /\ UNCHANGED <<tables, used, tokens>>

\* No row, one without an upstream URL, or a query that fails: the request is refused.
ProxiedSettings(k) ==
    /\ At(k, "Proxied", "settings")
    /\ \/ RowsOf(k.seen) # {} /\ Goes(k, "settle", k.seen)
       \/ Done(k)
    /\ UNCHANGED <<tables, used, tokens>>

ProxiedSettle(k) ==
    /\ At(k, "Proxied", "settle")
    /\ events' = IF Referenced(k.seen) THEN events \cup {k.seen} ELSE events
    /\ Done(k)
    /\ UNCHANGED <<users, keys, settings, used, tokens>>

(***************************************************************************)
(* The server restarts: the calls are gone, and EnsureAdmin creates the     *)
(* administrator if and only if there is no user at all (and an id is left). *)
(***************************************************************************)
EnsureAdmin ==
    IF DOMAIN users = {} /\ ~(Users \subseteq used) THEN \E u \in Users : InsertUser(u, Root, RootPassword, TRUE)
    ELSE UNCHANGED <<users, used>>

Restart ==
    /\ calls' = {}
    /\ EnsureAdmin
    /\ UNCHANGED <<keys, settings, events, tokens>>

-----------------------------------------------------------------------------
Init ==
    /\ \E u \in Users :
        /\ users = [v \in {u} |-> [name |-> Root, pass |-> RootPassword, admin |-> TRUE]]
        /\ used = {u}
    /\ keys = {} /\ settings = {} /\ events = {}
    /\ tokens = {} /\ calls = {} /\ entitled = {}
    /\ mix \in Mixes

Starts(c) == BeginOwn(c) \/ BeginAdmin(c) \/ BeginRegister(c) \/ BeginProxied(c)

AdminWrites(k) == SetAdmin(k) \/ DeleteUser(k) \/ ResetPassword(k)

OwnSteps(k) ==
    \/ RegisterCheck(k) \/ RegisterCreate(k)
    \/ ChangePasswordCheck(k) \/ ChangePasswordWrite(k)
    \/ ChangeUsernameCheck(k) \/ ChangeUsernameWrite(k)
    \/ SettingsRead(k) \/ SettingsUpsert(k) \/ SettingsWrite(k)
    \/ CreateAPIKey(k) \/ DeleteAPIKeyCheck(k) \/ DeleteAPIKeyWrite(k)

ProxiedSteps(k) == ProxiedKey(k) \/ ProxiedSettings(k) \/ ProxiedSettle(k)

CodeNext ==
    \/ \E c \in Calls : Starts(c)
    \/ \E k \in calls : AdminCheck(k) \/ AdminWrites(k) \/ OwnSteps(k) \/ ProxiedSteps(k)
    \/ Login \/ TokenExpires \/ Restart

\* The history: a call stays entitled once its caller has been an admin.
Record ==
    entitled' = {k.id : k \in {j \in calls' :
                    \/ j.by \in Admins'
                    \/ j.id \in entitled /\ \E i \in calls : i.id = j.id}}

Next == CodeNext /\ Record /\ UNCHANGED mix

Spec == Init /\ [][Next]_vars

-----------------------------------------------------------------------------
\* Every variable has its type, and ids were given out before they are used.
TypeOK ==
    /\ mix \in Mixes
    /\ users \in [DOMAIN users -> User]
    /\ DOMAIN users \subseteq used \cap Users
    /\ keys \subseteq [id: Keys, owner: Users]
    /\ settings \subseteq Row
    /\ events \subseteq Users
    /\ tokens \subseteq used \cap Users

\* The checks of the calls are separate from their writes, and tokens and calls
\* outlive the user they name; yet no two users share a name, and every row
\* belongs to a user who exists: a deleted user's calls in flight, requests
\* being served included, leave nothing behind (schema of sqlite.go, Register,
\* ChangeUsername, Upsert, CreateAPIKey, settlement).
NamesUnique == \A u, v \in DOMAIN users : users[u].name = users[v].name => u = v
RowsOwned ==
    {r.owner : r \in keys \cup settings} \cup events \subseteq DOMAIN users
SettingsUnique == \A r, t \in settings : r.owner = t.owner => r = t
Consistent == NamesUnique /\ RowsOwned /\ SettingsUnique

\* What a step may do to an account, by the call that ends in it: only a caller
\* who was an administrator at some time since the call began removes a user
\* (never himself), changes the flag of one, or the password of another; a name, and a key, is changed by its owner (AdminMiddleware,
\* DeleteUser, DeleteAPIKey).
Ended == {k \in calls : \A j \in calls' : j.id # k.id}
AdminFor(u) == \E k \in Ended : k.id \in entitled /\ k.to = u
OwnerOf(u) == \E k \in Ended : k.by = u
StepEntitled ==
    /\ \A u \in DOMAIN users :
        /\ u \notin DOMAIN users' =>
            \E k \in Ended : k.id \in entitled /\ k.to = u /\ k.by # u
        /\ u \in DOMAIN users' =>
            /\ users'[u].admin # users[u].admin => AdminFor(u)
            /\ users'[u].pass # users[u].pass => AdminFor(u) \/ OwnerOf(u)
            /\ users'[u].name # users[u].name => OwnerOf(u)
    /\ \A r \in keys \ keys' : r.owner \notin DOMAIN users' \/ OwnerOf(r.owner)
OnlyEntitled == [][StepEntitled]_vars

\* A stored upstream key changes only to one that the request names, unless the
\* row was changed between the read and the write of that request: a form saved
\* with the field left empty keeps the key (UpdateSettings, Upsert).
SettingsKept ==
    [][\A u \in Users : \A r \in RowsOf(u), t \in (RowsOf(u))' :
          r.secret # t.secret =>
             \E k \in Ended : /\ k.op = "UpdateSettings" /\ k.by = u
                              /\ \/ k.arg.secret = t.secret /\ t.secret # Unset
                                 \/ k.seen.was # RowsOf(u)]_vars

=============================================================================
