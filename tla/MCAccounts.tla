----------------------------- MODULE MCAccounts -----------------------------
(* Three account ids (a user can be deleted and his name taken again), one   *)
(* API key, one upstream key, two calls at a time.  A behaviour makes the    *)
(* calls of one group, each with the registrations and deletions it meets.   *)
EXTENDS Accounts, TLC

Symmetry == Permutations(Users) \cup Permutations(Calls)

Mix(ops, passwords) == [ops |-> ops \cup {"Register", "DeleteUser"}, passwords |-> passwords]

Together ==
    {Mix({"ChangePassword", "ResetPassword"}, Passwords),
     Mix({"SetAdmin", "ChangeUsername"}, {RootPassword}),
     Mix({"CreateAPIKey", "DeleteAPIKey"}, {RootPassword}),
     Mix({"UpdateSettings", "CreateAPIKey", "Proxied"}, {RootPassword})}
=============================================================================
