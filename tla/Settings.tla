------------------------------- MODULE Settings -------------------------------
(***************************************************************************)
(* A setting of the system page: kept in the system_config table and, for   *)
(* the running process, in memory (the retry configuration, the timeouts,   *)
(* the switch of the request details; handler/system.go, amp/proxy.go).     *)
(* An update is a write to the table and then one to memory, under no       *)
(* common lock; memory is filled from the table once, at the start.         *)
(*                                                                          *)
(* Memory is read each time the value is needed, with one exception: the    *)
(* timeouts of a dial, a TLS handshake and an idle connection are read when *)
(* a transport is made, and a transport is kept until the process ends.     *)
(* Those of direct connections are made before anything is loaded, that of  *)
(* a SOCKS5 proxy by the first requests that use it.                        *)
(***************************************************************************)
EXTENDS Naturals

CONSTANTS Values,      \* what an administrator may choose
          DefaultValue,\* DefaultRetryConfig, DefaultTimeoutConfig, enabled
          Unsaved,     \* no row in system_config
          Admins,      \* administrators whose calls may overlap
          Callers      \* requests through one SOCKS5 proxy, whose first uses may overlap

ASSUME SettingsAssumption == Unsaved \notin Values

VARIABLES saved,       \* the row
          live,        \* globalTimeoutConfig and the like: what is read at each use
          built,       \* per transport, the timeouts it was made with
          making,      \* per caller, the transport it is making for the proxy
          applying,    \* per administrator, the value saved and not yet in memory, or Unsaved
          skewed       \* history: something other than one update at a time has happened
                       \* since the two were last known to agree

settingsVars == <<saved, live, built, making, applying, skewed>>

\* stale (history): read before the value now in memory was put there.
Transports == {"shared", "proxy"}
NotMade == [with |-> Unsaved, stale |-> TRUE]
MakesNone == [at |-> "idle", with |-> Unsaved, stale |-> TRUE]

Effective(v) == IF v = Unsaved THEN DefaultValue ELSE v
Quiet(a) == \A b \in Admins \ {a} : applying[b] = Unsaved

SettingsInit ==
    /\ saved \in Values \cup {Unsaved}
    /\ live = DefaultValue
    /\ built = [t \in Transports |-> NotMade]
    /\ making = [c \in Callers |-> MakesNone]
    /\ applying = [a \in Admins |-> Unsaved]
    /\ skewed = FALSE

\* The handler's checks have passed; SystemConfigRepository.Set succeeds.
SaveSetting(a, v) ==
    /\ applying[a] = Unsaved
    /\ saved' = v
    /\ applying' = [applying EXCEPT ![a] = v]
    /\ skewed' = ~Quiet(a)
    /\ UNCHANGED <<live, built, making>>

\* UpdateConfig, UpdateTimeoutConfig, SetRequestDetailEnabled: the value is put into
\* memory; the transports that there are keep what they were made with.
ApplySetting(a) ==
    /\ applying[a] # Unsaved
    /\ live' = applying[a]
    /\ built' = [t \in Transports |-> [built[t] EXCEPT !.stale = TRUE]]
    /\ making' = [c \in Callers |-> [making[c] EXCEPT !.stale = TRUE]]
    /\ applying' = [applying EXCEPT ![a] = Unsaved]
    /\ UNCHANGED <<saved, skewed>>

\* getSocks5Transport: the cache has none; the timeouts are read; the transport is
\* stored, over one that another caller may have stored meanwhile.
FindNone(c) ==
    /\ making[c].at = "idle" /\ built["proxy"] = NotMade
    /\ making' = [making EXCEPT ![c].at = "missed"]
    /\ UNCHANGED <<saved, live, built, applying, skewed>>

\* Or the proxy's URL is of no use, and the request takes the shared transport.
ReadTimeouts(c) ==
    /\ making[c].at = "missed"
    /\ \/ making' = [making EXCEPT ![c] = [at |-> "read", with |-> live, stale |-> FALSE]]
       \/ making' = [making EXCEPT ![c] = MakesNone]
    /\ UNCHANGED <<saved, live, built, applying, skewed>>

StoreTransport(c) ==
    /\ making[c].at = "read"
    /\ built' = [built EXCEPT !["proxy"] = [with |-> making[c].with, stale |-> making[c].stale]]
    /\ making' = [making EXCEPT ![c] = MakesNone]
    /\ UNCHANGED <<saved, live, applying, skewed>>

\* Mutant: what is in the table is not looked at.
LoadedDefault(v) == DefaultValue

\* InitRetryTransportConfig, InitTimeoutConfig: no row leaves the default.
Loaded(v) == Effective(v)

\* The shared transports are made with what is in memory before anything is loaded;
\* main goes on with the default if the row cannot be read.
LoadSettings ==
    /\ \/ live' = Loaded(saved) /\ skewed' = FALSE
       \/ live' = DefaultValue /\ skewed' = TRUE
    /\ built' = [built EXCEPT !["shared"] = [with |-> live, stale |-> TRUE]]
    /\ UNCHANGED <<saved, making, applying>>

\* The process stops: its memory is gone, and so are the updates.
LoseSettings ==
    /\ live' = DefaultValue
    /\ built' = [t \in Transports |-> NotMade]
    /\ making' = [c \in Callers |-> MakesNone]
    /\ applying' = [a \in Admins |-> Unsaved]
    /\ skewed' = TRUE
    /\ UNCHANGED saved

\* Another database takes the place of this one; nothing is loaded from it.
ExchangeSettings ==
    /\ saved' \in Values \cup {Unsaved}
    /\ skewed' = TRUE
    /\ UNCHANGED <<live, built, making, applying>>

AllApplied == \A a \in Admins : applying[a] = Unsaved
=============================================================================
