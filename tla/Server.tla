-------------------------------- MODULE Server --------------------------------
(***************************************************************************)
(* The process from its start to its end (cmd/server/main.go): the database *)
(* is opened and brought to the current schema (Schema), the price store is *)
(* filled (Prices), the settings are loaded (Settings), and only then does  *)
(* the server take requests.  It may stop at any point, and whoever runs it *)
(* starts it again.  The administrator's account made in between is in      *)
(* Accounts; log writer, detail store, cleaner and hub, which main starts   *)
(* too, are in RequestLog, DetailStore and LiveLog.                         *)
(***************************************************************************)
EXTENDS Schema, Settings, Prices

CONSTANTS MaxStops,     \* bound: how often the process stops
          Varied        \* bound: the part that varies in a behaviour, initially and when up

VARIABLES phase,        \* "down", or what the process is at
          stops,
          part

processVars == <<phase, stops, part>>
serverVars == <<schemaVars, settingsVars, pricesVars, processVars>>

ServerInit ==
    /\ SchemaInit /\ SettingsInit /\ PricesInit
    /\ phase = "down" /\ stops = 0 /\ part \in Varied
    /\ part # "schema" => db = Empty /\ dbType = "sqlite"
    /\ part # "settings" => saved = Unsaved
    /\ part # "prices" => priceRows = NoPrices

Start ==
    /\ phase = "down"
    /\ phase' = "schema"
    /\ boot' = Opening
    /\ UNCHANGED <<dbType, db, marks, deleted, settingsVars, pricesVars, stops, part>>

\* database.InitWithOptions
Open ==
    /\ phase = "schema"
    /\ \/ OpenStep /\ UNCHANGED phase
       \/ Opened /\ phase' = "prices" /\ UNCHANGED schemaVars
    /\ UNCHANGED <<settingsVars, pricesVars, stops, part>>

\* billing.InitPriceStore; EnsureAdmin, which follows, only warns of an error.
FillPrices ==
    /\ phase = "prices"
    /\ LoadPrices
    /\ phase' = "settings"
    /\ UNCHANGED <<schemaVars, settingsVars, stops, part>>

LoadAll ==
    /\ phase = "settings"
    /\ LoadSettings
    /\ phase' = "up"
    /\ UNCHANGED <<schemaVars, pricesVars, stops, part>>

Down ==
    /\ phase' = "down"
    /\ LoseSettings /\ LosePrices
    /\ UNCHANGED <<schemaVars, part>>

\* The process is killed.
Stop == phase # "down" /\ stops < MaxStops /\ Down /\ stops' = stops + 1

\* A statement of the opening fails, with an error that is not to be ignored or
\* for a reason of the database's own (locked, full, out of reach), which the
\* bound on the stops covers too: main ends with log.Fatalf.
OpenFails ==
    /\ phase = "schema" /\ (Refused \/ stops < MaxStops)
    /\ Down
    /\ stops' = IF Refused THEN stops ELSE stops + 1

\* The refreshes run from the moment the store is filled.
RunPrices ==
    /\ part = "prices" /\ phase \in {"settings", "up"}
    /\ PriceStep
    /\ UNCHANGED <<schemaVars, settingsVars, processVars>>

RunSettings ==
    /\ part = "settings" /\ phase = "up"
    /\ \/ \E a \in Admins, v \in Values : SaveSetting(a, v)
       \/ \E a \in Admins : ApplySetting(a)
       \/ \E c \in Callers : FindNone(c) \/ ReadTimeouts(c) \/ StoreTransport(c)
    /\ UNCHANGED <<schemaVars, pricesVars, processVars>>

RunKeys ==
    /\ part = "schema" /\ phase = "up"
    /\ DeleteKey
    /\ UNCHANGED <<settingsVars, pricesVars, processVars>>

\* An upload, a restore or a switch (DatabaseSwitch): the new database has been
\* migrated, and neither the settings nor the prices are loaded from it.
Exchange ==
    /\ part = "settings" /\ phase = "up"
    /\ ExchangeSettings
    /\ UNCHANGED <<schemaVars, pricesVars, processVars>>

ServerNext ==
    \/ Start \/ Open \/ FillPrices \/ LoadAll
    \/ OpenFails \/ Stop
    \/ RunPrices \/ RunSettings \/ RunKeys \/ Exchange

\* The steps of the start are main's own and nothing keeps them from going on;
\* a process that has ended is started again (the service manager, the operator).
StartFairness == WF_serverVars(Start) /\ WF_serverVars(Open) /\ WF_serverVars(FillPrices) /\ WF_serverVars(LoadAll)

\* The ticker refreshes as long as the process runs, and of the refreshes that are begun
\* again and again LiteLLM answers one at last and the answer can be read.
RefreshFairness ==
    /\ WF_serverVars(RunPrices /\ Refresh)
    /\ SF_serverVars(RunPrices /\ Answer)
    /\ SF_serverVars(RunPrices /\ MergeOne)

ServerSpec == ServerInit /\ [][ServerNext]_serverVars /\ StartFairness /\ RefreshFairness

-----------------------------------------------------------------------------
\* Wherever earlier starts stopped, between a statement and its mark included, a
\* server that takes requests has the whole current schema, each old token as a
\* key unless its owner has deleted it, and every migration marked.
MigratedWhenUp ==
    phase \notin {"down", "schema"} =>
        Migrated /\ marks = {Migrations[i] : i \in 1..Len(Migrations)}

\* A migration that has been applied is not applied again: the key a user has
\* deleted does not come back from user_proxy_tokens with the next start.
DeletedStaysDeleted == db.keys \cap deleted = {}

\* However often the process stops on its way, when it stops no more it comes
\* up: a start takes over what an unfinished one has left.
StartEnds == []<>(phase = "up")

\* Once the updates are over, the value in memory, which is read at each use, is the one
\* in the table, and so are the timeouts of a transport that has been made with it,
\* unless two updates overlapped, the row could not be read at the start or another
\* database was put in place.  Nothing of the kind holds of transports made earlier.
RuntimeIsSaved ==
    phase = "up" /\ AllApplied /\ ~skewed =>
        /\ live = Effective(saved)
        /\ \A t \in Transports : ~built[t].stale => built[t].with = Effective(saved)

\* The ETag is that of the list in memory, whichever of the overlapping refreshes came
\* last: a refresh that starts now and is answered 304 is right to change nothing.
EtagTellsMemory ==
    etag # 0 => \A m \in Lists[etag] : prices[m] \in {Manual, LiteLLM(etag)}

\* An older list that is merged late, after a newer one, and a 304 that answers an ETag
\* which is no longer the one in memory, leave older prices in force.  They do not stay:
\* when LiteLLM publishes no more lists, memory comes to hold the last one for good.
PricesCatchUp ==
    <>[](part = "prices" =>
           etag = version /\ \A m \in Lists[version] : prices[m] \in {Manual, LiteLLM(version)})
=============================================================================
