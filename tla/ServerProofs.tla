----------------------------- MODULE ServerProofs -----------------------------
(***************************************************************************)
(* What Server keeps of schema, settings and prices however often the       *)
(* process stops, for any number of tokens, administrators, values, models, *)
(* lists and overlapping refreshes; and what DetailStore, which the process *)
(* starts and which has variables of its own, keeps of the details of any   *)
(* number of requests: a Get finds what was stored unless a query of its    *)
(* own fails, and a row leaves the table only as a copy.                    *)
(*                                                                          *)
(* The parts share no variable but phase, and the invariant of Server is a  *)
(* conjunction of an invariant for each: how an update on its way relates   *)
(* the table to memory, and memory to the transports that were made with    *)
(* it; that no price is in memory until the prices are loaded;              *)
(* that what a marked migration was for holds, and each statement of the    *)
(* one in hand is still to run or has done what it is for.                  *)
(* That of DetailStore speaks of one request: where its parts lie, what the *)
(* cleaner holds of it, and what a Get has read so far.                     *)
(***************************************************************************)
EXTENDS Server, DetailStore, TLAPS

\* What a setting may hold.
Settable == Values \cup {Unsaved, DefaultValue}

\* What has been read since memory last changed is what memory holds; only a server that
\* takes requests reads the timeouts.
TransportsInv ==
  /\ live \in Settable
  /\ built \in [Transports -> [with : Settable, stale : BOOLEAN]]
  /\ making \in [Callers -> [at : {"idle", "missed", "read"}, with : Settable, stale : BOOLEAN]]
  /\ \A t \in Transports : ~built[t].stale => phase = "up" /\ built[t].with = live
  /\ \A c \in Callers : ~making[c].stale => phase = "up" /\ making[c].with = live

\* At most one update is on its way, or the two are skewed, and what it will put into
\* memory is what the table holds.
SettingsInv ==
  /\ applying \in [Admins -> Values \cup {Unsaved}]
  /\ phase # "up" => AllApplied
  /\ phase = "up" /\ ~skewed =>
       \/ AllApplied /\ live = Effective(saved)
       \/ \E a \in Admins : applying[a] = saved /\ saved # Unsaved /\ Quiet(a)
  /\ TransportsInv
  /\ saved \in Settable

\* What a refresh may hold: a version of the list, or nothing yet.
Answers == DOMAIN Lists \cup {0}

\* Manual is the only price with that source; before the store is filled it holds
\* nothing; a refresh merges a list that there is.
PricesInv ==
  /\ \A m \in Models : /\ prices[m].source = "manual" => prices[m] = Manual
                       /\ priceRows[m].source = "manual" => priceRows[m] = Manual
  /\ phase \in {"down", "schema", "prices"} => prices = NoPrices /\ etag = 0
  /\ version \in DOMAIN Lists
  /\ etag \in Answers
  /\ fetches \subseteq [id : Fetches, sent : Answers, got : Answers]
  /\ EtagTellsMemory

LEMMA PricesDiffer == /\ NoPrice.source # "manual" /\ Builtin.source # "manual"
                      /\ \A v : LiteLLM(v).source # "manual"
  BY DEF NoPrice, Builtin, LiteLLM

(******************************** settings *********************************)

LEMMA SettingsStay ==
  ASSUME SettingsInv, UNCHANGED settingsVars, phase' = "up" <=> phase = "up"
  PROVE  SettingsInv'
  BY DEF SettingsInv, TransportsInv, settingsVars, AllApplied, Quiet, Effective

\* A value that is put into memory leaves nothing that was read from it up to date.
LEMMA AllStale ==
  ASSUME TransportsInv, live' \in Settable,
         built' = [t \in Transports |-> [built[t] EXCEPT !.stale = TRUE]],
         making' = [c \in Callers |-> [making[c] EXCEPT !.stale = TRUE]]
  PROVE  TransportsInv'
  <1>1. ASSUME NEW t \in Transports
        PROVE  built'[t] \in [with : Settable, stale : BOOLEAN] /\ built'[t].stale
    BY <1>1 DEF TransportsInv
  <1>2. ASSUME NEW c \in Callers
        PROVE  /\ making'[c] \in [at : {"idle", "missed", "read"}, with : Settable, stale : BOOLEAN]
               /\ making'[c].stale
    BY <1>2 DEF TransportsInv
  <1>3. built' = [t \in Transports |-> built'[t]] /\ making' = [c \in Callers |-> making'[c]]
    OBVIOUS
  <1>4. built' \in [Transports -> [with : Settable, stale : BOOLEAN]]
    BY <1>1, <1>3
  <1>5. making' \in [Callers -> [at : {"idle", "missed", "read"}, with : Settable, stale : BOOLEAN]]
    BY <1>2, <1>3
  <1> QED
    BY <1>1, <1>2, <1>4, <1>5 DEF TransportsInv

\* The steps of the requests that make a transport.
LEMMA CallersMove ==
  ASSUME SettingsInv, phase = "up", phase' = "up",
         NEW c \in Callers, FindNone(c) \/ ReadTimeouts(c) \/ StoreTransport(c)
  PROVE  SettingsInv'
  <1> DEFINE M == [at : {"idle", "missed", "read"}, with : Settable, stale : BOOLEAN]
  <1>1. /\ UNCHANGED <<saved, live, applying, skewed>>
        /\ making[c] \in M /\ built["proxy"] \in [with : Settable, stale : BOOLEAN] /\ live \in Settable
        /\ ~making[c].stale => making[c].with = live
    BY DEF SettingsInv, TransportsInv, FindNone, ReadTimeouts, StoreTransport, Transports
  <1>2. PICK g : /\ making' = [making EXCEPT ![c] = g]
                 /\ g \in M /\ (~g.stale => g.with = live)
    <2>1. CASE FindNone(c)
      <3> DEFINE g == [making[c] EXCEPT !.at = "missed"]
      <3>1. making' = [making EXCEPT ![c] = g]
        BY <2>1 DEF FindNone
      <3>2. g \in M /\ g.stale = making[c].stale /\ g.with = making[c].with
        BY <1>1
      <3> HIDE DEF g
      <3> QED
        BY <1>1, <3>1, <3>2
    <2>2. CASE ReadTimeouts(c)
      <3>1. MakesNone \in M /\ MakesNone.stale
        BY DEF MakesNone, Settable
      <3>2. [at |-> "read", with |-> live, stale |-> FALSE] \in M
        BY <1>1
      <3> QED
        BY <2>2, <3>1, <3>2 DEF ReadTimeouts
    <2>3. CASE StoreTransport(c)
      <3>1. MakesNone \in M /\ MakesNone.stale
        BY DEF MakesNone, Settable
      <3> QED
        BY <2>3, <3>1 DEF StoreTransport
    <2> QED
      BY <2>1, <2>2, <2>3
  <1>3. PICK h : /\ built' = built \/ built' = [built EXCEPT !["proxy"] = h]
                 /\ h \in [with : Settable, stale : BOOLEAN] /\ (~h.stale => h.with = live)
    <2>1. CASE StoreTransport(c)
      <3> DEFINE h == [with |-> making[c].with, stale |-> making[c].stale]
      <3>1. built' = [built EXCEPT !["proxy"] = h]
        BY <2>1 DEF StoreTransport
      <3>2. h \in [with : Settable, stale : BOOLEAN] /\ (~h.stale => h.with = live)
        BY <1>1
      <3> HIDE DEF h
      <3> QED
        BY <3>1, <3>2
    <2>2. CASE UNCHANGED built
      <3>1. ~built["proxy"].stale => built["proxy"].with = live
        BY DEF SettingsInv, TransportsInv, Transports
      <3> QED
        BY <1>1, <2>2, <3>1
    <2> QED
      BY <2>1, <2>2 DEF FindNone, ReadTimeouts
  <1> HIDE DEF M
  <1>4. making' \in [Callers -> M] /\ built' \in [Transports -> [with : Settable, stale : BOOLEAN]]
    BY <1>2, <1>3 DEF SettingsInv, TransportsInv, M
  <1>5. \A d \in Callers : ~making'[d].stale => making'[d].with = live
    BY <1>2 DEF SettingsInv, TransportsInv
  <1>6. \A t \in Transports : ~built'[t].stale => built'[t].with = live
    BY <1>3 DEF SettingsInv, TransportsInv
  <1>7. TransportsInv'
    BY <1>1, <1>4, <1>5, <1>6 DEF TransportsInv, M
  <1> QED
    BY <1>1, <1>7 DEF SettingsInv, AllApplied, Quiet, Effective

LEMMA SettingsMove ==
  ASSUME SettingsInv, LoadAll \/ (Down /\ phase # "down") \/ RunSettings \/ Exchange
  PROVE  SettingsInv'
  <1>1. CASE LoadAll
    <2>1. phase = "settings" /\ applying' = applying /\ saved' = saved /\ AllApplied
      BY <1>1 DEF LoadAll, LoadSettings, SettingsInv
    <2>2. ~skewed' => live' = Effective(saved)'
      BY <1>1 DEF LoadAll, LoadSettings, Loaded, Effective
    <2>3. live' \in Settable
      BY <1>1 DEF LoadAll, LoadSettings, Loaded, Effective, SettingsInv, Settable
    <2>4. \A t \in Transports : built[t].stale
      BY <2>1 DEF SettingsInv, TransportsInv
    <2>5. \A c \in Callers : making[c].stale
      BY <2>1 DEF SettingsInv, TransportsInv
    <2>6. built' = [built EXCEPT !["shared"] = [with |-> live, stale |-> TRUE]] /\ making' = making
      BY <1>1 DEF LoadAll, LoadSettings
    <2>7. [with |-> live, stale |-> TRUE] \in [with : Settable, stale : BOOLEAN]
      BY DEF SettingsInv, TransportsInv
    <2>8. TransportsInv'
      BY <2>3, <2>4, <2>5, <2>6, <2>7 DEF SettingsInv, TransportsInv
    <2> QED
      BY <2>1, <2>2, <2>8, <1>1 DEF LoadAll, SettingsInv, AllApplied
  <1>2. CASE Down
    <2>1. NotMade \in [with : Settable, stale : BOOLEAN] /\ NotMade.stale
      BY DEF NotMade, Settable
    <2>2. MakesNone \in [at : {"idle", "missed", "read"}, with : Settable, stale : BOOLEAN] /\ MakesNone.stale
      BY DEF MakesNone, Settable
    <2>3. TransportsInv'
      BY <1>2, <2>1, <2>2 DEF Down, LoseSettings, TransportsInv, Settable
    <2> QED
      BY <1>2, <2>3 DEF Down, LoseSettings, SettingsInv, AllApplied
  <1>3. CASE Exchange
    BY <1>3 DEF Exchange, ExchangeSettings, SettingsInv, TransportsInv, AllApplied, processVars, Settable
  <1>4. ASSUME phase = "up", phase' = "up", NEW a \in Admins, NEW v \in Values, SaveSetting(a, v)
        PROVE  SettingsInv'
    <2>1. /\ applying' = [applying EXCEPT ![a] = v] /\ saved' = v
          /\ applying \in [Admins -> Values \cup {Unsaved}] /\ v # Unsaved
      BY <1>4, SettingsAssumption DEF SaveSetting, SettingsInv
    <2>2. ~skewed' => applying'[a] = saved' /\ saved' # Unsaved /\ Quiet(a)'
      BY <1>4, <2>1 DEF SaveSetting, Quiet
    <2>3. TransportsInv'
      BY <1>4 DEF SaveSetting, SettingsInv, TransportsInv
    <2> QED
      BY <1>4, <2>1, <2>2, <2>3 DEF SettingsInv, Settable
  <1>5. ASSUME phase = "up", phase' = "up", NEW a \in Admins, ApplySetting(a) PROVE SettingsInv'
    <2>1. /\ applying' = [applying EXCEPT ![a] = Unsaved] /\ live' = applying[a] /\ applying[a] # Unsaved
          /\ applying \in [Admins -> Values \cup {Unsaved}] /\ saved' = saved /\ skewed' = skewed
      BY <1>5 DEF ApplySetting, SettingsInv
    <2>2. ASSUME ~skewed PROVE AllApplied' /\ live' = Effective(saved)'
      <3>1. PICK b \in Admins : applying[b] = saved /\ saved # Unsaved /\ Quiet(b)
        BY <1>5, <2>1, <2>2 DEF SettingsInv, AllApplied
      <3>2. a = b
        BY <2>1, <3>1 DEF Quiet
      <3> QED
        BY <2>1, <3>1, <3>2 DEF Quiet, AllApplied, Effective
    <2>3. live' \in Settable
      BY <2>1 DEF Settable
    <2>4. TransportsInv'
      BY <1>5, <2>3, AllStale DEF ApplySetting, SettingsInv
    <2> QED
      BY <1>5, <2>1, <2>2, <2>4 DEF SettingsInv
  <1>6. CASE RunSettings
    BY <1>4, <1>5, <1>6, CallersMove DEF RunSettings, processVars
  <1> QED
    BY <1>1, <1>2, <1>3, <1>6

(********************************* prices **********************************)

LEMMA PricesStay ==
  ASSUME PricesInv, UNCHANGED pricesVars,
         phase' \in {"down", "schema", "prices"} => phase \in {"down", "schema", "prices"}
  PROVE  PricesInv'
  BY DEF PricesInv, pricesVars, EtagTellsMemory

\* A step of the store keeps what its variables must be.
LEMMA PricesMove ==
  ASSUME PricesInv, FillPrices \/ RunPrices \/ (Down /\ phase # "down")
  PROVE  PricesInv'
  <1>1. CASE FillPrices
    <2> PICK lost \in SUBSET Models, seeded \in SUBSET Seeds :
          LET read == [m \in Models |-> IF m \in lost THEN NoPrice ELSE priceRows[m]] IN
          IF read = NoPrices
          THEN prices' = Seeded(read, Seeds) /\ priceRows' = Seeded(priceRows, seeded)
          ELSE prices' = read /\ UNCHANGED priceRows
      BY <1>1 DEF FillPrices, LoadPrices
    <2> DEFINE read == [m \in Models |-> IF m \in lost THEN NoPrice ELSE priceRows[m]]
    <2>1. \A m \in Models : read[m].source = "manual" => read[m] = Manual
      BY PricesDiffer DEF PricesInv
    <2>2. \/ prices' = Seeded(read, Seeds) /\ priceRows' = Seeded(priceRows, seeded)
          \/ prices' = read /\ UNCHANGED priceRows
      OBVIOUS
    <2> HIDE DEF read
    <2>3. \A m \in Models : /\ prices'[m].source = "manual" => prices'[m] = Manual
                            /\ priceRows'[m].source = "manual" => priceRows'[m] = Manual
      BY <2>1, <2>2, PricesDiffer DEF PricesInv, Seeded
    <2>4. UNCHANGED <<etag, version, fetches>> /\ phase = "prices" /\ phase' = "settings" /\ etag = 0
      BY <1>1 DEF FillPrices, LoadPrices, PricesInv
    <2> QED
      BY <2>3, <2>4 DEF PricesInv, EtagTellsMemory
  <1>2. CASE Down
    BY <1>2, PricesDiffer DEF Down, LosePrices, PricesInv, NoPrices, Answers, EtagTellsMemory
  <1>3. CASE RunPrices
    <2> USE <1>3
    <2>1. phase \in {"settings", "up"} /\ phase' = phase /\ PriceStep
      BY DEF RunPrices, processVars
    <2>2. CASE Refresh
      BY <2>1, <2>2 DEF Refresh, FetchBegins, PricesInv, Answers, EtagTellsMemory
    <2>3. ASSUME NEW k \in fetches, FetchAnswered(k) \/ FetchFails(k)
          PROVE  PricesInv'
      <3> DEFINE g == [k EXCEPT !.got = version]
      <3>1. UNCHANGED <<priceRows, prices, etag, version>> /\ fetches' \subseteq fetches \cup {g}
        BY <2>3 DEF FetchAnswered, FetchFails
      <3>2. g \in [id : Fetches, sent : Answers, got : Answers]
        BY DEF PricesInv, Answers
      <3> HIDE DEF g
      <3> QED
        BY <2>1, <3>1, <3>2 DEF PricesInv, EtagTellsMemory
    <2>4. ASSUME NEW k \in fetches, Merge(k)
          PROVE  PricesInv'
      <3>1. /\ prices' = [m \in Models |-> IF m \in Lists[k.got] /\ ~Kept(prices[m])
                                           THEN LiteLLM(k.got) ELSE prices[m]]
            /\ etag' = k.got /\ fetches' \subseteq fetches /\ UNCHANGED <<priceRows, version>>
            /\ k.got # 0
        BY <2>4 DEF Merge
      <3>2. \A m \in Models : Kept(prices[m]) <=> prices[m] = Manual
        BY DEF Kept, PricesInv, Manual
      <3>3. Lists[k.got] \subseteq Models
        BY <3>1, PricesAssumption DEF PricesInv, Answers
      <3>4. \A m \in Models : prices'[m].source = "manual" => prices'[m] = Manual
        BY <3>1, PricesDiffer DEF PricesInv
      <3>5. EtagTellsMemory'
        BY <3>1, <3>2, <3>3 DEF EtagTellsMemory
      <3> QED
        BY <2>1, <3>1, <3>4, <3>5 DEF PricesInv
    <2>5. ASSUME NEW v \in batches, SaveBatch(v) PROVE PricesInv'
      <3> PICK rows \in SUBSET Lists[v] :
            priceRows' = [m \in Models |-> IF m \in rows THEN LiteLLM(v) ELSE priceRows[m]]
        BY <2>5 DEF SaveBatch
      <3>1. \A m \in Models : priceRows'[m].source = "manual" => priceRows'[m] = Manual
        BY PricesDiffer DEF PricesInv
      <3> QED
        BY <2>1, <2>5, <3>1 DEF SaveBatch, PricesInv, EtagTellsMemory
    <2>6. CASE ListChanges
      BY <2>1, <2>6 DEF ListChanges, PricesInv, EtagTellsMemory
    <2> QED
      BY <2>1, <2>2, <2>3, <2>4, <2>5, <2>6 DEF PriceStep, Answer, MergeOne
  <1> QED
    BY <1>1, <1>2, <1>3

(********************************** schema *********************************)

\* The statements there are, and what an opening may have to do.
AllStatements ==
  {AddColumn(c) : c \in {"api_key", "rate_multiplier"}} \cup {DropColumn("group_id")}
  \cup {CreateIndex(i) : i \in {"request_logs_status", "user_groups_user", "user_groups_group"}}
  \cup {DropIndex(i) : i \in {"request_logs_status", "user_groups_user"}}
  \cup {Widen(c) : c \in Micros} \cup {CopyTokens, Default, Rename}
Instructions == AllStatements \cup {Check, Mark}

\* The fields of a statement; the proofs do not look at how they are stored.
Kind(s) == s.do
Target(s) == s.on

Numbers == 1..Len(Migrations)
IsMarked(i) == Migrations[i] \in marks
StatementsOf(i) ==
  { Statements(Migrations[i], dbType)[k] : k \in 1..Len(Statements(Migrations[i], dbType)) }

\* What a statement is for.  An index that is created may be dropped by a later migration.
Holds(s) ==
  /\ Kind(s) = "add column" => Target(s) \in db.columns
  /\ Kind(s) = "drop column" => Target(s) \notin db.columns \/ db.pinned
  /\ Kind(s) = "drop index if exists" => Target(s) \notin db.indexes
  /\ Kind(s) = "alter column type bigint" => Target(s) \in db.bigint
  /\ Kind(s) = "insert keys where not exists" /\ db.tokenTable => Tokens \subseteq db.keys \cup deleted
  /\ Kind(s) = "insert on conflict do nothing" => db.config \cap {"retention_days", "archive_days"} # {}
  /\ Kind(s) = "update where not exists" => "archive_days" \in db.config

Columns == {"group_id", "api_key", "rate_multiplier"}
Indexes == {"request_logs_status", "user_groups_user", "user_groups_group"}
ConfigKeys == {"retention_days", "archive_days", "timestamps_utc"}
Databases ==
  [tables : BOOLEAN, tokenTable : BOOLEAN, pinned : BOOLEAN, columns : SUBSET Columns,
   bigint : SUBSET Micros, indexes : SUBSET Indexes,
   config : SUBSET ConfigKeys,
   keys : SUBSET Tokens, offset : SUBSET Stamps]

SchemaTypes ==
  /\ dbType \in {"sqlite", "postgres"}
  /\ db \in Databases
  /\ marks \subseteq {Migrations[i] : i \in Numbers}
  /\ boot \in [at : 0..Stampings, todo : Seq(Instructions)]

\* The migrations are marked one after another, all of them before the first key can be
\* deleted, and none before there are tables.
InOrder ==
  /\ \A i, j \in Numbers : j < i /\ IsMarked(i) => IsMarked(j)
  /\ \A i \in Numbers : i < boot.at => IsMarked(i)
  /\ deleted # {} => \A i \in Numbers : IsMarked(i)
  /\ ~db.tables => marks = {} /\ boot.at = 0

\* What a marked migration was for, no later statement has undone.
Lasting == \A i \in Numbers : IsMarked(i) => \A s \in StatementsOf(i) : Holds(s)

\* Only the last thing to do is to mark, and only the first can be to look for the mark.
Orderly(todo) ==
  /\ todo \in Seq(Instructions) /\ todo # <<>>
  /\ \A k \in 1..Len(todo) : /\ todo[k] = Mark <=> k = Len(todo)
                             /\ todo[k] = Check => k = 1
Waiting(todo) == {todo[k] : k \in 1..Len(todo)} \ {Check, Mark}

\* Each statement of the migration in hand is still to run, or what it is for holds.
UnderWay ==
  AtMigration =>
    /\ Orderly(boot.todo)
    /\ Waiting(boot.todo) \subseteq StatementsOf(boot.at)
    /\ \A s \in StatementsOf(boot.at) : s \in Waiting(boot.todo) \/ Holds(s)
    /\ Head(boot.todo) # Check => ~IsMarked(boot.at)

SchemaInv ==
  /\ SchemaTypes /\ InOrder /\ Lasting /\ UnderWay
  /\ "timestamps_utc" \in db.config => db.offset = {}
  /\ DeletedStaysDeleted
ServingInv == phase \notin {"down", "schema"} => Opened

LEMMA Numbering ==
  /\ Len(Migrations) = 10 /\ Numbers = 1..10 /\ Stampings = 11
  /\ Migrations[1] = "add_api_key_column" /\ Migrations[2] = "migrate_proxy_tokens"
  /\ Migrations[3] = "add_request_logs_status_index"
  /\ Migrations[4] = "create_user_groups_indexes" /\ Migrations[5] = "add_group_rate_multiplier"
  /\ Migrations[6] = "add_request_detail_retention_default"
  /\ Migrations[7] = "rename_retention_to_archive_days"
  /\ Migrations[8] = "postgres_widen_request_logs_micros_columns"
  /\ Migrations[9] = "drop_legacy_users_group_id" /\ Migrations[10] = "drop_redundant_indexes"
  BY DEF Migrations, Numbers, Stampings

LEMMA NamesDiffer ==
  ASSUME NEW i \in Numbers, NEW j \in Numbers, Migrations[i] = Migrations[j]
  PROVE  i = j
  BY Numbering

\* The statements of each migration, as a set: there is at most one unless none can fail.
LEMMA StatementLists ==
  ASSUME dbType \in {"sqlite", "postgres"}
  PROVE  /\ StatementsOf(1) = {AddColumn("api_key")}
         /\ StatementsOf(2) = {CopyTokens}
         /\ StatementsOf(3) = {CreateIndex("request_logs_status")}
         /\ StatementsOf(4) = {CreateIndex("user_groups_user"), CreateIndex("user_groups_group")}
         /\ StatementsOf(5) = {AddColumn("rate_multiplier")}
         /\ StatementsOf(6) = {Default}
         /\ StatementsOf(7) = {Rename}
         /\ StatementsOf(8) = IF dbType = "postgres" THEN {Widen(c) : c \in Micros} ELSE {}
         /\ StatementsOf(9) = {DropColumn("group_id")}
         /\ StatementsOf(10) = {DropIndex("user_groups_user"), DropIndex("request_logs_status")}
         /\ \A i \in Numbers : Statements(Migrations[i], dbType) \in Seq(AllStatements)
  <1> DEFINE S(i) == Statements(Migrations[i], dbType)
  <1>1. /\ S(1) = <<AddColumn("api_key")>>
        /\ S(2) = <<CopyTokens>>
        /\ S(3) = <<CreateIndex("request_logs_status")>>
        /\ S(4) = <<CreateIndex("user_groups_user"), CreateIndex("user_groups_group")>>
        /\ S(5) = <<AddColumn("rate_multiplier")>>
    BY Numbering DEF Statements
  <1>2. /\ S(6) = <<Default>>
        /\ S(7) = <<Rename>>
        /\ S(8) = IF dbType = "postgres" THEN <<Widen("cost_micros"), Widen("charged_balance_micros")>>
                                         ELSE <<>>
        /\ S(9) = <<DropColumn("group_id")>>
        /\ S(10) = <<DropIndex("user_groups_user"), DropIndex("request_logs_status")>>
    BY Numbering DEF Statements
  <1>3. \A i : StatementsOf(i) = {S(i)[k] : k \in 1..Len(S(i))}
    BY DEF StatementsOf
  <1> HIDE DEF S
  <1>4. ASSUME NEW i, NEW a, S(i) = <<a>>
        PROVE  StatementsOf(i) = {a} /\ (a \in AllStatements => S(i) \in Seq(AllStatements))
    BY <1>3, <1>4
  <1>5. ASSUME NEW i, NEW a, NEW b, S(i) = <<a, b>>
        PROVE  /\ StatementsOf(i) = {a, b}
               /\ {a, b} \subseteq AllStatements => S(i) \in Seq(AllStatements)
    <2>1. Len(S(i)) = 2 /\ S(i)[1] = a /\ S(i)[2] = b
      BY <1>5
    <2>2. 1..2 = {1, 2}
      OBVIOUS
    <2> QED
      BY <1>3, <1>5, <2>1, <2>2
  <1>6. ASSUME S(8) = <<>> PROVE StatementsOf(8) = {} /\ S(8) \in Seq(AllStatements)
    <2>1. Len(S(8)) = 0
      BY <1>6
    <2>2. StatementsOf(8) = {S(8)[k] : k \in 1..0}
      BY <1>3, <2>1
    <2>3. 1..0 = {}
      OBVIOUS
    <2>4. StatementsOf(8) = {}
      BY <2>2, <2>3
    <2>5. <<>> \in Seq(AllStatements)
      OBVIOUS
    <2> QED
      BY <1>6, <2>4, <2>5
  <1>7. {AddColumn("api_key"), AddColumn("rate_multiplier"), CopyTokens, Default, Rename,
         DropColumn("group_id"), CreateIndex("request_logs_status"), CreateIndex("user_groups_user"),
         CreateIndex("user_groups_group"), DropIndex("user_groups_user"),
         DropIndex("request_logs_status"), Widen("cost_micros"), Widen("charged_balance_micros")}
          \subseteq AllStatements
    BY DEF AllStatements, Micros
  <1>8. /\ StatementsOf(8) = IF dbType = "postgres" THEN {Widen(c) : c \in Micros} ELSE {}
        /\ S(8) \in Seq(AllStatements)
    BY <1>2, <1>5, <1>6, <1>7 DEF Micros
  <1>9. /\ StatementsOf(1) = {AddColumn("api_key")} /\ S(1) \in Seq(AllStatements)
        /\ StatementsOf(2) = {CopyTokens} /\ S(2) \in Seq(AllStatements)
        /\ StatementsOf(3) = {CreateIndex("request_logs_status")} /\ S(3) \in Seq(AllStatements)
        /\ StatementsOf(5) = {AddColumn("rate_multiplier")} /\ S(5) \in Seq(AllStatements)
        /\ StatementsOf(6) = {Default} /\ S(6) \in Seq(AllStatements)
        /\ StatementsOf(7) = {Rename} /\ S(7) \in Seq(AllStatements)
        /\ StatementsOf(9) = {DropColumn("group_id")} /\ S(9) \in Seq(AllStatements)
    BY <1>1, <1>2, <1>4, <1>7
  <1>10. /\ StatementsOf(4) = {CreateIndex("user_groups_user"), CreateIndex("user_groups_group")}
         /\ S(4) \in Seq(AllStatements)
         /\ StatementsOf(10) = {DropIndex("user_groups_user"), DropIndex("request_logs_status")}
         /\ S(10) \in Seq(AllStatements)
    BY <1>1, <1>2, <1>5, <1>7
  <1>11. \A i \in Numbers : S(i) \in Seq(AllStatements)
    <2>1. \A i \in Numbers : i \in {1, 2, 3, 4, 5, 6, 7, 8, 9, 10}
      BY Numbering
    <2> QED
      BY <2>1, <1>8, <1>9, <1>10
  <1> QED
    BY <1>8, <1>9, <1>10, <1>11 DEF S

\* Check and Mark are no statements of a migration.
LEMMA ChecksApart == Check \notin AllStatements /\ Mark \notin AllStatements /\ Check # Mark
  BY DEF Check, Mark, AllStatements, AddColumn, DropColumn, CreateIndex, DropIndex, Widen,
         CopyTokens, Default, Rename

\* What tells the statements apart.
LEMMA Fields ==
  /\ \A c : /\ Kind(AddColumn(c)) = "add column" /\ Target(AddColumn(c)) = c
            /\ Kind(DropColumn(c)) = "drop column" /\ Target(DropColumn(c)) = c
            /\ Kind(CreateIndex(c)) = "create index if not exists" /\ Target(CreateIndex(c)) = c
            /\ Kind(DropIndex(c)) = "drop index if exists" /\ Target(DropIndex(c)) = c
            /\ Kind(Widen(c)) = "alter column type bigint" /\ Target(Widen(c)) = c
  /\ Kind(CopyTokens) = "insert keys where not exists"
  /\ Kind(Default) = "insert on conflict do nothing"
  /\ Kind(Rename) = "update where not exists"
  BY DEF Kind, Target, AddColumn, DropColumn, CreateIndex, DropIndex, Widen, CopyTokens,
         Default, Rename

LEMMA Ten ==
  ASSUME NEW i \in Numbers
  PROVE  i \in {1, 2, 3, 4, 5, 6, 7, 8, 9, 10}
  BY Numbering

\* The migration i that may have the statement s.
Origin(i, s) ==
  \/ i \in {1, 5} /\ Kind(s) = "add column" /\ Target(s) \in {"api_key", "rate_multiplier"}
  \/ i = 2 /\ Kind(s) = "insert keys where not exists"
  \/ i \in {3, 4} /\ Kind(s) = "create index if not exists"
  \/ i = 6 /\ Kind(s) = "insert on conflict do nothing"
  \/ i = 7 /\ Kind(s) = "update where not exists"
  \/ i = 8 /\ Kind(s) = "alter column type bigint" /\ Target(s) \in Micros
  \/ i = 9 /\ Kind(s) = "drop column"
  \/ i = 10 /\ Kind(s) = "drop index if exists"

LEMMA Origins ==
  ASSUME dbType \in {"sqlite", "postgres"}, NEW i \in Numbers, NEW s \in StatementsOf(i)
  PROVE  Origin(i, s) /\ s \in AllStatements
  <1>1. CASE i \in {1, 5}
    <2>1. s = AddColumn("api_key") \/ s = AddColumn("rate_multiplier")
      BY <1>1, StatementLists
    <2> QED
      BY <1>1, <2>1, Fields DEF Origin, AllStatements
  <1>2. CASE i \in {3, 4}
    <2>1. \E x \in Indexes : s = CreateIndex(x)
      BY <1>2, StatementLists DEF Indexes
    <2> QED
      BY <1>2, <2>1, Fields DEF Origin, AllStatements, Indexes
  <1>3. CASE i = 8
    <2>1. \E c \in Micros : s = Widen(c)
      BY <1>3, StatementLists
    <2> QED
      BY <1>3, <2>1, Fields DEF Origin, AllStatements
  <1>4. CASE i = 10
    <2>1. \E x \in {"request_logs_status", "user_groups_user"} : s = DropIndex(x)
      BY <1>4, StatementLists
    <2> QED
      BY <1>4, <2>1, Fields DEF Origin, AllStatements
  <1>5. CASE i \in {2, 6, 7, 9}
    <2>1. \/ i = 2 /\ s = CopyTokens
          \/ i = 6 /\ s = Default
          \/ i = 7 /\ s = Rename
          \/ i = 9 /\ s = DropColumn("group_id")
      BY <1>5, StatementLists
    <2> QED
      BY <2>1, Fields DEF Origin, AllStatements
  <1> QED
    BY <1>1, <1>2, <1>3, <1>4, <1>5, Ten

LEMMA Contents ==
  ASSUME dbType \in {"sqlite", "postgres"}, NEW i \in Numbers, NEW s \in StatementsOf(i)
  PROVE  /\ i = 2 => Kind(s) = "insert keys where not exists"
         /\ i \in {3, 4} => Kind(s) = "create index if not exists"
         /\ i = 6 => Kind(s) = "insert on conflict do nothing"
         /\ i = 7 => Kind(s) = "update where not exists"
         /\ i = 8 => Kind(s) = "alter column type bigint" /\ Target(s) \in Micros
  <1>1. i = 2 => s = CopyTokens
    BY StatementLists
  <1>2. i \in {3, 4} => \E x : s = CreateIndex(x)
    BY StatementLists
  <1>3. i = 6 => s = Default
    BY StatementLists
  <1>4. i = 7 => s = Rename
    BY StatementLists
  <1>5. i = 8 => \E c \in Micros : s = Widen(c)
    BY StatementLists
  <1> QED
    BY <1>1, <1>2, <1>3, <1>4, <1>5, Fields

\* Its kind tells a statement, and one that can fail is alone in its migration.
LEMMA Ranks ==
  ASSUME dbType \in {"sqlite", "postgres"}, NEW i \in Numbers, NEW s \in StatementsOf(i)
  PROVE  /\ Kind(s) = "create index if not exists" => i \in {3, 4}
         /\ Kind(s) = "drop index if exists" => i = 10
         /\ Kind(s) = "update where not exists" => i = 7
         /\ Kind(s) \in {"insert keys where not exists", "add column", "drop column"} =>
              StatementsOf(i) = {s}
  <1>1. Origin(i, s)
    BY Origins
  <1>2. /\ Kind(s) = "create index if not exists" => i \in {3, 4}
        /\ Kind(s) = "drop index if exists" => i = 10
        /\ Kind(s) = "update where not exists" => i = 7
        /\ Kind(s) \in {"insert keys where not exists", "add column", "drop column"} => i \in {1, 2, 5, 9}
    BY <1>1 DEF Origin
  <1>3. ASSUME i \in {1, 2, 5, 9} PROVE StatementsOf(i) = {s}
    <2>1. \/ StatementsOf(i) = {AddColumn("api_key")} \/ StatementsOf(i) = {CopyTokens}
          \/ StatementsOf(i) = {AddColumn("rate_multiplier")} \/ StatementsOf(i) = {DropColumn("group_id")}
      BY <1>3, StatementLists
    <2> QED
      BY <2>1
  <1> QED
    BY <1>2, <1>3

\* What each kind of statement meets and does (Error and Effect).
LEMMA Outcomes ==
  ASSUME NEW s \in AllStatements
  PROVE  /\ Error(s, db) # "none" =>
              \/ Kind(s) = "add column" /\ Target(s) \in db.columns
              \/ Kind(s) = "drop column" /\ (Target(s) \notin db.columns \/ db.pinned)
              \/ Kind(s) = "insert keys where not exists" /\ ~db.tokenTable
         /\ Kind(s) = "add column" => Effect(s, db) = [db EXCEPT !.columns = @ \cup {Target(s)}]
         /\ Kind(s) = "drop column" => Effect(s, db) = [db EXCEPT !.columns = @ \ {Target(s)}]
         /\ Kind(s) = "create index if not exists" => Effect(s, db) = [db EXCEPT !.indexes = @ \cup {Target(s)}]
         /\ Kind(s) = "drop index if exists" => Effect(s, db) = [db EXCEPT !.indexes = @ \ {Target(s)}]
         /\ Kind(s) = "alter column type bigint" => Effect(s, db) = [db EXCEPT !.bigint = @ \cup {Target(s)}]
         /\ Kind(s) = "insert keys where not exists" => Effect(s, db) = [db EXCEPT !.keys = @ \cup Tokens]
         /\ Kind(s) = "insert on conflict do nothing" =>
              Effect(s, db) = [db EXCEPT !.config = @ \cup {"retention_days"}]
         /\ Kind(s) = "update where not exists" =>
              Effect(s, db) = IF "retention_days" \in db.config /\ "archive_days" \notin db.config
                              THEN [db EXCEPT !.config = (@ \ {"retention_days"}) \cup {"archive_days"}]
                              ELSE db
  <1> USE DEF Kind, Target, Error, Effect, AddColumn, DropColumn, CreateIndex, DropIndex, Widen,
              CopyTokens, Default, Rename
  <1>1. CASE \E c \in {"api_key", "rate_multiplier"} : s = AddColumn(c)
    <2> PICK c \in {"api_key", "rate_multiplier"} : s = AddColumn(c)
      BY <1>1
    <2> QED
      OBVIOUS
  <1>2. CASE \E c \in Micros : s = Widen(c)
    <2> PICK c \in Micros : s = Widen(c)
      BY <1>2
    <2> QED
      OBVIOUS
  <1>3. CASE \E x \in Indexes : s = CreateIndex(x)
    <2> PICK x \in Indexes : s = CreateIndex(x)
      BY <1>3
    <2> QED
      OBVIOUS
  <1>4. CASE \E x \in {"request_logs_status", "user_groups_user"} : s = DropIndex(x)
    <2> PICK x \in {"request_logs_status", "user_groups_user"} : s = DropIndex(x)
      BY <1>4
    <2> QED
      OBVIOUS
  <1>5. CASE s = CopyTokens
    BY <1>5
  <1>6. CASE s = Default
    BY <1>6
  <1>7. CASE s = Rename
    BY <1>7
  <1>8. CASE s = DropColumn("group_id")
    BY <1>8
  <1> QED
    BY <1>1, <1>2, <1>3, <1>4, <1>5, <1>6, <1>7, <1>8 DEF AllStatements, Indexes

\* What isMigrationApplied has before it: the statements between the look and the mark.
LEMMA Listed ==
  ASSUME NEW S \in Seq(AllStatements), NEW t, t = <<Check>> \o S \o <<Mark>>
  PROVE  Orderly(t) /\ Waiting(t) = {S[k] : k \in 1..Len(S)} /\ Head(t) = Check
  <1>1. t \in Seq(Instructions) /\ Len(t) = Len(S) + 2
    BY DEF Instructions
  <1>2. /\ t[1] = Check /\ t[Len(S) + 2] = Mark
        /\ \A k \in 1..Len(S) : t[k + 1] = S[k]
    OBVIOUS
  <1>3. \A k \in 1..Len(S) : S[k] \in AllStatements
    OBVIOUS
  <1>4. \A k \in 1..Len(t) : k = 1 \/ k = Len(t) \/ (k - 1 \in 1..Len(S) /\ t[k] = S[k - 1])
    <2> SUFFICES ASSUME NEW k \in 1..Len(t), k # 1, k # Len(t)
                 PROVE  k - 1 \in 1..Len(S) /\ t[k] = S[k - 1]
      OBVIOUS
    <2>1. k - 1 \in 1..Len(S) /\ (k - 1) + 1 = k
      BY <1>1
    <2> QED
      BY <1>2, <2>1
  <1>5. Orderly(t)
    <2>1. t # <<>>
      BY <1>1
    <2>2. ASSUME NEW k \in 1..Len(t) PROVE (t[k] = Mark <=> k = Len(t)) /\ (t[k] = Check => k = 1)
      <3>1. CASE k = 1
        BY <3>1, <1>1, <1>2, ChecksApart
      <3>2. CASE k = Len(t)
        BY <3>2, <1>1, <1>2, ChecksApart
      <3>3. CASE k # 1 /\ k # Len(t)
        BY <3>3, <1>3, <1>4, ChecksApart
      <3> QED
        BY <3>1, <3>2, <3>3
    <2> QED
      BY <1>1, <2>1, <2>2 DEF Orderly
  <1>6. Waiting(t) = {S[k] : k \in 1..Len(S)}
    <2>1. ASSUME NEW s \in Waiting(t) PROVE s \in {S[k] : k \in 1..Len(S)}
      <3>1. PICK k \in 1..Len(t) : s = t[k]
        BY DEF Waiting
      <3>2. k # 1 /\ k # Len(t)
        BY <1>1, <1>2, <3>1 DEF Waiting
      <3> QED
        BY <1>4, <3>1, <3>2
    <2>2. ASSUME NEW k \in 1..Len(S) PROVE S[k] \in Waiting(t)
      <3>1. k + 1 \in 1..Len(t) /\ t[k + 1] = S[k]
        BY <1>1, <1>2
      <3>2. S[k] # Check /\ S[k] # Mark
        BY <1>3, ChecksApart
      <3> QED
        BY <3>1, <3>2 DEF Waiting
    <2> QED
      BY <2>1, <2>2
  <1>7. Head(t) = t[1]
    BY <1>1
  <1> QED
    BY <1>2, <1>5, <1>6, <1>7

LEMMA Begun ==
  ASSUME dbType \in {"sqlite", "postgres"}, NEW i \in Numbers
  PROVE  /\ Enter(i).at = i /\ Enter(i) \in [at : 0..Stampings, todo : Seq(Instructions)]
         /\ Orderly(Enter(i).todo) /\ Waiting(Enter(i).todo) = StatementsOf(i)
         /\ Head(Enter(i).todo) = Check
  <1>1. Enter(i) = [at |-> i, todo |-> <<Check>> \o Statements(Migrations[i], dbType) \o <<Mark>>]
    BY DEF Enter, Numbers
  <1>2. Statements(Migrations[i], dbType) \in Seq(AllStatements)
    BY StatementLists
  <1> DEFINE t == <<Check>> \o Statements(Migrations[i], dbType) \o <<Mark>>
  <1>3. Orderly(t) /\ Waiting(t) = StatementsOf(i) /\ Head(t) = Check
    BY <1>2, Listed DEF StatementsOf
  <1>4. i \in 0..Stampings /\ t \in Seq(Instructions)
    BY <1>3, Numbering DEF Orderly
  <1> HIDE DEF t
  <1>5. Enter(i) = [at |-> i, todo |-> t]
    BY <1>1 DEF t
  <1> QED
    BY <1>3, <1>4, <1>5

LEMMA Popped ==
  ASSUME NEW t, Orderly(t), Head(t) # Mark
  PROVE  /\ Orderly(Tail(t)) /\ Head(Tail(t)) # Check
         /\ Waiting(t) = Waiting(Tail(t)) \cup ({Head(t)} \ {Check})
  <1>1. t \in Seq(Instructions) /\ t # <<>> /\ Len(t) \in Nat /\ Len(t) >= 1 /\ Head(t) = t[1]
    BY DEF Orderly
  <1>2. Len(t) > 1
    BY <1>1 DEF Orderly
  <1> DEFINE r == Tail(t)
  <1>3. /\ r \in Seq(Instructions) /\ Len(r) = Len(t) - 1
        /\ \A k \in 1..Len(r) : r[k] = t[k + 1]
    BY <1>1, <1>2
  <1> HIDE DEF r
  <1>4. \A k \in 1..Len(r) : k + 1 \in 1..Len(t) /\ (k + 1 = Len(t) <=> k = Len(r)) /\ k + 1 # 1
    BY <1>1, <1>2, <1>3
  <1>5. \A k \in 1..Len(r) : (r[k] = Mark <=> k = Len(r)) /\ r[k] # Check
    BY <1>3, <1>4 DEF Orderly
  <1>6. r # <<>> /\ Head(r) = r[1] /\ 1 \in 1..Len(r)
    BY <1>1, <1>2, <1>3
  <1>7. Orderly(r) /\ Head(r) # Check
    BY <1>3, <1>5, <1>6 DEF Orderly
  <1>8. \A k \in 1..Len(t) : k = 1 \/ (k - 1 \in 1..Len(r) /\ t[k] = r[k - 1])
    <2> SUFFICES ASSUME NEW k \in 1..Len(t), k # 1 PROVE k - 1 \in 1..Len(r) /\ t[k] = r[k - 1]
      OBVIOUS
    <2>1. k - 1 \in 1..Len(r) /\ (k - 1) + 1 = k
      BY <1>1, <1>3
    <2> QED
      BY <1>3, <2>1
  <1>9. Waiting(t) = Waiting(r) \cup ({Head(t)} \ {Check})
    <2>1. Waiting(t) \subseteq Waiting(r) \cup ({Head(t)} \ {Check})
      BY <1>1, <1>8 DEF Waiting
    <2>2. Waiting(r) \subseteq Waiting(t)
      BY <1>3, <1>4 DEF Waiting
    <2>3. 1 \in 1..Len(t)
      BY <1>1
    <2>4. {Head(t)} \ {Check} \subseteq Waiting(t)
      BY <1>1, <2>3 DEF Waiting
    <2> QED
      BY <2>1, <2>2, <2>4
  <1> QED
    BY <1>7, <1>9 DEF r

LEMMA OnlyMark ==
  /\ Orderly(<<Mark>>) /\ Waiting(<<Mark>>) = {} /\ Head(<<Mark>>) # Check
  /\ \A t : Orderly(t) /\ Head(t) = Mark => Waiting(t) = {}
  <1> DEFINE m == <<Mark>>
  <1>1. m \in Seq(Instructions) /\ Len(m) = 1 /\ m[1] = Mark /\ Head(m) = Mark /\ m # <<>>
    BY DEF Instructions
  <1> HIDE DEF m
  <1>2. \A k \in 1..Len(m) : k = 1
    BY <1>1
  <1>3. Orderly(m) /\ Waiting(m) = {} /\ Head(m) # Check
    BY <1>1, <1>2, ChecksApart DEF Orderly, Waiting
  <1>4. ASSUME NEW t, Orderly(t), Head(t) = Mark PROVE Waiting(t) = {}
    <2>1. t \in Seq(Instructions) /\ t # <<>> /\ Len(t) \in Nat /\ Len(t) >= 1 /\ Head(t) = t[1]
      BY <1>4 DEF Orderly
    <2>2. Len(t) = 1
      <3>1. 1 \in 1..Len(t)
        BY <2>1
      <3> QED
        BY <1>4, <2>1, <3>1 DEF Orderly
    <2>3. \A k \in 1..Len(t) : t[k] = Mark
      BY <1>4, <2>1, <2>2
    <2> QED
      BY <2>3 DEF Waiting
  <1> QED
    BY <1>3, <1>4 DEF m

\* What r is for is undone by s.
Undoes(s, r) == Kind(s) = "create index if not exists" /\ Kind(r) = "drop index if exists"

LEMMA Targets ==
  ASSUME NEW s \in AllStatements
  PROVE  \/ Kind(s) = "add column" /\ Target(s) \in {"api_key", "rate_multiplier"}
         \/ Kind(s) = "drop column" /\ Target(s) = "group_id"
         \/ Kind(s) = "create index if not exists"
              /\ Target(s) \in Indexes
         \/ Kind(s) = "drop index if exists" /\ Target(s) \in {"request_logs_status", "user_groups_user"}
         \/ Kind(s) = "alter column type bigint" /\ Target(s) \in Micros
         \/ Kind(s) \in {"insert keys where not exists", "insert on conflict do nothing",
                         "update where not exists"}
  <1> USE Fields
  <1>1. CASE \E c \in {"api_key", "rate_multiplier"} : s = AddColumn(c)
    <2> PICK c \in {"api_key", "rate_multiplier"} : s = AddColumn(c)
      BY <1>1
    <2> QED
      OBVIOUS
  <1>2. CASE \E c \in Micros : s = Widen(c)
    <2> PICK c \in Micros : s = Widen(c)
      BY <1>2
    <2> QED
      OBVIOUS
  <1>3. CASE \E x \in Indexes : s = CreateIndex(x)
    <2> PICK x \in Indexes : s = CreateIndex(x)
      BY <1>3
    <2> QED
      OBVIOUS
  <1>4. CASE \E x \in {"request_logs_status", "user_groups_user"} : s = DropIndex(x)
    <2> PICK x \in {"request_logs_status", "user_groups_user"} : s = DropIndex(x)
      BY <1>4
    <2> QED
      OBVIOUS
  <1>5. CASE s = CopyTokens
    BY <1>5
  <1>6. CASE s = Default
    BY <1>6
  <1>7. CASE s = Rename
    BY <1>7
  <1>8. CASE s = DropColumn("group_id")
    BY <1>8
  <1> QED
    BY <1>1, <1>2, <1>3, <1>4, <1>5, <1>6, <1>7, <1>8 DEF AllStatements, Indexes

\* A statement that runs: what it is for holds, and what others are for holds still, unless
\* it makes an index that one of them has dropped; a setting is renamed only if it is there.
LEMMA Ran ==
  ASSUME db \in Databases, NEW s \in AllStatements, db' = Effect(s, db), deleted' = deleted,
         Kind(s) = "update where not exists" => db.config \cap {"retention_days", "archive_days"} # {}
  PROVE  /\ db' \in Databases /\ Holds(s)'
         /\ \A r \in AllStatements : Holds(r) => Holds(r)' \/ Undoes(s, r)
         /\ db'.tables = db.tables /\ db'.offset = db.offset
         /\ Kind(s) # "insert keys where not exists" => db'.keys = db.keys
         /\ "timestamps_utc" \in db'.config <=> "timestamps_utc" \in db.config
  <1>1. CASE Kind(s) = "add column"
    <2>1. Target(s) \in {"api_key", "rate_multiplier"}
      BY <1>1, Targets
    <2>2. db' = [db EXCEPT !.columns = @ \cup {Target(s)}]
      BY <1>1, Outcomes
    <2>3. Target(s) \in Columns
      BY <2>1 DEF Columns
    <2>4. /\ db' \in Databases
          /\ db'.columns = db.columns \cup {Target(s)}
          /\ db'.tables = db.tables /\ db'.tokenTable = db.tokenTable /\ db'.pinned = db.pinned
          /\ db'.bigint = db.bigint
          /\ db'.indexes = db.indexes /\ db'.config = db.config /\ db'.keys = db.keys /\ db'.offset = db.offset
      BY <2>2, <2>3 DEF Databases
    <2>5. Holds(s)'
      BY <1>1, <2>4, <2>1 DEF Holds
    <2>6. ASSUME NEW r \in AllStatements, Holds(r)
          PROVE  Holds(r)' \/ Undoes(s, r)
      BY <1>1, <2>4, <2>6, Targets, <2>1 DEF Holds, Undoes
    <2> QED
      BY <1>1, <2>4, <2>5, <2>6
  <1>2. CASE Kind(s) = "drop column"
    <2>1. Target(s) = "group_id"
      BY <1>2, Targets
    <2>2. db' = [db EXCEPT !.columns = @ \ {Target(s)}]
      BY <1>2, Outcomes
    <2>3. /\ db' \in Databases
          /\ db'.columns = db.columns \ {Target(s)}
          /\ db'.tables = db.tables /\ db'.tokenTable = db.tokenTable /\ db'.pinned = db.pinned
          /\ db'.bigint = db.bigint
          /\ db'.indexes = db.indexes /\ db'.config = db.config /\ db'.keys = db.keys /\ db'.offset = db.offset
      BY <2>2 DEF Databases
    <2>4. Holds(s)'
      BY <1>2, <2>3, <2>1 DEF Holds
    <2>5. ASSUME NEW r \in AllStatements, Holds(r)
          PROVE  Holds(r)' \/ Undoes(s, r)
      BY <1>2, <2>3, <2>5, Targets, <2>1 DEF Holds, Undoes
    <2> QED
      BY <1>2, <2>3, <2>4, <2>5
  <1>3. CASE Kind(s) = "create index if not exists"
    <2>1. Target(s) \in Indexes
      BY <1>3, Targets
    <2>2. db' = [db EXCEPT !.indexes = @ \cup {Target(s)}]
      BY <1>3, Outcomes
    <2>3. Target(s) \in Indexes
      BY <2>1 DEF Indexes
    <2>4. /\ db' \in Databases
          /\ db'.indexes = db.indexes \cup {Target(s)}
          /\ db'.tables = db.tables /\ db'.tokenTable = db.tokenTable /\ db'.pinned = db.pinned
          /\ db'.columns = db.columns
          /\ db'.bigint = db.bigint /\ db'.config = db.config /\ db'.keys = db.keys /\ db'.offset = db.offset
      BY <2>2, <2>3 DEF Databases
    <2>5. Holds(s)'
      BY <1>3, <2>4, <2>1 DEF Holds
    <2>6. ASSUME NEW r \in AllStatements, Holds(r)
          PROVE  Holds(r)' \/ Undoes(s, r)
      BY <1>3, <2>4, <2>6, Targets, <2>1 DEF Holds, Undoes
    <2> QED
      BY <1>3, <2>4, <2>5, <2>6
  <1>4. CASE Kind(s) = "drop index if exists"
    <2>1. db' = [db EXCEPT !.indexes = @ \ {Target(s)}]
      BY <1>4, Outcomes
    <2>2. /\ db' \in Databases
          /\ db'.indexes = db.indexes \ {Target(s)}
          /\ db'.tables = db.tables /\ db'.tokenTable = db.tokenTable /\ db'.pinned = db.pinned
          /\ db'.columns = db.columns
          /\ db'.bigint = db.bigint /\ db'.config = db.config /\ db'.keys = db.keys /\ db'.offset = db.offset
      BY <2>1 DEF Databases
    <2>3. Holds(s)'
      BY <1>4, <2>2 DEF Holds
    <2>4. ASSUME NEW r \in AllStatements, Holds(r)
          PROVE  Holds(r)' \/ Undoes(s, r)
      BY <1>4, <2>2, <2>4, Targets DEF Holds, Undoes
    <2> QED
      BY <1>4, <2>2, <2>3, <2>4
  <1>5. CASE Kind(s) = "alter column type bigint"
    <2>1. Target(s) \in Micros
      BY <1>5, Targets
    <2>2. db' = [db EXCEPT !.bigint = @ \cup {Target(s)}]
      BY <1>5, Outcomes
    <2>3. Target(s) \in Micros
      BY <2>1
    <2>4. /\ db' \in Databases
          /\ db'.bigint = db.bigint \cup {Target(s)}
          /\ db'.tables = db.tables /\ db'.tokenTable = db.tokenTable /\ db'.pinned = db.pinned
          /\ db'.columns = db.columns
          /\ db'.indexes = db.indexes /\ db'.config = db.config /\ db'.keys = db.keys /\ db'.offset = db.offset
      BY <2>2, <2>3 DEF Databases
    <2>5. Holds(s)'
      BY <1>5, <2>4, <2>1 DEF Holds
    <2>6. ASSUME NEW r \in AllStatements, Holds(r)
          PROVE  Holds(r)' \/ Undoes(s, r)
      BY <1>5, <2>4, <2>6, Targets, <2>1 DEF Holds, Undoes
    <2> QED
      BY <1>5, <2>4, <2>5, <2>6
  <1>6. CASE Kind(s) = "insert keys where not exists"
    <2>1. db' = [db EXCEPT !.keys = @ \cup Tokens]
      BY <1>6, Outcomes
    <2>2. /\ db' \in Databases
          /\ db'.keys = db.keys \cup Tokens
          /\ db'.tables = db.tables /\ db'.tokenTable = db.tokenTable /\ db'.pinned = db.pinned
          /\ db'.columns = db.columns
          /\ db'.bigint = db.bigint /\ db'.indexes = db.indexes /\ db'.config = db.config /\ db'.offset = db.offset
      BY <2>1 DEF Databases
    <2>3. Holds(s)'
      BY <1>6, <2>2 DEF Holds
    <2>4. ASSUME NEW r \in AllStatements, Holds(r)
          PROVE  Holds(r)' \/ Undoes(s, r)
      BY <1>6, <2>2, <2>4, Targets DEF Holds, Undoes
    <2> QED
      BY <1>6, <2>2, <2>3, <2>4
  <1>7. CASE Kind(s) = "insert on conflict do nothing"
    <2>1. db' = [db EXCEPT !.config = @ \cup {"retention_days"}]
      BY <1>7, Outcomes
    <2>2. "retention_days" \in ConfigKeys
      BY DEF ConfigKeys
    <2>3. /\ db' \in Databases
          /\ db'.config = db.config \cup {"retention_days"}
          /\ db'.tables = db.tables /\ db'.tokenTable = db.tokenTable /\ db'.pinned = db.pinned
          /\ db'.columns = db.columns
          /\ db'.bigint = db.bigint /\ db'.indexes = db.indexes /\ db'.keys = db.keys /\ db'.offset = db.offset
      BY <2>1, <2>2 DEF Databases
    <2>4. Holds(s)'
      BY <1>7, <2>3 DEF Holds
    <2>5. ASSUME NEW r \in AllStatements, Holds(r)
          PROVE  Holds(r)' \/ Undoes(s, r)
      BY <1>7, <2>3, <2>5, Targets DEF Holds, Undoes
    <2> QED
      BY <1>7, <2>3, <2>4, <2>5
  <1>8. CASE Kind(s) = "update where not exists"
    <2>1. \/ db' = [db EXCEPT !.config = (@ \ {"retention_days"}) \cup {"archive_days"}]
          \/ db' = db /\ "archive_days" \in db.config
      BY <1>8, Outcomes
    <2>2. "archive_days" \in ConfigKeys
      BY DEF ConfigKeys
    <2>3. /\ db' \in Databases
          /\ \/ db'.config = (db.config \ {"retention_days"}) \cup {"archive_days"}
             \/ db'.config = db.config /\ "archive_days" \in db.config
          /\ db'.tables = db.tables /\ db'.tokenTable = db.tokenTable /\ db'.pinned = db.pinned
          /\ db'.columns = db.columns
          /\ db'.bigint = db.bigint /\ db'.indexes = db.indexes /\ db'.keys = db.keys /\ db'.offset = db.offset
      BY <2>1, <2>2 DEF Databases
    <2> QED
      BY <1>8, <2>3 DEF Holds
  <1> QED
    BY <1>1, <1>2, <1>3, <1>4, <1>5, <1>6, <1>7, <1>8, Targets

LEMMA SchemaInitially == SchemaInit => SchemaInv
  <1> SUFFICES ASSUME SchemaInit PROVE SchemaInv
    OBVIOUS
  <1>1. dbType \in {"sqlite", "postgres"} /\ deleted = {} /\ boot = [at |-> 0, todo |-> <<>>]
    BY DEF SchemaInit, Opening
  <1>2. boot \in [at : 0..Stampings, todo : Seq(Instructions)] /\ ~AtMigration /\ boot.at = 0
    BY <1>1, Numbering DEF AtMigration
  <1>3. CASE db = Empty /\ marks = {}
    <2>1. db \in Databases
      BY <1>3 DEF Empty, Databases
    <2>2. db.keys = {} /\ db.config = {}
      BY <1>3 DEF Empty
    <2>3. InOrder
      BY <1>1, <1>2, <1>3, Numbering DEF InOrder, IsMarked
    <2>4. Lasting
      BY <1>3 DEF Lasting, IsMarked
    <2> QED
      BY <1>1, <1>2, <1>3, <2>1, <2>2, <2>3, <2>4
         DEF SchemaInv, SchemaTypes, UnderWay, DeletedStaysDeleted
  <1>4. CASE OldDatabase
    <2>1. PICK w \in 0..10, tokenTable \in BOOLEAN, pinned \in BOOLEAN, v \in 0..10 :
            v <= w /\ db = AfterFirst(w, tokenTable, pinned, dbType) /\ marks = {Migrations[i] : i \in 1..v}
      BY <1>4, Numbering DEF OldDatabase
    <2>2. db \in Databases
      BY <1>1, <2>1 DEF AfterFirst, Databases, Columns, Indexes, ConfigKeys, Micros, Stamps
    <2>3. /\ db.tables /\ db.tokenTable = tokenTable /\ db.pinned = pinned
          /\ w >= 1 => "api_key" \in db.columns
          /\ w >= 5 => "rate_multiplier" \in db.columns
          /\ w >= 9 /\ ~pinned => "group_id" \notin db.columns
          /\ w >= 10 => db.indexes \cap {"user_groups_user", "request_logs_status"} = {}
          /\ w >= 2 /\ tokenTable => db.keys = Tokens
          /\ w >= 6 => db.config \cap {"retention_days", "archive_days"} # {}
          /\ w >= 7 => "archive_days" \in db.config
          /\ w >= 8 /\ dbType = "postgres" => db.bigint = Micros
          /\ "timestamps_utc" \notin db.config
      BY <2>1 DEF AfterFirst
    <2>4. \A i \in Numbers : IsMarked(i) <=> i <= v
      <3>1. ASSUME NEW i \in Numbers, IsMarked(i) PROVE i <= v
        <4>1. PICK j \in 1..v : Migrations[i] = Migrations[j]
          BY <2>1, <3>1 DEF IsMarked
        <4>2. j \in Numbers
          BY Numbering
        <4> QED
          BY <4>1, <4>2, NamesDiffer
      <3>2. ASSUME NEW i \in Numbers, i <= v PROVE IsMarked(i)
        BY <2>1, <3>2, Numbering DEF IsMarked
      <3> QED
        BY <3>1, <3>2
    <2>5. marks \subseteq {Migrations[i] : i \in Numbers}
      BY <2>1, Numbering
    <2>6. InOrder
      BY <1>1, <1>2, <2>3, <2>4, Numbering DEF InOrder
    <2>7. ASSUME NEW i \in Numbers, IsMarked(i), NEW s \in StatementsOf(i) PROVE Holds(s)
      <3>1. Origin(i, s) /\ i <= w /\ (s \in AllStatements)
        BY <1>1, <2>1, <2>4, <2>7, Origins, Numbering
      <3>2. CASE i \in {1, 5}
        <4>1. \/ i = 1 /\ s = AddColumn("api_key")
              \/ i = 5 /\ s = AddColumn("rate_multiplier")
          BY <3>2, <1>1, StatementLists
        <4> QED
          BY <3>1, <4>1, <2>3, Fields DEF Holds
      <3>3. CASE i = 9
        <4>1. s = DropColumn("group_id")
          BY <3>3, <1>1, StatementLists
        <4> QED
          BY <3>1, <3>3, <4>1, <2>3, Fields DEF Holds
      <3>4. CASE i = 10
        <4>1. s = DropIndex("user_groups_user") \/ s = DropIndex("request_logs_status")
          BY <3>4, <1>1, StatementLists
        <4> QED
          BY <3>1, <3>4, <4>1, <2>3, Fields DEF Holds
      <3>5. CASE i = 8
        <4>1. Kind(s) = "alter column type bigint" /\ Target(s) \in Micros
          BY <1>1, <2>7, <3>5, Contents
        <4>2. dbType = "postgres"
          BY <3>5, <1>1, <2>7, StatementLists
        <4> QED
          BY <3>1, <3>5, <4>1, <4>2, <2>3 DEF Holds
      <3>6. CASE i \in {2, 3, 4, 6, 7}
        <4>1. \/ i = 2 /\ Kind(s) = "insert keys where not exists"
              \/ Kind(s) = "create index if not exists"
              \/ i = 6 /\ Kind(s) = "insert on conflict do nothing"
              \/ i = 7 /\ Kind(s) = "update where not exists"
          BY <1>1, <2>7, <3>6, Contents
        <4>2. w \in Nat /\ i \in Nat
          BY <2>1, Numbering
        <4> QED
          BY <3>1, <4>1, <4>2, <2>3 DEF Holds
      <3> QED
        BY <3>2, <3>3, <3>4, <3>5, <3>6, Ten
    <2> QED
      BY <1>1, <1>2, <2>2, <2>3, <2>5, <2>6, <2>7
         DEF SchemaInv, SchemaTypes, Lasting, UnderWay, DeletedStaysDeleted
  <1> QED
    BY <1>3, <1>4 DEF SchemaInit

LEMMA NothingElse ==
  ASSUME UNCHANGED <<dbType, db, deleted>>
  PROVE  /\ \A s : Holds(s)' <=> Holds(s)
         /\ \A i : StatementsOf(i)' = StatementsOf(i)
  <1>1. dbType' = dbType /\ db' = db /\ deleted' = deleted
    OBVIOUS
  <1>2. \A s : Holds(s)' <=> Holds(s)
    BY <1>1 DEF Holds
  <1>3. \A i : StatementsOf(i)' = StatementsOf(i)
    BY <1>1 DEF StatementsOf
  <1> QED
    BY <1>2, <1>3

\* What is so before a migration is begun, or the timestamps: the invariant but for the
\* statements under way.
LEMMA GoesOn ==
  ASSUME SchemaInv, NEW n \in 1..Stampings, boot' = Enter(n), UNCHANGED <<dbType, deleted>>,
         db' \in Databases, InOrder', Lasting', marks' \subseteq {Migrations[i] : i \in Numbers},
         "timestamps_utc" \in db'.config => db'.offset = {}, db'.keys = db.keys
  PROVE  SchemaInv'
  <1>1. dbType' \in {"sqlite", "postgres"} /\ dbType' = dbType
    BY DEF SchemaInv, SchemaTypes
  <1>2. CASE n \in Numbers
    <2>1. /\ boot'.at = n /\ boot' \in [at : 0..Stampings, todo : Seq(Instructions)]
          /\ Orderly(boot'.todo) /\ Waiting(boot'.todo) = StatementsOf(n)
          /\ Head(boot'.todo) = Check
      BY <1>1, <1>2, Begun
    <2>2. StatementsOf(n)' = StatementsOf(n)
      BY <1>1 DEF StatementsOf
    <2>3. UnderWay'
      BY <2>1, <2>2 DEF UnderWay
    <2> QED
      BY <1>1, <2>1, <2>3 DEF SchemaInv, SchemaTypes, DeletedStaysDeleted
  <1>3. CASE n \notin Numbers
    <2> DEFINE none == <<>>
    <2>1. n = 11 /\ boot' = [at |-> 11, todo |-> none]
      BY <1>3, Numbering DEF Enter, Numbers
    <2>2. boot' \in [at : 0..Stampings, todo : Seq(Instructions)] /\ boot'.at = 11
      <3>1. none \in Seq(Instructions) /\ 11 \in 0..Stampings
        BY Numbering
      <3> HIDE DEF none
      <3> QED
        BY <2>1, <3>1
    <2>3. UnderWay'
      BY <2>2, Numbering DEF UnderWay, AtMigration
    <2> QED
      BY <1>1, <2>2, <2>3 DEF SchemaInv, SchemaTypes, DeletedStaysDeleted
  <1> QED
    BY <1>2, <1>3

LEMMA OpenStepKeeps ==
  ASSUME SchemaInv, OpenStep
  PROVE  SchemaInv'
  <1> USE DEF SchemaInv, SchemaTypes
  <1>0. /\ AtMigration => boot.at \in Numbers /\ InHand = Migrations[boot.at]
        /\ AtMigration => Orderly(boot.todo) /\ boot.todo \in Seq(Instructions) /\ boot.todo # <<>>
        /\ AtMigration => /\ boot.at \in 1..10 /\ boot.at + 1 \in 1..Stampings
                          /\ Enter(boot.at + 1).at = boot.at + 1
        /\ boot.at \in 0..11
    BY Numbering DEF AtMigration, InHand, Numbers, UnderWay, Orderly, Enter
  <1>1. CASE CreateTables
    <2>1. boot' = Enter(1) /\ Enter(1).at = 1 /\ boot.at = 0 /\ UNCHANGED <<dbType, marks, deleted>>
      BY <1>1 DEF CreateTables, Enter
    <2>2. /\ db' \in Databases /\ db'.keys = db.keys /\ db'.config = db.config /\ db'.offset = db.offset
          /\ db'.tables /\ (db.tables => db' = db)
      <3>1. CASE db.tables
        BY <1>1, <3>1 DEF CreateTables
      <3>2. CASE ~db.tables
        <4>1. {"api_key"} \in SUBSET Columns /\ Micros \in SUBSET Micros
          BY DEF Columns
        <4>2. db' = [db EXCEPT !.tables = TRUE, !.columns = {"api_key"}, !.bigint = Micros]
          BY <1>1, <3>2 DEF CreateTables
        <4> QED
          BY <4>1, <4>2, <3>2 DEF Databases
      <3> QED
        BY <3>1, <3>2
    <2>3. Lasting'
      <3>1. CASE db.tables
        BY <2>1, <2>2, <3>1, NothingElse DEF Lasting, IsMarked
      <3>2. CASE ~db.tables
        BY <2>1, <3>2 DEF InOrder, Lasting, IsMarked
      <3> QED
        BY <3>1, <3>2
    <2>4. InOrder'
      BY <2>1, <2>2, Numbering DEF InOrder, IsMarked
    <2>5. 1 \in 1..Stampings
      BY Numbering
    <2> QED
      BY <2>1, <2>2, <2>3, <2>4, <2>5, GoesOn
  <1>2. CASE CheckApplied
    <2>1. AtMigration /\ Head(boot.todo) = Check /\ UNCHANGED <<dbType, db, marks, deleted>>
      BY <1>2 DEF CheckApplied
    <2>2. CASE InHand \in marks
      <3>1. boot' = Enter(boot.at + 1)
        BY <1>2, <2>2 DEF CheckApplied
      <3>2. Lasting'
        BY <2>1, NothingElse DEF Lasting, IsMarked
      <3>3. InOrder'
        BY <1>0, <2>1, <2>2, <3>1, Numbering DEF InOrder, IsMarked
      <3> QED
        BY <1>0, <2>1, <3>1, <3>2, <3>3, GoesOn
    <2>3. CASE InHand \notin marks
      <3>1. /\ boot' = [boot EXCEPT !.todo = Tail(@)] /\ Head(boot.todo) # Mark
        BY <1>2, <2>1, <2>3, ChecksApart DEF CheckApplied
      <3>2. /\ Orderly(Tail(boot.todo)) /\ Head(Tail(boot.todo)) # Check
            /\ Waiting(boot.todo) = Waiting(Tail(boot.todo))
        BY <1>0, <2>1, <3>1, Popped
      <3>3. /\ boot'.at = boot.at /\ boot'.todo = Tail(boot.todo)
            /\ boot' \in [at : 0..Stampings, todo : Seq(Instructions)]
        BY <3>1, <3>2 DEF Orderly
      <3>4. UnderWay'
        BY <1>0, <2>1, <2>3, <3>2, <3>3, NothingElse DEF UnderWay, AtMigration, IsMarked
      <3>5. Lasting'
        BY <2>1, NothingElse DEF Lasting, IsMarked
      <3>6. InOrder'
        BY <2>1, <3>3 DEF InOrder, IsMarked
      <3> QED
        BY <2>1, <3>3, <3>4, <3>5, <3>6 DEF DeletedStaysDeleted
    <2> QED
      BY <2>2, <2>3
  <1>3. CASE ExecStatement
    <2> PICK s : s = Head(boot.todo)
      OBVIOUS
    <2>1. /\ AtMigration /\ s \notin {Check, Mark} /\ UNCHANGED <<dbType, marks, deleted>>
          /\ \/ /\ Error(s, db) = "none"
                /\ db' = Effect(s, db) /\ boot' = [boot EXCEPT !.todo = Tail(@)]
             \/ /\ Error(s, db) # "none"
                /\ db' = db /\ boot' = [boot EXCEPT !.todo = <<Mark>>]
      BY <1>3 DEF ExecStatement
    <2>2. /\ Orderly(Tail(boot.todo)) /\ Head(Tail(boot.todo)) # Check
          /\ Waiting(boot.todo) = Waiting(Tail(boot.todo)) \cup {s}
      <3>1. Orderly(boot.todo) /\ s # Mark /\ {s} \ {Check} = {s}
        BY <1>0, <2>1
      <3> QED
        BY <3>1, Popped
    <2>3. /\ s \in StatementsOf(boot.at) /\ ~IsMarked(boot.at)
          /\ Waiting(boot.todo) \subseteq StatementsOf(boot.at)
          /\ \A r \in StatementsOf(boot.at) : r \in Waiting(boot.todo) \/ Holds(r)
      BY <2>1, <2>2 DEF UnderWay
    <2>4. s \in AllStatements /\ Origin(boot.at, s)
      BY <1>0, <2>1, <2>3, Origins
    <2>5. \A i \in Numbers : IsMarked(i) => i < boot.at
      BY <1>0, <2>1, <2>3, Numbering DEF InOrder
    <2>6. deleted = {}
      BY <1>0, <2>1, <2>3 DEF InOrder
    <2>7. CASE Error(s, db) # "none"
      <3>1. db' = db /\ boot'.at = boot.at /\ boot'.todo = <<Mark>>
            /\ boot' \in [at : 0..Stampings, todo : Seq(Instructions)]
        BY <2>1, <2>7, OnlyMark DEF Orderly
      <3>2. Kind(s) \in {"insert keys where not exists", "add column", "drop column"} /\ Holds(s)
        BY <2>4, <2>7, Outcomes DEF Holds
      <3>3. StatementsOf(boot.at) = {s}
        BY <1>0, <2>1, <2>3, <3>2, Ranks
      <3>4. UnderWay'
        BY <1>0, <2>1, <2>3, <3>1, <3>2, <3>3, OnlyMark, NothingElse
           DEF UnderWay, AtMigration, IsMarked
      <3>5. Lasting'
        BY <2>1, <3>1, NothingElse DEF Lasting, IsMarked
      <3>6. InOrder'
        BY <2>1, <3>1 DEF InOrder, IsMarked
      <3> QED
        BY <2>1, <3>1, <3>4, <3>5, <3>6 DEF DeletedStaysDeleted
    <2>8. CASE Error(s, db) = "none"
      <3>1. /\ boot'.at = boot.at /\ boot'.todo = Tail(boot.todo)
            /\ boot' \in [at : 0..Stampings, todo : Seq(Instructions)]
            /\ db' = Effect(s, db)
        BY <2>1, <2>2, <2>8 DEF Orderly
      <3>2. Kind(s) = "update where not exists" => db.config \cap {"retention_days", "archive_days"} # {}
        <4>1. ASSUME Kind(s) = "update where not exists"
              PROVE  db.config \cap {"retention_days", "archive_days"} # {}
          <5>1. boot.at = 7
            BY <1>0, <2>1, <2>3, <4>1, Ranks
          <5>2. IsMarked(6) /\ 6 \in Numbers
            BY <5>1, Numbering DEF InOrder
          <5>3. Default \in StatementsOf(6) /\ Kind(Default) = "insert on conflict do nothing"
            BY StatementLists, Fields
          <5> QED
            BY <5>2, <5>3 DEF Lasting, Holds
        <4> QED
          BY <4>1
      <3>3. /\ db' \in Databases /\ Holds(s)'
            /\ \A r \in AllStatements : Holds(r) => Holds(r)' \/ Undoes(s, r)
            /\ db'.tables = db.tables /\ db'.offset = db.offset
            /\ "timestamps_utc" \in db'.config <=> "timestamps_utc" \in db.config
        <4>1. db \in Databases /\ s \in AllStatements /\ db' = Effect(s, db) /\ deleted' = deleted
          BY <2>1, <2>4, <3>1
        <4> HIDE DEF SchemaInv, SchemaTypes
        <4> QED
          BY <3>2, <4>1, Ran
      <3>4. ASSUME NEW i \in Numbers, NEW r \in StatementsOf(i), IsMarked(i) \/ i = boot.at, Holds(r)
            PROVE  Holds(r)'
        <4>1. r \in AllStatements
          BY Origins
        <4>2. ASSUME Undoes(s, r) PROVE FALSE
          <5>1. boot.at \in {3, 4} /\ i = 10
            BY <1>0, <2>1, <2>3, <4>2, Ranks DEF Undoes
          <5> QED
            BY <2>5, <3>4, <5>1
        <4> QED
          BY <3>3, <3>4, <4>1, <4>2
      <3>5. UnderWay'
        <4>1. Waiting(boot'.todo) \subseteq StatementsOf(boot.at)
          BY <2>2, <2>3, <3>1
        <4>2. ASSUME NEW r \in StatementsOf(boot.at) PROVE r \in Waiting(boot'.todo) \/ Holds(r)'
          <5>1. r \in Waiting(Tail(boot.todo)) \/ r = s \/ Holds(r)
            BY <2>2, <2>3
          <5> QED
            <6>1. CASE Holds(r)
              <7>1. boot.at \in Numbers
                BY <1>0, <2>1
              <7> QED
                BY <3>4, <6>1, <7>1
            <6>2. CASE r = s
              BY <3>3, <6>2
            <6> QED
              BY <3>1, <5>1, <6>1, <6>2
        <4>3. StatementsOf(boot.at)' = StatementsOf(boot.at)
          BY <2>1, <3>1 DEF StatementsOf
        <4> QED
          BY <1>0, <2>1, <2>2, <2>3, <3>1, <4>1, <4>2, <4>3 DEF UnderWay, AtMigration, IsMarked
      <3>6. Lasting'
        <4>1. \A i \in Numbers : StatementsOf(i)' = StatementsOf(i) /\ (IsMarked(i)' <=> IsMarked(i))
          BY <2>1 DEF StatementsOf, IsMarked
        <4> QED
          BY <3>4, <4>1 DEF Lasting
      <3>7. InOrder'
        BY <2>1, <3>1, <3>3 DEF InOrder, IsMarked
      <3> QED
        BY <2>1, <2>6, <3>1, <3>3, <3>5, <3>6, <3>7 DEF DeletedStaysDeleted
    <2> QED
      BY <2>7, <2>8
  <1>4. CASE MarkApplied
    <2>1. /\ AtMigration /\ Head(boot.todo) = Mark /\ marks' = marks \cup {Migrations[boot.at]}
          /\ boot' = Enter(boot.at + 1) /\ UNCHANGED <<dbType, db, deleted>>
      BY <1>4 DEF MarkApplied, Marked, InHand
    <2>2. \A s \in StatementsOf(boot.at) : Holds(s)
      BY <1>0, <2>1, OnlyMark DEF UnderWay
    <2>3. \A i \in Numbers : IsMarked(i)' <=> IsMarked(i) \/ i = boot.at
      BY <1>0, <2>1, NamesDiffer DEF IsMarked
    <2>4. Lasting'
      BY <2>1, <2>2, <2>3, NothingElse DEF Lasting
    <2>5. InOrder'
      <3>1. db.tables
        BY <1>0, <2>1 DEF InOrder
      <3>2. \A i \in Numbers : i < boot.at => IsMarked(i)
        BY DEF InOrder
      <3> QED
        BY <1>0, <2>1, <2>3, <3>1, <3>2, Numbering DEF InOrder
    <2>6. marks' \subseteq {Migrations[i] : i \in Numbers}
      BY <1>0, <2>1
    <2> QED
      BY <1>0, <2>1, <2>4, <2>5, <2>6, GoesOn
  <1>5. CASE ConvertTimestamps
    <2>1. /\ UNCHANGED <<dbType, marks, deleted, boot>> /\ boot.at = 11 /\ "timestamps_utc" \notin db.config
      BY <1>5, Numbering DEF ConvertTimestamps
    <2>2. /\ db' \in Databases
          /\ \/ db'.config = db.config \cup {"timestamps_utc"} /\ db'.offset = {}
             \/ db'.config = db.config
          /\ db'.tables = db.tables /\ db'.tokenTable = db.tokenTable /\ db'.pinned = db.pinned
          /\ db'.columns = db.columns /\ db'.bigint = db.bigint /\ db'.indexes = db.indexes
          /\ db'.keys = db.keys
      <3>1. CASE db.offset = {}
        <4>1. db' = [db EXCEPT !.config = @ \cup {"timestamps_utc"}]
          BY <1>5, <3>1 DEF ConvertTimestamps
        <4>2. "timestamps_utc" \in ConfigKeys
          BY DEF ConfigKeys
        <4> QED
          BY <3>1, <4>1, <4>2 DEF Databases
      <3>2. CASE db.offset # {}
        <4>1. PICK c : db' = [db EXCEPT !.offset = @ \ {c}]
          BY <1>5, <3>2 DEF ConvertTimestamps
        <4> QED
          BY <4>1 DEF Databases
      <3> QED
        BY <3>1, <3>2
    <2>3. \A s : Holds(s) => Holds(s)'
      BY <2>1, <2>2 DEF Holds
    <2>4. Lasting'
      BY <2>1, <2>3 DEF Lasting, IsMarked, StatementsOf
    <2>5. InOrder'
      BY <2>1, <2>2 DEF InOrder, IsMarked
    <2>6. UnderWay'
      BY <2>1, Numbering DEF UnderWay, AtMigration
    <2> QED
      BY <2>1, <2>2, <2>4, <2>5, <2>6 DEF DeletedStaysDeleted
  <1> QED
    BY <1>1, <1>2, <1>3, <1>4, <1>5 DEF OpenStep

LEMMA DeleteKeyKeeps ==
  ASSUME SchemaInv, Opened, DeleteKey
  PROVE  SchemaInv' /\ Opened'
  <1> USE DEF SchemaInv, SchemaTypes
  <1>1. PICK k \in Tokens : /\ db' = [db EXCEPT !.keys = @ \ {k}]
                            /\ deleted' = deleted \cup (db.keys \cap {k})
                            /\ UNCHANGED <<dbType, marks, boot>>
    BY DEF DeleteKey
  <1>2. /\ db' \in Databases /\ db'.keys = db.keys \ {k}
        /\ db'.config = db.config /\ db'.offset = db.offset
        /\ db'.tables = db.tables /\ db'.tokenTable = db.tokenTable /\ db'.pinned = db.pinned
        /\ db'.columns = db.columns /\ db'.bigint = db.bigint /\ db'.indexes = db.indexes
    BY <1>1 DEF Databases
  <1>3. boot.at = 11 /\ \A i \in Numbers : IsMarked(i)
    BY Numbering DEF Opened, InOrder
  <1>4. Opened'
    BY <1>1, <1>2 DEF Opened
  <1>5. InOrder'
    BY <1>1, <1>2, <1>3 DEF InOrder, IsMarked
  <1>6. Lasting'
    <2>1. \A s : Holds(s) => Holds(s)'
      BY <1>1, <1>2 DEF Holds
    <2> QED
      BY <1>1, <2>1 DEF Lasting, IsMarked, StatementsOf
  <1>7. UnderWay'
    BY <1>1, <1>3, Numbering DEF UnderWay, AtMigration
  <1>8. DeletedStaysDeleted'
    BY <1>1, <1>2 DEF DeletedStaysDeleted
  <1> QED
    BY <1>1, <1>2, <1>4, <1>5, <1>6, <1>7, <1>8

LEMMA SchemaStays ==
  ASSUME SchemaInv, UNCHANGED schemaVars
  PROVE  SchemaInv' /\ (Opened' <=> Opened)
  <1>1. UNCHANGED <<dbType, db, marks, deleted, boot>>
    BY DEF schemaVars
  <1>2. Lasting'
    BY <1>1, NothingElse DEF SchemaInv, Lasting, IsMarked
  <1>3. UnderWay'
    BY <1>1, NothingElse DEF SchemaInv, UnderWay, AtMigration, IsMarked
  <1>4. InOrder' /\ SchemaTypes' /\ DeletedStaysDeleted'
    BY <1>1 DEF SchemaInv, InOrder, SchemaTypes, DeletedStaysDeleted, IsMarked
  <1> QED
    BY <1>1, <1>2, <1>3, <1>4 DEF SchemaInv, Opened

\* A start begins from wherever the last one stopped.
LEMMA StartKeeps ==
  ASSUME SchemaInv, Start
  PROVE  SchemaInv'
  <1>1. boot' = [at |-> 0, todo |-> <<>>] /\ UNCHANGED <<dbType, db, marks, deleted>>
    BY DEF Start, Opening
  <1> DEFINE none == <<>>
  <1>2. none \in Seq(Instructions) /\ 0 \in 0..Stampings
    BY Numbering
  <1>3. boot' = [at |-> 0, todo |-> none]
    BY <1>1
  <1> HIDE DEF none
  <1>4. boot' \in [at : 0..Stampings, todo : Seq(Instructions)] /\ boot'.at = 0
    BY <1>2, <1>3
  <1>5. Lasting'
    BY <1>1, NothingElse DEF SchemaInv, Lasting, IsMarked
  <1>6. UnderWay'
    BY <1>4, Numbering DEF UnderWay, AtMigration
  <1>7. InOrder'
    BY <1>1, <1>4, Numbering DEF SchemaInv, InOrder, IsMarked
  <1> QED
    BY <1>1, <1>4, <1>5, <1>6, <1>7 DEF SchemaInv, SchemaTypes, DeletedStaysDeleted

LEMMA SchemaMoves ==
  ASSUME SchemaInv, ServingInv, [ServerNext]_serverVars
  PROVE  SchemaInv' /\ ServingInv'
  <1>1. CASE Start
    <2>1. phase' = "schema"
      BY <1>1 DEF Start
    <2> QED
      BY <1>1, <2>1, StartKeeps DEF ServingInv
  <1>2. CASE Open
    <2>1. \/ OpenStep /\ phase' = "schema"
          \/ Opened /\ UNCHANGED schemaVars
      BY <1>2 DEF Open
    <2> QED
      BY <2>1, OpenStepKeeps, SchemaStays DEF ServingInv
  <1>3. CASE RunKeys
    <2>1. Opened /\ DeleteKey
      BY <1>3 DEF RunKeys, ServingInv
    <2> QED
      BY <2>1, DeleteKeyKeeps DEF ServingInv
  <1>4. CASE FillPrices \/ LoadAll \/ OpenFails \/ Stop \/ RunPrices \/ RunSettings \/ Exchange
             \/ UNCHANGED serverVars
    <2>1. /\ UNCHANGED schemaVars
          /\ phase' \notin {"down", "schema"} => phase \notin {"down", "schema"}
      BY <1>4 DEF FillPrices, LoadAll, OpenFails, Stop, Down, RunPrices, RunSettings, Exchange,
                  processVars, serverVars
    <2> QED
      BY <2>1, SchemaStays DEF ServingInv
  <1> QED
    BY <1>1, <1>2, <1>3, <1>4 DEF ServerNext

\* When every migration is marked, what the statements are for is what Migrated says.
LEMMA AllHold ==
  ASSUME SchemaInv, Opened
  PROVE  Migrated /\ marks = {Migrations[i] : i \in 1..Len(Migrations)}
  <1>1. /\ dbType \in {"sqlite", "postgres"} /\ db \in Databases
        /\ marks \subseteq {Migrations[i] : i \in Numbers} /\ boot.at = 11
        /\ "timestamps_utc" \in db.config => db.offset = {}
    BY Numbering DEF SchemaInv, SchemaTypes, Opened
  <1>2. \A i \in Numbers : IsMarked(i)
    BY <1>1, Numbering DEF SchemaInv, InOrder
  <1>3. \A i \in Numbers : \A s \in StatementsOf(i) : Holds(s)
    BY <1>2 DEF SchemaInv, Lasting
  <1>4. marks = {Migrations[i] : i \in Numbers}
    BY <1>1, <1>2 DEF IsMarked
  <1>5. 1 \in Numbers /\ 2 \in Numbers /\ 5 \in Numbers /\ 7 \in Numbers /\ 8 \in Numbers
        /\ 9 \in Numbers /\ 10 \in Numbers
    BY Numbering
  <1>6. Holds(AddColumn("api_key")) /\ Holds(AddColumn("rate_multiplier")) /\ Holds(DropColumn("group_id"))
    BY <1>1, <1>3, <1>5, StatementLists
  <1>7. /\ "api_key" \in db.columns /\ "rate_multiplier" \in db.columns
        /\ "group_id" \notin db.columns \/ db.pinned
    BY <1>6, Fields DEF Holds
  <1>8. Holds(DropIndex("user_groups_user")) /\ Holds(DropIndex("request_logs_status"))
    BY <1>1, <1>3, <1>5, StatementLists
  <1>9. "user_groups_user" \notin db.indexes /\ "request_logs_status" \notin db.indexes
    BY <1>8, Fields DEF Holds
  <1>10. Holds(Rename) /\ Holds(CopyTokens)
    BY <1>1, <1>3, <1>5, StatementLists
  <1>11. "archive_days" \in db.config /\ (db.tokenTable => Tokens \subseteq db.keys \cup deleted)
    BY <1>10, Fields DEF Holds
  <1>12. ASSUME dbType = "postgres" PROVE db.bigint = Micros
    <2>1. \A c \in Micros : Holds(Widen(c))
      BY <1>1, <1>3, <1>5, <1>12, StatementLists
    <2>2. \A c \in Micros : c \in db.bigint
      BY <2>1, Fields DEF Holds
    <2> QED
      BY <1>1, <2>2 DEF Databases
  <1>13. dbType = "sqlite" => db.offset = {}
    BY <1>1 DEF Opened
  <1>14. Migrated
    BY <1>7, <1>9, <1>11, <1>12, <1>13 DEF Migrated
  <1> QED
    BY <1>4, <1>14 DEF Numbers

(******************************** theorems *********************************)

\* Each step moves at most one of the two.
LEMMA LoadedMoves ==
  ASSUME SettingsInv, PricesInv, [ServerNext]_serverVars
  PROVE  SettingsInv' /\ PricesInv'
  <1>1. CASE Start
    BY <1>1, SettingsStay, PricesStay DEF Start, pricesVars
  <1>2. CASE Open
    BY <1>2, SettingsStay, PricesStay DEF Open, pricesVars
  <1>3. CASE FillPrices
    BY <1>3, SettingsStay, PricesMove DEF FillPrices
  <1>4. CASE LoadAll
    BY <1>4, SettingsMove, PricesStay DEF LoadAll, pricesVars
  <1>5. CASE OpenFails \/ Stop
    BY <1>5, SettingsMove, PricesMove DEF OpenFails, Stop
  <1>6. CASE RunPrices
    BY <1>6, SettingsStay, PricesMove DEF RunPrices, processVars
  <1>7. CASE RunSettings \/ Exchange
    BY <1>7, SettingsMove, PricesStay DEF RunSettings, Exchange, processVars, pricesVars
  <1>8. CASE RunKeys
    BY <1>8, SettingsStay, PricesStay DEF RunKeys, processVars, pricesVars
  <1>9. CASE UNCHANGED serverVars
    BY <1>9, SettingsStay, PricesStay DEF serverVars, processVars, pricesVars
  <1> QED
    BY <1>1, <1>2, <1>3, <1>4, <1>5, <1>6, <1>7, <1>8, <1>9 DEF ServerNext

ServerInv == SettingsInv /\ PricesInv /\ SchemaInv /\ ServingInv

LEMMA ServerInitially == ServerInit => ServerInv
  <1> SUFFICES ASSUME ServerInit PROVE ServerInv
    OBVIOUS
  <1>1. SettingsInv
    <2>1. /\ \A t \in Transports : built[t] = NotMade
          /\ \A c \in Callers : making[c] = MakesNone
      BY DEF ServerInit, SettingsInit
    <2>2. NotMade \in [with : Settable, stale : BOOLEAN] /\ NotMade.stale
      BY DEF NotMade, Settable
    <2>3. MakesNone \in [at : {"idle", "missed", "read"}, with : Settable, stale : BOOLEAN] /\ MakesNone.stale
      BY DEF MakesNone, Settable
    <2>4. TransportsInv
      BY <2>1, <2>2, <2>3 DEF ServerInit, SettingsInit, TransportsInv, Settable
    <2> QED
      BY <2>4 DEF ServerInit, SettingsInit, SettingsInv, AllApplied, Settable
  <1>2. PricesInv
    BY PricesDiffer, PricesAssumption
       DEF ServerInit, PricesInit, PricesInv, NoPrices, Answers, EtagTellsMemory
  <1>3. SchemaInv /\ ServingInv
    BY SchemaInitially DEF ServerInit, ServingInv
  <1> QED
    BY <1>1, <1>2, <1>3 DEF ServerInv

LEMMA ServerInvariant == ServerSpec => []ServerInv
  <1>1. ServerInv /\ [ServerNext]_serverVars => ServerInv'
    BY LoadedMoves, SchemaMoves DEF ServerInv
  <1> QED
    BY ServerInitially, <1>1, PTL DEF ServerSpec

\* Wherever earlier starts stopped, a server that takes requests has the whole current
\* schema, every old token as a key unless its owner has deleted it, and every migration
\* marked (createTables, runMigrations, migrateTimestampsToUTC).
THEOREM SchemaComplete == ServerSpec => []MigratedWhenUp
  <1>1. ServerInv => MigratedWhenUp
    BY AllHold DEF ServerInv, ServingInv, MigratedWhenUp
  <1> QED
    BY ServerInvariant, <1>1, PTL

\* A key that its owner has deleted does not come back from user_proxy_tokens, however
\* often the process is stopped and started (isMigrationApplied, markMigrationApplied).
THEOREM DeletedForGood == ServerSpec => []DeletedStaysDeleted
  <1>1. ServerInv => DeletedStaysDeleted
    BY DEF ServerInv, SchemaInv
  <1> QED
    BY ServerInvariant, <1>1, PTL

\* The value in memory is the one in system_config once the updates are over, however many
\* administrators there are, unless two updates overlapped, the row could not be read at
\* the start or another database took its place (UpdateRetryConfig and the like,
\* InitRetryTransportConfig); and a transport that was made with the value in memory,
\* and not earlier, has that one too, whichever of the overlapping first requests of its
\* proxy stored it (getSocks5Transport).
THEOREM SettingsAgree == ServerSpec => []RuntimeIsSaved
  <1>1. ServerInv => RuntimeIsSaved
    BY DEF ServerInv, SettingsInv, TransportsInv, RuntimeIsSaved, AllApplied
  <1> QED
    BY ServerInvariant, <1>1, PTL

\* The ETag is that of the list in memory however many refreshes overlap
\* (FetchFromLiteLLM): the one a refresh sends is, when it starts, that of the list in force.
THEOREM EtagSound == ServerSpec => []EtagTellsMemory
  <1>1. ServerInv => EtagTellsMemory
    BY DEF ServerInv, PricesInv
  <1> QED
    BY ServerInvariant, <1>1, PTL

(******************************** details *********************************)

Reader == [at : {"idle", "hot", "arch", "done"}, want : SUBSET Parts, got : SUBSET Parts,
           failed : BOOLEAN]

TypeOK ==
  /\ mem \in [Requests -> Entry \cup {None}]
  /\ hot \in [Requests -> Row \cup {None}]
  /\ arch \in [Requests -> {None} \cup SUBSET Parts]
  /\ archiveDB \in BOOLEAN
  /\ stored \in [Requests -> SUBSET Parts]
  /\ ended \subseteq Requests
  /\ cleaner \in [at : CleanerAt, snap : [Requests -> {None} \cup SUBSET Parts],
                  left : SUBSET Requests, saved : SUBSET Requests]
  /\ reader \in [Requests -> Reader]

\* The request stores no more and its entry has been moved: no step undoes it.
Over(r) == r \in ended /\ Absent(r)

\* A row is old, or in the archive, only after that, and the two copies of a row agree.
Placed(r) ==
  /\ ~Absent(r) \/ hot[r] # None \/ arch[r] # None => stored[r] # {}
  /\ arch[r] # None => Over(r)
  /\ hot[r] # None /\ hot[r].old => Over(r)
  /\ hot[r] # None /\ arch[r] # None => arch[r] = hot[r].parts

\* An entry stays in memory while the cleaner persists it, and a row in the table while
\* the cleaner archives it.
Cleaned(r) ==
  /\ cleaner.snap[r] # None => cleaner.at = "persist" /\ ~Absent(r)
  /\ r \in cleaner.left => \/ cleaner.at = "persist" /\ cleaner.snap[r] # None
                           \/ cleaner.at = "copied" /\ hot[r] # None /\ hot[r].old
  /\ r \in cleaner.saved => cleaner.at = "persist" /\ hot[r] # None

\* Where the parts lie, they all lie; and they lie somewhere.
Complete(r) ==
  /\ ~Absent(r) => mem[r].parts = stored[r]
  /\ hot[r] # None => hot[r].parts = stored[r] /\ (Absent(r) \/ mem[r].idle)
  /\ arch[r] # None => arch[r] = stored[r]
  /\ stored[r] # {} => ~Absent(r) \/ hot[r] # None \/ arch[r] # None
  /\ cleaner.snap[r] # None => cleaner.snap[r] = stored[r] /\ mem[r].idle

\* What a Get has looked for in one place and not found has not come there since; it has
\* nothing until it ends.
Reading(r) ==
  /\ reader[r].at \in {"hot", "arch"} =>
       /\ reader[r].got = {}
       /\ \/ reader[r].want = {}
          \/ reader[r].want \subseteq stored[r] /\ Absent(r)
  /\ reader[r].at = "arch" => reader[r].want = {} \/ reader[r].failed \/ hot[r] = None
  /\ reader[r].at = "done" => \/ reader[r].want \subseteq reader[r].got
                              \/ reader[r].failed /\ reader[r].got = {}

DetailKept(r) == Placed(r) /\ Cleaned(r) /\ (r \notin excused => Complete(r) /\ Reading(r))

DetailInv == TypeOK /\ \A r \in Requests : DetailKept(r)

LEMMA DetailInitially == Init => DetailInv
  <1> SUFFICES ASSUME Init PROVE DetailInv
    OBVIOUS
  <1>1. TypeOK
    BY DEF Init, TypeOK, Asleep, NotReading, Reader, CleanerAt
  <1>2. ASSUME NEW r \in Requests PROVE DetailKept(r)
    BY <1>2
       DEF Init, DetailKept, Placed, Cleaned, Complete, Reading, Over, Absent, Asleep,
           NotReading
  <1> QED
    BY <1>1, <1>2 DEF DetailInv

\* Persist goes on to the next entry; the copy has been saved or not.
LEMMA Persisted ==
  ASSUME TypeOK, NEW q \in Requests
  PROVE  /\ \A c : c = [cleaner EXCEPT !.left = @ \ {q}, !.saved = @ \cup {q}] =>
              /\ c \in [at : CleanerAt, snap : [Requests -> {None} \cup SUBSET Parts],
                         left : SUBSET Requests, saved : SUBSET Requests]
              /\ c.at = cleaner.at /\ c.snap = cleaner.snap
              /\ c.left = cleaner.left \ {q} /\ c.saved = cleaner.saved \cup {q}
         /\ \A c : c = [cleaner EXCEPT !.left = @ \ {q}] =>
              /\ c \in [at : CleanerAt, snap : [Requests -> {None} \cup SUBSET Parts],
                         left : SUBSET Requests, saved : SUBSET Requests]
              /\ c.at = cleaner.at /\ c.snap = cleaner.snap
              /\ c.left = cleaner.left \ {q} /\ c.saved = cleaner.saved
  <1> DEFINE Snaps == [Requests -> {None} \cup SUBSET Parts]
             Cleaners == [at : CleanerAt, snap : Snaps, left : SUBSET Requests, saved : SUBSET Requests]
  <1>1. cleaner \in Cleaners
    BY DEF TypeOK
  <1> HIDE DEF Snaps
  <1>2. ASSUME NEW c, c = [cleaner EXCEPT !.left = @ \ {q}, !.saved = @ \cup {q}]
        PROVE  /\ c \in Cleaners
               /\ c.at = cleaner.at /\ c.snap = cleaner.snap
               /\ c.left = cleaner.left \ {q} /\ c.saved = cleaner.saved \cup {q}
    BY <1>1, <1>2
  <1>3. ASSUME NEW c, c = [cleaner EXCEPT !.left = @ \ {q}]
        PROVE  /\ c \in Cleaners
               /\ c.at = cleaner.at /\ c.snap = cleaner.snap
               /\ c.left = cleaner.left \ {q} /\ c.saved = cleaner.saved
    BY <1>1, <1>3
  <1> QED
    BY <1>2, <1>3 DEF Snaps

\* The rows and entries that a step makes are what they should be.
LEMMA Rows ==
  ASSUME TypeOK, NEW q \in Requests
  PROVE  /\ mem[q] # None => mem[q] \in Entry /\ [mem[q] EXCEPT !.idle = TRUE] \in Entry
         /\ hot[q] # None => hot[q] \in Row /\ [hot[q] EXCEPT !.old = TRUE] \in Row
         /\ cleaner.snap[q] # None => Upsert(q, cleaner.snap[q]) \in Row
         /\ Archived(q) \in SUBSET Parts
  <1>1. /\ mem[q] # None => mem[q] \in Entry
        /\ hot[q] # None => hot[q] \in Row
        /\ cleaner.snap[q] # None => cleaner.snap[q] \in SUBSET Parts
        /\ arch[q] # None => arch[q] \in SUBSET Parts
    BY DEF TypeOK
  <1> QED
    BY <1>1 DEF Entry, Row, Upsert, Archived

\* The Get of q goes on, with what it has found so far.
GoesTo(q, at, got, failed) ==
  reader' = [reader EXCEPT ![q] =
              [at |-> at, want |-> reader[q].want, got |-> got, failed |-> failed]]

\* What ReadHot and ReadArchive make of a reader.
LEMMA Reads ==
  ASSUME TypeOK, NEW q \in Requests, ReadHot(q) \/ ReadArchive(q)
  PROVE  \/ /\ reader[q].at = "hot" /\ hot[q] # None
            /\ GoesTo(q, "done", hot[q].parts, reader[q].failed)
         \/ /\ reader[q].at = "hot" /\ hot[q] = None
            /\ GoesTo(q, "arch", reader[q].got, reader[q].failed)
         \/ /\ reader[q].at = "hot"
            /\ GoesTo(q, "arch", reader[q].got, TRUE)
         \/ /\ reader[q].at = "arch"
            /\ GoesTo(q, "done", Archived(q), reader[q].failed)
         \/ /\ reader[q].at = "arch"
            /\ GoesTo(q, "done", reader[q].got, TRUE)
  <1> DEFINE Held == SUBSET Parts
             Gets == [at : {"idle", "hot", "arch", "done"}, want : Held, got : Held, failed : BOOLEAN]
  <1>1. reader[q] \in Gets
    BY DEF TypeOK, Reader
  <1> HIDE DEF Held
  <1>2. ASSUME NEW got \in Held, NEW g, g = [reader[q] EXCEPT !.at = "done", !.got = got]
        PROVE  g = [at |-> "done", want |-> reader[q].want, got |-> got, failed |-> reader[q].failed]
    <2>1. g \in Gets /\ g.at = "done" /\ g.want = reader[q].want /\ g.got = got /\ g.failed = reader[q].failed
      BY <1>1, <1>2
    <2> QED
      BY <2>1
  <1>3. [reader[q] EXCEPT !.at = "arch"]
          = [at |-> "arch", want |-> reader[q].want, got |-> reader[q].got, failed |-> reader[q].failed]
    BY <1>1
  <1>4. ASSUME NEW at \in {"arch", "done"}, NEW g, g = [reader[q] EXCEPT !.at = at, !.failed = TRUE]
        PROVE  g = [at |-> at, want |-> reader[q].want, got |-> reader[q].got, failed |-> TRUE]
    <2>1. g \in Gets /\ g.at = at /\ g.want = reader[q].want /\ g.got = reader[q].got /\ g.failed
      BY <1>1, <1>4
    <2> QED
      BY <2>1
  <1>5. CASE ReadHot(q)
    <2>1. ASSUME hot[q] # None, reader' = [reader EXCEPT ![q].at = "done", ![q].got = hot[q].parts]
          PROVE  GoesTo(q, "done", hot[q].parts, reader[q].failed)
      <3>1. hot[q].parts \in Held
        BY <2>1, Rows DEF Row, Held
      <3> QED
        BY <1>2, <2>1, <3>1 DEF GoesTo
    <2>2. ASSUME reader' = [reader EXCEPT ![q].at = "arch"]
          PROVE  GoesTo(q, "arch", reader[q].got, reader[q].failed)
      BY <1>3, <2>2 DEF GoesTo
    <2>3. ASSUME reader' = [reader EXCEPT ![q].at = "arch", ![q].failed = TRUE]
          PROVE  GoesTo(q, "arch", reader[q].got, TRUE)
      BY <1>4, <2>3 DEF GoesTo
    <2> QED
      BY <1>5, <2>1, <2>2, <2>3 DEF ReadHot
  <1>6. CASE ReadArchive(q)
    <2>1. ASSUME reader' = [reader EXCEPT ![q].at = "done", ![q].got = Archived(q)]
          PROVE  GoesTo(q, "done", Archived(q), reader[q].failed)
      <3>1. Archived(q) \in Held
        BY Rows DEF Held
      <3> QED
        BY <1>2, <2>1, <3>1 DEF GoesTo
    <2>2. ASSUME reader' = [reader EXCEPT ![q].at = "done", ![q].failed = TRUE]
          PROVE  GoesTo(q, "done", reader[q].got, TRUE)
      BY <1>4, <2>2 DEF GoesTo
    <2> QED
      BY <1>6, <2>1, <2>2 DEF ReadArchive
  <1> QED
    BY <1>5, <1>6

\* A step that does not touch what is known of a request.
LEMMA DetailUntouched ==
  ASSUME NEW r \in Requests, DetailKept(r),
         mem'[r] = mem[r], hot'[r] = hot[r], arch'[r] = arch[r], stored'[r] = stored[r],
         cleaner' = cleaner, reader'[r] = reader[r],
         r \in ended => r \in ended', r \in excused => r \in excused'
  PROVE  DetailKept(r)'
  BY DEF DetailKept, Placed, Cleaned, Complete, Reading, Over, Absent

\* A Get that goes on keeps the invariant if what it now has is right.
LEMMA ReadStep ==
  ASSUME DetailInv, NEW q \in Requests,
         NEW at \in {"arch", "done"}, NEW got \in SUBSET Parts, NEW failed \in BOOLEAN,
         GoesTo(q, at, got, failed),
         reader[q].at \in {"hot", "arch"},
         UNCHANGED <<mem, hot, arch, archiveDB, stored, ended, excused, cleaner>>,
         at = "arch" => got = reader[q].got /\ (failed \/ hot[q] = None),
         at = "done" /\ q \notin excused => \/ reader[q].want \subseteq got
                                            \/ failed /\ got = {}
  PROVE  DetailInv'
  <1> DEFINE now == [at |-> at, want |-> reader[q].want, got |-> got, failed |-> failed]
  <1>1. reader' = [reader EXCEPT ![q] = now] /\ TypeOK
    BY DEF GoesTo, DetailInv
  <1>2. now \in Reader /\ now.at = at /\ now.want = reader[q].want /\ now.got = got /\ now.failed = failed
    <2>1. reader[q].want \in SUBSET Parts
      BY <1>1 DEF TypeOK, Reader
    <2> QED
      BY <2>1 DEF Reader
  <1> HIDE DEF now
  <1>3. reader'[q] = now /\ \A r \in Requests \ {q} : reader'[r] = reader[r]
    BY <1>1 DEF TypeOK
  <1>4. TypeOK'
    BY <1>1, <1>2 DEF TypeOK
  <1>5. ASSUME NEW r \in Requests PROVE DetailKept(r)'
    <2>1. CASE r # q
      BY <1>3, <2>1, DetailUntouched DEF DetailInv
    <2>2. CASE r = q
      <3>1. Placed(q)' /\ Cleaned(q)' /\ (q \notin excused => Complete(q)')
        BY DEF DetailInv, DetailKept, Placed, Cleaned, Complete, Over, Absent
      <3>2. ASSUME q \notin excused PROVE Reading(q)'
        <4>1. Reading(q)
          BY <3>2 DEF DetailInv, DetailKept
        <4> QED
          BY <1>2, <1>3, <3>2, <4>1 DEF Reading, Absent
      <3> QED
        BY <2>2, <3>1, <3>2 DEF DetailKept
    <2> QED
      BY <2>1, <2>2
  <1> QED
    BY <1>4, <1>5 DEF DetailInv

LEMMA DetailStep == DetailInv /\ [Next]_vars => DetailInv'
  <1> SUFFICES ASSUME DetailInv, [Next]_vars PROVE DetailInv'
    OBVIOUS
  <1> USE DetailAssumption
  <1>1. ASSUME NEW q \in Requests, NEW p \in Parts, StorePart(q, p) PROVE DetailInv'
    <2>1. TypeOK'
      BY <1>1 DEF DetailInv, TypeOK, StorePart, With, Parts, Entry, Absent
    <2>2. ASSUME NEW r \in Requests PROVE DetailKept(r)'
      <3>1. CASE r # q
        BY <1>1, <3>1, DetailUntouched DEF StorePart, DetailInv, TypeOK
      <3>2. CASE r = q
        <4>1. /\ mem'[q] = With(q, p) /\ stored'[q] = stored[q] \cup {p} /\ q \notin ended
              /\ UNCHANGED <<hot, arch, ended, cleaner, reader>>
              /\ excused' = IF stored[q] # {} /\ (Absent(q) \/ mem[q].idle) THEN excused \cup {q}
                                                                             ELSE excused
              /\ DetailKept(q)
          BY <1>1 DEF StorePart, DetailInv, TypeOK
        <4>2. /\ With(q, p).parts = (IF Absent(q) THEN {} ELSE mem[q].parts) \cup {p}
              /\ With(q, p) # None
          <5>1. With(q, p) \in Entry
            BY Rows DEF With, DetailInv, Entry, Absent
          <5> QED
            BY <5>1 DEF With
        <4>3. Placed(q)' /\ Cleaned(q)'
          BY <4>1, <4>2 DEF DetailKept, Placed, Cleaned, Over, Absent
        <4>4. ASSUME q \notin excused' PROVE Complete(q)' /\ Reading(q)'
          <5>1. q \notin excused /\ (stored[q] # {} => ~Absent(q) /\ ~mem[q].idle)
            BY <4>1, <4>4
          <5>2. Placed(q) /\ Cleaned(q) /\ Complete(q) /\ Reading(q)
            BY <4>1, <5>1 DEF DetailKept
          <5>3. hot[q] = None /\ arch[q] = None /\ cleaner.snap[q] = None
            BY <4>1, <5>1, <5>2 DEF Placed, Complete, Cleaned, Over, Absent
          <5>4. Complete(q)'
            BY <4>1, <4>2, <5>1, <5>2, <5>3 DEF Complete, Absent
          <5>5. reader[q].at \in {"hot", "arch"} => reader[q].want = {}
            BY <5>1, <5>2, <4>1 DEF Reading, DetailInv, TypeOK
          <5>6. Reading(q)'
            BY <4>1, <5>2, <5>5 DEF Reading
          <5> QED
            BY <5>4, <5>6
        <4> QED
          BY <3>2, <4>3, <4>4 DEF DetailKept
      <3> QED
        BY <3>1, <3>2
    <2> QED
      BY <2>1, <2>2 DEF DetailInv
  <1>2. ASSUME NEW q \in Requests, End(q) PROVE DetailInv'
    <2>1. TypeOK'
      BY <1>2 DEF DetailInv, TypeOK, End, Absent
    <2>2. ASSUME NEW r \in Requests PROVE DetailKept(r)'
      BY <1>2
         DEF DetailInv, TypeOK, End, DetailKept, Placed, Cleaned, Complete, Reading, Over,
             Absent
    <2> QED
      BY <2>1, <2>2 DEF DetailInv
  <1>3. ASSUME NEW q \in Requests, GoIdle(q) PROVE DetailInv'
    <2>1. TypeOK'
      BY <1>3, Rows DEF DetailInv, TypeOK, GoIdle, Absent
    <2>2. ASSUME NEW r \in Requests PROVE DetailKept(r)'
      <3>1. /\ mem'[r] # None <=> mem[r] # None
            /\ mem[r] # None => mem'[r].parts = mem[r].parts /\ (mem[r].idle => mem'[r].idle)
        <4>1. mem[q] # None /\ mem' = [mem EXCEPT ![q] = [mem[q] EXCEPT !.idle = TRUE]]
          BY <1>3 DEF GoIdle, Absent
        <4>2. [mem[q] EXCEPT !.idle = TRUE] \in Entry
          BY <4>1, Rows DEF DetailInv
        <4>3. mem'[q] # None /\ mem'[q].parts = mem[q].parts /\ (mem[q].idle => mem'[q].idle)
          BY <4>1, <4>2, Rows DEF DetailInv, TypeOK, Entry
        <4> QED
          BY <4>1, <4>3 DEF DetailInv, TypeOK
      <3> QED
        BY <1>3, <3>1
           DEF GoIdle, DetailInv, DetailKept, Placed, Cleaned, Complete, Reading, Over, Absent
    <2> QED
      BY <2>1, <2>2 DEF DetailInv
  <1>4. ASSUME NEW q \in Requests, GrowOld(q) PROVE DetailInv'
    <2>1. TypeOK'
      BY <1>4, Rows DEF DetailInv, TypeOK, GrowOld
    <2>2. ASSUME NEW r \in Requests PROVE DetailKept(r)'
      <3>1. CASE r # q
        BY <1>4, <3>1, DetailUntouched DEF GrowOld, DetailInv, TypeOK
      <3>2. CASE r = q
        <4>1. /\ hot[q] # None /\ hot'[q] = [hot[q] EXCEPT !.old = TRUE] /\ Over(q)
              /\ UNCHANGED <<mem, arch, stored, ended, excused, cleaner, reader>>
          BY <1>4 DEF GrowOld, Over, DetailInv, TypeOK
        <4>2. hot'[q] # None /\ hot'[q].parts = hot[q].parts /\ hot'[q].old
          BY <4>1, Rows DEF DetailInv, Row
        <4> QED
          BY <3>2, <4>1, <4>2
             DEF DetailInv, DetailKept, Placed, Cleaned, Complete, Reading, Over, Absent
      <3> QED
        BY <3>1, <3>2
    <2> QED
      BY <2>1, <2>2 DEF DetailInv
  <1>5. ASSUME Snapshot PROVE DetailInv'
    <2>1. TypeOK'
      BY <1>5 DEF DetailInv, TypeOK, Snapshot, CleanerAt, Entry, Absent
    <2>2. ASSUME NEW r \in Requests PROVE DetailKept(r)'
      BY <1>5
         DEF DetailInv, TypeOK, Snapshot, CleanerAt, Entry, DetailKept, Placed, Cleaned,
             Complete, Reading, Over, Absent
    <2> QED
      BY <2>1, <2>2 DEF DetailInv
  <1>6. ASSUME NEW q \in Requests, Persist(q) PROVE DetailInv'
    <2>0. cleaner.at = "persist" /\ q \in cleaner.left /\ cleaner.snap[q] # None
      BY <1>6 DEF Persist, DetailInv, DetailKept, Cleaned
    <2> TypeOK
      BY DEF DetailInv
    <2>a. /\ cleaner' \in [at : CleanerAt, snap : [Requests -> {None} \cup SUBSET Parts],
                           left : SUBSET Requests, saved : SUBSET Requests]
          /\ cleaner'.at = cleaner.at /\ cleaner'.snap = cleaner.snap
          /\ cleaner'.left = cleaner.left \ {q}
          /\ \/ hot' = [hot EXCEPT ![q] = Upsert(q, cleaner.snap[q])]
                /\ cleaner'.saved = cleaner.saved \cup {q}
             \/ hot' = hot /\ cleaner'.saved = cleaner.saved
      <3>1. CASE /\ hot' = [hot EXCEPT ![q] = Upsert(q, cleaner.snap[q])]
                 /\ cleaner' = [cleaner EXCEPT !.left = @ \ {q}, !.saved = @ \cup {q}]
        BY <3>1, Persisted
      <3>2. CASE cleaner' = [cleaner EXCEPT !.left = @ \ {q}] /\ hot' = hot
        BY <3>2, Persisted
      <3> QED
        BY <1>6, <3>1, <3>2 DEF Persist
    <2>b. UNCHANGED <<mem, arch, archiveDB, stored, ended, excused, reader>>
      BY <1>6 DEF Persist
    <2>1. TypeOK'
      <3>1. Upsert(q, cleaner.snap[q]) \in Row
        BY <2>0, Rows
      <3>2. hot' \in [Requests -> Row \cup {None}]
        BY <2>a, <3>1 DEF TypeOK
      <3> QED
        BY <2>a, <2>b, <3>2 DEF TypeOK
    <2>2. ASSUME NEW r \in Requests PROVE DetailKept(r)'
      <3>1. /\ cleaner'.at = "persist" /\ cleaner'.snap = cleaner.snap
            /\ cleaner'.left \subseteq cleaner.left
            /\ UNCHANGED <<mem, arch, stored, ended, excused, reader>>
        BY <2>0, <2>a, <2>b
      <3>2. \/ hot'[r] = hot[r] /\ (r \in cleaner'.saved => r \in cleaner.saved)
            \/ r = q /\ hot'[r] = Upsert(q, cleaner.snap[q])
        BY <2>a DEF TypeOK
      <3>3. /\ Upsert(q, cleaner.snap[q]) # None
            /\ Upsert(q, cleaner.snap[q]).parts = cleaner.snap[q] /\ ~Upsert(q, cleaner.snap[q]).old
        BY <2>0, Rows DEF DetailInv, Upsert
      <3>4. DetailKept(r)
        BY DEF DetailInv
      <3>5. CASE hot'[r] = hot[r] /\ (r \in cleaner'.saved => r \in cleaner.saved)
        BY <2>0, <3>1, <3>4, <3>5 DEF DetailKept, Placed, Cleaned, Complete, Reading, Over, Absent
      <3>6. CASE r = q /\ hot'[r] = Upsert(q, cleaner.snap[q])
        BY <2>0, <3>1, <3>3, <3>4, <3>6
           DEF DetailKept, Placed, Cleaned, Complete, Reading, Over, Absent
      <3> QED
        BY <3>2, <3>5, <3>6
    <2> QED
      BY <2>1, <2>2 DEF DetailInv
  <1>7. ASSUME RemoveSaved PROVE DetailInv'
    <2>1. TypeOK'
      BY <1>7 DEF DetailInv, TypeOK, RemoveSaved, Asleep, CleanerAt, Absent
    <2>2. ASSUME NEW r \in Requests PROVE DetailKept(r)'
      BY <1>7
         DEF DetailInv, TypeOK, RemoveSaved, Asleep, CleanerAt, DetailKept, Placed, Cleaned,
             Complete, Reading, Over, Absent
    <2> QED
      BY <2>1, <2>2 DEF DetailInv
  <1>8. ASSUME SkipArchive PROVE DetailInv'
    <2>1. TypeOK'
      BY <1>8 DEF DetailInv, TypeOK, SkipArchive, Asleep, CleanerAt, Absent
    <2>2. ASSUME NEW r \in Requests PROVE DetailKept(r)'
      BY <1>8
         DEF DetailInv, TypeOK, SkipArchive, Asleep, CleanerAt, DetailKept, Placed, Cleaned,
             Complete, Reading, Over, Absent
    <2> QED
      BY <2>1, <2>2 DEF DetailInv
  <1>9. ASSUME CopyBatch PROVE DetailInv'
    <2>1. TypeOK'
      <3>1. PICK batch \in SUBSET OldRows \ {{}} :
              /\ arch' = [r \in Requests |->
                            IF r \in batch /\ arch[r] = None THEN hot[r].parts ELSE arch[r]]
              /\ cleaner' = [Asleep EXCEPT !.at = "copied", !.left = batch]
        BY <1>9 DEF CopyBatch
      <3>2. \A r \in OldRows : r \in Requests /\ hot[r].parts \in SUBSET Parts
        BY Rows DEF OldRows, DetailInv, Row
      <3>3. arch' \in [Requests -> {None} \cup SUBSET Parts]
        BY <3>1, <3>2 DEF DetailInv, TypeOK
      <3> QED
        BY <1>9, <3>1, <3>2, <3>3 DEF CopyBatch, DetailInv, TypeOK, Asleep, CleanerAt
    <2>2. ASSUME NEW r \in Requests PROVE DetailKept(r)'
      BY <1>9
         DEF DetailInv, TypeOK, CopyBatch, Asleep, CleanerAt, OldRows, Row, DetailKept, Placed,
             Cleaned, Complete, Reading, Over, Absent
    <2> QED
      BY <2>1, <2>2 DEF DetailInv
  <1>10. ASSUME DeleteBatch PROVE DetailInv'
    <2>1. TypeOK'
      BY <1>10 DEF DetailInv, TypeOK, DeleteBatch, Asleep, CleanerAt, Absent
    <2>2. ASSUME NEW r \in Requests PROVE DetailKept(r)'
      BY <1>10
         DEF DetailInv, TypeOK, DeleteBatch, Asleep, CleanerAt, DetailKept, Placed, Cleaned,
             Complete, Reading, Over, Absent
    <2> QED
      BY <2>1, <2>2 DEF DetailInv
  <1>11. ASSUME NEW q \in Requests, ReadMemory(q) PROVE DetailInv'
    <2>1. TypeOK'
      BY <1>11 DEF DetailInv, TypeOK, ReadMemory, Promised, Entry, Absent, NotReading, Reader
    <2>2. ASSUME NEW r \in Requests PROVE DetailKept(r)'
      BY <1>11
         DEF DetailInv, TypeOK, ReadMemory, Promised, NotReading, Reader, Entry, DetailKept, Placed, Cleaned,
             Complete, Reading, Over, Absent
    <2> QED
      BY <2>1, <2>2 DEF DetailInv
  <1>12. ASSUME NEW q \in Requests, ReadHot(q) \/ ReadArchive(q) PROVE DetailInv'
    <2>1. UNCHANGED <<mem, hot, arch, archiveDB, stored, ended, excused, cleaner>>
      BY <1>12 DEF ReadHot, ReadArchive
    <2>2. TypeOK /\ reader[q] \in Reader /\ Archived(q) \in SUBSET Parts
      BY Rows DEF DetailInv, TypeOK
    <2>3. reader[q].got \in SUBSET Parts /\ reader[q].failed \in BOOLEAN
      BY <2>2 DEF Reader
    <2>4. q \notin excused => Complete(q) /\ Reading(q)
      BY DEF DetailInv, DetailKept
    <2>5. CASE /\ reader[q].at = "hot" /\ hot[q] # None
               /\ GoesTo(q, "done", hot[q].parts, reader[q].failed)
      <3>1. hot[q].parts \in SUBSET Parts
        BY <2>2, <2>5, Rows DEF Row
      <3>2. q \notin excused => reader[q].want \subseteq hot[q].parts
        BY <2>4, <2>5 DEF Complete, Reading
      <3> QED
        BY <2>1, <2>3, <2>5, <3>1, <3>2, ReadStep
    <2>6. CASE /\ reader[q].at = "hot" /\ hot[q] = None
               /\ GoesTo(q, "arch", reader[q].got, reader[q].failed)
      BY <2>1, <2>3, <2>6, ReadStep
    <2>7. CASE reader[q].at = "hot" /\ GoesTo(q, "arch", reader[q].got, TRUE)
      BY <2>1, <2>3, <2>7, ReadStep
    <2>8. CASE reader[q].at = "arch" /\ GoesTo(q, "done", Archived(q), reader[q].failed)
      <3>1. q \notin excused => \/ reader[q].want \subseteq Archived(q)
                                \/ reader[q].failed /\ Archived(q) = {}
        BY <2>4, <2>8 DEF Complete, Reading, Archived, Absent
      <3> QED
        BY <2>1, <2>2, <2>3, <2>8, <3>1, ReadStep
    <2>9. CASE reader[q].at = "arch" /\ GoesTo(q, "done", reader[q].got, TRUE)
      <3>1. q \notin excused => reader[q].got = {}
        BY <2>4, <2>9 DEF Reading
      <3> QED
        BY <2>1, <2>3, <2>9, <3>1, ReadStep
    <2> QED
      BY <2>2, <2>5, <2>6, <2>7, <2>8, <2>9, <1>12, Reads
  <1>13. ASSUME NEW q \in Requests, ReturnDetail(q) PROVE DetailInv'
    <2>1. TypeOK'
      BY <1>13 DEF DetailInv, TypeOK, ReturnDetail, NotReading, Reader, Absent
    <2>2. ASSUME NEW r \in Requests PROVE DetailKept(r)'
      BY <1>13
         DEF DetailInv, TypeOK, ReturnDetail, NotReading, Reader, DetailKept, Placed, Cleaned, Complete,
             Reading, Over, Absent
    <2> QED
      BY <2>1, <2>2 DEF DetailInv
  <1>14. ASSUME Crash PROVE DetailInv'
    <2>1. TypeOK'
      BY <1>14 DEF DetailInv, TypeOK, Crash, Asleep, CleanerAt, NotReading, Reader, Absent
    <2>2. ASSUME NEW r \in Requests PROVE DetailKept(r)'
      BY <1>14
         DEF DetailInv, TypeOK, Crash, Asleep, CleanerAt, NotReading, Reader, DetailKept, Placed,
             Cleaned, Complete, Reading, Over, Absent
    <2> QED
      BY <2>1, <2>2 DEF DetailInv
  <1>15. CASE UNCHANGED vars
    <2>1. TypeOK'
      BY <1>15 DEF DetailInv, TypeOK, vars, Absent
    <2>2. ASSUME NEW r \in Requests PROVE DetailKept(r)'
      BY <1>15
         DEF DetailInv, TypeOK, vars, DetailKept, Placed, Cleaned, Complete, Reading, Over,
             Absent
    <2> QED
      BY <2>1, <2>2 DEF DetailInv
  <1> QED
    BY <1>1, <1>2, <1>3, <1>4, <1>5, <1>6, <1>7, <1>8, <1>9, <1>10, <1>11, <1>12, <1>13, <1>14, <1>15
       DEF Next, Request, Cleanup, Get

LEMMA DetailInvariant == Spec => []DetailInv
  BY DetailInitially, DetailStep, PTL DEF Spec

\* The types, for any number of requests.
THEOREM TypeCorrect == Spec => []TypeOK
  <1>1. DetailInv => TypeOK
    BY DEF DetailInv
  <1> QED
    BY DetailInvariant, <1>1, PTL

\* Get returns what had been stored when it started, wherever the cleaner was moving it,
\* and says "not found" of it only if one of its own queries failed or the archive could
\* not be opened (RequestDetailStore.Get against cleanup and archiveOldDetails).
THEOREM StoredIsFound == Spec => []GetFindsStored
  <1>1. DetailInv => GetFindsStored
    BY DEF DetailInv, DetailKept, Reading, GetFindsStored
  <1> QED
    BY DetailInvariant, <1>1, PTL

\* archiveOldDetails deletes a row only when the archive holds the same parts, whatever
\* failed or stopped before.
THEOREM OnlyCopiesDeleted == Spec => ArchiveKeeps
  <1>1. ASSUME DetailInv, [Next]_vars, NEW r \in Requests, hot[r] # None, hot'[r] = None
        PROVE  arch[r] = hot[r].parts
    <2>1. CASE DeleteBatch
      BY <1>1, <2>1 DEF DeleteBatch, DetailInv, TypeOK, DetailKept, Placed, Cleaned
    <2>2. ASSUME NEW q \in Requests, Persist(q) PROVE FALSE
      <3>1. Upsert(q, cleaner.snap[q]) # None
        BY <2>2, <1>1, Rows, DetailAssumption DEF Persist, DetailInv, DetailKept, Cleaned
      <3> QED
        BY <1>1, <2>2, <3>1 DEF Persist, DetailInv, TypeOK
    <2>3. ASSUME NEW q \in Requests, GrowOld(q) PROVE FALSE
      <3>1. [hot[q] EXCEPT !.old = TRUE] # None
        <4>1. hot[q] # None /\ TypeOK
          BY <1>1, <2>3 DEF GrowOld, DetailInv
        <4>2. [hot[q] EXCEPT !.old = TRUE] \in Row
          BY <4>1, Rows
        <4> QED
          BY <4>2, DetailAssumption
      <3> QED
        BY <1>1, <2>3, <3>1 DEF GrowOld, DetailInv, TypeOK
    <2>4. DeleteBatch \/ hot' = hot
      BY <1>1, <2>2, <2>3 DEF Next, Request, Cleanup, Get, vars, StorePart, End, GoIdle, Snapshot,
           RemoveSaved, SkipArchive, CopyBatch, ReadMemory, ReadHot, ReadArchive, ReturnDetail, Crash
    <2> QED
      BY <1>1, <2>1, <2>4
  <1>2. DetailInv /\ [Next]_vars =>
          [\A r \in Requests : hot[r] # None /\ hot'[r] = None => arch[r] = hot[r].parts]_vars
    BY <1>1
  <1> QED
    BY DetailInvariant, <1>2, PTL DEF Spec, ArchiveKeeps
=============================================================================
