-------------------------------- MODULE Schema --------------------------------
(***************************************************************************)
(* How the database is brought to the current schema each time it is opened *)
(* (internal/database/sqlite.go): createTables makes what does not exist,   *)
(* runMigrations then takes the named migrations in order, each of them     *)
(*   asked for in schema_migrations -> its statements one by one -> marked, *)
(* outside any transaction, and on SQLite migrateTimestampsToUTC rewrites   *)
(* the old timestamps.  The process may stop between any two statements and *)
(* takes the whole of it again when it starts.                              *)
(*                                                                          *)
(* The migrations below are one or two of each kind the code has; the       *)
(* others differ in the table, column or index they name.                   *)
(***************************************************************************)
EXTENDS Naturals, Sequences

CONSTANT Tokens      \* the rows of user_proxy_tokens, the table API keys had before

VARIABLES
    dbType,          \* "sqlite" or "postgres"
    db,              \* what the database holds, see Oldest
    marks,           \* schema_migrations
    deleted,         \* history: the keys their owners have deleted
    boot             \* where the opening has got to: [at, todo], see below

schemaVars == <<dbType, db, marks, deleted, boot>>

Stamps == {"users.created_at", "channels.created_at"}
Micros == {"cost_micros", "charged_balance_micros"}

\* A database of the oldest version: no column that a migration adds, the
\* legacy column (pinned if something refers to it, so that it cannot be
\* dropped), the old tokens and timestamps with an offset.
Oldest ==
    [tables  |-> TRUE, tokenTable |-> TRUE, pinned |-> FALSE, columns |-> {"group_id"}, bigint |-> {},
     indexes |-> {}, config |-> {}, keys |-> {}, offset |-> Stamps]

\* A database in which nothing has been created yet.
Empty ==
    [tables  |-> FALSE, tokenTable |-> FALSE, pinned |-> FALSE, columns |-> {}, bigint |-> {},
     indexes |-> {}, config |-> {}, keys |-> {}, offset |-> {}]

(***************************************************************************)
(* Statements.  Each has an error, which leaves the database as it was, or  *)
(* an effect.  IF [NOT] EXISTS and ON CONFLICT statements have no error.    *)
(***************************************************************************)
AddColumn(c)  == [do |-> "add column", on |-> c]
DropColumn(c) == [do |-> "drop column", on |-> c]
CreateIndex(i) == [do |-> "create index if not exists", on |-> i]
DropIndex(i)  == [do |-> "drop index if exists", on |-> i]
Widen(c)      == [do |-> "alter column type bigint", on |-> c]
CopyTokens    == [do |-> "insert keys where not exists", on |-> "user_api_keys"]
Default       == [do |-> "insert on conflict do nothing", on |-> "retention_days"]
Rename        == [do |-> "update where not exists", on |-> "archive_days"]

Error(s, d) ==
    CASE s.do = "add column" /\ s.on \in d.columns     -> "duplicate column name"
      [] s.do = "drop column" /\ s.on \notin d.columns -> "no such column"
      [] s.do = "drop column" /\ d.pinned              -> "cannot drop column"
      [] s = CopyTokens /\ ~d.tokenTable               -> "no such table"
      [] OTHER                                         -> "none"

Effect(s, d) ==
    CASE s.do = "add column"  -> [d EXCEPT !.columns = @ \cup {s.on}]
      [] s.do = "drop column" -> [d EXCEPT !.columns = @ \ {s.on}]
      [] s.do = "create index if not exists" -> [d EXCEPT !.indexes = @ \cup {s.on}]
      [] s.do = "drop index if exists"       -> [d EXCEPT !.indexes = @ \ {s.on}]
      [] s.do = "alter column type bigint"   -> [d EXCEPT !.bigint = @ \cup {s.on}]
      [] s = CopyTokens -> [d EXCEPT !.keys = @ \cup Tokens]
      [] s = Default    -> [d EXCEPT !.config = @ \cup {"retention_days"}]
      [] s = Rename     ->
            IF "retention_days" \in d.config /\ "archive_days" \notin d.config
            THEN [d EXCEPT !.config = (@ \ {"retention_days"}) \cup {"archive_days"}] ELSE d

Migrations ==
    <<"add_api_key_column", "migrate_proxy_tokens", "add_request_logs_status_index",
      "create_user_groups_indexes", "add_group_rate_multiplier",
      "add_request_detail_retention_default", "rename_retention_to_archive_days",
      "postgres_widen_request_logs_micros_columns", "drop_legacy_users_group_id",
      "drop_redundant_indexes">>

\* adaptMigrationSQL empties the widening migrations on SQLite.
Statements(m, type) ==
    CASE m = "add_api_key_column"            -> <<AddColumn("api_key")>>
      [] m = "migrate_proxy_tokens"          -> <<CopyTokens>>
      [] m = "add_request_logs_status_index" -> <<CreateIndex("request_logs_status")>>
      [] m = "create_user_groups_indexes"    -> <<CreateIndex("user_groups_user"), CreateIndex("user_groups_group")>>
      [] m = "add_group_rate_multiplier"     -> <<AddColumn("rate_multiplier")>>
      [] m = "add_request_detail_retention_default" -> <<Default>>
      [] m = "rename_retention_to_archive_days"     -> <<Rename>>
      [] m = "postgres_widen_request_logs_micros_columns" ->
            IF type = "postgres" THEN <<Widen("cost_micros"), Widen("charged_balance_micros")>> ELSE <<>>
      [] m = "drop_legacy_users_group_id"    -> <<DropColumn("group_id")>>
      [] m = "drop_redundant_indexes"        ->
            <<DropIndex("user_groups_user"), DropIndex("request_logs_status")>>

\* Mutant: a column that is there already is an error.
IgnoredAbsent(m, e) ==
    \/ m = "migrate_proxy_tokens" /\ e \in {"no such table", "no such column"}
    \/ m = "drop_legacy_users_group_id" /\ e \in {"no such column", "cannot drop column"}

\* shouldIgnoreMigrationError
Ignored(m, e) ==
    \/ e = "duplicate column name"
    \/ m = "migrate_proxy_tokens" /\ e \in {"no such table", "no such column"}
    \/ m = "drop_legacy_users_group_id" /\ e \in {"no such column", "cannot drop column"}

(***************************************************************************)
(* The databases that exist when the history begins: an empty one, or one   *)
(* on which an older version has applied the first w migrations and marked  *)
(* the first v (it may have stopped in between, or be older than the marks).*)
(***************************************************************************)
AfterFirst(w, tokenTable, pinned, type) ==
    [tables  |-> TRUE, tokenTable |-> tokenTable, pinned |-> pinned,
     columns |-> { c \in {"group_id", "api_key", "rate_multiplier"} :
                     /\ c = "api_key" => w >= 1
                     /\ c = "rate_multiplier" => w >= 5
                     /\ c = "group_id" => w < 9 \/ pinned },
     indexes |-> { i \in {"request_logs_status", "user_groups_user", "user_groups_group"} :
                     /\ w >= IF i = "request_logs_status" THEN 3 ELSE 4
                     /\ i # "user_groups_group" => w < 10 },
     keys    |-> IF tokenTable /\ w >= 2 THEN Tokens ELSE {},
     config  |-> IF w >= 7 THEN {"archive_days"} ELSE IF w = 6 THEN {"retention_days"} ELSE {},
     bigint  |-> IF type = "postgres" /\ w >= 8 THEN Micros ELSE {},
     offset  |-> Stamps]

Opening == [at |-> 0, todo |-> <<>>]   \* at 0: the tables; then migration "at"
Stampings == Len(Migrations) + 1       \* after them: the timestamps

OldDatabase ==
    \E w \in 0..Len(Migrations), tokenTable, pinned \in BOOLEAN : \E v \in 0..w :
        /\ db = AfterFirst(w, tokenTable, pinned, dbType)
        /\ marks = {Migrations[i] : i \in 1..v}

SchemaInit ==
    /\ dbType \in {"sqlite", "postgres"}
    /\ (db = Empty /\ marks = {}) \/ OldDatabase
    /\ deleted = {}
    /\ boot = Opening

(***************************************************************************)
(* Opening.  at is the migration in hand, todo the statements it still has  *)
(* to run; CreateTables stands for a run of IF NOT EXISTS statements, which *)
(* makes the columns of the current schema in the tables it creates.        *)
(***************************************************************************)
Check == [do |-> "select", on |-> "schema_migrations"]
Mark == [do |-> "insert", on |-> "schema_migrations"]

InHand == Migrations[boot.at]
AtMigration == boot.at \in 1..Len(Migrations)
Enter(n) == [at |-> n, todo |-> IF n \in 1..Len(Migrations)
                                THEN <<Check>> \o Statements(Migrations[n], dbType) \o <<Mark>>
                                ELSE <<>>]

CreateTables ==
    /\ boot.at = 0
    /\ db' = IF db.tables THEN db
             ELSE [db EXCEPT !.tables = TRUE, !.columns = {"api_key"}, !.bigint = Micros]
    /\ boot' = Enter(1)
    /\ UNCHANGED <<dbType, marks, deleted>>

\* Mutant: a migration is marked before its statements run.
CheckAndMark ==
    /\ AtMigration /\ Head(boot.todo) = Check
    /\ boot' = IF InHand \in marks THEN Enter(boot.at + 1) ELSE [boot EXCEPT !.todo = Tail(@)]
    /\ marks' = marks \cup {InHand}
    /\ UNCHANGED <<dbType, db, deleted>>

\* isMigrationApplied
CheckApplied ==
    /\ AtMigration /\ Head(boot.todo) = Check
    /\ boot' = IF InHand \in marks THEN Enter(boot.at + 1) ELSE [boot EXCEPT !.todo = Tail(@)]
    /\ UNCHANGED <<dbType, db, marks, deleted>>

\* The first error ends the statements of a migration; if it is one to ignore
\* the migration is marked all the same.
ExecStatement ==
    /\ AtMigration /\ Head(boot.todo) \notin {Check, Mark}
    /\ LET s == Head(boot.todo)  e == Error(s, db) IN
        \/ /\ e = "none"
           /\ db' = Effect(s, db)
           /\ boot' = [boot EXCEPT !.todo = Tail(@)]
        \/ /\ e # "none" /\ Ignored(InHand, e)
           /\ boot' = [boot EXCEPT !.todo = <<Mark>>]
           /\ UNCHANGED db
    /\ UNCHANGED <<dbType, marks, deleted>>

\* Mutant: nothing is marked.
MarkedNot(m) == marks

\* markMigrationApplied
Marked(m) == marks \cup {m}

MarkApplied ==
    /\ AtMigration /\ Head(boot.todo) = Mark
    /\ marks' = Marked(InHand)
    /\ boot' = Enter(boot.at + 1)
    /\ UNCHANGED <<dbType, db, deleted>>

\* The column of one table in a transaction; the key that tells it has been
\* done is written at the end.
ConvertTimestamps ==
    /\ boot.at = Stampings /\ dbType = "sqlite" /\ "timestamps_utc" \notin db.config
    /\ db' = IF db.offset = {} THEN [db EXCEPT !.config = @ \cup {"timestamps_utc"}]
             ELSE [db EXCEPT !.offset = @ \ {CHOOSE c \in @ : TRUE}]
    /\ UNCHANGED <<dbType, marks, deleted, boot>>

Opened == boot.at = Stampings /\ (dbType = "sqlite" => "timestamps_utc" \in db.config)

\* The next statement's error is not one to ignore.
Refused ==
    /\ AtMigration /\ Head(boot.todo) \notin {Check, Mark}
    /\ Error(Head(boot.todo), db) # "none" /\ ~Ignored(InHand, Error(Head(boot.todo), db))

\* A user deletes an API key (any time after the start); 404 if it is gone.
DeleteKey ==
    \E k \in Tokens : /\ db' = [db EXCEPT !.keys = @ \ {k}]
                      /\ deleted' = deleted \cup (db.keys \cap {k})
                      /\ UNCHANGED <<dbType, marks, boot>>

OpenStep == CreateTables \/ CheckApplied \/ ExecStatement \/ MarkApplied \/ ConvertTimestamps

(***************************************************************************)
(* The current schema with the data kept.                                   *)
(***************************************************************************)
Migrated ==
    /\ {"api_key", "rate_multiplier"} \subseteq db.columns /\ ("group_id" \notin db.columns \/ db.pinned)
    /\ db.indexes \cap {"user_groups_user", "request_logs_status"} = {}
    /\ dbType = "postgres" => db.bigint = Micros
    /\ dbType = "sqlite" => db.offset = {}
    /\ "archive_days" \in db.config
    /\ db.tokenTable => Tokens \subseteq db.keys \cup deleted
=============================================================================
