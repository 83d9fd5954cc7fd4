# AMP-Manager: a TLA+ verification project

AMP-Manager is a Go service that proxies the requests of Amp clients to upstream model
providers ("channels"). It authenticates users by API key, routes each request to a channel,
logs the request and its details, bills its cost to a subscription or to a prepaid balance,
and shows all of it to administrators, partly live over a WebSocket. It runs as one process
over SQLite or PostgreSQL and lets an administrator change the database while it runs.

This directory holds the TLA+ modules that model the parts of it in which the order of steps
matters, the TLC configurations that check them, and TLAPS proofs about billing, subscriptions,
accounts, request details, the live log, routing, proxied calls with their retries, the switch of the
database, its schema, settings and prices.
`PROJECT.json` says which lines of the source each definition stands for.

## 1. Inventory

Paths are relative to `src/internal/`. A property in *italics* is one this project states; the
others belong to the plan (section 3).

| component | state it keeps | operations | what makes it correct |
|---|---|---|---|
| **Billing** `service/billing.go`, `service/quota.go`, `repository/billing_event.go` | `users.balance_micros`, `user_billing_settings`, `billing_events`, the billing columns of `request_logs`; none in memory | `CanStartRequest` before a request, `SettleRequestCost` after it, in a transaction; top-up, change of priority | *the charges on a row are those of the events; nothing is debited twice or below zero; no window exceeds its limit; overuse only when the balance is used up; each settlement is one indivisible charge; every settlement ends* |
| **Subscriptions** `service/user_subscription.go`, `service/subscription_plan.go` | `subscription_plans`, `subscription_plan_limits`, `user_subscriptions` with a unique index on the active row of a user | Assign (transaction), Cancel, UpdateExpiry, plan Create / Update / SetEnabled / Delete | *at most one in force per user; its plan exists; a cancelled one never comes back* |
| **Request detail store** `amp/request_detail_store.go` | a map of details in memory, table `request_log_details`, archive database | Update* from the request's goroutine, `cleanup` and `archiveOldDetails` from a ticker, `Get` from a handler, Stop, Reinit | *what was stored is found wherever it is, unless a query fails; nothing leaves the table without a copy; memory drains* |
| **Request log** `amp/log_writer.go`, `amp/request_trace.go`, `amp/pending_cleaner.go` | table `request_logs`, the trace of each running request | pending insert, update or complete insert at the end, cleanup of rows pending too long, Stop, Reinit | *a result is never overwritten; no row stays pending* |
| **Realtime hub** `realtime/hub.go`, `realtime/client.go` | clients, three buffered channels, one per client | Register, Unregister, NotifyLogCompleted (dropped when full), fetch, broadcast (skipped when full) | *a client that missed nothing shows the row as it is* |
| **Database handle and switch** `database/`, `handler/system.go`, `handler/system_database_tasks.go` | the global handle, its options, the task slot, the handles that writer, store and cleaner hold | Init, upload, restore, migrate, switch, dump | *after an exchange that went well all components use the handle in force; one task at a time, which ends; results that were logged survive rollback and switch* |
| **Channel router** `amp/channel_router.go` | per request only | select a channel, translate, proxy, end in one of many ways | every request that was sent ends its log row (the ends are in `RequestLog`) |
| **Channel selection and groups** `service/channel.go`, `repository/group.go` | `channels`, `groups`, `channel_groups`, `user_groups`, a round-robin counter per model | select by model, group, priority tier and counter; check a bound channel; edits in several statements | *only channels that are enabled, match and are open to the user's groups; always the best tier; a bound channel that is usable is used; requests are spread evenly while the candidates stay* |
| **Retry transport** `amp/retry_transport.go` | its configuration; per request the cached body | attempts with back-off, gate on the first byte | *a connection that is given up is closed; the attempts end* |
| **Stream wrappers** `amp/sse_concurrency_retry.go`, `amp/pseudo_non_stream.go`, `amp/stream_handler.go`, `amp/openai_responses_sse_aggregate.go`, `amp/response_middleware.go` | per response: staged frames, buffers, retry counts, closed flags, a ticker | Read, Close, retry, audit, keep-alive | *the client gets one attempt's frames, in order, once; nothing is asked again once it has seen one; what is billed is what was served* |
| **Price store** `billing/price_store.go` | prices and ETag in memory, `model_prices` | load, seed, refresh from LiteLLM at the start, by a ticker and by hand | *the ETag is that of the list in memory; refreshes that overlap come to the latest list at last* |
| **Amp upstream proxy** `amp/proxy.go`, `amp/routes.go` | per request; the retry and timeout configurations | Director, transport, ModifyResponse, ErrorHandler | as for the router; *the configuration in memory is the saved one, and so is that of a transport made with it* |
| **Model mapping** `amp/model_mapping.go` | mappings as JSON in the settings | replace the model, bind a channel | *the router serves the channel and model a mapping has bound* |
| **Translation, rewriting** `translator/`, `opencc/`, `amp/token_extractor.go` | none that is shared | conversions of JSON and text | not a matter of state |
| **Accounts, keys, authentication** `service/user.go`, `service/amp.go`, `middleware/auth.go`, `amp/middleware.go` | `users`, `user_api_keys`, `user_amp_settings`; signed tokens; token buckets per key | Register, Login, changes of password, name, flag, settings and keys, DeleteUser | *names are unique and no row outlives its user; only those entitled change an account; a form left empty keeps the stored key* |
| **Start and schema** `cmd/server/main.go`, `database/sqlite.go`, `amp/proxy.go`, `handler/system.go` | `schema_migrations`, `system_config` and the settings in memory | create tables, run migrations, convert timestamps, fill prices, load settings, serve | *the schema is complete whenever the server serves; nothing deleted comes back; a start that was broken off can be taken up* |
| **Reporting, HTTP API, web front end** | none | queries and pages | read only |

How they interact, in the order of a request: `BillingCheckMiddleware` asks billing
(`CanStartRequest`); the model mapping may replace the model and bind a channel; the router takes that channel or selects one, writes the pending row and the request
details, and sends the request through the retry transport; `ModifyResponse` wraps the body in
the stream wrappers and, outermost of those that log, `LoggingBodyWrapper`. When the body is
closed, that wrapper computes the cost, **calls `SettleRequestCost`, which updates the row in its
own transaction, and then `UpdateFromTrace`, which updates other columns of the same row** and
notifies the hub. The pending cleaner, the detail store's cleaner, the hub, the price refresh and
administrators' handlers run concurrently with all of it and share only the database and the
objects named above. `main`'s deferred stops never run (the server ends by a signal or by
`log.Fatal`), so in the models a stop of the process is always a crash.

What is hard: settlements of one user that interleave under two different isolation levels; a
check before the request and a charge long after it; windows that turn in between; rows and
entries that two goroutines move or overwrite; bounded channels that drop; a process that stops
between two steps; a database that is exchanged under running requests; a choice made from several
reads while what they read is edited. `PROJECT.json` lists
each of these hazards at its line, with the properties that would see it go wrong.

## 2. The modules

| module | models | proofs |
|---|---|---|
| `Charge` | the division of a cost between two sources, as an operator | |
| `Ledger` | the abstract specification of billing: accounts that are only topped up or charged, each charge one step | |
| `Billing` | admission, settlement over SQLite or PostgreSQL, log row, administrators, time, crash | `BillingProofs` |
| `Subscriptions` | plans and subscriptions under concurrent administrators | `SubscriptionsProofs` |
| `DetailStore` | memory, table and archive of request details, cleaner, reader, crash | `ServerProofs` |
| `RequestLog` | the row of a request, every way a request ends, the cleaner, restart | |
| `LiveLog` | composes `RequestLog` with the hub, its channels and WebSocket clients | `LiveLogProofs` |
| `DatabaseSwitch` | the handle in force and those the components hold, while uploads, restores and migration tasks exchange the database and requests log | `DatabaseSwitchProofs` |
| `Routing` | mapping, the two checks of a bound channel, selection of a channel, while administrators edit channels, groups and memberships | `RoutingProofs` |
| `Attempts` | a client's call and the requests sent upstream for it: connections, bodies, frames | |
| `RetryTransport` | extends it with `RoundTrip` of the amp proxy's transport | |
| `StreamRelay` | extends it with the layers a response passes: retry of a stream, token extraction, buffers, audit, copy to the client | |
| `ProxiedCall` | composes the two with the handlers of both proxies, keep-alives, the client who may leave and an administrator | `ProxiedCallProofs` |
| `Accounts` | users, tokens, API keys and Amp settings under concurrent calls, deletion and restart | `AccountsProofs` |
| `Schema` | creation and migrations of the schema, statement by statement | |
| `Settings` | a setting in the table and in memory | |
| `Prices` | the price store and its refreshes | |
| `Server` | composes the three: the process from its start to its end, killed and started again | `ServerProofs`, also of what `Schema`, `Settings` and `Prices` promise |
| `MC*` | instances for TLC | |

### Billing

`balance`, `primary`, `active`, `limits`, `event` and `row` are tables (one column or row each, see
the comments at the VARIABLES); `pc`, `cost` and `tx` are the goroutine that serves a request and
the locals of `SettleRequestCost`. `CheckQuota` and `CheckBalance` are the two phases of
`CanStartRequest` (an error lets the request through, as the middleware does); `WritePending` the
insert of the row; `Finish` the computation of the cost; then the settlement; then `WriteLog`.

The two databases differ in what a settlement may see. SQLite begins its transaction deferred: all
its SELECTs are one snapshot (`ReadSnapshot`), its first write is refused when another connection
has committed since (`stale`) or holds the write lock. `database/sqlite.go` sets no
`_txlock`, and the settlement holds no lock before its first write. PostgreSQL's default is READ
COMMITTED: the four reads are four actions, and only the UPDATE of the user's row waits for another
transaction (`UserRowFree`). `Commit` is one action in both: nothing of a transaction is seen before
it commits, the statements before it read nothing, and `locked` is the interval in which it
excludes others. `Rollback` is the failure of any statement; its callers log it and go on.

Amounts are micro-dollars cut to `0..MaxMicros`; time is cut to units such that window lengths are
whole numbers of them, and a window is `fixed`, `sliding` or `total` as in `GetWindowBounds`.

### Ledger

What billing promises from outside: `Deposit`, `Prefer` and `ChargeRequest`, which divides the
cost of one request over both sources, the primary first, and takes from the balance exactly what
it records. `Billing!ImplementsLedger` is `Ledger!Spec` with `charged` mapped to the billing events.
Over PostgreSQL it does not hold: the split is computed from a balance read earlier, and the debit
is floored at zero.

### Subscriptions

Each administrator's call is `Check`/`Find`, perhaps a second read, and a write; another call may
come between any two. What the database enforces is in `FreeSlot` (the unique index on active
rows) and `InUse` (the foreign key ON DELETE RESTRICT). The index sees rows with status
'active', the queries also compare `expires_at`; the difference is why an expired subscription
blocks the deletion of its plan, with an error that says the subscription is active.

### DetailStore

`mem`, `hot` and `arch` are the three places of a detail. The cleaner goes through `Snapshot`
(under the read lock), `Persist` per entry (no lock), `RemoveSaved` (under the lock), then
`CopyBatch` (the archive's transaction) and `DeleteBatch`; `Get` reads the three places in three
steps. Any query of `Get` may fail, which it takes for "no row", and `archiveDB` says whether this process could
open the archive: without it nothing is archived, and what was archived before is reported as not found. `failed`
remembers this of a call, and `GetFindsStored` says that it is the only way to miss a stored detail. `excused` holds the requests of which the store promises nothing: parts lost in a crash,
and parts that come after the entry's TTL of five minutes, which may meet the cleaner (finding
below) or overwrite the row with a new, smaller entry.

### RequestLog and LiveLog

`RequestLog` has a stage per request and one action for each way it goes on: the upstream fails, a
stream or an error body is wrapped, a non-streaming body is read or cannot be read, the stream
times out, the body is closed, the update succeeds or is lost, a rejected pseudo-non-stream
attempt is closed and retried. The cleaner's UPDATE and the restart complete it. `LiveLog` adds
`NotifyLogCompleted` to each step that has written a row, and the hub's goroutine, whose select
takes any ready channel. The row is fetched when the notification is taken, not when it is sent:
`ClientsCatchUp` says that this is safe.

### DatabaseSwitch

`db`, `opts`, `store` and `path` are the globals of `database/sqlite.go` and the file at
`SQLitePath`; `comp` holds the handle that log writer, detail store and pending cleaner were made
with. `InitWithOptions` and `Reopen` hold the mutex throughout and are one action (`Open`), which
may fail before it replaces the handle (`openDB`) or after (`createTables`, `runMigrations`). An
upload or a restore goes through `Close`, `MoveAway`, `WriteFile`, `OpenNew` and three steps
`ReinitUpload`; each may fail and falls back as the code does. A dump for PostgreSQL goes
through `Close`, `RestoreDump`, `Reconnect`. A migration task goes through `Ask` (the options are
read), `CreateTask` (under the manager's lock), `Prepare`, `CopyTables`, `Switch`, `ReinitTask`,
`Save`, `EndTask` and `FreeSlot`, the last two being two critical sections of `finishTask`. A
request inserts its pending row, takes the log writer (without the lock that exchanges it), and
logs its result later, with whatever handle that writer has.

Handles are numbered so that two holders have the same number exactly if they have the same
handle: the number of a handle nobody holds any more is used again.

Three assumptions, none of which the code enforces: the administrator makes one upload, restore
or migration at a time (only the requests to start a migration may overlap, which the task slot
is for); of the steps of one exchange at most one fails, so that the rollback itself works; and
`SQLitePath` is `./data/data.db`, which the upload handlers have as a literal. With another path
an upload replaces a file that nobody opens. `kept` leaves out what the code or the docs promise
nothing about: results logged while a task copies, and everything when an administrator replaces
the database on purpose, including a task that empties the database in use because the options
changed after it had read them.

### Routing

`chan`, `groups`, `chanGroups` and `userGroups` are the tables; a channel's list of models with its
aliases, wildcards and type default is the set of models it matches. `req[r]` is the goroutine of a
request: `Arrive` is the API key middleware, which reads the user's groups and goes on without any when
that fails; `Unmapped`, `MapModel` and `MapChannel` are the model mapping; `FindBound` and
`CheckBound` are the two reads of `SelectSpecificChannelForModelWithGroups`, which mapping and router
both call; `List`, `LookUpAll` (or, when that fails, `LookUpOne` per channel) and `Draw` are
`SelectChannelForModelWithGroups`. Every read may fail. `counter` is `rrCounter`, a uint64, whose
overflow is out of reach. A channel's weight is left out: it orders rows that are sorted again.

An administrator's handler has its own state, `edit[a]`, because most edits are several statements
with nothing around them: a channel is found, its row is saved, then its groups; a group loses its
users, its channels and then its row, and errors of the first two are dropped, as is that of
`SetGroups` after a row was saved. `SetGroups` itself is a transaction; two that overlap are serial over
SQLite and may leave the union of both over PostgreSQL, which is not modelled. Nor is the API key
that an edit without one writes back as it was when the edit began.

What a request is routed to can only be judged by what did not change meanwhile. The history
variable `unsure[r]` holds the channels of which request r may have read what no longer holds: those
edited since it arrived, those whose groups could not be read, and all of them when the user's own
groups changed or a whole read failed. The properties speak of all other channels.

They do not say that the tables hold what an administrator means. A new channel is open to everyone
until its groups are saved, and for ever when that fails; deleting a group opens the channels that
only it could use (no groups means open); a mapping to another model asks whether any channel serves
it, whatever its groups; and users with groups may use the channels without groups as well, where
`README.md:42` says they can only access their groups' channels.

### Attempts, RetryTransport, StreamRelay, ProxiedCall

One call of a client, which is served by the amp proxy or by a channel's. `conn` has one entry per
request sent upstream, `body` is `resp.Body` with the bytes that were read and put back in front
of those the connection still brings, and a frame knows the request it came from, so that frames
of two attempts can be told apart. What a provider sends and where it stops or breaks is any choice.

`pc` follows the goroutine: `send`, `attempt` and `judge` are `RoundTrip` (amp) or the plain transport
(channel); `modify`, `repeat` and `judgeRepeat` are the retry of an error in `ModifyResponse` of the
channel handler; `wrap` puts the layers on; `relay`, `retry`, `resend`, `again`, `finish` and `write` are the
Reads of the layers down to `resp.Body` and the copy to the client; `close` is `ReverseProxy` closing
the body. Who reads at the top is `mode`: the copy, the aggregation of a Responses stream to JSON, the
buffering of JSON, or pseudo-non-stream with its audit. There are four places that ask upstream
again, and they nest: the transport, the channel handler, `SSEConcurrencyRetryWrapper` (`Round`: frames of
the prelude are staged until it is known whether the stream goes on) and the audit.

`ka` is the goroutine of `SSEKeepAliveWrapper`. It looks at `closed` under a lock it has let go when it writes,
and the copy of `ReverseProxy` does not take `writeMu`: the model reaches a keep-alive between the two halves of an
event, and one after the handler has returned.

A frame stands for any number of bytes; that a read may end in the middle of one is the business of the
scanner, which `Round` abstracts. The back-off times are left out (a wait may take any time).

### Accounts

One action is one SQL statement, and a call is a record in `calls` that goes through its statements:
`JWTAuthMiddleware` checks the token only (`Begin`), `AdminMiddleware` reads the caller's row (`AdminCheck`), then the
service reads and the repository writes. The constraints of the schema are `NameFree`, `Referenced` and `OneRow`; a
statement that breaks one fails and ends the call. A token is the user it names, since its other
contents are never looked at; it outlives the user. `used` holds the ids given out: they are UUIDs and are
not given out twice. `Restart` loses the calls and makes the first administrator when there is no user.
A proxied request is here for its three touches of the tables: the key, the settings of its owner
(it is refused without a row, or with one that has no upstream URL) and the settlement. `entitled` is a history variable: the calls whose caller was an administrator at some time
since they began.

### Schema, Settings, Prices, Server

`Schema` runs `Migrations` as `runMigrations` does: asked for in `schema_migrations`, its statements one by one,
marked, with no transaction around them and the errors that `shouldIgnoreMigrationError` lets pass. The
ten migrations are one or two of each kind the code has: a column added, one dropped, an index made or
dropped, rows copied from an older table, a default inserted, a key renamed, columns widened on PostgreSQL only.
A database may be empty, or one in which an older version applied the first w of them and marked the
first v: `AfterFirst` says what such a database has, and `MCServer` lets TLC compare it for every w with the statements
run one after another (`AfterFirstIsRun`). `Settings` is one value of the system page: written to the table, then to memory, by calls that may
overlap. `live` is what memory holds and what most code reads at each use. The timeouts of a dial, a TLS handshake and an
idle connection are different: they are read when a transport is made, and `built` has what they were then. The
shared transports (`channel_router.go:30`, `proxy.go:330`; one variable, since both are made before anything is loaded) get the default;
that of a SOCKS5 proxy is made by the first requests that use it (`FindNone`, `ReadTimeouts`, `StoreTransport`, which may
overlap each other and an update). `stale` is a history: the value was read before the one now in memory was put there.
`Prices` is the price store: `FetchFromLiteLLM` reads the ETag, asks, merges and leaves the saving
to a goroutine, in any overlap. `Server` is `main`: the database is opened, prices are filled, settings
loaded, and then it serves; it may be killed at any point and is started again. `Varied` says which of
the three varies in a behaviour: they share no state.

## 3. Plan

Done: `Charge`, `Ledger`, `Billing` with proofs; `Subscriptions` with proofs; `DetailStore` with proofs; `RequestLog`, `LiveLog` with proofs;
`DatabaseSwitch` with proofs; `Routing` with proofs; `Attempts`, `RetryTransport`, `StreamRelay`, `ProxiedCall` with proofs; `Accounts`
with proofs; `Schema`, `Settings`, `Prices`, `Server` with proofs.

What would come next:

1. An abstract specification of what a call promises its client (a prefix of one response, sent once), which
   `ProxiedCall` implements; the invariant of `ProxiedCallProofs` already says which state maps to which.
2. What a component's Stop still does on the closed handle, as a composition of `DatabaseSwitch`
   with `DetailStore`.
3. The settlement of `Billing` as the end of a `ProxiedCall`, so that each attempt of a call is charged
   to its row in one model.

## 4. Runs

| run | question | expected |
|---|---|---|
| `billing_sqlite` | two settlements of one user over snapshot isolation, everything else changing: quota, overuse, refinement of the ledger | pass |
| `billing_postgres` | the same over READ COMMITTED: types, log = events, no debit beyond its event, every settlement ends | pass |
| `subscriptions` | two administrators interleave | pass |
| `detail_store` | memory, table, archive or none, a reader, a crash, queries and statements that fail | pass |
| `detail_cleanup` | is what cleanup removes always persisted? | violated |
| `live_log` | row, cleaner, restart, hub, two clients | pass |
| `routing` | two requests are mapped and routed while an administrator's edit goes through its statements and any read fails: usable channels only, best tier, bound channels, even spread | pass |
| `database_switch` | an upload and two tasks exchange the database while a request logs: task slot, handles, results, end of a task | pass |
| `proxied_call` | one call through either proxy, with failures in every layer that retries: one attempt's frames, no repetition once seen, tokens counted once, connections given back, an end | pass |
| `accounts` | two calls at a time over users, keys and settings, with deletions and restarts: uniqueness, ownership, entitlement, the stored key | pass |
| `server` | old databases migrated, broken off and taken up again; settings in memory and in transports against what is saved; refreshes of the prices that overlap | pass |
| `database_upload` | can the components use the database after an upload that failed? | violated |

### Bounds, and why they are enough

* Billing: one user, because users share nothing but plans, which have no state of their own in a
  settlement; two requests, the least that contend; costs 0 to 2 and a balance of 0 to 2, so that each
  source covers all, a part or nothing of a cost; a plan with a fixed window and a total, which
  an administrator changes to a sliding one; two units of time, so that a window turns. Over
  PostgreSQL time stands still and the plan has one limit: each read is a step, and the two
  properties of that run do not depend on windows. Deadlock is not checked: requests are finite and
  end.
* Subscriptions: two administrators, one user (the index is per user), two plans and two
  subscriptions, so that one is replaced or its plan deleted while another call holds it; two units
  of time, so that it expires.
* DetailStore: one request, because entries never meet: every action is per request except the batch,
  which treats its members alike; one crash. The proofs need neither bound.
* LiveLog: one request, two clients, channels of capacity 1 instead of 256 and 64: a channel that is
  full, half a broadcast dropped, and two notifications of the same row all occur. One restart.
  Deadlock is not checked: the request ends and the clients may all have left. `LiveLogProofs` needs none of these bounds.
* DatabaseSwitch: one upload, which may come before, between or after the migrations (a restore goes
  through the same steps; that of a backup which another upload made needs two of them, and differs
  in the rows of the file only, of which `ResultsKept` promises nothing once it is in use; two uploads
  and one task, 333,143 states, pass as well); two callers of the migration, each of
  which may start a new task after its last, so that a task ends while the next is created and the
  database goes to PostgreSQL and back; one request, because log rows never meet. Deadlock is not
  checked: the upload and the request end.

* Routing: two requests, the least that share a counter or hold different lists; one edit, each
  statement of which may fall between any two reads of both requests; a list of two channels, of which
  one is only for a group and of the better priority, or both of one tier, and a third that may be
  created; two users, one with a group and one without; a mapping with a channel and one without.
  Deadlock is checked: `Rest` is the end. `RoutingProofs` needs none of these bounds.
* ProxiedCall: every kind of call the code tells apart; two frames per response, so that each has one
  to stage and one to send, or a chunk holds both; `RetryMax` 2 and `AuditMax` 1 instead of 3 and 2, so that
  retries go on and run out; a transport that makes two attempts or one. `MaxSent` is 6, what all the layers together
  can send (one request, two repeats, two retries of the stream, one of the audit): a request more would be stuck
  and violate `CallEnds`. Deadlock is not checked: the call ends. `ProxiedCallProofs` holds for any
  values of these bounds.
* Accounts: three account ids, so that a name can be taken again after its user was deleted; two names, of
  which one is the administrator's; one API key and one upstream key; two calls in flight, the least
  that interleave. `Mixes` gives the calls of one behaviour: each group of operations that touch the same column or
  table, always with registration and deletion. `AccountsProofs` needs none of these bounds.
* Server: two stops, so that a start is broken off, taken up, broken off again and finished; one old token; two
  administrators with two values, and two requests that make the transport of one proxy; two models, the second of which LiteLLM publishes later; two refreshes.
  Each of the parts in `Varied` varies on its own. `ServerProofs` needs none of these bounds.

### Fairness

* Billing: weak fairness of the settlement and of the final log write of each request: the goroutine
  that has closed the body runs on. Nothing else is assumed: time, administrators and new requests
  may stop, and any statement may fail for ever.
* DetailStore: weak fairness of the cleaner (its ticker) and of the passing of the TTL; strong fairness of
  a successful insert: a database that is offered an entry in each round accepts it at last. This
  is an assumption about the database; the code's part is to offer it again.
* LiveLog: weak fairness of the cleaner's UPDATE and of the passing of its timeout. Requests and hub
  have none.
* ProxiedCall: weak fairness of the call's own goroutine (`Serve`): a read or a request ends at some time,
  if only because the connection breaks or the timeouts of the transport expire. The client, the administrator and the ticker have none.
* Server: weak fairness of each step of the start (`Start`, `Open`, `FillPrices`, `LoadAll`), which are `main`'s own,
  and of whoever starts a process that has ended. Weak fairness of the ticker that begins a refresh, and strong fairness of
  an answer and of its merging (`RefreshFairness`): of the refreshes begun again and again LiteLLM answers one at last, and
  its answer can be read. This is an assumption about LiteLLM and the network; the code's part is to ask again, with the
  right ETag. Updates and first requests have none.
* Accounts, Subscriptions: none.
* Routing: none; its properties are about what is decided, not that something is.
* DatabaseSwitch: weak fairness of each migration task's goroutine. Handlers and requests have none.

### Findings

Two runs show the code against what its own comments say:

* `cleanup` of the detail store removes an entry that was updated after it had been copied
  (`detail_cleanup`). It needs a part to arrive just when the entry has been idle for five minutes.
* After a failed upload or restore of a SQLite file the old file is open again, but log writer,
  detail store and pending cleaner keep the closed handle (`database_upload`): no request is
  logged any more until a later exchange succeeds or the process restarts.

### Seen while modelling

What follows is behaviour of the code that the models have, or that was met when they were written. No property
forbids it, because the code does not prevent it and no doc promises it in so many words.

Billing, routing, hub:

* Over PostgreSQL two concurrent settlements of a user can exceed the plan's limit: both read the usage
  without a lock (`billing.go:159`). `QuotaRespected` is checked over SQLite only.
* The channels of one priority do not take turns for every user: the counter belongs to the model
  (`channel.go:474`), but the candidates to the user's groups. When users with different candidates alternate, each of
  them may meet the counter at the same channel every time.
* A WebSocket client that connects and leaves while the hub is busy can stay registered: the hub's select may
  take its Unregister before its Register (`hub.go:66`, `80`).
* Deleting the only group of a channel opens it to every user (`repository/group.go:141`).
* A part of the details that comes after the entry's TTL overwrites the stored columns (`request_detail_store.go:542`).
* `getFromDB` makes "not found" of any error (`request_detail_store.go:490`), and an archive that could not be opened is
  passed over (`457`): a stored detail is then shown as one that never was. `GetFindsStored` allows for exactly this.
* A switch of the database closes the old handle before writer and store are stopped (`sqlite.go:58`): what they
  still write fails.

Proxied calls:

* When the retries of a channel's error are used up, the body in hand has been closed, and the client gets no
  error text (`channel_router.go:658`). When the retry of a stream fails, the stream it had given up is closed,
  and the response ends with an error after the staged frames (`sse_concurrency_retry.go:206`).
* An error body of more than 64 KB leaves its connection to the end of the call (`retry_transport.go:533`), which
  `DroppedReleased` allows for; a request body over `MaxBodyBytes` is sent as far as it was read (`retry_transport.go:309`).
* What the audit of pseudo-non-stream has asked for again is neither transformed nor logged nor billed. An aggregated
  stream that was cut is answered with its last snapshot. The JSON of a channel that cannot be read is answered with
  status 200 and leaves its row to the pending cleaner, and JSON of the amp proxy is cut at 10 MB.
* Keep-alives are written without the lock the copy would need, and possibly after the handler has returned
  (`stream_handler.go:308`).
* The transport takes a request for a stream by its Accept header or `?stream=true` only, whatever its body says.
* `SSEStreamHandler`, `ReplayableBody` and most of the error classifier have no callers.

Accounts:

* Two administrators may delete or demote each other, to the last one; `EnsureAdmin` helps only when no user is left.
* A token is never compared with the database: that of a deleted user passes `JWTAuthMiddleware`, and is renewed.
* A ChangePassword that read the old password before a ResetPassword overwrites it; of two overlapping UpdateSettings
  one is lost. An UPDATE of the settings of a deleted user changes nothing and reports success.
* `GetByKeyHash` does not read `expires_at`, so that the check of a key's expiry has nothing to look at, and
  nothing sets `revoked_at`.
* With DATA_ENCRYPTION_KEY the stored upstream key goes to proxied calls as it is stored (`middleware.go:265`), while
  `service/amp.go` decrypts it for its own test of the connection.

Start, settings, prices:

* `saveBatchToDB` writes LiteLLM's price over a manual row in the table, where the comment at `price_store.go:242`
  says that only models without a manual price are saved: the manual price holds until the next start. Batches may be
  saved out of order, and what was merged is lost when the process ends before its batch is saved. When
  `LoadFromDB` reads nothing, the seed overwrites rows of the models it knows.
* Of two refreshes that overlap the older list may be merged last, and a 304 to a refresh that was sent before leaves it in
  force until the next one, which the ETag of the older list brings the newer one (`EtagTellsMemory`, `PricesCatchUp`).
* `UpdateTimeoutConfig` (`proxy.go:106`) puts the timeouts into memory, and no transport is made anew: the shared ones have been made
  with the defaults before `InitTimeoutConfig` (`main.go:70`, `79`) and keep them for dial, TLS handshake and idle
  connections until the process ends, and the transport of a SOCKS5 proxy keeps those of its first use, although
  `system.go:723` speaks of updating the running configuration and `732` answers that it has been updated. `RuntimeIsSaved`
  therefore promises nothing of a transport made before the value now in memory.
* A setting that cannot be read leaves its default in force; settings and prices are not loaded again after an
  upload, a restore or a switch.
* An ignored error ends the rest of a migration's statements, and the migration is marked all the same; a table whose
  timestamps cannot be read is passed over, and the conversion is marked as done.

## 5. Proofs

`BillingProofs` proves, for every number of users, requests, plans and limits and for every bound on
amounts and time:

* `TypeCorrect`: the type invariant, for both databases; it includes that no balance is negative.
* `LogConsistent`: `LogMatchesEvents`, for both databases.
* `NoDebitBeyondEvent`: `DebitWithinEvent`, for both databases.
* `DebitExact`: over SQLite each settlement takes exactly the balance event it records.
* `LedgerImplemented`: over SQLite `Billing` implements `Ledger`.
* `OveruseBroke`: `OveruseMeansBroke`, over SQLite a settlement that marks its request "overuse" leaves no balance.
* `QuotaKept`: `QuotaRespected`, over SQLite no charge takes a window beyond its limit, whatever settles, is edited and
  passes between the reads and the writes of a settlement.

They assume `BillingAssumption` (what the constants are) and, for the last four,
`Backend = "sqlite"`. The inductive invariant is the conjunction of `TypeOK`, `NotYetCharged` (a
request before its commit has no event, and its row shows no charge), `LogMatchesEvents` and
`SnapshotCurrent` (over SQLite, a settlement that is not stale has read the balance and the priority
that are in force). `LogMatchesEvents` alone is not inductive: a `Commit` of a request that has
already been charged would break it, and `NotYetCharged` excludes that state. `SnapshotCurrent` is
what isolation gives the code: every commit makes the open snapshots stale or is excluded by the
write lock, so that a debit computed from a snapshot is a debit of the present balance. The
lemmas about `Split` (both parts are within quota and funds, and their total within the cost) and
about `Quota` are stated once and cited.

`QuotaKept` needs a second invariant, `QuotaInv`, because the quota is read at one time and charged at a later one: nothing is
recorded for a time that has not come, there are finitely many events, and what a settlement that is not stale has
read is what the limits left at some time t, no later than the time of its charge, with no event after t (`QuotaCurrent`). Then the
window at the charge holds only events that it held at t (`WindowsMoveOn`), and the new one fits into what they left. What a
window has used is a sum over a set of requests, which the model takes with the community modules' `MapThenSumSet`. That the
recursive function behind it exists, that the sum does not depend on the order, that a member can be taken out
and that a part is no more than the whole are proved by induction on the size of the set. The theorems of the library that take
a property as an operator cannot be used; `Counting` says the same of a set of numbers and rests on
`NatLessThanWellFounded` and `WFMin`, which take none.

`DatabaseSwitchProofs` proves, for every number of uploads, callers and requests:

* `TasksExclude`: `OneTask`, two migration tasks are never pending or running at once.
* `ComponentsAgree`: `ComponentsFollow`, after an exchange that went well every component works on
  the handle in force.
* `ResultsStored`: `ResultsKept`, the database in use holds the results that were logged to it or
  to the one it took over from, whatever uploads, restores and tasks do and whichever of their steps
  fails.

They assume `SwitchAssumption` (the empty task id is no task's), and the third `StoresAssumption`
(the files and databases have names of their own, and the requests are finitely many, so that there
is always a number for a new handle). The inductive invariant of the first two is the
conjunction of `Shape` (the domains of the functions), `SlotHeld` (an active task holds the slot:
without it `FreeSlot` of an old task might clear the slot of a new one), `OneExchange` (what the
model assumes of the administrator, as it shows in the state), `RemadeSoFar` (the components an
exchange has already made anew are on the handle in force, which needs that nobody else replaces
the handle meanwhile) and `ComponentsFollow`. Every step of an upload but `ReinitUpload` is an
`UploadMove`, and every step of a task but `ReinitTask` a `TaskMove`: what these have in common
is enough for the invariant, so that the argument is made once for all of them.

`ResultsStored` needs a second invariant, `RInv`, on top of it, which says where the results are at
every moment: in the database in use (`Home`), in the backup while an upload has moved the file
away (`Safe`), and in what a task has copied, too, before it switches (`Copied`). That nobody writes
elsewhere meanwhile is `Unused` (the handle an upload has just opened is in no hands, by
`HandleFree`, a count of the handles) and `Unwritten` (what is not uploaded yet is nowhere, so that
writing it overwrites nothing). The argument for a task is that a copy never overwrites a row and
that the database in use is its source or, if the options were replaced after they were read, its
target (`TaskAlone`).

`SubscriptionsProofs` proves, for every number of administrators, users, plans and subscriptions:

* `TypeCorrect`: the type invariant.
* `OneSubscription`, `PlanStays`, `CancelledStays`: `OneInForce`, `PlanInForceExists` and `CancelledForEver`.

They assume `SubscriptionsAssumption`. The inductive invariant adds to `TypeOK` what the unique index gives
(`OneActive`: one row with status 'active' per user, whether it has expired or not), what the foreign key gives
(`RowsPlanned`) and `FoundThere`: what a call has found stays in the table, because no call deletes a row. With
these it does not matter what an `Assign` or a `Delete` read before the other one wrote.

`AccountsProofs` proves, for every number of users, keys, names and calls:

* `TypeCorrect`: the type invariant.
* `TablesConsistent`: `Consistent`, from the constraints of the schema alone.
* `EntitledOnly`: `OnlyEntitled`. It needs `CallsOK`, what a call in flight may rely on: past `AdminMiddleware` it
  was entitled; past the owner check of `DeleteAPIKey` no one else can own the key it names, because an id is
  given to one key only (`KeysOK`).
* `FormKeepsKey`: `SettingsKept`.

They assume `AccountsAssumption`. A step that reads is an instance of `Advances`, one that ends a call of `CallsStay`, and
the writes are taken by the table they touch.

`LiveLogProofs` proves, for every number of requests, clients and restarts and for buffers of any size:

* `TypeCorrect`: the type invariant.
* `ResultsStay`: `ResultStays`, from `LoggedOnce` (a request that has logged its result does not log again).
* `ClientsInformed`: `ClientsCatchUp`. The invariant is `Informed`: unless a notification is waiting, the last message of a
  row that is on its way to a client (held by the hub, or the last one in the client's queue), or what it shows if there
  is none, is the row as it is. `Joins` and `Leaves` say what an append and a removal do to the last message.

They assume `LiveLogAssumption` and `MessageAssumption` (`None` is no message).

`ServerProofs` proves, for every number of old tokens, timestamps, stops, administrators, first requests of a proxy, values,
models, lists and overlapping refreshes:

* `SchemaComplete`, `DeletedForGood`: `MigratedWhenUp` and `DeletedStaysDeleted`. The invariant is `SchemaInv`, and that all of it is
  done once the start has gone on (`ServingInv`). The migrations
  are marked one after another, and no key can be deleted before all are marked (`InOrder`). What a marked migration was
  for still holds (`Lasting`), because the only statement that undoes another drops an index, and belongs to a later
  migration than the one which makes it. Of the migration in hand, each statement is still to run or has done its work
  (`UnderWay`), which a start that was broken off leaves behind for the next one: a statement that fails with an error
  that is let pass finds its work done (`Outcomes`), and one that fails otherwise stops the start. The lemma
  `SchemaInitially` says that every database of an older version satisfies it. This part uses no assumption on the constants. That a key
  does not come back needs that `CopyTokens` never runs again once its migration is marked.
* `SettingsAgree`: `RuntimeIsSaved`. The invariant says where the two copies may differ: no update is on its way and memory
  has what the table holds, or exactly one is, and what it will put into memory is what the table holds. `TransportsInv` adds
  that whatever was read since memory last changed is what memory holds, also in the hands of a request that has not
  stored its transport yet.
* `EtagSound`: `EtagTellsMemory`. A price whose source is "manual" is the one entered, a
  refresh holds a list that LiteLLM has published, and memory is empty until `FillPrices`.

Together they assume `SettingsAssumption` (no value means "no row") and `PricesAssumption` (the lists name known models, and
there is a first). The parts share only `phase`, so that a step of one leaves the invariant of the other as it is.

It also proves of `DetailStore`, for every number of requests and crashes:

* `TypeCorrect`: the type invariant.
* `StoredIsFound`, `OnlyCopiesDeleted`: `GetFindsStored` and `ArchiveKeeps`, whichever query fails and whether there is an archive.

These assume `DetailAssumption` (`None` is no entry, row or set of parts). The invariant speaks of one request at a time:
`Placed` (a row is old, or archived, only when its request stores no more and its entry is gone, which is for ever),
`Cleaned` (what the cleaner holds is still where it read it), `Complete` (each place that holds an entry of which
something is promised holds all of it, and one does) and `Reading` (where a Get has looked without failing and not found the entry, it has not come
since: entries move the way a Get reads). `Complete` fails for an entry that gets a part after its TTL, which is
why `excused` exists.

`ProxiedCallProofs` proves of `ProxiedCall`, for every kind of call, any number of frames, retries, audits and requests
sent upstream:

* `OneAttemptSent`: `OneAttempt`, what the client gets is the beginning of one attempt's response, without a gap or a repetition.
* `ErrorsRetried`: `RetriedBeforeShown`.
* `BilledIsServed`: `CountedIsServed`.
* `Released`: `DroppedReleased`.
* `UnseenOnly`: the action property `RepeatOnlyUnseen`.

They assume `CallAssumption` (the limits are numbers, calls and configurations have their shapes). The invariant follows the
frames of the response in hand through the layers. `LineOf` says that what was delivered at the top, what the
wrapper has staged, what it has buffered and what was put back in the body are, in this order, the frames 1, 2, ... of one
attempt, and that the connection brings the next one. `StagingOf` says that a wrapper that has not started has let
nothing through, which is why a retry may throw away what it has staged and close the connection; `GateOf` says why one
has started, from which `RetriedBeforeShown` follows. `Connections` ties the one connection that may be open to the body in
hand, `Tally` the frames that are counted to those that were delivered, and `Tops` says which of the four readers is at
which point: only the copy sends frames while more of them are read. `Fresh` is the state before the layers are
in place. None of the properties is inductive: two attempts could be mixed in the staged frames, long before the client is sent
one. Reading is taken apart the way the code does it: a chunk of the body, then the wrapper's loop (`Round`), then the
top, each with a lemma about what it does to the line of frames; closing, which ends the line, leaves the properties as they are.

`RoutingProofs` proves, for every number of channels, groups, users, models, requests,
administrators and edits:

* `TypeCorrect`: the type invariant, which includes the foreign keys: a membership is always of a
  channel and a group that exist.
* `RoutedToUsable`, `RoutedToBest`, `BoundIsServed`: the action properties `OnlyUsable`, `BestTier` and
  `BoundServed`.
* `SpreadEvenly`: `EvenWhileSteady`, between any two draws for a model, if the best tier was the same throughout, no channel of
  it was drawn more than once more often than another.

They assume `RoutingAssumption` (channel IDs are numbers, finitely many; forms, mappings and rows
have their shapes) and `StartsAssumption` (the tables hold rows of these shapes at first). The inductive
invariant is `TypeOK` with `Knowing`: of every channel that a running request is not unsure of, what
it has read still holds (`About`: the groups are the user's; a channel is listed exactly if it serves
the model and, once its groups were looked up, is open; a channel that was bound and refused is not
usable), and a bound channel is the mapping's (`Binding`). The properties speak of the last step of a
request only; `Knowing` is what the reads before it have established. Every step of a request is
a `Move` and every step of an administrator is `Edited`, and each of the two preserves the invariant. The
choice within a tier needs two lemmas about numbers: sorting gives each position to exactly one
channel (`EveryPosition`, by counting), and a nonempty set of candidates has a best tier.

`SpreadEvenly` adds `InTurn`: a counter is the number of draws for its model, and the k-th draw took the channel at position
k - 1, modulo the size of its tier. The rest is about remainders (`TurnsEven`): every turn of one channel, except the last
perhaps, is followed within a round by a turn of any other, and no two turns share one. The counter of the model does not wrap
around, as a uint64 does after 2^64 draws.

Only model-checked: the liveness properties `SettlementEnds`, `MemoryDrains`, `PendingEnds`, `TaskEnds`, `CallEnds`,
`StartEnds` and `PricesCatchUp` (fairness and ENABLED are beyond the proof system). That `AfterFirst` is the outcome of running the first
migrations is checked by TLC for all ten of them, in the assumption of `MCServer`; no proof rests on it.

## 6. Not modelled

* The asynchronous `LogWriter.Write`, `RequestDetailStore.Store`, `SSEStreamHandler`, `ReplayableBody` and
  `PriceStore.SetPrice` have no callers in the program.
* Text and JSON: translation between providers' formats, what a transformation does to a frame, how a mapping's pattern matches a
  model, how a price is found for a model's name, SQL rewriting for PostgreSQL, OpenCC conversion, the local web search.
  They have no state that is shared and no order of steps.
* The rate limiter: its token bucket is the library's. (Two first requests with one key may each get a bucket,
  since the map is read and written in two steps; the map only grows.)
* The archive database's own migration, downloads of the database, dbtool's command line.
* The format of times in SQLite's text columns, and rates and prices as floating-point numbers: a cost
  is any amount of `Costs`.
* The front end and the statistics, which only read.
