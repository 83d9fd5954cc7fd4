-------------------------------- MODULE Prices --------------------------------
(***************************************************************************)
(* The price store (internal/billing/price_store.go): a map in memory from  *)
(* model to price, filled from model_prices at the start, seeded when that  *)
(* gives nothing, and refreshed from LiteLLM's list by a goroutine at the   *)
(* start, by a ticker and by an administrator, in any overlap.  A refresh   *)
(* reads the ETag, asks, merges the answer under the lock and leaves the    *)
(* saving of it to a goroutine of its own.                                  *)
(***************************************************************************)
EXTENDS Naturals

CONSTANTS Models,
          Seeds,        \* the models that seedBuiltinPrices knows
          Lists,        \* Lists[v]: the models in version v of LiteLLM's list
          Fetches       \* refreshes that may overlap

ASSUME PricesAssumption == 1 \in DOMAIN Lists /\ \A v \in DOMAIN Lists : Lists[v] \subseteq Models

VARIABLES priceRows,    \* model_prices: model -> price or NoPrice
          prices,       \* PriceStore.prices, likewise
          etag,         \* PriceStore.etag: the version it belongs to, 0 none
          version,      \* of the list that LiteLLM serves
          fetches,      \* refreshes under way: [id, sent, got]
          batches       \* versions whose saving is under way

pricesVars == <<priceRows, prices, etag, version, fetches, batches>>

NoPrice == [source |-> "none", of |-> 0]
Builtin == [source |-> "builtin", of |-> 0]
Manual == [source |-> "manual", of |-> 0]
LiteLLM(v) == [source |-> "litellm", of |-> v]
NoPrices == [m \in Models |-> NoPrice]

\* A row entered by hand says "manual", the default of the column; SetPrice has
\* no caller in the program.
PricesInit ==
    /\ priceRows \in [Models -> {NoPrice, Manual, LiteLLM(1)}]
    /\ prices = NoPrices
    /\ etag = 0 /\ version = 1 /\ fetches = {} /\ batches = {}

Seeded(ps, models) == [m \in Models |-> IF m \in models THEN Builtin ELSE ps[m]]

\* InitPriceStore: LoadFromDB, which may fail as a whole or pass over rows, and
\* the seed if the map is empty; an error of saveToDB is dropped.
LoadPrices ==
    /\ \E lost \in SUBSET Models, stored \in SUBSET Seeds :
        LET read == [m \in Models |-> IF m \in lost THEN NoPrice ELSE priceRows[m]] IN
        IF read = NoPrices
        THEN prices' = Seeded(read, Seeds) /\ priceRows' = Seeded(priceRows, stored)
        ELSE prices' = read /\ UNCHANGED priceRows
    /\ UNCHANGED <<etag, version, fetches, batches>>

(***************************************************************************)
(* FetchFromLiteLLM                                                         *)
(***************************************************************************)
FetchBegins(f) ==
    /\ \A k \in fetches : k.id # f
    /\ fetches' = fetches \cup {[id |-> f, sent |-> etag, got |-> 0]}
    /\ UNCHANGED <<priceRows, prices, etag, version, batches>>

\* Mutant: whatever is asked with an ETag is taken for unchanged.
FetchAnsweredOnce(k) ==
    /\ k.got = 0
    /\ fetches' = (fetches \ {k}) \cup (IF k.sent # 0 THEN {} ELSE {[k EXCEPT !.got = version]})
    /\ UNCHANGED <<priceRows, prices, etag, version, batches>>

\* 304 ends it; a list comes back otherwise.
FetchAnswered(k) ==
    /\ k.got = 0
    /\ fetches' = (fetches \ {k}) \cup
                  (IF k.sent = version THEN {} ELSE {[k EXCEPT !.got = version]})
    /\ UNCHANGED <<priceRows, prices, etag, version, batches>>

FetchFails(k) ==
    /\ fetches' = fetches \ {k}
    /\ UNCHANGED <<priceRows, prices, etag, version, batches>>

\* Mutant: whatever is there is kept.
KeptAny(price) == price # NoPrice

Kept(price) == price.source = "manual"

Merge(k) ==
    /\ k.got # 0
    /\ prices' = [m \in Models |-> IF m \in Lists[k.got] /\ ~Kept(prices[m])
                                   THEN LiteLLM(k.got) ELSE prices[m]]
    /\ etag' = k.got
    /\ fetches' = fetches \ {k}
    /\ batches' = batches \cup {k.got}
    /\ UNCHANGED <<priceRows, version>>

\* saveBatchToDB takes the whole list, manual models included; a row that fails
\* is passed over, and the transaction may fail as a whole.
SaveBatch(v) ==
    /\ \E rows \in SUBSET Lists[v] :
        priceRows' = [m \in Models |-> IF m \in rows THEN LiteLLM(v) ELSE priceRows[m]]
    /\ batches' = batches \ {v}
    /\ UNCHANGED <<prices, etag, version, fetches>>

\* LiteLLM publishes its next list.
ListChanges ==
    /\ version + 1 \in DOMAIN Lists
    /\ version' = version + 1
    /\ UNCHANGED <<priceRows, prices, etag, fetches, batches>>

LosePrices ==
    /\ prices' = NoPrices /\ etag' = 0 /\ fetches' = {} /\ batches' = {}
    /\ UNCHANGED <<priceRows, version>>

Refresh == \E f \in Fetches : FetchBegins(f)
Answer == \E k \in fetches : FetchAnswered(k)
MergeOne == \E k \in fetches : Merge(k)

PriceStep ==
    \/ Refresh \/ Answer \/ MergeOne
    \/ \E k \in fetches : FetchFails(k)
    \/ \E v \in batches : SaveBatch(v)
    \/ ListChanges
=============================================================================
