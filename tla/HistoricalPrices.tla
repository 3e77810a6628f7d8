-------------------------- MODULE HistoricalPrices --------------------------
(***************************************************************************)
(* The historical-price use case: concurrent requests read their buckets   *)
(* from the shared table, fetch from the price provider every day that has *)
(* a missing or too coarse bucket, upsert what they got, read again and    *)
(* convert.  Every database statement and every HTTP call is a step of its *)
(* own, so requests interleave at each of them, the clock moves between    *)
(* them, and each of them may fail or run into the 5 s deadline.           *)
(*                                                                         *)
(* A price is abstracted to the quote it stands for: the instant the       *)
(* provider quoted and the revision of the quote that was served.          *)
(***************************************************************************)
EXTENDS PriceBuckets, PriceTable

CONSTANTS
  Requests,    \* handler goroutines, one per call of GetHistoricalPrices
  Batches,     \* the batches of price keys a call may carry
  Revisions,   \* revisions of a quote the provider may serve
  Agreed,      \* TRUE: the provider samples a day at the granularity assumed
  MostLag,     \* how far its newest point may lie behind the clock
  FirstNow,    \* the clock when the service starts ...
  MaxNow       \* ... and the bound on it

ASSUME RequestAssumption ==
  /\ \A b \in Batches : /\ b \in Seq([coin : STRING, txTime : Int])
                         /\ b # <<>>
  /\ Agreed \in BOOLEAN
  /\ {MostLag, FirstNow, MaxNow} \subseteq Nat
  /\ FirstNow <= MaxNow

VARIABLES
  now,         \* the wall clock
  table,       \* historical_prices: <<coin, bucket>> -> [gran, price]
  pc,          \* what the request does next
  asOf,        \* the request's "now", read once when it starts
  wanted,      \* the request's w: what each of its keys needs
  rows,        \* the rows of its last read
  needFetch,   \* the fetches it still has to do
  fetching,    \* the fetch in hand ...
  buckets,     \* ... and its normalised rows, not yet stored
  outcome      \* "ok" or the error the call returned

vars == <<now, table, pc, asOf, wanted, rows, needFetch, fetching, buckets,
          outcome>>

Errors == {"invalid_argument", "db_error", "provider_unavailable",
           "bad_response", "price_unavailable", "fx_unavailable"}

Prices == [at : Int, rev : Revisions]
Rows   == [gran : Granularities, price : Prices]

ASSUME NullAssumption == NULL \notin Rows

------------------------------------------------------------------------------
(* The planning of a request.                                              *)

Wanted(k, t) ==
  LET g == GetGranularitySeconds(k.txTime, t)
  IN  [coin     |-> k.coin,
       txTime   |-> k.txTime,
       bucket   |-> floorToBucket(k.txTime, g),
       dayStart |-> truncateDayUTC(k.txTime),
       desiredG |-> g]

RepoKeys(w) == [i \in 1 .. Len(w) |-> <<w[i].coin, w[i].bucket>>]

Missing(row) == row = NULL
Upgrade(row, w) == row.gran > w.desiredG

\* A bug of the kind the checks must notice: one fetch per coin and day.
WrongFetchPerDay(w) == [coin |-> w.coin, dayStart |-> w.dayStart, g |-> Day]

FetchKey(w) == [coin |-> w.coin, dayStart |-> w.dayStart, g |-> w.desiredG]

NeedFetch(w, read) ==
  {FetchKey(w[i]) : i \in {j \in DOMAIN read :
                             Missing(read[j]) \/ Upgrade(read[j], w[j])}}

------------------------------------------------------------------------------
(* The provider and what is made of its answer.                            *)

\* The instants quoted for the day that starts at d, sampled every step
\* units: none after the instant t, none after the end of the day.
Quotes(d, step, t) ==
  LET last == IF t < d + Day THEN t - d ELSE Day - 1
  IN  [i \in 1 .. (IF last < 0 THEN 0 ELSE last \div step + 1)
         |-> d + (i - 1) * step]

\* The request to the provider names the coin and the range, never the
\* granularity: without the agreement the sampling is the provider's choice.
\* The newest points may not be there yet.
CoinsMarketChartRange(f) ==
  {Quotes(f.dayStart, step, now - lag) :
     step \in IF Agreed THEN {f.g} ELSE Granularities, lag \in 0 .. MostLag}

\* A bug of the kind the checks must notice: counting buckets from one.
WrongCountFromOne(f, quotes, rev) ==
  [k \in {<<f.coin, f.dayStart + i * f.g>> : i \in 1 .. Len(quotes)} |->
     [gran  |-> f.g,
      price |-> [at  |-> quotes[(k[2] - f.dayStart) \div f.g], rev |-> rev]]]

\* The i-th point becomes the i-th bucket of the day, whatever its timestamp.
normalizeByOrder(f, quotes, rev) ==
  LET bucket(i) == f.dayStart + (i - 1) * f.g
  IN  [k \in {<<f.coin, bucket(i)>> : i \in 1 .. Len(quotes)} |->
         LET i == CHOOSE j \in 1 .. Len(quotes) : k[2] = bucket(j)
         IN  [gran |-> f.g, price |-> [at |-> quotes[i], rev |-> rev]]]

------------------------------------------------------------------------------
(* The steps of a request.                                                 *)

NoRows == [k \in {} |-> NULL]

Init ==
  /\ now = FirstNow
  /\ table = NoRows
  /\ pc = [r \in Requests |-> "idle"]
  /\ asOf = [r \in Requests |-> FirstNow]
  /\ wanted = [r \in Requests |-> <<>>]
  /\ rows = [r \in Requests |-> <<>>]
  /\ needFetch = [r \in Requests |-> {}]
  /\ fetching = [r \in Requests |-> NULL]
  /\ buckets = [r \in Requests |-> NoRows]
  /\ outcome = [r \in Requests |-> "none"]

\* The call returns and its unfinished work is dropped.
Return(r, result) ==
  /\ pc' = [pc EXCEPT ![r] = "done"]
  /\ outcome' = [outcome EXCEPT ![r] = result]
  /\ needFetch' = [needFetch EXCEPT ![r] = {}]
  /\ fetching' = [fetching EXCEPT ![r] = NULL]
  /\ buckets' = [buckets EXCEPT ![r] = NoRows]

\* The early returns: no fiat currency, or nothing to price.
ReturnEarly(r) ==
  /\ pc[r] = "idle"
  /\ Return(r, "invalid_argument") \/ Return(r, "ok")
  /\ UNCHANGED <<now, table, asOf, wanted, rows>>

\* The clock is read once; every key gets its granularity, bucket and day.
Start(r, batch) ==
  /\ pc[r] = "idle"
  /\ asOf' = [asOf EXCEPT ![r] = now]
  /\ wanted' = [wanted EXCEPT ![r] =
                  [i \in 1 .. Len(batch) |-> Wanted(batch[i], now)]]
  /\ pc' = [pc EXCEPT ![r] = "read"]
  /\ UNCHANGED <<now, table, rows, needFetch, fetching, buckets, outcome>>

\* First read of the batch, and the fetches planned from it.
ReadBatch(r) ==
  /\ pc[r] = "read"
  /\ LET read == GetHistoricalPricesBatch(table, RepoKeys(wanted[r]))
         need == NeedFetch(wanted[r], read)
     IN  /\ rows' = [rows EXCEPT ![r] = read]
         /\ needFetch' = [needFetch EXCEPT ![r] = need]
         /\ pc' = [pc EXCEPT ![r] = IF need = {} THEN "price" ELSE "fetch"]
  /\ UNCHANGED <<now, table, asOf, wanted, fetching, buckets, outcome>>

\* The provider answers one of the remaining fetches: the map is ranged over
\* in any order.  An answer without points ends the request.
Fetch(r, f) ==
  /\ pc[r] = "fetch"
  /\ f \in needFetch[r]
  /\ \E quotes \in CoinsMarketChartRange(f), rev \in Revisions :
       \/ /\ quotes = <<>>
          /\ Return(r, "bad_response")
       \/ /\ quotes # <<>>
          /\ fetching' = [fetching EXCEPT ![r] = f]
          /\ buckets' = [buckets EXCEPT ![r] = normalizeByOrder(f, quotes, rev)]
          /\ pc' = [pc EXCEPT ![r] = "upsert"]
          /\ UNCHANGED <<needFetch, outcome>>
  /\ UNCHANGED <<now, table, asOf, wanted, rows>>

\* A bug of the kind the checks must notice: a fetch is never ticked off.
WrongStillAll(r) == needFetch[r]

StillToFetch(r) == needFetch[r] \ {fetching[r]}

\* The whole day is stored by one statement.
Upsert(r) ==
  /\ pc[r] = "upsert"
  /\ table' = UpsertHistoricalPricesBatch(table, buckets[r])
  /\ needFetch' = [needFetch EXCEPT ![r] = StillToFetch(r)]
  /\ pc' = [pc EXCEPT ![r] = IF StillToFetch(r) = {} THEN "reread" ELSE "fetch"]
  /\ fetching' = [fetching EXCEPT ![r] = NULL]
  /\ buckets' = [buckets EXCEPT ![r] = NoRows]
  /\ UNCHANGED <<now, asOf, wanted, rows, outcome>>

\* The read after the upserts.
Reread(r) ==
  /\ pc[r] = "reread"
  /\ rows' = [rows EXCEPT ![r] =
                GetHistoricalPricesBatch(table, RepoKeys(wanted[r]))]
  /\ pc' = [pc EXCEPT ![r] = "price"]
  /\ UNCHANGED <<now, table, asOf, wanted, needFetch, fetching, buckets, outcome>>

\* The conversion loop ends at the first key without a price or without a
\* rate for its day.  rated is the set of days the FX provider has a rate for.
Price(r) ==
  /\ pc[r] = "price"
  /\ \E rated \in SUBSET {wanted[r][i].dayStart : i \in DOMAIN wanted[r]} :
       LET noPrice(i) == Missing(rows[r][i])
           noRate(i)  == wanted[r][i].dayStart \notin rated
           stop(i)    == /\ noPrice(i) \/ noRate(i)
                         /\ \A j \in 1 .. i - 1 : ~noPrice(j) /\ ~noRate(j)
       IN  \/ /\ \A i \in DOMAIN rows[r] : ~noPrice(i) /\ ~noRate(i)
              /\ Return(r, "ok")
           \/ \E i \in DOMAIN rows[r] :
                /\ stop(i)
                /\ Return(r, IF noPrice(i) THEN "price_unavailable"
                                           ELSE "fx_unavailable")
  /\ UNCHANGED <<now, table, asOf, wanted, rows>>

\* A read, a fetch or an upsert fails, or the deadline passes during it.
Fail(r) ==
  /\ \/ /\ pc[r] \in {"read", "upsert", "reread"}
        /\ Return(r, "db_error")
     \/ /\ pc[r] = "fetch"
        /\ Return(r, "provider_unavailable") \/ Return(r, "bad_response")
  /\ UNCHANGED <<now, table, asOf, wanted, rows>>

\* The upsert commits, but its reply is lost to the deadline.
UpsertReplyLost(r) ==
  /\ pc[r] = "upsert"
  /\ table' = UpsertHistoricalPricesBatch(table, buckets[r])
  /\ Return(r, "db_error")
  /\ UNCHANGED <<now, asOf, wanted, rows>>

Tick ==
  /\ now < MaxNow
  /\ now' = now + 1
  /\ UNCHANGED <<table, pc, asOf, wanted, rows, needFetch, fetching, buckets,
                 outcome>>

\* What the code of a running request may do next.
Step(r) ==
  \/ ReadBatch(r)
  \/ \E f \in needFetch[r] : Fetch(r, f)
  \/ Upsert(r)
  \/ Reread(r)
  \/ Price(r)
  \/ Fail(r)
  \/ UpsertReplyLost(r)

Next ==
  \/ Tick
  \/ \E r \in Requests :
       \/ ReturnEarly(r)
       \/ \E batch \in Batches : Start(r, batch)
       \/ Step(r)

Spec == Init /\ [][Next]_vars

\* Every call a request blocks in takes its context, whose deadline is five
\* seconds away: it answers or fails, so a running request always goes on.
FairSpec == Spec /\ \A r \in Requests : WF_vars(Step(r))

------------------------------------------------------------------------------
(* Properties.                                                             *)

Wants == [coin : STRING, txTime : Int, bucket : Int, dayStart : Int,
          desiredG : Granularities]

Fetches == [coin : STRING, dayStart : Int, g : Granularities]

\* A function from keys to rows, whatever its domain.
IsTable(t) == /\ t = [k \in DOMAIN t |-> t[k]]
              /\ DOMAIN t \subseteq STRING \X Int
              /\ \A k \in DOMAIN t : t[k] \in Rows

\* The variables' types.  The reads are aligned with the keys, the "pricing
\* invariant" GetHistoricalPrices checks after both of them.
TypeOK ==
  /\ now \in FirstNow .. MaxNow
  /\ IsTable(table)
  /\ pc \in [Requests -> {"idle", "read", "fetch", "upsert", "reread", "price",
                          "done"}]
  /\ asOf \in [Requests -> FirstNow .. MaxNow]
  /\ wanted \in [Requests -> Seq(Wants)]
  /\ rows \in [Requests -> Seq(Rows \cup {NULL})]
  /\ needFetch \in [Requests -> SUBSET Fetches]
  /\ fetching \in [Requests -> Fetches \cup {NULL}]
  /\ buckets = [r \in Requests |-> buckets[r]]
  /\ \A r \in Requests :
       /\ IsTable(buckets[r])
       /\ pc[r] = "upsert" => fetching[r] \in needFetch[r]
       /\ pc[r] \in {"fetch", "upsert", "reread", "price"} =>
            Len(rows[r]) = Len(wanted[r])
  /\ outcome \in [Requests -> Errors \cup {"none", "ok"}]

\* Whatever requests do to the table concurrently, in whichever order their
\* fetches go and wherever they die, it only improves: see PriceBook.
Book == INSTANCE PriceBook WITH book <- table
ImplementsPriceBook == Book!Spec

\* A stored row is about its own bucket: the provider quoted its price within
\* the bucket, although the row was numbered by the position of the point.
BucketHoldsItsOwnQuote ==
  \A k \in DOMAIN table :
    /\ k[2] <= table[k].price.at
    /\ table[k].price.at < k[2] + table[k].gran

\* The transactions priced by an answered request that the provider must have
\* known a price for when it started: after the epoch, and not so recent that
\* the point of their bucket may have been missing.
Valued(r) == {i \in DOMAIN rows[r] : /\ wanted[r][i].txTime >= 0
                                     /\ wanted[r][i].txTime <= asOf[r] - MostLag}
Answered(r) == pc[r] = "done" /\ outcome[r] = "ok"

\* An answer never uses a row coarser than the policy asks for at the moment
\* of the request, although other requests store coarser days meanwhile.
NoCoarserThanDesired ==
  \A r \in Requests : Answered(r) =>
    \A i \in Valued(r) : rows[r][i].gran <= wanted[r][i].desiredG

\* A transaction is valued at a quote not after it and less than a bucket of
\* the desired granularity before it.
ValuedNearItsTime ==
  \A r \in Requests : Answered(r) =>
    \A i \in Valued(r) :
      LET tx == wanted[r][i]
          at == rows[r][i].price.at
      IN  at <= tx.txTime /\ tx.txTime < at + tx.desiredG

\* Once its days were fetched, a request finds a price for everything but the
\* future, the moment the provider is behind by, and what lies before the
\* epoch, where buckets are rounded up.
UnavailableOnlyOutsideRange ==
  \A r \in Requests : outcome[r] = "price_unavailable" =>
    \E i \in DOMAIN wanted[r] : \/ wanted[r][i].txTime > asOf[r] - MostLag
                                \/ wanted[r][i].txTime < 0

\* Two answers that use rows of one bucket at one granularity use the same
\* price, however late the second one and whatever the provider revised.
AnswersRepeat ==
  \A q, r \in Requests : Answered(q) /\ Answered(r) =>
    \A i \in DOMAIN rows[q], j \in DOMAIN rows[r] :
      /\ RepoKeys(wanted[q])[i] = RepoKeys(wanted[r])[j]
      /\ rows[q][i].gran = rows[r][j].gran
      => rows[q][i].price = rows[r][j].price

\* A request that was started is answered, with a result or an error.
EveryRequestAnswers ==
  \A r \in Requests : pc[r] # "idle" ~> pc[r] = "done"
=============================================================================
