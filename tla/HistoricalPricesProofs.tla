----------------------- MODULE HistoricalPricesProofs -----------------------
(***************************************************************************)
(* Theorems about the historical-price use case, for any number of         *)
(* requests, any batches and any calendar that BucketAssumption allows:    *)
(* first about the table and what is written to it, then about what a      *)
(* caller is told (answers repeat, use rows fine enough and near enough    *)
(* to the transaction, and report nothing in range as unavailable).        *)
(***************************************************************************)
EXTENDS HistoricalPrices, FiniteSetTheorems, TLAPS

------------------------------------------------------------------------------
\* An element of a sequence over S.
LEMMA ElementOf ==
  ASSUME NEW S, NEW s \in Seq(S), NEW i \in 1 .. Len(s)
  PROVE  s[i] \in S
OBVIOUS

------------------------------------------------------------------------------
(* Time.                                                                   *)

\* Rounding by Go's division stays in the integers.
LEMMA FloorInt ==
  ASSUME NEW t \in Int, NEW g \in Nat \ {0}
  PROVE  floorToBucket(t, g) \in Int
<1>1. GoDiv(t, g) \in Int
  <2>1. t \div g \in Int
    OBVIOUS
  <2>2. (-t) \div g \in Int
    OBVIOUS
  <2> QED
    BY <2>1, <2>2 DEF GoDiv
<1> QED
  BY <1>1 DEF floorToBucket

\* What a key needs is well typed: GetGranularitySeconds is total.
LEMMA WantedType ==
  ASSUME NEW k \in [coin : STRING, txTime : Int], NEW t \in Int
  PROVE  Wanted(k, t) \in Wants
<1> DEFINE g == GetGranularitySeconds(k.txTime, t)
<1>1. g \in Granularities
  BY DEF GetGranularitySeconds, Granularities
<1>2. g \in Nat \ {0}
  BY <1>1, BucketAssumption DEF Granularities
<1>3. floorToBucket(k.txTime, g) \in Int
  BY <1>2, FloorInt
<1>4. truncateDayUTC(k.txTime) \in Int
  <2>1. k.txTime \in Int /\ Day \in Nat \ {0}
    BY BucketAssumption
  <2>2. k.txTime \div Day \in Int
    BY <2>1
  <2> QED
    BY <2>1, <2>2 DEF truncateDayUTC
<1> HIDE DEF g
<1>5. Wanted(k, t) = [coin |-> k.coin, txTime |-> k.txTime,
                      bucket |-> floorToBucket(k.txTime, g),
                      dayStart |-> truncateDayUTC(k.txTime), desiredG |-> g]
  BY DEF Wanted, g
<1> QED
  BY <1>1, <1>3, <1>4, <1>5 DEF Wants

------------------------------------------------------------------------------
(* The table and what is stored in it.                                     *)

\* Upserting a batch of rows into a table yields a table.
LEMMA UpsertType ==
  ASSUME NEW t, NEW b, IsTable(t), IsTable(b)
  PROVE  IsTable(UpsertHistoricalPricesBatch(t, b))
<1> DEFINE u == UpsertHistoricalPricesBatch(t, b)
           D == DOMAIN t \cup DOMAIN b
<1>1. u = [k \in D |-> IF k \in DOMAIN b /\ (k \in DOMAIN t => Finer(b[k], t[k]))
                       THEN b[k] ELSE t[k]]
  BY DEF UpsertHistoricalPricesBatch
<1> HIDE DEF u
<1>2. DOMAIN u = D /\ u = [k \in DOMAIN u |-> u[k]]
  BY <1>1
<1>3. D \subseteq STRING \X Int
  BY DEF IsTable
<1>4. \A k \in D : u[k] \in Rows
  BY <1>1 DEF IsTable
<1>5. IsTable(u)
  BY <1>2, <1>3, <1>4 DEF IsTable
<1> QED
  BY <1>5 DEF u

\* A batch read returns one row or NULL per key, in the order of the keys.
LEMMA GetBatchType ==
  ASSUME NEW t, IsTable(t), NEW w \in Seq(Wants)
  PROVE  LET read == GetHistoricalPricesBatch(t, RepoKeys(w))
         IN  read \in Seq(Rows \cup {NULL}) /\ Len(read) = Len(w)
<1> DEFINE keys == RepoKeys(w)
           read == GetHistoricalPricesBatch(t, keys)
<1>1. keys = [i \in 1 .. Len(w) |-> <<w[i].coin, w[i].bucket>>] /\ Len(w) \in Nat
  BY DEF RepoKeys
<1>2. Len(keys) = Len(w)
  BY <1>1
<1>3. read = [i \in 1 .. Len(w) |-> IF keys[i] \in DOMAIN t THEN t[keys[i]] ELSE NULL]
  BY <1>2 DEF GetHistoricalPricesBatch
<1> HIDE DEF keys, read
<1>4. \A i \in 1 .. Len(w) : read[i] \in Rows \cup {NULL}
  BY <1>3 DEF IsTable
<1>5. read \in Seq(Rows \cup {NULL}) /\ Len(read) = Len(w)
  BY <1>1, <1>3, <1>4
<1> QED
  BY <1>5 DEF read, keys

\* The plan of a request consists of fetches.
LEMMA NeedFetchType ==
  ASSUME NEW w \in Seq(Wants), NEW read, DOMAIN read = 1 .. Len(w)
  PROVE  NeedFetch(w, read) \in SUBSET Fetches
<1>1. \A i \in 1 .. Len(w) : w[i] \in Wants
  OBVIOUS
<1>2. \A i \in 1 .. Len(w) : FetchKey(w[i]) \in Fetches
  BY <1>1 DEF FetchKey, Wants, Fetches
<1> QED
  BY <1>2 DEF NeedFetch

\* The points of a day are a sequence of instants.
LEMMA QuotesType ==
  ASSUME NEW d \in Int, NEW step \in Granularities, NEW t \in Int
  PROVE  Quotes(d, step, t) \in Seq(Int)
<1> DEFINE last == IF t < d + Day THEN t - d ELSE Day - 1
           n == IF last < 0 THEN 0 ELSE last \div step + 1
<1>1. step \in Nat \ {0} /\ Day \in Nat \ {0}
  BY BucketAssumption DEF Granularities
<1>2. last \in Int
  BY <1>1
<1>3. n \in Nat
  <2> HIDE DEF last
  <2>1. CASE last < 0
    BY <2>1
  <2>2. CASE ~(last < 0)
    <3>1. last \div step \in Nat
      BY <2>2, <1>1, <1>2
    <3> QED
      BY <2>2, <3>1
  <2> QED
    BY <2>1, <2>2
<1>4. \A i \in 1 .. n : d + (i - 1) * step \in Int
  BY <1>1
<1>5. Quotes(d, step, t) = [i \in 1 .. n |-> d + (i - 1) * step]
  BY DEF Quotes
<1> HIDE DEF n, last
<1> QED
  BY <1>3, <1>4, <1>5

\* So is an answer of the provider.
LEMMA AnswerType ==
  ASSUME now \in Int, NEW f \in Fetches, NEW quotes \in CoinsMarketChartRange(f)
  PROVE  quotes \in Seq(Int)
<1>1. PICK step \in Granularities, lag \in 0 .. MostLag :
        quotes = Quotes(f.dayStart, step, now - lag)
  BY DEF CoinsMarketChartRange, Fetches
<1>2. f.dayStart \in Int /\ now - lag \in Int
  BY RequestAssumption DEF Fetches
<1> QED
  BY <1>1, <1>2, QuotesType

\* Normalising by order yields rows.
LEMMA NormalizeType ==
  ASSUME NEW f \in Fetches, NEW quotes \in Seq(Int), NEW rev \in Revisions
  PROVE  IsTable(normalizeByOrder(f, quotes, rev))
<1> DEFINE bucket(i) == f.dayStart + (i - 1) * f.g
           D == {<<f.coin, bucket(i)>> : i \in 1 .. Len(quotes)}
           at(k) == CHOOSE j \in 1 .. Len(quotes) : k[2] = bucket(j)
           b == normalizeByOrder(f, quotes, rev)
<1>1. f.coin \in STRING /\ f.dayStart \in Int /\ f.g \in Granularities
  BY DEF Fetches
<1>2. f.g \in Int
  BY <1>1, BucketAssumption DEF Granularities
<1>3. \A i \in 1 .. Len(quotes) : bucket(i) \in Int
  BY <1>1, <1>2
<1>4. b = [k \in D |-> [gran |-> f.g, price |-> [at |-> quotes[at(k)], rev |-> rev]]]
  BY DEF normalizeByOrder
<1> HIDE DEF b, bucket
<1>5. \A k \in D : at(k) \in 1 .. Len(quotes)
  OBVIOUS
<1>6. \A k \in D : quotes[at(k)] \in Int
  BY <1>5
<1>7. D \subseteq STRING \X Int
  BY <1>1, <1>3
<1> HIDE DEF D, at
<1>8. \A k \in D : b[k] \in Rows
  BY <1>1, <1>4, <1>6 DEF Rows, Prices
<1>9. DOMAIN b = D /\ b = [k \in DOMAIN b |-> b[k]]
  BY <1>4
<1>10. IsTable(b)
  BY <1>7, <1>8, <1>9 DEF IsTable
<1> QED
  BY <1>10 DEF b

------------------------------------------------------------------------------
(* Type correctness.                                                       *)

LEMMA NoRowsType == IsTable(NoRows)
BY DEF IsTable, NoRows

\* However a request returns, the types stay right.
LEMMA ReturnType ==
  ASSUME TypeOK, NEW r \in Requests, NEW result \in Errors \cup {"ok"},
         Return(r, result), UNCHANGED <<now, asOf, wanted, rows>>,
         IsTable(table')
  PROVE  TypeOK'
<1>1. \A q \in Requests : IsTable(buckets'[q])
  BY NoRowsType DEF TypeOK, Return
<1>2. \A q \in Requests : pc'[q] = "upsert" => fetching'[q] \in needFetch'[q]
  BY DEF TypeOK, Return
<1> QED
  BY <1>1, <1>2 DEF TypeOK, Return

LEMMA TypeInit == Init => TypeOK
<1> SUFFICES ASSUME Init PROVE TypeOK
  OBVIOUS
<1>1. FirstNow \in FirstNow .. MaxNow
  BY RequestAssumption
<1> QED
  BY <1>1, NoRowsType DEF Init, TypeOK

LEMMA TypeNext == TypeOK /\ [Next]_vars => TypeOK'
<1> SUFFICES ASSUME TypeOK, [Next]_vars PROVE TypeOK'
  OBVIOUS
<1> USE DEF TypeOK
<1>1. CASE Tick
  BY <1>1, RequestAssumption DEF Tick
<1>2. ASSUME NEW r \in Requests, ReturnEarly(r) PROVE TypeOK'
  BY <1>2, ReturnType DEF ReturnEarly, Errors
<1>3. ASSUME NEW r \in Requests, NEW batch \in Batches, Start(r, batch)
      PROVE  TypeOK'
  <2>1. batch \in Seq([coin : STRING, txTime : Int])
    BY RequestAssumption
  <2>2. now \in Int
    BY RequestAssumption
  <2>3. \A i \in 1 .. Len(batch) : Wanted(batch[i], now) \in Wants
    <3> SUFFICES ASSUME NEW i \in 1 .. Len(batch)
                 PROVE  Wanted(batch[i], now) \in Wants
      OBVIOUS
    <3>1. batch[i] \in [coin : STRING, txTime : Int]
      BY <2>1, ElementOf
    <3> QED
      BY <3>1, <2>2, WantedType
  <2>4. [i \in 1 .. Len(batch) |-> Wanted(batch[i], now)] \in Seq(Wants)
    BY <2>1, <2>3
  <2>5. wanted' \in [Requests -> Seq(Wants)]
    BY <1>3, <2>4 DEF Start
  <2> QED
    BY <1>3, <2>5 DEF Start
<1>4. ASSUME NEW r \in Requests, ReadBatch(r) PROVE TypeOK'
  <2> DEFINE read == GetHistoricalPricesBatch(table, RepoKeys(wanted[r]))
             need == NeedFetch(wanted[r], read)
  <2>1. wanted[r] \in Seq(Wants)
    OBVIOUS
  <2>2. read \in Seq(Rows \cup {NULL}) /\ Len(read) = Len(wanted[r])
    BY <2>1, GetBatchType
  <2>3. need \in SUBSET Fetches
    BY <2>1, <2>2, NeedFetchType
  <2>4. /\ rows' = [rows EXCEPT ![r] = read]
        /\ needFetch' = [needFetch EXCEPT ![r] = need]
        /\ pc' = [pc EXCEPT ![r] = IF need = {} THEN "price" ELSE "fetch"]
        /\ UNCHANGED <<now, table, asOf, wanted, fetching, buckets, outcome>>
    BY <1>4 DEF ReadBatch
  <2>5. pc[r] # "upsert"
    BY <1>4 DEF ReadBatch
  <2> HIDE DEF read, need
  <2> QED
    BY <2>2, <2>3, <2>4, <2>5
<1>5. ASSUME NEW r \in Requests, NEW f \in needFetch[r], Fetch(r, f)
      PROVE  TypeOK'
  <2>1. f \in Fetches
    OBVIOUS
  <2>2. PICK quotes \in CoinsMarketChartRange(f), rev \in Revisions :
          \/ Return(r, "bad_response")
          \/ /\ fetching' = [fetching EXCEPT ![r] = f]
             /\ buckets' = [buckets EXCEPT ![r] = normalizeByOrder(f, quotes, rev)]
             /\ pc' = [pc EXCEPT ![r] = "upsert"]
             /\ UNCHANGED <<needFetch, outcome>>
    BY <1>5 DEF Fetch
  <2>3. UNCHANGED <<now, table, asOf, wanted, rows>> /\ pc[r] = "fetch"
    BY <1>5 DEF Fetch
  <2>4. CASE Return(r, "bad_response")
    BY <2>3, <2>4, ReturnType DEF Errors
  <2>5. CASE /\ fetching' = [fetching EXCEPT ![r] = f]
             /\ buckets' = [buckets EXCEPT ![r] = normalizeByOrder(f, quotes, rev)]
             /\ pc' = [pc EXCEPT ![r] = "upsert"]
             /\ UNCHANGED <<needFetch, outcome>>
    <3>1. quotes \in Seq(Int)
      <4>1. now \in Int
        BY RequestAssumption
      <4> QED
        BY <2>1, <4>1, AnswerType
    <3>2. IsTable(normalizeByOrder(f, quotes, rev))
      BY <2>1, <3>1, NormalizeType
    <3>3. \A q \in Requests : IsTable(buckets'[q])
      BY <2>5, <3>2
    <3> QED
      BY <2>1, <2>3, <2>5, <3>3
  <2> QED
    BY <2>2, <2>4, <2>5
<1>6. ASSUME NEW r \in Requests, Upsert(r) PROVE TypeOK'
  <2>1. IsTable(table')
    BY <1>6, UpsertType DEF Upsert
  <2>2. \A q \in Requests : IsTable(buckets'[q])
    BY <1>6, NoRowsType DEF Upsert
  <2>3. StillToFetch(r) \in SUBSET Fetches
    BY DEF StillToFetch
  <2> QED
    BY <1>6, <2>1, <2>2, <2>3 DEF Upsert
<1>7. ASSUME NEW r \in Requests, Reread(r) PROVE TypeOK'
  <2> DEFINE read == GetHistoricalPricesBatch(table, RepoKeys(wanted[r]))
  <2>1. read \in Seq(Rows \cup {NULL}) /\ Len(read) = Len(wanted[r])
    BY GetBatchType
  <2>2. /\ rows' = [rows EXCEPT ![r] = read]
        /\ pc' = [pc EXCEPT ![r] = "price"]
        /\ UNCHANGED <<now, table, asOf, wanted, needFetch, fetching, buckets,
                       outcome>>
    BY <1>7 DEF Reread
  <2> HIDE DEF read
  <2> QED
    BY <2>1, <2>2
<1>8. ASSUME NEW r \in Requests, Price(r) PROVE TypeOK'
  <2>1. PICK result \in Errors \cup {"ok"} : Return(r, result)
    BY <1>8 DEF Price, Errors
  <2> QED
    BY <1>8, <2>1, ReturnType DEF Price
<1>9. ASSUME NEW r \in Requests, Fail(r) PROVE TypeOK'
  <2>1. PICK result \in Errors \cup {"ok"} : Return(r, result)
    BY <1>9 DEF Fail, Errors
  <2> QED
    BY <1>9, <2>1, ReturnType DEF Fail
<1>10. ASSUME NEW r \in Requests, UpsertReplyLost(r) PROVE TypeOK'
  <2>1. IsTable(table')
    BY <1>10, UpsertType DEF UpsertReplyLost
  <2> QED
    BY <1>10, <2>1, ReturnType DEF UpsertReplyLost, Errors
<1>11. CASE UNCHANGED vars
  BY <1>11 DEF vars
<1> QED
  BY <1>1, <1>2, <1>3, <1>4, <1>5, <1>6, <1>7, <1>8, <1>9, <1>10, <1>11
     DEF Next, Step

\* The variables keep their types, and every read of a request stays aligned
\* with its keys.
THEOREM TypeCorrect == Spec => []TypeOK
<1>1. Init => TypeOK
  BY TypeInit
<1>2. TypeOK /\ [Next]_vars => TypeOK'
  BY TypeNext
<1> QED
  BY <1>1, <1>2, PTL DEF Spec

------------------------------------------------------------------------------
(* The inductive invariant.  A part about one request is an operator of the *)
(* request, so that a step of another request has only the table to disturb *)
(* it with.                                                                 *)

\* What is about to be stored comes from the fetch in hand.
FromItsFetch(r) ==
  pc[r] = "upsert" =>
    \A k \in DOMAIN buckets[r] : /\ k[1] = fetching[r].coin
                                 /\ buckets[r][k].gran = fetching[r].g
                                 /\ Agreed => buckets[r][k].price.at = k[2]

\* The quotes in the table are those of the bucket's own start.
InPlace == Agreed => \A k \in DOMAIN table : table[k].price.at = k[2]

StoreInv == /\ TypeOK
            /\ InPlace
            /\ \A r \in Requests : FromItsFetch(r)

------------------------------------------------------------------------------
(* What steps leave alone.                                                 *)

Same(q) == /\ pc'[q] = pc[q]
           /\ asOf'[q] = asOf[q]
           /\ wanted'[q] = wanted[q]
           /\ rows'[q] = rows[q]
           /\ needFetch'[q] = needFetch[q]
           /\ fetching'[q] = fetching[q]
           /\ buckets'[q] = buckets[q]
           /\ outcome'[q] = outcome[q]

\* What the request r may do in one step.
Moves(r) == ReturnEarly(r) \/ (\E batch \in Batches : Start(r, batch)) \/ Step(r)

\* A step of one request leaves the locals of the others alone.
LEMMA OthersSame ==
  ASSUME TypeOK, NEW r \in Requests, Moves(r), NEW q \in Requests, q # r
  PROVE  Same(q)
BY DEF Moves, Step, ReturnEarly, Start, ReadBatch, Fetch, Upsert, Reread, Price,
       Fail, UpsertReplyLost, Return, Same, TypeOK

\* What an upsert of b that leads from t to u does to each key: it keeps the
\* old row, or puts a new one where there was none or a coarser one.
Improves(t, b, u) ==
  /\ DOMAIN u = DOMAIN t \cup DOMAIN b
  /\ \A k \in DOMAIN u :
       \/ k \in DOMAIN t /\ u[k] = t[k]
       \/ /\ k \in DOMAIN b
          /\ u[k] = b[k]
          /\ k \in DOMAIN t => u[k].gran < t[k].gran
  /\ \A k \in DOMAIN b : u[k].gran <= b[k].gran

LEMMA UpsertImproves ==
  ASSUME NEW t, NEW b, IsTable(t), IsTable(b)
  PROVE  Improves(t, b, UpsertHistoricalPricesBatch(t, b))
<1>1. \A k \in DOMAIN b : b[k].gran \in Int
  BY BucketAssumption DEF IsTable, Rows, Granularities
<1>2. \A k \in DOMAIN t : t[k].gran \in Int
  BY BucketAssumption DEF IsTable, Rows, Granularities
<1> QED
  BY <1>1, <1>2 DEF UpsertHistoricalPricesBatch, Finer, Improves

\* The table changes only by the upserts.
LEMMA TableSteps ==
  ASSUME TypeOK, [Next]_vars
  PROVE  \/ UNCHANGED table
         \/ \E r \in Requests : /\ pc[r] = "upsert"
                                 /\ Improves(table, buckets[r], table')
<1>1. \/ UNCHANGED table
      \/ \E r \in Requests :
           /\ pc[r] = "upsert"
           /\ table' = UpsertHistoricalPricesBatch(table, buckets[r])
  BY DEF Next, Step, vars, Tick, ReturnEarly, Start, ReadBatch, Fetch, Upsert,
         Reread, Price, Fail, UpsertReplyLost
<1>2. IsTable(table) /\ \A r \in Requests : IsTable(buckets[r])
  BY DEF TypeOK
<1> QED
  BY <1>1, <1>2, UpsertImproves

------------------------------------------------------------------------------
(* The rows a fetch stores.                                                *)

\* Points sampled as agreed are normalised to the instants they quote.
LEMMA NormalizeInPlace ==
  ASSUME NEW f \in Fetches, NEW quotes \in CoinsMarketChartRange(f),
         NEW rev \in Revisions, now \in Int,
         NEW b, b = normalizeByOrder(f, quotes, rev)
  PROVE  \A k \in DOMAIN b : /\ k[1] = f.coin
                             /\ b[k].gran = f.g
                             /\ Agreed => b[k].price.at = k[2]
<1> DEFINE bucket(i) == f.dayStart + (i - 1) * f.g
           D == {<<f.coin, bucket(i)>> : i \in 1 .. Len(quotes)}
           at(k) == CHOOSE j \in 1 .. Len(quotes) : k[2] = bucket(j)
<1>1. b = [k \in D |-> [gran |-> f.g, price |-> [at |-> quotes[at(k)], rev |-> rev]]]
  BY DEF normalizeByOrder
<1>2. ASSUME Agreed, NEW i \in 1 .. Len(quotes) PROVE quotes[i] = bucket(i)
  <2>1. PICK lag \in 0 .. MostLag : quotes = Quotes(f.dayStart, f.g, now - lag)
    BY <1>2 DEF CoinsMarketChartRange
  <2>2. quotes \in Seq(Int)
    BY AnswerType
  <2>3. PICK n : quotes = [j \in 1 .. n |-> f.dayStart + (j - 1) * f.g]
    BY <2>1 DEF Quotes
  <2>4. i \in DOMAIN quotes
    BY <2>2
  <2> QED
    BY <2>3, <2>4
<1> HIDE DEF bucket
<1>3. \A k \in D : at(k) \in 1 .. Len(quotes) /\ k[2] = bucket(at(k))
  OBVIOUS
<1>4. \A k \in D : k[1] = f.coin
  OBVIOUS
<1> HIDE DEF D, at
<1> QED
  BY <1>1, <1>2, <1>3, <1>4

LEMMA StoreInit == Init => StoreInv
BY TypeInit DEF Init, StoreInv, InPlace, FromItsFetch, NoRows

LEMMA StoreNext == StoreInv /\ [Next]_vars => StoreInv'
<1> SUFFICES ASSUME StoreInv, [Next]_vars PROVE StoreInv'
  OBVIOUS
<1>1. TypeOK /\ TypeOK'
  BY TypeNext DEF StoreInv
<1>2. InPlace'
  <2>1. CASE UNCHANGED table
    BY <2>1 DEF StoreInv, InPlace
  <2>2. ASSUME NEW r \in Requests, pc[r] = "upsert",
               Improves(table, buckets[r], table')
        PROVE  InPlace'
    BY <2>2 DEF StoreInv, InPlace, FromItsFetch, Improves
  <2> QED
    BY <1>1, <2>1, <2>2, TableSteps
<1>3. ASSUME NEW q \in Requests PROVE FromItsFetch(q)'
  <2>1. CASE Same(q)
    BY <2>1 DEF Same, StoreInv, FromItsFetch
  <2>2. ASSUME NEW r \in Requests, Moves(r) PROVE FromItsFetch(q)'
    <3>1. CASE q # r
      BY <1>1, <2>1, <2>2, <3>1, OthersSame
    <3>2. CASE q = r /\ \E f \in needFetch[r] : Fetch(r, f)
      <4>1. PICK f \in needFetch[r] : Fetch(r, f)
        BY <3>2
      <4>2. f \in Fetches
        BY <1>1 DEF TypeOK
      <4>3. PICK quotes \in CoinsMarketChartRange(f), rev \in Revisions :
              \/ Return(r, "bad_response")
              \/ /\ fetching' = [fetching EXCEPT ![r] = f]
                 /\ buckets' = [buckets EXCEPT ![r] =
                                  normalizeByOrder(f, quotes, rev)]
        BY <4>1 DEF Fetch
      <4>4. CASE Return(r, "bad_response")
        BY <1>1, <3>2, <4>4 DEF Return, FromItsFetch, TypeOK
      <4>5. CASE /\ fetching' = [fetching EXCEPT ![r] = f]
                 /\ buckets' = [buckets EXCEPT ![r] =
                                  normalizeByOrder(f, quotes, rev)]
        <5>1. now \in Int
          BY <1>1, RequestAssumption DEF TypeOK
        <5>2. /\ fetching'[r] = f
              /\ buckets'[r] = normalizeByOrder(f, quotes, rev)
          BY <1>1, <4>5 DEF TypeOK
        <5> QED
          BY <3>2, <4>2, <5>1, <5>2, NormalizeInPlace DEF FromItsFetch
      <4> QED
        BY <4>3, <4>4, <4>5
    <3>3. CASE q = r /\ ~ \E f \in needFetch[r] : Fetch(r, f)
      <4>1. pc'[r] # "upsert"
        BY <1>1, <2>2, <3>3
           DEF Moves, Step, ReturnEarly, Start, ReadBatch, Upsert, Reread, Price,
               Fail, UpsertReplyLost, Return, TypeOK
      <4> QED
        BY <3>3, <4>1 DEF FromItsFetch
    <3> QED
      BY <3>1, <3>2, <3>3
  <2>3. CASE Tick \/ UNCHANGED vars
    BY <2>1, <2>3 DEF Tick, vars, Same
  <2> QED
    BY <2>2, <2>3 DEF Next, Moves
<1> QED
  BY <1>1, <1>2, <1>3 DEF StoreInv

LEMMA StoreInvariant == Spec => []StoreInv
<1> QED
  BY StoreInit, StoreNext, PTL DEF Spec

\* If the provider samples as agreed, a stored row holds a quote of its own
\* bucket, whatever was fetched at whichever granularity in between.
THEOREM RowsHoldTheirOwnQuotes == ASSUME Agreed PROVE Spec => []BucketHoldsItsOwnQuote
<1>1. StoreInv => BucketHoldsItsOwnQuote
  <2> SUFFICES ASSUME StoreInv, NEW k \in DOMAIN table
               PROVE  /\ k[2] <= table[k].price.at
                      /\ table[k].price.at < k[2] + table[k].gran
    BY DEF BucketHoldsItsOwnQuote
  <2>1. table[k].price.at = k[2] /\ k[2] \in Int
    BY DEF StoreInv, InPlace, TypeOK, IsTable
  <2>2. table[k].gran \in Nat \ {0}
    BY BucketAssumption DEF StoreInv, TypeOK, IsTable, Rows, Granularities
  <2> QED
    BY <2>1, <2>2
<1> QED
  BY <1>1, StoreInvariant, PTL

\* Concurrent requests, however they interleave, fail and lose replies,
\* implement the price book: a recorded price stays or gets finer, one fetch
\* at a time.
THEOREM Refinement == Spec => ImplementsPriceBook
<1>1. Init => Book!Init
  BY DEF Init, Book!Init, NoRows
<1>2. StoreInv /\ [Next]_vars => [Book!Improve]_table
  <2> SUFFICES ASSUME StoreInv, [Next]_vars, table' # table PROVE Book!Improve
    OBVIOUS
  <2>1. PICK r \in Requests : /\ pc[r] = "upsert"
                              /\ Improves(table, buckets[r], table')
    BY TableSteps DEF StoreInv
  <2>3. DOMAIN table \subseteq DOMAIN table'
    BY <2>1 DEF Improves
  <2>4. \A k \in Book!Changed : /\ k \in DOMAIN buckets[r]
                                /\ table'[k] = buckets[r][k]
                                /\ k \in DOMAIN table => table'[k].gran < table[k].gran
    BY <2>1 DEF Book!Changed, Improves
  <2>5. \A k \in Book!Changed : /\ k[1] = fetching[r].coin
                                /\ table'[k].gran = fetching[r].g
    BY <2>1, <2>4 DEF StoreInv, FromItsFetch
  <2> QED
    BY <2>3, <2>4, <2>5 DEF Book!Improve
<1> QED
  BY <1>1, <1>2, StoreInvariant, PTL DEF Spec, ImplementsPriceBook, Book!Spec

------------------------------------------------------------------------------
(* Arithmetic of buckets and days.                                         *)

\* Division by g finds the largest multiple of g that is not above t.
LEMMA Division ==
  ASSUME NEW t \in Int, NEW g \in Nat \ {0}
  PROVE  /\ t \div g \in Int
         /\ (t \div g) * g <= t
         /\ t < (t \div g) * g + g
         /\ t >= 0 => t \div g >= 0
OBVIOUS

LEMMA LargestMultiple ==
  ASSUME NEW t \in Int, NEW g \in Nat \ {0}, NEW x \in Int, x * g <= t
  PROVE  x <= t \div g
<1> DEFINE q == t \div g
<1>1. q \in Int /\ t < q * g + g
  BY Division
<1> HIDE DEF q
<1>2. ASSUME x >= q + 1 PROVE FALSE
  <2>1. PICK e \in Nat : x = q + 1 + e
    BY <1>1, <1>2
  <2>2. x * g = q * g + g + e * g
    BY <1>1, <2>1
  <2>3. e * g >= 0
    BY <2>1
  <2>4. q * g \in Int /\ e * g \in Int
    BY <1>1, <2>1
  <2> QED
    BY <1>1, <2>2, <2>3, <2>4
<1>3. x <= q
  BY <1>1, <1>2
<1> QED
  BY <1>3 DEF q

\* A day is a whole number of buckets of every granularity.
LEMMA DayIsBuckets ==
  ASSUME NEW g \in Granularities
  PROVE  \E m \in Nat : Day = m * g
<1>0. {FiveMinutes, Hour, Day} \subseteq Nat \ {0} /\ Hour % FiveMinutes = 0 /\ Day % Hour = 0
  BY BucketAssumption
<1>1. \E m \in Nat : Hour = m * FiveMinutes
  <2>1. Hour = (Hour \div FiveMinutes) * FiveMinutes /\ Hour \div FiveMinutes \in Nat
    BY <1>0
  <2> QED
    BY <2>1
<1>2. \E m \in Nat : Day = m * Hour
  <2>1. Day = (Day \div Hour) * Hour /\ Day \div Hour \in Nat
    BY <1>0
  <2> QED
    BY <2>1
<1>3. \E m \in Nat : Day = m * FiveMinutes
  <2>1. PICK a \in Nat : Hour = a * FiveMinutes
    BY <1>1
  <2>2. PICK b \in Nat : Day = b * Hour
    BY <1>2
  <2>3. (b * a) \in Nat /\ Day = (b * a) * FiveMinutes
    BY <1>0, <2>1, <2>2
  <2> QED
    BY <2>3
<1>4. Day = 1 * Day
  BY <1>0
<1> QED
  BY <1>2, <1>3, <1>4 DEF Granularities

\* The bucket of an instant after the epoch is one of the buckets of the
\* instant's day, and the instant lies in it.
LEMMA BucketOfDay ==
  ASSUME NEW tx \in Nat, NEW g \in Granularities
  PROVE  /\ floorToBucket(tx, g) <= tx
         /\ tx < floorToBucket(tx, g) + g
         /\ truncateDayUTC(tx) <= tx
         /\ tx < truncateDayUTC(tx) + Day
         /\ \E j \in Nat : floorToBucket(tx, g) = truncateDayUTC(tx) + j * g
<1>1. g \in Nat \ {0} /\ Day \in Nat \ {0}
  BY BucketAssumption DEF Granularities
<1> DEFINE b == tx \div g
           q == tx \div Day
<1>2. floorToBucket(tx, g) = b * g /\ truncateDayUTC(tx) = q * Day
  BY DEF floorToBucket, GoDiv, truncateDayUTC
<1>3. /\ b \in Int /\ b * g <= tx /\ tx < b * g + g
      /\ q \in Int /\ q * Day <= tx /\ tx < q * Day + Day
  BY <1>1, Division
<1>4. PICK m \in Nat : Day = m * g
  BY DayIsBuckets
<1>5. \A x \in Int : x * g <= tx => x <= b
  BY <1>1, LargestMultiple
<1> HIDE DEF b, q
<1>6. q * m \in Int /\ (q * m) * g = q * Day
  BY <1>1, <1>3, <1>4
<1>7. q * m <= b
  BY <1>3, <1>5, <1>6
<1>8. b - q * m \in Nat /\ b * g = q * Day + (b - q * m) * g
  <2>1. (b - q * m) * g = b * g - (q * m) * g
    BY <1>1, <1>3, <1>6
  <2> QED
    BY <1>1, <1>3, <1>6, <1>7, <2>1
<1> QED
  BY <1>2, <1>3, <1>8

\* A day sampled at g has a point for each of its g-buckets that has begun.
LEMMA QuotesCover ==
  ASSUME NEW d \in Int, NEW g \in Granularities, NEW t \in Int, NEW j \in Nat,
         d + j * g <= t, j * g < Day
  PROVE  j + 1 \in 1 .. Len(Quotes(d, g, t))
<1> DEFINE last == IF t < d + Day THEN t - d ELSE Day - 1
           n == IF last < 0 THEN 0 ELSE last \div g + 1
<1>1. g \in Nat \ {0} /\ Day \in Nat \ {0}
  BY BucketAssumption DEF Granularities
<1>2. last \in Int /\ j * g \in Nat
  BY <1>1
<1>3. j * g <= last
  BY <1>1, <1>2
<1> HIDE DEF last
<1>4. j <= last \div g
  BY <1>1, <1>2, <1>3, LargestMultiple
<1>5. n = last \div g + 1 /\ n \in Nat
  BY <1>1, <1>2, <1>3, <1>4, Division
<1>6. Quotes(d, g, t) = [i \in 1 .. n |-> d + (i - 1) * g]
  BY DEF Quotes, last
<1> HIDE DEF n
<1>7. Len(Quotes(d, g, t)) = n
  BY <1>5, <1>6
<1> QED
  BY <1>1, <1>2, <1>4, <1>5, <1>7, Division

------------------------------------------------------------------------------
(* The invariant of the requests.                                          *)

\* What a request wants was computed by its start.
Planned(r) ==
  \A i \in DOMAIN wanted[r] :
    LET w == wanted[r][i]
    IN  /\ w.bucket = floorToBucket(w.txTime, w.desiredG)
        /\ w.dayStart = truncateDayUTC(w.txTime)

\* Where a request stands tells what its locals hold.
Control(r) ==
  /\ asOf[r] <= now
  /\ pc[r] \in {"idle", "read"} => rows[r] = <<>>
  /\ DOMAIN rows[r] \subseteq DOMAIN wanted[r]
  /\ pc[r] = "reread" => needFetch[r] = {}
  /\ outcome[r] # "none" => pc[r] = "done"
  /\ outcome[r] = "ok" => \A i \in DOMAIN rows[r] : rows[r][i] # NULL
  /\ outcome[r] = "price_unavailable" =>
       \E i \in DOMAIN rows[r] : rows[r][i] = NULL

Key(w) == <<w.coin, w.bucket>>

\* A row that was read is still there or has been replaced by a finer one.
ReadFromTable(r) ==
  \A i \in DOMAIN rows[r] :
    LET key == Key(wanted[r][i])
    IN  rows[r][i] # NULL => /\ key \in DOMAIN table
                            /\ \/ table[key] = rows[r][i]
                               \/ table[key].gran < rows[r][i].gran

\* Two requests that read a bucket at one granularity read the same row.
ReadsAgree(q, r) ==
  \A i \in DOMAIN rows[q], j \in DOMAIN rows[r] :
    /\ Key(wanted[q][i]) = Key(wanted[r][j])
    /\ rows[q][i] # NULL /\ rows[r][j] # NULL
    /\ rows[q][i].gran = rows[r][j].gran
    => rows[q][i] = rows[r][j]

ReadInv == /\ StoreInv
           /\ \A r \in Requests : /\ Planned(r)
                                  /\ Control(r)
                                  /\ ReadFromTable(r)
           /\ \A q, r \in Requests : ReadsAgree(q, r)

------------------------------------------------------------------------------

\* One step either belongs to a request or leaves all of them alone.
LEMMA Actors ==
  ASSUME TypeOK, [Next]_vars
  PROVE  \/ \A q \in Requests : Same(q)
         \/ \E r \in Requests : Moves(r) /\ \A q \in Requests \ {r} : Same(q)
<1>1. CASE Tick \/ UNCHANGED vars
  BY <1>1 DEF Tick, vars, Same
<1>2. ASSUME NEW r \in Requests, Moves(r)
      PROVE  \A q \in Requests \ {r} : Same(q)
  BY <1>2, OthersSame
<1> QED
  BY <1>1, <1>2 DEF Next, Moves

\* The clock never goes back.
LEMMA Clock ==
  ASSUME TypeOK, [Next]_vars
  PROVE  now \in Int /\ now' \in Int /\ now <= now'
<1>1. now \in Int
  BY RequestAssumption DEF TypeOK
<1> QED
  BY <1>1 DEF Next, Moves, Step, vars, Tick, ReturnEarly, Start, ReadBatch, Fetch,
              Upsert, Reread, Price, Fail, UpsertReplyLost

\* The table never loses a key, and a row of it is only replaced by a finer one.
LEMMA TableKeeps ==
  ASSUME TypeOK, [Next]_vars, NEW k \in DOMAIN table
  PROVE  /\ k \in DOMAIN table'
         /\ table'[k] = table[k] \/ table'[k].gran < table[k].gran
         /\ table[k].gran \in Int /\ table'[k].gran \in Int
<1>1. TypeOK'
  BY TypeNext
<1>2. k \in DOMAIN table' /\ (table'[k] = table[k] \/ table'[k].gran < table[k].gran)
  BY TableSteps DEF Improves
<1>3. table[k] \in Rows /\ table'[k] \in Rows
  BY <1>1, <1>2 DEF TypeOK, IsTable
<1> QED
  BY <1>2, <1>3, BucketAssumption DEF Rows, Granularities

\* What a batch read returns for the i-th key.
LEMMA BatchRead ==
  ASSUME NEW w \in Seq(Wants), NEW t
  PROVE  LET read == GetHistoricalPricesBatch(t, RepoKeys(w))
         IN  /\ DOMAIN read = DOMAIN w
             /\ \A i \in DOMAIN w :
                  read[i] = IF Key(w[i]) \in DOMAIN t THEN t[Key(w[i])] ELSE NULL
BY DEF GetHistoricalPricesBatch, RepoKeys, Key

\* The steps that read, seen from the request's locals.
Reads(r) ==
  /\ wanted'[r] = wanted[r]
  /\ asOf'[r] = asOf[r]
  /\ outcome'[r] = outcome[r]
  /\ UNCHANGED table
  /\ rows'[r] = GetHistoricalPricesBatch(table, RepoKeys(wanted[r]))
  /\ \/ pc[r] = "read" /\ pc'[r] \in {"price", "fetch"}
     \/ pc[r] = "reread" /\ pc'[r] = "price"

\* Every step of a request reads, starts it, or keeps its rows.
LEMMA RowsSteps ==
  ASSUME TypeOK, NEW r \in Requests, Moves(r)
  PROVE  \/ Reads(r)
         \/ \E batch \in Batches : Start(r, batch)
         \/ wanted'[r] = wanted[r] /\ asOf'[r] = asOf[r] /\ rows'[r] = rows[r]
BY DEF Moves, Step, ReturnEarly, ReadBatch, Fetch, Upsert, Reread, Price, Fail,
       UpsertReplyLost, Return, Reads, TypeOK

LEMMA ReadInit == Init => ReadInv
<1> SUFFICES ASSUME Init PROVE ReadInv
  OBVIOUS
<1>1. FirstNow \in Int
  BY RequestAssumption
<1>2. \A r \in Requests : Control(r)
  BY <1>1 DEF Init, Control
<1> QED
  BY <1>2, StoreInit DEF Init, ReadInv, Planned, ReadFromTable, ReadsAgree

LEMMA PlannedNext ==
  ASSUME ReadInv, [Next]_vars, NEW r \in Requests
  PROVE  Planned(r)'
<1>1. TypeOK
  BY DEF ReadInv, StoreInv
<1>2. CASE wanted'[r] = wanted[r]
  BY <1>2 DEF ReadInv, Planned
<1>3. ASSUME NEW batch \in Batches, Start(r, batch) PROVE Planned(r)'
  <2>1. wanted'[r] = [i \in 1 .. Len(batch) |-> Wanted(batch[i], now)]
    BY <1>1, <1>3 DEF Start, TypeOK
  <2> QED
    BY <2>1 DEF Planned, Wanted
<1>4. Moves(r) => (wanted'[r] = wanted[r] \/ \E batch \in Batches : Start(r, batch))
  BY <1>1, RowsSteps DEF Reads
<1> QED
  BY <1>1, <1>2, <1>3, <1>4, Actors DEF Same

LEMMA ReadFromTableNext ==
  ASSUME ReadInv, [Next]_vars, NEW r \in Requests
  PROVE  ReadFromTable(r)'
<1>1. TypeOK /\ TypeOK'
  BY TypeNext DEF ReadInv, StoreInv
<1>2. CASE wanted'[r] = wanted[r] /\ rows'[r] = rows[r]
  <2> SUFFICES ASSUME NEW i \in DOMAIN rows[r], rows[r][i] # NULL
               PROVE  /\ Key(wanted[r][i]) \in DOMAIN table'
                      /\ \/ table'[Key(wanted[r][i])] = rows[r][i]
                         \/ table'[Key(wanted[r][i])].gran < rows[r][i].gran
    BY <1>2 DEF ReadFromTable
  <2> DEFINE k == Key(wanted[r][i])
  <2>1. k \in DOMAIN table /\ (table[k] = rows[r][i] \/ table[k].gran < rows[r][i].gran)
    BY DEF ReadInv, ReadFromTable
  <2>2. rows[r][i].gran \in Int
    <3>1. rows[r] \in Seq(Rows \cup {NULL})
      BY <1>1 DEF TypeOK
    <3>2. rows[r][i] \in Rows
      BY <3>1
    <3> QED
      BY <3>2, BucketAssumption DEF Rows, Granularities
  <2> HIDE DEF k
  <2>3. /\ k \in DOMAIN table'
        /\ \/ table'[k] = rows[r][i]
           \/ table'[k].gran < rows[r][i].gran
    BY <1>1, <2>1, <2>2, TableKeeps
  <2> QED
    BY <2>3 DEF k
<1>3. CASE Reads(r)
  <2>1. wanted[r] \in Seq(Wants)
    BY <1>1 DEF TypeOK
  <2> QED
    BY <1>3, <2>1, BatchRead DEF Reads, ReadFromTable
<1>4. ASSUME NEW batch \in Batches, Start(r, batch) PROVE ReadFromTable(r)'
  <2>1. rows'[r] = <<>>
    BY <1>4 DEF Start, ReadInv, Control
  <2> QED
    BY <2>1 DEF ReadFromTable
<1> QED
  BY <1>1, <1>2, <1>3, <1>4, Actors, RowsSteps DEF Same

LEMMA ReadsAgreeNext ==
  ASSUME ReadInv, [Next]_vars, NEW q \in Requests, NEW r \in Requests
  PROVE  ReadsAgree(q, r)'
<1> DEFINE Kept(p) == wanted'[p] = wanted[p] /\ rows'[p] = rows[p]
           Fresh(p) == \A i \in DOMAIN rows'[p] :
                         rows'[p][i] # NULL => rows'[p][i] = table[Key(wanted'[p][i])]
<1>1. TypeOK
  BY DEF ReadInv, StoreInv
<1>2. ASSUME NEW p \in Requests, Moves(p) PROVE Kept(p) \/ Fresh(p)
  <2>1. CASE Reads(p)
    <3>1. wanted[p] \in Seq(Wants)
      BY <1>1 DEF TypeOK
    <3> QED
      BY <2>1, <3>1, BatchRead DEF Reads
  <2>2. ASSUME NEW batch \in Batches, Start(p, batch) PROVE Fresh(p)
    BY <2>2 DEF Start, ReadInv, Control
  <2> QED
    BY <1>1, <1>2, <2>1, <2>2, RowsSteps
<1>3. \/ Kept(q) /\ Kept(r)
      \/ Kept(q) /\ Fresh(r)
      \/ Fresh(q) /\ Kept(r)
      \/ Fresh(q) /\ Fresh(r)
  BY <1>1, <1>2, Actors DEF Same
<1>4. \A p \in Requests : Kept(p) =>
        \A i \in DOMAIN rows'[p] :
          LET key == Key(wanted'[p][i])
          IN  rows'[p][i] # NULL => \/ table[key] = rows'[p][i]
                                    \/ table[key].gran < rows'[p][i].gran
  BY DEF ReadInv, ReadFromTable
<1>5. \A p \in Requests : \A i \in DOMAIN rows'[p] :
        rows'[p][i] # NULL => rows'[p][i].gran \in Int
  <2> SUFFICES ASSUME NEW p \in Requests, NEW i \in DOMAIN rows'[p], rows'[p][i] # NULL
               PROVE  rows'[p][i].gran \in Int
    OBVIOUS
  <2>1. rows'[p] \in Seq(Rows \cup {NULL})
    BY <1>1, TypeNext DEF TypeOK
  <2>2. rows'[p][i] \in Rows
    BY <2>1
  <2> QED
    BY <2>2, BucketAssumption DEF Rows, Granularities
<1>6. CASE Kept(q) /\ Kept(r)
  BY <1>6 DEF ReadInv, ReadsAgree
<1> SUFFICES ASSUME NEW i \in DOMAIN rows'[q], NEW j \in DOMAIN rows'[r],
                    Key(wanted'[q][i]) = Key(wanted'[r][j]),
                    rows'[q][i] # NULL, rows'[r][j] # NULL,
                    rows'[q][i].gran = rows'[r][j].gran,
                    Fresh(q) \/ Fresh(r)
             PROVE  rows'[q][i] = rows'[r][j]
  BY <1>3, <1>6 DEF ReadsAgree
<1> HIDE DEF Kept
<1>7. CASE Kept(q) /\ Fresh(r)
  BY <1>4, <1>5, <1>7
<1>8. CASE Fresh(q) /\ Kept(r)
  BY <1>4, <1>5, <1>8
<1>9. CASE Fresh(q) /\ Fresh(r)
  BY <1>9
<1> QED
  BY <1>3, <1>6, <1>7, <1>8, <1>9

LEMMA ControlNext ==
  ASSUME ReadInv, [Next]_vars, NEW r \in Requests
  PROVE  Control(r)'
<1>1. TypeOK /\ now \in Int /\ now' \in Int /\ now <= now'
  BY Clock DEF ReadInv, StoreInv
<1>2. asOf[r] \in Int /\ Control(r)
  BY <1>1, RequestAssumption DEF ReadInv, TypeOK
<1>3. CASE Same(r)
  BY <1>1, <1>2, <1>3 DEF Same, Control
<1>4. CASE ReturnEarly(r)
  BY <1>1, <1>2, <1>4 DEF ReturnEarly, Return, Control, TypeOK
<1>5. ASSUME NEW batch \in Batches, Start(r, batch) PROVE Control(r)'
  BY <1>1, <1>2, <1>5 DEF Start, Control, TypeOK
<1>6. CASE ReadBatch(r) \/ Reread(r)
  <2>1. wanted[r] \in Seq(Wants)
    BY <1>1 DEF TypeOK
  <2>2. DOMAIN rows'[r] = DOMAIN wanted'[r]
    BY <1>1, <1>6, <2>1, BatchRead DEF ReadBatch, Reread, TypeOK
  <2>3. /\ asOf'[r] = asOf[r] /\ now' = now /\ outcome'[r] = outcome[r]
        /\ pc[r] \in {"read", "reread"} /\ pc'[r] \in {"price", "fetch"}
    BY <1>1, <1>6 DEF ReadBatch, Reread, TypeOK
  <2> QED
    BY <1>2, <2>2, <2>3 DEF Control
<1>7. CASE \E f \in needFetch[r] : Fetch(r, f)
  BY <1>1, <1>2, <1>7 DEF Fetch, Return, Control, TypeOK
<1>8. CASE Upsert(r)
  <2>1. /\ pc'[r] = IF StillToFetch(r) = {} THEN "reread" ELSE "fetch"
        /\ needFetch'[r] = StillToFetch(r)
    BY <1>1, <1>8 DEF Upsert, TypeOK
  <2> QED
    BY <1>2, <1>8, <2>1 DEF Upsert, Control
<1>9. CASE Price(r)
  <2> DEFINE noPrice(i) == Missing(rows[r][i])
  <2>1. \/ Return(r, "ok") /\ \A i \in DOMAIN rows[r] : ~noPrice(i)
        \/ Return(r, "price_unavailable") /\ \E i \in DOMAIN rows[r] : noPrice(i)
        \/ Return(r, "fx_unavailable")
    BY <1>9 DEF Price
  <2>2. pc[r] = "price" /\ UNCHANGED <<now, table, asOf, wanted, rows>>
    BY <1>9 DEF Price
  <2> QED
    BY <1>1, <1>2, <2>1, <2>2 DEF Return, Control, Missing, TypeOK
<1>10. CASE Fail(r) \/ UpsertReplyLost(r)
  BY <1>1, <1>2, <1>10 DEF Fail, UpsertReplyLost, Return, Control, TypeOK
<1> QED
  BY <1>1, <1>3, <1>4, <1>5, <1>6, <1>7, <1>8, <1>9, <1>10, Actors DEF Moves, Step

LEMMA ReadInvariant == Spec => []ReadInv
<1>1. ReadInv /\ [Next]_vars => ReadInv'
  BY StoreNext, PlannedNext, ControlNext, ReadFromTableNext, ReadsAgreeNext DEF ReadInv
<1> QED
  BY <1>1, ReadInit, PTL DEF Spec

\* Whoever asks again for a bucket and is answered at the same granularity is
\* told the same price, although the provider may have revised it since.
THEOREM Repeatable == Spec => []AnswersRepeat
<1>1. ReadInv => AnswersRepeat
  <2> SUFFICES ASSUME ReadInv, NEW q \in Requests, NEW r \in Requests,
                      Answered(q), Answered(r),
                      NEW i \in DOMAIN rows[q], NEW j \in DOMAIN rows[r],
                      RepoKeys(wanted[q])[i] = RepoKeys(wanted[r])[j],
                      rows[q][i].gran = rows[r][j].gran
               PROVE  rows[q][i].price = rows[r][j].price
    BY DEF AnswersRepeat
  <2>1. rows[q][i] # NULL /\ rows[r][j] # NULL
    BY DEF ReadInv, Control, Answered
  <2>2. /\ wanted[q] \in Seq(Wants) /\ i \in DOMAIN wanted[q]
        /\ wanted[r] \in Seq(Wants) /\ j \in DOMAIN wanted[r]
    BY DEF ReadInv, Control, StoreInv, TypeOK
  <2>3. Key(wanted[q][i]) = Key(wanted[r][j])
    BY <2>2 DEF RepoKeys, Key
  <2> QED
    BY <2>1, <2>3 DEF ReadInv, ReadsAgree
<1> QED
  BY <1>1, ReadInvariant, PTL

------------------------------------------------------------------------------
(* If the provider samples as agreed, what a request plans to fetch and     *)
(* what the table holds together cover everything it can price.            *)

HasRow(t, w) == Key(w) \in DOMAIN t /\ t[Key(w)].gran <= w.desiredG

\* A key in range is fine enough in the table, or its day is still to fetch.
Covered(r) ==
  pc[r] \in {"fetch", "upsert", "reread"} =>
    \A i \in Valued(r) : \/ FetchKey(wanted[r][i]) \in needFetch[r]
                         \/ HasRow(table, wanted[r][i])

\* The fetch in hand brings the bucket of every key it was planned for.
Brings(r) ==
  pc[r] = "upsert" =>
    \A i \in Valued(r) : FetchKey(wanted[r][i]) = fetching[r] =>
                           Key(wanted[r][i]) \in DOMAIN buckets[r]

\* The rows that are priced are there and fine enough.
Settled(r) ==
  pc[r] = "price" \/ outcome[r] \in {"ok", "price_unavailable"} =>
    \A i \in Valued(r) : /\ rows[r][i] # NULL
                         /\ rows[r][i].gran <= wanted[r][i].desiredG

\* The quotes that were read are those of the start of the wanted buckets.
ReadInPlace(r) ==
  \A i \in DOMAIN rows[r] :
    rows[r][i] # NULL => rows[r][i].price.at = wanted[r][i].bucket

CoverInv == /\ ReadInv
            /\ \A r \in Requests : /\ Covered(r)
                                   /\ Brings(r)
                                   /\ Settled(r)
                                   /\ ReadInPlace(r)

\* A key in range is a transaction after the epoch and before what the provider
\* may lack, and its bucket and day were computed from it.
LEMMA ValuedType ==
  ASSUME ReadInv, NEW r \in Requests, NEW i \in Valued(r)
  PROVE  /\ i \in DOMAIN wanted[r]
         /\ wanted[r][i] \in Wants
         /\ wanted[r][i].txTime \in Nat
         /\ wanted[r][i].txTime <= asOf[r] - MostLag
         /\ wanted[r][i].bucket = floorToBucket(wanted[r][i].txTime, wanted[r][i].desiredG)
         /\ wanted[r][i].dayStart = truncateDayUTC(wanted[r][i].txTime)
<1>1. wanted[r] \in Seq(Wants)
  BY DEF ReadInv, StoreInv, TypeOK
<1>2. i \in DOMAIN wanted[r]
  BY DEF ReadInv, Control, Valued
<1>3. wanted[r][i] \in Wants
  BY <1>1, <1>2, ElementOf
<1>4. wanted[r][i].txTime \in Int
  BY <1>3 DEF Wants
<1> QED
  BY <1>2, <1>3, <1>4 DEF Valued, ReadInv, Planned

\* A row that is fine enough stays, or gets finer.
LEMMA HasRowKept ==
  ASSUME TypeOK, [Next]_vars, NEW w \in Wants, HasRow(table, w)
  PROVE  HasRow(table', w)
<1>1. w.desiredG \in Int
  BY BucketAssumption DEF Wants, Granularities
<1> DEFINE k == Key(w)
<1>2. k \in DOMAIN table /\ table[k].gran <= w.desiredG
  BY DEF HasRow
<1> HIDE DEF k
<1>3. k \in DOMAIN table' /\ table'[k].gran <= w.desiredG
  BY <1>1, <1>2, TableKeeps
<1> QED
  BY <1>3 DEF k, HasRow, Key

\* The normalised rows of a day have a key for each point of the day.
LEMMA NormalizeKeys ==
  ASSUME NEW f \in Fetches, NEW quotes, NEW rev, NEW j \in Nat,
         j + 1 \in 1 .. Len(quotes)
  PROVE  <<f.coin, f.dayStart + j * f.g>> \in DOMAIN normalizeByOrder(f, quotes, rev)
<1>1. (j + 1) - 1 = j
  OBVIOUS
<1>2. <<f.coin, f.dayStart + ((j + 1) - 1) * f.g>>
        \in {<<f.coin, f.dayStart + (i - 1) * f.g>> : i \in 1 .. Len(quotes)}
  OBVIOUS
<1> QED
  BY <1>1, <1>2 DEF normalizeByOrder

\* The day fetched for a key in range has the key's bucket.
LEMMA FetchBrings ==
  ASSUME ReadInv, Agreed, NEW r \in Requests, NEW i \in Valued(r), NEW rev,
         NEW f \in Fetches, f = FetchKey(wanted[r][i]),
         NEW quotes \in CoinsMarketChartRange(f)
  PROVE  Key(wanted[r][i]) \in DOMAIN normalizeByOrder(f, quotes, rev)
<1> DEFINE w == wanted[r][i]
           tx == w.txTime
           g == w.desiredG
<1>1. /\ w \in Wants /\ tx \in Nat /\ tx <= asOf[r] - MostLag
      /\ w.bucket = floorToBucket(tx, g) /\ w.dayStart = truncateDayUTC(tx)
  BY ValuedType
<1>2. /\ asOf[r] \in Int /\ now \in Int /\ asOf[r] <= now
      /\ MostLag \in Nat
  BY RequestAssumption DEF ReadInv, Control, StoreInv, TypeOK
<1>3. f.coin = w.coin /\ f.dayStart = w.dayStart /\ f.g = g /\ g \in Granularities
  BY <1>1 DEF FetchKey, Wants
<1>4. PICK lag \in 0 .. MostLag : quotes = Quotes(w.dayStart, g, now - lag)
  BY <1>3 DEF CoinsMarketChartRange
<1>5. w.dayStart \in Int /\ g \in Nat \ {0} /\ Day \in Nat
  BY <1>1, BucketAssumption DEF Wants, Granularities
<1> HIDE DEF w, tx, g
<1>6. PICK j \in Nat : w.bucket = w.dayStart + j * g
  BY <1>1, <1>3, BucketOfDay
<1>7. w.bucket <= tx /\ tx < w.dayStart + Day
  BY <1>1, <1>3, BucketOfDay
<1>8. j * g \in Int
  BY <1>5
<1>9. /\ now - lag \in Int /\ asOf[r] - MostLag <= now - lag
      /\ w.dayStart + j * g <= now - lag /\ j * g < Day
  <2>1. now - lag \in Int /\ asOf[r] - MostLag <= now - lag
    BY <1>2
  <2>2. tx <= now - lag
    BY <1>1, <1>2, <2>1
  <2> QED
    BY <1>1, <1>5, <1>6, <1>7, <1>8, <2>1, <2>2
<1>10. j + 1 \in 1 .. Len(quotes)
  BY <1>2, <1>3, <1>4, <1>5, <1>9, QuotesCover
<1>11. <<w.coin, w.bucket>> \in DOMAIN normalizeByOrder(f, quotes, rev)
  BY <1>3, <1>6, <1>10, NormalizeKeys
<1> QED
  BY <1>11 DEF Key, w

LEMMA BringsNext ==
  ASSUME CoverInv, Agreed, [Next]_vars, NEW r \in Requests
  PROVE  Brings(r)'
<1>1. TypeOK /\ ReadInv /\ Brings(r)
  BY DEF CoverInv, ReadInv, StoreInv
<1>2. CASE Same(r)
  BY <1>1, <1>2 DEF Same, Brings, Valued
<1>3. ASSUME NEW f \in needFetch[r], Fetch(r, f) PROVE Brings(r)'
  <2>1. f \in Fetches
    BY <1>1 DEF TypeOK
  <2>2. PICK quotes \in CoinsMarketChartRange(f), rev \in Revisions :
          \/ pc'[r] = "done"
          \/ fetching'[r] = f /\ buckets'[r] = normalizeByOrder(f, quotes, rev)
    BY <1>1, <1>3 DEF Fetch, Return, TypeOK
  <2>3. UNCHANGED <<wanted, rows, asOf>>
    BY <1>3 DEF Fetch
  <2> SUFFICES ASSUME NEW i \in Valued(r), FetchKey(wanted[r][i]) = f,
                      buckets'[r] = normalizeByOrder(f, quotes, rev)
               PROVE  Key(wanted[r][i]) \in DOMAIN buckets'[r]
    BY <2>2, <2>3 DEF Brings, Valued
  <2> QED
    BY <1>1, <2>1, FetchBrings
<1>4. CASE Moves(r) /\ ~ \E f \in needFetch[r] : Fetch(r, f)
  <2>1. pc'[r] # "upsert"
    BY <1>1, <1>4
       DEF Moves, Step, ReturnEarly, Start, ReadBatch, Upsert, Reread, Price,
           Fail, UpsertReplyLost, Return, TypeOK
  <2> QED
    BY <2>1 DEF Brings
<1> QED
  BY <1>1, <1>2, <1>3, <1>4, Actors DEF Moves

LEMMA CoveredNext ==
  ASSUME CoverInv, Agreed, [Next]_vars, NEW r \in Requests
  PROVE  Covered(r)'
<1>1. TypeOK /\ ReadInv /\ Covered(r) /\ Brings(r) /\ FromItsFetch(r)
  BY DEF CoverInv, ReadInv, StoreInv
<1>2. \A i \in Valued(r) : HasRow(table, wanted[r][i]) => HasRow(table', wanted[r][i])
  <2> SUFFICES ASSUME NEW i \in Valued(r), HasRow(table, wanted[r][i])
               PROVE  HasRow(table', wanted[r][i])
    OBVIOUS
  <2>1. wanted[r][i] \in Wants
    BY <1>1, ValuedType
  <2> QED
    BY <1>1, <2>1, HasRowKept
<1>3. CASE Same(r)
  BY <1>1, <1>2, <1>3 DEF Same, Covered, Valued
<1>4. CASE ReadBatch(r)
  <2>1. wanted[r] \in Seq(Wants)
    BY <1>1 DEF TypeOK
  <2> DEFINE read == GetHistoricalPricesBatch(table, RepoKeys(wanted[r]))
  <2>2. /\ rows'[r] = read /\ needFetch'[r] = NeedFetch(wanted[r], read)
        /\ wanted'[r] = wanted[r] /\ asOf'[r] = asOf[r] /\ table' = table
    BY <1>1, <1>4 DEF ReadBatch, TypeOK
  <2>3. /\ DOMAIN read = DOMAIN wanted[r]
        /\ \A i \in DOMAIN wanted[r] :
             read[i] = IF Key(wanted[r][i]) \in DOMAIN table
                       THEN table[Key(wanted[r][i])] ELSE NULL
    BY <2>1, BatchRead
  <2> HIDE DEF read
  <2> SUFFICES ASSUME NEW i \in DOMAIN read
               PROVE  \/ FetchKey(wanted[r][i]) \in NeedFetch(wanted[r], read)
                      \/ HasRow(table, wanted[r][i])
    BY <2>2 DEF Covered, Valued
  <2>4. i \in 1 .. Len(wanted[r])
    BY <2>1, <2>3
  <2>5. CASE Missing(read[i]) \/ Upgrade(read[i], wanted[r][i])
    BY <2>5 DEF NeedFetch
  <2>6. CASE ~ Missing(read[i]) /\ ~ Upgrade(read[i], wanted[r][i])
    <3>1. Key(wanted[r][i]) \in DOMAIN table /\ read[i] = table[Key(wanted[r][i])]
      BY <2>3, <2>6 DEF Missing
    <3>2. read[i].gran \in Int /\ wanted[r][i].desiredG \in Int
      <4>1. wanted[r][i] \in Wants
        BY <2>1, <2>4, ElementOf
      <4>2. read[i] \in Rows
        BY <1>1, <3>1 DEF TypeOK, IsTable
      <4> QED
        BY <4>1, <4>2, BucketAssumption DEF Wants, Rows, Granularities
    <3> QED
      BY <2>6, <3>1, <3>2 DEF Upgrade, HasRow
  <2> QED
    BY <2>5, <2>6
<1>5. CASE Upsert(r)
  <2>1. /\ pc[r] = "upsert" /\ needFetch'[r] = needFetch[r] \ {fetching[r]}
        /\ table' = UpsertHistoricalPricesBatch(table, buckets[r])
        /\ UNCHANGED <<wanted, rows, asOf>>
    BY <1>1, <1>5 DEF Upsert, StillToFetch, TypeOK
  <2>2. Improves(table, buckets[r], table')
    BY <1>1, <2>1, UpsertImproves DEF TypeOK
  <2> SUFFICES ASSUME NEW i \in Valued(r)
               PROVE  \/ FetchKey(wanted[r][i]) \in needFetch'[r]
                      \/ HasRow(table', wanted[r][i])
    BY <2>1 DEF Covered, Valued
  <2>3. CASE FetchKey(wanted[r][i]) = fetching[r]
    <3>1. Key(wanted[r][i]) \in DOMAIN buckets[r]
      BY <1>1, <2>1, <2>3 DEF Brings
    <3>2. buckets[r][Key(wanted[r][i])].gran = wanted[r][i].desiredG
      BY <1>1, <2>1, <2>3, <3>1 DEF FromItsFetch, FetchKey
    <3> QED
      BY <2>2, <3>1, <3>2 DEF Improves, HasRow
  <2>4. CASE FetchKey(wanted[r][i]) # fetching[r]
    BY <1>1, <1>2, <2>1, <2>4 DEF Covered
  <2> QED
    BY <2>3, <2>4
<1>6. CASE \E f \in needFetch[r] : Fetch(r, f)
  <2>1. \/ pc'[r] = "done"
        \/ /\ needFetch'[r] = needFetch[r]
           /\ pc[r] = "fetch"
           /\ UNCHANGED <<wanted, rows, asOf, table>>
    BY <1>1, <1>6 DEF Fetch, Return, TypeOK
  <2> QED
    BY <1>1, <2>1 DEF Covered, Valued
<1>7. CASE Moves(r) /\ ~ReadBatch(r) /\ ~Upsert(r) /\ ~ \E f \in needFetch[r] : Fetch(r, f)
  <2>1. pc'[r] \notin {"fetch", "upsert", "reread"}
    BY <1>1, <1>7
       DEF Moves, Step, ReturnEarly, Start, Reread, Price, Fail, UpsertReplyLost,
           Return, TypeOK
  <2> QED
    BY <2>1 DEF Covered
<1> QED
  BY <1>1, <1>3, <1>4, <1>5, <1>6, <1>7, Actors

LEMMA SettledNext ==
  ASSUME CoverInv, Agreed, [Next]_vars, NEW r \in Requests
  PROVE  Settled(r)'
<1>1. TypeOK /\ ReadInv /\ Covered(r) /\ Settled(r) /\ Control(r)
  BY DEF CoverInv, ReadInv, StoreInv
<1>2. CASE Same(r)
  BY <1>1, <1>2 DEF Same, Settled, Valued
<1>3. ASSUME ReadBatch(r), pc'[r] = "price" PROVE Settled(r)'
  <2> DEFINE read == GetHistoricalPricesBatch(table, RepoKeys(wanted[r]))
  <2>1. wanted[r] \in Seq(Wants)
    BY <1>1 DEF TypeOK
  <2>2. /\ NeedFetch(wanted[r], read) = {} /\ rows'[r] = read
        /\ wanted'[r] = wanted[r] /\ asOf'[r] = asOf[r]
    BY <1>1, <1>3 DEF ReadBatch, TypeOK
  <2>3. read \in Seq(Rows \cup {NULL}) /\ Len(read) = Len(wanted[r])
    BY <1>1, <2>1, GetBatchType DEF TypeOK
  <2> HIDE DEF read
  <2> SUFFICES ASSUME NEW i \in DOMAIN read
               PROVE  read[i] # NULL /\ read[i].gran <= wanted[r][i].desiredG
    BY <2>2 DEF Settled, Valued
  <2>4. read[i] # NULL /\ ~ (read[i].gran > wanted[r][i].desiredG)
    <3>1. i \in 1 .. Len(wanted[r])
      BY <2>1, <2>3
    <3> QED
      BY <2>2, <3>1 DEF NeedFetch, Missing, Upgrade
  <2>5. wanted[r][i] \in Wants
    BY <2>1, <2>3, ElementOf
  <2>6. read[i] \in Rows
    BY <2>3, <2>4
  <2>7. read[i].gran \in Int /\ wanted[r][i].desiredG \in Int
    BY <2>5, <2>6, BucketAssumption DEF Wants, Rows, Granularities
  <2> QED
    BY <2>4, <2>7
<1>4. CASE Reread(r)
  <2>1. wanted[r] \in Seq(Wants)
    BY <1>1 DEF TypeOK
  <2>2. /\ wanted'[r] = wanted[r] /\ asOf'[r] = asOf[r] /\ pc[r] = "reread"
        /\ rows'[r] = GetHistoricalPricesBatch(table, RepoKeys(wanted[r]))
    BY <1>1, <1>4 DEF Reread, TypeOK
  <2>3. /\ DOMAIN rows'[r] = DOMAIN wanted[r]
        /\ \A i \in DOMAIN wanted[r] :
             rows'[r][i] = IF Key(wanted[r][i]) \in DOMAIN table
                           THEN table[Key(wanted[r][i])] ELSE NULL
    BY <2>1, <2>2, BatchRead
  <2>4. DOMAIN rows[r] = DOMAIN wanted[r]
    <3>1. rows[r] \in Seq(Rows \cup {NULL}) /\ Len(rows[r]) = Len(wanted[r])
      BY <1>1, <2>2 DEF TypeOK
    <3> QED
      BY <2>1, <3>1
  <2> SUFFICES ASSUME NEW i \in Valued(r)
               PROVE  rows'[r][i] # NULL /\ rows'[r][i].gran <= wanted[r][i].desiredG
    BY <2>2, <2>3, <2>4 DEF Settled, Valued
  <2>5. HasRow(table, wanted[r][i])
    BY <1>1, <2>2 DEF Covered, Control
  <2>6. rows'[r][i] = table[Key(wanted[r][i])]
    BY <1>1, <2>3, <2>5, ValuedType DEF HasRow
  <2>7. table[Key(wanted[r][i])] # NULL
    BY <1>1, <2>5, NullAssumption DEF HasRow, TypeOK, IsTable
  <2> QED
    BY <2>5, <2>6, <2>7 DEF HasRow
<1>5. CASE Price(r)
  <2>1. pc[r] = "price" /\ UNCHANGED <<wanted, rows, asOf>>
    BY <1>5 DEF Price
  <2> QED
    BY <1>1, <2>1 DEF Settled, Valued
<1>6. CASE ReturnEarly(r)
  <2>1. rows'[r] = <<>>
    BY <1>1, <1>6 DEF ReturnEarly, Control
  <2> QED
    BY <2>1 DEF Settled, Valued
<1>7. CASE /\ Moves(r) /\ ~Reread(r) /\ ~Price(r) /\ ~ReturnEarly(r)
           /\ ~ (ReadBatch(r) /\ pc'[r] = "price")
  <2>1. pc'[r] # "price" /\ outcome'[r] \notin {"ok", "price_unavailable"}
    BY <1>1, <1>7
       DEF Moves, Step, Start, ReadBatch, Fetch, Upsert, Fail, UpsertReplyLost,
           Return, Control, TypeOK
  <2> QED
    BY <2>1 DEF Settled
<1> QED
  BY <1>1, <1>2, <1>3, <1>4, <1>5, <1>6, <1>7, Actors

LEMMA ReadInPlaceNext ==
  ASSUME CoverInv, Agreed, [Next]_vars, NEW r \in Requests
  PROVE  ReadInPlace(r)'
<1>1. TypeOK /\ InPlace /\ ReadInPlace(r) /\ Control(r)
  BY DEF CoverInv, ReadInv, StoreInv
<1>2. CASE wanted'[r] = wanted[r] /\ rows'[r] = rows[r]
  BY <1>1, <1>2 DEF ReadInPlace
<1>3. CASE Reads(r)
  <2>1. wanted[r] \in Seq(Wants)
    BY <1>1 DEF TypeOK
  <2>2. /\ DOMAIN rows'[r] = DOMAIN wanted[r]
        /\ \A i \in DOMAIN wanted[r] :
             rows'[r][i] = IF Key(wanted[r][i]) \in DOMAIN table
                           THEN table[Key(wanted[r][i])] ELSE NULL
    BY <1>3, <2>1, BatchRead DEF Reads
  <2>3. \A k \in DOMAIN table : table[k].price.at = k[2]
    BY <1>1 DEF InPlace
  <2>4. \A w \in Wants : Key(w)[2] = w.bucket
    BY DEF Key
  <2>5. wanted'[r] = wanted[r]
    BY <1>3 DEF Reads
  <2> SUFFICES ASSUME NEW i \in DOMAIN wanted[r], rows'[r][i] # NULL
               PROVE  rows'[r][i].price.at = wanted[r][i].bucket
    BY <2>2, <2>5 DEF ReadInPlace
  <2>6. wanted[r][i] \in Wants
    BY <2>1, ElementOf
  <2> QED
    BY <2>2, <2>3, <2>4, <2>6
<1>4. ASSUME NEW batch \in Batches, Start(r, batch) PROVE ReadInPlace(r)'
  <2>1. rows'[r] = <<>>
    BY <1>1, <1>4 DEF Start, Control
  <2> QED
    BY <2>1 DEF ReadInPlace
<1> QED
  BY <1>1, <1>2, <1>3, <1>4, Actors, RowsSteps DEF Same

LEMMA CoverInit == Init => CoverInv
BY ReadInit DEF Init, CoverInv, Covered, Brings, Settled, ReadInPlace

LEMMA CoverInvariant == ASSUME Agreed PROVE Spec => []CoverInv
<1>1. CoverInv /\ [Next]_vars => CoverInv'
  <2> SUFFICES ASSUME CoverInv, [Next]_vars PROVE CoverInv'
    OBVIOUS
  <2>1. ReadInv'
    BY StoreNext, PlannedNext, ControlNext, ReadFromTableNext, ReadsAgreeNext
       DEF CoverInv, ReadInv
  <2> QED
    BY <2>1, CoveredNext, BringsNext, SettledNext, ReadInPlaceNext DEF CoverInv
<1> QED
  BY <1>1, CoverInit, PTL DEF Spec

\* If the provider samples as agreed, no answer about the past uses a row
\* coarser than the policy of its own moment asks for.
THEOREM FineEnough == ASSUME Agreed PROVE Spec => []NoCoarserThanDesired
<1>1. CoverInv => NoCoarserThanDesired
  BY DEF CoverInv, Settled, NoCoarserThanDesired, Answered
<1> QED
  BY <1>1, CoverInvariant, PTL

\* If the provider samples as agreed, a request that is told a price is
\* unavailable asked for a time the provider may have had no point for yet, or
\* before the epoch.
THEOREM NothingInRangeIsUnavailable ==
  ASSUME Agreed PROVE Spec => []UnavailableOnlyOutsideRange
<1>1. CoverInv => UnavailableOnlyOutsideRange
  <2> SUFFICES ASSUME CoverInv, NEW r \in Requests, outcome[r] = "price_unavailable"
               PROVE  \E i \in DOMAIN wanted[r] : \/ wanted[r][i].txTime > asOf[r] - MostLag
                                                  \/ wanted[r][i].txTime < 0
    BY DEF UnavailableOnlyOutsideRange
  <2>1. PICK i \in DOMAIN rows[r] : rows[r][i] = NULL
    BY DEF CoverInv, ReadInv, Control
  <2>2. i \notin Valued(r)
    BY <2>1 DEF CoverInv, Settled
  <2>3. i \in DOMAIN wanted[r]
    BY <2>1 DEF CoverInv, ReadInv, Control
  <2>4. wanted[r][i].txTime \in Int /\ asOf[r] \in Int
    <3>1. wanted[r] \in Seq(Wants)
      BY DEF CoverInv, ReadInv, StoreInv, TypeOK
    <3>2. wanted[r][i] \in Wants
      BY <2>3, <3>1, ElementOf
    <3> QED
      BY <3>2, RequestAssumption DEF CoverInv, ReadInv, StoreInv, TypeOK, Wants
  <2> QED
    BY <2>1, <2>2, <2>3, <2>4, RequestAssumption DEF Valued
<1> QED
  BY <1>1, CoverInvariant, PTL

\* If the provider samples as agreed, a transaction is valued at a quote not
\* after it, and less than a bucket of its policy before it.
THEOREM NearItsTime == ASSUME Agreed PROVE Spec => []ValuedNearItsTime
<1>1. CoverInv => ValuedNearItsTime
  <2> SUFFICES ASSUME CoverInv, NEW r \in Requests, Answered(r), NEW i \in Valued(r)
               PROVE  /\ rows[r][i].price.at <= wanted[r][i].txTime
                      /\ wanted[r][i].txTime < rows[r][i].price.at + wanted[r][i].desiredG
    BY DEF ValuedNearItsTime
  <2>1. rows[r][i].price.at = wanted[r][i].bucket
    BY DEF CoverInv, Settled, ReadInPlace, Answered, Valued
  <2>2. /\ wanted[r][i].txTime \in Nat
        /\ wanted[r][i].desiredG \in Granularities
        /\ wanted[r][i].bucket = floorToBucket(wanted[r][i].txTime, wanted[r][i].desiredG)
    BY ValuedType DEF CoverInv, Wants
  <2> QED
    BY <2>1, <2>2, BucketOfDay
<1> QED
  BY <1>1, CoverInvariant, PTL

------------------------------------------------------------------------------
(* Batches sent again, and batches in another order.                       *)

\* The table has every row of b or a finer one in its place.
StoredIn(b, t) == \A k \in DOMAIN b : k \in DOMAIN t /\ t[k].gran <= b[k].gran

LEMMA StoredIsStored ==
  ASSUME NEW b, NEW t, IsTable(b), IsTable(t), StoredIn(b, t)
  PROVE  UpsertHistoricalPricesBatch(t, b) = t
<1>1. DOMAIN t \cup DOMAIN b = DOMAIN t
  BY DEF StoredIn
<1>2. ASSUME NEW k \in DOMAIN b PROVE ~Finer(b[k], t[k])
  <2>1. b[k].gran \in Int /\ t[k].gran \in Int /\ t[k].gran <= b[k].gran
    BY BucketAssumption DEF StoredIn, IsTable, Rows, Granularities
  <2> QED
    BY <2>1 DEF Finer
<1>3. UpsertHistoricalPricesBatch(t, b) = [k \in DOMAIN t |-> t[k]]
  BY <1>1, <1>2 DEF UpsertHistoricalPricesBatch
<1> QED
  BY <1>3 DEF IsTable

\* An upsert that is executed, whether or not its caller hears of it, stores
\* the whole day; from then on repeating it, however late and whatever other
\* requests have stored since, changes nothing.
THEOREM RetryChangesNothing ==
  ASSUME NEW CONSTANT b, IsTable(b)
  PROVE  Spec => /\ [](StoredIn(b, table) => [](UpsertHistoricalPricesBatch(table, b) = table))
                 /\ [][\A r \in Requests : Upsert(r) \/ UpsertReplyLost(r) =>
                         StoredIn(buckets[r], table')]_vars
<1>1. TypeOK => (StoredIn(b, table) => UpsertHistoricalPricesBatch(table, b) = table)
  BY StoredIsStored DEF TypeOK
<1>2. TypeOK /\ [Next]_vars /\ StoredIn(b, table) => StoredIn(b, table)'
  <2> SUFFICES ASSUME TypeOK, [Next]_vars, StoredIn(b, table), NEW k \in DOMAIN b
               PROVE  k \in DOMAIN table' /\ table'[k].gran <= b[k].gran
    BY DEF StoredIn
  <2>1. k \in DOMAIN table /\ table[k].gran <= b[k].gran /\ table[k].gran \in Int /\ b[k].gran \in Int
    BY BucketAssumption DEF StoredIn, TypeOK, IsTable, Rows, Granularities
  <2>2. CASE UNCHANGED table
    BY <2>1, <2>2
  <2>3. ASSUME NEW r \in Requests, Improves(table, buckets[r], table')
        PROVE  k \in DOMAIN table' /\ table'[k].gran <= b[k].gran
    <3>1. /\ k \in DOMAIN table'
          /\ table'[k] = table[k] \/ table'[k].gran < table[k].gran
      BY <2>1, <2>3 DEF Improves
    <3>2. k \in DOMAIN buckets[r] => buckets[r][k].gran \in Int
      BY BucketAssumption DEF TypeOK, IsTable, Rows, Granularities
    <3>3. table'[k].gran \in Int
      BY <2>1, <2>3, <3>1, <3>2 DEF Improves
    <3> QED
      BY <2>1, <3>1, <3>3
  <2> QED
    BY <2>2, <2>3, TableSteps
<1>3. TypeOK => [\A r \in Requests : Upsert(r) \/ UpsertReplyLost(r) =>
                   StoredIn(buckets[r], table')]_vars
  <2> SUFFICES ASSUME TypeOK, NEW r \in Requests, Upsert(r) \/ UpsertReplyLost(r)
               PROVE  StoredIn(buckets[r], table')
    OBVIOUS
  <2>1. /\ IsTable(table) /\ IsTable(buckets[r])
        /\ table' = UpsertHistoricalPricesBatch(table, buckets[r])
    BY DEF TypeOK, Upsert, UpsertReplyLost
  <2>2. Improves(table, buckets[r], table')
    BY <2>1, UpsertImproves
  <2> QED
    BY <2>2 DEF Improves, StoredIn
<1> QED
  BY <1>1, <1>2, <1>3, TypeCorrect, PTL DEF Spec

\* Batches that have no row of the same key and granularity.
Apart(b, c) == \A k \in DOMAIN b \cap DOMAIN c : b[k].gran # c[k].gran

\* It does not matter which of two such batches is stored first.
LEMMA UpsertsCommute ==
  ASSUME NEW t, NEW b, NEW c, IsTable(t), IsTable(b), IsTable(c), Apart(b, c)
  PROVE  UpsertHistoricalPricesBatch(UpsertHistoricalPricesBatch(t, b), c)
           = UpsertHistoricalPricesBatch(UpsertHistoricalPricesBatch(t, c), b)
<1> DEFINE U(x, y) == UpsertHistoricalPricesBatch(x, y)
           D == DOMAIN t \cup DOMAIN b \cup DOMAIN c
<1>1. \A x, y : /\ DOMAIN U(x, y) = DOMAIN x \cup DOMAIN y
                /\ U(x, y) = [k \in DOMAIN U(x, y) |-> U(x, y)[k]]
                /\ \A k \in DOMAIN x \cup DOMAIN y :
                     U(x, y)[k] = IF /\ k \in DOMAIN y
                                     /\ k \in DOMAIN x => y[k].gran < x[k].gran
                                  THEN y[k] ELSE x[k]
  BY DEF UpsertHistoricalPricesBatch, Finer
<1> HIDE DEF U
<1>2. /\ \A k \in DOMAIN t : t[k].gran \in Int
      /\ \A k \in DOMAIN b : b[k].gran \in Int
      /\ \A k \in DOMAIN c : c[k].gran \in Int
  BY BucketAssumption DEF IsTable, Rows, Granularities
<1>3. DOMAIN U(U(t, b), c) = D /\ DOMAIN U(U(t, c), b) = D
  <2>1. /\ DOMAIN U(t, b) = DOMAIN t \cup DOMAIN b
        /\ DOMAIN U(t, c) = DOMAIN t \cup DOMAIN c
    BY <1>1
  <2>2. /\ DOMAIN U(U(t, b), c) = DOMAIN U(t, b) \cup DOMAIN c
        /\ DOMAIN U(U(t, c), b) = DOMAIN U(t, c) \cup DOMAIN b
    BY <1>1
  <2> QED
    BY <2>1, <2>2
<1>4. ASSUME NEW k \in D PROVE U(U(t, b), c)[k] = U(U(t, c), b)[k]
  <2>1. /\ DOMAIN U(t, b) = DOMAIN t \cup DOMAIN b
        /\ DOMAIN U(t, c) = DOMAIN t \cup DOMAIN c
    BY <1>1
  <2>2. /\ k \in DOMAIN t \cup DOMAIN b =>
             U(t, b)[k] = IF k \in DOMAIN b /\ (k \in DOMAIN t => b[k].gran < t[k].gran)
                          THEN b[k] ELSE t[k]
        /\ k \in DOMAIN t \cup DOMAIN c =>
             U(t, c)[k] = IF k \in DOMAIN c /\ (k \in DOMAIN t => c[k].gran < t[k].gran)
                          THEN c[k] ELSE t[k]
    BY <1>1
  <2>3. /\ U(U(t, b), c)[k] =
             IF k \in DOMAIN c /\ (k \in DOMAIN t \cup DOMAIN b => c[k].gran < U(t, b)[k].gran)
             THEN c[k] ELSE U(t, b)[k]
        /\ U(U(t, c), b)[k] =
             IF k \in DOMAIN b /\ (k \in DOMAIN t \cup DOMAIN c => b[k].gran < U(t, c)[k].gran)
             THEN b[k] ELSE U(t, c)[k]
    BY <1>1, <2>1
  <2>4. k \in DOMAIN b \cap DOMAIN c => b[k].gran # c[k].gran
    BY DEF Apart
  <2>5. CASE k \in DOMAIN b /\ k \in DOMAIN c
    BY <1>2, <2>2, <2>3, <2>4, <2>5
  <2>6. CASE k \in DOMAIN b /\ k \notin DOMAIN c
    BY <1>2, <2>2, <2>3, <2>6
  <2>7. CASE k \notin DOMAIN b /\ k \in DOMAIN c
    BY <1>2, <2>2, <2>3, <2>7
  <2>8. CASE k \notin DOMAIN b /\ k \notin DOMAIN c
    BY <2>2, <2>3, <2>8
  <2> QED
    BY <2>5, <2>6, <2>7, <2>8
<1>5. U(U(t, b), c) = U(U(t, c), b)
  BY <1>1, <1>3, <1>4
<1> QED
  BY <1>5 DEF U

\* Days are a day or more apart.
LEMMA DaysApart ==
  ASSUME NEW d \in Int, NEW e \in Int, d = truncateDayUTC(d), e = truncateDayUTC(e), d < e
  PROVE  d + Day <= e
<1> DEFINE p == d \div Day
           q == e \div Day
<1>1. Day \in Nat \ {0} /\ p \in Int /\ q \in Int /\ d = p * Day /\ e = q * Day
  BY BucketAssumption, Division DEF truncateDayUTC
<1> HIDE DEF p, q
<1>2. CASE p < q
  <2>1. PICK n \in Nat : q = p + 1 + n
    BY <1>1, <1>2
  <2>2. q * Day = p * Day + Day + n * Day
    BY <1>1, <2>1
  <2>3. n * Day \in Nat /\ p * Day \in Int
    BY <1>1, <2>1
  <2> QED
    BY <1>1, <2>2, <2>3
<1>3. CASE q <= p
  <2>1. PICK n \in Nat : p = q + n
    BY <1>1, <1>3
  <2>2. p * Day = q * Day + n * Day
    BY <1>1, <2>1
  <2>3. n * Day \in Nat /\ q * Day \in Int
    BY <1>1, <2>1
  <2> QED
    BY <1>1, <2>2, <2>3
<1> QED
  BY <1>1, <1>2, <1>3

\* The points of a day sampled as agreed are in that day.
LEMMA PointsInDay ==
  ASSUME Agreed, now \in Int, NEW f \in Fetches, NEW quotes \in CoinsMarketChartRange(f),
         NEW rev, NEW k \in DOMAIN normalizeByOrder(f, quotes, rev)
  PROVE  /\ k[1] = f.coin /\ k[2] \in Int
         /\ f.dayStart <= k[2] /\ k[2] < f.dayStart + Day
<1>0. PICK lag \in 0 .. MostLag : quotes = Quotes(f.dayStart, f.g, now - lag)
  BY DEF CoinsMarketChartRange
<1> DEFINE t == now - lag
           last == IF t < f.dayStart + Day THEN t - f.dayStart ELSE Day - 1
           n == IF last < 0 THEN 0 ELSE last \div f.g + 1
<1>1. f.dayStart \in Int /\ f.g \in Nat \ {0} /\ Day \in Nat \ {0}
  BY BucketAssumption DEF Fetches, Granularities
<1>2. quotes = [i \in 1 .. n |-> f.dayStart + (i - 1) * f.g]
  BY <1>0 DEF Quotes
<1>3. last \in Int /\ last < Day
  BY <1>1, RequestAssumption
<1> HIDE DEF last
<1>4. n \in Nat
  <2>1. last >= 0 => last \div f.g \in Nat
    BY <1>1, <1>3, Division
  <2> QED
    BY <1>3, <2>1
<1>5. PICK i \in 1 .. n : k = <<f.coin, f.dayStart + (i - 1) * f.g>>
  <2> HIDE DEF n
  <2>1. Len(quotes) = n
    BY <1>2, <1>4
  <2> QED
    BY <2>1 DEF normalizeByOrder
<1>6. (i - 1) * f.g \in Nat /\ (i - 1) * f.g <= last
  <2>1. last >= 0 /\ i - 1 \in Nat /\ i - 1 <= last \div f.g
    <3>1. i \in Nat /\ 1 <= i /\ i <= n
      <4> HIDE DEF n
      <4> QED
        BY <1>4, <1>5
    <3>2. last >= 0
      BY <1>3, <3>1
    <3>3. last \div f.g \in Nat
      BY <1>1, <1>3, <3>2, Division
    <3> QED
      BY <3>1, <3>2, <3>3
  <2>2. last \div f.g \in Nat /\ (last \div f.g) * f.g <= last
    BY <1>1, <1>3, <2>1, Division
  <2> HIDE DEF n
  <2>3. PICK m \in Nat : last \div f.g = (i - 1) + m
    <3>1. last \div f.g - (i - 1) \in Nat
      BY <2>1, <2>2
    <3>2. last \div f.g = (i - 1) + (last \div f.g - (i - 1))
      BY <2>1, <2>2
    <3> QED
      BY <3>1, <3>2
  <2>4. (last \div f.g) * f.g = (i - 1) * f.g + m * f.g
    BY <1>1, <2>1, <2>3
  <2>5. (i - 1) * f.g \in Nat /\ m * f.g \in Nat
    BY <1>1, <2>1
  <2> QED
    BY <1>3, <2>2, <2>4, <2>5
<1> HIDE DEF n
<1> QED
  BY <1>1, <1>3, <1>5, <1>6

\* The table once the answer to a fetch has been stored in it.
Stored(t, f, quotes, rev) ==
  UpsertHistoricalPricesBatch(t, normalizeByOrder(f, quotes, rev))

\* The days of different fetches are apart, or their granularities differ.
LEMMA FetchesApart ==
  ASSUME Agreed, TypeOK,
         NEW f \in Fetches, NEW h \in Fetches, f # h,
         f.dayStart = truncateDayUTC(f.dayStart), h.dayStart = truncateDayUTC(h.dayStart),
         NEW quotes \in CoinsMarketChartRange(f), NEW points \in CoinsMarketChartRange(h),
         NEW rev \in Revisions, NEW ver \in Revisions
  PROVE  Stored(Stored(table, f, quotes, rev), h, points, ver)
           = Stored(Stored(table, h, points, ver), f, quotes, rev)
<1> DEFINE b == normalizeByOrder(f, quotes, rev)
           c == normalizeByOrder(h, points, ver)
<1>1. now \in Int /\ IsTable(table)
  BY RequestAssumption DEF TypeOK
<1>2. quotes \in Seq(Int) /\ points \in Seq(Int)
  BY <1>1, AnswerType
<1>3. IsTable(b) /\ IsTable(c)
  BY <1>2, NormalizeType
<1>4. /\ \A k \in DOMAIN b : b[k].gran = f.g
      /\ \A k \in DOMAIN c : c[k].gran = h.g
  BY <1>1, NormalizeInPlace
<1>5. ASSUME NEW k \in DOMAIN b, k \in DOMAIN c PROVE f.g # h.g
  <2>1. /\ k[1] = f.coin /\ k[2] \in Int /\ f.dayStart <= k[2] /\ k[2] < f.dayStart + Day
        /\ k[1] = h.coin /\ h.dayStart <= k[2] /\ k[2] < h.dayStart + Day
    BY <1>1, <1>5, PointsInDay
  <2>2. f.dayStart \in Int /\ h.dayStart \in Int /\ Day \in Int
    BY BucketAssumption DEF Fetches
  <2>3. f.dayStart = h.dayStart
    <3>1. ~(f.dayStart < h.dayStart)
      BY <2>1, <2>2, DaysApart
    <3>2. ~(h.dayStart < f.dayStart)
      BY <2>1, <2>2, DaysApart
    <3> QED
      BY <2>2, <3>1, <3>2
  <2>4. /\ f = [coin |-> f.coin, dayStart |-> f.dayStart, g |-> f.g]
        /\ h = [coin |-> h.coin, dayStart |-> h.dayStart, g |-> h.g]
    BY DEF Fetches
  <2> QED
    BY <2>1, <2>3, <2>4
<1> HIDE DEF b, c
<1>6. Apart(b, c)
  BY <1>4, <1>5 DEF Apart
<1>7. UpsertHistoricalPricesBatch(UpsertHistoricalPricesBatch(table, b), c)
        = UpsertHistoricalPricesBatch(UpsertHistoricalPricesBatch(table, c), b)
  BY <1>1, <1>3, <1>6, UpsertsCommute
<1> QED
  BY <1>7 DEF b, c, Stored

\* A day starts on a day's start.
LEMMA TruncateTwice ==
  ASSUME NEW t \in Int
  PROVE  truncateDayUTC(truncateDayUTC(t)) = truncateDayUTC(t)
<1> DEFINE q == t \div Day
           d == q * Day
           p == d \div Day
<1>1. Day \in Nat \ {0} /\ q \in Int /\ d \in Int
  BY BucketAssumption, Division
<1>2. p \in Int /\ p * Day <= d /\ d < p * Day + Day
  BY <1>1, Division
<1>3. q <= p
  BY <1>1, LargestMultiple
<1> HIDE DEF p
<1>4. PICK n \in Nat : p = q + n
  <2>1. p - q \in Nat /\ p = q + (p - q)
    BY <1>1, <1>2, <1>3
  <2> QED
    BY <2>1
<1> HIDE DEF q
<1>5. p * Day = d + n * Day /\ n * Day \in Nat
  BY <1>1, <1>4
<1>6. p * Day = d
  BY <1>1, <1>2, <1>5
<1> QED
  BY <1>6 DEF truncateDayUTC, p, q

\* What a request wants, and has still to fetch, are whole days.
WholeDays(r) ==
  /\ \A i \in DOMAIN wanted[r] : wanted[r][i].dayStart = truncateDayUTC(wanted[r][i].dayStart)
  /\ \A f \in needFetch[r] : f.dayStart = truncateDayUTC(f.dayStart)

LEMMA WholeDaysNext ==
  ASSUME TypeOK, [Next]_vars, NEW r \in Requests, WholeDays(r)
  PROVE  WholeDays(r)'
<1>1. \/ wanted'[r] = wanted[r] /\ needFetch'[r] \subseteq needFetch[r]
      \/ \E batch \in Batches : Start(r, batch)
      \/ ReadBatch(r)
  <2>1. CASE \E q \in Requests : q # r /\ Moves(q)
    BY <2>1, OthersSame DEF Same
  <2>2. CASE Moves(r)
    BY <2>2 DEF Moves, Step, ReturnEarly, Fetch, Upsert, Reread, Price, Fail,
                UpsertReplyLost, Return, StillToFetch, TypeOK
  <2>3. CASE Tick \/ UNCHANGED vars
    BY <2>3 DEF Tick, vars
  <2> QED
    BY <2>1, <2>2, <2>3 DEF Next, Moves
<1>2. CASE wanted'[r] = wanted[r] /\ needFetch'[r] \subseteq needFetch[r]
  BY <1>2 DEF WholeDays
<1>3. ASSUME NEW batch \in Batches, Start(r, batch) PROVE WholeDays(r)'
  <2>1. /\ needFetch'[r] = needFetch[r]
        /\ wanted'[r] = [i \in 1 .. Len(batch) |-> Wanted(batch[i], now)]
    BY <1>3 DEF Start, TypeOK
  <2>2. batch \in Seq([coin : STRING, txTime : Int])
    BY RequestAssumption
  <2>3. \A i \in 1 .. Len(batch) : batch[i].txTime \in Int
    <3>1. \A i \in 1 .. Len(batch) : batch[i] \in [coin : STRING, txTime : Int]
      BY <2>2, ElementOf
    <3> QED
      BY <3>1
  <2>4. \A i \in DOMAIN wanted'[r] : wanted'[r][i].dayStart = truncateDayUTC(batch[i].txTime)
    BY <2>1 DEF Wanted
  <2> QED
    BY <2>1, <2>3, <2>4, TruncateTwice DEF WholeDays
<1>4. CASE ReadBatch(r)
  <2>1. /\ wanted'[r] = wanted[r]
        /\ needFetch'[r] = NeedFetch(wanted[r], GetHistoricalPricesBatch(table, RepoKeys(wanted[r])))
    BY <1>4 DEF ReadBatch, TypeOK
  <2>2. /\ wanted[r] \in Seq(Wants)
        /\ Len(GetHistoricalPricesBatch(table, RepoKeys(wanted[r]))) = Len(wanted[r])
        /\ DOMAIN GetHistoricalPricesBatch(table, RepoKeys(wanted[r])) = DOMAIN wanted[r]
    BY GetBatchType DEF TypeOK
  <2>3. \A f \in needFetch'[r] : \E i \in DOMAIN wanted[r] : f = FetchKey(wanted[r][i])
    BY <2>1, <2>2 DEF NeedFetch
  <2> QED
    BY <2>1, <2>3 DEF WholeDays, FetchKey
<1> QED
  BY <1>1, <1>2, <1>3, <1>4

\* The fetches of a request, and those of several, may be stored in either
\* order unless they are for the same coin, day and granularity.
FetchesCommute ==
  \A r, q \in Requests : \A f \in needFetch[r], h \in needFetch[q] : f # h =>
    \A quotes \in CoinsMarketChartRange(f), points \in CoinsMarketChartRange(h) :
      \A rev, ver \in Revisions :
        Stored(Stored(table, f, quotes, rev), h, points, ver)
          = Stored(Stored(table, h, points, ver), f, quotes, rev)

\* If the provider samples as agreed, the order in which a request goes through
\* its map of fetches, which Go chooses at random, leaves no trace in the table,
\* nor does the order in which different fetches of concurrent requests end.
THEOREM OrderOfFetchesDoesNotMatter == ASSUME Agreed PROVE Spec => []FetchesCommute
<1> DEFINE Inv == TypeOK /\ \A r \in Requests : WholeDays(r)
<1>1. Init => Inv
  BY TypeInit DEF Init, WholeDays
<1>2. Inv /\ [Next]_vars => Inv'
  BY TypeNext, WholeDaysNext
<1>3. Inv => FetchesCommute
  <2> SUFFICES ASSUME Inv, NEW r \in Requests, NEW q \in Requests,
                      NEW f \in needFetch[r], NEW h \in needFetch[q], f # h,
                      NEW quotes \in CoinsMarketChartRange(f),
                      NEW points \in CoinsMarketChartRange(h),
                      NEW rev \in Revisions, NEW ver \in Revisions
               PROVE  Stored(Stored(table, f, quotes, rev), h, points, ver)
                        = Stored(Stored(table, h, points, ver), f, quotes, rev)
    BY DEF FetchesCommute
  <2>1. f \in Fetches /\ h \in Fetches
    BY DEF TypeOK
  <2>2. f.dayStart = truncateDayUTC(f.dayStart) /\ h.dayStart = truncateDayUTC(h.dayStart)
    BY DEF WholeDays
  <2> QED
    BY <2>1, <2>2, FetchesApart
<1> QED
  BY <1>1, <1>2, <1>3, PTL DEF Spec

------------------------------------------------------------------------------
(* Requests run down.  That they end is a liveness property and stays with  *)
(* TLC, but what it rests on besides fairness can be proved: a request has  *)
(* a number of steps left, and each of its steps makes it smaller.          *)

StepsLeft(r) ==
  LET n == Cardinality(needFetch[r])
  IN  CASE pc[r] = "read"   -> 2 * Len(wanted[r]) + 4
        [] pc[r] = "fetch"  -> 2 * n + 3
        [] pc[r] = "upsert" -> 2 * n + 2
        [] pc[r] = "reread" -> 2
        [] pc[r] = "price"  -> 1
        [] OTHER            -> 0

\* A plan has no more fetches than the batch has keys.
LEMMA PlanIsSmall ==
  ASSUME NEW w \in Seq(Wants), NEW read, DOMAIN read = 1 .. Len(w)
  PROVE  /\ IsFiniteSet(NeedFetch(w, read))
         /\ Cardinality(NeedFetch(w, read)) \in Nat
         /\ Cardinality(NeedFetch(w, read)) <= Len(w)
<1> DEFINE M == {j \in DOMAIN read : Missing(read[j]) \/ Upgrade(read[j], w[j])}
           F == NeedFetch(w, read)
           f == [j \in M |-> FetchKey(w[j])]
<1>1. Len(w) \in Nat
  OBVIOUS
<1>2. IsFiniteSet(1 .. Len(w)) /\ Cardinality(1 .. Len(w)) = Len(w)
  <2>1. \A n \in Nat : IsFiniteSet(1 .. n) /\ Cardinality(1 .. n) = n
    <3> TAKE n \in Nat
    <3>1. IsFiniteSet(1 .. n) /\ Cardinality(1 .. n) = IF 1 > n THEN 0 ELSE n - 1 + 1
      BY FS_Interval
    <3> QED
      BY <3>1
  <2> QED
    BY <1>1, <2>1
<1>3. M \in SUBSET (1 .. Len(w))
  OBVIOUS
<1>4. F = {FetchKey(w[j]) : j \in M}
  BY DEF NeedFetch
<1> HIDE DEF M, F, f
<1>5. IsFiniteSet(M) /\ Cardinality(M) <= Len(w)
  <2>1. IsFiniteSet(M) /\ Cardinality(M) <= Cardinality(1 .. Len(w))
    BY <1>2, <1>3, FS_Subset
  <2> QED
    BY <1>2, <2>1
<1>6. f \in Surjection(M, F)
  BY <1>4 DEF Surjection, f
<1>7. IsFiniteSet(F) /\ Cardinality(F) <= Cardinality(M)
  BY <1>5, <1>6, FS_Surjection
<1>8. Cardinality(F) \in Nat /\ Cardinality(M) \in Nat
  BY <1>5, <1>7, FS_CardinalityType
<1> QED
  BY <1>1, <1>5, <1>7, <1>8 DEF F

\* What is left to fetch can be counted.
Countable(r) == IsFiniteSet(needFetch[r])

\* The steps a running request may make, and what they do to its number.
LEMMA StepCounts ==
  ASSUME TypeOK, NEW r \in Requests, Countable(r), Step(r)
  PROVE  /\ Countable(r)'
         /\ StepsLeft(r)' < StepsLeft(r)
<1> DEFINE n == Cardinality(needFetch[r])
<1>1. n \in Nat /\ Len(wanted[r]) \in Nat
  BY FS_CardinalityType DEF Countable, TypeOK
<1>2. CASE pc'[r] = "done" /\ needFetch'[r] = {} /\ pc[r] \in {"read", "fetch", "upsert", "reread", "price"}
  BY <1>1, <1>2, FS_EmptySet DEF Countable, StepsLeft
<1>3. CASE ReadBatch(r)
  <2> DEFINE read == GetHistoricalPricesBatch(table, RepoKeys(wanted[r]))
             F == NeedFetch(wanted[r], read)
  <2>1. /\ pc[r] = "read" /\ wanted'[r] = wanted[r] /\ needFetch'[r] = F
        /\ pc'[r] = IF F = {} THEN "price" ELSE "fetch"
    BY <1>3 DEF ReadBatch, TypeOK
  <2>2. wanted[r] \in Seq(Wants) /\ DOMAIN read = 1 .. Len(wanted[r])
    BY GetBatchType DEF TypeOK
  <2> HIDE DEF read
  <2>3. IsFiniteSet(F) /\ Cardinality(F) \in Nat /\ Cardinality(F) <= Len(wanted[r])
    BY <2>2, PlanIsSmall
  <2> HIDE DEF F
  <2> QED
    BY <1>1, <2>1, <2>3 DEF Countable, StepsLeft
<1>4. ASSUME NEW f \in needFetch[r], Fetch(r, f), pc'[r] # "done"
      PROVE  Countable(r)' /\ StepsLeft(r)' < StepsLeft(r)
  <2>1. pc[r] = "fetch" /\ pc'[r] = "upsert" /\ needFetch'[r] = needFetch[r]
    BY <1>4 DEF Fetch, Return, TypeOK
  <2> QED
    BY <1>1, <2>1 DEF Countable, StepsLeft
<1>5. CASE Upsert(r)
  <2>1. /\ pc[r] = "upsert" /\ needFetch'[r] = needFetch[r] \ {fetching[r]}
        /\ pc'[r] \in {"reread", "fetch"} /\ fetching[r] \in needFetch[r]
    BY <1>5 DEF Upsert, StillToFetch, TypeOK
  <2>2. IsFiniteSet(needFetch'[r]) /\ Cardinality(needFetch'[r]) = n - 1
    BY <2>1, FS_RemoveElement DEF Countable
  <2>3. n - 1 \in Nat
    BY <2>2, FS_CardinalityType
  <2> HIDE DEF n
  <2>4. StepsLeft(r) = 2 * n + 2
    BY <2>1 DEF StepsLeft, n
  <2>5. StepsLeft(r)' \in {2 * (n - 1) + 3, 2}
    BY <2>1, <2>2 DEF StepsLeft
  <2> QED
    BY <1>1, <2>2, <2>3, <2>4, <2>5 DEF Countable
<1>6. CASE Reread(r)
  BY <1>6 DEF Reread, TypeOK, Countable, StepsLeft
<1>7. CASE Price(r) \/ Fail(r) \/ UpsertReplyLost(r)
  BY <1>2, <1>7 DEF Price, Fail, UpsertReplyLost, Return, TypeOK
<1>8. ASSUME NEW f \in needFetch[r], Fetch(r, f), pc'[r] = "done"
      PROVE  Countable(r)' /\ StepsLeft(r)' < StepsLeft(r)
  BY <1>2, <1>8 DEF Fetch, Return, TypeOK
<1> QED
  BY <1>3, <1>4, <1>5, <1>6, <1>7, <1>8 DEF Step

\* No request has ever more steps left than it had, once it has started.
RequestsRunDown ==
  [][\A r \in Requests : pc[r] # "idle" =>
       /\ StepsLeft(r)' <= StepsLeft(r)
       /\ Step(r) => StepsLeft(r)' < StepsLeft(r)]_vars

LEMMA OthersCount ==
  ASSUME TypeOK, NEW r \in Requests, Countable(r), [Next]_vars,
         ~Step(r), pc[r] # "idle"
  PROVE  Countable(r)' /\ StepsLeft(r)' = StepsLeft(r)
<1>1. UNCHANGED <<pc[r], needFetch[r], wanted[r]>>
  <2>1. CASE \E q \in Requests : q # r /\ Moves(q)
    BY <2>1, OthersSame DEF Same
  <2>2. CASE Moves(r)
    BY <2>2 DEF Moves, ReturnEarly, Start
  <2>3. CASE Tick \/ UNCHANGED vars
    BY <2>3 DEF Tick, vars
  <2> QED
    BY <2>1, <2>2, <2>3 DEF Next, Moves
<1> QED
  BY <1>1 DEF Countable, StepsLeft

LEMMA StartCounts ==
  ASSUME TypeOK, NEW r \in Requests, Countable(r), [Next]_vars, pc[r] = "idle"
  PROVE  Countable(r)'
<1>1. needFetch'[r] \in {needFetch[r], {}}
  <2>1. CASE \E q \in Requests : q # r /\ Moves(q)
    BY <2>1, OthersSame DEF Same
  <2>2. CASE Moves(r)
    BY <2>2 DEF Moves, Step, ReturnEarly, Start, ReadBatch, Fetch, Upsert, Reread, Price,
                Fail, UpsertReplyLost, Return, TypeOK
  <2>3. CASE Tick \/ UNCHANGED vars
    BY <2>3 DEF Tick, vars
  <2> QED
    BY <2>1, <2>2, <2>3 DEF Next, Moves
<1> QED
  BY <1>1, FS_EmptySet DEF Countable

\* A request makes a bounded number of steps, two for every key of its batch and
\* four more, whatever others do to the table and whatever fails: no answer of the
\* provider and no row of others makes it plan again.
THEOREM NoRequestRunsForEver ==
  Spec => /\ [](\A r \in Requests : StepsLeft(r) \in Nat)
          /\ RequestsRunDown
<1> DEFINE Counts == TypeOK /\ \A r \in Requests : Countable(r)
<1>1. Init => Counts
  BY TypeInit, FS_EmptySet DEF Init, Countable
<1>2. Counts /\ [Next]_vars => Counts'
  <2> SUFFICES ASSUME TypeOK, [Next]_vars, NEW r \in Requests, Countable(r)
               PROVE  Countable(r)'
    BY TypeNext
  <2> QED
    BY StepCounts, OthersCount, StartCounts
<1>3. Counts => \A r \in Requests : StepsLeft(r) \in Nat
  <2> SUFFICES ASSUME TypeOK, NEW r \in Requests, Countable(r)
               PROVE  StepsLeft(r) \in Nat
    OBVIOUS
  <2>1. Cardinality(needFetch[r]) \in Nat /\ Len(wanted[r]) \in Nat
    BY FS_CardinalityType DEF Countable, TypeOK
  <2> QED
    BY <2>1 DEF StepsLeft
<1>4. Counts /\ Counts' /\ [Next]_vars =>
        [\A r \in Requests : pc[r] # "idle" =>
           /\ StepsLeft(r)' <= StepsLeft(r)
           /\ Step(r) => StepsLeft(r)' < StepsLeft(r)]_vars
  <2> SUFFICES ASSUME Counts, Counts', [Next]_vars, NEW r \in Requests, pc[r] # "idle"
               PROVE  /\ StepsLeft(r)' <= StepsLeft(r)
                      /\ Step(r) => StepsLeft(r)' < StepsLeft(r)
    OBVIOUS
  <2>1. StepsLeft(r) \in Nat
    BY <1>3
  <2>2. ~Step(r) => StepsLeft(r)' = StepsLeft(r)
    BY OthersCount
  <2>3. Cardinality(needFetch'[r]) \in Nat /\ Len(wanted'[r]) \in Nat
    BY FS_CardinalityType DEF Countable, TypeOK
  <2>4. StepsLeft(r)' \in Nat
    BY <2>3 DEF StepsLeft
  <2> QED
    BY <2>1, <2>2, <2>4, StepCounts
<1> QED
  BY <1>1, <1>2, <1>3, <1>4, PTL DEF Spec, RequestsRunDown
=============================================================================
