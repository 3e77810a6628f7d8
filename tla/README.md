# price-svc in TLA+

A verification project for `src/services/price-svc`, the Go service that values
crypto transactions in a fiat currency: TLA+ modules translated from its code,
TLC runs on small instances, and TLAPS proofs for every instance.

## 1. The system

`price-svc` is one process. A gRPC call `ValuateTransactionsBatch` carries a
batch of transactions; each leg of a transaction (in, out, fee) has a symbol.
The server resolves symbols to coin ids, asks the historical-price use case for
a price of each leg at the time of its transaction and puts the results into
the legs. The use case keeps USD prices in PostgreSQL by coin and time bucket,
fetches from CoinGecko what it lacks, and multiplies by the day's USD-to-fiat
rate. The rates come from an FX provider whose sources (RUB from the Central
Bank of Russia, KZT from the National Bank of Kazakhstan) are each updated by a
goroutine of its own and kept in memory.

```
gRPC server --> coin id resolver (map read at the start)
     |
     +--> historical-price use case --> table historical_prices (PostgreSQL)
                    |    |
                    |    +--> CoinGecko (HTTP, rate limited)
                    +--> FX provider --> RUB store <-- goroutine --> CBR (HTTP)
                                     \-> KZT store <-- goroutine --> NBRK (HTTP)
```

### Inventory

Paths are below `src/services/price-svc/`. "Correct if" names what the project
proves or checks.

| Component | State | Operations | Hard because | Correct if |
|---|---|---|---|---|
| Historical-price use case, `internal/usecases/` | per request: plan, rows, remaining fetches | `GetHistoricalPrices`, `fetchAndUpsertDay`, bucket arithmetic | requests interleave at every statement and call; `now` is read once; one 5 s deadline; replies are lost; the provider's points are numbered by position | the table only improves; an answer is near its time, no coarser than the policy, repeatable; every request ends |
| Price repository and table, `internal/infra/repo/`, `db/` | `historical_prices` | batch upsert, batch read | concurrent upserts of one bucket at several granularities | a finer row wins, an equal one does not; reads keep the order of the keys |
| CoinGecko client, `internal/coingecko/` | rate limiter | `CoinsMarketChartRange`, granularity policy | tokens shared by all requests; any failure | a batch that is repeated is answered in the end; no minute has more than two minutes' requests |
| RUB source, `internal/fiatfx/source_rub.go` | store, `lastDate` | `Update`, `Get` | weekends, late publication, malformed records, failed updates, restarts | a book that is only continued: no holes up to its last day, no rewriting; at most one rate behind (that the running day has a rate fails: see findings) |
| KZT source, `internal/fiatfx/source_kzt.go` | store, `lastDate` | `Update`, `Get` | one call per day, each may fail; days are fetched again | a book without holes; copies only of the day before, replaced only by later rates |
| FX provider, registry, schedule, `internal/fiatfx/` | next run of each source | `Start`, `runSource`, `GetUSDtoFiatRate` | updates that see 20:00 or midnight pass; UTC days looked up in stores of local days | every evening is updated; the running UTC day has a rate once there are any (KZT; RUB see findings) |
| Copy-on-write store, `pkg/in-memory/` | map behind an atomic pointer | `Get`, `UpsertMany`, `ReplaceAll` | readers without locks; no writer's lock | it is an atomic map: no update torn or lost, no map written under a reader |
| gRPC server, `internal/server/` | per call: slots, keys, response | `ValuateTransactionsBatch`, `UpsertTenantSymbol` | positions of legs against positions of prices; one failure fails the batch | a leg gets the price of its own coin and time, or an error, or it was absent |
| Coin id resolver and cache | map | `Resolve` | filled once, before the server starts | a function on the symbols; nothing else |
| Tenant symbols, `internal/infra/repo/`, `db/` | table `tenant_symbols` | repository: upsert, delete, two lists; the use case is a stub | concurrent callers, lost replies; success is logged, Unimplemented is answered | what a caller is told has happened; lists are exact and of one tenant |
| Lifecycle, `internal/app/` | signal context, wait group | start, serve, stop | FX goroutines belong to no group; graceful stop against failing serve; signals during the start | no request is cut off or loses its pool; the process ends when told to |
| Price cache over Redis, `internal/infra/cache/`, `pkg/redis/` | Redis keys | get, set, delete | delete of an undecodable entry races a set; expiry with jitter; commands sent twice | a hit is a price set for its key and not too old |
| PostgreSQL pool, `pkg/postgres/` | pool | connect with retries | the context is ignored between attempts | with the lifecycle |
| Configuration, logging, generated code | - | - | - | not modelled: no state that changes |

The hazards of the code, line by line, with the properties that watch them, are
the `hazards` of `PROJECT.json`.

## 2. The modules

| Module | Models |
|---|---|
| `PriceBuckets` | the arithmetic of time: granularity by age, bucket, UTC day |
| `PriceTable` | the table and its two batch statements |
| `PriceBook` | abstract: what stored prices promise, a book that only improves |
| `HistoricalPrices` | the use case: concurrent requests over one table, clock, provider, failures |
| `MCHistoricalPrices` | its instance for TLC |
| `HistoricalPricesProofs` | its proofs: types, rows and refinement, the answers, repetition and order of upserts, the steps a request has left |
| `FxSchedule` | the daily schedule of a source, and the lookup of a rate |
| `RateBook` | abstract: what the readers of a source's rates rely on, a book that is only ever continued |
| `RubSource`, `MCRubSource`, `RubSourceProofs` | the RUB source, its instance and its proofs |
| `KztSource`, `MCKztSource`, `KztSourceProofs` | the KZT source, its instance and its proofs |
| `AtomicMap` | abstract: what the in-memory store promises, a map with atomic operations |
| `CopyOnWriteStore`, `MCCopyOnWriteStore`, `CopyOnWriteStoreProofs` | the store at the granularity of its memory accesses, its instance and its proofs |
| `RetriedBatches`, `MCRetriedBatches`, `RetriedBatchesProofs` | the rate limiter and callers that repeat their batches, its instance and its proofs |
| `TenantSymbols`, `MCTenantSymbols` | the repository of tenant symbols and `UpsertTenantSymbol`, and its instance |
| `PriceCache`, `MCPriceCache` | the price cache over Redis, and its instance |
| `StorageProofs` | the proofs of these two |
| `PriceServer`, `MCPriceServer`, `PriceServerProofs` | one `ValuateTransactionsBatch`, its instance and its proofs |
| `Lifecycle`, `MCLifecycle`, `LifecycleProofs` | start, serving and end of the process, its instance and its proofs |

Operators named `Wrong...` are wrong on purpose. Each stands before the
definition it could be mistaken for and is not used by the specification: it is
that definition with a plausible bug (`<=` for `<` in the upsert's `WHERE`, a
fetch per day instead of per day and granularity, ...). With it in place of the
right one TLC finds the property it is paired with in `PROJECT.json` violated;
that is how every checked property is known to depend on the code.

### HistoricalPrices

A request goes through `pc`: `idle`, `read` (first `GetBatch`), `fetch` and
`upsert` for every fetch, `reread`, `price`, `done`. Every database statement
and every HTTP call is a step, so requests interleave there and nowhere else;
between them the code touches only its own variables. The variables follow the
code's: `asOf` is its `now`, `wanted` its `w`, `rows`, `needFetch`, `buckets`.

- Instants are integers; 300 s, 3600 s and 86400 s are the constants
  `FiveMinutes`, `Hour` and `Day`. `GoDiv` rounds towards zero as Go does.
- A price is abstracted to the quote it is: the instant quoted and the revision
  served. The properties ask where a price comes from, never how much it is.
- `Fetch` takes any remaining fetch (the code ranges over a map) and any answer
  of the provider: `Quotes` are the points of a day that are not in the future,
  at a sampling which is the one the code assumes if `Agreed`, else any. The
  provider may be behind by up to `MostLag`, by another time at every call, so
  that the running bucket may have no point yet. Of transactions that recent,
  of future ones and of those before the epoch (where `floorToBucket` rounds
  up) the properties say only that nothing else is ever refused for want of a
  price (`UnavailableOnlyOutsideRange`).
- `Fail` and `UpsertReplyLost` are the error paths: the deadline or an error at
  a statement or a call, and an upsert that commits although the caller is told
  of an error.
- `Price` ends at the first key without a price or without a rate. Which days
  have a rate is left open: any set of them.
- Left out: logging, the multiplication by the rate, and the rate limiter, whose
  wait ends in a token or at the deadline, that is in `Fetch` or in `Fail`;
  `RetriedBatches` is about it.

### RetriedBatches

The same calls seen from the limiter (`client.go:24-38,60-63`). A fetch is just
stored or not, and time is counted in intervals of the limiter, one token each:
two seconds at 30 requests a minute, so that the five seconds of a call are two
intervals and a half, `Deadline = 2`. `tokens` is the limiter's own number: a
waiting call has taken its token in advance, which makes it negative, and `wait`
says when the token comes. `Wait` gives a token at once (`TakeToken`), reserves
one (`ReserveToken`) or fails at once because it comes after the deadline
(`NoTokenInTime`). A call given up by its caller (`HangUp`) gives its
reservation back only if it is the last one; that, and the arithmetic of the
tokens, is `golang.org/x/time/rate`, external. A caller repeats its batch until
it is answered; the code does not do this itself, it leaves it to the clients,
and what makes the repetition shorter is that the rows of a fetch stay.

### RubSource and KztSource

Each is one goroutine: `pc` goes `start`, `fetch`, `persist`, `move`, `plan`,
`wait` and round again. `UpsertMany` and the move of `lastDate` are two steps,
because readers see the store in between; readers have no state, so what they
can see is an invariant of the store. A day is an integer, and the clock is a
day and whether its 20:00 has passed, in the time zone of the source. A rate is
abstracted to the day it is the rate of. The zero `lastDate` is `DefaultFrom`,
a day no store has a rate for.

- RUB: CBR publishes the rate of a working day some time on the day before; the
  records of the answer are those published in the window, and some of them may
  not be parseable. `Filled` is the loop that fills the patch.
- KZT: one call per day, each with or without a rate; the loop's variables
  `d`, `carry`, `patch` and `newLastDate` are the module's.
- `err` of the RUB source is what its last `Update` returned. `runSource` only
  logs it; it tells an answer without records, which is no error, from a call
  that failed.
- `Restart` is the end of the process at any step and the start of a new one:
  stores are in memory only.

`RateBook` is what both promise to the requests that read them: `Update` appends
days to the book, without holes and without a rate older than the one before;
`CopiesGiveWay` is the difference between them, since KZT asks again for the
days it had filled with copies and RUB does not. `NoGaps` of KZT and
`NeverRewritten` of RUB are about the same and follow from it; both are proved
for themselves, too.

The stores have local days, transactions are looked up under their UTC day
(`historical_price_usecase.go:152`). At any moment of the local day `d` the UTC
day is `d` or, in the hours after local midnight, `d - 1`: both time zones are
east of Greenwich. `UtcDays` and `HasRate` in `FxSchedule` say so, and
`RunningDayHasRate` of each source that a lookup for the running moment
succeeds while the source waits for its next update, once it has rates. For KZT
it holds whatever days get no answer, because copies fill the window up to
tomorrow. For RUB it does not hold, not even after updates that returned no
error: see finding 3. Nothing is said of the time before the first rates: the
goroutines of the sources are started together with the server (`app.go:83`),
the first KZT update may take hours, and a batch that needs a rate fails until
then.

### CopyOnWriteStore

`maps` are the Go maps allocated so far and a reference is an index into them;
`v` is the `atomic.Value`. A write is a load, one step for every entry of each
copying loop (in any order, as `range` has it) and a store; a `Get` is a load
and a lookup. `ReplaceAll` is the same write without an old map. `OneWriter` is
the assumption that replaces the mutex which is commented out: each rate store
is written by the goroutine of its source, the coin id store by the start.
`RubSource` and `KztSource` have `UpsertMany` as one step: that is the promise
of `AtomicMap` which this module implements.

### PriceServer

One request, leg by leg: `SkipLeg`, `UnknownSymbol` and `AddLeg` are the three
ways out of `add`, `Fill` a turn of the loop over the prices. Requests share
nothing but the read-only symbol table, so one is enough. The answer of the use
case is the list of keys itself, a price per position, or an error;
`HistoricalPrices` is about where these prices come from. There are always as
many prices as keys (`historical_price_usecase.go:144`), so the server's check
of their number (`server.go:113`), although translated, never refuses anything. Amounts are left out,
the handler does not read them.

### TenantSymbols

Any number of callers use the four methods of the repository: `Ask` is what a
method does before its statement (the checks, in which a missing part is an
error, and the empty list for no symbols), `StoreRow`, `DeleteRow` and
`ReadRows` the statement with its answer, `QueryFails` an error. A statement is
atomic and may take effect although its caller is told of an error. Timestamps
are left out, the repository does not hand them on. Nothing in the service calls
the repository yet: the use case is a stub that returns success, which
`ServerUpsert` takes into account. `ever` and `always` are there for checking:
the rows stored at some and at every moment of a call.

### PriceCache

Clients get, set and delete entries; Redis executes one command at a time.
`Spoil` is something else that leaves a text under a key which `json.Unmarshal`
refuses. Texts that it accepts although no `Set` wrote them (`{}`, `null`, JSON of
another version of the service) are not modelled: they would be hits, and
nothing in the code guards against them. `Get` is two commands if it finds
one, GET and DEL, and anything may happen in between. A command that fails was
executed or not, and go-redis may send it again (three times by default; here
any number of times). An entry expires when its time is over; the time is the
ttl and a jitter below `Jitter`, and 0 means for ever, as it does for the
library. No code of the service calls the cache yet. The specification is
`CacheSpec` and its parts are named in the same way, because `StorageProofs`
extends this module together with `TenantSymbols`.

### Lifecycle

`main` is where `Run` is, `serve` and `stop` are the goroutines of the wait
group, `grpc` the state of the library's server. External, and modelled from
how the code relies on it: a server that is stopping takes no new requests,
`GracefulStop` waits for the running ones, `Serve` returns after it or, if it
comes too late, at once. `log.Fatal` ends the process at once from any state of
the other goroutines. Unary calls and streams are told apart because only the
handlers of the former have a deadline.

## 3. The runs

| Run | Checks | Result |
|---|---|---|
| `historical_prices` | types and alignment, `BucketHoldsItsOwnQuote`, `NoCoarserThanDesired`, `ValuedNearItsTime`, `UnavailableOnlyOutsideRange`, `AnswersRepeat`, refinement of `PriceBook`, `EveryRequestAnswers` | pass, 362 917 states |
| `historical_prices_sampling` | `BucketHoldsItsOwnQuote` without `Agreed` | violated: see findings |
| `rub_source` | types, `NoGaps`, `AtMostOneRateBehind`, refinement of `RateBook`, `EveningsAreUpdated` | pass, 8 334 states |
| `rub_source_official` | `OfficialRates` | violated: see findings |
| `rub_source_weekend` | `RunningDayHasRate` | violated: see findings |
| `kzt_source` | types, `OwnOrPrevious`, `LastDateIsReal`, `NothingTakenBack`, refinement of `RateBook`, `EveningsAreUpdated`, `RunningDayHasRate` | pass, 24 693 states |
| `copy_on_write_store` | types, `NoWriteUnderAReader`, refinement of `AtomicMap` | pass, 109 460 states |
| `price_server` | types, `EachLegItsOwnPrice`, `UnknownSymbolsReported`, `BadBatchIsNotPriced` | pass, 295 442 states |
| `lifecycle` | types, `PoolOutlivesRequests`, `NoRequestIsCutOff`, `StopsWhenAsked` | pass, 418 states |
| `retried_batches` | types, `AtMostTwiceTheLimit`, `EveryBatchAnswered` | pass, 142 255 states |
| `tenant_symbols` | types, `ToldAsDone`, `ListsExact` | pass, 300 539 states |
| `price_cache` | types (`CacheTypeOK`), `HitsAreGood` | pass, 508 048 states |

Deadlock is checked in `copy_on_write_store`, `retried_batches`,
`tenant_symbols` and `price_cache`: elsewhere a request that is
done, a source or process that has ended and a clock at its bound have no next
step.

### Bounds

- `historical_prices`: two requests (what one does to the other needs no third:
  the table is all they share), a day of four units with buckets of 1, 2 and 4,
  and a clock of three instants placed so that one batch, and two requests of
  different age, want the same day at two granularities. The five batches hold
  two coins, a key of a day that another request wants at another granularity,
  two keys of one day at two granularities, the running day and the future, and
  an instant before the epoch. Two revisions of each quote; a provider that is
  up to one unit behind, the length of the finest bucket, so that the running
  bucket has a point or none. Requests are symmetric, but liveness checking does
  not allow to use that.
- `rub_source`: the service starts on day 3, the clock ends on day 7; the
  working days 2, 4, 5, 6 and 8 give a start with and without a record to carry,
  a late publication, two days without a rate, and one record that may be
  garbled.
- `rub_source_weekend`: the service starts on day 5, the last but one of the
  working days 2, 4, 5 and 6, so that the days 7 and 8 are a weekend.
- `kzt_source`: days 1 to 7 with the service started on day 3, so that the first
  window has four days and later ones from none to seven.

- `copy_on_write_store`: two keys and two values, so that an update can change,
  add and keep an entry; `MaxMaps` is three maps, the empty one and two updates,
  so that a reader may look into a map replaced twice.
- `price_server`: all batches of at most two transactions over two known
  symbols and an unknown one, with every leg present or absent, and two times
  or none: a leg without a position before and after every other one.
- `lifecycle`: two calls and a stream, two attempts to connect.

- `retried_batches`: two callers that share one fetch, a limit of two tokens and
  deadlines of up to two intervals. The first caller needs four fetches, more
  than a bucket and a deadline give, so that it cannot be answered at the first
  attempt while the other one takes tokens, too.
- `tenant_symbols`: two callers, two tenants, a symbol with two coins and a
  second symbol, and each part missing once; two rows are created at most.
- `price_cache`: two clients, two keys, two prices, ttls of 0 and 1 and a jitter
  of 2, so that an entry lives for one or two ticks or for ever.

The clock bounds `MaxNow` and `MaxDay`, the number of maps `MaxMaps`, the calls
given up `MaxHangUps`, the rows created `MaxInserts` and the age told apart
`MaxAge` are the only caps; every other set is finite by itself.

### Fairness

- A request: weak fairness of its own steps. Every call it blocks in takes the
  request's context, whose deadline is five seconds away
  (`historical_price_usecase.go:52-56`, `app.go:92`).
- A source: weak fairness of the goroutine's steps except `Stop`. Its HTTP
  client gives up after ten seconds (`app.go:74-76`); a timer that has expired
  stays ready. Nothing is assumed of the outcome of a call, of the clock, of
  CBR, or of restarts, which may go on for ever.
- `EndsWithinTheDay` in `RubSource` and the same guard of `Evening` in
  `KztSource` say that an update begun yesterday has ended before today's
  20:00. An RUB update is one call of ten seconds at most; a KZT update is one
  such call per day of its window, twenty hours if there are 7200 of them, and
  from 2024 there are not that many before 2043.

- The callers of `RetriedBatches`: weak fairness of the steps of a call, which
  does not block for ever, and of its repetition; and time passes (`[]<><<Tick>>`:
  no infinite number of steps within one interval). `EveryBatchAnswered` has
  the premise that CoinGecko and the database do not fail the fetches of a
  caller for ever (strong fairness of `FetchDay`). It needs none about the
  tokens: that a caller is not starved by the other one follows.

- The process: weak fairness of `Run`, of the two goroutines of the wait group
  and of the answers of unary calls, whose handlers end by their deadline. None
  for signals, clients or failures; that streams are ended by their clients is
  a premise of `StopsWhenAsked`, because `GracefulStop` waits for them without a
  limit (`app.go:153`).

### Findings

1. `historical_prices_sampling`. `normalizeByOrder` gives the i-th point the
   i-th bucket, on an agreement about the number of points ("For 5m => 288
   points; 1h => 24 points; 1d => 1 point", `internal/usecases/utils.go:12`) that
   the request does not ask for and the code does not check. Under any other
   sampling rows hold quotes of other buckets, also of other days.
2. `rub_source_official`. The doc of `Update` ends the window today
   (`to   = dateOnly(now)`, `internal/fiatfx/source_rub.go:94`), the code tomorrow (`:126`).
   An update before CBR publishes tomorrow's rate stores today's for tomorrow
   and moves `lastDate` past it; the official rate of that day is never stored.
   `AtMostOneRateBehind` shows that it gets no worse than that.
3. `rub_source_weekend`. The doc of `Update` says of a day without a record "else if
   carry exists: persist carry (carry-forward fill). This is how we handle
   weekends/holidays" (`source_rub.go:100`) and again "we fill it by carrying
   forward the last known working-day rate" (`:109-110`). The code returns
   before that loop, without an error, when the whole answer has no record
   (`:146`). With rates up to Saturday the window of Saturday evening is
   Sunday alone, that of Sunday evening Sunday and Monday, and CBR sets a rate
   for neither: on both days a transaction of the day finds no rate, till
   Monday evening, whose window has Tuesday's. The same happens when tomorrow's
   rate is not there at 20:00. To drop the check would be no remedy: that is the
   mutant of `AtMostOneRateBehind`, since `lastDate` would then move over days
   whose rates come later.

## 4. What is proved

All theorems hold for every value of the constants that satisfies the modules'
assumptions: any number of requests and batches, any bucket lengths that divide
one another, any policy, any calendar, any number of days.

**HistoricalPrices.** `TypeCorrect`, `Refinement` (`Spec => ImplementsPriceBook`)
and `Repeatable` need nothing else. `RowsHoldTheirOwnQuotes`, `FineEnough`,
`NothingInRangeIsUnavailable` and `NearItsTime` assume `Agreed`, the agreement
of `utils.go:12`, and hold for any lag; the violated run shows that the first of them needs it.

The types are not inductive alone: that `buckets` is a table needs what the
fetch in hand is, and a read needs the alignment of `rows` with `wanted`. On
top of that the answers need an invariant about the past of a request: a key
that is not among the remaining fetches, nor in hand, has a row in the table at
a granularity no coarser than the desired one, and its rows of the last read
are rows the table had, which it still has or has improved. What makes it
inductive is a lemma about one step of the table (every step keeps the rows it
has or replaces them by strictly finer ones), which is also the step of the
refinement.

Three more results have no run of their own; TLC was used on the instance of
`historical_prices` before they were proved. `RetryChangesNothing` is about a
lost reply (`historical_price_usecase.go:187`): an upsert that is executed stores
its whole batch, and a batch that is stored may be upserted again at any later
time without effect. `OrderOfFetchesDoesNotMatter` is about the map of fetches
that is ranged over (`:124`): two different fetches, of one request or of two,
are for days apart or at two granularities, and then the order of their upserts
leaves no trace. It assumes `Agreed`: otherwise the points of a day may be
numbered into the next one. (Of two fetches of the same coin, day and granularity
the first one wins; that is what `Repeatable` rests on.) `NoRequestRunsForEver`
is the part of `EveryRequestAnswers` that needs no fairness: every step of a
request makes `StepsLeft` smaller, and no step of another one makes it larger.

**RubSource.** `RubTypeCorrect`, `RubNoGaps`, `RubNeverRewritten`,
`RubAtMostOneRateBehind`, `RubImplementsRateBook`. The invariant adds to the properties that CBR
publishes on time (a guard of `Midnight`), that the window starts right after
`lastDate`, and that the patch ends at the end of the window, has no holes, and
covers all of it if the store is not empty. The lemmas `FilledFits` and
`FilledBehind` are about the loop: the second one is where "one rate behind"
comes from, since within the window only its last day can be unpublished. That
a set of days has a last one up to a day is derived from the library's
well-foundedness of the natural numbers. `RubImplementsRateBook` adds that the
rates of the store and of the patch are in order (`BookInv`), and none in the
patch is older than one in the store: a record of the window is later than
`lastDate`, whatever is carried is the last rate stored.

**KztSource.** `KztTypeCorrect`, `KztNoGaps`, `KztOwnOrPrevious`,
`KztLastDateIsReal`, `KztNothingTakenBack`, `KztImplementsRateBook`. The
invariant says what the loop has done so far: the patch covers the days from the
first known rate to `d - 1`, `carry` is the last real rate of the update or that
of `lastDate`, and the patch ends with copies of it; the store ends with copies
of `lastDate`'s rate and never past the window, so that the next patch covers
all of them.
`KztImplementsRateBook` needs besides that the rates are in order: in the loop
every rate of the patch is at most `carry`, and a new one no older than that.
`KztRunningDayHasRate` adds to its invariant that an update's window reaches
the next day and that the source never waits for a 20:00 after the end of its
window (`OnSchedule`). So until the next update is due the window ends no
earlier than the local day, an update has filled the store up to it, and a
store without holes has every earlier day from its first one on.

**CopyOnWriteStore.** `StoreTypeCorrect`, `StoreNoWriteUnderAReader` and
`StoreImplementsAtomicMap` (`Spec => ImplementsAtomicMap`), from `OneWriter`.
The invariant says that the map being filled is private (its reference is
neither the current one, nor the one it is copied from, nor in any reader's
hands), that the map a writer loaded is still the current one, and which entries
the loops have copied so far. Published maps therefore never change, so a `Get`
takes effect at its load and a write at its store.

**RetriedBatches.** `BatchesTypeCorrect` and `BatchesAtMostTwiceTheLimit`, for
any callers, batches, limit and deadline. The invariant: reservations are for
different intervals, among those the limiter has given away (`Reservations`);
so at most one call gets the token of an interval, and only if it was not put
into the bucket. And what has been sent in the minute watched, together with
what is in the bucket, is no more than one bucket and the tokens that have come
since (`Budget`). A reservation that is given back, or lost, keeps both.

**PriceServer.** `ServerTypeCorrect`, `ServerEachLegItsOwnPrice`,
`ServerUnknownSymbolsReported` and `ServerBadBatchIsNotPriced`, for every symbol
table and every batch. The invariant: slots and keys are aligned, every leg of a
known symbol that the loop has passed has a slot, every transaction it has
passed has a time, and exactly the legs of the slots before the next price have
been written. A second one says of every transaction that its errors are those
of the legs passed so far.

**Lifecycle.** `LifecycleTypeCorrect`, `LifecyclePoolOutlivesRequests` and
`LifecycleNoRequestIsCutOff`, for any requests. The invariant: only the
goroutine of `GracefulStop` stops the server, requests run between its start and
its stop, and `Run` gets to the deferred closes, or to the fatal end after
`Wait`, only past the stop.

**TenantSymbols.** `SymbolsTypeCorrect`, `SymbolsToldAsDone` and
`SymbolsListsExact`, for any callers, tenants, symbols and coins. The invariant:
a table has at most one row of a primary key and is finite; `always` is
contained in the table and that in `ever` while a call waits for its statement,
and in an answer of success they are what the statement left or found; whoever
is told of a stored or deleted row did ask for it. That a list of the rows read
by symbol leaves none out comes from the library's theorem that an injection
into a finite set of the same size is onto. What is assumed of the table's
rows is `RowsAssumption`: there is no empty tenant, source, symbol or coin, which
`NOT NULL` alone does not say but the checks before the statements do.

**PriceCache.** `CacheTypeCorrect` and `CacheHitsAreGood`, for any clients, keys,
prices, ttls and jitter. The invariant: what is left of an entry's time and its
age are together no more than its ttl and the most the jitter can add; an entry
with a ttl has some time left; and a `SET` that is still under way, which may be
executed late and more than once, carries a price that a client gave for this
very key. So a hit is younger than its ttl and `MostJitter`, by one tick.

**Only model-checked:** the liveness properties `EveryRequestAnswers`,
`EveningsAreUpdated`, `EveryBatchAnswered` and `StopsWhenAsked`. They need
fairness, that is `ENABLED`, which the prover cannot reason about. Every other
property of a passing run is a theorem.

## 5. Not modelled

- Code without a caller: `Do`, the coin list and the tickers of the CoinGecko
  client (`client.go:40-58`, `coin_list.go`, `exchange_tickers.go`), the
  single-row `Get` and `Upsert` of the price repository, `WithTx` of the pool
  and of sqlc's `Queries`, the methods of the tenant-symbol use case other than
  `Upsert`, which are stubs as it is. `TenantSymbols` and `PriceCache` have no
  callers either, but state of their own that callers would share.
- Configuration, read once at the start, and logging, which is formatting: no
  state that changes. What is configured is a constant of the modules.
- Generated code: messages and plumbing of protobuf and gRPC. The statements
  generated by sqlc are modelled with their repositories.
- The multiplication of a price by a rate, and decimals in general: prices and
  rates are told apart by where they come from. So an overflow of the table's
  numeric column, or rounding, is out of reach of these properties.
- Texts: HTTP headers, the XML and JSON of the providers and the connection
  options. A text that cannot be read is a failure or, in the RUB source, a
  record left out.
- `HistoricalPrices` takes any set of days to have a rate. It could be composed
  with the sources, but the only thing they share is the lookup, and what a
  lookup finds is the subject of `RunningDayHasRate`.
- Texts in Redis that decode although the service never wrote them (section 2).
