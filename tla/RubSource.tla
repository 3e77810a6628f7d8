------------------------------ MODULE RubSource -----------------------------
(***************************************************************************)
(* The source of the official USD/RUB rates: one goroutine that updates an *)
(* in-memory store from the Central Bank (CBR) at the start of the service *)
(* and at 20:00 of every day, while request handlers read the store.       *)
(*                                                                         *)
(* A rate is abstracted to the day CBR set it for.  CBR sets rates for     *)
(* WorkingDays only, and publishes each on the day before.                 *)
(***************************************************************************)
EXTENDS FxSchedule

CONSTANTS
  DefaultFrom,   \* defaultFrom: the window of a new store starts the day after
  FirstDay,      \* the day the service starts ...
  MaxDay,        \* ... and the bound on the clock
  WorkingDays,   \* the days CBR sets a rate for
  MayGarble      \* those of them whose record may not be parseable

ASSUME CalendarAssumption ==
  /\ {DefaultFrom, FirstDay, MaxDay} \subseteq Int
  /\ DefaultFrom < FirstDay
  /\ FirstDay <= MaxDay
  /\ WorkingDays \subseteq Int
  /\ MayGarble \subseteq WorkingDays

VARIABLES
  today,      \* the date in Moscow ...
  evening,    \* ... and whether its 20:00 has passed
  published,  \* the days whose rate CBR has published
  garbled,    \* the days whose record parseCBRRecord rejects
  store,      \* the rates by day, on the days that have one
  lastDate,   \* "the last calendar day we have processed and persisted"
  pc,         \* what runSource does next
  nextRun,    \* the day of the 20:00 it waits for
  window,     \* from and to of the update under way
  patch,      \* what the update is about to store
  err         \* what the last update has returned: nil or an error

env == <<today, evening, published, garbled>>
vars == <<env, store, lastDate, pc, nextRun, window, patch, err>>

NoRates == [d \in {} |-> 0]

------------------------------------------------------------------------------
(* The world.                                                              *)

\* The zero lastDate of a new source stands for defaultFrom in the window, and
\* for no carry: the store has no rate of that day.
Init ==
  /\ today = FirstDay
  /\ evening \in BOOLEAN
  /\ \E early \in SUBSET {today + 1} :
       published = {d \in WorkingDays : d <= today \/ d \in early}
  /\ garbled \in SUBSET MayGarble
  /\ store = NoRates
  /\ lastDate = DefaultFrom
  /\ pc = "start"
  /\ nextRun = FirstDay
  /\ window = [from |-> DefaultFrom + 1, to |-> DefaultFrom]
  /\ patch = NoRates
  /\ err = "nil"

\* A bug of the kind the checks must notice: a window two days ahead.
WrongTwoAhead(day) == day + 2

\* The last day of the window: tomorrow.
To(day) == day + 1

\* CBR publishes tomorrow's rate, at any time of today.
Publish ==
  /\ today + 1 \in WorkingDays \ published
  /\ published' = published \cup {today + 1}
  /\ UNCHANGED <<today, evening, garbled, store, lastDate, pc, nextRun, window,
                 patch, err>>

\* An update is one HTTP call of at most ten seconds: one begun yesterday has
\* ended when 20:00 strikes.  (It may well see 20:00 or midnight pass.)
EndsWithinTheDay ==
  pc \in {"fetch", "persist", "move", "plan"} => window.to = To(today)

\* 20:00 strikes.
Evening ==
  /\ ~evening
  /\ EndsWithinTheDay
  /\ evening' = TRUE
  /\ UNCHANGED <<today, published, garbled, store, lastDate, pc, nextRun, window,
                 patch, err>>

\* Midnight strikes; the rate of the new day has been published by then.
Midnight ==
  /\ evening
  /\ today < MaxDay
  /\ today + 1 \in WorkingDays => today + 1 \in published
  /\ today' = today + 1
  /\ evening' = FALSE
  /\ UNCHANGED <<published, garbled, store, lastDate, pc, nextRun, window,
                 patch, err>>

------------------------------------------------------------------------------
(* The update.                                                             *)

\* A bug of the kind the checks must notice: the window starts at the day
\* already stored.
WrongRefetchLast(last) == last

\* The first day of the window.
From(last) == last + 1

\* The update starts: the window is computed from the clock and lastDate.
Begin ==
  LET to == To(today)
  IN  /\ window' = [from |-> From(lastDate), to |-> to]
      /\ pc' = IF From(lastDate) > to THEN "plan" ELSE "fetch"
      /\ err' = "nil"
      /\ UNCHANGED <<env, store, lastDate, nextRun, patch>>

BeginFirst == pc = "start" /\ Begin
BeginOnTimer == pc = "wait" /\ Expired(nextRun, today, evening) /\ Begin

\* The last day of a set up to and including d.
Latest(days, d) == CHOOSE e \in days : e <= d /\ \A x \in days : x <= d => x <= e

\* A bug of the kind the checks must notice: days without a record are left out.
WrongOnlyRecords(raw, w, rates, last) == [d \in raw |-> d]

\* Every day of the window from the first record on, or from its start if the
\* store has a rate to carry: the record of the day or of the last day with one.
Filled(raw, w, rates, last) ==
  LET known(d) == {e \in raw : e <= d}
      carry == last \in DOMAIN rates
  IN  [d \in {x \in w.from .. w.to : carry \/ known(x) # {}} |->
         IF known(d) # {} THEN Latest(raw, d) ELSE rates[last]]

\* A bug of the kind the checks must notice: an empty answer is not told from
\* one without a record for some day.
WrongNeverEmpty(records) == FALSE

Empty(records) == records = {}

\* CBR answers with the records of the window.  If there are none, or none can
\* be parsed and there is nothing to carry, there is nothing to store.
Fetch ==
  /\ pc = "fetch"
  /\ LET records == published \cap window.from .. window.to
         filled  == Filled(records \ garbled, window, store, lastDate)
     IN  IF Empty(records) \/ DOMAIN filled = {}
         THEN pc' = "plan" /\ UNCHANGED patch
         ELSE pc' = "persist" /\ patch' = filled
  /\ UNCHANGED <<env, store, lastDate, nextRun, window, err>>

\* The request fails or times out, or its answer cannot be decoded.
FetchFails ==
  /\ pc = "fetch"
  /\ pc' = "plan"
  /\ err' = "error"
  /\ UNCHANGED <<env, store, lastDate, nextRun, window, patch>>

\* The whole patch appears to readers at once.
UpsertMany ==
  /\ pc = "persist"
  /\ store' = [d \in DOMAIN store \cup DOMAIN patch |->
                 IF d \in DOMAIN patch THEN patch[d] ELSE store[d]]
  /\ pc' = "move"
  /\ UNCHANGED <<env, lastDate, nextRun, window, patch, err>>

\* lastDate moves to the last day of the patch.
MoveLastDate ==
  /\ pc = "move"
  /\ lastDate' = Latest(DOMAIN patch, window.to)
  /\ patch' = NoRates
  /\ pc' = "plan"
  /\ UNCHANGED <<env, store, nextRun, window, err>>

\* The update has returned, with or without an error: wait for the next 20:00.
Plan ==
  /\ pc = "plan"
  /\ nextRun' = nextRunTime(today, evening)
  /\ pc' = "wait"
  /\ UNCHANGED <<env, store, lastDate, window, patch, err>>

\* The context is cancelled while the source waits for its timer.
Stop ==
  /\ pc = "wait"
  /\ pc' = "stopped"
  /\ UNCHANGED <<env, store, lastDate, nextRun, window, patch, err>>

\* The process ends, at any point, and a new one starts with an empty store.
Restart ==
  /\ pc # "start"
  /\ store' = NoRates
  /\ lastDate' = DefaultFrom
  /\ pc' = "start"
  /\ nextRun' = FirstDay
  /\ window' = [from |-> DefaultFrom + 1, to |-> DefaultFrom]
  /\ patch' = NoRates
  /\ err' = "nil"
  /\ UNCHANGED env

Next ==
  \/ Publish \/ Evening \/ Midnight
  \/ BeginFirst \/ BeginOnTimer
  \/ Fetch \/ FetchFails \/ UpsertMany \/ MoveLastDate
  \/ Plan \/ Stop \/ Restart

Spec == Init /\ [][Next]_vars

\* The HTTP client gives up after ten seconds and the goroutine is scheduled:
\* its steps, other than Stop, are not put off for ever.
Work == \/ BeginFirst \/ BeginOnTimer \/ Fetch \/ FetchFails
        \/ UpsertMany \/ MoveLastDate \/ Plan
FairSpec == Spec /\ WF_vars(Work)

------------------------------------------------------------------------------
(* Properties.                                                             *)

IsRates(f) == /\ f = [d \in DOMAIN f |-> f[d]]
              /\ DOMAIN f \subseteq Int
              /\ \A d \in DOMAIN f : f[d] \in WorkingDays

\* The variables' types; an update never looks further than tomorrow.
TypeOK ==
  /\ today \in FirstDay .. MaxDay
  /\ evening \in BOOLEAN
  /\ published \subseteq WorkingDays
  /\ garbled \subseteq WorkingDays
  /\ IsRates(store)
  /\ lastDate \in Int
  /\ pc \in {"start", "fetch", "persist", "move", "plan", "wait", "stopped"}
  /\ nextRun \in FirstDay .. MaxDay + 1
  /\ window.from \in Int
  /\ window.to \in Int
  /\ window.to <= today + 1
  /\ IsRates(patch)
  /\ err \in {"nil", "error"}

\* Readers see no holes: from the first day with a rate on, every day has one
\* up to lastDate, and until lastDate moves up to the end of the window.
NoGaps ==
  \A d \in DOMAIN store :
    LET last == IF pc = "move" THEN window.to ELSE lastDate
    IN  d <= last /\ d .. last \subseteq DOMAIN store

\* As long as the process lives, the rate of a day never changes once a reader
\* may have seen it, carried or not, whatever CBR publishes later.
NeverRewritten ==
  [][Restart \/ \A d \in DOMAIN store : d \in DOMAIN store' /\ store'[d] = store[d]]_store

\* Readers can rely on the rates of the store as on a book that is only ever
\* continued: no hole, no rate from the future or older than the one before,
\* and nothing they have read is changed until the process ends.
Book == INSTANCE RateBook WITH rates <- store, CopiesGiveWay <- FALSE
ImplementsRateBook == Book!Spec

\* What CBR holds for a day: the rate of the last day up to it it set one for.
OfficialFor(d, r) ==
  /\ r \in WorkingDays \ garbled
  /\ r <= d
  /\ \A e \in WorkingDays \ garbled : e <= d => e <= r

\* If every record can be parsed, a stored rate is the official one of its day
\* or, if tomorrow's was not yet published when it was stored, the one just
\* before it: rates missed one by one do not add up, and none is from later.
AtMostOneRateBehind ==
  garbled = {} => \A d \in DOMAIN store :
    \/ OfficialFor(d, store[d])
    \/ \E e \in WorkingDays \ garbled : OfficialFor(d, e) /\ OfficialFor(e - 1, store[d])

\* "raw[d] exists: persist it": the store holds the official rate of every day
\* it has processed.
OfficialRates ==
  \A d \in DOMAIN store \cap (published \ garbled) : store[d] = d

\* "If carry exists: persist carry.  This is how we handle weekends": once the
\* store has rates, an update that has returned no error leaves one for the
\* running day, in Moscow and in UTC, until the next update is due, so that a
\* transaction of today is not refused.  (Days before the first one with a rate
\* are out of the store's reach.)
RunningDayHasRate ==
  pc = "wait" /\ err = "nil" /\ ~Expired(nextRun, today, evening) =>
    \A u \in UtcDays(today) : (\E d \in DOMAIN store : d <= u) => HasRate(store, u)

\* After 20:00 of a day an update that reaches the next day is begun, unless
\* the source is stopped.
EveningsAreUpdated ==
  \A d \in FirstDay .. MaxDay :
    today = d /\ evening ~> window.to > d \/ pc = "stopped"
=============================================================================
