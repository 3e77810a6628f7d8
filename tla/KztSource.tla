------------------------------ MODULE KztSource -----------------------------
(***************************************************************************)
(* The source of the official USD/KZT rates.  The National Bank (NBRK) has *)
(* no request for a range of days, so an update asks for one day after the *)
(* other; a day it gets no rate for is filled with the last one known.     *)
(*                                                                         *)
(* A rate is abstracted to the day whose request it answered.  The zero    *)
(* time of lastDate and newLastDate and the missing carry are DefaultFrom: *)
(* no request is made for that day.                                        *)
(***************************************************************************)
EXTENDS FxSchedule

CONSTANTS
  DefaultFrom,   \* defaultFrom: the window of a new store starts the day after
  FirstDay,      \* the day the service starts ...
  MaxDay         \* ... and the bound on the clock

ASSUME CalendarAssumption ==
  /\ {DefaultFrom, FirstDay, MaxDay} \subseteq Int
  /\ DefaultFrom < FirstDay
  /\ FirstDay <= MaxDay

VARIABLES
  today,        \* the date in Almaty ...
  evening,      \* ... and whether its 20:00 has passed
  store,        \* the rates by day, on the days that have one
  lastDate,     \* the last day a real rate was stored for
  pc,           \* what runSource does next
  nextRun,      \* the day of the 20:00 it waits for
  to,           \* the last day of the update under way
  d,            \* the day it asks for next
  carry,        \* the last rate it knows
  patch,        \* what it is about to store
  newLastDate   \* the last day it got a rate for

env == <<today, evening>>
update == <<to, d, carry, patch, newLastDate>>
vars == <<env, store, lastDate, pc, nextRun, update>>

Zero == DefaultFrom
NoRates == [x \in {} |-> Zero]

Init ==
  /\ today = FirstDay
  /\ evening \in BOOLEAN
  /\ store = NoRates
  /\ lastDate = Zero
  /\ pc = "start"
  /\ nextRun = FirstDay
  /\ to = DefaultFrom
  /\ d = DefaultFrom + 1
  /\ carry = Zero
  /\ patch = NoRates
  /\ newLastDate = Zero

------------------------------------------------------------------------------
(* The clock.  An update makes one call of at most ten seconds per day of  *)
(* its window, so one begun yesterday has ended when 20:00 strikes as long *)
(* as the window has fewer than 7200 days.                                 *)

\* Bugs of the kind the checks must notice: a window two days ahead, and one
\* that ends today.
WrongTwoAhead(day) == day + 2
WrongToday(day) == day

\* The last day of the window: tomorrow.
To(day) == day + 1

Updating == pc \in {"fetch", "persist", "move", "plan"}

\* 20:00 strikes.
Evening ==
  /\ ~evening
  /\ Updating => to = To(today)
  /\ evening' = TRUE
  /\ UNCHANGED <<today, store, lastDate, pc, nextRun, update>>

Midnight ==
  /\ evening
  /\ today < MaxDay
  /\ today' = today + 1
  /\ evening' = FALSE
  /\ UNCHANGED <<store, lastDate, pc, nextRun, update>>

------------------------------------------------------------------------------
(* The update.                                                             *)

\* The rate of the last settled day, if there is one.
CarryFrom(rates, last) == IF last \in DOMAIN rates THEN rates[last] ELSE Zero

\* The update starts: the window is computed from the clock and lastDate.
Begin ==
  /\ to' = To(today)
  /\ d' = lastDate + 1
  /\ carry' = CarryFrom(store, lastDate)
  /\ pc' = IF d' > to' THEN "plan" ELSE "fetch"
  /\ UNCHANGED <<env, store, lastDate, nextRun, patch, newLastDate>>

BeginFirst == pc = "start" /\ Begin
BeginOnTimer == pc = "wait" /\ Expired(nextRun, today, evening) /\ Begin

Put(rates, day, r) ==
  [x \in DOMAIN rates \cup {day} |-> IF x = day THEN r ELSE rates[x]]

\* Bugs of the kind the checks must notice: a day without a rate is left out,
\* or given the rate of the last update.
WrongLeaveOut(rates, day, known) == rates
WrongFillFromStore(rates, day, known) ==
  IF lastDate \in DOMAIN store THEN Put(rates, day, store[lastDate]) ELSE rates

\* A day without a rate gets the last one known.
Fill(rates, day, known) == IF known # Zero THEN Put(rates, day, known) ELSE rates

\* The loop goes on to the next day, and after the last one to the store if
\* there is anything to store.
NextDay(filled) ==
  /\ d' = d + 1
  /\ pc' = IF d < to THEN "fetch" ELSE IF DOMAIN filled = {} THEN "plan" ELSE "persist"
  /\ UNCHANGED <<env, store, lastDate, nextRun, to>>

\* NBRK answers with a rate for the day.
FetchDay ==
  /\ pc = "fetch"
  /\ carry' = d
  /\ newLastDate' = d
  /\ patch' = Put(patch, d, d)
  /\ NextDay(patch')

\* The request fails, or parseNBRKUSD finds no rate in its answer.
NoRateForDay ==
  /\ pc = "fetch"
  /\ patch' = Fill(patch, d, carry)
  /\ NextDay(patch')
  /\ UNCHANGED <<carry, newLastDate>>

\* The whole patch appears to readers at once.
UpsertMany ==
  /\ pc = "persist"
  /\ store' = [x \in DOMAIN store \cup DOMAIN patch |->
                 IF x \in DOMAIN patch THEN patch[x] ELSE store[x]]
  /\ pc' = "move"
  /\ UNCHANGED <<env, lastDate, nextRun, update>>

\* Bugs of the kind the checks must notice: lastDate moves although nothing
\* but copies was stored, or never.
WrongMoveAlways(last, new) == to
WrongNeverMove(last, new) == last

\* lastDate moves only if there was a real rate, not just copies.
Moved(last, new) == IF new # Zero THEN new ELSE last

MoveLastDate ==
  /\ pc = "move"
  /\ lastDate' = Moved(lastDate, newLastDate)
  /\ patch' = NoRates
  /\ newLastDate' = Zero
  /\ pc' = "plan"
  /\ UNCHANGED <<env, store, nextRun, to, d, carry>>

\* The update has returned: wait for the next 20:00.
Plan ==
  /\ pc = "plan"
  /\ nextRun' = nextRunTime(today, evening)
  /\ pc' = "wait"
  /\ UNCHANGED <<env, store, lastDate, update>>

\* The context is cancelled while the source waits for its timer.
Stop ==
  /\ pc = "wait"
  /\ pc' = "stopped"
  /\ UNCHANGED <<env, store, lastDate, nextRun, update>>

\* The process ends, at any point, and a new one starts with an empty store.
Restart ==
  /\ pc # "start"
  /\ store' = NoRates
  /\ lastDate' = Zero
  /\ pc' = "start"
  /\ nextRun' = FirstDay
  /\ to' = DefaultFrom
  /\ d' = DefaultFrom + 1
  /\ carry' = Zero
  /\ patch' = NoRates
  /\ newLastDate' = Zero
  /\ UNCHANGED env

Next ==
  \/ Evening \/ Midnight
  \/ BeginFirst \/ BeginOnTimer
  \/ FetchDay \/ NoRateForDay \/ UpsertMany \/ MoveLastDate
  \/ Plan \/ Stop \/ Restart

Spec == Init /\ [][Next]_vars

\* The HTTP client gives up after ten seconds and the goroutine is scheduled:
\* its steps, other than Stop, are not put off for ever.
Work == \/ BeginFirst \/ BeginOnTimer \/ FetchDay \/ NoRateForDay
        \/ UpsertMany \/ MoveLastDate \/ Plan
FairSpec == Spec /\ WF_vars(Work)

------------------------------------------------------------------------------
(* Properties.                                                             *)

IsRates(f) == /\ f = [x \in DOMAIN f |-> f[x]]
              /\ DOMAIN f \subseteq DefaultFrom + 1 .. MaxDay + 1
              /\ \A x \in DOMAIN f : f[x] \in DefaultFrom + 1 .. x

\* The variables' types; no rate is from the future of its day, and nothing
\* is asked for beyond tomorrow.
TypeOK ==
  /\ today \in FirstDay .. MaxDay
  /\ evening \in BOOLEAN
  /\ IsRates(store)
  /\ lastDate \in DefaultFrom .. MaxDay + 1
  /\ pc \in {"start", "fetch", "persist", "move", "plan", "wait", "stopped"}
  /\ nextRun \in FirstDay .. MaxDay + 1
  /\ to \in DefaultFrom .. today + 1
  /\ d \in Int
  /\ d <= to + 1
  /\ carry \in DefaultFrom .. to
  /\ IsRates(patch)
  /\ newLastDate \in DefaultFrom .. to

\* Readers see no holes between two days with a rate.
NoGaps == \A x, y \in DOMAIN store : x .. y \subseteq DOMAIN store

\* A stored rate is the day's own or that of the day before: updates that lose
\* different days do not leave a rate behind that is older than it need be.
OwnOrPrevious ==
  \A x \in DOMAIN store :
    \/ store[x] = x
    \/ x - 1 \in DOMAIN store /\ store[x] = store[x - 1]

\* Between updates the days from lastDate on have the rate of lastDate, which
\* is its own: what the next update asks for again are just the copies.
LastDateIsReal ==
  pc # "move" => \A x \in DOMAIN store : lastDate <= x => store[x] = lastDate

\* As long as the process lives a rate up to lastDate never changes, and a
\* copy after it only gives way to a later rate: an update that fails where an
\* earlier one did not takes nothing back.
NothingTakenBack ==
  [][Restart \/ \A x \in DOMAIN store :
       /\ x \in DOMAIN store'
       /\ IF x <= lastDate THEN store'[x] = store[x] ELSE store'[x] >= store[x]]_store

\* Readers can rely on the rates of the store as on a book in which only copies
\* give way, to later rates: whatever days NBRK has not answered for, there is no
\* hole, and no day has an older rate than the one before.
Book == INSTANCE RateBook WITH rates <- store, CopiesGiveWay <- TRUE
ImplementsRateBook == Book!Spec

\* The running day has a rate, in Almaty and in UTC, once there is any rate and
\* until the next update is due, also if NBRK has answered none of the calls
\* since: updates that fail carry the last rate on.
RunningDayHasRate ==
  pc = "wait" /\ ~Expired(nextRun, today, evening) =>
    \A u \in UtcDays(today) : (\E x \in DOMAIN store : x <= u) => HasRate(store, u)

\* After 20:00 of a day an update that reaches the next day is begun, unless
\* the source is stopped.
EveningsAreUpdated ==
  \A day \in FirstDay .. MaxDay :
    today = day /\ evening ~> to > day \/ pc = "stopped"
=============================================================================
