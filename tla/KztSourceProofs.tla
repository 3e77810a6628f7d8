-------------------------- MODULE KztSourceProofs ---------------------------
(***************************************************************************)
(* Theorems about the KZT source, for any number of days and any pattern   *)
(* of answered and unanswered requests.                                    *)
(***************************************************************************)
EXTENDS KztSource, TLAPS

------------------------------------------------------------------------------
(* The inductive invariant.                                                *)

\* The last day with a real rate: between the two steps that store an update
\* and move lastDate it is the one lastDate is about to have.
LastReal == IF pc = "move" THEN carry ELSE lastDate

\* The store ends with copies of the rate of LastReal, none after the window.
StoreEnd ==
  /\ DOMAIN store = {} => LastReal = Zero
  /\ DOMAIN store # {} => LastReal \in DOMAIN store
  /\ \A x \in DOMAIN store : x <= to /\ (LastReal <= x => store[x] = LastReal)

\* The days the loop has been through: those from the first known rate on.
PatchDays ==
  /\ lastDate < d
  /\ DOMAIN patch \subseteq lastDate + 1 .. d - 1
  /\ \A x \in DOMAIN patch : x .. d - 1 \subseteq DOMAIN patch
  /\ carry = Zero => DOMAIN patch = {}
  /\ lastDate # Zero => DOMAIN patch = lastDate + 1 .. d - 1
  /\ newLastDate = Zero \/ newLastDate \in DOMAIN patch

\* Their rates.
PatchRates ==
  \A x \in DOMAIN patch :
    /\ lastDate <= patch[x]
    /\ carry <= x => patch[x] = carry
    /\ \/ patch[x] = x
       \/ x - 1 \in DOMAIN patch /\ patch[x] = patch[x - 1]
       \/ x = lastDate + 1 /\ lastDate # Zero /\ patch[x] = lastDate

\* What the update under way has in its hands.
UpdateInv ==
  /\ pc \in {"fetch", "persist"} => PatchDays /\ PatchRates
  /\ pc \in {"fetch", "persist", "move"} => carry = Moved(lastDate, newLastDate)
  /\ pc = "fetch" => d <= to
  /\ pc = "persist" => d = to + 1 /\ DOMAIN patch # {}
  /\ pc \in {"start", "plan", "wait", "stopped"} => DOMAIN patch = {} /\ newLastDate = Zero

Inv == TypeOK /\ NoGaps /\ OwnOrPrevious /\ StoreEnd /\ UpdateInv

LEMMA NoRatesType == IsRates(NoRates) /\ DOMAIN NoRates = {}
BY DEF IsRates, NoRates

LEMMA InvInit == Init => Inv
<1> SUFFICES ASSUME Init PROVE Inv
  OBVIOUS
<1>1. TypeOK
  BY NoRatesType, CalendarAssumption DEF Init, TypeOK, Zero
<1> QED
  BY <1>1, NoRatesType DEF Init, Inv, NoGaps, OwnOrPrevious, StoreEnd, UpdateInv, LastReal

------------------------------------------------------------------------------
(* The invariant holds at every step.                                      *)

\* The steps of the clock and those of the source between updates.
LEMMA QuietKeepsInv ==
  ASSUME Inv, TypeOK', UNCHANGED <<store, lastDate, update>>,
         \/ UNCHANGED pc
         \/ pc \in {"plan", "wait"} /\ pc' \in {"wait", "stopped"}
  PROVE  Inv'
<1>1. (NoGaps /\ OwnOrPrevious)'
  BY DEF Inv, NoGaps, OwnOrPrevious
<1>2. LastReal' = LastReal
  BY DEF LastReal, update
<1>3. StoreEnd'
  BY <1>2 DEF Inv, StoreEnd, update
<1>4. (PatchDays => PatchDays') /\ (PatchRates => PatchRates')
  BY DEF PatchDays, PatchRates, update
<1>5. UpdateInv'
  BY <1>4 DEF Inv, UpdateInv, Moved, update
<1> QED
  BY <1>1, <1>3, <1>5 DEF Inv

\* What TypeOK says of the days.
LEMMA Days ==
  ASSUME TypeOK
  PROVE  /\ {DefaultFrom, FirstDay, MaxDay, today, lastDate, to, d, carry, newLastDate} \subseteq Int
         /\ DefaultFrom <= lastDate /\ to <= today + 1 /\ today <= MaxDay
         /\ DefaultFrom <= carry /\ carry <= to
         /\ DefaultFrom < FirstDay /\ FirstDay <= today
         /\ DOMAIN store \subseteq Int /\ DOMAIN patch \subseteq Int
         /\ \A x \in DOMAIN store : DefaultFrom < x /\ store[x] \in Int
         /\ \A x \in DOMAIN patch : DefaultFrom < x /\ patch[x] \in Int
BY CalendarAssumption DEF TypeOK, IsRates

LEMMA BeginKeepsInv ==
  ASSUME Inv, Begin, pc \in {"start", "wait"}
  PROVE  Inv'
<1>1. TypeOK /\ StoreEnd /\ DOMAIN patch = {} /\ newLastDate = Zero /\ LastReal = lastDate
  BY DEF Inv, UpdateInv, LastReal
<1>2. /\ UNCHANGED <<env, store, lastDate, nextRun, patch, newLastDate>>
      /\ to' = today + 1 /\ d' = lastDate + 1
      /\ pc' = IF d' > to' THEN "plan" ELSE "fetch"
  BY DEF Begin, To
<1>3. carry' = lastDate
  <2>1. CASE DOMAIN store = {}
    BY <1>1, <2>1 DEF Begin, CarryFrom, StoreEnd
  <2>2. CASE DOMAIN store # {}
    BY <1>1, <2>2, Days DEF Begin, CarryFrom, StoreEnd
  <2> QED
    BY <2>1, <2>2
<1>4. lastDate <= to
  <2>1. CASE DOMAIN store = {}
    BY <1>1, <2>1, Days DEF StoreEnd, Zero
  <2>2. CASE DOMAIN store # {}
    BY <1>1, <2>2 DEF StoreEnd
  <2> QED
    BY <2>1, <2>2
<1>5. TypeOK'
  <2>1. to' \in DefaultFrom .. today' + 1 /\ d' \in Int /\ d' <= to' + 1
        /\ carry' \in DefaultFrom .. to' /\ newLastDate' \in DefaultFrom .. to'
    BY <1>1, <1>2, <1>3, <1>4, Days DEF env, Zero
  <2> QED
    BY <1>1, <1>2, <2>1 DEF TypeOK, env, IsRates
<1>6. LastReal' = lastDate
  BY <1>2 DEF LastReal
<1>7. StoreEnd'
  BY <1>1, <1>2, <1>6, Days DEF StoreEnd
<1>8. NoGaps' /\ OwnOrPrevious'
  BY <1>2 DEF Inv, NoGaps, OwnOrPrevious
<1>9. pc' = "fetch" => d' <= to'
  BY <1>1, <1>2, Days
<1>10. PatchDays' /\ PatchRates'
  <2>1. d' - 1 = lastDate /\ lastDate < d' /\ lastDate + 1 .. lastDate = {}
    BY <1>1, <1>2, Days
  <2> QED
    BY <1>1, <1>2, <2>1 DEF PatchDays, PatchRates
<1>11. UpdateInv'
  BY <1>1, <1>2, <1>3, <1>9, <1>10 DEF UpdateInv, Moved
<1> QED
  BY <1>5, <1>7, <1>8, <1>11 DEF Inv

\* Either outcome of the request for a day: the patch gets a rate for it, if
\* there is one to give.
LEMMA DayKeepsInv ==
  ASSUME Inv, pc = "fetch", NextDay(patch'),
         \/ /\ carry' = d /\ newLastDate' = d
            /\ patch' = Put(patch, d, d)
         \/ /\ carry # Zero /\ carry' = carry /\ newLastDate' = newLastDate
            /\ patch' = Put(patch, d, carry)
         \/ /\ carry = Zero /\ carry' = carry /\ newLastDate' = newLastDate
            /\ patch' = patch
  PROVE  Inv'
<1>1. /\ TypeOK /\ PatchDays /\ PatchRates /\ StoreEnd
      /\ carry = Moved(lastDate, newLastDate) /\ d <= to
  BY DEF Inv, UpdateInv
<1>2. /\ UNCHANGED <<env, store, lastDate, nextRun, to>>
      /\ d' = d + 1
      /\ pc' = IF d < to THEN "fetch" ELSE IF DOMAIN patch' = {} THEN "plan" ELSE "persist"
  BY DEF NextDay
<1>3. carry < d /\ Zero < d /\ lastDate < d /\ (carry = Zero => lastDate = Zero /\ newLastDate = Zero)
  BY <1>1, Days DEF PatchDays, Moved, Zero
<1>4. (NoGaps /\ OwnOrPrevious /\ StoreEnd)'
  <2>1. LastReal' = lastDate
    BY <1>2 DEF LastReal
  <2> QED
    BY <1>1, <1>2, <2>1 DEF Inv, NoGaps, OwnOrPrevious, StoreEnd, LastReal
<1>5. ASSUME NEW r \in DefaultFrom + 1 .. d, patch' = Put(patch, d, r)
      PROVE  /\ IsRates(patch')
             /\ DOMAIN patch' = DOMAIN patch \cup {d}
             /\ patch'[d] = r
             /\ \A x \in DOMAIN patch : x # d /\ patch'[x] = patch[x]
  <2>1. d \in DefaultFrom + 1 .. MaxDay + 1
    BY <1>1, <1>3, Days DEF Zero
  <2>2. /\ DOMAIN patch' = DOMAIN patch \cup {d}
        /\ \A x \in DOMAIN patch' : patch'[x] = IF x = d THEN r ELSE patch[x]
        /\ patch' = [x \in DOMAIN patch' |-> patch'[x]]
    BY <1>5 DEF Put
  <2>3. d \notin DOMAIN patch
    BY <1>1, Days DEF PatchDays
  <2> QED
    BY <1>1, <2>1, <2>2, <2>3 DEF TypeOK, IsRates
<1>6. CASE carry' = d /\ newLastDate' = d /\ patch' = Put(patch, d, d)
  <2>1. /\ IsRates(patch')
        /\ DOMAIN patch' = DOMAIN patch \cup {d}
        /\ patch'[d] = d
        /\ \A x \in DOMAIN patch : x # d /\ patch'[x] = patch[x]
    BY <1>1, <1>3, <1>5, <1>6, Days DEF Zero
  <2>2. TypeOK'
    <3>1. carry' \in DefaultFrom .. to' /\ newLastDate' \in DefaultFrom .. to'
          /\ d' \in Int /\ d' <= to' + 1
      BY <1>1, <1>2, <1>3, <1>6, Days DEF Zero
    <3> QED
      BY <1>1, <1>2, <2>1, <3>1 DEF TypeOK, env, IsRates
  <2>3. PatchDays'
    <3>1. \A x \in DOMAIN patch' : x \in lastDate + 1 .. d /\ x .. d \subseteq DOMAIN patch'
      BY <1>1, <2>1, Days DEF PatchDays
    <3>2. lastDate # Zero => DOMAIN patch' = lastDate + 1 .. d
      <4>1. lastDate + 1 .. d = lastDate + 1 .. d - 1 \cup {d}
        BY <1>1, Days DEF PatchDays
      <4> QED
        BY <1>1, <2>1, <4>1 DEF PatchDays
    <3>3. d' - 1 = d /\ lastDate < d'
      <4>1. d \in Int /\ lastDate \in Int /\ d' = d + 1
        BY <1>1, <1>2, Days
      <4> QED
        BY <1>3, <4>1
    <3>4. carry' # Zero /\ newLastDate' \in DOMAIN patch'
      BY <1>1, <1>3, <1>6, <2>1, Days DEF Zero
    <3> QED
      BY <1>2, <3>1, <3>2, <3>3, <3>4 DEF PatchDays
  <2>4. PatchRates'
    BY <1>1, <1>2, <1>3, <1>6, <2>1, Days DEF PatchRates, PatchDays, Zero
  <2>5. UpdateInv'
    BY <1>1, <1>2, <1>3, <1>6, <2>1, <2>3, <2>4, Days DEF UpdateInv, Moved, Zero
  <2> QED
    BY <1>4, <2>2, <2>5 DEF Inv
<1>7. CASE /\ carry # Zero /\ carry' = carry /\ newLastDate' = newLastDate
           /\ patch' = Put(patch, d, carry)
  <2>1. /\ IsRates(patch')
        /\ DOMAIN patch' = DOMAIN patch \cup {d}
        /\ patch'[d] = carry
        /\ \A x \in DOMAIN patch : x # d /\ patch'[x] = patch[x]
    BY <1>1, <1>3, <1>5, <1>7, Days DEF Zero
  <2>2. TypeOK'
    <3>1. d' \in Int /\ d' <= to' + 1
      BY <1>1, <1>2, Days
    <3> QED
      BY <1>1, <1>2, <1>7, <2>1, <3>1 DEF TypeOK, env, IsRates
  <2>3. PatchDays'
    <3>1. \A x \in DOMAIN patch' : x \in lastDate + 1 .. d /\ x .. d \subseteq DOMAIN patch'
      BY <1>1, <2>1, Days DEF PatchDays
    <3>2. lastDate # Zero => DOMAIN patch' = lastDate + 1 .. d
      <4>1. lastDate + 1 .. d = lastDate + 1 .. d - 1 \cup {d}
        BY <1>1, Days DEF PatchDays
      <4> QED
        BY <1>1, <2>1, <4>1 DEF PatchDays
    <3>3. d' - 1 = d /\ lastDate < d'
      <4>1. d \in Int /\ lastDate \in Int /\ d' = d + 1
        BY <1>1, <1>2, Days
      <4> QED
        BY <1>3, <4>1
    <3>4. carry' # Zero /\ (newLastDate' = Zero \/ newLastDate' \in DOMAIN patch')
      BY <1>1, <1>7, <2>1 DEF PatchDays
    <3> QED
      BY <1>2, <3>1, <3>2, <3>3, <3>4 DEF PatchDays
  <2>4. PatchRates'
    <3>1. \/ d - 1 \in DOMAIN patch /\ patch[d - 1] = carry
          \/ d = lastDate + 1 /\ lastDate # Zero /\ carry = lastDate
      <4>1. CASE DOMAIN patch = {}
        BY <1>1, <1>7, <4>1, Days DEF PatchDays, Moved
      <4>2. CASE DOMAIN patch # {}
        <5>1. d - 1 \in DOMAIN patch
          BY <1>1, <4>2, Days DEF PatchDays
        <5> QED
          BY <1>1, <1>3, <5>1, Days DEF PatchRates
      <4> QED
        BY <4>1, <4>2
    <3>2. lastDate <= carry
      BY <1>1, Days DEF Moved, PatchDays
    <3> QED
      BY <1>1, <1>2, <1>7, <2>1, <3>1, <3>2, Days DEF PatchRates
  <2>5. UpdateInv'
    BY <1>1, <1>2, <1>7, <2>1, <2>3, <2>4, Days DEF UpdateInv, Moved
  <2> QED
    BY <1>4, <2>2, <2>5 DEF Inv
<1>8. CASE /\ carry = Zero /\ carry' = carry /\ newLastDate' = newLastDate
           /\ patch' = patch
  <2>1. DOMAIN patch = {} /\ lastDate = Zero /\ newLastDate = Zero
    BY <1>1, <1>3, <1>8 DEF PatchDays
  <2>2. TypeOK'
    <3>1. d' \in Int /\ d' <= to' + 1
      BY <1>1, <1>2, Days
    <3> QED
      BY <1>1, <1>2, <1>8, <3>1 DEF TypeOK, env, IsRates
  <2>3. PatchDays' /\ PatchRates'
    BY <1>1, <1>2, <1>8, <2>1, Days DEF PatchDays, PatchRates
  <2>4. UpdateInv'
    BY <1>1, <1>2, <1>8, <2>1, <2>3, Days DEF UpdateInv, Moved
  <2> QED
    BY <1>4, <2>2, <2>4 DEF Inv
<1> QED
  BY <1>6, <1>7, <1>8

\* The patch starts right after lastDate, or the store was empty.
LEMMA PatchJoins ==
  ASSUME Inv, pc = "persist"
  PROVE  /\ DOMAIN store # {} => /\ lastDate \in DOMAIN store
                                 /\ DOMAIN patch = lastDate + 1 .. to
         /\ \A x \in DOMAIN store : x <= lastDate \/ x \in DOMAIN patch
         /\ \A x \in DOMAIN patch : lastDate < x /\ x <= to
<1>1. /\ TypeOK /\ StoreEnd /\ PatchDays /\ d = to + 1 /\ LastReal = lastDate
  BY DEF Inv, UpdateInv, LastReal
<1>2. DOMAIN store # {} => lastDate # Zero /\ lastDate \in DOMAIN store
  BY <1>1, Days DEF StoreEnd, Zero
<1>3. d - 1 = to
  BY <1>1, Days
<1>4. DOMAIN store # {} => DOMAIN patch = lastDate + 1 .. to
  BY <1>1, <1>2, <1>3 DEF PatchDays
<1>5. \A x \in DOMAIN patch : lastDate < x /\ x <= to
  BY <1>1, <1>3, Days DEF PatchDays
<1>6. \A x \in DOMAIN store : x <= lastDate \/ x \in DOMAIN patch
  BY <1>1, <1>4, Days DEF StoreEnd
<1> QED
  BY <1>2, <1>4, <1>5, <1>6

LEMMA UpsertKeepsInv ==
  ASSUME Inv, UpsertMany
  PROVE  Inv'
<1>1. /\ UNCHANGED <<env, lastDate, nextRun, update>> /\ pc = "persist" /\ pc' = "move"
      /\ DOMAIN store' = DOMAIN store \cup DOMAIN patch
      /\ store' = [x \in DOMAIN store' |-> store'[x]]
      /\ \A x \in DOMAIN store' : store'[x] = IF x \in DOMAIN patch THEN patch[x] ELSE store[x]
  BY DEF UpsertMany
<1>2. /\ TypeOK /\ StoreEnd /\ PatchDays /\ PatchRates /\ NoGaps /\ OwnOrPrevious
      /\ carry = Moved(lastDate, newLastDate)
      /\ d = to + 1 /\ DOMAIN patch # {} /\ LastReal = lastDate /\ LastReal' = carry
  BY <1>1 DEF Inv, UpdateInv, LastReal, update
<1>3. TypeOK'
  <2>1. IsRates(store')
    BY <1>1, <1>2 DEF TypeOK, IsRates
  <2> QED
    BY <1>1, <1>2, <2>1 DEF TypeOK, env, update, IsRates
<1>4. /\ DOMAIN store # {} => DOMAIN patch = lastDate + 1 .. to
      /\ \A x \in DOMAIN store : x <= lastDate \/ x \in DOMAIN patch
      /\ \A x \in DOMAIN patch : lastDate < x /\ x <= to
  BY <1>1, PatchJoins
<1>5. NoGaps'
  <2>1. ASSUME NEW x \in DOMAIN store', NEW y \in DOMAIN store', NEW z \in x .. y
        PROVE  z \in DOMAIN store'
    <3>1. x \in Int /\ y \in Int /\ z \in Int /\ x <= z /\ z <= y /\ y <= to
      BY <1>1, <1>2, <1>4, <2>1, Days DEF StoreEnd
    <3>2. CASE x \in DOMAIN patch
      <4>1. z \in x .. d - 1
        BY <1>2, <3>1, Days
      <4> QED
        BY <1>1, <1>2, <3>2, <4>1 DEF PatchDays
    <3>3. CASE x \in DOMAIN store
      <4>1. DOMAIN patch = lastDate + 1 .. to /\ lastDate \in DOMAIN store
        BY <1>2, <1>4, <3>3 DEF StoreEnd
      <4>2. CASE z <= lastDate
        <5>1. z \in x .. lastDate
          BY <1>2, <3>1, <4>2, Days
        <5> QED
          BY <1>1, <1>2, <3>3, <4>1, <5>1 DEF NoGaps
      <4>3. CASE lastDate < z
        <5>1. z \in lastDate + 1 .. to
          BY <1>2, <3>1, <4>3, Days
        <5> QED
          BY <1>1, <4>1, <5>1
      <4> QED
        BY <1>2, <3>1, <4>2, <4>3, Days
    <3> QED
      BY <1>1, <3>2, <3>3
  <2> QED
    BY <2>1 DEF NoGaps
<1>6. OwnOrPrevious'
  <2>1. ASSUME NEW x \in DOMAIN patch
        PROVE  store'[x] = x \/ (x - 1 \in DOMAIN store' /\ store'[x] = store'[x - 1])
    <3>1. CASE patch[x] = x
      BY <1>1, <2>1, <3>1
    <3>2. CASE x - 1 \in DOMAIN patch /\ patch[x] = patch[x - 1]
      BY <1>1, <2>1, <3>2
    <3>3. CASE x = lastDate + 1 /\ lastDate # Zero /\ patch[x] = lastDate
      <4>1. x - 1 = lastDate /\ lastDate \notin DOMAIN patch
        BY <1>2, <1>4, <3>3, Days
      <4>2. lastDate \in DOMAIN store
        BY <1>2, <3>3 DEF StoreEnd
      <4>3. lastDate <= lastDate
        BY <1>2, Days
      <4>4. store[lastDate] = lastDate
        BY <1>2, <4>2, <4>3 DEF StoreEnd
      <4> QED
        BY <1>1, <2>1, <3>3, <4>1, <4>2, <4>4
    <3> QED
      BY <1>2, <2>1, <3>1, <3>2, <3>3 DEF PatchRates
  <2>2. ASSUME NEW x \in DOMAIN store, x \notin DOMAIN patch
        PROVE  store'[x] = x \/ (x - 1 \in DOMAIN store' /\ store'[x] = store'[x - 1])
    <3>1. x <= lastDate /\ x - 1 <= lastDate /\ store'[x] = store[x]
      BY <1>1, <1>2, <1>4, <2>2, Days
    <3>2. x - 1 \notin DOMAIN patch
      BY <1>2, <1>4, <3>1, Days
    <3> QED
      BY <1>1, <1>2, <2>2, <3>1, <3>2 DEF OwnOrPrevious
  <2> QED
    BY <1>1, <2>1, <2>2 DEF OwnOrPrevious
<1>7. StoreEnd'
  <2>1. carry # Zero /\ lastDate <= carry
    BY <1>2, Days DEF PatchDays, Moved
  <2>2. carry \in DOMAIN store'
    <3>1. CASE newLastDate # Zero
      BY <1>1, <1>2, <3>1 DEF PatchDays, Moved
    <3>2. CASE newLastDate = Zero
      BY <1>1, <1>2, <2>1, <3>2 DEF StoreEnd, Moved
    <3> QED
      BY <3>1, <3>2
  <2>3. \A x \in DOMAIN store' : x <= to
    BY <1>1, <1>2, <1>4 DEF StoreEnd
  <2>4. ASSUME NEW x \in DOMAIN store', carry <= x PROVE store'[x] = carry
    <3>1. CASE x \in DOMAIN patch
      BY <1>1, <1>2, <2>4, <3>1 DEF PatchRates
    <3>2. CASE x \notin DOMAIN patch
      <4>1. x \in DOMAIN store /\ x <= lastDate
        BY <1>1, <1>4, <3>2
      <4>2. x = lastDate /\ carry = lastDate
        BY <1>2, <2>1, <2>4, <4>1, Days
      <4> QED
        BY <1>1, <1>2, <3>2, <4>1, <4>2 DEF StoreEnd
    <3> QED
      BY <3>1, <3>2
  <2> QED
    BY <1>1, <1>2, <2>2, <2>3, <2>4 DEF StoreEnd, update
<1>8. UpdateInv'
  BY <1>1, <1>2 DEF UpdateInv, Moved, update
<1> QED
  BY <1>3, <1>5, <1>6, <1>7, <1>8 DEF Inv

LEMMA MoveKeepsInv ==
  ASSUME Inv, MoveLastDate
  PROVE  Inv'
<1>1. /\ UNCHANGED <<env, store, nextRun, to, d, carry>> /\ pc = "move" /\ pc' = "plan"
      /\ lastDate' = carry /\ patch' = NoRates /\ newLastDate' = Zero
  BY DEF Inv, UpdateInv, MoveLastDate
<1>2. TypeOK'
  <2>1. lastDate' \in DefaultFrom .. MaxDay + 1 /\ newLastDate' \in DefaultFrom .. to
    BY <1>1, Days DEF Inv, TypeOK, Zero
  <2> QED
    BY <1>1, <2>1, NoRatesType DEF Inv, TypeOK, env, IsRates
<1>3. LastReal' = carry /\ LastReal = carry
  BY <1>1 DEF LastReal
<1>4. (NoGaps /\ OwnOrPrevious /\ StoreEnd)'
  BY <1>1, <1>3 DEF Inv, NoGaps, OwnOrPrevious, StoreEnd
<1>5. UpdateInv'
  BY <1>1, NoRatesType DEF UpdateInv
<1> QED
  BY <1>2, <1>4, <1>5 DEF Inv

LEMMA InvNext == Inv /\ [Next]_vars => Inv'
<1> SUFFICES ASSUME Inv, [Next]_vars PROVE Inv'
  OBVIOUS
<1>1. CASE Evening
  <2>1. TypeOK'
    BY <1>1 DEF Inv, TypeOK, Evening, update, IsRates
  <2> QED
    BY <1>1, <2>1, QuietKeepsInv DEF Evening
<1>2. CASE Midnight
  <2>1. today' \in FirstDay .. MaxDay /\ to \in DefaultFrom .. today' + 1
    BY <1>2, CalendarAssumption DEF Inv, TypeOK, Midnight
  <2>2. evening' \in BOOLEAN
    BY <1>2 DEF Midnight
  <2>3. TypeOK'
    BY <1>2, <2>1, <2>2 DEF Inv, TypeOK, Midnight, update, IsRates
  <2> QED
    BY <1>2, <2>3, QuietKeepsInv DEF Midnight
<1>3. CASE BeginFirst \/ BeginOnTimer
  BY <1>3, BeginKeepsInv DEF BeginFirst, BeginOnTimer
<1>4. CASE FetchDay
  BY <1>4, DayKeepsInv DEF FetchDay
<1>5. CASE NoRateForDay
  BY <1>5, DayKeepsInv DEF NoRateForDay, Fill
<1>6. CASE UpsertMany
  BY <1>6, UpsertKeepsInv
<1>7. CASE MoveLastDate
  BY <1>7, MoveKeepsInv
<1>8. CASE Plan
  <2>1. nextRun' \in FirstDay .. MaxDay + 1
    BY <1>8, CalendarAssumption DEF Inv, TypeOK, Plan, nextRunTime
  <2>2. TypeOK'
    BY <1>8, <2>1 DEF Inv, TypeOK, Plan, env, update, IsRates
  <2> QED
    BY <1>8, <2>2, QuietKeepsInv DEF Plan
<1>9. CASE Stop
  <2>1. TypeOK'
    BY <1>9 DEF Inv, TypeOK, Stop, env, update, IsRates
  <2> QED
    BY <1>9, <2>1, QuietKeepsInv DEF Stop
<1>10. CASE Restart
  <2>1. /\ today \in FirstDay .. MaxDay /\ FirstDay \in FirstDay .. MaxDay + 1
        /\ Zero \in DefaultFrom .. MaxDay + 1 /\ DefaultFrom \in DefaultFrom .. today + 1
        /\ DefaultFrom + 1 \in Int /\ Zero \in DefaultFrom .. DefaultFrom
    BY CalendarAssumption DEF Inv, TypeOK, Zero
  <2>2. TypeOK'
    BY <1>10, <2>1, NoRatesType DEF Inv, TypeOK, Restart, env
  <2>3. (NoGaps /\ OwnOrPrevious /\ StoreEnd /\ UpdateInv)'
    BY <1>10, NoRatesType DEF NoGaps, OwnOrPrevious, StoreEnd, UpdateInv, LastReal, Restart
  <2> QED
    BY <2>2, <2>3 DEF Inv
<1>11. CASE UNCHANGED vars
  <2>1. TypeOK'
    BY <1>11 DEF Inv, TypeOK, vars, env, update, IsRates
  <2> QED
    BY <1>11, <2>1, QuietKeepsInv DEF vars
<1> QED
  BY <1>1, <1>2, <1>3, <1>4, <1>5, <1>6, <1>7, <1>8, <1>9, <1>10, <1>11 DEF Next

LEMMA Invariance == Spec => []Inv
BY InvInit, InvNext, PTL DEF Spec

------------------------------------------------------------------------------
(* The schedule and the window.                                            *)

\* An update under way reaches today, and tomorrow once its 20:00 has struck;
\* the next one is due no later than on the last day of the window, and the
\* rates, if there are any, reach that day.
OnSchedule ==
  /\ Updating => today <= to /\ (evening => to = today + 1)
  /\ pc = "wait" => nextRun <= to
  /\ pc \in {"move", "plan", "wait"} => DOMAIN store = {} \/ to \in DOMAIN store

LEMMA ScheduleNext == Inv /\ OnSchedule /\ [Next]_vars => OnSchedule'
<1> SUFFICES ASSUME Inv, OnSchedule, [Next]_vars PROVE OnSchedule'
  OBVIOUS
<1>0. today \in Int /\ to \in Int /\ nextRun \in Int /\ lastDate \in Int
  BY CalendarAssumption DEF Inv, TypeOK
<1>1. CASE Evening
  BY <1>0, <1>1 DEF OnSchedule, Evening, Updating, To, update
<1>2. CASE Midnight
  BY <1>0, <1>2 DEF OnSchedule, Midnight, Updating, update
<1>3. CASE BeginFirst \/ BeginOnTimer
  <2>1. /\ UNCHANGED <<env, store>> /\ to' = today + 1 /\ pc \in {"start", "wait"}
        /\ pc' = IF lastDate + 1 > to' THEN "plan" ELSE "fetch"
    BY <1>3 DEF BeginFirst, BeginOnTimer, Begin, To
  <2>2. ASSUME pc' = "plan", DOMAIN store # {} PROVE to' \in DOMAIN store
    <3>1. lastDate \in DOMAIN store /\ lastDate <= to
      BY <2>1, <2>2 DEF Inv, StoreEnd, LastReal
    <3>2. to <= today + 1
      BY <1>0 DEF Inv, TypeOK
    <3> QED
      BY <1>0, <2>1, <2>2, <3>1, <3>2
  <2>3. today' = today /\ store' = store /\ pc' \in {"plan", "fetch"}
    BY <2>1 DEF env
  <2>4. Updating' => today' <= to' /\ (evening' => to' = today' + 1)
    BY <1>0, <2>1, <2>3
  <2>5. pc' \in {"move", "plan", "wait"} => DOMAIN store' = {} \/ to' \in DOMAIN store'
    BY <2>2, <2>3
  <2> QED
    BY <2>3, <2>4, <2>5 DEF OnSchedule
<1>4. CASE FetchDay \/ NoRateForDay
  <2>1. /\ UNCHANGED <<env, store, to>> /\ pc = "fetch"
        /\ pc' \in {"fetch", "persist", "plan"}
        /\ pc' = "plan" => DOMAIN patch' = {}
    BY <1>4 DEF FetchDay, NoRateForDay, NextDay
  <2>2. ASSUME pc' = "plan" PROVE DOMAIN store = {}
    <3>1. carry = Zero
      <4>1. CASE FetchDay
        BY <2>1, <2>2, <4>1 DEF FetchDay, Put
      <4>2. CASE NoRateForDay
        BY <2>1, <2>2, <4>2 DEF NoRateForDay, Fill, Put
      <4> QED
        BY <1>4, <4>1, <4>2
    <3>2. lastDate = Zero
      BY <2>1, <3>1 DEF Inv, UpdateInv, Moved
    <3>3. Zero \notin DOMAIN store
      BY CalendarAssumption DEF Inv, TypeOK, IsRates, Zero
    <3> QED
      BY <2>1, <3>2, <3>3 DEF Inv, StoreEnd, LastReal
  <2> QED
    BY <2>1, <2>2 DEF OnSchedule, Updating, env
<1>5. CASE UpsertMany
  <2>1. /\ UNCHANGED <<env, to>> /\ pc = "persist" /\ pc' = "move"
        /\ DOMAIN patch \subseteq DOMAIN store'
    BY <1>5 DEF UpsertMany, update
  <2>2. PICK x \in DOMAIN patch : x .. d - 1 \subseteq DOMAIN patch
    BY <2>1 DEF Inv, UpdateInv, PatchDays
  <2>3. d = to + 1 /\ x \in Int /\ x <= d - 1
    BY <1>0, <2>1 DEF Inv, UpdateInv, PatchDays, TypeOK
  <2>4. to \in DOMAIN patch
    BY <1>0, <2>2, <2>3
  <2> QED
    BY <2>1, <2>4 DEF OnSchedule, Updating, env
<1>6. CASE MoveLastDate
  BY <1>6 DEF OnSchedule, MoveLastDate, Updating, env
<1>7. CASE Plan
  BY <1>0, <1>7 DEF OnSchedule, Plan, nextRunTime, Updating, env, update
<1>8. CASE Stop \/ Restart
  BY <1>8 DEF OnSchedule, Stop, Restart, Updating
<1>9. CASE UNCHANGED vars
  BY <1>9 DEF OnSchedule, vars, env, update, Updating
<1> QED
  BY <1>1, <1>2, <1>3, <1>4, <1>5, <1>6, <1>7, <1>8, <1>9 DEF Next

------------------------------------------------------------------------------
(* The theorems.                                                           *)

\* The variables have their types; no rate is from the future of its day.
THEOREM KztTypeCorrect == Spec => []TypeOK
<1>1. Inv => TypeOK
  BY DEF Inv
<1> QED
  BY <1>1, Invariance, PTL

\* Whatever days get no answer, there are no holes between days with a rate.
THEOREM KztNoGaps == Spec => []NoGaps
<1>1. Inv => NoGaps
  BY DEF Inv
<1> QED
  BY <1>1, Invariance, PTL

\* A stored rate is the day's own or that of the day before it.
THEOREM KztOwnOrPrevious == Spec => []OwnOrPrevious
<1>1. Inv => OwnOrPrevious
  BY DEF Inv
<1> QED
  BY <1>1, Invariance, PTL

\* What the next update asks for again are just copies of the last real rate.
THEOREM KztLastDateIsReal == Spec => []LastDateIsReal
<1>1. Inv => LastDateIsReal
  BY DEF Inv, StoreEnd, LastReal, LastDateIsReal
<1> QED
  BY <1>1, Invariance, PTL

\* A settled rate never changes and a copy only gives way to a later rate: the
\* patch starts after lastDate and has no rate from before it.
THEOREM KztNothingTakenBack == Spec => NothingTakenBack
<1> DEFINE Kept == \/ Restart
                   \/ \A x \in DOMAIN store :
                        /\ x \in DOMAIN store'
                        /\ IF x <= lastDate THEN store'[x] = store[x]
                                            ELSE store'[x] >= store[x]
<1>1. Inv /\ [Next]_vars => [Kept]_store
  <2> SUFFICES ASSUME Inv, Next, store' # store, ~Restart PROVE Kept
    BY DEF vars
  <2>1. UpsertMany
    <3>1. FetchDay \/ NoRateForDay => UNCHANGED store
      BY DEF FetchDay, NoRateForDay, NextDay
    <3> QED
      BY <3>1 DEF Next, Evening, Midnight, BeginFirst, BeginOnTimer, Begin,
              MoveLastDate, Plan, Stop
  <2>2. /\ TypeOK /\ StoreEnd /\ PatchDays /\ PatchRates /\ LastReal = lastDate
        /\ \A x \in DOMAIN store :
             /\ x \in DOMAIN store'
             /\ store'[x] = IF x \in DOMAIN patch THEN patch[x] ELSE store[x]
    BY <2>1 DEF Inv, UpdateInv, LastReal, UpsertMany
  <2>3. ASSUME NEW x \in DOMAIN store, x <= lastDate PROVE store'[x] = store[x]
    <3>1. x \notin DOMAIN patch
      BY <2>2, <2>3, Days DEF PatchDays
    <3> QED
      BY <2>2, <3>1
  <2>4. ASSUME NEW x \in DOMAIN store, ~(x <= lastDate) PROVE store'[x] >= store[x]
    <3>1. store[x] = lastDate /\ lastDate \in Int
      BY <2>2, <2>4, Days DEF StoreEnd
    <3>2. x \in DOMAIN patch => patch[x] >= lastDate
      BY <2>2, Days DEF PatchRates
    <3> QED
      BY <2>2, <3>1, <3>2
  <2> QED
    BY <2>2, <2>3, <2>4
<1> QED
  BY <1>1, Invariance, PTL DEF Spec, NothingTakenBack

\* Once there is any rate, and until the next update is due, the running day
\* has one, whether or not NBRK answers: the rates reach the end of the window,
\* and the window the day the next update is planned for.
THEOREM KztRunningDayHasRate == Spec => []RunningDayHasRate
<1>1. Init => OnSchedule
  BY DEF Init, OnSchedule, Updating
<1>2. Inv /\ OnSchedule => RunningDayHasRate
  <2> SUFFICES ASSUME Inv, OnSchedule, pc = "wait", ~Expired(nextRun, today, evening),
                      NEW u \in UtcDays(today), NEW x \in DOMAIN store, x <= u
               PROVE  HasRate(store, u)
    BY DEF RunningDayHasRate
  <2>1. today \in Int /\ nextRun \in Int /\ to \in Int /\ x \in Int
    BY CalendarAssumption DEF Inv, TypeOK, IsRates
  <2>2. today <= nextRun /\ nextRun <= to
    BY <2>1 DEF OnSchedule, Expired
  <2>3. x .. to \subseteq DOMAIN store
    BY DEF OnSchedule, Inv, NoGaps
  <2>4. u \in x .. to
    BY <2>1, <2>2 DEF UtcDays
  <2> QED
    BY <2>3, <2>4 DEF HasRate
<1> QED
  BY <1>1, <1>2, ScheduleNext, Invariance, PTL DEF Spec

------------------------------------------------------------------------------
(* The book of rates that readers rely on.                                 *)

InOrder(f) == \A x, y \in DOMAIN f : x <= y => f[x] <= f[y]

\* No day of the store has an older rate than one before it, nor has the patch.
BookInv == InOrder(store) /\ (pc \in {"fetch", "persist"} => InOrder(patch))

\* A day is given a rate that is not older than those of the days before.
LEMMA DayInOrder ==
  ASSUME Inv, BookInv, pc = "fetch", NEW r \in {carry, d}, carry # Zero \/ r = d,
         patch' = Put(patch, d, r)
  PROVE  InOrder(patch')
<1>1. TypeOK /\ PatchDays /\ PatchRates /\ d <= to /\ carry = Moved(lastDate, newLastDate)
  BY DEF Inv, UpdateInv
<1>2. /\ DOMAIN patch' = DOMAIN patch \cup {d}
      /\ \A x \in DOMAIN patch' : patch'[x] = IF x = d THEN r ELSE patch[x]
  BY DEF Put
<1>3. carry < d
  BY <1>1, Days DEF PatchDays, Moved
<1>4. ASSUME NEW x \in DOMAIN patch PROVE x < d /\ patch[x] <= r /\ patch[x] \in Int
  <2>1. x < d /\ x \in Int /\ patch[x] \in Int /\ patch[x] <= x
    BY <1>1, Days DEF PatchDays, TypeOK, IsRates
  <2>2. patch[x] <= carry
    BY <1>1, <2>1, Days DEF PatchRates
  <2> QED
    BY <1>1, <1>3, <2>1, <2>2, Days
<1> SUFFICES ASSUME NEW x \in DOMAIN patch', NEW y \in DOMAIN patch', x <= y
             PROVE  patch'[x] <= patch'[y]
  BY DEF InOrder
<1>5. CASE x = d /\ y = d
  BY <1>1, <1>2, <1>5, Days
<1>6. CASE x # d /\ y = d
  BY <1>2, <1>4, <1>6
<1>7. CASE x # d /\ y # d
  BY <1>2, <1>7 DEF BookInv, InOrder
<1>8. CASE x = d /\ y # d
  BY <1>1, <1>2, <1>4, <1>8, Days
<1> QED
  BY <1>5, <1>6, <1>7, <1>8

\* Storing the patch continues the book.
LEMMA UpsertContinues ==
  ASSUME Inv, BookInv, UpsertMany
  PROVE  /\ InOrder(store')
         /\ Book!Kept(store, store')
         /\ Book!Appended(store, store')
<1>1. /\ pc = "persist"
      /\ DOMAIN store' = DOMAIN store \cup DOMAIN patch
      /\ \A x \in DOMAIN store' : store'[x] = IF x \in DOMAIN patch THEN patch[x] ELSE store[x]
  BY DEF UpsertMany
<1>2. TypeOK /\ StoreEnd /\ PatchRates /\ NoGaps /\ LastReal = lastDate
  BY <1>1 DEF Inv, UpdateInv, LastReal
<1>3. /\ DOMAIN store # {} => lastDate \in DOMAIN store
      /\ \A x \in DOMAIN store : x <= lastDate \/ x \in DOMAIN patch
      /\ \A x \in DOMAIN patch : lastDate < x /\ x <= to
  BY <1>1, PatchJoins
<1>4. ASSUME NEW x \in DOMAIN store', NEW y \in DOMAIN store', x <= y
      PROVE  store'[x] <= store'[y]
  <2>1. CASE x \in DOMAIN patch /\ y \in DOMAIN patch
    BY <1>1, <1>4, <2>1 DEF BookInv, InOrder
  <2>2. CASE x \notin DOMAIN patch /\ y \notin DOMAIN patch
    BY <1>1, <1>4, <2>2 DEF BookInv, InOrder
  <2>3. CASE x \notin DOMAIN patch /\ y \in DOMAIN patch
    <3>1. x \in DOMAIN store /\ x \in Int /\ x <= lastDate /\ store[x] <= x /\ store[x] \in Int
      BY <1>1, <1>2, <1>3, <2>3, Days DEF TypeOK, IsRates
    <3>2. lastDate <= patch[y] /\ patch[y] \in Int
      BY <1>2, <2>3, Days DEF PatchRates
    <3>3. store'[x] = store[x] /\ store'[y] = patch[y] /\ lastDate \in Int
      BY <1>1, <1>2, <2>3, Days
    <3> QED
      BY <3>1, <3>2, <3>3
  <2>4. CASE x \in DOMAIN patch /\ y \notin DOMAIN patch
    <3>1. lastDate < x /\ y <= lastDate
      BY <1>1, <1>3, <2>4
    <3> QED
      BY <1>1, <1>2, <1>4, <2>4, <3>1, Days
  <2> QED
    BY <2>1, <2>2, <2>3, <2>4
<1>5. ASSUME NEW x \in DOMAIN store
      PROVE  store'[x] = store[x] \/ (store[x] < x /\ store[x] < store'[x])
  <2>1. CASE x \notin DOMAIN patch
    BY <1>1, <2>1
  <2>2. CASE x \in DOMAIN patch
    <3>1. store[x] = lastDate /\ lastDate < x /\ lastDate <= patch[x]
      BY <1>2, <1>3, <2>2, Days DEF StoreEnd, PatchRates
    <3> QED
      BY <1>1, <1>2, <2>2, <3>1, Days
  <2> QED
    BY <2>1, <2>2
<1>6. ASSUME NEW x \in DOMAIN store, NEW y \in DOMAIN store' \ DOMAIN store
      PROVE  x < y
  <2>1. lastDate < y /\ lastDate \in DOMAIN store
    BY <1>1, <1>3
  <2>2. x \in Int /\ y \in Int /\ lastDate \in Int
    BY <1>1, <1>2, Days
  <2>3. y \notin lastDate .. x
    BY <1>2, <2>1 DEF NoGaps
  <2> QED
    BY <2>1, <2>2, <2>3
<1>7. InOrder(store')
  BY <1>4 DEF InOrder
<1>8. Book!Kept(store, store')
  BY <1>1, <1>5 DEF Book!Kept
<1>9. Book!Appended(store, store')
  BY <1>6 DEF Book!Appended
<1> QED
  BY <1>7, <1>8, <1>9

LEMMA BookNext == Inv /\ BookInv /\ [Next]_vars => BookInv'
<1> SUFFICES ASSUME Inv, BookInv, [Next]_vars PROVE BookInv'
  OBVIOUS
<1>1. CASE UNCHANGED <<store, patch, pc>>
  BY <1>1 DEF BookInv, InOrder
<1>2. CASE UNCHANGED store /\ pc' \notin {"fetch", "persist"}
  BY <1>2 DEF BookInv, InOrder
<1>3. CASE BeginFirst \/ BeginOnTimer
  <2>1. UNCHANGED <<store, patch>> /\ DOMAIN patch = {}
    BY <1>3 DEF BeginFirst, BeginOnTimer, Begin, Inv, UpdateInv
  <2> QED
    BY <2>1 DEF BookInv, InOrder
<1>4. CASE FetchDay \/ NoRateForDay
  <2>1. UNCHANGED store /\ pc = "fetch"
    BY <1>4 DEF FetchDay, NoRateForDay, NextDay
  <2>2. patch' = patch \/ InOrder(patch')
    BY <1>4, <2>1, DayInOrder DEF FetchDay, NoRateForDay, Fill
  <2> QED
    BY <2>1, <2>2 DEF BookInv, InOrder
<1>5. CASE UpsertMany
  <2>1. pc' = "move"
    BY <1>5 DEF UpsertMany
  <2> QED
    BY <1>5, <2>1, UpsertContinues DEF BookInv
<1>6. CASE Restart
  BY <1>6, NoRatesType DEF Restart, BookInv, InOrder
<1>7. CASE Evening \/ Midnight \/ UNCHANGED vars
  BY <1>1, <1>7 DEF Evening, Midnight, vars, update
<1>8. CASE MoveLastDate \/ Plan \/ Stop
  BY <1>2, <1>8 DEF MoveLastDate, Plan, Stop
<1> QED
  BY <1>3, <1>4, <1>5, <1>6, <1>7, <1>8 DEF Next

\* Whatever days get no answer, readers see a book in which only copies give
\* way, to later rates.
THEOREM KztImplementsRateBook == Spec => ImplementsRateBook
<1>1. Init => BookInv /\ Book!Init
  BY NoRatesType DEF Init, BookInv, InOrder, Book!Init
<1>2. Inv /\ Inv' /\ BookInv /\ BookInv' /\ [Next]_vars => [Book!Update \/ Book!Restart]_store
  <2> SUFFICES ASSUME Inv, Inv', BookInv, BookInv', [Next]_vars, store' # store
               PROVE  Book!Update \/ Book!Restart
    OBVIOUS
  <2>1. UpsertMany \/ Restart
    <3>1. FetchDay \/ NoRateForDay => UNCHANGED store
      BY DEF FetchDay, NoRateForDay, NextDay
    <3> QED
      BY <3>1 DEF Next, Evening, Midnight, BeginFirst, BeginOnTimer, Begin,
              MoveLastDate, Plan, Stop, vars
  <2>2. CASE UpsertMany
    <3>1. Book!Kept(store, store') /\ Book!Appended(store, store')
      BY <2>2, UpsertContinues
    <3>2. Book!InTime(store')
      <4>1. \A x \in DOMAIN store' : store'[x] \in DefaultFrom + 1 .. x
        BY DEF Inv, TypeOK, IsRates
      <4> QED
        BY <4>1, CalendarAssumption DEF Book!InTime
    <3>3. Book!Ordered(store')
      BY DEF Inv, NoGaps, BookInv, InOrder, Book!Ordered
    <3> QED
      BY <3>1, <3>2, <3>3 DEF Book!Update
  <2>3. CASE Restart
    BY <2>3, NoRatesType DEF Restart, Book!Restart
  <2> QED
    BY <2>1, <2>2, <2>3
<1> QED
  BY <1>1, <1>2, BookNext, Invariance, PTL DEF Spec, ImplementsRateBook, Book!Spec
=============================================================================
