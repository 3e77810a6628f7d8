-------------------------- MODULE RubSourceProofs ---------------------------
(***************************************************************************)
(* Theorems about the RUB source, for any calendar of working days, any    *)
(* day of the start and any number of failed, late and garbled answers.    *)
(***************************************************************************)
EXTENDS RubSource, WellFoundedInduction, TLAPS

------------------------------------------------------------------------------
(* The last day of a set up to a day.                                      *)

\* A non-empty set of natural numbers has a least element.
LEMMA LeastNat ==
  ASSUME NEW T, T \subseteq Nat, T # {}
  PROVE  \E x \in T : \A y \in T : x <= y
<1>1. IsWellFoundedOn(OpToRel(<, Nat), Nat)
  BY NatLessThanWellFounded
<1>2. PICK x \in T : \A y \in T : ~ (<<y, x>> \in OpToRel(<, Nat))
  BY <1>1, WFMin
<1>3. \A y \in T : ~ (y < x)
  BY <1>2 DEF OpToRel
<1> QED
  BY <1>3

IsLatest(days, d, e) == /\ e \in days
                        /\ e <= d
                        /\ \A x \in days : x <= d => x <= e

\* Among days some of which are not after d, there is a last one up to d.
LEMMA LatestExists ==
  ASSUME NEW days, days \subseteq Int, NEW d \in Int, \E x \in days : x <= d
  PROVE  IsLatest(days, d, Latest(days, d))
<1> DEFINE T == {n \in Nat : \E x \in days : x <= d /\ n = d - x}
<1>1. T # {}
  <2>1. PICK x \in days : x <= d
    OBVIOUS
  <2>2. d - x \in Nat
    BY <2>1
  <2> QED
    BY <2>1, <2>2
<1>2. PICK n \in T : \A m \in T : n <= m
  BY <1>1, LeastNat
<1>3. PICK e \in days : e <= d /\ n = d - e
  OBVIOUS
<1>4. ASSUME NEW x \in days, x <= d PROVE x <= e
  <2>1. d - x \in T
    BY <1>4
  <2>2. d - e <= d - x
    BY <1>2, <1>3, <2>1
  <2>3. x \in Int /\ e \in Int
    BY <1>3
  <2> QED
    BY <2>2, <2>3
<1>5. \E y \in days : y <= d /\ \A x \in days : x <= d => x <= y
  BY <1>3, <1>4
<1> QED
  BY <1>5 DEF Latest, IsLatest

------------------------------------------------------------------------------
(* The inductive invariant.                                                *)

\* CBR publishes on time.
OnTime == \A d \in WorkingDays : d <= today => d \in published

\* The patch ends at the end of the window and has no holes.
PatchFits ==
  /\ DOMAIN patch # {}
  /\ DOMAIN patch \subseteq window.from .. window.to
  /\ \A d \in DOMAIN patch : d .. window.to \subseteq DOMAIN patch

\* It starts with the window if there is something to carry.
PatchJoins == DOMAIN store # {} => DOMAIN patch = window.from .. window.to

\* The official rate of the day, or the one before it.
Behind(d, r) == \/ OfficialFor(d, r)
                \/ \E e \in WorkingDays \ garbled : OfficialFor(d, e) /\ OfficialFor(e - 1, r)

Inv ==
  /\ TypeOK
  /\ NoGaps
  /\ OnTime
  /\ pc \in {"fetch", "persist", "move"} => /\ window.from = lastDate + 1
                                           /\ window.from <= window.to
  /\ pc \in {"persist", "move"} => PatchFits
  /\ pc = "persist" => PatchJoins
  /\ pc = "move" => DOMAIN patch \subseteq DOMAIN store
  /\ garbled = {} => /\ \A d \in DOMAIN store : Behind(d, store[d])
                     /\ \A d \in DOMAIN patch : Behind(d, patch[d])

LEMMA NoRatesType == IsRates(NoRates) /\ DOMAIN NoRates = {}
BY DEF IsRates, NoRates

LEMMA InvInit == Init => Inv
<1> SUFFICES ASSUME Init PROVE Inv
  OBVIOUS
<1>1. published \subseteq WorkingDays /\ OnTime
  BY DEF Init, OnTime
<1>2. TypeOK
  BY <1>1, NoRatesType, CalendarAssumption DEF Init, TypeOK
<1> QED
  BY <1>1, <1>2, NoRatesType DEF Init, Inv, NoGaps, PatchFits, PatchJoins

------------------------------------------------------------------------------
(* What an update computes.                                                *)

\* The patch of a non-empty answer fits, and has rates of working days.
LEMMA FilledFits ==
  ASSUME Inv, pc = "fetch", NEW records, records = published \cap window.from .. window.to,
         NEW f, f = Filled(records \ garbled, window, store, lastDate),
         DOMAIN f # {}
  PROVE  /\ IsRates(f)
         /\ DOMAIN f \subseteq window.from .. window.to
         /\ \A d \in DOMAIN f : d .. window.to \subseteq DOMAIN f
         /\ DOMAIN store # {} => DOMAIN f = window.from .. window.to
<1> DEFINE raw == records \ garbled
           known(d) == {e \in raw : e <= d}
           carry == lastDate \in DOMAIN store
           D == {x \in window.from .. window.to : carry \/ known(x) # {}}
<1>1. f = [d \in D |-> IF known(d) # {} THEN Latest(raw, d) ELSE store[lastDate]]
  BY DEF Filled
<1>2. raw \subseteq WorkingDays /\ raw \subseteq Int /\ WorkingDays \subseteq Int
  BY CalendarAssumption DEF Inv, TypeOK
<1>3. window.from \in Int /\ window.to \in Int /\ lastDate \in Int
  BY DEF Inv, TypeOK
<1>4. carry => store[lastDate] \in WorkingDays
  BY DEF Inv, TypeOK, IsRates
<1>5. ASSUME NEW d \in D, known(d) # {} PROVE Latest(raw, d) \in WorkingDays
  <2>1. d \in Int /\ \E x \in raw : x <= d
    BY <1>3, <1>5
  <2>2. IsLatest(raw, d, Latest(raw, d))
    BY <1>2, <2>1, LatestExists
  <2> QED
    BY <1>2, <2>2 DEF IsLatest
<1>6. \A d \in D : f[d] \in WorkingDays
  BY <1>1, <1>4, <1>5
<1>7. DOMAIN f = D /\ f = [d \in DOMAIN f |-> f[d]] /\ D \subseteq Int
  <2>1. D \subseteq Int
    BY <1>3
  <2> HIDE DEF D, known, carry
  <2> QED
    BY <1>1, <2>1
<1>8. IsRates(f)
  BY <1>6, <1>7 DEF IsRates
<1>9. ASSUME NEW d \in D, NEW x \in d .. window.to PROVE x \in D
  <2>1. x \in window.from .. window.to
    BY <1>3, <1>9
  <2>2. known(d) \subseteq known(x)
    BY <1>2, <1>3, <1>9
  <2> QED
    BY <1>9, <2>1, <2>2
<1>10. DOMAIN store # {} => carry
  <2> SUFFICES ASSUME NEW d \in DOMAIN store PROVE lastDate \in DOMAIN store
    OBVIOUS
  <2>1. d <= lastDate /\ d .. lastDate \subseteq DOMAIN store /\ d \in Int
    BY DEF Inv, NoGaps, TypeOK, IsRates
  <2> QED
    BY <1>3, <2>1
<1> QED
  BY <1>7, <1>8, <1>9, <1>10

\* If every record can be parsed, the patch of a non-empty answer is at most
\* one rate behind: only the rate of its last day may be yet to come.
LEMMA FilledBehind ==
  ASSUME Inv, pc = "fetch", garbled = {}, NEW records,
         records = published \cap window.from .. window.to, records # {},
         NEW f, f = Filled(records \ garbled, window, store, lastDate),
         NEW d \in DOMAIN f
  PROVE  Behind(d, f[d])
<1> DEFINE known(x) == {e \in records : e <= x}
           carry == lastDate \in DOMAIN store
           D == {x \in window.from .. window.to : carry \/ known(x) # {}}
<1>0. records \ garbled = records
  OBVIOUS
<1>1. f = [x \in D |-> IF known(x) # {} THEN Latest(records, x) ELSE store[lastDate]]
  BY <1>0 DEF Filled
<1>2. records \subseteq WorkingDays /\ records \subseteq Int /\ WorkingDays \subseteq Int
  BY CalendarAssumption DEF Inv, TypeOK
<1>3. /\ window.from \in Int /\ window.to \in Int /\ lastDate \in Int /\ today \in Int
      /\ window.from = lastDate + 1 /\ window.to <= today + 1
  BY CalendarAssumption DEF Inv, TypeOK
<1>4. d \in window.from .. window.to /\ d \in Int /\ (carry \/ known(d) # {})
  BY <1>1, <1>3
\* Within the window all but the last day are published.
<1>5. \A e \in WorkingDays : window.from <= e /\ e < window.to => e \in records
  BY <1>2, <1>3 DEF Inv, OnTime
<1>6. CASE known(d) # {}
  <2> DEFINE r == Latest(records, d)
  <2>1. f[d] = r
    BY <1>1, <1>4, <1>6
  <2>2. IsLatest(records, d, r)
    BY <1>2, <1>4, <1>6, LatestExists
  <2> HIDE DEF r
  <2>3. r \in WorkingDays /\ r \in Int /\ window.from <= r /\ r <= d
    BY <1>2, <1>3, <2>2 DEF IsLatest
  <2>4. \A e \in WorkingDays : e <= d /\ r < e => e = window.to /\ d = window.to
    BY <1>2, <1>3, <1>4, <1>5, <2>2, <2>3 DEF IsLatest
  <2>5. CASE \A e \in WorkingDays : e <= d => e <= r
    BY <2>1, <2>3, <2>5 DEF Behind, OfficialFor
  <2>6. CASE \E e \in WorkingDays : e <= d /\ ~(e <= r)
    <3>1. PICK e \in WorkingDays : e <= d /\ r < e
      BY <1>2, <2>3, <2>6
    <3>2. e = window.to /\ d = window.to
      BY <2>4, <3>1
    <3>3. OfficialFor(d, e)
      BY <1>2, <3>2 DEF OfficialFor
    <3>4. OfficialFor(e - 1, r)
      <4>1. r <= e - 1
        BY <1>2, <2>3, <3>1
      <4>2. \A x \in WorkingDays : x <= e - 1 => x <= r
        BY <1>2, <1>3, <2>3, <2>4, <3>2
      <4> QED
        BY <2>3, <4>1, <4>2 DEF OfficialFor
    <3> QED
      BY <2>1, <3>3, <3>4 DEF Behind
  <2> QED
    BY <2>5, <2>6
<1>7. CASE known(d) = {}
  <2>1. carry /\ f[d] = store[lastDate]
    BY <1>1, <1>4, <1>7
  <2>2. d < window.to
    <3>1. PICK e \in records : TRUE
      OBVIOUS
    <3>2. e <= window.to /\ ~ (e <= d)
      BY <1>2, <1>3, <1>7, <3>1
    <3> QED
      BY <1>2, <1>3, <1>4, <3>2
  <2>3. \A e \in WorkingDays : e <= d => e <= lastDate
    BY <1>2, <1>3, <1>4, <1>5, <1>7, <2>2
  <2>4. Behind(lastDate, store[lastDate])
    BY <2>1 DEF Inv
  <2>5. ASSUME NEW r, OfficialFor(lastDate, r) PROVE OfficialFor(d, r)
    <3>1. r \in Int /\ r <= lastDate
      BY <1>2, <2>5 DEF OfficialFor
    <3> QED
      BY <1>2, <1>3, <1>4, <2>3, <2>5, <3>1 DEF OfficialFor
  <2> QED
    BY <2>1, <2>4, <2>5 DEF Behind
<1> QED
  BY <1>6, <1>7

------------------------------------------------------------------------------
(* The invariant holds at every step.                                      *)

\* What the parts of the invariant about the source's own state depend on.
own == <<garbled, store, lastDate, pc, window, patch>>

\* A step of the world changes nothing the source has, and keeps its promise to
\* publish on time.
LEMMA WorldKeepsInv ==
  ASSUME Inv, UNCHANGED own, TypeOK', OnTime'
  PROVE  Inv'
<1>1. NoGaps'
  BY DEF Inv, NoGaps, own
<1>2. (PatchFits => PatchFits') /\ (PatchJoins => PatchJoins')
  BY DEF PatchFits, PatchJoins, own
<1>3. \A d, r : Behind(d, r) <=> Behind(d, r)'
  BY DEF Behind, OfficialFor, own
<1> QED
  BY <1>1, <1>2, <1>3 DEF Inv, own

\* The same of a step of the source that has nothing in its hands after it and
\* leaves the store as it is.
LEMMA IdleKeepsInv ==
  ASSUME Inv, TypeOK', UNCHANGED <<env, store, lastDate, patch>>,
         pc # "move", pc' \in {"plan", "wait", "stopped"}
  PROVE  Inv'
<1>1. NoGaps' /\ OnTime'
  BY DEF Inv, NoGaps, OnTime, env
<1>2. \A d, r : Behind(d, r) <=> Behind(d, r)'
  BY DEF Behind, OfficialFor, env
<1> QED
  BY <1>1, <1>2 DEF Inv, env

LEMMA BeginKeepsInv ==
  ASSUME Inv, Begin, pc \in {"start", "wait"}
  PROVE  Inv'
<1>1. TypeOK'
  BY CalendarAssumption DEF Inv, TypeOK, Begin, To, From, env, IsRates
<1>2. NoGaps' /\ OnTime'
  BY DEF Inv, NoGaps, OnTime, Begin, env
<1>3. \A d, r : Behind(d, r) <=> Behind(d, r)'
  BY DEF Behind, OfficialFor, Begin, env
<1>4. pc' = "fetch" => window'.from = lastDate' + 1 /\ window'.from <= window'.to
  BY CalendarAssumption DEF Inv, TypeOK, Begin, To, From
<1>5. pc' \in {"plan", "fetch"}
  BY DEF Begin
<1> QED
  BY <1>1, <1>2, <1>3, <1>4, <1>5 DEF Inv, Begin, env

LEMMA FetchKeepsInv ==
  ASSUME Inv, Fetch
  PROVE  Inv'
<1> DEFINE records == published \cap window.from .. window.to
           f == Filled(records \ garbled, window, store, lastDate)
<1>1. UNCHANGED <<env, store, lastDate, nextRun, window, err>> /\ pc = "fetch"
  BY DEF Fetch
<1>2. CASE records = {} \/ DOMAIN f = {}
  <2>1. pc' = "plan" /\ UNCHANGED patch
    BY <1>2 DEF Fetch, Empty
  <2>2. TypeOK'
    BY <1>1, <2>1 DEF Inv, TypeOK, env, IsRates
  <2> QED
    BY <1>1, <2>1, <2>2, IdleKeepsInv
<1>3. CASE ~ (records = {} \/ DOMAIN f = {})
  <2>1. pc' = "persist" /\ patch' = f
    BY <1>3 DEF Fetch, Empty
  <2>2. /\ IsRates(f)
        /\ DOMAIN f \subseteq window.from .. window.to
        /\ \A d \in DOMAIN f : d .. window.to \subseteq DOMAIN f
        /\ DOMAIN store # {} => DOMAIN f = window.from .. window.to
    BY <1>1, <1>3, FilledFits
  <2>3. garbled = {} => \A d \in DOMAIN f : Behind(d, f[d])
    BY <1>1, <1>3, FilledBehind
  <2> HIDE DEF records, f
  <2>4. TypeOK'
    BY <1>1, <2>1, <2>2 DEF Inv, TypeOK, env, IsRates
  <2>5. NoGaps' /\ OnTime'
    BY <1>1, <2>1 DEF Inv, NoGaps, OnTime, env
  <2>6. PatchFits' /\ PatchJoins'
    BY <1>1, <1>3, <2>1, <2>2 DEF PatchFits, PatchJoins
  <2>7. \A d, r : Behind(d, r) <=> Behind(d, r)'
    BY <1>1 DEF Behind, OfficialFor, env
  <2> QED
    BY <1>1, <2>1, <2>3, <2>4, <2>5, <2>6, <2>7 DEF Inv, env
<1> QED
  BY <1>2, <1>3

LEMMA UpsertKeepsInv ==
  ASSUME Inv, UpsertMany
  PROVE  Inv'
<1>1. UNCHANGED <<env, lastDate, nextRun, window, patch, err>> /\ pc = "persist" /\ pc' = "move"
  BY DEF UpsertMany
<1>2. /\ DOMAIN store' = DOMAIN store \cup DOMAIN patch
      /\ \A d \in DOMAIN store' : store'[d] = IF d \in DOMAIN patch THEN patch[d] ELSE store[d]
  BY DEF UpsertMany
<1>3. PatchFits /\ PatchJoins /\ NoGaps /\ window.from = lastDate + 1 /\ window.from <= window.to
  BY <1>1 DEF Inv
<1>4. window.from \in Int /\ window.to \in Int /\ lastDate \in Int
  BY DEF Inv, TypeOK
<1>5. DOMAIN store \subseteq Int /\ DOMAIN patch \subseteq Int
  BY DEF Inv, TypeOK, IsRates
<1>6. IsRates(store')
  <2>1. store' = [d \in DOMAIN store' |-> store'[d]]
    BY <1>2 DEF UpsertMany
  <2> QED
    BY <1>2, <1>5, <2>1 DEF Inv, TypeOK, IsRates
<1>7. TypeOK'
  BY <1>1, <1>6 DEF Inv, TypeOK, env, IsRates
<1>8. NoGaps'
  <2>1. ASSUME NEW d \in DOMAIN patch
        PROVE  d <= window.to /\ d .. window.to \subseteq DOMAIN store'
    BY <1>2, <1>3, <1>4, <2>1 DEF PatchFits
  <2>2. ASSUME NEW d \in DOMAIN store
        PROVE  d <= window.to /\ d .. window.to \subseteq DOMAIN store'
    <3>1. d <= lastDate /\ d .. lastDate \subseteq DOMAIN store /\ d \in Int
      BY <1>1, <1>3, <1>5 DEF NoGaps
    <3>2. DOMAIN patch = window.from .. window.to
      BY <1>3 DEF PatchJoins
    <3>3. \A x \in d .. window.to : x \in d .. lastDate \/ x \in window.from .. window.to
      BY <1>3, <1>4, <3>1
    <3> QED
      BY <1>2, <1>3, <1>4, <3>1, <3>2, <3>3
  <2> QED
    BY <1>1, <1>2, <2>1, <2>2 DEF NoGaps
<1>9. OnTime' /\ PatchFits' /\ (DOMAIN patch \subseteq DOMAIN store)'
  BY <1>1, <1>2, <1>3 DEF Inv, OnTime, PatchFits, env
<1>10. garbled' = {} => /\ \A d \in DOMAIN store' : Behind(d, store'[d])
                        /\ \A d \in DOMAIN patch' : Behind(d, patch'[d])
  BY <1>1, <1>2 DEF Inv, env
<1>11. \A d, r : Behind(d, r) <=> Behind(d, r)'
  BY <1>1 DEF Behind, OfficialFor, env
<1> QED
  BY <1>1, <1>3, <1>7, <1>8, <1>9, <1>10, <1>11 DEF Inv

LEMMA MoveKeepsInv ==
  ASSUME Inv, MoveLastDate
  PROVE  Inv'
<1>1. /\ UNCHANGED <<env, store, nextRun, window, err>>
      /\ pc = "move" /\ pc' = "plan" /\ patch' = NoRates
  BY DEF MoveLastDate
<1>2. window.to \in Int /\ window.from \in Int /\ DOMAIN patch \subseteq Int
  BY DEF Inv, TypeOK, IsRates
<1>3. lastDate' = window.to
  <2>1. PatchFits
    BY <1>1 DEF Inv
  <2>2. window.to \in DOMAIN patch
    BY <1>2, <2>1 DEF PatchFits
  <2>3. IsLatest(DOMAIN patch, window.to, lastDate')
    BY <1>2, <2>2, LatestExists DEF MoveLastDate
  <2> QED
    BY <1>2, <2>2, <2>3 DEF IsLatest
<1>4. TypeOK'
  BY <1>1, <1>2, <1>3, NoRatesType DEF Inv, TypeOK, env, IsRates
<1>5. NoGaps' /\ OnTime'
  BY <1>1, <1>3 DEF Inv, NoGaps, OnTime, env
<1>6. \A d, r : Behind(d, r) <=> Behind(d, r)'
  BY <1>1 DEF Behind, OfficialFor, env
<1> QED
  BY <1>1, <1>4, <1>5, <1>6, NoRatesType DEF Inv, env

LEMMA InvNext == Inv /\ [Next]_vars => Inv'
<1> SUFFICES ASSUME Inv, [Next]_vars PROVE Inv'
  OBVIOUS
<1>0. today \in Int /\ WorkingDays \subseteq Int /\ FirstDay \in Int /\ MaxDay \in Int
  BY CalendarAssumption DEF Inv, TypeOK
<1>1. CASE Publish
  <2>1. UNCHANGED own
    BY <1>1 DEF Publish, own
  <2>2. TypeOK' /\ OnTime'
    BY <1>1 DEF Inv, TypeOK, OnTime, Publish, IsRates
  <2> QED
    BY <2>1, <2>2, WorldKeepsInv
<1>2. CASE Evening
  <2>1. UNCHANGED own
    BY <1>2 DEF Evening, own
  <2>2. TypeOK' /\ OnTime'
    BY <1>2 DEF Inv, TypeOK, OnTime, Evening, IsRates
  <2> QED
    BY <2>1, <2>2, WorldKeepsInv
<1>3. CASE Midnight
  <2>1. UNCHANGED own
    BY <1>3 DEF Midnight, own
  <2>2. TypeOK'
    <3>1. today' = today + 1 /\ today < MaxDay /\ evening' \in BOOLEAN
      BY <1>3 DEF Midnight
    <3>2. today' \in FirstDay .. MaxDay /\ window'.to <= today' + 1
      BY <1>0, <1>3, <3>1 DEF Inv, TypeOK, Midnight
    <3> QED
      BY <1>3, <3>1, <3>2 DEF Inv, TypeOK, Midnight, IsRates
  <2>3. ASSUME NEW d \in WorkingDays, d <= today + 1 PROVE d \in published
    <3>1. d <= today \/ d = today + 1
      BY <1>0, <2>3
    <3> QED
      BY <1>3, <3>1 DEF Inv, OnTime, Midnight
  <2>4. OnTime'
    BY <1>3, <2>3 DEF OnTime, Midnight
  <2> QED
    BY <2>1, <2>2, <2>4, WorldKeepsInv
<1>4. CASE BeginFirst \/ BeginOnTimer
  BY <1>4, BeginKeepsInv DEF BeginFirst, BeginOnTimer
<1>5. CASE Fetch
  BY <1>5, FetchKeepsInv
<1>6. CASE FetchFails
  <2>1. TypeOK'
    BY <1>6 DEF Inv, TypeOK, FetchFails, env, IsRates
  <2> QED
    BY <1>6, <2>1, IdleKeepsInv DEF FetchFails
<1>7. CASE UpsertMany
  BY <1>7, UpsertKeepsInv
<1>8. CASE MoveLastDate
  BY <1>8, MoveKeepsInv
<1>9. CASE Plan
  <2>1. TypeOK'
    BY <1>0, <1>9 DEF Inv, TypeOK, Plan, env, IsRates, nextRunTime
  <2> QED
    BY <1>9, <2>1, IdleKeepsInv DEF Plan
<1>10. CASE Stop
  <2>1. TypeOK'
    BY <1>10 DEF Inv, TypeOK, Stop, env, IsRates
  <2> QED
    BY <1>10, <2>1, IdleKeepsInv DEF Stop
<1>11. CASE Restart
  <2>1. TypeOK'
    BY <1>11, CalendarAssumption, NoRatesType DEF Inv, TypeOK, Restart, env, IsRates
  <2>2. OnTime' /\ NoGaps'
    BY <1>11, NoRatesType DEF Inv, OnTime, NoGaps, Restart, env
  <2> QED
    BY <1>11, <2>1, <2>2, NoRatesType DEF Inv, Restart, env
<1>12. CASE UNCHANGED vars
  <2>1. UNCHANGED own
    BY <1>12 DEF vars, env, own
  <2>2. TypeOK' /\ OnTime'
    BY <1>12 DEF Inv, TypeOK, OnTime, vars, env, IsRates
  <2> QED
    BY <2>1, <2>2, WorldKeepsInv
<1> QED
  BY <1>1, <1>2, <1>3, <1>4, <1>5, <1>6, <1>7, <1>8, <1>9, <1>10, <1>11, <1>12 DEF Next

LEMMA Invariance == Spec => []Inv
BY InvInit, InvNext, PTL DEF Spec

------------------------------------------------------------------------------
(* The theorems.                                                           *)

\* The variables have their types, and an update never looks further than
\* tomorrow.
THEOREM RubTypeCorrect == Spec => []TypeOK
<1>1. Inv => TypeOK
  BY DEF Inv
<1> QED
  BY <1>1, Invariance, PTL

\* Readers see no holes in the rates, whatever fails and whatever is garbled.
THEOREM RubNoGaps == Spec => []NoGaps
<1>1. Inv => NoGaps
  BY DEF Inv
<1> QED
  BY <1>1, Invariance, PTL

\* If every record can be parsed a stored rate is the official one or the one
\* just before it.
THEOREM RubAtMostOneRateBehind == Spec => []AtMostOneRateBehind
<1>1. Inv => AtMostOneRateBehind
  BY DEF Inv, Behind, AtMostOneRateBehind
<1> QED
  BY <1>1, Invariance, PTL

\* A rate once stored is never changed or removed before the process ends: the
\* window starts after lastDate and the store ends at it.
THEOREM RubNeverRewritten == Spec => NeverRewritten
<1> DEFINE Kept == Restart \/ \A d \in DOMAIN store : d \in DOMAIN store' /\ store'[d] = store[d]
<1>1. Inv /\ [Next]_vars => [Kept]_store
  <2> SUFFICES ASSUME Inv, Next, store' # store, ~Restart PROVE Kept
    BY DEF vars
  <2>1. UpsertMany
    BY DEF Next, Publish, Evening, Midnight, BeginFirst, BeginOnTimer, Begin, Fetch,
           FetchFails, MoveLastDate, Plan, Stop
  <2>2. ASSUME NEW d \in DOMAIN store PROVE d \in DOMAIN store' /\ store'[d] = store[d]
    <3>1. d <= lastDate /\ lastDate < window.from /\ d \in Int
      BY <2>1 DEF Inv, NoGaps, TypeOK, IsRates, UpsertMany
    <3>2. \A x \in DOMAIN patch : window.from <= x
      BY <2>1 DEF Inv, PatchFits, TypeOK, UpsertMany
    <3>3. d \notin DOMAIN patch
      BY <3>1, <3>2 DEF Inv, TypeOK
    <3> QED
      BY <2>1, <3>3 DEF UpsertMany
  <2> QED
    BY <2>2
<1> QED
  BY <1>1, Invariance, PTL DEF Spec, NeverRewritten

------------------------------------------------------------------------------
(* The book of rates that readers rely on.                                 *)

\* The store is a book, and the patch continues it: its rates are in time, in
\* order, and none is older than a stored one.
BookInv ==
  /\ Book!InTime(store)
  /\ Book!Ordered(store)
  /\ pc \in {"persist", "move"} => Book!InTime(patch) /\ Book!Ordered(patch)
  /\ pc = "persist" => \A x \in DOMAIN store, y \in DOMAIN patch : store[x] <= patch[y]

LEMMA FilledContinues ==
  ASSUME Inv, BookInv, pc = "fetch", NEW records,
         records = published \cap window.from .. window.to,
         NEW f, f = Filled(records \ garbled, window, store, lastDate),
         DOMAIN f # {}
  PROVE  /\ Book!InTime(f)
         /\ Book!Ordered(f)
         /\ \A x \in DOMAIN store, y \in DOMAIN f : store[x] <= f[y]
<1> DEFINE raw == records \ garbled
           known(d) == {e \in raw : e <= d}
           carry == lastDate \in DOMAIN store
           D == {x \in window.from .. window.to : carry \/ known(x) # {}}
<1>1. f = [d \in D |-> IF known(d) # {} THEN Latest(raw, d) ELSE store[lastDate]]
  BY DEF Filled
<1>2. raw \subseteq Int /\ WorkingDays \subseteq Int
  BY CalendarAssumption DEF Inv, TypeOK
<1>3. /\ window.from \in Int /\ window.to \in Int /\ lastDate \in Int
      /\ window.from = lastDate + 1
  BY DEF Inv, TypeOK
<1>4. DOMAIN f = D /\ D \subseteq window.from .. window.to /\ D \subseteq Int
  BY <1>1, <1>3
\* The records of the window are later than anything stored.
<1>5. \A e \in raw : window.from <= e
  BY <1>3
<1>6. ASSUME NEW d \in D, known(d) # {}
      PROVE  f[d] \in raw /\ f[d] <= d /\ \A e \in raw : e <= d => e <= f[d]
  <2>1. d \in Int /\ \E x \in raw : x <= d
    BY <1>4, <1>6
  <2>2. IsLatest(raw, d, Latest(raw, d))
    BY <1>2, <2>1, LatestExists
  <2> HIDE DEF D, known, raw
  <2>3. f[d] = Latest(raw, d)
    BY <1>1, <1>6
  <2> QED
    BY <2>2, <2>3 DEF IsLatest
<1>7. ASSUME NEW d \in D, known(d) = {}
      PROVE  carry /\ f[d] = store[lastDate]
  BY <1>1, <1>7
<1>8. carry => store[lastDate] \in Int /\ store[lastDate] <= lastDate
  BY <1>2 DEF BookInv, Book!InTime, Inv, TypeOK, IsRates
<1>9. ASSUME NEW d \in D PROVE f[d] \in Int /\ f[d] <= d
  <2>1. window.from <= d /\ d \in Int
    BY <1>3, <1>4
  <2>2. CASE known(d) # {}
    BY <1>2, <1>6, <2>2
  <2>3. CASE known(d) = {}
    <3>1. carry /\ f[d] = store[lastDate]
      BY <1>7, <2>3
    <3> HIDE DEF known, D
    <3>2. f[d] \in Int /\ f[d] <= lastDate
      BY <1>8, <3>1
    <3> QED
      BY <1>3, <2>1, <3>2
  <2> QED
    BY <2>2, <2>3
<1>10. ASSUME NEW x \in D, NEW y \in D, x <= y PROVE f[x] <= f[y]
  <2>1. x \in Int /\ y \in Int
    BY <1>4
  <2>2. CASE known(x) # {}
    <3>1. f[x] \in raw /\ f[x] <= x
      BY <1>6, <2>2
    <3>2. f[x] \in Int /\ f[x] <= y
      BY <1>2, <1>10, <2>1, <3>1
    <3>3. known(y) # {}
      BY <3>1, <3>2
    <3> QED
      BY <1>6, <3>1, <3>2, <3>3
  <2>3. CASE known(x) = {}
    <3>1. carry /\ f[x] = store[lastDate]
      BY <1>7, <2>3
    <3>2. CASE known(y) = {}
      BY <1>7, <1>8, <3>1, <3>2
    <3>3. CASE known(y) # {}
      <4>1. f[y] \in raw /\ f[y] \in Int /\ window.from <= f[y]
        BY <1>2, <1>5, <1>6, <3>3
      <4> QED
        BY <1>3, <1>8, <3>1, <4>1
    <3> QED
      BY <3>2, <3>3
  <2> QED
    BY <2>2, <2>3
<1>11. \A x, y \in D : x <= y => x .. y \subseteq D
  <2>1. \A d \in D : d .. window.to \subseteq D
    BY <1>4, FilledFits
  <2> QED
    BY <1>3, <1>4, <2>1
<1>12. ASSUME NEW x \in DOMAIN store, NEW y \in D PROVE store[x] <= f[y]
  <2>1. x <= lastDate /\ x .. lastDate \subseteq DOMAIN store /\ x \in Int
    BY DEF Inv, NoGaps, TypeOK, IsRates
  <2>2. lastDate \in DOMAIN store
    BY <1>3, <2>1
  <2>3. store[x] <= store[lastDate] /\ store[x] \in Int
    BY <1>2, <2>1, <2>2 DEF BookInv, Book!Ordered, Inv, TypeOK, IsRates
  <2>4. CASE known(y) = {}
    BY <1>7, <2>3, <2>4
  <2>5. CASE known(y) # {}
    <3>1. f[y] \in Int /\ window.from <= f[y]
      BY <1>2, <1>5, <1>6, <2>5
    <3> QED
      BY <1>3, <1>8, <2>2, <2>3, <3>1
  <2> QED
    BY <2>4, <2>5
<1> HIDE DEF D, known, carry, raw
<1>13. Book!InTime(f)
  BY <1>4, <1>9 DEF Book!InTime
<1>14. Book!Ordered(f)
  <2> SUFFICES ASSUME NEW x \in DOMAIN f, NEW y \in DOMAIN f, x <= y
               PROVE  x .. y \subseteq DOMAIN f /\ f[x] <= f[y]
    BY DEF Book!Ordered
  <2>1. x \in D /\ y \in D /\ DOMAIN f = D
    BY <1>4
  <2>2. f[x] <= f[y]
    BY <1>10, <2>1
  <2>3. x .. y \subseteq D
    BY <1>11, <2>1
  <2> QED
    BY <2>1, <2>2, <2>3
<1> QED
  BY <1>4, <1>12, <1>13, <1>14

\* Storing the patch continues the book.
LEMMA UpsertContinues ==
  ASSUME Inv, Inv', BookInv, UpsertMany
  PROVE  /\ BookInv'
         /\ Book!Kept(store, store')
         /\ Book!Appended(store, store')
<1>1. /\ pc = "persist" /\ pc' = "move" /\ UNCHANGED <<lastDate, window, patch>>
      /\ DOMAIN store' = DOMAIN store \cup DOMAIN patch
      /\ \A d \in DOMAIN store' : store'[d] = IF d \in DOMAIN patch THEN patch[d] ELSE store[d]
  BY DEF UpsertMany
<1>2. /\ window.to \in Int /\ window.from \in Int /\ lastDate \in Int
      /\ window.from = lastDate + 1
      /\ DOMAIN store \subseteq Int /\ DOMAIN patch \subseteq Int /\ DOMAIN store' \subseteq Int
  BY <1>1 DEF Inv, TypeOK, IsRates
\* All of the patch is after all of the store.
<1>3. ASSUME NEW x \in DOMAIN store, NEW y \in DOMAIN patch PROVE x < y
  <2>1. x <= lastDate
    BY <1>1 DEF Inv, NoGaps
  <2>2. window.from <= y
    BY <1>1, <1>2 DEF Inv, PatchFits
  <2> QED
    BY <1>2, <2>1, <2>2
<1>4. Book!InTime(store')
  BY <1>1 DEF BookInv, Book!InTime
<1>5. ASSUME NEW x \in DOMAIN store', NEW y \in DOMAIN store', x <= y
      PROVE  x .. y \subseteq DOMAIN store' /\ store'[x] <= store'[y]
  <2>1. y <= window.to /\ x .. window.to \subseteq DOMAIN store'
    BY <1>1 DEF Inv, NoGaps
  <2>2. x .. y \subseteq DOMAIN store'
    BY <1>2, <2>1
  <2>3. CASE x \in DOMAIN patch /\ y \in DOMAIN patch
    BY <1>1, <1>5, <2>2, <2>3 DEF BookInv, Book!Ordered
  <2>4. CASE x \notin DOMAIN patch /\ y \notin DOMAIN patch
    <3>1. x \in DOMAIN store /\ y \in DOMAIN store
      BY <1>1, <2>4
    <3>2. \A u, v \in DOMAIN store : u <= v => store[u] <= store[v]
      BY DEF BookInv, Book!Ordered
    <3>3. store[x] <= store[y]
      BY <1>5, <3>1, <3>2
    <3>4. store'[x] = store[x] /\ store'[y] = store[y]
      BY <1>1, <2>4
    <3> QED
      BY <2>2, <3>3, <3>4
  <2>5. CASE x \notin DOMAIN patch /\ y \in DOMAIN patch
    BY <1>1, <2>2, <2>5 DEF BookInv
  <2>6. CASE x \in DOMAIN patch /\ y \notin DOMAIN patch
    BY <1>1, <1>2, <1>3, <1>5, <2>6
  <2> QED
    BY <2>3, <2>4, <2>5, <2>6
<1>6. Book!Ordered(store')
  BY <1>5 DEF Book!Ordered
<1>7. BookInv'
  BY <1>1, <1>4, <1>6 DEF BookInv, Book!InTime, Book!Ordered
<1>8. Book!Kept(store, store')
  BY <1>1, <1>2, <1>3 DEF Book!Kept
<1>9. Book!Appended(store, store')
  BY <1>1, <1>3 DEF Book!Appended
<1> QED
  BY <1>7, <1>8, <1>9

LEMMA BookNext == Inv /\ Inv' /\ BookInv /\ [Next]_vars => BookInv'
<1> SUFFICES ASSUME Inv, Inv', BookInv, [Next]_vars PROVE BookInv'
  OBVIOUS
<1>1. CASE UNCHANGED <<store, patch, pc>>
  BY <1>1 DEF BookInv, Book!InTime, Book!Ordered
<1>2. CASE UNCHANGED store /\ pc' \notin {"persist", "move"}
  BY <1>2 DEF BookInv, Book!InTime, Book!Ordered
<1>3. CASE Fetch
  <2>1. UNCHANGED store /\ pc = "fetch" /\ pc' \in {"plan", "persist"}
    BY <1>3 DEF Fetch
  <2>2. CASE pc' = "persist"
    <3> DEFINE records == published \cap window.from .. window.to
               f == Filled(records \ garbled, window, store, lastDate)
    <3>1. patch' = f /\ DOMAIN f # {}
      BY <1>3, <2>2 DEF Fetch
    <3>2. /\ Book!InTime(f) /\ Book!Ordered(f)
          /\ \A x \in DOMAIN store, y \in DOMAIN f : store[x] <= f[y]
      BY <2>1, <3>1, FilledContinues
    <3> HIDE DEF f
    <3> QED
      BY <2>1, <2>2, <3>1, <3>2 DEF BookInv, Book!InTime, Book!Ordered
  <2> QED
    BY <1>2, <2>1, <2>2
<1>4. CASE UpsertMany
  BY <1>4, UpsertContinues
<1>5. CASE Restart
  BY <1>5, NoRatesType DEF Restart, BookInv, Book!InTime, Book!Ordered
<1>6. CASE Publish \/ Evening \/ Midnight \/ UNCHANGED vars
  BY <1>1, <1>6 DEF Publish, Evening, Midnight, vars
<1>7. CASE BeginFirst \/ BeginOnTimer \/ FetchFails \/ MoveLastDate \/ Plan \/ Stop
  BY <1>2, <1>7 DEF BeginFirst, BeginOnTimer, Begin, FetchFails, MoveLastDate, Plan, Stop
<1> QED
  BY <1>3, <1>4, <1>5, <1>6, <1>7 DEF Next

\* Whatever is late, garbled or fails, readers see a book that is only ever
\* continued: a valuation that has been answered would be answered alike later.
THEOREM RubImplementsRateBook == Spec => ImplementsRateBook
<1>1. Init => BookInv /\ Book!Init
  BY NoRatesType DEF Init, BookInv, Book!Init, Book!InTime, Book!Ordered
<1>2. Inv /\ Inv' /\ BookInv /\ [Next]_vars => [Book!Update \/ Book!Restart]_store
  <2> SUFFICES ASSUME Inv, Inv', BookInv, [Next]_vars, store' # store
               PROVE  Book!Update \/ Book!Restart
    OBVIOUS
  <2>1. UpsertMany \/ Restart
    BY DEF Next, Publish, Evening, Midnight, BeginFirst, BeginOnTimer, Begin, Fetch,
           FetchFails, MoveLastDate, Plan, Stop, vars
  <2>2. CASE UpsertMany
    <3>1. BookInv' /\ Book!Kept(store, store') /\ Book!Appended(store, store')
      BY <2>2, UpsertContinues
    <3>2. Book!InTime(store') /\ Book!Ordered(store')
      BY <3>1 DEF BookInv, Book!InTime, Book!Ordered
    <3> QED
      BY <3>1, <3>2 DEF Book!Update
  <2>3. CASE Restart
    BY <2>3, NoRatesType DEF Restart, Book!Restart
  <2> QED
    BY <2>1, <2>2, <2>3
<1> QED
  BY <1>1, <1>2, BookNext, Invariance, PTL DEF Spec, ImplementsRateBook, Book!Spec
=============================================================================
