-------------------------- MODULE PriceServerProofs --------------------------
(***************************************************************************)
(* Proofs about a request of the server, for every symbol table and every  *)
(* batch of transactions: its type invariant, that every leg of an answer  *)
(* has the price of its own coin at its own time, that the unknown symbols *)
(* are reported, and that a batch with a missing time is never priced.     *)
(***************************************************************************)
EXTENDS PriceServer, TLAPS

\* The loop has passed the n-th leg of transaction i.
Past(i, n) == i < tx \/ (i = tx /\ n < leg)

OwnPrice(i, kind) == [coin |-> CoinOf[req[i].leg[kind]], time |-> Time(i)]

HasSlot(i, kind, upTo) ==
  \E j \in 1 .. upTo : slots[j] = [tx |-> i, kind |-> kind]

\* The j-th key is the one of the leg that the j-th slot names.
Aligned ==
  /\ Len(slots) = Len(priceKeys)
  /\ \A j \in 1 .. Len(slots) :
       /\ req[slots[j].tx].leg[slots[j].kind] \in Known
       /\ priceKeys[j] = OwnPrice(slots[j].tx, slots[j].kind)

\* Every leg with a known symbol that the loop has passed has a slot, and
\* every transaction it has passed has a time.
Collected ==
  /\ \A i \in 1 .. Len(req), n \in 1 .. 3 :
       Past(i, n) /\ req[i].leg[Kinds[n]] \in Known
         => HasSlot(i, Kinds[n], Len(slots))
  /\ \A i \in 1 .. Len(req) : i < tx => Time(i) # NoTime
  /\ pc \in {"price", "fill"} \/ outcome \in {"ok", "Internal"}
       => tx = Len(req) + 1

\* Exactly the legs of the slots before "next" have been written.
Written ==
  /\ pc \in {"assemble", "price"} => next = 1
  /\ pc = "fill" => fiats = priceKeys
  /\ \A i \in 1 .. Len(req), kind \in KindSet :
       result[i][kind] = IF HasSlot(i, kind, next - 1)
                         THEN OwnPrice(i, kind) ELSE NoFiat
  /\ outcome = "ok" => next = Len(slots) + 1

\* The outcome is set by the step that ends the call.
Control == outcome # "none" <=> pc = "done"

IInv == TypeOK /\ Aligned /\ Collected /\ Written /\ Control

-----------------------------------------------------------------------------
LEMMA KindsOfLegs ==
  /\ Len(Kinds) = 3
  /\ \A n \in 1 .. 3 : Kinds[n] \in KindSet
  /\ \A kind \in KindSet : \E n \in 1 .. 3 : Kinds[n] = kind
  BY DEF Kinds, KindSet

LEMMA ReqType ==
  ASSUME TypeOK
  PROVE  /\ Len(req) \in Nat
         /\ \A i \in 1 .. Len(req) : req[i] \in Txs
  BY BatchesAssumption DEF TypeOK

LEMMA SymbolType ==
  ASSUME TypeOK, tx \in DOMAIN req
  PROVE  /\ tx \in 1 .. Len(req)
         /\ req[tx] \in Txs
         /\ Kinds[leg] \in KindSet
         /\ Symbol \in Symbols \cup {NoLeg}
  <1>1. req \in Seq(Txs) /\ leg \in 1 .. 3
    BY BatchesAssumption, KindsOfLegs DEF TypeOK
  <1>2. tx \in 1 .. Len(req) /\ req[tx] \in Txs /\ Kinds[leg] \in KindSet
    BY <1>1, KindsOfLegs
  <1> QED
    BY <1>2 DEF Symbol, Txs

LEMMA KnownIsNotNoLeg == NoLeg \notin Known
  BY KnownAssumption, SentinelAssumption

\* What the loop's counters say after a leg.
LEMMA AdvanceCounts ==
  ASSUME TypeOK, tx \in DOMAIN req, Advance
  PROVE  /\ tx' \in 1 .. Len(req) + 1
         /\ leg' \in 1 .. 3
         /\ tx' = tx \/ tx' = tx + 1
         /\ \A i \in 1 .. Len(req), n \in 1 .. 3 :
              (i < tx' \/ (i = tx' /\ n < leg'))
                => Past(i, n) \/ (i = tx /\ n = leg)
  <1>1. tx \in 1 .. Len(req) /\ leg \in 1 .. 3 /\ Len(req) \in Nat
    BY SymbolType, ReqType, KindsOfLegs DEF TypeOK
  <1> QED
    BY <1>1, KindsOfLegs DEF Advance, Past

LEMMA InitInv == Init => IInv
  <1> SUFFICES ASSUME Init PROVE IInv
    OBVIOUS
  <1>1. req \in Seq(Txs) /\ Len(req) \in Nat
    BY BatchesAssumption DEF Init
  <1>2. TypeOK
    BY <1>1, KindsOfLegs DEF Init, TypeOK
  <1>3. Aligned
    BY DEF Init, Aligned
  <1>4. Collected
    BY <1>1 DEF Init, Collected, Past
  <1>5. Written
    BY <1>1 DEF Init, Written, HasSlot
  <1> QED
    BY <1>2, <1>3, <1>4, <1>5 DEF Init, IInv, Control

\* A step of the loop that collects nothing: the leg is absent or unknown.
LEMMA PassedLegInv ==
  ASSUME IInv, AtLeg, Symbol \notin Known, Advance,
         UNCHANGED <<req, pc, slots, priceKeys, fiats, next, result, outcome>>,
         errors' \in [1 .. Len(req) -> Seq(Symbols)]
  PROVE  IInv'
  <1>1. TypeOK /\ tx \in DOMAIN req
    BY DEF IInv, AtLeg
  <1>2. /\ tx' \in 1 .. Len(req) + 1
        /\ leg' \in 1 .. 3
        /\ tx' = tx \/ tx' = tx + 1
        /\ \A i \in 1 .. Len(req), n \in 1 .. 3 :
             (i < tx' \/ (i = tx' /\ n < leg'))
               => Past(i, n) \/ (i = tx /\ n = leg)
    BY <1>1, AdvanceCounts
  <1>3. TypeOK'
    BY <1>2, KindsOfLegs DEF IInv, TypeOK
  <1>4. Aligned'
    BY DEF IInv, Aligned, OwnPrice, Time
  <1>5. Collected'
    <2>1. ASSUME NEW i \in 1 .. Len(req), NEW n \in 1 .. 3,
                 Past(i, n)', req[i].leg[Kinds[n]] \in Known
          PROVE  HasSlot(i, Kinds[n], Len(slots))
      <3>1. Past(i, n) \/ (i = tx /\ n = leg)
        BY <1>2, <2>1 DEF Past
      <3>2. Past(i, n)
        BY <2>1, <3>1 DEF Symbol
      <3> QED
        BY <2>1, <3>2 DEF IInv, Collected
    <2>2. ASSUME NEW i \in 1 .. Len(req), i < tx' PROVE Time(i) # NoTime
      BY <1>1, <1>2, <2>2, SymbolType DEF IInv, Collected, AtLeg
    <2> QED
      BY <2>1, <2>2 DEF IInv, Collected, Control, AtLeg, HasSlot, Time
  <1>6. Written'
    BY DEF IInv, Written, HasSlot, OwnPrice, Time
  <1> QED
    BY <1>3, <1>4, <1>5, <1>6 DEF IInv, Control

LEMMA SkipLegInv == ASSUME IInv, SkipLeg PROVE IInv'
  BY PassedLegInv, KnownIsNotNoLeg DEF SkipLeg, IInv, TypeOK

LEMMA UnknownSymbolInv == ASSUME IInv, UnknownSymbol PROVE IInv'
  <1>1. Symbol \in Symbols /\ tx \in 1 .. Len(req)
    BY SymbolType DEF UnknownSymbol, AtLeg, IInv
  <1>2. errors' \in [1 .. Len(req) -> Seq(Symbols)]
    <2>1. errors[tx] \in Seq(Symbols)
      BY <1>1 DEF IInv, TypeOK
    <2>2. Append(errors[tx], Symbol) \in Seq(Symbols)
      BY <1>1, <2>1
    <2> QED
      BY <1>1, <2>2 DEF UnknownSymbol, IInv, TypeOK
  <1> QED
    BY <1>2, PassedLegInv DEF UnknownSymbol

LEMMA AddLegInv == ASSUME IInv, AddLeg PROVE IInv'
  <1> DEFINE s == [tx |-> tx, kind |-> Kinds[leg]]
             key == [coin |-> CoinOf[Symbol], time |-> Time(tx)]
  <1>1. /\ TypeOK
        /\ tx \in DOMAIN req
        /\ tx \in 1 .. Len(req)
        /\ Kinds[leg] \in KindSet
        /\ Symbol \in Known
        /\ Time(tx) \in Times
    BY SymbolType DEF IInv, AddLeg, AtLeg, Txs, Time
  <1>2. /\ tx' \in 1 .. Len(req) + 1
        /\ leg' \in 1 .. 3
        /\ tx' = tx \/ tx' = tx + 1
        /\ \A i \in 1 .. Len(req), n \in 1 .. 3 :
             (i < tx' \/ (i = tx' /\ n < leg'))
               => Past(i, n) \/ (i = tx /\ n = leg)
    BY <1>1, AdvanceCounts DEF AddLeg
  <1>3. s \in [tx : 1 .. Len(req), kind : KindSet] /\ key \in PriceKeys
    BY <1>1 DEF PriceKeys
  <1>4. /\ slots' = Append(slots, s)
        /\ priceKeys' = Append(priceKeys, key)
        /\ UNCHANGED <<req, pc, fiats, next, result, errors, outcome>>
        /\ key = OwnPrice(s.tx, s.kind)
        /\ req[s.tx].leg[s.kind] \in Known
    BY <1>1 DEF AddLeg, OwnPrice, Symbol
  <1> HIDE DEF s, key
  <1>5. /\ slots' \in Seq([tx : 1 .. Len(req), kind : KindSet])
        /\ priceKeys' \in Seq(PriceKeys)
        /\ Len(slots') = Len(slots) + 1
        /\ Len(slots') = Len(priceKeys')
        /\ \A j \in 1 .. Len(slots) : /\ slots'[j] = slots[j]
                                      /\ priceKeys'[j] = priceKeys[j]
        /\ slots'[Len(slots')] = s
        /\ priceKeys'[Len(slots')] = key
        /\ Len(slots) \in Nat
    BY <1>3, <1>4 DEF IInv, TypeOK, Aligned
  <1>6. TypeOK'
    BY <1>1, <1>2, <1>4, <1>5, KindsOfLegs DEF TypeOK
  <1>7. Aligned'
    <2>1. ASSUME NEW j \in 1 .. Len(slots')
          PROVE  /\ req[slots'[j].tx].leg[slots'[j].kind] \in Known
                 /\ priceKeys'[j] = OwnPrice(slots'[j].tx, slots'[j].kind)
      BY <1>4, <1>5 DEF IInv, Aligned
    <2> QED
      BY <1>4, <1>5, <2>1 DEF Aligned, OwnPrice, Time
  <1>8. Collected'
    <2>1. ASSUME NEW i \in 1 .. Len(req), NEW n \in 1 .. 3,
                 Past(i, n)', req[i].leg[Kinds[n]] \in Known
          PROVE  HasSlot(i, Kinds[n], Len(slots))'
      <3>1. Past(i, n) \/ (i = tx /\ n = leg)
        BY <1>2, <2>1 DEF Past
      <3>2. CASE Past(i, n)
        <4>1. PICK j \in 1 .. Len(slots) :
                     slots[j] = [tx |-> i, kind |-> Kinds[n]]
          BY <2>1, <3>2 DEF IInv, Collected, HasSlot
        <4> QED
          BY <1>5, <4>1 DEF HasSlot
      <3>3. CASE i = tx /\ n = leg
        BY <1>5, <3>3 DEF HasSlot, s
      <3> QED
        BY <3>1, <3>2, <3>3
    <2>2. ASSUME NEW i \in 1 .. Len(req), i < tx' PROVE Time(i) # NoTime
      BY <1>1, <1>2, <2>2 DEF IInv, Collected, AddLeg, AtLeg
    <2> QED
      BY <1>4, <2>1, <2>2
         DEF IInv, Collected, Control, AddLeg, AtLeg, Time
  <1>9. Written'
    <2>1. next = 1 /\ pc = "assemble" /\ outcome = "none"
      BY DEF IInv, Written, Control, AddLeg, AtLeg
    <2> QED
      BY <1>4, <2>1 DEF IInv, Written, HasSlot
  <1> QED
    BY <1>4, <1>6, <1>7, <1>8, <1>9 DEF IInv, Control

\* A step that moves only the control of the call.
LEMMA ControlStepInv ==
  ASSUME IInv,
         UNCHANGED <<req, tx, leg, slots, priceKeys, next, result, errors>>,
         fiats' \in {fiats, priceKeys}, next <= Len(fiats') + 1,
         pc' \in {"assemble", "price", "fill", "done"},
         outcome' \in {"none", "ok", "InvalidArgument", "Internal"},
         Control',
         pc' \in {"price", "fill"} \/ outcome' \in {"ok", "Internal"}
           => tx = Len(req) + 1,
         pc' \in {"assemble", "price"} => next = 1,
         pc' = "fill" => fiats' = priceKeys,
         outcome' = "ok" => next = Len(slots) + 1
  PROVE  IInv'
  <1>1. TypeOK'
    <2>1. fiats' \in Seq(PriceKeys) /\ Len(fiats') \in Nat
      BY DEF IInv, TypeOK
    <2>2. next' \in 1 .. Len(fiats') + 1
      BY <2>1 DEF IInv, TypeOK
    <2> QED
      BY <2>1, <2>2 DEF IInv, TypeOK
  <1>2. Aligned'
    BY DEF IInv, Aligned, OwnPrice, Time
  <1>3. Collected'
    BY DEF IInv, Collected, Past, HasSlot, Time
  <1>4. Written'
    BY DEF IInv, Written, OwnPrice, HasSlot, Time
  <1> QED
    BY <1>1, <1>2, <1>3, <1>4 DEF IInv

LEMMA CountsInv ==
  ASSUME IInv
  PROVE  /\ next <= Len(fiats) + 1
         /\ next \in Nat /\ Len(fiats) \in Nat
         /\ Len(priceKeys) \in Nat
         /\ Len(slots) = Len(priceKeys)
  BY DEF IInv, TypeOK, Aligned

LEMMA MissingTimeInv == ASSUME IInv, MissingTime PROVE IInv'
  <1>1. pc' = "done" /\ outcome' = "InvalidArgument"
    BY DEF MissingTime, Return
  <1>2. UNCHANGED <<req, tx, leg, slots, priceKeys, fiats, next, result, errors>>
    BY DEF MissingTime, loop
  <1> QED
    BY <1>1, <1>2, ControlStepInv, CountsInv DEF Control

LEMMA AssembledInv == ASSUME IInv, Assembled PROVE IInv'
  <1>1. next = 1 /\ outcome = "none" /\ tx = Len(req) + 1
    BY DEF IInv, Written, Control, Assembled
  <1>2. UNCHANGED <<req, tx, leg, slots, priceKeys, fiats, next, result, errors>>
    BY DEF Assembled, loop
  <1>3. CASE slots = << >>
    <2>1. pc' = "done" /\ outcome' = "ok" /\ Len(slots) = 0
      BY <1>3 DEF Assembled, Return
    <2> QED
      BY <1>1, <1>2, <2>1, ControlStepInv, CountsInv DEF Control
  <1>4. CASE slots # << >>
    <2>1. pc' = "price" /\ outcome' = "none"
      BY <1>1, <1>4 DEF Assembled
    <2> QED
      BY <1>1, <1>2, <2>1, ControlStepInv, CountsInv DEF Control
  <1> QED
    BY <1>3, <1>4

LEMMA PriceInv == ASSUME IInv, Price PROVE IInv'
  <1>1. next = 1 /\ outcome = "none" /\ tx = Len(req) + 1
    BY DEF IInv, Written, Control, Collected, Price
  <1>2. /\ fiats' = priceKeys /\ pc' = "fill" /\ outcome' = "none"
        /\ UNCHANGED <<req, tx, leg, slots, priceKeys, next, result, errors>>
    BY <1>1 DEF Price, loop
  <1> QED
    BY <1>1, <1>2, ControlStepInv, CountsInv DEF Control

LEMMA PriceFailsInv == ASSUME IInv, PriceFails PROVE IInv'
  <1>1. tx = Len(req) + 1
    BY DEF IInv, Collected, PriceFails
  <1>2. /\ pc' = "done" /\ outcome' = "Internal"
        /\ UNCHANGED <<req, tx, leg, slots, priceKeys, fiats, next, result,
                       errors>>
    BY DEF PriceFails, Return, loop
  <1> QED
    BY <1>1, <1>2, ControlStepInv, CountsInv DEF Control

LEMMA FillInv == ASSUME IInv, Fill PROVE IInv'
  <1> DEFINE at == slots[next].tx
             kind == slots[next].kind
  <1>1. /\ pc = "fill"
        /\ fiats = priceKeys
        /\ next \in 1 .. Len(slots)
        /\ Len(slots) \in Nat
    BY DEF IInv, TypeOK, Aligned, Written, Fill
  <1>2. /\ at \in 1 .. Len(req)
        /\ kind \in KindSet
        /\ slots[next] = [tx |-> at, kind |-> kind]
    <2> DEFINE Slots == [tx : 1 .. Len(req), kind : KindSet]
    <2>1. slots \in Seq(Slots)
      BY DEF IInv, TypeOK
    <2>2. slots[next] \in Slots
      <3> HIDE DEF Slots
      <3> QED
        BY <1>1, <2>1
    <2> QED
      BY <2>2
  <1>3. fiats[next] = OwnPrice(at, kind) /\ fiats[next] \in PriceKeys
    BY <1>1 DEF IInv, TypeOK, Aligned
  <1>4. /\ result' = [result EXCEPT ![at][kind] = OwnPrice(at, kind)]
        /\ next' = next + 1
        /\ UNCHANGED <<req, pc, tx, leg, slots, priceKeys, fiats, errors,
                       outcome>>
    BY <1>3 DEF Fill, loop
  <1> HIDE DEF at, kind
  <1>5. TypeOK'
    <2>1. result' \in [1 .. Len(req) -> [KindSet -> PriceKeys \cup {NoFiat}]]
      BY <1>2, <1>3, <1>4 DEF IInv, TypeOK
    <2>2. next' \in 1 .. Len(fiats) + 1
      BY <1>1, <1>4 DEF IInv, Aligned
    <2> QED
      BY <1>4, <2>1, <2>2 DEF IInv, TypeOK
  <1>6. Aligned' /\ Collected' /\ Control'
    BY <1>4 DEF IInv, Aligned, Collected, Control, Past, OwnPrice, HasSlot,
                Time
  <1>7. ASSUME NEW i \in 1 .. Len(req), NEW k \in KindSet
        PROVE  result'[i][k] = IF HasSlot(i, k, next) THEN OwnPrice(i, k)
                                                      ELSE NoFiat
    <2>1. result[i][k] = IF HasSlot(i, k, next - 1) THEN OwnPrice(i, k)
                                                    ELSE NoFiat
      BY DEF IInv, Written
    <2>2. CASE i = at /\ k = kind
      <3>1. HasSlot(i, k, next)
        BY <1>1, <1>2, <2>2 DEF HasSlot
      <3>2. result'[i][k] = OwnPrice(i, k)
        BY <1>2, <1>4, <2>2 DEF IInv, TypeOK
      <3> QED
        BY <3>1, <3>2
    <2>3. CASE ~(i = at /\ k = kind)
      <3>1. slots[next] # [tx |-> i, kind |-> k]
        BY <1>2, <2>3
      <3>2. HasSlot(i, k, next) <=> HasSlot(i, k, next - 1)
        BY <1>1, <3>1 DEF HasSlot
      <3>3. result'[i][k] = result[i][k]
        BY <1>2, <1>4, <2>3 DEF IInv, TypeOK
      <3> QED
        BY <2>1, <3>2, <3>3
    <2> QED
      BY <2>2, <2>3
  <1>8. Written'
    <2>1. next' - 1 = next
      BY <1>1, <1>4
    <2>2. ASSUME NEW i \in 1 .. Len(req), NEW k \in KindSet
          PROVE  (result[i][k] = IF HasSlot(i, k, next - 1)
                                 THEN OwnPrice(i, k) ELSE NoFiat)'
      BY <1>4, <1>7, <2>1 DEF HasSlot, OwnPrice, Time
    <2> QED
      BY <1>1, <1>4, <2>2 DEF IInv, Written, Control
  <1> QED
    BY <1>5, <1>6, <1>8 DEF IInv

LEMMA FilledInv == ASSUME IInv, Filled PROVE IInv'
  <1>1. next = Len(slots) + 1 /\ tx = Len(req) + 1
    BY CountsInv DEF IInv, Written, Collected, Filled
  <1>2. /\ pc' = "done" /\ outcome' = "ok"
        /\ UNCHANGED <<req, tx, leg, slots, priceKeys, fiats, next, result,
                       errors>>
    BY DEF Filled, Return, loop
  <1> QED
    BY <1>1, <1>2, ControlStepInv, CountsInv DEF Control

LEMMA NextInv == IInv /\ [Next]_vars => IInv'
  <1> SUFFICES ASSUME IInv, [Next]_vars PROVE IInv'
    OBVIOUS
  <1>1. CASE UNCHANGED vars
    <2>1. /\ UNCHANGED <<req, pc, tx, leg, slots, priceKeys, fiats, next,
                          result, errors, outcome>>
          /\ Control' /\ TypeOK'
      BY <1>1 DEF vars, IInv, Control, TypeOK
    <2>2. Aligned'
      BY <2>1 DEF IInv, Aligned, OwnPrice, Time
    <2>3. Collected'
      BY <2>1 DEF IInv, Collected, Past, HasSlot, Time
    <2>4. Written'
      BY <2>1 DEF IInv, Written, OwnPrice, HasSlot, Time
    <2> QED
      BY <2>1, <2>2, <2>3, <2>4 DEF IInv
  <1>2. CASE Next
    BY <1>2, MissingTimeInv, SkipLegInv, UnknownSymbolInv, AddLegInv,
       AssembledInv, PriceInv, PriceFailsInv, FillInv, FilledInv DEF Next
  <1> QED
    BY <1>1, <1>2

THEOREM InvariantHolds == Spec => []IInv
  <1> QED
    BY InitInv, NextInv, PTL DEF Spec

-----------------------------------------------------------------------------
(* The type invariant: the slots point into the response (server.go).      *)
THEOREM ServerTypeCorrect == Spec => []TypeOK
  <1>1. IInv => TypeOK
    BY DEF IInv
  <1> QED
    BY <1>1, InvariantHolds, PTL

(* In an answer every leg of a known symbol has the price of its own coin  *)
(* at its own time, and no other leg has a price (server.go).              *)
THEOREM ServerEachLegItsOwnPrice == Spec => []EachLegItsOwnPrice
  <1>1. ASSUME IInv, outcome = "ok",
               NEW i \in 1 .. Len(req), NEW kind \in KindSet
        PROVE  result[i][kind] = IF req[i].leg[kind] \in Known
                                 THEN OwnPrice(i, kind) ELSE NoFiat
    <2>1. /\ tx = Len(req) + 1
          /\ next - 1 = Len(slots)
          /\ Len(req) \in Nat
      BY <1>1, ReqType DEF IInv, TypeOK, Collected, Written
    <2>2. PICK n \in 1 .. 3 : Kinds[n] = kind
      BY KindsOfLegs
    <2>3. Past(i, n)
      BY <2>1 DEF Past
    <2>4. req[i].leg[kind] \in Known => HasSlot(i, kind, Len(slots))
      BY <1>1, <2>2, <2>3 DEF IInv, Collected
    <2>5. HasSlot(i, kind, Len(slots)) => req[i].leg[kind] \in Known
      BY <1>1 DEF IInv, Aligned, HasSlot
    <2> QED
      BY <1>1, <2>1, <2>4, <2>5 DEF IInv, Written
  <1>2. IInv => EachLegItsOwnPrice
    BY <1>1 DEF EachLegItsOwnPrice, OwnPrice
  <1> QED
    BY <1>2, InvariantHolds, PTL

(* A batch with a missing time is refused before the use case is called    *)
(* (server.go).                                                            *)
THEOREM ServerBadBatchIsNotPriced == Spec => []BadBatchIsNotPriced
  <1>1. IInv => BadBatchIsNotPriced
    BY ReqType DEF IInv, TypeOK, Collected, BadBatchIsNotPriced
  <1> QED
    BY <1>1, InvariantHolds, PTL

-----------------------------------------------------------------------------
(* The errors, with an invariant of their own.                             *)

\* The unknown symbols among the first n legs of transaction i.
UpTo(i, n) ==
  IF n = 0 THEN << >>
  ELSE IF n = 1 THEN Unknown(i, 1)
  ELSE IF n = 2 THEN Unknown(i, 1) \o Unknown(i, 2)
  ELSE Unknown(i, 1) \o Unknown(i, 2) \o Unknown(i, 3)

\* The legs of transaction i that the loop has passed.
Legs(i) == IF i < tx THEN 3 ELSE IF i = tx THEN leg - 1 ELSE 0

Reported == \A i \in 1 .. Len(req) : errors[i] = UpTo(i, Legs(i))

LEMMA UnknownType ==
  ASSUME TypeOK, NEW i \in 1 .. Len(req), NEW n \in 1 .. 3
  PROVE  Unknown(i, n) \in Seq(Symbols)
  <1>1. req[i] \in Txs /\ Kinds[n] \in KindSet
    BY ReqType, KindsOfLegs
  <1>2. req[i].leg[Kinds[n]] \in Symbols \cup {NoLeg}
    BY <1>1 DEF Txs
  <1>3. CASE req[i].leg[Kinds[n]] \in Known \cup {NoLeg}
    BY <1>3 DEF Unknown
  <1>4. CASE req[i].leg[Kinds[n]] \notin Known \cup {NoLeg}
    <2>1. Unknown(i, n) = <<req[i].leg[Kinds[n]]>> /\ req[i].leg[Kinds[n]] \in Symbols
      BY <1>2, <1>4 DEF Unknown
    <2> QED
      BY <2>1
  <1> QED
    BY <1>3, <1>4

\* One leg more.
LEMMA UpToNext ==
  ASSUME TypeOK, NEW i \in 1 .. Len(req), NEW n \in 1 .. 3
  PROVE  UpTo(i, n) = UpTo(i, n - 1) \o Unknown(i, n)
  <1>1. /\ Unknown(i, 1) \in Seq(Symbols)
        /\ Unknown(i, 2) \in Seq(Symbols)
        /\ Unknown(i, 3) \in Seq(Symbols)
    BY UnknownType
  <1>2. CASE n = 1
    <2>1. << >> \o Unknown(i, 1) = Unknown(i, 1)
      BY <1>1
    <2> QED
      BY <1>2, <2>1 DEF UpTo
  <1>3. CASE n = 2
    BY <1>3 DEF UpTo
  <1>4. CASE n = 3
    BY <1>4 DEF UpTo
  <1> QED
    BY <1>2, <1>3, <1>4

LEMMA UpToType ==
  ASSUME TypeOK, NEW i \in 1 .. Len(req), NEW n \in 0 .. 3
  PROVE  UpTo(i, n) \in Seq(Symbols)
  <1>1. /\ Unknown(i, 1) \in Seq(Symbols)
        /\ Unknown(i, 2) \in Seq(Symbols)
        /\ Unknown(i, 3) \in Seq(Symbols)
    BY UnknownType
  <1> QED
    BY <1>1 DEF UpTo

\* A step of the loop adds what the leg it passes has to say.
LEMMA LegReported ==
  ASSUME TypeOK, Reported, tx \in DOMAIN req, Advance, UNCHANGED req,
         errors' = [errors EXCEPT ![tx] = @ \o Unknown(tx, leg)]
  PROVE  Reported'
  <1>1. tx \in 1 .. Len(req) /\ leg \in 1 .. 3 /\ Len(req) \in Nat
    BY SymbolType, ReqType, KindsOfLegs DEF TypeOK
  <1>2. ASSUME NEW i \in 1 .. Len(req) PROVE errors'[i] = UpTo(i, Legs(i)')
    <2>1. errors[i] = UpTo(i, Legs(i))
      BY DEF Reported
    <2>2. CASE i = tx
      <3>1. Legs(i) = leg - 1 /\ Legs(i)' = leg
        BY <1>1, <2>2, KindsOfLegs DEF Legs, Advance
      <3>2. errors'[i] = errors[i] \o Unknown(i, leg)
        BY <1>1, <2>2 DEF TypeOK
      <3> QED
        BY <1>1, <2>1, <2>2, <3>1, <3>2, UpToNext
    <2>3. CASE i # tx
      <3>1. Legs(i)' = Legs(i)
        BY <1>1, <2>3, KindsOfLegs DEF Legs, Advance
      <3>2. errors'[i] = errors[i]
        BY <2>3 DEF TypeOK
      <3> QED
        BY <2>1, <3>1, <3>2
    <2> QED
      BY <2>2, <2>3
  <1> QED
    BY <1>2 DEF Reported, UpTo, Unknown

LEMMA ReportedInv == IInv /\ Reported /\ [Next]_vars => Reported'
  <1> SUFFICES ASSUME IInv, Reported, [Next]_vars PROVE Reported'
    OBVIOUS
  <1>1. TypeOK
    BY DEF IInv
  <1>2. CASE SkipLeg \/ AddLeg
    <2>1. tx \in DOMAIN req /\ Advance /\ UNCHANGED <<req, errors>>
          /\ Symbol \in Known \cup {NoLeg}
      BY <1>2 DEF SkipLeg, AddLeg, AtLeg
    <2>2. Unknown(tx, leg) = << >>
      BY <2>1 DEF Unknown, Symbol
    <2>3. tx \in 1 .. Len(req) /\ errors[tx] \in Seq(Symbols)
      BY <1>1, <2>1, SymbolType DEF TypeOK
    <2>4. errors[tx] \o << >> = errors[tx]
      BY <2>3
    <2>5. errors' = [errors EXCEPT ![tx] = @ \o Unknown(tx, leg)]
      BY <1>1, <2>1, <2>2, <2>4 DEF TypeOK
    <2> QED
      BY <1>1, <2>1, <2>5, LegReported
  <1>3. CASE UnknownSymbol
    <2>1. tx \in DOMAIN req /\ Advance /\ UNCHANGED req
          /\ errors' = [errors EXCEPT ![tx] = Append(@, Symbol)]
          /\ Unknown(tx, leg) = <<Symbol>>
      BY <1>3 DEF UnknownSymbol, AtLeg, Unknown, Symbol
    <2>2. /\ tx \in 1 .. Len(req) /\ errors[tx] \in Seq(Symbols) /\ Symbol \in Symbols
      BY <1>1, <1>3, <2>1, SymbolType DEF TypeOK, UnknownSymbol
    <2>3. Append(errors[tx], Symbol) = errors[tx] \o <<Symbol>>
      BY <2>2
    <2>4. errors' = [errors EXCEPT ![tx] = @ \o Unknown(tx, leg)]
      BY <2>1, <2>3
    <2> QED
      BY <1>1, <2>1, <2>4, LegReported
  <1>4. CASE UNCHANGED <<req, tx, leg, errors>>
    BY <1>4 DEF Reported, Legs, UpTo, Unknown
  <1> QED
    BY <1>2, <1>3, <1>4 DEF Next, vars, loop, MissingTime, Assembled, Price, PriceFails, Fill, Filled

LEMMA ReportedInit == Init => Reported
  <1> SUFFICES ASSUME Init, NEW i \in 1 .. Len(req) PROVE errors[i] = UpTo(i, Legs(i))
    BY DEF Reported
  <1>1. Legs(i) = 0
    BY DEF Init, Legs
  <1> QED
    BY <1>1 DEF Init, UpTo

(* In an answer the errors of a transaction name its unknown symbols, in   *)
(* the order of the legs, each as often as it occurs (server.go, add).     *)
THEOREM ServerUnknownSymbolsReported == Spec => []UnknownSymbolsReported
  <1>1. IInv /\ Reported => UnknownSymbolsReported
    <2> SUFFICES ASSUME IInv, Reported, outcome = "ok", NEW i \in 1 .. Len(req)
                 PROVE  errors[i] = Unknown(i, 1) \o Unknown(i, 2) \o Unknown(i, 3)
      BY DEF UnknownSymbolsReported
    <2>1. tx = Len(req) + 1 /\ Len(req) \in Nat
      BY ReqType DEF IInv, Collected
    <2>2. Legs(i) = 3
      BY <2>1 DEF Legs
    <2>3. errors[i] = UpTo(i, 3)
      BY <2>2 DEF Reported
    <2> QED
      BY <2>3 DEF UpTo
  <1>2. Spec => []Reported
    BY InvariantHolds, ReportedInit, ReportedInv, PTL DEF Spec
  <1> QED
    BY <1>1, <1>2, InvariantHolds, PTL
=============================================================================
