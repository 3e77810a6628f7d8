----------------------------- MODULE PriceServer -----------------------------
(***************************************************************************)
(* ValuateTransactionsBatch: one request of the gRPC server.  The legs of  *)
(* all transactions are flattened into one list of price keys, the use     *)
(* case prices the list, and the prices are written back to the legs by    *)
(* their position in the list.  The legs a request leaves out and the legs *)
(* whose symbol is unknown have no position.                               *)
(*                                                                         *)
(* A price is modelled by the key it was asked for, so that no two legs    *)
(* can be confused unnoticed.  The symbol table is filled before the       *)
(* server starts and never changes.                                        *)
(***************************************************************************)
EXTENDS Integers, Sequences

CONSTANTS
  Symbols,
  CoinOf,     \* the coin id cache: a function on the symbols it knows
  Times,
  NoTime,     \* a transaction without TimeUtc
  NoLeg,      \* a leg that the transaction does not have
  NoFiat,     \* a leg of the response that has no price
  Batches     \* bound: the batches clients send

Kinds == <<"in", "out", "fee">>

KindSet == {"in", "out", "fee"}

Txs == [time : Times \cup {NoTime}, leg : [KindSet -> Symbols \cup {NoLeg}]]

Known == DOMAIN CoinOf

ASSUME KnownAssumption == Known \subseteq Symbols
ASSUME BatchesAssumption == Batches \subseteq Seq(Txs)
ASSUME SentinelAssumption ==
  /\ NoTime \notin Times
  /\ NoLeg \notin Symbols
  /\ NoFiat \notin [coin : {CoinOf[s] : s \in Known}, time : Times]

VARIABLES
  req,        \* the transactions of the request
  pc,         \* "assemble", "price", "fill" or "done"
  tx, leg,    \* the transaction and the leg that the loop is at
  slots,      \* where the price of each key goes
  priceKeys,  \* what the use case is asked for
  fiats,      \* what it answered
  next,       \* the price that is written next
  result,     \* the legs of the response
  errors,     \* per transaction, the symbols reported as unknown
  outcome     \* "none" until the call returns

loop == <<tx, leg>>
vars == <<req, pc, tx, leg, slots, priceKeys, fiats, next, result, errors,
          outcome>>

PriceKeys == [coin : {CoinOf[s] : s \in Known}, time : Times]

TypeOK ==
  /\ req \in Batches
  /\ pc \in {"assemble", "price", "fill", "done"}
  /\ tx \in 1 .. Len(req) + 1
  /\ leg \in 1 .. Len(Kinds)
  /\ slots \in Seq([tx : 1 .. Len(req), kind : KindSet])
  /\ priceKeys \in Seq(PriceKeys)
  /\ fiats \in Seq(PriceKeys)
  /\ next \in 1 .. Len(fiats) + 1
  /\ result \in [1 .. Len(req) -> [KindSet -> PriceKeys \cup {NoFiat}]]
  /\ errors \in [1 .. Len(req) -> Seq(Symbols)]
  /\ outcome \in {"none", "ok", "InvalidArgument", "Internal"}

Time(i) == req[i].time

\* The symbol of the leg that the loop is at.
Symbol == req[tx].leg[Kinds[leg]]

Return(code) ==
  /\ pc' = "done"
  /\ outcome' = code

-----------------------------------------------------------------------------
(* The loop, with bugs of the kind the checks must notice (Wrong...). *)

\* The transaction is left at its first unknown symbol.
WrongAdvance ==
  /\ leg' = IF leg = Len(Kinds) \/ Symbol \notin Known \cup {NoLeg}
            THEN 1 ELSE leg + 1
  /\ tx' = IF leg = Len(Kinds) \/ Symbol \notin Known \cup {NoLeg}
           THEN tx + 1 ELSE tx

\* The loop stops one leg too late.
WrongTxLoop == leg' = leg + 1 /\ UNCHANGED tx

\* The loop moves to the next leg, after the last one to the next transaction.
Advance ==
  /\ leg' = IF leg = Len(Kinds) THEN 1 ELSE leg + 1
  /\ tx' = IF leg = Len(Kinds) THEN tx + 1 ELSE tx

\* The slot of a leg is appended before its symbol is resolved.
WrongUnknownSymbol ==
  /\ pc = "assemble" /\ tx \in DOMAIN req /\ Time(tx) # NoTime
  /\ Symbol # NoLeg
  /\ Symbol \notin Known
  /\ errors' = [errors EXCEPT ![tx] = Append(@, Symbol)]
  /\ slots' = Append(slots, [tx |-> tx, kind |-> Kinds[leg]])
  /\ Advance
  /\ UNCHANGED <<req, pc, priceKeys, fiats, next, result, outcome>>

\* A transaction without a time is skipped instead of refused.
WrongMissingTime ==
  /\ pc = "assemble" /\ tx \in DOMAIN req /\ Time(tx) = NoTime
  /\ tx' = tx + 1
  /\ UNCHANGED <<req, pc, leg, slots, priceKeys, fiats, next, result, errors,
                 outcome>>

-----------------------------------------------------------------------------
Init ==
  /\ req \in Batches
  /\ pc = "assemble"
  /\ tx = 1 /\ leg = 1
  /\ slots = << >> /\ priceKeys = << >> /\ fiats = << >>
  /\ next = 1
  /\ result = [i \in 1 .. Len(req) |-> [k \in KindSet |-> NoFiat]]
  /\ errors = [i \in 1 .. Len(req) |-> << >>]
  /\ outcome = "none"

(* The loop over the transactions and, by add, over their legs. *)

\* A transaction without TimeUtc refuses the whole batch.
MissingTime ==
  /\ pc = "assemble" /\ tx \in DOMAIN req /\ Time(tx) = NoTime
  /\ Return("InvalidArgument")
  /\ UNCHANGED <<req, loop, slots, priceKeys, fiats, next, result, errors>>

AtLeg == pc = "assemble" /\ tx \in DOMAIN req /\ Time(tx) # NoTime

SkipLeg ==
  /\ AtLeg
  /\ Symbol = NoLeg
  /\ Advance
  /\ UNCHANGED <<req, pc, slots, priceKeys, fiats, next, result, errors,
                 outcome>>

UnknownSymbol ==
  /\ AtLeg
  /\ Symbol # NoLeg
  /\ Symbol \notin Known
  /\ errors' = [errors EXCEPT ![tx] = Append(@, Symbol)]
  /\ Advance
  /\ UNCHANGED <<req, pc, slots, priceKeys, fiats, next, result, outcome>>

AddLeg ==
  /\ AtLeg
  /\ Symbol \in Known
  /\ slots' = Append(slots, [tx |-> tx, kind |-> Kinds[leg]])
  /\ priceKeys' = Append(priceKeys, [coin |-> CoinOf[Symbol],
                                     time |-> Time(tx)])
  /\ Advance
  /\ UNCHANGED <<req, pc, fiats, next, result, errors, outcome>>

Assembled ==
  /\ pc = "assemble"
  /\ tx = Len(req) + 1
  /\ IF slots = << >> THEN Return("ok")
                      ELSE pc' = "price" /\ UNCHANGED outcome
  /\ UNCHANGED <<req, loop, slots, priceKeys, fiats, next, result, errors>>

(* The call of the use case: the price of every key in its position, or an *)
(* error for the whole batch.  It makes as many prices as it is given keys *)
(* (historical_price_usecase.go:144), so the check of their number is      *)
(* never what ends a request.                                              *)

Price ==
  /\ pc = "price"
  /\ fiats' = priceKeys
  /\ IF Len(fiats') = Len(priceKeys) THEN pc' = "fill" /\ UNCHANGED outcome
                                     ELSE Return("Internal")
  /\ UNCHANGED <<req, loop, slots, priceKeys, next, result, errors>>

PriceFails ==
  /\ pc = "price"
  /\ Return("Internal")
  /\ UNCHANGED <<req, loop, slots, priceKeys, fiats, next, result, errors>>

(* The loop over the prices. *)

Fill ==
  /\ pc = "fill"
  /\ next <= Len(fiats)
  /\ result' = [result EXCEPT ![slots[next].tx][slots[next].kind] = fiats[next]]
  /\ next' = next + 1
  /\ UNCHANGED <<req, pc, loop, slots, priceKeys, fiats, errors, outcome>>

Filled ==
  /\ pc = "fill"
  /\ next > Len(fiats)
  /\ Return("ok")
  /\ UNCHANGED <<req, loop, slots, priceKeys, fiats, next, result, errors>>

Next ==
  \/ MissingTime
  \/ SkipLeg \/ UnknownSymbol \/ AddLeg
  \/ Assembled
  \/ Price \/ PriceFails
  \/ Fill \/ Filled

Spec == Init /\ [][Next]_vars

-----------------------------------------------------------------------------
(* In an answer every leg has the price of its own coin at its own time,   *)
(* whichever legs before it were left out or unknown, and exactly the legs *)
(* of known symbols have one (server.go, the slots and *s.result).         *)
EachLegItsOwnPrice ==
  outcome = "ok" =>
    \A i \in 1 .. Len(req), kind \in KindSet :
      LET symbol == req[i].leg[kind]
      IN  result[i][kind] = IF symbol \in Known
                            THEN [coin |-> CoinOf[symbol], time |-> Time(i)]
                            ELSE NoFiat

\* What the n-th leg of a transaction adds to its errors.
Unknown(i, n) ==
  LET symbol == req[i].leg[Kinds[n]]
  IN  IF symbol \in Known \cup {NoLeg} THEN << >> ELSE <<symbol>>

(* No leg is left without a price silently: the errors of a transaction    *)
(* name the unknown symbols of all its legs, in the order of the legs, and *)
(* no symbol that was priced (server.go, add).                             *)
UnknownSymbolsReported ==
  outcome = "ok" =>
    \A i \in 1 .. Len(req) : errors[i] = Unknown(i, 1) \o Unknown(i, 2) \o Unknown(i, 3)

(* The provider is never asked for a batch that must be refused: a missing *)
(* time anywhere in it is noticed before the use case is called, however   *)
(* many legs were collected by then (server.go, TimeUtc == nil).           *)
BadBatchIsNotPriced ==
  pc \in {"price", "fill"} \/ outcome \in {"ok", "Internal"} =>
    \A i \in 1 .. Len(req) : Time(i) # NoTime
=============================================================================
