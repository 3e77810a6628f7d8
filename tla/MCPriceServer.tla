---------------------------- MODULE MCPriceServer ----------------------------
(***************************************************************************)
(* Batches of up to two transactions with every combination of known,      *)
(* unknown and absent legs: a leg without a position can come before and   *)
(* after every other one, in its own transaction and in the one before.    *)
(***************************************************************************)
EXTENDS PriceServer

CONSTANTS btc, eth, scam, bitcoin, ethereum, t1, t2

MCSymbols == {btc, eth, scam}
MCCoinOf == [s \in {btc, eth} |-> IF s = btc THEN bitcoin ELSE ethereum]
MCTimes == {t1, t2}
MCTxs == [time : MCTimes \cup {NoTime},
          leg : [{"in", "out", "fee"} -> MCSymbols \cup {NoLeg}]]
MCBatches == {<< >>} \cup {<<a>> : a \in MCTxs} \cup (MCTxs \X MCTxs)
=============================================================================
