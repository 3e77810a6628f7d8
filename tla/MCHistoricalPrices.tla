------------------------- MODULE MCHistoricalPrices -------------------------
(***************************************************************************)
(* Two requests at a time in a world whose day has four units, whose hour  *)
(* has two and whose finest bucket has one.  At the instants 6 .. 8 the    *)
(* instants of the days 0 .. 3 and 4 .. 7 are a fine, an hourly and a      *)
(* daily bucket away, so that one batch and two requests disagree on the   *)
(* granularity of the same day.                                            *)
(***************************************************************************)
EXTENDS HistoricalPrices

CONSTANTS r1, r2

Key(t) == [coin |-> "btc", txTime |-> t]
EthKey(t) == [coin |-> "eth", txTime |-> t]

\* Two coins, and a day another request wants at another granularity; a day
\* wanted at two granularities by one batch; the running day and the future;
\* an instant before the epoch.
MCBatches ==
  {<<Key(0), EthKey(2)>>, <<Key(2)>>, <<Key(5), Key(4)>>, <<Key(7)>>,
   <<Key(-1)>>}
=============================================================================
