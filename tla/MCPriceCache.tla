---------------------------- MODULE MCPriceCache ----------------------------
(* Two clients, two keys of one coin, two prices.                          *)
EXTENDS PriceCache, TLC

Interchangeable == Permutations(Clients) \cup Permutations(PriceKeys) \cup Permutations(Prices)
=============================================================================
