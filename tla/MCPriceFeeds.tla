---------------------------- MODULE MCPriceFeeds ----------------------------
(* A small instance of the price feeds for TLC, with two decimals. *)
EXTENDS PriceFeeds

CONSTANT c1

MCMarket == {"Btc", "Eth"}
MCSecond == {1}
MCCall == {c1}

\* The exponent of a feed differs from market to market; for one second Pyth has
\* published two prices.
MCPythQuote(m, t) ==
  IF m = "Btc" THEN {[price |-> 50, expo |-> -1]}
  ELSE {[price |-> 210, expo |-> -2], [price |-> 220, expo |-> -2]}

\* 5.2, and a price that is not valid
MCTick == {[digits |-> 52, places |-> 1], [digits |-> -1, places |-> 0]}

\* No sum or product of these quotes wraps.
ASSUME QuotesFitAssumption == QuotesFit
=============================================================================
