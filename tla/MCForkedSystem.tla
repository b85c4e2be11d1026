--------------------------- MODULE MCForkedSystem ---------------------------
(* A small instance of the worker on a forking cluster for TLC. *)
EXTENDS ForkedSystem

CONSTANTS a1, a2, s1, o1

MCAuthority == {a1}
MCTwoAuthorities == {a1, a2}
MCSigner == {s1}
MCOrderKey == {o1}
MCMarket == {"Eth"}
MCTwoMarkets == {"Btc", "Eth"}
MCNone == {}

\* Distinct prices for the markets users ask for and for their seconds.
MCPythPrice(m, t) ==
  {(IF t = 2 THEN 2 ELSE 1) + (IF m = "Eth" THEN 2 ELSE 0)}
MCNoCoinbase(m, t) == {}
MCPrice == 1 .. 4

\* A create_order that failed in the last second.
MCStray == {[order |-> o1, market |-> "Eth", timestamp |-> 2]}
=============================================================================
