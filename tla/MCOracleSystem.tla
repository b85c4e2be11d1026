--------------------------- MODULE MCOracleSystem ---------------------------
(* Small instances of the worker and the program for TLC. *)
EXTENDS OracleSystem, TLC

CONSTANTS a1, a2, s1, s2, o1, o2

MCAuthority == {a1}
MCTwoAuthorities == {a1, a2}
MCSigner == {s1, s2}
MCOrderKey == {o1, o2}
MCOneOrder == {o1}
MCMarket == {"Eth"}

\* Distinct prices for distinct markets and seconds, with and without a price
\* from Coinbase.
MCPythPrice(m, t) == {10 * t + (CASE m = "Btc" -> 0 [] m = "Eth" -> 3 [] m = "Sol" -> 6)}
MCCoinbasePrice(m, t) == {p + 2 : p \in MCPythPrice(m, t)}
MCPrice == UNION {{p, p + 1} : p \in UNION {MCPythPrice(m, t) : m \in MarketType, t \in Time}}

\* A price for each of the two seconds.
MCSecondPrice(m, t) == {IF t = 2 THEN 2 ELSE 1}
MCNoCoinbase(m, t) == {}
MCTwoPrices == {1, 2}

\* Creations that failed: of the market and of another, in either second ...
MCStray ==
  {[order |-> o, market |-> m, timestamp |-> t] :
     o \in MCOrderKey, m \in {"Btc", "Eth"}, t \in {1, 2}}

\* ... or of one order in the first second.
MCEarlyStray ==
  {[order |-> o1, market |-> m, timestamp |-> 1] : m \in {"Btc", "Eth"}}

MCSymmetry == Permutations(MCSigner) \cup Permutations(MCOrderKey)
=============================================================================
