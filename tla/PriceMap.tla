------------------------------ MODULE PriceMap ------------------------------
(***************************************************************************)
(* What the price cache promises to get_price and to the poll of Pyth: a   *)
(* map from seconds to prices.  A call finds the price of its second, or   *)
(* waits for one; a fetched price answers every call that waits for the    *)
(* second, and enters the map unless a polled price got there first.       *)
(***************************************************************************)
CONSTANTS
  Timestamp,  \* the seconds asked for
  Getter,     \* the calls
  Value,      \* prices
  None,       \* no price
  Err         \* what a call whose fetch failed returns

VARIABLES
  map,   \* the price of each second, or None
  call   \* each call: where it is, its second, and the price it has found

mapVars == <<map, call>>

MapInit ==
  /\ map = [t \in Timestamp |-> None]
  /\ call = [g \in Getter |-> [pc |-> "idle", timestamp |-> None, found |-> None]]

Put(t, v) ==
  /\ map' = [map EXCEPT ![t] = v]
  /\ UNCHANGED call

Ask(g, t) ==
  /\ call[g].pc = "idle"
  /\ call' = [call EXCEPT ![g] = [pc |-> "asked", timestamp |-> t, found |-> map[t]]]
  /\ UNCHANGED map

Waits(g, t) == call[g].pc = "asked" /\ call[g].timestamp = t /\ call[g].found = None

Answer(g) ==
  /\ call[g].pc = "asked" /\ call[g].found # None
  /\ call' = [call EXCEPT ![g].pc = "returned"]
  /\ UNCHANGED map

Resolve(g, t, v) ==
  /\ Waits(g, t)
  /\ map' = IF map[t] = None THEN [map EXCEPT ![t] = v] ELSE map
  /\ call' = [h \in Getter |->
       IF Waits(h, t)
       THEN [pc |-> IF h = g THEN "returned" ELSE "asked", timestamp |-> t, found |-> v]
       ELSE call[h]]

Fail(g, t) ==
  /\ Waits(g, t)
  /\ call' = [call EXCEPT ![g] = [pc |-> "returned", timestamp |-> t, found |-> Err]]
  /\ UNCHANGED map

MapNext ==
  \/ \E t \in Timestamp, v \in Value : Put(t, v)
  \/ \E g \in Getter : Answer(g)
  \/ \E g \in Getter, t \in Timestamp :
       Ask(g, t) \/ Fail(g, t) \/ \E v \in Value : Resolve(g, t, v)

MapSpec == MapInit /\ [][MapNext]_mapVars
=============================================================================
