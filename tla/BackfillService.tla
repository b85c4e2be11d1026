-------------------------- MODULE BackfillService --------------------------
(***************************************************************************)
(* What the backfill oracle promises its users, without saying how: an     *)
(* order names a market and is stamped with the second it was placed in;   *)
(* it is answered once, with a price that is acceptable for it at that     *)
(* moment, and it is answered eventually.                                  *)
(***************************************************************************)
EXTENDS Naturals

CONSTANTS
  OrderKey,   \* the orders
  Market      \* the markets

VARIABLES
  book,       \* what is publicly known of each order
  acceptable  \* the prices each order may be answered with now

Unplaced == [state |-> "unplaced", market |-> "none", timestamp |-> 0, price |-> 0]

ServiceInit == book = [o \in OrderKey |-> Unplaced]

Place(o) ==
  /\ book[o].state = "unplaced"
  /\ book'[o].market \in Market
  /\ book'[o].timestamp \in Nat
  /\ book' = [book EXCEPT ![o] =
       [state |-> "placed", market |-> book'[o].market,
        timestamp |-> book'[o].timestamp, price |-> 0]]

Answer(o) ==
  /\ book[o].state = "placed"
  /\ \E p \in acceptable[o] :
       book' = [book EXCEPT ![o] =
         [state |-> "answered", market |-> book[o].market,
          timestamp |-> book[o].timestamp, price |-> p]]

ServiceNext == \E o \in OrderKey : Place(o) \/ Answer(o)

\* Which prices are acceptable is decided elsewhere and may change at any time.
ServiceSafety == ServiceInit /\ [][ServiceNext]_book

\* Users need not place orders, but a placed order is answered.
ServiceLiveness == \A o \in OrderKey : book[o].state = "placed" ~> book[o].state = "answered"

ServiceSpec == ServiceSafety /\ ServiceLiveness
=============================================================================
