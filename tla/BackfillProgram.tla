-------------------------- MODULE BackfillProgram --------------------------
(***************************************************************************)
(* The on-chain program (programs/backfill-oracle/src/lib.rs): the         *)
(* accounts it owns, its four instructions and the events they emit.       *)
(*                                                                         *)
(* An instruction is one atomic step: either all of its account            *)
(* constraints hold and every assignment happens, or the transaction       *)
(* fails and changes nothing.  Program-derived addresses are injective, so *)
(* an oracle account is named by the authority in its seeds and a market   *)
(* account by its MarketType.  Fields that are written and read by nobody  *)
(* (bumps of program and markets, authorities, verification data,          *)
(* staleness thresholds) are left out.                                     *)
(***************************************************************************)
EXTENDS Naturals, Sequences

CONSTANTS
  Authority,   \* keys whose owners register an oracle (a worker's payer)
  Signer,      \* enclave keypairs
  OrderKey,    \* keypairs of the order accounts
  Market,      \* the markets users place orders on
  Price,       \* the u64 prices an oracle submits
  NoKey,       \* Pubkey::default()
  MaxSlot      \* bound: the clock stops at this slot

MarketType == {"Btc", "Eth", "Sol"}

\* Slots and seconds; a second never runs ahead of the slots.
Time == 0 .. MaxSlot

ASSUME ProgramAssumption ==
  /\ NoKey \notin Authority
  /\ NoKey \notin Signer
  /\ Market \subseteq MarketType
  /\ Price \subseteq Nat
  /\ MaxSlot \in Nat \ {0}

VARIABLES
  program,         \* the PROGRAM account: does it exist, and its oracle
  markets,         \* the market accounts that exist
  oracles,         \* the oracle account of each authority
  orders,          \* the order accounts
  slot,            \* Clock::slot
  unix_timestamp,  \* Clock::unix_timestamp
  logs             \* the events emitted so far, in transaction order

programVars == <<program, markets, oracles, orders, slot, unix_timestamp, logs>>
-----------------------------------------------------------------------------
(* Market names are stored as 8 zero-padded bytes.                         *)

BTC_MARKET_BYTES == <<66, 84, 67, 0, 0, 0, 0, 0>>
ETH_MARKET_BYTES == <<69, 84, 72, 0, 0, 0, 0, 0>>
SOL_MARKET_BYTES == <<83, 79, 76, 0, 0, 0, 0, 0>>

to_bytes(m) ==
  CASE m = "Btc" -> BTC_MARKET_BYTES
    [] m = "Eth" -> ETH_MARKET_BYTES
    [] m = "Sol" -> SOL_MARKET_BYTES

\* Err(InvalidMarketName) when no market has these bytes
InvalidMarketName == "InvalidMarketName"

\* Mutant: two arms of the match are swapped.
try_fromSwapped(bytes) ==
  CASE bytes = BTC_MARKET_BYTES -> "Btc"
    [] bytes = ETH_MARKET_BYTES -> "Sol"
    [] bytes = SOL_MARKET_BYTES -> "Eth"
    [] OTHER -> InvalidMarketName

\* Mutant: the arm of a market is missing.
try_fromWithoutEth(bytes) ==
  CASE bytes = BTC_MARKET_BYTES -> "Btc"
    [] bytes = SOL_MARKET_BYTES -> "Sol"
    [] OTHER -> InvalidMarketName

try_from(bytes) ==
  CASE bytes = BTC_MARKET_BYTES -> "Btc"
    [] bytes = ETH_MARKET_BYTES -> "Eth"
    [] bytes = SOL_MARKET_BYTES -> "Sol"
    [] OTHER -> InvalidMarketName

MarketBytes == {to_bytes(m) : m \in MarketType}
-----------------------------------------------------------------------------
(* The accounts.  bump is 0 in an account that init_if_needed has just     *)
(* created and the canonical bump afterwards.                              *)

ProgramAccount == [exists : BOOLEAN, oracle : Authority \cup {NoKey}]

OracleAccount == [bump : {0, 255}, enclave_signer : Signer \cup {NoKey}]

\* MarketAccount.decimals, as initialize sets it for every market.
MarketDecimals == 9

OrderAccount ==
  [exists : BOOLEAN, open_order : {0, 1}, market : MarketType,
   market_name : MarketBytes, open_timestamp : Time, open_slot : Time,
   close_timestamp : Time, close_slot : Time, oracle_price : Price \cup {0}]

\* An order key whose account has not been created.
NoOrder ==
  [exists |-> FALSE, open_order |-> 0, market |-> "Btc",
   market_name |-> BTC_MARKET_BYTES, open_timestamp |-> 0, open_slot |-> 0,
   close_timestamp |-> 0, close_slot |-> 0, oracle_price |-> 0]

OraclePriceRequestedEvent ==
  [type : {"requested"}, market : MarketType, oracle : Authority,
   order : OrderKey, timestamp : Time, slot : Time]

OraclePriceFulfilledEvent ==
  [type : {"fulfilled"}, market : MarketType, order : OrderKey,
   open_timestamp : Time, open_slot : Time, latency_seconds : Time,
   latency_slots : Time, price : Price, decimals : {MarketDecimals}]

Event == OraclePriceRequestedEvent \cup OraclePriceFulfilledEvent

ProgramTypeOK ==
  /\ program \in ProgramAccount
  /\ markets \in SUBSET MarketType
  /\ oracles \in [Authority -> OracleAccount]
  /\ orders \in [OrderKey -> OrderAccount]
  /\ slot \in Time
  /\ unix_timestamp \in 0 .. slot
  /\ logs \in Seq(Event)

ProgramInit ==
  /\ program = [exists |-> FALSE, oracle |-> NoKey]
  /\ markets = {}
  /\ oracles = [a \in Authority |-> [bump |-> 0, enclave_signer |-> NoKey]]
  /\ orders = [o \in OrderKey |-> NoOrder]
  /\ slot = 1
  /\ unix_timestamp = 1
  /\ logs = <<>>
-----------------------------------------------------------------------------
(* Instructions.                                                           *)

\* Every account of Initialize is init: none may exist yet.
Initialize == ~program.exists /\ markets = {}

initialize ==
  /\ Initialize
  /\ program' = [exists |-> TRUE, oracle |-> NoKey]
  /\ markets' = MarketType
  /\ UNCHANGED <<oracles, orders, slot, unix_timestamp, logs>>

\* The oracle account is init_if_needed, so only PROGRAM must exist; any
\* authority may register, has_one = oracle is commented out.
RegisterOracle == program.exists

\* Mutant: the first registration returns before it stores the signer.
register_oracleReturnsEarly(a, s) ==
  /\ RegisterOracle
  /\ IF oracles[a].bump = 0
     THEN /\ program' = [program EXCEPT !.oracle = a]
          /\ oracles' = [oracles EXCEPT ![a].bump = 255]
     ELSE /\ oracles' = [oracles EXCEPT ![a].enclave_signer = s]
          /\ UNCHANGED program
  /\ UNCHANGED <<markets, orders, slot, unix_timestamp, logs>>

\* Authority a and the enclave key s both sign.
register_oracle(a, s) ==
  /\ RegisterOracle
  /\ program' = IF oracles[a].bump = 0
                THEN [program EXCEPT !.oracle = a] ELSE program
  /\ oracles' = [oracles EXCEPT ![a] = [bump |-> 255, enclave_signer |-> s]]
  /\ UNCHANGED <<markets, orders, slot, unix_timestamp, logs>>

\* Mutant: the order account is init_if_needed instead of init.
CreateOrderIfNeeded(o, m) ==
  /\ program.exists
  /\ program.oracle # NoKey
  /\ m \in markets

\* The account constraints of CreateOrder; the order account is init.
CreateOrder(o, m) ==
  /\ ~orders[o].exists
  /\ program.exists
  /\ program.oracle # NoKey
  /\ m \in markets

create_order(o, m) ==
  /\ CreateOrder(o, m)
  /\ orders' = [orders EXCEPT ![o] =
       [NoOrder EXCEPT !.exists = TRUE,
                       !.open_order = 1,
                       !.market = m,
                       !.market_name = to_bytes(m),
                       !.open_timestamp = unix_timestamp,
                       !.open_slot = slot]]
  /\ logs' = Append(logs,
       [type |-> "requested", market |-> m, oracle |-> program.oracle,
        order |-> o, timestamp |-> unix_timestamp, slot |-> slot])
  /\ UNCHANGED <<program, markets, oracles, slot, unix_timestamp>>

\* Mutant: without the constraint open_order == 1.
FulfillOrderUnchecked(o, m, a, s) ==
  /\ orders[o].exists
  /\ orders[o].market = m
  /\ program.exists
  /\ program.oracle = a
  /\ m \in markets
  /\ oracles[a].bump # 0
  /\ oracles[a].enclave_signer = s

\* Mutant: without the constraint has_one = oracle.
FulfillOrderAnyOracle(o, m, a, s) ==
  /\ orders[o].exists
  /\ orders[o].open_order = 1
  /\ orders[o].market = m
  /\ program.exists
  /\ m \in markets
  /\ oracles[a].bump # 0
  /\ oracles[a].enclave_signer = s

\* The account constraints of FulfillOrder: params.market is m, the oracle
\* account is a's, and s has signed.
FulfillOrder(o, m, a, s) ==
  /\ orders[o].exists
  /\ orders[o].open_order = 1
  /\ orders[o].market = m
  /\ program.exists
  /\ program.oracle = a
  /\ m \in markets
  /\ oracles[a].bump # 0
  /\ oracles[a].enclave_signer = s

\* Mutant: the latencies are subtracted the wrong way round.
fulfill_orderLatency(o, m, p, a, s) ==
  /\ FulfillOrder(o, m, a, s)
  /\ orders' = [orders EXCEPT
       ![o].open_order = 0, ![o].close_timestamp = unix_timestamp,
       ![o].close_slot = slot, ![o].oracle_price = p]
  /\ logs' = Append(logs,
       [type |-> "fulfilled", market |-> m, order |-> o,
        open_timestamp |-> orders[o].open_timestamp,
        open_slot |-> orders[o].open_slot,
        latency_seconds |-> orders[o].open_timestamp - unix_timestamp,
        latency_slots |-> orders[o].open_slot - slot,
        price |-> p, decimals |-> MarketDecimals])
  /\ UNCHANGED <<program, markets, oracles, slot, unix_timestamp>>

fulfill_order(o, m, p, a, s) ==
  /\ FulfillOrder(o, m, a, s)
  /\ orders' = [orders EXCEPT
       ![o].open_order = 0,
       ![o].close_timestamp = unix_timestamp,
       ![o].close_slot = slot,
       ![o].oracle_price = p]
  /\ logs' = Append(logs,
       [type |-> "fulfilled", market |-> m, order |-> o,
        open_timestamp |-> orders[o].open_timestamp,
        open_slot |-> orders[o].open_slot,
        latency_seconds |-> unix_timestamp - orders[o].open_timestamp,
        latency_slots |-> slot - orders[o].open_slot,
        price |-> p, decimals |-> MarketDecimals])
  /\ UNCHANGED <<program, markets, oracles, slot, unix_timestamp>>

\* The cluster's clock: several slots share one second, and neither slot nor
\* second ever runs backwards.
ClockTick ==
  /\ slot < MaxSlot
  /\ slot' = slot + 1
  /\ unix_timestamp' \in {unix_timestamp, unix_timestamp + 1}
  /\ UNCHANGED <<program, markets, oracles, orders, logs>>

ProgramNext ==
  \/ initialize
  \/ \E a \in Authority, s \in Signer : register_oracle(a, s)
  \/ \E o \in OrderKey, m \in Market : create_order(o, m)
  \/ \E o \in OrderKey, m \in MarketType, p \in Price,
        a \in Authority, s \in Signer : fulfill_order(o, m, p, a, s)
  \/ ClockTick

ProgramSpec == ProgramInit /\ [][ProgramNext]_programVars
-----------------------------------------------------------------------------
(* Properties.                                                             *)

IsOpen(o) == orders[o].exists /\ orders[o].open_order = 1
IsClosed(o) == orders[o].exists /\ orders[o].open_order = 0

RequestedIn(o, i) == logs[i].type = "requested" /\ logs[i].order = o
FulfilledIn(o, i) == logs[i].type = "fulfilled" /\ logs[i].order = o

\* The worker finds work in two places: the events of create_order, and the
\* accounts whose open_order flag is 1.  Replaying the events gives exactly
\* the accounts: an order is open iff it was requested and not yet fulfilled.
EventsReplayToAccounts ==
  \A o \in OrderKey :
    IsOpen(o) <=> /\ \E i \in DOMAIN logs : RequestedIn(o, i)
                  /\ ~ \E i \in DOMAIN logs : FulfilledIn(o, i)

\* However often an oracle submits a price for an order, fulfill_order
\* succeeds once: no two OraclePriceFulfilledEvents name the same order, and
\* the one there is reports the price the account holds.
FulfilledAtMostOnce ==
  \A o \in OrderKey : \A i, j \in DOMAIN logs :
    FulfilledIn(o, i) /\ FulfilledIn(o, j)
      => i = j /\ logs[i].price = orders[o].oracle_price

\* The worker unwraps MarketType::try_from(order.market_name) for every open
\* order it polls and passes the result to fulfill_order: the name decodes,
\* and to the market account that has_one = market demands.
MarketNameDecodes ==
  \A o \in OrderKey :
    orders[o].exists => try_from(orders[o].market_name) = orders[o].market

\* No open order is orphaned by a later instruction: whatever oracles are
\* registered afterwards, some registered key pair can still fulfil it.
OpenOrderFulfillable ==
  \A o \in OrderKey : IsOpen(o) =>
    \E a \in Authority, s \in Signer : FulfillOrder(o, orders[o].market, a, s)

\* What the accounts tell users of their orders.
Book ==
  [o \in OrderKey |->
     IF orders[o].exists
     THEN [state |-> IF orders[o].open_order = 1 THEN "placed" ELSE "answered",
           market |-> orders[o].market,
           timestamp |-> orders[o].open_timestamp,
           price |-> orders[o].oracle_price]
     ELSE [state |-> "unplaced", market |-> "none", timestamp |-> 0, price |-> 0]]

\* The program accepts any price from its oracle.
AnyPrice == [o \in OrderKey |-> Price]

Service == INSTANCE BackfillService WITH book <- Book, acceptable <- AnyPrice

\* The program implements the safety part of the service: the market and the
\* second of an order never change, and its price is written once, whatever
\* instructions are executed in whatever order and by whichever oracles.
ImplementsService == Service!ServiceSafety

\* README.md: "Once registered, the oracle will be the only account allowed
\* to submit price updates" - a successful register_oracle(a) makes a's
\* oracle account the one fulfill_order accepts.
RegisteredOracleIsCurrent ==
  [][\A a \in Authority, s \in Signer :
       register_oracle(a, s) => program'.oracle = a]_programVars
=============================================================================
