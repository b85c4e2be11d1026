----------------------- MODULE BackfillProgramProofs -----------------------
(***************************************************************************)
(* Proofs about the on-chain program for any set of authorities, signers,  *)
(* orders, markets and prices and any length of the run.                   *)
(***************************************************************************)
EXTENDS BackfillProgram, TLAPS

\* What Append does to the positions of the event log.
LEMMA AppendPositions ==
  ASSUME NEW S, NEW s \in Seq(S), NEW e \in S
  PROVE  /\ Append(s, e) \in Seq(S)
         /\ Len(s) \in Nat
         /\ DOMAIN s = 1 .. Len(s)
         /\ DOMAIN Append(s, e) = 1 .. Len(s) + 1
         /\ \A i \in DOMAIN s : Append(s, e)[i] = s[i]
         /\ Append(s, e)[Len(s) + 1] = e
OBVIOUS

\* MarketType::try_from inverts to_bytes.
LEMMA MarketBytesDecode ==
  ASSUME NEW m \in MarketType
  PROVE  /\ to_bytes(m) \in MarketBytes
         /\ try_from(to_bytes(m)) = m
<1>1. to_bytes(m) \in MarketBytes
  BY DEF MarketBytes
<1>2. BTC_MARKET_BYTES[1] = 66 /\ ETH_MARKET_BYTES[1] = 69 /\ SOL_MARKET_BYTES[1] = 83
  BY DEF BTC_MARKET_BYTES, ETH_MARKET_BYTES, SOL_MARKET_BYTES
<1>3. /\ BTC_MARKET_BYTES # ETH_MARKET_BYTES
      /\ BTC_MARKET_BYTES # SOL_MARKET_BYTES
      /\ ETH_MARKET_BYTES # SOL_MARKET_BYTES
  BY <1>2
<1>4. try_from(to_bytes(m)) = m
  BY <1>3 DEF MarketType, to_bytes, try_from
<1> QED BY <1>1, <1>4
-----------------------------------------------------------------------------
(* The inductive invariant.  Typing is not inductive by itself: the        *)
(* latencies fulfill_order reports are u64 differences, and they are in    *)
(* range only because no order was opened after the current clock.         *)

\* fulfill_order's subtractions do not underflow.
OpenedInThePast ==
  \A o \in OrderKey : /\ orders[o].open_timestamp <= unix_timestamp
                      /\ orders[o].open_slot <= slot

\* The log tells which accounts exist and which are closed.
LogsAgree ==
  \A o \in OrderKey :
    /\ orders[o].exists <=> \E i \in DOMAIN logs : RequestedIn(o, i)
    /\ IsClosed(o) <=> \E i \in DOMAIN logs : FulfilledIn(o, i)

\* The oracle PROGRAM names is registered with an enclave key, the markets were
\* made with PROGRAM, and orders exist only after a registration.
OracleReady ==
  /\ \A a \in Authority : oracles[a].bump # 0 => oracles[a].enclave_signer \in Signer
  /\ program.oracle # NoKey => oracles[program.oracle].bump # 0
  /\ program.exists => markets = MarketType
  /\ \A o \in OrderKey : orders[o].exists => program.exists /\ program.oracle # NoKey

ProgramInv ==
  /\ ProgramTypeOK
  /\ OpenedInThePast
  /\ LogsAgree
  /\ FulfilledAtMostOnce
  /\ MarketNameDecodes
  /\ OracleReady
-----------------------------------------------------------------------------
(* Typing and the clock.                                                   *)

LEMMA NoOrderType == NoOrder \in OrderAccount
<1>1. BTC_MARKET_BYTES \in MarketBytes
  BY DEF MarketBytes, MarketType, to_bytes
<1>2. 0 \in Time
  BY ProgramAssumption DEF Time
<1> QED BY <1>1, <1>2 DEF NoOrder, OrderAccount, MarketType

LEMMA TypeInit == ProgramInit => ProgramTypeOK
BY NoOrderType, ProgramAssumption
   DEF ProgramInit, ProgramTypeOK, ProgramAccount, OracleAccount, Time, MarketType

LEMMA TypeStep ==
  ProgramTypeOK /\ OpenedInThePast /\ [ProgramNext]_programVars => ProgramTypeOK'
<1> SUFFICES ASSUME ProgramTypeOK, OpenedInThePast, [ProgramNext]_programVars
             PROVE  ProgramTypeOK'
  OBVIOUS
<1> USE ProgramAssumption
<1>1. CASE initialize
  BY <1>1 DEF initialize, Initialize, ProgramTypeOK, ProgramAccount
<1>2. ASSUME NEW a \in Authority, NEW s \in Signer, register_oracle(a, s)
      PROVE  ProgramTypeOK'
  <2>1. program' \in ProgramAccount
    BY <1>2 DEF register_oracle, RegisterOracle, ProgramTypeOK, ProgramAccount
  <2>2. oracles' \in [Authority -> OracleAccount]
    BY <1>2 DEF register_oracle, RegisterOracle, ProgramTypeOK, OracleAccount
  <2> QED BY <1>2, <2>1, <2>2 DEF register_oracle, RegisterOracle, ProgramTypeOK
<1>3. ASSUME NEW o \in OrderKey, NEW m \in Market, create_order(o, m)
      PROVE  ProgramTypeOK'
  <2>1. m \in MarketType /\ slot \in Time /\ unix_timestamp \in Time
    BY DEF ProgramTypeOK, Time
  <2> DEFINE order == [NoOrder EXCEPT !.exists = TRUE, !.open_order = 1,
                         !.market = m, !.market_name = to_bytes(m),
                         !.open_timestamp = unix_timestamp, !.open_slot = slot]
             e == [type |-> "requested", market |-> m, oracle |-> program.oracle,
                   order |-> o, timestamp |-> unix_timestamp, slot |-> slot]
  <2>2. order \in OrderAccount
    BY <2>1, NoOrderType, MarketBytesDecode DEF OrderAccount
  <2>3. orders' \in [OrderKey -> OrderAccount]
    BY <1>3, <2>2 DEF create_order, CreateOrder, ProgramTypeOK
  <2>4. e \in Event
    BY <1>3, <2>1 DEF create_order, CreateOrder, ProgramTypeOK, ProgramAccount, Event,
                      OraclePriceRequestedEvent
  <2>5. logs' \in Seq(Event)
    BY <1>3, <2>4, AppendPositions DEF create_order, CreateOrder, ProgramTypeOK
  <2> QED BY <1>3, <2>3, <2>5 DEF create_order, CreateOrder, ProgramTypeOK
<1>4. ASSUME NEW o \in OrderKey, NEW m \in MarketType, NEW p \in Price,
             NEW a \in Authority, NEW s \in Signer, fulfill_order(o, m, p, a, s)
      PROVE  ProgramTypeOK'
  <2>1. slot \in Time /\ unix_timestamp \in Time /\ orders[o] \in OrderAccount
    BY DEF ProgramTypeOK, Time
  <2> DEFINE order == [orders[o] EXCEPT !.open_order = 0,
                         !.close_timestamp = unix_timestamp,
                         !.close_slot = slot, !.oracle_price = p]
             e == [type |-> "fulfilled", market |-> m, order |-> o,
                   open_timestamp |-> orders[o].open_timestamp,
                   open_slot |-> orders[o].open_slot,
                   latency_seconds |-> unix_timestamp - orders[o].open_timestamp,
                   latency_slots |-> slot - orders[o].open_slot,
                   price |-> p, decimals |-> MarketDecimals]
  <2>2. order \in OrderAccount
    BY <2>1 DEF OrderAccount
  <2>3. orders' = [orders EXCEPT ![o] = order]
    BY <1>4 DEF fulfill_order, ProgramTypeOK
  <2>4. orders' \in [OrderKey -> OrderAccount]
    BY <2>2, <2>3 DEF ProgramTypeOK
  <2>5. /\ unix_timestamp - orders[o].open_timestamp \in Time
        /\ slot - orders[o].open_slot \in Time
        /\ orders[o].open_timestamp \in Time
        /\ orders[o].open_slot \in Time
    BY <2>1 DEF OpenedInThePast, OrderAccount, Time
  <2>6. e \in Event
    BY <2>5 DEF Event, OraclePriceFulfilledEvent
  <2>7. logs' \in Seq(Event)
    BY <1>4, <2>6, AppendPositions DEF fulfill_order, ProgramTypeOK
  <2> QED BY <1>4, <2>4, <2>7 DEF fulfill_order, ProgramTypeOK
<1>5. CASE ClockTick
  BY <1>5 DEF ClockTick, ProgramTypeOK, Time
<1>6. CASE UNCHANGED programVars
  BY <1>6 DEF programVars, ProgramTypeOK
<1> QED BY <1>1, <1>2, <1>3, <1>4, <1>5, <1>6 DEF ProgramNext

\* The two instructions that write an order account write nothing else in it
\* and touch no other order.
LEMMA CreateOrderAccount ==
  ASSUME ProgramTypeOK, NEW o \in OrderKey, NEW m \in Market, create_order(o, m)
  PROVE  /\ \A x \in OrderKey \ {o} : orders'[x] = orders[x]
         /\ orders'[o].exists
         /\ orders'[o].open_order = 1
         /\ orders'[o].market = m
         /\ orders'[o].market_name = to_bytes(m)
         /\ orders'[o].open_timestamp = unix_timestamp
         /\ orders'[o].open_slot = slot
         /\ orders'[o].oracle_price = 0
BY DEF create_order, CreateOrder, ProgramTypeOK, NoOrder

LEMMA FulfillOrderAccount ==
  ASSUME ProgramTypeOK, NEW o \in OrderKey, NEW m, NEW p, NEW a, NEW s,
         fulfill_order(o, m, p, a, s)
  PROVE  /\ \A x \in OrderKey \ {o} : orders'[x] = orders[x]
         /\ orders'[o].exists /\ orders[o].exists
         /\ orders'[o].open_order = 0 /\ orders[o].open_order = 1
         /\ orders'[o].market = orders[o].market
         /\ orders'[o].market_name = orders[o].market_name
         /\ orders'[o].open_timestamp = orders[o].open_timestamp
         /\ orders'[o].open_slot = orders[o].open_slot
         /\ orders'[o].oracle_price = p
<1> DEFINE order == [orders[o] EXCEPT !.open_order = 0,
                       !.close_timestamp = unix_timestamp,
                       !.close_slot = slot, !.oracle_price = p]
<1>1. orders' = [orders EXCEPT ![o] = order]
  BY DEF fulfill_order, ProgramTypeOK
<1>2. orders[o] \in OrderAccount
  BY DEF ProgramTypeOK
<1>3. orders[o].exists /\ orders[o].open_order = 1
  BY DEF fulfill_order, FulfillOrder
<1> QED BY <1>1, <1>2, <1>3 DEF ProgramTypeOK, OrderAccount

LEMMA PastStep ==
  ProgramTypeOK /\ OpenedInThePast /\ [ProgramNext]_programVars => OpenedInThePast'
<1> SUFFICES ASSUME ProgramTypeOK, OpenedInThePast, [ProgramNext]_programVars,
                    NEW x \in OrderKey
             PROVE  /\ orders'[x].open_timestamp <= unix_timestamp'
                    /\ orders'[x].open_slot <= slot'
  BY DEF OpenedInThePast
<1>0. /\ orders[x].open_timestamp <= unix_timestamp /\ orders[x].open_slot <= slot
      /\ slot \in Nat /\ unix_timestamp \in Nat
      /\ orders[x].open_timestamp \in Nat /\ orders[x].open_slot \in Nat
  BY ProgramAssumption DEF OpenedInThePast, ProgramTypeOK, OrderAccount, Time
<1>1. CASE initialize
  BY <1>0, <1>1 DEF initialize, Initialize
<1>2. ASSUME NEW a \in Authority, NEW s \in Signer, register_oracle(a, s)
      PROVE  UNCHANGED <<orders, slot, unix_timestamp>>
  BY <1>2 DEF register_oracle, RegisterOracle
<1>3. ASSUME NEW o \in OrderKey, NEW m \in Market, create_order(o, m)
      PROVE  /\ orders'[x].open_timestamp <= unix_timestamp'
             /\ orders'[x].open_slot <= slot'
  <2>1. UNCHANGED <<slot, unix_timestamp>>
    BY <1>3 DEF create_order, CreateOrder
  <2>2. CASE x = o
    BY <1>0, <1>3, <2>1, <2>2, CreateOrderAccount
  <2>3. CASE x # o
    BY <1>0, <1>3, <2>1, <2>3, CreateOrderAccount
  <2> QED BY <2>2, <2>3
<1>4. ASSUME NEW o \in OrderKey, NEW m \in MarketType, NEW p \in Price,
             NEW a \in Authority, NEW s \in Signer, fulfill_order(o, m, p, a, s)
      PROVE  /\ orders'[x].open_timestamp <= unix_timestamp'
             /\ orders'[x].open_slot <= slot'
  <2>1. UNCHANGED <<slot, unix_timestamp>>
    BY <1>4 DEF fulfill_order
  <2>2. CASE x = o
    BY <1>0, <1>4, <2>1, <2>2, FulfillOrderAccount
  <2>3. CASE x # o
    BY <1>0, <1>4, <2>1, <2>3, FulfillOrderAccount
  <2> QED BY <2>2, <2>3
<1>5. CASE ClockTick
  BY <1>0, <1>5 DEF ClockTick
<1>6. CASE UNCHANGED programVars
  BY <1>0, <1>6 DEF programVars
<1> QED BY <1>0, <1>1, <1>2, <1>3, <1>4, <1>5, <1>6 DEF ProgramNext
-----------------------------------------------------------------------------
(* The event log against the accounts.                                     *)

\* An instruction that emits e adds exactly e to what the log says.
LEMMA EmitEvent ==
  ASSUME logs \in Seq(Event), NEW e \in Event, logs' = Append(logs, e),
         NEW x
  PROVE  /\ (\E i \in DOMAIN logs' : RequestedIn(x, i)') <=>
              \/ \E i \in DOMAIN logs : RequestedIn(x, i)
              \/ e.type = "requested" /\ e.order = x
         /\ (\E i \in DOMAIN logs' : FulfilledIn(x, i)') <=>
              \/ \E i \in DOMAIN logs : FulfilledIn(x, i)
              \/ e.type = "fulfilled" /\ e.order = x
<1>1. /\ Len(logs) \in Nat
      /\ DOMAIN logs = 1 .. Len(logs)
      /\ DOMAIN logs' = 1 .. Len(logs) + 1
      /\ \A i \in DOMAIN logs : logs'[i] = logs[i]
      /\ logs'[Len(logs) + 1] = e
  BY AppendPositions
<1>2. /\ \A i \in DOMAIN logs : i \in DOMAIN logs'
      /\ Len(logs) + 1 \in DOMAIN logs'
      /\ \A i \in DOMAIN logs' : i \in DOMAIN logs \/ i = Len(logs) + 1
  BY <1>1
<1> QED BY <1>1, <1>2 DEF RequestedIn, FulfilledIn

\* The events the instructions emit.
LEMMA CreateOrderEvent ==
  ASSUME ProgramTypeOK, NEW o \in OrderKey, NEW m \in Market, create_order(o, m)
  PROVE  \E e \in Event : /\ logs' = Append(logs, e)
                          /\ e.type = "requested"
                          /\ e.order = o
                          /\ e.market = m
                          /\ e.timestamp = unix_timestamp
<1> DEFINE e == [type |-> "requested", market |-> m, oracle |-> program.oracle,
                 order |-> o, timestamp |-> unix_timestamp, slot |-> slot]
<1>1. slot \in Time /\ unix_timestamp \in Time /\ m \in MarketType
  BY ProgramAssumption DEF ProgramTypeOK, Time
<1>2. e \in Event
  BY <1>1 DEF create_order, CreateOrder, ProgramTypeOK, ProgramAccount, Event, OraclePriceRequestedEvent
<1>3. logs' = Append(logs, e)
  BY DEF create_order, CreateOrder
<1> QED BY <1>2, <1>3

LEMMA FulfillOrderEvent ==
  ASSUME ProgramTypeOK, OpenedInThePast, NEW o \in OrderKey, NEW m \in MarketType,
         NEW p \in Price, NEW a, NEW s, fulfill_order(o, m, p, a, s)
  PROVE  \E e \in Event : /\ logs' = Append(logs, e)
                          /\ e.type = "fulfilled"
                          /\ e.order = o
                          /\ e.price = p
<1> DEFINE e == [type |-> "fulfilled", market |-> m, order |-> o,
                 open_timestamp |-> orders[o].open_timestamp,
                 open_slot |-> orders[o].open_slot,
                 latency_seconds |-> unix_timestamp - orders[o].open_timestamp,
                 latency_slots |-> slot - orders[o].open_slot,
                 price |-> p, decimals |-> MarketDecimals]
<1>1. /\ unix_timestamp - orders[o].open_timestamp \in Time
      /\ slot - orders[o].open_slot \in Time
      /\ orders[o].open_timestamp \in Time
      /\ orders[o].open_slot \in Time
  BY ProgramAssumption DEF ProgramTypeOK, OpenedInThePast, OrderAccount, Time
<1>2. e \in Event
  BY <1>1 DEF Event, OraclePriceFulfilledEvent
<1>3. logs' = Append(logs, e)
  BY DEF fulfill_order
<1> QED BY <1>2, <1>3

LEMMA LogsStep ==
  ProgramInv /\ [ProgramNext]_programVars => LogsAgree'
<1> SUFFICES ASSUME ProgramInv, [ProgramNext]_programVars, NEW x \in OrderKey
             PROVE  /\ orders'[x].exists <=> \E i \in DOMAIN logs' : RequestedIn(x, i)'
                    /\ IsClosed(x)' <=> \E i \in DOMAIN logs' : FulfilledIn(x, i)'
  BY DEF LogsAgree
<1>0. /\ ProgramTypeOK /\ OpenedInThePast /\ logs \in Seq(Event)
      /\ orders[x].exists <=> \E i \in DOMAIN logs : RequestedIn(x, i)
      /\ IsClosed(x) <=> \E i \in DOMAIN logs : FulfilledIn(x, i)
  BY DEF ProgramInv, ProgramTypeOK, LogsAgree
<1>1. ASSUME UNCHANGED <<orders, logs>>
      PROVE  /\ orders'[x].exists <=> \E i \in DOMAIN logs' : RequestedIn(x, i)'
             /\ IsClosed(x)' <=> \E i \in DOMAIN logs' : FulfilledIn(x, i)'
  BY <1>0, <1>1 DEF IsClosed, RequestedIn, FulfilledIn
<1>2. ASSUME NEW o \in OrderKey, NEW m \in Market, create_order(o, m)
      PROVE  /\ orders'[x].exists <=> \E i \in DOMAIN logs' : RequestedIn(x, i)'
             /\ IsClosed(x)' <=> \E i \in DOMAIN logs' : FulfilledIn(x, i)'
  <2>1. PICK e \in Event :
          logs' = Append(logs, e) /\ e.type = "requested" /\ e.order = o
    BY <1>0, <1>2, CreateOrderEvent
  <2>2. /\ (\E i \in DOMAIN logs' : RequestedIn(x, i)') <=> orders[x].exists \/ o = x
        /\ (\E i \in DOMAIN logs' : FulfilledIn(x, i)') <=> IsClosed(x)
    BY <1>0, <2>1, EmitEvent
  <2>3. CASE x = o
    <3>1. ~orders[o].exists
      BY <1>2 DEF create_order, CreateOrder
    <3>2. orders'[o].exists /\ orders'[o].open_order = 1
      BY <1>0, <1>2, CreateOrderAccount
    <3> QED BY <2>2, <2>3, <3>1, <3>2 DEF IsClosed
  <2>4. CASE x # o
    <3>1. orders'[x] = orders[x]
      BY <1>0, <1>2, <2>4, CreateOrderAccount
    <3> QED BY <2>2, <2>4, <3>1 DEF IsClosed
  <2> QED BY <2>3, <2>4
<1>3. ASSUME NEW o \in OrderKey, NEW m \in MarketType, NEW p \in Price,
             NEW a \in Authority, NEW s \in Signer, fulfill_order(o, m, p, a, s)
      PROVE  /\ orders'[x].exists <=> \E i \in DOMAIN logs' : RequestedIn(x, i)'
             /\ IsClosed(x)' <=> \E i \in DOMAIN logs' : FulfilledIn(x, i)'
  <2>1. PICK e \in Event :
          logs' = Append(logs, e) /\ e.type = "fulfilled" /\ e.order = o
    BY <1>0, <1>3, FulfillOrderEvent
  <2>2. /\ (\E i \in DOMAIN logs' : RequestedIn(x, i)') <=> orders[x].exists
        /\ (\E i \in DOMAIN logs' : FulfilledIn(x, i)') <=> IsClosed(x) \/ o = x
    BY <1>0, <2>1, EmitEvent
  <2>3. CASE x = o
    <3>1. orders[o].exists /\ orders'[o].exists /\ orders'[o].open_order = 0
      BY <1>0, <1>3, FulfillOrderAccount
    <3> QED BY <2>2, <2>3, <3>1 DEF IsClosed
  <2>4. CASE x # o
    <3>1. orders'[x] = orders[x]
      BY <1>0, <1>3, <2>4, FulfillOrderAccount
    <3> QED BY <2>2, <2>4, <3>1 DEF IsClosed
  <2> QED BY <2>3, <2>4
<1>4. CASE initialize
  BY <1>1, <1>4 DEF initialize, Initialize
<1>5. ASSUME NEW a \in Authority, NEW s \in Signer, register_oracle(a, s)
      PROVE  UNCHANGED <<orders, logs>>
  BY <1>5 DEF register_oracle, RegisterOracle
<1>6. CASE ClockTick
  BY <1>1, <1>6 DEF ClockTick
<1>7. CASE UNCHANGED programVars
  BY <1>1, <1>7 DEF programVars
<1> QED BY <1>1, <1>2, <1>3, <1>4, <1>5, <1>6, <1>7 DEF ProgramNext

LEMMA OnceStep ==
  ProgramInv /\ [ProgramNext]_programVars => FulfilledAtMostOnce'
<1> SUFFICES ASSUME ProgramInv, [ProgramNext]_programVars, NEW x \in OrderKey,
                    NEW i \in DOMAIN logs', NEW j \in DOMAIN logs',
                    FulfilledIn(x, i)', FulfilledIn(x, j)'
             PROVE  i = j /\ logs'[i].price = orders'[x].oracle_price
  BY DEF FulfilledAtMostOnce
<1>0. ProgramTypeOK /\ OpenedInThePast /\ logs \in Seq(Event)
  BY DEF ProgramInv, ProgramTypeOK
<1>1. ASSUME UNCHANGED <<orders, logs>>
      PROVE  i = j /\ logs'[i].price = orders'[x].oracle_price
  BY <1>1 DEF ProgramInv, FulfilledAtMostOnce, FulfilledIn
<1>2. ASSUME NEW o \in OrderKey, NEW m \in Market, create_order(o, m)
      PROVE  i = j /\ logs'[i].price = orders'[x].oracle_price
  <2>1. PICK e \in Event :
          logs' = Append(logs, e) /\ e.type = "requested" /\ e.order = o
    BY <1>0, <1>2, CreateOrderEvent
  <2>2. /\ DOMAIN logs = 1 .. Len(logs) /\ Len(logs) \in Nat
        /\ DOMAIN logs' = 1 .. Len(logs) + 1
        /\ \A n \in DOMAIN logs : logs'[n] = logs[n]
        /\ logs'[Len(logs) + 1] = e
    BY <1>0, <2>1, AppendPositions
  <2>3. i \in DOMAIN logs /\ j \in DOMAIN logs
    BY <2>1, <2>2 DEF FulfilledIn
  <2>4. FulfilledIn(x, i) /\ FulfilledIn(x, j)
    BY <2>2, <2>3 DEF FulfilledIn
  <2>5. i = j /\ logs[i].price = orders[x].oracle_price
    BY <2>3, <2>4 DEF ProgramInv, FulfilledAtMostOnce
  <2>6. orders[x].exists
    BY <2>3, <2>4 DEF ProgramInv, LogsAgree, IsClosed
  <2>7. x # o
    BY <1>2, <2>6 DEF create_order, CreateOrder
  <2>8. orders'[x] = orders[x]
    BY <1>0, <1>2, <2>7, CreateOrderAccount
  <2> QED BY <2>2, <2>3, <2>5, <2>8
<1>3. ASSUME NEW o \in OrderKey, NEW m \in MarketType, NEW p \in Price,
             NEW a \in Authority, NEW s \in Signer, fulfill_order(o, m, p, a, s)
      PROVE  i = j /\ logs'[i].price = orders'[x].oracle_price
  <2>1. PICK e \in Event : /\ logs' = Append(logs, e)
                           /\ e.type = "fulfilled" /\ e.order = o /\ e.price = p
    BY <1>0, <1>3, FulfillOrderEvent
  <2>2. /\ DOMAIN logs = 1 .. Len(logs) /\ Len(logs) \in Nat
        /\ DOMAIN logs' = 1 .. Len(logs) + 1
        /\ \A n \in DOMAIN logs : logs'[n] = logs[n]
        /\ logs'[Len(logs) + 1] = e
    BY <1>0, <2>1, AppendPositions
  <2>3. CASE x = o
    <3>1. ~IsClosed(o)
      BY <1>0, <1>3, FulfillOrderAccount DEF IsClosed
    <3>2. \A n \in DOMAIN logs : ~FulfilledIn(o, n)
      BY <3>1 DEF ProgramInv, LogsAgree
    <3>3. i = Len(logs) + 1 /\ j = Len(logs) + 1
      BY <2>2, <2>3, <3>2 DEF FulfilledIn
    <3>4. orders'[o].oracle_price = p
      BY <1>0, <1>3, FulfillOrderAccount
    <3> QED BY <2>1, <2>2, <2>3, <3>3, <3>4
  <2>4. CASE x # o
    <3>1. i \in DOMAIN logs /\ j \in DOMAIN logs
      BY <2>1, <2>2, <2>4 DEF FulfilledIn
    <3>2. FulfilledIn(x, i) /\ FulfilledIn(x, j)
      BY <2>2, <3>1 DEF FulfilledIn
    <3>3. i = j /\ logs[i].price = orders[x].oracle_price
      BY <3>1, <3>2 DEF ProgramInv, FulfilledAtMostOnce
    <3>4. orders'[x] = orders[x]
      BY <1>0, <1>3, <2>4, FulfillOrderAccount
    <3> QED BY <2>2, <3>1, <3>3, <3>4
  <2> QED BY <2>3, <2>4
<1>4. CASE initialize
  BY <1>1, <1>4 DEF initialize, Initialize
<1>5. ASSUME NEW a \in Authority, NEW s \in Signer, register_oracle(a, s)
      PROVE  UNCHANGED <<orders, logs>>
  BY <1>5 DEF register_oracle, RegisterOracle
<1>6. CASE ClockTick
  BY <1>1, <1>6 DEF ClockTick
<1>7. CASE UNCHANGED programVars
  BY <1>1, <1>7 DEF programVars
<1> QED BY <1>1, <1>2, <1>3, <1>4, <1>5, <1>6, <1>7 DEF ProgramNext
-----------------------------------------------------------------------------
(* Market names and registered oracles.                                    *)

LEMMA MarketNameStep ==
  ProgramTypeOK /\ MarketNameDecodes /\ [ProgramNext]_programVars => MarketNameDecodes'
<1> SUFFICES ASSUME ProgramTypeOK, MarketNameDecodes, [ProgramNext]_programVars,
                    NEW x \in OrderKey, orders'[x].exists
             PROVE  try_from(orders'[x].market_name) = orders'[x].market
  BY DEF MarketNameDecodes
<1>1. ASSUME UNCHANGED orders
      PROVE  try_from(orders'[x].market_name) = orders'[x].market
  BY <1>1 DEF MarketNameDecodes
<1>2. ASSUME NEW o \in OrderKey, NEW m \in Market, create_order(o, m)
      PROVE  try_from(orders'[x].market_name) = orders'[x].market
  <2>1. m \in MarketType
    BY ProgramAssumption
  <2>2. CASE x = o
    BY <1>2, <2>1, <2>2, CreateOrderAccount, MarketBytesDecode
  <2>3. CASE x # o
    <3>1. orders'[x] = orders[x]
      BY <1>2, <2>3, CreateOrderAccount
    <3> QED BY <3>1 DEF MarketNameDecodes
  <2> QED BY <2>2, <2>3
<1>3. ASSUME NEW o \in OrderKey, NEW m \in MarketType, NEW p \in Price,
             NEW a \in Authority, NEW s \in Signer, fulfill_order(o, m, p, a, s)
      PROVE  try_from(orders'[x].market_name) = orders'[x].market
  <2>1. /\ orders[x].exists
        /\ orders'[x].market_name = orders[x].market_name
        /\ orders'[x].market = orders[x].market
    <3>1. CASE x = o
      BY <1>3, <3>1, FulfillOrderAccount
    <3>2. CASE x # o
      BY <1>3, <3>2, FulfillOrderAccount
    <3> QED BY <3>1, <3>2
  <2> QED BY <2>1 DEF MarketNameDecodes
<1>4. CASE initialize
  BY <1>1, <1>4 DEF initialize, Initialize
<1>5. ASSUME NEW a \in Authority, NEW s \in Signer, register_oracle(a, s)
      PROVE  UNCHANGED orders
  BY <1>5 DEF register_oracle, RegisterOracle
<1>6. CASE ClockTick
  BY <1>1, <1>6 DEF ClockTick
<1>7. CASE UNCHANGED programVars
  BY <1>1, <1>7 DEF programVars
<1> QED BY <1>1, <1>2, <1>3, <1>4, <1>5, <1>6, <1>7 DEF ProgramNext

LEMMA OracleReadyStep ==
  ProgramTypeOK /\ OracleReady /\ [ProgramNext]_programVars => OracleReady'
<1> SUFFICES ASSUME ProgramTypeOK, OracleReady, [ProgramNext]_programVars
             PROVE  OracleReady'
  OBVIOUS
<1>1. CASE initialize
  BY <1>1 DEF initialize, Initialize, OracleReady
<1>2. ASSUME NEW a \in Authority, NEW s \in Signer, register_oracle(a, s)
      PROVE  OracleReady'
  <2>1. /\ oracles'[a].bump = 255 /\ oracles'[a].enclave_signer = s
        /\ \A b \in Authority \ {a} : oracles'[b] = oracles[b]
    BY <1>2 DEF register_oracle, RegisterOracle, ProgramTypeOK
  <2>2. \A b \in Authority : oracles'[b].bump # 0 => oracles'[b].enclave_signer \in Signer
    BY <2>1 DEF OracleReady
  <2>3. /\ program'.exists = program.exists
        /\ program'.oracle = a \/ program'.oracle = program.oracle
    BY <1>2 DEF register_oracle, RegisterOracle, ProgramTypeOK, ProgramAccount
  <2>4. /\ program.oracle \in Authority \cup {NoKey}
        /\ a # NoKey
    BY ProgramAssumption DEF ProgramTypeOK, ProgramAccount
  <2>5. program'.oracle # NoKey => oracles'[program'.oracle].bump # 0
    BY <2>1, <2>3, <2>4 DEF OracleReady
  <2>6. program.oracle # NoKey => program'.oracle # NoKey
    BY <2>3, <2>4
  <2> QED BY <1>2, <2>2, <2>3, <2>5, <2>6 DEF register_oracle, RegisterOracle, OracleReady
<1>3. ASSUME NEW o \in OrderKey, NEW m \in Market, create_order(o, m)
      PROVE  OracleReady'
  <2>1. program.exists /\ program.oracle # NoKey
    BY <1>3 DEF create_order, CreateOrder
  <2> QED BY <1>3, <2>1 DEF create_order, CreateOrder, OracleReady
<1>4. ASSUME NEW o \in OrderKey, NEW m \in MarketType, NEW p \in Price,
             NEW a \in Authority, NEW s \in Signer, fulfill_order(o, m, p, a, s)
      PROVE  OracleReady'
  <2>1. program.exists /\ program.oracle # NoKey
    BY <1>4, ProgramAssumption DEF fulfill_order, FulfillOrder
  <2> QED BY <1>4, <2>1 DEF fulfill_order, OracleReady
<1>5. CASE ClockTick
  BY <1>5 DEF ClockTick, OracleReady
<1>6. CASE UNCHANGED programVars
  BY <1>6 DEF programVars, OracleReady
<1> QED BY <1>1, <1>2, <1>3, <1>4, <1>5, <1>6 DEF ProgramNext
-----------------------------------------------------------------------------
(* The theorems.                                                           *)

LEMMA InvInit == ProgramInit => ProgramInv
<1> SUFFICES ASSUME ProgramInit PROVE ProgramInv
  OBVIOUS
<1>1. \A o \in OrderKey : orders[o] = NoOrder
  BY DEF ProgramInit
<1>2. OpenedInThePast
  BY <1>1 DEF ProgramInit, OpenedInThePast, NoOrder
<1>3. DOMAIN logs = {}
  BY DEF ProgramInit
<1>4. LogsAgree /\ FulfilledAtMostOnce /\ MarketNameDecodes
  BY <1>1, <1>3 DEF LogsAgree, FulfilledAtMostOnce, MarketNameDecodes, IsClosed, NoOrder
<1>5. OracleReady
  BY <1>1 DEF ProgramInit, OracleReady, NoOrder
<1> QED BY TypeInit, <1>2, <1>4, <1>5 DEF ProgramInv

\* ProgramInv is inductive: every instruction, whoever sends it and whenever,
\* preserves it.
THEOREM ProgramInvariance == ProgramSpec => []ProgramInv
<1>1. ProgramInv /\ [ProgramNext]_programVars => ProgramInv'
  BY TypeStep, PastStep, LogsStep, OnceStep, MarketNameStep, OracleReadyStep
     DEF ProgramInv
<1> QED BY InvInit, <1>1, PTL DEF ProgramSpec

\* Every account and event keeps its type; in particular the latencies that
\* fulfill_order subtracts are never negative.
THEOREM ProgramTyping == ProgramSpec => []ProgramTypeOK
<1>1. ProgramInv => ProgramTypeOK
  BY DEF ProgramInv
<1> QED BY ProgramInvariance, <1>1, PTL

\* However often fulfill_order is sent, one submission succeeds.
THEOREM FulfilledOnce == ProgramSpec => []FulfilledAtMostOnce
<1>1. ProgramInv => FulfilledAtMostOnce
  BY DEF ProgramInv
<1> QED BY ProgramInvariance, <1>1, PTL

\* The events of create_order and fulfill_order determine which orders are open.
THEOREM EventsReplay == ProgramSpec => []EventsReplayToAccounts
<1>1. ASSUME ProgramInv, NEW o \in OrderKey
      PROVE  IsOpen(o) <=> /\ \E i \in DOMAIN logs : RequestedIn(o, i)
                           /\ ~ \E i \in DOMAIN logs : FulfilledIn(o, i)
  <2>1. orders[o].open_order \in {0, 1}
    BY <1>1 DEF ProgramInv, ProgramTypeOK, OrderAccount
  <2> QED BY <1>1, <2>1 DEF ProgramInv, LogsAgree, IsOpen, IsClosed
<1>2. ProgramInv => EventsReplayToAccounts
  BY <1>1 DEF EventsReplayToAccounts
<1> QED BY ProgramInvariance, <1>2, PTL

\* The worker's unwrap of MarketType::try_from never panics on an order.
THEOREM MarketNames == ProgramSpec => []MarketNameDecodes
<1>1. ProgramInv => MarketNameDecodes
  BY DEF ProgramInv
<1> QED BY ProgramInvariance, <1>1, PTL

\* No sequence of instructions leaves an open order that nobody can fulfil.
THEOREM OpenOrdersFulfillable == ProgramSpec => []OpenOrderFulfillable
<1>1. ASSUME ProgramInv, NEW o \in OrderKey, IsOpen(o)
      PROVE  \E a \in Authority, s \in Signer :
               FulfillOrder(o, orders[o].market, a, s)
  <2>1. program.exists /\ program.oracle # NoKey
    BY <1>1 DEF ProgramInv, OracleReady, IsOpen
  <2>2. program.oracle \in Authority
    BY <1>1, <2>1 DEF ProgramInv, ProgramTypeOK, ProgramAccount
  <2>3. oracles[program.oracle].bump # 0 /\ oracles[program.oracle].enclave_signer \in Signer
    BY <1>1, <2>1, <2>2 DEF ProgramInv, OracleReady
  <2>4. orders[o].market \in markets
    BY <1>1, <2>1 DEF ProgramInv, OracleReady, ProgramTypeOK, OrderAccount
  <2>5. FulfillOrder(o, orders[o].market, program.oracle,
                     oracles[program.oracle].enclave_signer)
    BY <1>1, <2>1, <2>3, <2>4 DEF FulfillOrder, IsOpen
  <2> QED BY <2>2, <2>3, <2>5
<1>2. ProgramInv => OpenOrderFulfillable
  BY <1>1 DEF OpenOrderFulfillable
<1> QED BY ProgramInvariance, <1>2, PTL
-----------------------------------------------------------------------------
(* The program implements the abstract service.                            *)

\* A step that leaves the order accounts alone is invisible to users.
LEMMA BookUnchanged == UNCHANGED orders => UNCHANGED Book
BY DEF Book

\* create_order is the abstract Place.
LEMMA CreateIsPlace ==
  ASSUME ProgramTypeOK, NEW o \in OrderKey, NEW m \in Market, create_order(o, m)
  PROVE  Service!Place(o)
<1>1. ~orders[o].exists /\ unix_timestamp \in Nat
  BY DEF create_order, CreateOrder, ProgramTypeOK, Time
<1>2. Book[o].state = "unplaced"
  BY <1>1 DEF Book
<1>3. /\ \A x \in OrderKey \ {o} : orders'[x] = orders[x]
      /\ orders'[o].exists /\ orders'[o].open_order = 1
      /\ orders'[o].market = m /\ orders'[o].open_timestamp = unix_timestamp
      /\ orders'[o].oracle_price = 0
  BY CreateOrderAccount
<1>4. \A x \in OrderKey \ {o} : Book'[x] = Book[x]
  BY <1>3 DEF Book
<1>5. Book'[o] = [state |-> "placed", market |-> m,
                  timestamp |-> unix_timestamp, price |-> 0]
  BY <1>3 DEF Book
<1>6. Book' = [Book EXCEPT ![o] = [state |-> "placed", market |-> m,
                                   timestamp |-> unix_timestamp, price |-> 0]]
  <2>1. /\ Book = [x \in OrderKey |-> Book[x]]
        /\ Book' = [x \in OrderKey |-> Book'[x]]
    BY DEF Book
  <2> HIDE DEF Book
  <2> QED BY <1>4, <1>5, <2>1
<1> QED BY <1>1, <1>2, <1>5, <1>6 DEF Service!Place

\* What fulfill_order changes for users.
LEMMA FulfillInBook ==
  ASSUME ProgramTypeOK, NEW o \in OrderKey, NEW m, NEW p, NEW a, NEW s,
         fulfill_order(o, m, p, a, s)
  PROVE  /\ Book[o].state = "placed"
         /\ Book[o].market = orders[o].market
         /\ Book[o].timestamp = orders[o].open_timestamp
         /\ Book' = [Book EXCEPT ![o] =
              [state |-> "answered", market |-> Book[o].market,
               timestamp |-> Book[o].timestamp, price |-> p]]
<1>1. /\ \A x \in OrderKey \ {o} : orders'[x] = orders[x]
      /\ orders[o].exists /\ orders[o].open_order = 1
      /\ orders'[o].exists /\ orders'[o].open_order = 0
      /\ orders'[o].market = orders[o].market
      /\ orders'[o].open_timestamp = orders[o].open_timestamp
      /\ orders'[o].oracle_price = p
  BY FulfillOrderAccount
<1>2. Book[o] = [state |-> "placed", market |-> orders[o].market,
                 timestamp |-> orders[o].open_timestamp,
                 price |-> orders[o].oracle_price]
  BY <1>1 DEF Book
<1>3. Book'[o] = [state |-> "answered", market |-> orders[o].market,
                  timestamp |-> orders[o].open_timestamp, price |-> p]
  BY <1>1 DEF Book
<1>4. \A x \in OrderKey \ {o} : Book'[x] = Book[x]
  BY <1>1 DEF Book
<1>5. /\ Book = [x \in OrderKey |-> Book[x]]
      /\ Book' = [x \in OrderKey |-> Book'[x]]
  BY DEF Book
<1>6. Book'[o] = [state |-> "answered", market |-> Book[o].market,
                  timestamp |-> Book[o].timestamp, price |-> p]
  BY <1>2, <1>3
<1> HIDE DEF Book
<1> QED BY <1>2, <1>4, <1>5, <1>6

\* fulfill_order is the abstract Answer.
LEMMA FulfillIsAnswer ==
  ASSUME ProgramTypeOK, NEW o \in OrderKey, NEW m, NEW p \in Price, NEW a, NEW s,
         fulfill_order(o, m, p, a, s)
  PROVE  Service!Answer(o)
<1>1. p \in AnyPrice[o]
  BY DEF AnyPrice
<1> QED BY <1>1, FulfillInBook, Zenon DEF Service!Answer

\* Every behaviour of the program is a behaviour of the service, for any number
\* of oracles and orders: an order is placed once and answered once.
THEOREM ProgramImplementsService == ProgramSpec => ImplementsService
<1>1. ProgramInit => Service!ServiceInit
  BY DEF ProgramInit, Service!ServiceInit, Service!Unplaced, Book, NoOrder
<1>2. ProgramInv /\ [ProgramNext]_programVars => [Service!ServiceNext]_Book
  <2> SUFFICES ASSUME ProgramInv, [ProgramNext]_programVars
               PROVE  Service!ServiceNext \/ UNCHANGED Book
    OBVIOUS
  <2>0. ProgramTypeOK
    BY DEF ProgramInv
  <2>1. CASE initialize
    BY <2>1, BookUnchanged DEF initialize, Initialize
  <2>2. ASSUME NEW a \in Authority, NEW s \in Signer, register_oracle(a, s)
        PROVE  UNCHANGED Book
    BY <2>2, BookUnchanged DEF register_oracle, RegisterOracle
  <2>3. ASSUME NEW o \in OrderKey, NEW m \in Market, create_order(o, m)
        PROVE  Service!ServiceNext
    BY <2>0, <2>3, CreateIsPlace DEF Service!ServiceNext
  <2>4. ASSUME NEW o \in OrderKey, NEW m \in MarketType, NEW p \in Price,
               NEW a \in Authority, NEW s \in Signer, fulfill_order(o, m, p, a, s)
        PROVE  Service!ServiceNext
    BY <2>0, <2>4, FulfillIsAnswer DEF Service!ServiceNext
  <2>5. CASE ClockTick
    BY <2>5, BookUnchanged DEF ClockTick
  <2>6. CASE UNCHANGED programVars
    BY <2>6, BookUnchanged DEF programVars
  <2> QED BY <2>1, <2>2, <2>3, <2>4, <2>5, <2>6 DEF ProgramNext
<1> QED BY ProgramInvariance, <1>1, <1>2, PTL
        DEF ProgramSpec, ImplementsService, Service!ServiceSafety
=============================================================================
