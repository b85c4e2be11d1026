------------------------- MODULE ForkedSystemProofs -------------------------
(***************************************************************************)
(* Proofs about the worker on a forking cluster.  A fork takes orders and  *)
(* transactions back, so what the composed system promises without forks   *)
(* is not available here; the invariant is built from what forks leave     *)
(* intact.                                                                 *)
(***************************************************************************)
EXTENDS ForkedSystem, OracleSystemProofs
-----------------------------------------------------------------------------
(* The inductive invariant.                                                *)

RootedType ==
  rooted \in [orders : [OrderKey -> OrderAccount],
              ledger : SUBSET [tx : Tx, ok : BOOLEAN]]

\* Falling back to the rooted accounts is falling back to a state the program
\* has been in: no order from the future, none from before the registration.
RootedInThePast ==
  \A o \in OrderKey :
    /\ rooted.orders[o].open_timestamp <= unix_timestamp
    /\ rooted.orders[o].open_slot <= slot
    /\ rooted.orders[o].exists => program.exists /\ program.oracle # NoKey

RootedClosed(o) == rooted.orders[o].exists /\ rooted.orders[o].open_order = 0

\* A rooted answer is the one the account shows.
RootedIsProcessed == \A o \in OrderKey : RootedClosed(o) => orders[o] = rooted.orders[o]

ForkInv ==
  /\ TypeOK /\ OpenedInThePast /\ OracleReady /\ KeyLoaded /\ JobsPriced
  /\ SingleFlight
  /\ RootedType
  /\ RootedInThePast
  /\ RootedIsProcessed
-----------------------------------------------------------------------------
\* Clock and set-up only move forward.
LEMMA ProgramMovesForward ==
  ASSUME ProgramTypeOK, [ProgramNext]_programVars
  PROVE  /\ unix_timestamp <= unix_timestamp' /\ slot <= slot'
         /\ program.exists /\ program.oracle # NoKey
              => program'.exists /\ program'.oracle # NoKey
<1>0. /\ unix_timestamp \in Nat /\ slot \in Nat
      /\ program \in ProgramAccount
  BY ProgramAssumption DEF ProgramTypeOK, Time
<1>1. CASE initialize
  BY <1>0, <1>1 DEF initialize, Initialize, ProgramAccount
<1>2. ASSUME NEW a \in Authority, NEW s \in Signer, register_oracle(a, s)
      PROVE  /\ UNCHANGED <<unix_timestamp, slot>>
             /\ program'.exists = program.exists
             /\ program'.oracle \in {a, program.oracle} /\ a # NoKey
  BY <1>0, <1>2, ProgramAssumption DEF register_oracle, RegisterOracle, ProgramAccount
<1>3. ASSUME NEW o \in OrderKey, NEW m \in Market, create_order(o, m)
      PROVE  UNCHANGED <<unix_timestamp, slot, program>>
  BY <1>3 DEF create_order
<1>4. ASSUME NEW o \in OrderKey, NEW m \in MarketType, NEW p \in Price,
             NEW a \in Authority, NEW s \in Signer, fulfill_order(o, m, p, a, s)
      PROVE  UNCHANGED <<unix_timestamp, slot, program>>
  BY <1>4 DEF fulfill_order
<1>5. CASE ClockTick
  BY <1>0, <1>5 DEF ClockTick
<1>6. CASE UNCHANGED programVars
  BY <1>0, <1>6 DEF programVars
<1> QED BY <1>0, <1>1, <1>2, <1>3, <1>4, <1>5, <1>6 DEF ProgramNext

\* What is kept by every step that is not a fork.
LEMMA SystemPartStep ==
  ASSUME ForkInv, [Next]_vars
  PROVE  /\ TypeOK' /\ OpenedInThePast' /\ OracleReady' /\ KeyLoaded' /\ JobsPriced'
         /\ SingleFlight'
         /\ [ProgramNext]_programVars
         /\ strays \subseteq strays'
<1>1. /\ TypeOK /\ ProgramTypeOK /\ OpenedInThePast /\ OracleReady /\ KeyLoaded
      /\ JobsPriced /\ SingleFlight
  BY DEF ForkInv, TypeOK
<1>2. [ProgramNext]_programVars
  BY <1>1, StepOfProgram
<1> QED BY <1>1, <1>2, SystemTypeStep, PastStep, OracleReadyStep, SingleFlightStep,
           RegistrationStep

LEMMA NextKeepsForkInv ==
  ASSUME ForkInv, Next \/ UNCHANGED vars, UNCHANGED rooted
  PROVE  ForkInv'
<1>1. /\ TypeOK' /\ OpenedInThePast' /\ OracleReady' /\ KeyLoaded' /\ JobsPriced'
      /\ SingleFlight'
      /\ [ProgramNext]_programVars
  BY SystemPartStep
<1>2. ProgramTypeOK /\ ProgramTypeOK' /\ RootedType /\ RootedInThePast /\ RootedIsProcessed
  BY <1>1 DEF ForkInv, TypeOK
<1>3. RootedType'
  BY <1>2 DEF RootedType
<1>4. ASSUME NEW o \in OrderKey
      PROVE  /\ rooted'.orders[o].open_timestamp <= unix_timestamp'
             /\ rooted'.orders[o].open_slot <= slot'
             /\ rooted'.orders[o].exists => program'.exists /\ program'.oracle # NoKey
  <2>1. /\ rooted.orders[o].open_timestamp \in Nat /\ rooted.orders[o].open_slot \in Nat
        /\ unix_timestamp \in Nat /\ slot \in Nat
        /\ unix_timestamp' \in Nat /\ slot' \in Nat
    <3>1. rooted.orders[o] \in OrderAccount
      BY <1>2 DEF RootedType
    <3>2. rooted.orders[o].open_timestamp \in Time /\ rooted.orders[o].open_slot \in Time
      BY ONLY <3>1 DEF OrderAccount
    <3>3. Time \subseteq Nat
      BY ProgramAssumption DEF Time
    <3>4. unix_timestamp \in 0 .. slot /\ slot \in Time
      BY <1>2 DEF ProgramTypeOK
    <3>5. unix_timestamp' \in 0 .. slot' /\ slot' \in Time
      BY <1>2 DEF ProgramTypeOK
    <3>6. slot \in Nat /\ slot' \in Nat
      BY ONLY <3>3, <3>4, <3>5
    <3>7. unix_timestamp \in Nat /\ unix_timestamp' \in Nat
      BY ONLY <3>4, <3>5
    <3> QED BY ONLY <3>2, <3>3, <3>6, <3>7
  <2>2. /\ unix_timestamp <= unix_timestamp' /\ slot <= slot'
        /\ program.exists /\ program.oracle # NoKey
             => program'.exists /\ program'.oracle # NoKey
    BY <1>1, <1>2, ProgramMovesForward
  <2>3. /\ rooted.orders[o].open_timestamp <= unix_timestamp
        /\ rooted.orders[o].open_slot <= slot
        /\ rooted.orders[o].exists => program.exists /\ program.oracle # NoKey
    BY <1>2 DEF RootedInThePast
  <2> QED BY <2>1, <2>2, <2>3
<1>5. ASSUME NEW o \in OrderKey, RootedClosed(o)'
      PROVE  orders'[o] = rooted'.orders[o]
  <2>1. orders[o] = rooted.orders[o] /\ IsClosed(o) /\ orders[o].exists
    BY <1>2, <1>5 DEF RootedClosed, RootedIsProcessed, IsClosed
  <2> QED BY <1>1, <1>2, <2>1, OrdersMoveForward
<1> QED BY <1>1, <1>3, <1>4, <1>5 DEF ForkInv, RootedInThePast, RootedIsProcessed

LEMMA RootKeepsForkInv ==
  ASSUME ForkInv, Root
  PROVE  ForkInv'
<1>1. [Next]_vars /\ UNCHANGED vars /\ rooted' = [orders |-> orders, ledger |-> ledger]
  BY DEF Root, Processed
<1>2. UNCHANGED <<orders, ledger, unix_timestamp, slot, program>>
  BY <1>1 DEF vars, programVars, netVars, txVars
<1>3. /\ TypeOK' /\ OpenedInThePast' /\ OracleReady' /\ KeyLoaded' /\ JobsPriced'
      /\ SingleFlight'
  BY <1>1, SystemPartStep
<1>4. RootedType'
  BY <1>1 DEF ForkInv, TypeOK, ProgramTypeOK, RootedType
<1>5. RootedInThePast'
  BY <1>1, <1>2 DEF ForkInv, OpenedInThePast, OracleReady, RootedInThePast
<1>6. RootedIsProcessed'
  BY <1>1, <1>2 DEF RootedIsProcessed
<1> QED BY <1>3, <1>4, <1>5, <1>6 DEF ForkInv

\* The worker notices nothing; what it knows of orders may no longer be true.
LEMMA ForkKeepsForkInv ==
  ASSUME ForkInv, Fork
  PROVE  ForkInv'
<1>1. /\ orders' = rooted.orders /\ ledger' = rooted.ledger
      /\ faults' = faults + 1
      /\ mempool' \subseteq mempool \cup {r.tx : r \in ledger}
      /\ UNCHANGED <<program, markets, oracles, slot, unix_timestamp, logs>>
      /\ UNCHANGED workerVars /\ UNCHANGED <<registrations, strays, rooted>>
  BY DEF Fork, Fault
<1>2. UNCHANGED <<phase, enclave_signer, register_blockhash, recent_blockhash,
                  active_orders, cursor, reconnect, poll, open_orders, job>>
  BY <1>1 DEF workerVars, procVars, streamVars, pollVars
<1>3. TypeOK /\ ProgramTypeOK /\ RootedType
  BY DEF ForkInv, TypeOK
<1>4. ProgramTypeOK'
  BY <1>1, <1>3 DEF ProgramTypeOK, RootedType
<1>5. mempool' \in SUBSET Tx /\ ledger' \in SUBSET [tx : Tx, ok : BOOLEAN] /\ faults' \in Nat
  BY <1>1, <1>3 DEF TypeOK, RootedType
<1>6. TypeOK'
  BY <1>1, <1>2, <1>3, <1>4, <1>5 DEF TypeOK
<1>7. KeyLoaded' /\ JobsPriced' /\ SingleFlight'
  BY <1>2 DEF ForkInv, KeyLoaded, JobsPriced, SingleFlight, HasJob
<1>8. OpenedInThePast' /\ OracleReady'
  BY <1>1 DEF ForkInv, RootedInThePast, OpenedInThePast, OracleReady
<1>9. RootedType' /\ RootedInThePast' /\ RootedIsProcessed'
  BY <1>1 DEF ForkInv, RootedType, RootedInThePast, RootedIsProcessed
<1> QED BY <1>6, <1>7, <1>8, <1>9 DEF ForkInv

LEMMA ForkInvInit == ForkInit => ForkInv
<1> SUFFICES ASSUME ForkInit PROVE ForkInv
  OBVIOUS
<1>1. SystemInv /\ rooted = [orders |-> orders, ledger |-> ledger]
  BY SystemInit DEF ForkInit, Processed
<1>2. RootedType
  BY <1>1 DEF SystemInv, TypeOK, ProgramTypeOK, RootedType
<1>3. RootedInThePast /\ RootedIsProcessed
  BY <1>1 DEF SystemInv, ProgramInv, OpenedInThePast, OracleReady, RootedInThePast,
              RootedIsProcessed
<1> QED BY <1>1, <1>2, <1>3 DEF SystemInv, ProgramInv, ForkInv
-----------------------------------------------------------------------------
(* The theorems.                                                           *)

\* ForkInv is inductive, forks included.
THEOREM ForkInvariance == ForkSpec => []ForkInv
<1>1. ForkInv /\ [ForkNext]_forkVars => ForkInv'
  <2> SUFFICES ASSUME ForkInv, [ForkNext]_forkVars PROVE ForkInv'
    OBVIOUS
  <2>1. CASE Next /\ UNCHANGED rooted
    BY <2>1, NextKeepsForkInv
  <2>2. CASE Root
    BY <2>2, RootKeepsForkInv
  <2>3. CASE Fork
    BY <2>3, ForkKeepsForkInv
  <2>4. CASE UNCHANGED forkVars
    BY <2>4, NextKeepsForkInv DEF forkVars
  <2> QED BY <2>1, <2>2, <2>3, <2>4 DEF ForkNext
<1> QED BY ForkInvInit, <1>1, PTL DEF ForkSpec

\* The two paths stay apart although forks reopen orders under the worker.
THEOREM OneFutureDespiteForks == ForkSpec => []SingleFlight
<1>1. ForkInv => SingleFlight
  BY DEF ForkInv
<1> QED BY ForkInvariance, <1>1, PTL

\* Whatever is forked, retried or resubmitted, a rooted answer is final.
THEOREM RootedAnswersFinal == ForkSpec => RootedAnswerFinal
<1>1. ASSUME ForkInv, [ForkNext]_forkVars, NEW o \in OrderKey,
             rooted.orders[o].exists /\ rooted.orders[o].open_order = 0
      PROVE  rooted'.orders[o] = rooted.orders[o] /\ orders'[o] = rooted.orders[o]
  <2>1. /\ ProgramTypeOK /\ RootedType
        /\ orders[o] = rooted.orders[o] /\ IsClosed(o) /\ orders[o].exists
    BY <1>1 DEF ForkInv, TypeOK, RootedIsProcessed, RootedClosed, IsClosed
  <2>2. ASSUME [Next]_vars
        PROVE  orders'[o] = orders[o]
    BY <1>1, <2>1, <2>2, SystemPartStep, OrdersMoveForward
  <2>3. CASE Next /\ UNCHANGED rooted
    BY <2>1, <2>2, <2>3
  <2>4. CASE Root
    BY <2>1, <2>2, <2>4 DEF Root, Processed
  <2>5. CASE Fork
    BY <2>5 DEF Fork
  <2>6. CASE UNCHANGED forkVars
    BY <2>1, <2>2, <2>6 DEF forkVars
  <2> QED BY <1>1, <2>3, <2>4, <2>5, <2>6 DEF ForkNext
<1>2. ForkInv /\ [ForkNext]_forkVars =>
        [\A o \in OrderKey :
           rooted.orders[o].exists /\ rooted.orders[o].open_order = 0
             => /\ rooted'.orders[o] = rooted.orders[o]
                /\ orders'[o] = rooted.orders[o]]_forkVars
  BY <1>1
<1> QED BY ForkInvariance, <1>2, PTL DEF ForkSpec, RootedAnswerFinal
-----------------------------------------------------------------------------
(* What prices answer requests of, forks or not.                           *)

Request(o, m, t) == [order |-> o, market |-> m, timestamp |-> t]

\* An account, of whichever fork, was requested as it is, ...
AccountRequested(o, a) ==
  a.exists =>
    /\ Request(o, a.market, a.open_timestamp) \in Requests
    /\ try_from(a.market_name) = a.market

AccountsRequested ==
  \A o \in OrderKey :
    AccountRequested(o, orders[o]) /\ AccountRequested(o, rooted.orders[o])

\* ... and so was what getProgramAccounts returned and what the futures work on, ...
PollRequested ==
  \A r \in open_orders :
    Request(r.order, try_from(r.market_name), r.open_timestamp) \in Requests

JobRequested(p, o) ==
  LET j == job[p][o] IN
    /\ j.stage \in {"pricing", "sending", "confirming"} =>
         Request(o, j.market, j.timestamp) \in Requests
    /\ j.stage \in {"sending", "confirming"} =>
         Answer(o, j.market, j.price) \in AnswersToRequests

JobsRequested == \A p \in Path, o \in OrderKey : JobRequested(p, o)

\* ... and every transaction carries such a price, executed ones included, since a
\* fork may send them again.
TxRequested(tx) == Answer(tx.order, tx.market, tx.price) \in AnswersToRequests

TxsRequested ==
  \A tx \in mempool \cup {r.tx : r \in ledger \cup rooted.ledger} : TxRequested(tx)

\* A success the cluster holds is the answer its order has, before and after a fork.
Settled(accounts, executed) ==
  \A r \in executed : r.ok =>
    LET a == accounts[r.tx.order] IN
      /\ a.exists /\ a.open_order = 0
      /\ a.market = r.tx.market /\ a.oracle_price = r.tx.price

RequestInv ==
  /\ ForkInv
  /\ Settled(orders, ledger)
  /\ Settled(rooted.orders, rooted.ledger)
  /\ AccountsRequested
  /\ PollRequested
  /\ JobsRequested
  /\ TxsRequested

\* A request of the program's stream.
LEMMA EventIsRequest ==
  ASSUME NEW i \in DOMAIN logs, logs[i].type = "requested"
  PROVE  Request(logs[i].order, logs[i].market, logs[i].timestamp) \in Requests
BY DEF Request, Requests

LEMMA PriceAnswers ==
  ASSUME NEW o, NEW m, NEW t, NEW p \in get_price(m, t), Request(o, m, t) \in Requests
  PROVE  Answer(o, m, p) \in AnswersToRequests
<1> DEFINE e == Request(o, m, t)
<1>1. e.order = o /\ e.market = m /\ e.timestamp = t
  BY DEF Request
<1>2. Answer(e.order, e.market, p) \in
        {Answer(e.order, e.market, x) : x \in get_price(e.market, e.timestamp)}
  BY <1>1
<1> HIDE DEF e
<1>3. e \in Requests
  BY DEF e
<1> QED BY <1>1, <1>2, <1>3 DEF AnswersToRequests

\* A request is never taken back, by no step and no fork.
LEMMA RequestsStay ==
  ASSUME ProgramTypeOK, OpenedInThePast, [ProgramNext]_programVars, strays \subseteq strays'
  PROVE  Requests \subseteq Requests' /\ AnswersToRequests \subseteq AnswersToRequests'
<1>1. ASSUME UNCHANGED logs PROVE Requests \subseteq Requests'
  BY <1>1 DEF Requests
<1>2. ASSUME NEW e \in Event, logs' = Append(logs, e)
      PROVE  Requests \subseteq Requests'
  <2>1. \A i \in DOMAIN logs : i \in DOMAIN logs' /\ logs'[i] = logs[i]
    BY <1>2, AppendPositions DEF ProgramTypeOK
  <2>2. ASSUME NEW x \in Requests, x \notin strays
        PROVE  x \in Requests'
    <3>1. PICK i \in DOMAIN logs :
            /\ logs[i].type = "requested"
            /\ x = [order |-> logs[i].order, market |-> logs[i].market,
                    timestamp |-> logs[i].timestamp]
      BY <2>2 DEF Requests
    <3>2. i \in DOMAIN logs' /\ logs'[i] = logs[i]
      BY <2>1
    <3> QED BY <3>1, <3>2 DEF Requests
  <2> QED BY <2>2 DEF Requests
<1>3. initialize \/ ClockTick \/ UNCHANGED programVars => UNCHANGED logs
  BY DEF initialize, Initialize, ClockTick, programVars
<1>4. ASSUME NEW a \in Authority, NEW s \in Signer, register_oracle(a, s)
      PROVE  UNCHANGED logs
  BY <1>4 DEF register_oracle, RegisterOracle
<1>5. ASSUME NEW o \in OrderKey, NEW m \in Market, create_order(o, m)
      PROVE  \E e \in Event : logs' = Append(logs, e)
  BY <1>5, CreateOrderEvent
<1>6. ASSUME NEW o \in OrderKey, NEW m \in MarketType, NEW p \in Price,
             NEW a \in Authority, NEW s \in Signer, fulfill_order(o, m, p, a, s)
      PROVE  \E e \in Event : logs' = Append(logs, e)
  BY <1>6, FulfillOrderEvent
<1>7. Requests \subseteq Requests'
  BY <1>1, <1>2, <1>3, <1>4, <1>5, <1>6 DEF ProgramNext
<1>8. AnswersToRequests \subseteq AnswersToRequests'
  BY <1>7 DEF AnswersToRequests, Answer, get_price
<1> QED BY <1>7, <1>8

LEMMA CreateIsRequest ==
  ASSUME ProgramTypeOK, NEW o \in OrderKey, NEW m \in Market, create_order(o, m)
  PROVE  Request(o, m, unix_timestamp) \in Requests'
<1>1. PICK e \in Event : /\ logs' = Append(logs, e) /\ e.type = "requested"
                         /\ e.order = o /\ e.market = m /\ e.timestamp = unix_timestamp
  BY CreateOrderEvent
<1>2. Len(logs) + 1 \in DOMAIN logs' /\ logs'[Len(logs) + 1] = e
  BY <1>1, AppendPositions DEF ProgramTypeOK
<1> QED BY <1>1, <1>2 DEF Requests, Request
-----------------------------------------------------------------------------
(* A step that is not a fork.                                              *)

LEMMA RequestFacts ==
  ASSUME RequestInv, [Next]_vars
  PROVE  /\ TypeOK /\ ProgramTypeOK /\ OracleReady /\ JobsPriced /\ [ProgramNext]_programVars
         /\ Requests \subseteq Requests' /\ AnswersToRequests \subseteq AnswersToRequests'
         /\ "poll" \in Path /\ "event" \in Path
<1>1. /\ ForkInv /\ TypeOK /\ ProgramTypeOK /\ OracleReady /\ OpenedInThePast /\ JobsPriced
  BY DEF RequestInv, ForkInv, TypeOK
<1>2. [ProgramNext]_programVars /\ strays \subseteq strays'
  BY <1>1, SystemPartStep
<1> QED BY <1>1, <1>2, RequestsStay DEF Path

LEMMA AccountsRequestedStep ==
  ASSUME RequestInv, [Next]_vars, NEW x \in OrderKey
  PROVE  AccountRequested(x, orders[x])'
<1>0. /\ TypeOK /\ ProgramTypeOK /\ OracleReady /\ Requests \subseteq Requests'
      /\ AccountRequested(x, orders[x])
  BY RequestFacts DEF RequestInv, AccountsRequested
<1>1. CASE orders'[x] = orders[x]
  BY <1>0, <1>1 DEF AccountRequested, Request
<1>2. ASSUME NEW m \in Market, create_order(x, m)
      PROVE  AccountRequested(x, orders[x])'
  <2>1. /\ orders'[x].market = m /\ orders'[x].open_timestamp = unix_timestamp
        /\ orders'[x].open_order = 1 /\ orders'[x].market_name = to_bytes(m)
    BY <1>0, <1>2, CreateOrderAccount
  <2>2. Request(x, m, unix_timestamp) \in Requests'
    BY <1>0, <1>2, CreateIsRequest
  <2>3. try_from(to_bytes(m)) = m
    BY ProgramAssumption, MarketBytesDecode
  <2> QED BY <2>1, <2>2, <2>3 DEF AccountRequested
<1>3. ASSUME NEW m, NEW p, NEW a, NEW s, fulfill_order(x, m, p, a, s)
      PROVE  AccountRequested(x, orders[x])'
  <2>1. /\ orders[x].exists /\ orders'[x].market = orders[x].market
        /\ orders'[x].market_name = orders[x].market_name
        /\ orders'[x].open_timestamp = orders[x].open_timestamp
    BY <1>0, <1>3, FulfillOrderAccount
  <2> QED BY <1>0, <2>1 DEF AccountRequested, Request
<1>4. ASSUME NEW o \in OrderKey, NEW m \in Market, create_order(o, m)
      PROVE  AccountRequested(x, orders[x])'
  BY <1>0, <1>1, <1>2, <1>4, CreateOrderAccount
<1>5. ASSUME NEW o \in OrderKey, NEW m, NEW p, NEW a, NEW s, fulfill_order(o, m, p, a, s)
      PROVE  AccountRequested(x, orders[x])'
  BY <1>0, <1>1, <1>3, <1>5, FulfillOrderAccount
<1> QED BY <1>0, <1>1, <1>4, <1>5, OrdersEffect

\* Executing a transaction settles its order, and a closed order stays as it is.
LEMMA SettledStep ==
  ASSUME RequestInv, [Next]_vars
  PROVE  Settled(orders, ledger)'
<1>0. /\ TypeOK /\ ProgramTypeOK /\ OracleReady /\ [ProgramNext]_programVars
      /\ \A r \in ledger : r.tx.order \in OrderKey
  BY RequestFacts DEF TypeOK, Tx
<1> SUFFICES ASSUME NEW r \in ledger', r.ok
             PROVE  LET a == orders'[r.tx.order] IN
                      /\ a.exists /\ a.open_order = 0
                      /\ a.market = r.tx.market /\ a.oracle_price = r.tx.price
  BY DEF Settled
<1>1. CASE r \in ledger
  <2>1. /\ orders[r.tx.order].exists /\ IsClosed(r.tx.order)
        /\ orders[r.tx.order].market = r.tx.market
        /\ orders[r.tx.order].oracle_price = r.tx.price
    BY <1>1 DEF RequestInv, Settled, IsClosed
  <2>2. orders'[r.tx.order] = orders[r.tx.order]
    BY <1>0, <1>1, <2>1, OrdersMoveForward
  <2> QED BY <2>1, <2>2 DEF IsClosed
<1>2. CASE r \notin ledger
  <2>1. PICK tx \in mempool : Execute(tx)
    BY <1>0, <1>2, NetEffect DEF Sent
  <2>2. /\ r = [tx |-> tx, ok |-> TRUE] /\ tx.order \in OrderKey
        /\ fulfill_order(tx.order, tx.market, tx.price, Payer, tx.signer)
    BY <1>0, <1>2, <2>1, ExecuteEffect DEF Tx
  <2>3. orders[tx.order].market = tx.market
    BY <2>2 DEF fulfill_order, FulfillOrder
  <2> QED BY <1>0, <2>2, <2>3, FulfillOrderAccount
<1> QED BY <1>1, <1>2

LEMMA PollRequestedStep ==
  ASSUME RequestInv, [Next]_vars
  PROVE  PollRequested'
<1>0. /\ TypeOK /\ OracleReady /\ Requests \subseteq Requests'
  BY RequestFacts
<1> SUFFICES ASSUME NEW r \in open_orders'
             PROVE  Request(r.order, try_from(r.market_name), r.open_timestamp) \in Requests'
  BY DEF PollRequested
<1>1. CASE fetch_open_order_accounts
  <2>1. PICK o \in OrderKey : /\ IsOpen(o)
                              /\ r = [order |-> o, market_name |-> orders[o].market_name,
                                      open_timestamp |-> orders[o].open_timestamp]
    BY <1>1 DEF fetch_open_order_accounts
  <2>2. Request(o, try_from(orders[o].market_name), orders[o].open_timestamp) \in Requests
    BY <2>1 DEF RequestInv, AccountsRequested, AccountRequested, IsOpen
  <2> QED BY <1>0, <2>1, <2>2
<1>2. CASE r \in open_orders
  BY <1>0, <1>2 DEF RequestInv, PollRequested, Request
<1> QED BY <1>0, <1>1, <1>2, AnswerShrinks

LEMMA JobsRequestedStep ==
  ASSUME RequestInv, [Next]_vars
  PROVE  JobsRequested'
<1>0. /\ TypeOK /\ OracleReady /\ JobsPriced /\ Requests \subseteq Requests'
      /\ AnswersToRequests \subseteq AnswersToRequests' /\ "poll" \in Path /\ "event" \in Path
  BY RequestFacts
<1> SUFFICES ASSUME NEW q \in Path, NEW x \in OrderKey
             PROVE  JobRequested(q, x)'
  BY DEF JobsRequested
<1>1. JobRequested(q, x)
  BY DEF RequestInv, JobsRequested
<1>2. ASSUME job'[q][x] = job[q][x]
      PROVE  JobRequested(q, x)'
  BY <1>0, <1>1, <1>2 DEF JobRequested, Answer, Request
<1>3. ASSUME job'[q][x].stage \notin {"pricing", "sending", "confirming"}
      PROVE  JobRequested(q, x)'
  BY <1>3 DEF JobRequested
<1>4. ASSUME NEW m \in MarketType, NEW t \in Time, Request(x, m, t) \in Requests',
             job'[q][x] = NewJob(m, t)
      PROVE  JobRequested(q, x)'
  <2>1. /\ job'[q][x].stage = "pricing" /\ job'[q][x].market = m /\ job'[q][x].timestamp = t
    BY <1>4, JobTypes
  <2> QED BY <1>4, <2>1 DEF JobRequested, Request
<1>5. CASE UNCHANGED <<active_orders, poll, open_orders, job>>
  BY <1>2, <1>5
<1>6. CASE WorkerDown
  BY <1>3, <1>6, NoJobsType DEF WorkerDown
<1>7. ASSUME NEW o \in OrderKey, NEW m \in MarketType, NEW t \in Time,
             EventHandled(o, m, t)
      PROVE  JobRequested(q, x)'
  <2>1. Request(o, m, t) \in Requests'
    <3>1. Request(o, m, t) \in strays' => Request(o, m, t) \in Requests'
      BY DEF Requests
    <3>2. ASSUME NEW i \in DOMAIN logs, logs[i].type = "requested", logs[i].order = o,
                 logs[i].market = m, logs[i].timestamp = t
          PROVE  Request(o, m, t) \in Requests'
      BY <1>0, <3>2, EventIsRequest
    <3> QED BY <1>7, <3>1, <3>2 DEF EventHandled, Read, Request
  <2>2. CASE q = "event" /\ x = o
    BY <1>0, <1>4, <1>7, <2>1, <2>2, EventEffect
  <2>3. CASE ~(q = "event" /\ x = o)
    BY <1>0, <1>2, <1>7, <2>3, EventEffect
  <2> QED BY <2>2, <2>3
<1>8. CASE fetch_open_order_accounts
  BY <1>2, <1>8 DEF fetch_open_order_accounts
<1>9. CASE SpawnFutures
  <2>1. CASE q = "event"
    BY <1>0, <1>2, <1>9, <2>1, SpawnEffect
  <2>2. CASE q = "poll"
    <3>1. CASE job'[q][x] = NoJob
      BY <1>3, <3>1, JobTypes
    <3>2. ASSUME NEW r \in open_orders, r.order = x,
                 try_from(r.market_name) \in MarketType, r.open_timestamp \in Time,
                 job'[q][x] = NewJob(try_from(r.market_name), r.open_timestamp)
          PROVE  JobRequested(q, x)'
      BY <1>0, <1>4, <3>2 DEF RequestInv, PollRequested
    <3> QED BY <1>0, <1>9, <2>2, <3>1, <3>2, SpawnEffect
  <2> QED BY <2>1, <2>2 DEF Path
<1>10. CASE JoinAll
  <2>1. CASE q = "event"
    BY <1>0, <1>2, <1>10, <2>1, JoinEffect
  <2>2. CASE q = "poll"
    BY <1>0, <1>3, <1>10, <2>2, JoinEffect, JobTypes
  <2> QED BY <2>1, <2>2 DEF Path
<1>11. ASSUME NEW p \in Path, NEW o \in OrderKey, Priced(p, o)
       PROVE  JobRequested(q, x)'
  <2>1. CASE q = p /\ x = o
    <3>1. /\ job[q][x].stage = "pricing" /\ job'[q][x].stage = "sending"
          /\ job'[q][x].market = job[q][x].market
          /\ job'[q][x].timestamp = job[q][x].timestamp
          /\ job'[q][x].price \in get_price(job[q][x].market, job[q][x].timestamp)
      BY <1>0, <1>11, <2>1, PricedEffect
    <3>2. Request(x, job[q][x].market, job[q][x].timestamp) \in Requests
      BY <1>1, <3>1 DEF JobRequested
    <3>3. Answer(x, job[q][x].market, job'[q][x].price) \in AnswersToRequests
      BY <3>1, <3>2, PriceAnswers
    <3> QED BY <1>0, <3>1, <3>2, <3>3 DEF JobRequested
  <2>2. CASE ~(q = p /\ x = o)
    BY <1>0, <1>2, <1>11, <2>2, PricedEffect
  <2> QED BY <2>1, <2>2
<1>12. ASSUME NEW p \in Path, NEW o \in OrderKey, Sent(p, o)
       PROVE  JobRequested(q, x)'
  <2>0. job[p][o].price \in Price
    BY <1>0, <1>12 DEF Sent, JobsPriced
  <2>1. CASE q = p /\ x = o
    <3>1. /\ job[q][x].stage = "sending" /\ job'[q][x].stage = "confirming"
          /\ job'[q][x].market = job[q][x].market
          /\ job'[q][x].timestamp = job[q][x].timestamp
          /\ job'[q][x].price = job[q][x].price
      BY <1>0, <1>12, <2>0, <2>1, SentEffect
    <3> QED BY <1>0, <1>1, <3>1 DEF JobRequested
  <2>2. CASE ~(q = p /\ x = o)
    BY <1>0, <1>2, <1>12, <2>0, <2>2, SentEffect
  <2> QED BY <2>1, <2>2
<1>13. ASSUME NEW p \in Path, NEW o \in OrderKey, Returned(p, o)
       PROVE  JobRequested(q, x)'
  <2>1. PICK result \in {"ok", "err"} :
           /\ job'[p][o].stage = IF p = "event" THEN "none" ELSE result
           /\ \A r \in Path, y \in OrderKey : r # p \/ y # o => job'[r][y] = job[r][y]
    BY <1>0, <1>13, ReturnedEffect
  <2>2. CASE q = p /\ x = o
    BY <1>3, <2>1, <2>2
  <2>3. CASE ~(q = p /\ x = o)
    BY <1>2, <2>1, <2>3
  <2> QED BY <2>2, <2>3
<1> QED BY <1>0, <1>5, <1>6, <1>7, <1>8, <1>9, <1>10, <1>11, <1>12, <1>13, WorkerEffect

LEMMA TxsRequestedStep ==
  ASSUME RequestInv, [Next]_vars
  PROVE  \A tx \in mempool' \cup {r.tx : r \in ledger'} : TxRequested(tx)'
<1>0. /\ TypeOK /\ OracleReady /\ JobsPriced /\ AnswersToRequests \subseteq AnswersToRequests'
  BY RequestFacts
<1>1. ASSUME NEW tx, tx \in mempool \cup {r.tx : r \in ledger}
      PROVE  TxRequested(tx)'
  BY <1>0, <1>1 DEF RequestInv, TxsRequested, TxRequested
<1>2. ASSUME NEW p \in Path, NEW o \in OrderKey, Sent(p, o), NEW tx,
             tx = TxOf(o, Signed(p, o))
      PROVE  TxRequested(tx)'
  <2>1. job[p][o] \in Job /\ job[p][o].stage = "sending"
    BY <1>0, <1>2 DEF TypeOK, Sent
  <2>2. tx.order = o /\ tx.market = job[p][o].market /\ tx.price = job[p][o].price
    BY <1>2, <2>1 DEF TxOf, Signed, Job
  <2>3. Answer(o, job[p][o].market, job[p][o].price) \in AnswersToRequests
    BY <2>1 DEF RequestInv, JobsRequested, JobRequested
  <2> QED BY <1>0, <2>2, <2>3 DEF TxRequested
<1>3. \/ /\ mempool' \subseteq mempool
         /\ {r.tx : r \in ledger'} \subseteq mempool \cup {r.tx : r \in ledger}
      \/ \E p \in Path, o \in OrderKey : Sent(p, o)
  <2>1. ASSUME NEW tx \in mempool, Execute(tx)
        PROVE  /\ mempool' \subseteq mempool
               /\ {r.tx : r \in ledger'} \subseteq mempool \cup {r.tx : r \in ledger}
    BY <1>0, <2>1, ExecuteEffect
  <2> QED BY <1>0, <2>1, NetEffect
<1>4. ASSUME NEW tx \in mempool' \cup {r.tx : r \in ledger'}
      PROVE  \/ tx \in mempool \cup {r.tx : r \in ledger}
             \/ \E p \in Path, o \in OrderKey : Sent(p, o) /\ tx = TxOf(o, Signed(p, o))
  BY <1>3 DEF Sent
<1> QED BY <1>1, <1>2, <1>4
-----------------------------------------------------------------------------
(* The invariant, forks included.                                          *)

LEMMA RequestInit == ForkInit => RequestInv
<1> SUFFICES ASSUME ForkInit PROVE RequestInv
  OBVIOUS
<1>1. ForkInv
  BY ForkInvInit
<1>2. /\ \A o \in OrderKey : ~orders[o].exists
      /\ rooted = [orders |-> orders, ledger |-> ledger]
      /\ open_orders = {} /\ job = NoJobs /\ mempool = {} /\ ledger = {}
  BY DEF ForkInit, Init, ProgramInit, NoOrder, Processed
<1> QED BY <1>1, <1>2, NoJobsType
        DEF RequestInv, Settled, AccountsRequested, AccountRequested, PollRequested,
            JobsRequested, JobRequested, TxsRequested

LEMMA NextKeepsRequestInv ==
  ASSUME RequestInv, Next \/ UNCHANGED vars, UNCHANGED rooted
  PROVE  RequestInv'
<1>0. [Next]_vars
  OBVIOUS
<1>1. ForkInv'
  BY NextKeepsForkInv DEF RequestInv
<1>2. Requests \subseteq Requests' /\ AnswersToRequests \subseteq AnswersToRequests'
  BY <1>0, RequestFacts
<1>3. \A o \in OrderKey : AccountRequested(o, rooted.orders[o])'
  BY <1>2 DEF RequestInv, AccountsRequested, AccountRequested, Answer, Request
<1>4. \A r \in rooted'.ledger : TxRequested(r.tx)'
  BY <1>2 DEF RequestInv, TxsRequested, TxRequested
<1>5. TxsRequested'
  BY <1>0, <1>4, TxsRequestedStep DEF TxsRequested
<1>6. AccountsRequested'
  BY <1>0, <1>3, AccountsRequestedStep DEF AccountsRequested
<1>7. Settled(orders, ledger)' /\ Settled(rooted.orders, rooted.ledger)'
  BY <1>0, SettledStep DEF RequestInv, Settled
<1> QED BY <1>0, <1>1, <1>5, <1>6, <1>7, PollRequestedStep, JobsRequestedStep
        DEF RequestInv

LEMMA RootKeepsRequestInv ==
  ASSUME RequestInv, Root
  PROVE  RequestInv'
<1>1. ForkInv' /\ UNCHANGED vars /\ rooted' = [orders |-> orders, ledger |-> ledger]
  BY RootKeepsForkInv DEF RequestInv, Root, Processed
<1>2. UNCHANGED <<orders, ledger, logs, strays, mempool, open_orders, job>>
  BY <1>1 DEF vars, programVars, netVars, txVars, workerVars, pollVars
<1>3. Requests' = Requests /\ AnswersToRequests' = AnswersToRequests
  BY <1>2 DEF Requests, AnswersToRequests, Answer, get_price
<1>4. AccountsRequested'
  BY <1>1, <1>2, <1>3 DEF RequestInv, AccountsRequested, AccountRequested, Answer, Request
<1>5. PollRequested' /\ JobsRequested'
  BY <1>2, <1>3 DEF RequestInv, PollRequested, JobsRequested, JobRequested, Answer, Request
<1>6. TxsRequested'
  BY <1>1, <1>2, <1>3 DEF RequestInv, TxsRequested, TxRequested
<1>7. Settled(orders, ledger)' /\ Settled(rooted.orders, rooted.ledger)'
  BY <1>1, <1>2 DEF RequestInv, Settled
<1> QED BY <1>1, <1>4, <1>5, <1>6, <1>7 DEF RequestInv

\* A fork brings back rooted accounts and executed transactions, and no other.
LEMMA ForkKeepsRequestInv ==
  ASSUME RequestInv, Fork
  PROVE  RequestInv'
<1>1. /\ ForkInv' /\ UNCHANGED rooted
      /\ orders' = rooted.orders /\ ledger' = rooted.ledger
      /\ mempool' \subseteq mempool \cup {r.tx : r \in ledger}
      /\ UNCHANGED <<logs, strays, open_orders, job>>
  BY ForkKeepsForkInv DEF RequestInv, Fork, workerVars, pollVars
<1>2. Requests' = Requests /\ AnswersToRequests' = AnswersToRequests
  BY <1>1 DEF Requests, AnswersToRequests, Answer, get_price
<1>3. AccountsRequested'
  BY <1>1, <1>2 DEF RequestInv, AccountsRequested, AccountRequested, Answer, Request
<1>4. PollRequested' /\ JobsRequested'
  BY <1>1, <1>2 DEF RequestInv, PollRequested, JobsRequested, JobRequested, Answer, Request
<1>5. TxsRequested'
  <2>1. \A tx \in mempool' \cup {r.tx : r \in ledger' \cup rooted'.ledger} :
          tx \in mempool \cup {r.tx : r \in ledger \cup rooted.ledger}
    BY <1>1
  <2> QED BY <1>2, <2>1 DEF RequestInv, TxsRequested, TxRequested
<1>6. Settled(orders, ledger)' /\ Settled(rooted.orders, rooted.ledger)'
  BY <1>1 DEF RequestInv, Settled
<1> QED BY <1>1, <1>3, <1>4, <1>5, <1>6 DEF RequestInv

\* However forks and stray events mix what the worker and the network know, a success
\* of the worker's is the answer its order has, at a price of the order's market at a
\* second for which it was requested for that market.
THEOREM PricesWereRequested == ForkSpec => []PriceWasRequested
<1>1. RequestInv /\ [ForkNext]_forkVars => RequestInv'
  <2> SUFFICES ASSUME RequestInv, [ForkNext]_forkVars PROVE RequestInv'
    OBVIOUS
  <2>1. CASE (Next /\ UNCHANGED rooted) \/ UNCHANGED forkVars
    BY <2>1, NextKeepsRequestInv DEF forkVars
  <2>2. CASE Root
    BY <2>2, RootKeepsRequestInv
  <2>3. CASE Fork
    BY <2>3, ForkKeepsRequestInv
  <2> QED BY <2>1, <2>2, <2>3 DEF ForkNext
<1>2. RequestInv => PriceWasRequested
  BY DEF RequestInv, Settled, TxsRequested, TxRequested, PriceWasRequested, IsClosed
<1> QED BY RequestInit, <1>1, <1>2, PTL DEF ForkSpec
=============================================================================
