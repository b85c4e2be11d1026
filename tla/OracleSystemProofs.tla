------------------------- MODULE OracleSystemProofs -------------------------
(***************************************************************************)
(* Proofs about the worker composed with the program, for any set of       *)
(* orders, keys and prices, any number of faults and any length of the     *)
(* run, whatever other oracles do and whatever events the stream brings:   *)
(* the worker is one more user of the program, the two paths never submit  *)
(* an order together, no order is left behind in active_orders, and the    *)
(* worker answers an order only with what it was asked for.                *)
(***************************************************************************)
EXTENDS OracleSystem, BackfillProgramProofs
-----------------------------------------------------------------------------
(* The inductive invariant.                                                *)

\* The worker registers the key it has loaded.
KeyLoaded == phase # "down" => enclave_signer \in Signer

\* A future past get_price has a price to send.
JobsPriced ==
  \A p \in Path, o \in OrderKey :
    job[p][o].stage \in {"sending", "confirming"} => job[p][o].price \in Price

\* Futures of the poll path live between SpawnFutures and JoinAll.
PollJobsAreJoined ==
  poll # "joining" => \A o \in OrderKey : ~HasJob("poll", o)

\* A transaction the cluster reports as a success has closed its order, and a
\* future of the poll path that returned Ok has seen such a report.
SuccessMeansClosed ==
  /\ \A r \in ledger : r.ok => IsClosed(r.tx.order)
  /\ \A o \in OrderKey : job["poll"][o].stage = "ok" => IsClosed(o)

\* The program's events and the answer of getProgramAccounts, however stale, say
\* what the account says.
EventsFaithful ==
  \A i \in DOMAIN logs :
    logs[i].type = "requested" =>
      LET o == logs[i].order IN
        /\ orders[o].exists
        /\ logs[i].market = orders[o].market
        /\ logs[i].timestamp = orders[o].open_timestamp

AnswerFaithful ==
  \A r \in open_orders :
    /\ orders[r.order].exists
    /\ r.market_name = orders[r.order].market_name
    /\ r.open_timestamp = orders[r.order].open_timestamp

\* A future works on something it was asked for, and its price is for that.
JobAsked(p, o) ==
  /\ job[p][o].stage \in {"pricing", "sending", "confirming"} =>
       Asked(o, job[p][o].market, job[p][o].timestamp)
  /\ job[p][o].stage \in {"sending", "confirming"} =>
       job[p][o].price \in get_price(job[p][o].market, job[p][o].timestamp)

JobsAsked == \A p \in Path, o \in OrderKey : JobAsked(p, o)

\* So do the transactions under way, which do not say for which second.
TxAsked(tx) ==
  \E t \in Time : Asked(tx.order, tx.market, t) /\ tx.price \in get_price(tx.market, t)

TxsAsked == \A tx \in mempool : TxAsked(tx)

SystemInv ==
  /\ TypeOK
  /\ ProgramInv
  /\ KeyLoaded
  /\ JobsPriced
  /\ BackoffDoubles
  /\ SingleFlight
  /\ PollJobsAreJoined
  /\ SuccessMeansClosed
  /\ NoStrandedOrder
  /\ EventsFaithful
  /\ AnswerFaithful
  /\ JobsAsked
  /\ TxsAsked
-----------------------------------------------------------------------------
(* The model's operators.                                                  *)

LEMMA GetPriceType ==
  ASSUME NEW m \in MarketType, NEW t \in Time
  PROVE  get_price(m, t) \subseteq Price
BY SystemAssumption DEF get_price

LEMMA JobTypes ==
  /\ NoJob \in Job /\ NoJob.stage = "none"
  /\ \A m \in MarketType, t \in Time :
       /\ NewJob(m, t) \in Job
       /\ NewJob(m, t).stage = "pricing"
       /\ NewJob(m, t).market = m
       /\ NewJob(m, t).timestamp = t
  /\ \A stage \in Stage :
       /\ [NoJob EXCEPT !.stage = stage] \in Job
       /\ [NoJob EXCEPT !.stage = stage].stage = stage
<1>1. 0 \in Time
  BY ProgramAssumption DEF Time
<1>2. NoJob \in Job /\ NoJob.stage = "none"
  BY <1>1 DEF NoJob, Job, Stage, MarketType
<1> QED BY <1>1, <1>2 DEF NewJob, NoJob, Job, Stage, MarketType

LEMMA NoJobsType ==
  /\ NoJobs \in [Path -> [OrderKey -> Job]]
  /\ \A p \in Path, o \in OrderKey : NoJobs[p][o].stage = "none"
BY JobTypes DEF NoJobs

\* The delay after a failed attempt.
LEMMA MinOfTwo ==
  ASSUME NEW a \in Nat, NEW b \in Nat
  PROVE  Min({a, b}) = IF a <= b THEN a ELSE b
BY DEF Min

\* A step of one future leaves all others alone.
LEMMA OneJob ==
  ASSUME job \in [Path -> [OrderKey -> Job]], NEW p \in Path, NEW o \in OrderKey,
         NEW j \in Job, job' = [job EXCEPT ![p][o] = j]
  PROVE  /\ job' \in [Path -> [OrderKey -> Job]]
         /\ job'[p][o] = j
         /\ \A q \in Path, x \in OrderKey : q # p \/ x # o => job'[q][x] = job[q][x]
<1>1. /\ job' = [job EXCEPT ![p] = [job[p] EXCEPT ![o] = j]]
      /\ job[p] \in [OrderKey -> Job]
  OBVIOUS
<1>2. /\ job'[p] = [job[p] EXCEPT ![o] = j]
      /\ \A q \in Path : q # p => job'[q] = job[q]
  BY <1>1
<1> QED BY <1>1, <1>2
-----------------------------------------------------------------------------
(* What the steps of a future do.                                          *)

\* get_price has returned a price for the future's own market and second.
Priced(p, o) ==
  /\ job[p][o].stage = "pricing"
  /\ \E price \in get_price(job[p][o].market, job[p][o].timestamp) :
       job' = [job EXCEPT ![p][o] =
                 [job[p][o] EXCEPT !.stage = "sending", !.price = price]]
  /\ UNCHANGED <<active_orders, poll, open_orders, mempool, ledger>>

Sent(p, o) ==
  /\ job[p][o].stage = "sending"
  /\ enclave_signer \in Signer
  /\ job' = [job EXCEPT ![p][o] = Signed(p, o)]
  /\ mempool' = mempool \cup {TxOf(o, Signed(p, o))}
  /\ UNCHANGED <<active_orders, poll, open_orders, ledger>>

\* A future that returns Ok has found its transaction executed.
Returned(p, o) ==
  /\ job[p][o].stage \in {"pricing", "sending", "confirming"}
  /\ \E result \in {"ok", "err"} :
       /\ Return(p, o, result)
       /\ result = "ok" => \E r \in ledger : r.ok /\ r.tx.order = o
  /\ UNCHANGED <<poll, open_orders, mempool, ledger>>

LEMMA FulfillEffect ==
  ASSUME TypeOK, OracleReady, NEW p \in Path, NEW o \in OrderKey,
         FulfillStep(p, o) \/ FulfillFails(p, o)
  PROVE  /\ Priced(p, o) \/ Sent(p, o) \/ Returned(p, o)
         /\ UNCHANGED <<programVars, procVars, streamVars, registrations, strays>>
         /\ faults' \in Nat
<1>0. /\ job \in [Path -> [OrderKey -> Job]] /\ job[p][o] \in Job
      /\ faults \in Nat
  BY DEF TypeOK
<1>1. CASE GetPrice(p, o)
  <2>1. PICK price \in get_price(job[p][o].market, job[p][o].timestamp) :
          job' = [job EXCEPT ![p][o].stage = "sending", ![p][o].price = price]
    BY <1>1 DEF GetPrice, PricedFor
  <2>2. job' = [job EXCEPT ![p][o] =
                  [job[p][o] EXCEPT !.stage = "sending", !.price = price]]
    BY <1>0, <2>1
  <2> QED BY <1>0, <1>1, <2>2 DEF GetPrice, PricedFor, Priced, pollVars, netVars, txVars
<1>2. CASE Send(p, o)
  <2>1. enclave_signer \in Signer
    BY <1>2, SystemAssumption
       DEF Send, Preflight, FulfillOrder, TxOf, Signed, OracleReady, TypeOK
  <2> QED BY <1>0, <1>2, <2>1 DEF Send, Sent, pollVars
<1>3. CASE PreflightFails(p, o)
  BY <1>0, <1>3 DEF PreflightFails, Returned, pollVars, netVars, txVars
<1>4. CASE Confirm(p, o)
  <2>1. PICK r \in ledger : /\ r.tx = TxOf(o, job[p][o])
                            /\ Return(p, o, IF r.ok THEN "ok" ELSE "err")
    BY <1>4 DEF Confirm
  <2>2. r.tx.order = o
    BY <2>1 DEF TxOf
  <2> QED BY <1>0, <1>4, <2>1, <2>2 DEF Confirm, Returned, pollVars, netVars, txVars
<1>5. CASE Expire(p, o)
  BY <1>0, <1>5 DEF Expire, Returned, pollVars, netVars, txVars
<1>6. CASE FulfillFails(p, o)
  BY <1>0, <1>6 DEF FulfillFails, Fault, Returned, pollVars, txVars
<1> QED BY <1>1, <1>2, <1>3, <1>4, <1>5, <1>6 DEF FulfillStep
-----------------------------------------------------------------------------
(* Every step is a step of the program or leaves its accounts alone.       *)

LEMMA ExecuteEffect ==
  ASSUME TypeOK, OracleReady, NEW tx \in mempool, Execute(tx)
  PROVE  /\ tx \in Tx
         /\ mempool' = mempool \ {tx}
         /\ UNCHANGED <<workerVars, registrations, strays, faults>>
         /\ \/ /\ fulfill_order(tx.order, tx.market, tx.price, Payer, tx.signer)
               /\ ledger' = ledger \cup {[tx |-> tx, ok |-> TRUE]}
            \/ /\ UNCHANGED programVars
               /\ ledger' = ledger \cup {[tx |-> tx, ok |-> FALSE]}
BY DEF TypeOK, Execute

LEMMA StepOfProgram ==
  TypeOK /\ OracleReady /\ KeyLoaded /\ [Next]_vars => [ProgramNext]_programVars
<1> SUFFICES ASSUME TypeOK, OracleReady, KeyLoaded, [Next]_vars
             PROVE  [ProgramNext]_programVars
  OBVIOUS
<1>1. CASE Environment
  <2>1. ASSUME NEW a \in Authority \ {Payer}, NEW s \in Signer, OtherOracle(a, s)
        PROVE  ProgramNext
    <3>1. \A o \in OrderKey : orders[o].market \in MarketType
      BY DEF TypeOK, ProgramTypeOK, OrderAccount
    <3> QED BY <2>1, <3>1 DEF OtherOracle, ProgramNext
  <2> QED BY <1>1, <2>1 DEF Environment, ProgramNext
<1>2. CASE Initialization
  BY <1>2 DEF Initialization, Start, InitializeOracleSigner, RegistrationConfirmed,
              RegistrationExpires
<1>3. ASSUME NEW reg \in registrations, ExecuteRegistration(reg) \/ DropRegistration(reg)
      PROVE  [ProgramNext]_programVars
  <2>1. reg.signer \in Signer /\ Payer \in Authority
    BY SystemAssumption DEF TypeOK, Registration
  <2>2. CASE register_oracle(Payer, reg.signer)
    BY <2>1, <2>2 DEF ProgramNext
  <2> QED BY <1>3, <2>2 DEF ExecuteRegistration, DropRegistration
<1>4. CASE Crash
  BY <1>4 DEF Crash
<1>5. CASE fetch_blockhash_and_slot
  BY <1>5 DEF fetch_blockhash_and_slot
<1>6. CASE logs_subscribe
  BY <1>6 DEF logs_subscribe, Subscribe
<1>7. CASE SubscribeFails
  BY <1>7 DEF SubscribeFails
<1>8. CASE Disconnect
  BY <1>8 DEF Disconnect
<1>9. CASE RequestEvent
  BY <1>9 DEF RequestEvent
<1>10. CASE IgnoreEvent
  BY <1>10 DEF IgnoreEvent
<1>11. CASE \E e \in Stray : StrayEvent(e)
  BY <1>11 DEF StrayEvent
<1>12. CASE PollRound
  BY <1>12 DEF PollRound, fetch_open_order_accounts, SpawnFutures, Spawn, JoinAll, Join
<1>14. ASSUME NEW p \in Path, NEW o \in OrderKey, FulfillStep(p, o) \/ FulfillFails(p, o)
       PROVE  UNCHANGED programVars
  BY <1>14, FulfillEffect
<1>15. ASSUME NEW tx \in mempool, Execute(tx)
       PROVE  [ProgramNext]_programVars
  <2>1. /\ tx.order \in OrderKey /\ tx.market \in MarketType
        /\ tx.price \in Price /\ tx.signer \in Signer
    BY <1>15 DEF TypeOK, Tx
  <2>2. CASE fulfill_order(tx.order, tx.market, tx.price, Payer, tx.signer)
    BY <2>1, <2>2, SystemAssumption DEF ProgramNext
  <2> QED BY <1>15, <2>2, ExecuteEffect
<1>16. ASSUME NEW tx \in mempool, Drop(tx)
       PROVE  UNCHANGED programVars
  BY <1>16 DEF Drop
<1>17. CASE UNCHANGED vars
  BY <1>17 DEF vars
<1> QED BY <1>1, <1>2, <1>3, <1>4, <1>5, <1>6, <1>7, <1>8, <1>9, <1>10, <1>11, <1>12,
           <1>14, <1>15, <1>16, <1>17 DEF Next

\* The worker has read a request: an event of the program or a stray one.
Read(o, m, t) ==
  \/ \E i \in DOMAIN logs : /\ logs[i].type = "requested" /\ logs[i].order = o
                            /\ logs[i].market = m /\ logs[i].timestamp = t
  \/ [order |-> o, market |-> m, timestamp |-> t] \in strays'

EventHandled(o, m, t) ==
  /\ Read(o, m, t)
  /\ o \notin active_orders
  /\ active_orders' = active_orders \cup {o}
  /\ job' = [job EXCEPT !["event"][o] = NewJob(m, t)]
  /\ UNCHANGED <<poll, open_orders>>

LEMMA RequestHandled ==
  ASSUME TypeOK, RequestEvent \/ \E e \in Stray : StrayEvent(e)
  PROVE  \E o \in OrderKey, m \in MarketType, t \in Time : EventHandled(o, m, t)
<1>1. CASE RequestEvent
  <2> DEFINE e == logs[cursor]
  <2>1. cursor \in DOMAIN logs /\ e \in Event
    BY <1>1 DEF RequestEvent, NextEvent, Streaming, TypeOK, ProgramTypeOK
  <2>2. e.type = "requested"
    BY <1>1 DEF RequestEvent
  <2>3. e.order \in OrderKey /\ e.market \in MarketType /\ e.timestamp \in Time
    BY <2>1, <2>2 DEF Event, OraclePriceRequestedEvent, OraclePriceFulfilledEvent
  <2>4. EventHandled(e.order, e.market, e.timestamp)
    BY <1>1, <2>1, <2>2 DEF RequestEvent, handle_price_request_event, EventHandled, Read,
                            pollVars
  <2> QED BY <2>3, <2>4
<1>2. ASSUME NEW e \in Stray, StrayEvent(e)
      PROVE  \E o \in OrderKey, m \in MarketType, t \in Time : EventHandled(o, m, t)
  <2>1. /\ e.order \in OrderKey /\ e.market \in MarketType /\ e.timestamp \in Time
        /\ e = [order |-> e.order, market |-> e.market, timestamp |-> e.timestamp]
    BY SystemAssumption
  <2>2. e \in strays'
    BY <1>2 DEF StrayEvent
  <2>3. Read(e.order, e.market, e.timestamp)
    BY <2>1, <2>2 DEF Read
  <2>4. EventHandled(e.order, e.market, e.timestamp)
    BY <1>2, <2>3 DEF StrayEvent, handle_price_request_event, EventHandled, pollVars
  <2> QED BY <2>1, <2>4
<1> QED BY <1>1, <1>2

\* What a step does to the sets and futures both paths share.
LEMMA WorkerEffect ==
  TypeOK /\ OracleReady /\ [Next]_vars =>
    \/ UNCHANGED <<active_orders, poll, open_orders, job>>
    \/ WorkerDown
    \/ \E o \in OrderKey, m \in MarketType, t \in Time : EventHandled(o, m, t)
    \/ fetch_open_order_accounts
    \/ SpawnFutures
    \/ JoinAll
    \/ \E p \in Path, o \in OrderKey : Priced(p, o) \/ Sent(p, o) \/ Returned(p, o)
<1> SUFFICES ASSUME TypeOK, OracleReady, [Next]_vars
             PROVE  \/ UNCHANGED <<active_orders, poll, open_orders, job>>
                    \/ WorkerDown
                    \/ \E o \in OrderKey, m \in MarketType, t \in Time :
                         EventHandled(o, m, t)
                    \/ fetch_open_order_accounts
                    \/ SpawnFutures
                    \/ JoinAll
                    \/ \E p \in Path, o \in OrderKey :
                         Priced(p, o) \/ Sent(p, o) \/ Returned(p, o)
  OBVIOUS
<1>1. CASE Environment
  BY <1>1 DEF Environment, workerVars, pollVars
<1>2. CASE Initialization
  BY <1>2 DEF Initialization, Start, InitializeOracleSigner, RegistrationConfirmed,
              RegistrationExpires, pollVars
<1>3. ASSUME NEW reg \in registrations, ExecuteRegistration(reg) \/ DropRegistration(reg)
      PROVE  UNCHANGED <<active_orders, poll, open_orders, job>>
  BY <1>3 DEF ExecuteRegistration, DropRegistration, workerVars, pollVars
<1>4. CASE Crash
  BY <1>4 DEF Crash
<1>5. CASE fetch_blockhash_and_slot
  BY <1>5 DEF fetch_blockhash_and_slot, pollVars
<1>6. CASE logs_subscribe
  BY <1>6 DEF logs_subscribe, Subscribe, pollVars
<1>7. CASE SubscribeFails
  BY <1>7 DEF SubscribeFails, pollVars
<1>8. CASE Disconnect
  BY <1>8 DEF Disconnect, pollVars
<1>9. CASE IgnoreEvent
  BY <1>9 DEF IgnoreEvent, pollVars
<1>10. ASSUME NEW p \in Path, NEW o \in OrderKey, FulfillStep(p, o) \/ FulfillFails(p, o)
       PROVE  Priced(p, o) \/ Sent(p, o) \/ Returned(p, o)
  BY <1>10, FulfillEffect
<1>11. ASSUME NEW tx \in mempool, Execute(tx) \/ Drop(tx)
       PROVE  UNCHANGED <<active_orders, poll, open_orders, job>>
  BY <1>11 DEF Execute, Drop, workerVars, pollVars
<1>12. CASE UNCHANGED vars
  BY <1>12 DEF vars, workerVars, pollVars
<1> QED BY <1>1, <1>2, <1>3, <1>4, <1>5, <1>6, <1>7, <1>8, <1>9, <1>10, <1>11, <1>12,
           RequestHandled DEF Next, PollRound

\* What a step does to the transactions.
LEMMA NetEffect ==
  TypeOK /\ OracleReady /\ [Next]_vars =>
    \/ UNCHANGED <<mempool, ledger>>
    \/ \E p \in Path, o \in OrderKey : Sent(p, o) /\ UNCHANGED programVars
    \/ \E tx \in mempool : Execute(tx)
    \/ \E tx \in mempool : mempool' = mempool \ {tx} /\ UNCHANGED <<ledger, programVars>>
<1> SUFFICES ASSUME TypeOK, OracleReady, [Next]_vars
             PROVE  \/ UNCHANGED <<mempool, ledger>>
                    \/ \E p \in Path, o \in OrderKey : Sent(p, o) /\ UNCHANGED programVars
                    \/ \E tx \in mempool : Execute(tx)
                    \/ \E tx \in mempool :
                         mempool' = mempool \ {tx} /\ UNCHANGED <<ledger, programVars>>
  OBVIOUS
<1>1. CASE Environment
  BY <1>1 DEF Environment, netVars, txVars
<1>2. CASE Initialization
  BY <1>2 DEF Initialization, Start, InitializeOracleSigner, RegistrationConfirmed,
              RegistrationExpires, netVars, txVars
<1>3. ASSUME NEW reg \in registrations, ExecuteRegistration(reg) \/ DropRegistration(reg)
      PROVE  UNCHANGED <<mempool, ledger>>
  BY <1>3 DEF ExecuteRegistration, DropRegistration
<1>4. CASE Crash \/ fetch_blockhash_and_slot
  BY <1>4 DEF Crash, fetch_blockhash_and_slot, netVars, txVars
<1>5. CASE logs_subscribe \/ SubscribeFails \/ Disconnect
  BY <1>5 DEF logs_subscribe, Subscribe, SubscribeFails, Disconnect, netVars, txVars
<1>6. CASE RequestEvent \/ IgnoreEvent \/ \E e \in Stray : StrayEvent(e)
  BY <1>6 DEF RequestEvent, IgnoreEvent, StrayEvent, netVars, txVars
<1>7. CASE PollRound
  BY <1>7 DEF PollRound, fetch_open_order_accounts, SpawnFutures, Spawn, JoinAll, Join,
              netVars, txVars
<1>8. ASSUME NEW p \in Path, NEW o \in OrderKey, FulfillStep(p, o) \/ FulfillFails(p, o)
      PROVE  UNCHANGED <<mempool, ledger>> \/ (Sent(p, o) /\ UNCHANGED programVars)
  BY <1>8, FulfillEffect DEF Priced, Returned
<1>9. ASSUME NEW tx \in mempool, Drop(tx)
      PROVE  mempool' = mempool \ {tx} /\ UNCHANGED <<ledger, programVars>>
  BY <1>9 DEF Drop
<1>10. CASE UNCHANGED vars
  BY <1>10 DEF vars, netVars, txVars
<1> QED BY <1>1, <1>2, <1>3, <1>4, <1>5, <1>6, <1>7, <1>8, <1>9, <1>10 DEF Next
-----------------------------------------------------------------------------
(* Typing.                                                                 *)

LEMMA SystemTypeInit == Init => TypeOK /\ KeyLoaded /\ BackoffDoubles
<1> SUFFICES ASSUME Init PROVE TypeOK /\ KeyLoaded /\ BackoffDoubles
  OBVIOUS
<1>1. ProgramTypeOK
  BY TypeInit DEF Init
<1>2. 0 \in Time
  BY ProgramAssumption DEF Time
<1>3. reconnect \in [retry_count : 0 .. max_retries - 1, delay : Nat]
  BY DEF Init, FirstTry, max_retries
<1>4. BackoffDoubles
  BY DEF Init, FirstTry, BackoffDoubles
<1> QED BY <1>1, <1>2, <1>3, <1>4, NoJobsType DEF Init, TypeOK, KeyLoaded

\* The process and its connection.
LEMMA ProcessStep ==
  ASSUME TypeOK, OracleReady, KeyLoaded, [Next]_vars
  PROVE  /\ phase' \in {"down", "initializing", "registering", "registered", "ready"}
         /\ enclave_signer' \in Signer \cup {NoKey}
         /\ register_blockhash' \in Time
         /\ recent_blockhash' \in Time
         /\ cursor' \in Nat
         /\ faults' \in Nat
         /\ KeyLoaded'
<1> DEFINE Typed == /\ phase' \in {"down", "initializing", "registering",
                                    "registered", "ready"}
                    /\ enclave_signer' \in Signer \cup {NoKey}
                    /\ register_blockhash' \in Time
                    /\ recent_blockhash' \in Time
                    /\ cursor' \in Nat
                    /\ faults' \in Nat
                    /\ KeyLoaded'
<1>0. /\ phase \in {"down", "initializing", "registering", "registered", "ready"}
      /\ enclave_signer \in Signer \cup {NoKey}
      /\ register_blockhash \in Time
      /\ recent_blockhash \in Time /\ slot \in Time /\ 0 \in Time
      /\ cursor \in Nat /\ faults \in Nat /\ Len(logs) \in Nat
  BY ProgramAssumption DEF TypeOK, ProgramTypeOK, Time
<1>1. ASSUME UNCHANGED <<procVars, cursor>>, faults' \in Nat
      PROVE  Typed
  BY <1>0, <1>1 DEF KeyLoaded, procVars
<1>2. CASE Environment
  BY <1>0, <1>1, <1>2 DEF Environment, workerVars, procVars, streamVars, netVars
<1>3. ASSUME NEW s \in Signer, Start(s)
      PROVE  Typed
  BY <1>0, <1>3 DEF Start, streamVars, netVars, KeyLoaded
<1>4. CASE InitializeOracleSigner
  BY <1>0, <1>4 DEF InitializeOracleSigner, streamVars, KeyLoaded
<1>5. ASSUME WorkerDown, faults' \in Nat
      PROVE  Typed
  BY <1>0, <1>5 DEF WorkerDown, KeyLoaded
<1>6. CASE Crash
  BY <1>0, <1>5, <1>6 DEF Crash, Fault
<1>7. CASE fetch_blockhash_and_slot
  BY <1>0, <1>7 DEF fetch_blockhash_and_slot, streamVars, netVars, KeyLoaded
<1>8. CASE logs_subscribe
  BY <1>0, <1>8 DEF logs_subscribe, Subscribe, procVars, netVars, KeyLoaded
<1>16. CASE RegistrationConfirmed
  BY <1>0, <1>16 DEF RegistrationConfirmed, streamVars, netVars, KeyLoaded
<1>17. CASE RegistrationExpires
  BY <1>0, <1>5, <1>17 DEF RegistrationExpires, netVars
<1>18. ASSUME NEW reg \in registrations, ExecuteRegistration(reg) \/ DropRegistration(reg)
       PROVE  Typed
  BY <1>0, <1>18 DEF ExecuteRegistration, DropRegistration, Fault, workerVars, procVars,
                     streamVars, KeyLoaded
<1>9. CASE SubscribeFails
  <2>1. faults' \in Nat
    BY <1>0, <1>9 DEF SubscribeFails, Fault
  <2> QED BY <1>1, <1>5, <1>9, <2>1 DEF SubscribeFails, procVars
<1>10. CASE Disconnect
  BY <1>0, <1>10 DEF Disconnect, Fault, procVars, KeyLoaded
<1>11. CASE RequestEvent \/ IgnoreEvent
  BY <1>0, <1>11 DEF RequestEvent, IgnoreEvent, NextEvent, procVars, netVars, KeyLoaded
<1>19. ASSUME NEW e \in Stray, StrayEvent(e)
       PROVE  Typed
  BY <1>0, <1>1, <1>19 DEF StrayEvent, Fault, streamVars
<1>12. CASE PollRound
  BY <1>0, <1>1, <1>12 DEF PollRound, fetch_open_order_accounts, SpawnFutures, Spawn,
                           JoinAll, Join, streamVars, netVars
<1>13. ASSUME NEW p \in Path, NEW o \in OrderKey, FulfillStep(p, o) \/ FulfillFails(p, o)
       PROVE  Typed
  BY <1>1, <1>13, FulfillEffect DEF procVars, streamVars
<1>14. ASSUME NEW tx \in mempool, Execute(tx) \/ Drop(tx)
       PROVE  Typed
  BY <1>0, <1>1, <1>14 DEF Execute, Drop, Fault, workerVars, procVars, streamVars
<1>15. CASE UNCHANGED vars
  BY <1>0, <1>1, <1>15 DEF vars, workerVars, procVars, streamVars, netVars
<1> QED BY <1>2, <1>3, <1>4, <1>6, <1>7, <1>8, <1>9, <1>10, <1>11, <1>12, <1>13, <1>14,
           <1>15, <1>16, <1>17, <1>18, <1>19 DEF Next, Initialization

\* The registrations under way and the stray requests read.
LEMMA RegistrationStep ==
  ASSUME TypeOK, OracleReady, KeyLoaded, [Next]_vars
  PROVE  /\ registrations' \in SUBSET Registration
         /\ strays' \in SUBSET Stray
         /\ strays \subseteq strays'
<1> DEFINE Typed == /\ registrations' \in SUBSET Registration
                    /\ strays' \in SUBSET Stray
                    /\ strays \subseteq strays'
<1>0. registrations \in SUBSET Registration /\ strays \in SUBSET Stray
  BY DEF TypeOK
<1>1. ASSUME registrations' \subseteq registrations, UNCHANGED strays
      PROVE  Typed
  BY <1>0, <1>1
<1>2. CASE Environment
  BY <1>1, <1>2 DEF Environment, netVars, txVars
<1>3. CASE InitializeOracleSigner
  <2>1. [signer |-> enclave_signer, blockhash |-> slot] \in Registration
    BY <1>3 DEF InitializeOracleSigner, KeyLoaded, Registration, TypeOK, ProgramTypeOK
  <2> QED BY <1>0, <1>3, <2>1 DEF InitializeOracleSigner
<1>4. CASE (\E s \in Signer : Start(s)) \/ RegistrationConfirmed \/ RegistrationExpires
  BY <1>1, <1>4 DEF Start, RegistrationConfirmed, RegistrationExpires, netVars, txVars
<1>5. ASSUME NEW reg \in registrations, ExecuteRegistration(reg) \/ DropRegistration(reg)
      PROVE  Typed
  BY <1>1, <1>5 DEF ExecuteRegistration, DropRegistration
<1>6. CASE Crash \/ fetch_blockhash_and_slot
  BY <1>1, <1>6 DEF Crash, fetch_blockhash_and_slot, netVars, txVars
<1>7. CASE logs_subscribe \/ SubscribeFails \/ Disconnect
  BY <1>1, <1>7 DEF logs_subscribe, Subscribe, SubscribeFails, Disconnect, netVars, txVars
<1>8. CASE RequestEvent \/ IgnoreEvent
  BY <1>1, <1>8 DEF RequestEvent, IgnoreEvent, netVars, txVars
<1>9. ASSUME NEW e \in Stray, StrayEvent(e)
      PROVE  Typed
  BY <1>0, <1>9 DEF StrayEvent
<1>10. CASE PollRound
  BY <1>1, <1>10 DEF PollRound, fetch_open_order_accounts, SpawnFutures, Spawn, JoinAll,
                     Join, netVars, txVars
<1>11. ASSUME NEW p \in Path, NEW o \in OrderKey, FulfillStep(p, o) \/ FulfillFails(p, o)
       PROVE  Typed
  BY <1>1, <1>11, FulfillEffect
<1>12. ASSUME NEW tx \in mempool, Execute(tx) \/ Drop(tx)
       PROVE  Typed
  BY <1>1, <1>12 DEF Execute, Drop
<1>13. CASE UNCHANGED vars
  BY <1>1, <1>13 DEF vars, netVars, txVars
<1> QED BY <1>2, <1>3, <1>4, <1>5, <1>6, <1>7, <1>8, <1>9, <1>10, <1>11, <1>12, <1>13
        DEF Next, Initialization

\* Counter and delay of watch_anchor_events.
LEMMA ReconnectStep ==
  ASSUME TypeOK, OracleReady, [Next]_vars
  PROVE  /\ reconnect' \in [retry_count : 0 .. max_retries - 1, delay : Nat]
         /\ BackoffDoubles => BackoffDoubles'
<1> DEFINE Counted == /\ reconnect' \in [retry_count : 0 .. max_retries - 1, delay : Nat]
                      /\ BackoffDoubles => BackoffDoubles'
<1>1. reconnect \in [retry_count : 0 .. max_retries - 1, delay : Nat] /\ max_retries = 3
  BY DEF TypeOK, max_retries
<1>2. ASSUME UNCHANGED reconnect
      PROVE  Counted
  BY <1>1, <1>2 DEF BackoffDoubles
<1>3. ASSUME reconnect' = FirstTry
      PROVE  Counted
  BY <1>1, <1>3 DEF FirstTry, BackoffDoubles
<1>4. CASE SubscribeFails
  <2>1. CASE reconnect' = [retry_count |-> reconnect.retry_count + 1,
                           delay |-> Min({2 * reconnect.delay, 5000})]
             /\ reconnect.retry_count + 1 < max_retries
    <3>1. /\ reconnect.retry_count \in 0 .. 1
          /\ reconnect.delay \in Nat
          /\ reconnect'.retry_count = reconnect.retry_count + 1
          /\ reconnect'.delay =
               IF 2 * reconnect.delay <= 5000 THEN 2 * reconnect.delay ELSE 5000
      BY <1>1, <2>1, MinOfTwo
    <3>2. reconnect' \in [retry_count : 0 .. max_retries - 1, delay : Nat]
      BY <1>1, <2>1, <3>1
    <3>3. 2 ^ 0 = 1 /\ 2 ^ 1 = 2 /\ 2 ^ 2 = 4
      OBVIOUS
    <3>4. CASE reconnect.retry_count = 0
      BY <3>1, <3>2, <3>3, <3>4 DEF BackoffDoubles
    <3>5. CASE reconnect.retry_count = 1
      BY <3>1, <3>2, <3>3, <3>5 DEF BackoffDoubles
    <3> QED BY <3>1, <3>4, <3>5
  <2> QED BY <1>3, <1>4, <2>1 DEF SubscribeFails, WorkerDown
<1>5. CASE Environment
  BY <1>2, <1>5 DEF Environment, workerVars, streamVars
<1>6. CASE Initialization
  BY <1>2, <1>3, <1>6 DEF Initialization, Start, InitializeOracleSigner,
       RegistrationConfirmed, RegistrationExpires, WorkerDown, streamVars
<1>7. CASE fetch_blockhash_and_slot
  BY <1>2, <1>7 DEF fetch_blockhash_and_slot, streamVars
<1>16. ASSUME NEW reg \in registrations, ExecuteRegistration(reg) \/ DropRegistration(reg)
       PROVE  Counted
  BY <1>2, <1>16 DEF ExecuteRegistration, DropRegistration, workerVars, streamVars
<1>8. CASE Crash
  BY <1>3, <1>8 DEF Crash, WorkerDown
<1>9. CASE logs_subscribe
  BY <1>3, <1>9 DEF logs_subscribe, Subscribe
<1>10. CASE Disconnect
  BY <1>2, <1>10 DEF Disconnect
<1>11. CASE RequestEvent \/ IgnoreEvent \/ \E e \in Stray : StrayEvent(e)
  BY <1>2, <1>11 DEF RequestEvent, IgnoreEvent, NextEvent, StrayEvent, streamVars
<1>12. CASE PollRound
  BY <1>2, <1>12 DEF PollRound, fetch_open_order_accounts, SpawnFutures, Spawn, JoinAll,
                     Join, streamVars
<1>13. ASSUME NEW p \in Path, NEW o \in OrderKey, FulfillStep(p, o) \/ FulfillFails(p, o)
       PROVE  Counted
  BY <1>2, <1>13, FulfillEffect DEF streamVars
<1>14. ASSUME NEW tx \in mempool, Execute(tx) \/ Drop(tx)
       PROVE  Counted
  BY <1>2, <1>14 DEF Execute, Drop, workerVars, streamVars
<1>15. CASE UNCHANGED vars
  BY <1>2, <1>15 DEF vars, workerVars, streamVars
<1> QED BY <1>4, <1>5, <1>6, <1>7, <1>8, <1>9, <1>10, <1>11, <1>12, <1>13, <1>14, <1>15,
           <1>16 DEF Next

\* The steps of the two paths, order by order.
LEMMA EventEffect ==
  ASSUME TypeOK, NEW o \in OrderKey, NEW m \in MarketType, NEW t \in Time,
         EventHandled(o, m, t)
  PROVE  /\ job' \in [Path -> [OrderKey -> Job]]
         /\ job'["event"][o] = NewJob(m, t)
         /\ job'["event"][o].stage = "pricing"
         /\ \A q \in Path, x \in OrderKey :
              q # "event" \/ x # o => job'[q][x] = job[q][x]
<1>1. job \in [Path -> [OrderKey -> Job]] /\ "event" \in Path
  BY DEF TypeOK, Path
<1>2. NewJob(m, t) \in Job /\ NewJob(m, t).stage = "pricing"
  BY JobTypes
<1> QED BY <1>1, <1>2, OneJob DEF EventHandled

LEMMA SpawnEffect ==
  ASSUME TypeOK, SpawnFutures
  PROVE  LET new == {r \in open_orders : r.order \notin active_orders} IN
           /\ poll = "fetched" /\ poll' = "joining" /\ open_orders' = {}
           /\ active_orders' = active_orders \cup {r.order : r \in new}
           /\ job' \in [Path -> [OrderKey -> Job]]
           /\ \A x \in OrderKey :
                /\ job'["event"][x] = job["event"][x]
                /\ \/ job'["poll"][x] = NoJob /\ \A r \in new : r.order # x
                   \/ \E r \in new : /\ r.order = x
                                     /\ try_from(r.market_name) \in MarketType
                                     /\ r.open_timestamp \in Time
                                     /\ job'["poll"][x] = NewJob(try_from(r.market_name),
                                                                 r.open_timestamp)
<1> DEFINE new == {r \in open_orders : r.order \notin active_orders}
           started == [o \in OrderKey |->
                         IF \E r \in new : r.order = o
                         THEN LET r == CHOOSE r \in new : r.order = o
                              IN NewJob(try_from(r.market_name), r.open_timestamp)
                         ELSE NoJob]
<1>1. /\ poll = "fetched" /\ poll' = "joining" /\ open_orders' = {}
      /\ active_orders' = active_orders \cup {r.order : r \in new}
      /\ job' = [job EXCEPT !["poll"] = started]
  BY DEF SpawnFutures, Spawn
<1>2. job \in [Path -> [OrderKey -> Job]] /\ Path = {"event", "poll"}
  BY DEF TypeOK, Path
<1>3. ASSUME NEW r \in new
      PROVE  /\ try_from(r.market_name) \in MarketType
             /\ r.open_timestamp \in Time
             /\ NewJob(try_from(r.market_name), r.open_timestamp) \in Job
  <2>1. r.market_name \in MarketBytes /\ r.open_timestamp \in Time
    BY DEF TypeOK, OpenOrder
  <2>2. try_from(r.market_name) \in MarketType
    BY <2>1, MarketBytesDecode DEF MarketBytes
  <2> QED BY <2>1, <2>2, JobTypes
<1>4. ASSUME NEW x \in OrderKey
      PROVE  /\ started[x] \in Job
             /\ \/ started[x] = NoJob /\ \A r \in new : r.order # x
                \/ \E r \in new : /\ r.order = x
                                  /\ try_from(r.market_name) \in MarketType
                                  /\ r.open_timestamp \in Time
                                  /\ started[x] = NewJob(try_from(r.market_name),
                                                         r.open_timestamp)
  <2>1. CASE \E r \in new : r.order = x
    <3> DEFINE r == CHOOSE r \in new : r.order = x
    <3>1. r \in new /\ r.order = x
      BY <2>1
    <3>2. started[x] = NewJob(try_from(r.market_name), r.open_timestamp)
      BY <2>1
    <3> HIDE DEF r, started
    <3> QED BY <1>3, <3>1, <3>2
  <2>2. CASE ~ \E r \in new : r.order = x
    BY <2>2, JobTypes
  <2> QED BY <2>1, <2>2
<1>5. started \in [OrderKey -> Job]
  <2>1. started = [x \in OrderKey |-> started[x]]
    OBVIOUS
  <2> HIDE DEF started
  <2> QED BY <1>4, <2>1
<1> HIDE DEF started
<1>6. /\ job' \in [Path -> [OrderKey -> Job]]
      /\ job'["event"] = job["event"] /\ job'["poll"] = started
  BY <1>1, <1>2, <1>5
<1> QED BY <1>1, <1>4, <1>6

LEMMA JoinEffect ==
  ASSUME TypeOK, JoinAll
  PROVE  LET failed == {o \in OrderKey : job["poll"][o].stage = "err"} IN
           /\ poll' = "idle" /\ UNCHANGED open_orders
           /\ active_orders' = active_orders \ failed
           /\ job' \in [Path -> [OrderKey -> Job]]
           /\ \A x \in OrderKey :
                /\ job["poll"][x].stage \in {"none", "ok", "err"}
                /\ job'["poll"][x] = NoJob
                /\ job'["event"][x] = job["event"][x]
<1>1. job \in [Path -> [OrderKey -> Job]] /\ Path = {"event", "poll"}
  BY DEF TypeOK, Path
<1>2. job' = [job EXCEPT !["poll"] = [o \in OrderKey |-> NoJob]]
  BY DEF JoinAll, Join
<1>3. [o \in OrderKey |-> NoJob] \in [OrderKey -> Job]
  BY JobTypes
<1>4. /\ job' \in [Path -> [OrderKey -> Job]]
      /\ job'["event"] = job["event"] /\ job'["poll"] = [o \in OrderKey |-> NoJob]
  BY <1>1, <1>2, <1>3
<1> QED BY <1>4 DEF JoinAll, Join

LEMMA PricedEffect ==
  ASSUME TypeOK, NEW p \in Path, NEW o \in OrderKey, Priced(p, o)
  PROVE  /\ job' \in [Path -> [OrderKey -> Job]]
         /\ job[p][o].stage = "pricing" /\ job'[p][o].stage = "sending"
         /\ job'[p][o].market = job[p][o].market
         /\ job'[p][o].timestamp = job[p][o].timestamp
         /\ job'[p][o].price \in get_price(job[p][o].market, job[p][o].timestamp)
         /\ \A q \in Path, x \in OrderKey : q # p \/ x # o => job'[q][x] = job[q][x]
<1>1. job \in [Path -> [OrderKey -> Job]] /\ job[p][o] \in Job
  BY DEF TypeOK
<1>2. PICK price \in get_price(job[p][o].market, job[p][o].timestamp) :
        job' = [job EXCEPT ![p][o] =
                  [job[p][o] EXCEPT !.stage = "sending", !.price = price]]
  BY DEF Priced
<1> DEFINE j == [job[p][o] EXCEPT !.stage = "sending", !.price = price]
<1>3. job[p][o].market \in MarketType /\ job[p][o].timestamp \in Time
  BY <1>1 DEF Job
<1>4. price \in Price
  BY <1>3, GetPriceType
<1>5. /\ j \in Job /\ j.stage = "sending" /\ j.price = price
      /\ j.market = job[p][o].market /\ j.timestamp = job[p][o].timestamp
  BY <1>1, <1>4 DEF Job, Stage
<1>6. /\ job' \in [Path -> [OrderKey -> Job]] /\ job'[p][o] = j
      /\ \A q \in Path, x \in OrderKey : q # p \/ x # o => job'[q][x] = job[q][x]
  <2> HIDE DEF j
  <2>1. j \in Job /\ job' = [job EXCEPT ![p][o] = j]
    BY <1>2, <1>5 DEF j
  <2> QED BY ONLY <1>1, <2>1, OneJob
<1> QED BY <1>5, <1>6 DEF Priced

LEMMA SentEffect ==
  ASSUME TypeOK, NEW p \in Path, NEW o \in OrderKey, Sent(p, o),
         job[p][o].price \in Price
  PROVE  /\ job' \in [Path -> [OrderKey -> Job]]
         /\ job[p][o].stage = "sending" /\ job'[p][o].stage = "confirming"
         /\ job'[p][o].market = job[p][o].market
         /\ job'[p][o].timestamp = job[p][o].timestamp
         /\ job'[p][o].price = job[p][o].price
         /\ \A q \in Path, x \in OrderKey : q # p \/ x # o => job'[q][x] = job[q][x]
         /\ TxOf(o, Signed(p, o)) \in Tx
         /\ TxOf(o, Signed(p, o)).order = o
         /\ TxOf(o, Signed(p, o)).price = job[p][o].price
         /\ TxOf(o, Signed(p, o)).market = job[p][o].market
<1>1. /\ job \in [Path -> [OrderKey -> Job]] /\ job[p][o] \in Job
      /\ enclave_signer \in Signer /\ recent_blockhash \in Time
  BY DEF TypeOK, Sent
<1> DEFINE j == Signed(p, o)
<1>2. /\ j \in Job /\ j.stage = "confirming" /\ j.price = job[p][o].price
      /\ j.market = job[p][o].market /\ j.timestamp = job[p][o].timestamp
      /\ j.signer = enclave_signer /\ j.blockhash = recent_blockhash
  BY <1>1 DEF Signed, Job, Stage
<1>3. job' = [job EXCEPT ![p][o] = j]
  BY DEF Sent
<1> HIDE DEF j
<1>4. /\ job' \in [Path -> [OrderKey -> Job]] /\ job'[p][o] = j
      /\ \A q \in Path, x \in OrderKey : q # p \/ x # o => job'[q][x] = job[q][x]
  BY <1>1, <1>2, <1>3, OneJob
<1>5. /\ TxOf(o, j) \in Tx /\ TxOf(o, j).order = o
      /\ TxOf(o, j).price = job[p][o].price /\ TxOf(o, j).market = job[p][o].market
  BY <1>1, <1>2 DEF TxOf, Tx, Job
<1> QED BY <1>2, <1>4, <1>5 DEF Sent, j

LEMMA ReturnedEffect ==
  ASSUME TypeOK, NEW p \in Path, NEW o \in OrderKey, Returned(p, o)
  PROVE  \E result \in {"ok", "err"} :
           /\ result = "ok" => \E r \in ledger : r.ok /\ r.tx.order = o
           /\ job' \in [Path -> [OrderKey -> Job]]
           /\ job[p][o].stage \in {"pricing", "sending", "confirming"}
           /\ job'[p][o].stage = IF p = "event" THEN "none" ELSE result
           /\ \A q \in Path, x \in OrderKey : q # p \/ x # o => job'[q][x] = job[q][x]
           /\ active_orders' = IF p = "event" /\ result = "err"
                               THEN active_orders \ {o} ELSE active_orders
<1>1. job \in [Path -> [OrderKey -> Job]]
  BY DEF TypeOK
<1>2. PICK result \in {"ok", "err"} :
        /\ Return(p, o, result)
        /\ result = "ok" => \E r \in ledger : r.ok /\ r.tx.order = o
  BY DEF Returned
<1> DEFINE j == IF p = "event" THEN NoJob ELSE [NoJob EXCEPT !.stage = result]
<1>3. j \in Job /\ j.stage = IF p = "event" THEN "none" ELSE result
  BY JobTypes DEF Stage
<1>4. job' = [job EXCEPT ![p][o] = j]
  BY <1>2 DEF Return, Resolve
<1> HIDE DEF j
<1>5. /\ job' \in [Path -> [OrderKey -> Job]] /\ job'[p][o] = j
      /\ \A q \in Path, x \in OrderKey : q # p \/ x # o => job'[q][x] = job[q][x]
  BY <1>1, <1>3, <1>4, OneJob
<1> QED BY <1>2, <1>3, <1>5 DEF Return, Returned

\* The sets and futures of the worker.
LEMMA WorkerTypeStep ==
  ASSUME TypeOK, OracleReady, JobsPriced, [Next]_vars
  PROVE  /\ active_orders' \in SUBSET OrderKey
         /\ poll' \in {"idle", "fetched", "joining"}
         /\ open_orders' \in SUBSET OpenOrder
         /\ job' \in [Path -> [OrderKey -> Job]]
         /\ JobsPriced'
<1> DEFINE Typed == /\ active_orders' \in SUBSET OrderKey
                    /\ poll' \in {"idle", "fetched", "joining"}
                    /\ open_orders' \in SUBSET OpenOrder
                    /\ job' \in [Path -> [OrderKey -> Job]]
                    /\ JobsPriced'
<1>0. /\ active_orders \in SUBSET OrderKey
      /\ poll \in {"idle", "fetched", "joining"}
      /\ open_orders \in SUBSET OpenOrder
      /\ job \in [Path -> [OrderKey -> Job]]
      /\ \A p \in Path, o \in OrderKey :
           job[p][o].stage \in {"sending", "confirming"} => job[p][o].price \in Price
  BY DEF TypeOK, JobsPriced
<1>1. CASE UNCHANGED <<active_orders, poll, open_orders, job>>
  BY <1>0, <1>1 DEF JobsPriced
<1>2. CASE WorkerDown
  BY <1>2, NoJobsType DEF WorkerDown, JobsPriced
<1>3. ASSUME NEW o \in OrderKey, NEW m \in MarketType, NEW t \in Time,
             EventHandled(o, m, t)
      PROVE  Typed
  <2>1. JobsPriced'
    BY <1>0, <1>3, EventEffect DEF JobsPriced
  <2> QED BY <1>0, <1>3, <2>1, EventEffect DEF EventHandled
<1>4. CASE fetch_open_order_accounts
  <2>1. \A o \in OrderKey : [order |-> o, market_name |-> orders[o].market_name,
                             open_timestamp |-> orders[o].open_timestamp] \in OpenOrder
    BY DEF TypeOK, ProgramTypeOK, OrderAccount, OpenOrder
  <2>2. open_orders' \in SUBSET OpenOrder
    BY <1>4, <2>1 DEF fetch_open_order_accounts
  <2> QED BY <1>0, <1>4, <2>2 DEF fetch_open_order_accounts, JobsPriced
<1>5. CASE SpawnFutures
  <2>1. \A r \in open_orders : r.order \in OrderKey
    BY DEF TypeOK, OpenOrder
  <2>2. \A x \in OrderKey : /\ job'["event"][x] = job["event"][x]
                            /\ job'["poll"][x].stage \in {"none", "pricing"}
    BY <1>5, SpawnEffect, JobTypes
  <2>3. JobsPriced'
    BY <1>0, <2>2 DEF JobsPriced, Path
  <2> QED BY <1>0, <1>5, <2>1, <2>3, SpawnEffect
<1>6. CASE JoinAll
  <2>1. JobsPriced'
    BY <1>0, <1>6, JoinEffect, JobTypes DEF JobsPriced, Path
  <2> QED BY <1>0, <1>6, <2>1, JoinEffect
<1>7. ASSUME NEW p \in Path, NEW o \in OrderKey, Priced(p, o)
      PROVE  Typed
  <2>1. job[p][o].market \in MarketType /\ job[p][o].timestamp \in Time
    BY <1>0 DEF Job
  <2>2. job'[p][o].price \in Price
    BY <1>7, <2>1, PricedEffect, GetPriceType
  <2>3. JobsPriced'
    BY <1>0, <1>7, <2>2, PricedEffect DEF JobsPriced
  <2> QED BY <1>0, <1>7, <2>3, PricedEffect DEF Priced
<1>8. ASSUME NEW p \in Path, NEW o \in OrderKey, Sent(p, o)
      PROVE  Typed
  <2>1. job[p][o].price \in Price
    BY <1>0, <1>8 DEF Sent
  <2>2. JobsPriced'
    BY <1>0, <1>8, <2>1, SentEffect DEF JobsPriced
  <2> QED BY <1>0, <1>8, <2>1, <2>2, SentEffect DEF Sent
<1>9. ASSUME NEW p \in Path, NEW o \in OrderKey, Returned(p, o)
      PROVE  Typed
  <2>1. PICK result \in {"ok", "err"} :
           /\ job' \in [Path -> [OrderKey -> Job]]
           /\ job'[p][o].stage = IF p = "event" THEN "none" ELSE result
           /\ \A q \in Path, x \in OrderKey : q # p \/ x # o => job'[q][x] = job[q][x]
           /\ active_orders' = IF p = "event" /\ result = "err"
                               THEN active_orders \ {o} ELSE active_orders
    BY <1>9, ReturnedEffect
  <2>2. JobsPriced'
    BY <1>0, <2>1 DEF JobsPriced
  <2> QED BY <1>0, <1>9, <2>1, <2>2 DEF Returned
<1> QED BY <1>1, <1>2, <1>3, <1>4, <1>5, <1>6, <1>7, <1>8, <1>9, WorkerEffect

\* The transactions.
LEMMA NetTypeStep ==
  ASSUME TypeOK, OracleReady, JobsPriced, [Next]_vars
  PROVE  mempool' \in SUBSET Tx /\ ledger' \in SUBSET [tx : Tx, ok : BOOLEAN]
<1>0. mempool \in SUBSET Tx /\ ledger \in SUBSET [tx : Tx, ok : BOOLEAN]
  BY DEF TypeOK
<1>1. ASSUME NEW p \in Path, NEW o \in OrderKey, Sent(p, o)
      PROVE  mempool' \in SUBSET Tx /\ ledger' \in SUBSET [tx : Tx, ok : BOOLEAN]
  <2>1. job[p][o].price \in Price
    BY <1>1 DEF Sent, JobsPriced
  <2>2. TxOf(o, Signed(p, o)) \in Tx
    BY <1>1, <2>1, SentEffect
  <2> QED BY <1>0, <1>1, <2>2 DEF Sent
<1>2. ASSUME NEW tx \in mempool, Execute(tx)
      PROVE  mempool' \in SUBSET Tx /\ ledger' \in SUBSET [tx : Tx, ok : BOOLEAN]
  <2>1. \A ok \in BOOLEAN : [tx |-> tx, ok |-> ok] \in [tx : Tx, ok : BOOLEAN]
    BY <1>0
  <2> QED BY <1>0, <1>2, <2>1, ExecuteEffect
<1> QED BY <1>0, <1>1, <1>2, NetEffect

LEMMA SystemTypeStep ==
  ASSUME TypeOK, OpenedInThePast, OracleReady, KeyLoaded, JobsPriced, [Next]_vars
  PROVE  TypeOK' /\ KeyLoaded' /\ JobsPriced'
<1>1. ProgramTypeOK'
  <2>1. ProgramTypeOK
    BY DEF TypeOK
  <2> QED BY <2>1, StepOfProgram, TypeStep
<1> QED BY <1>1, ProcessStep, RegistrationStep, ReconnectStep, WorkerTypeStep, NetTypeStep
       DEF TypeOK
-----------------------------------------------------------------------------
(* One future at a time.                                                   *)

LEMMA SingleFlightStep ==
  ASSUME TypeOK, OracleReady, JobsPriced, SingleFlight, [Next]_vars
  PROVE  SingleFlight'
<1> SUFFICES ASSUME NEW x \in OrderKey
             PROVE  /\ HasJob("event", x)' => ~HasJob("poll", x)' /\ x \in active_orders'
                    /\ HasJob("poll", x)' => x \in active_orders'
  BY DEF SingleFlight
<1>0. /\ HasJob("event", x) => ~HasJob("poll", x) /\ x \in active_orders
      /\ HasJob("poll", x) => x \in active_orders
      /\ "event" \in Path /\ "poll" \in Path /\ "event" # "poll"
  BY DEF SingleFlight, Path
<1>1. CASE UNCHANGED <<active_orders, poll, open_orders, job>>
  BY <1>0, <1>1 DEF HasJob
<1>2. CASE WorkerDown
  BY <1>0, <1>2, NoJobsType DEF WorkerDown, HasJob
<1>3. ASSUME NEW o \in OrderKey, NEW m \in MarketType, NEW t \in Time,
             EventHandled(o, m, t)
      PROVE  /\ HasJob("event", x)' => ~HasJob("poll", x)' /\ x \in active_orders'
             /\ HasJob("poll", x)' => x \in active_orders'
  BY <1>0, <1>3, EventEffect DEF EventHandled, HasJob
<1>4. CASE fetch_open_order_accounts
  BY <1>0, <1>4 DEF fetch_open_order_accounts, HasJob
<1>5. CASE SpawnFutures
  <2>1. /\ active_orders \subseteq active_orders'
        /\ job'["event"][x] = job["event"][x]
        /\ job'["poll"][x].stage = "none" \/ (x \notin active_orders /\ x \in active_orders')
    BY <1>5, SpawnEffect, JobTypes
  <2> QED BY <1>0, <2>1 DEF HasJob
<1>6. CASE JoinAll
  <2>1. /\ job'["event"][x] = job["event"][x]
        /\ job'["poll"][x].stage = "none"
        /\ active_orders' = active_orders \ {o \in OrderKey : job["poll"][o].stage = "err"}
    BY <1>6, JoinEffect, JobTypes
  <2> QED BY <1>0, <2>1 DEF HasJob
<1>7. ASSUME NEW p \in Path, NEW o \in OrderKey, Priced(p, o)
      PROVE  /\ UNCHANGED active_orders
             /\ HasJob("event", x)' = HasJob("event", x)
             /\ HasJob("poll", x)' = HasJob("poll", x)
  <2>1. \A q \in Path : HasJob(q, x)' = HasJob(q, x)
    BY <1>7, PricedEffect DEF HasJob
  <2> QED BY <1>0, <1>7, <2>1 DEF Priced
<1>8. ASSUME NEW p \in Path, NEW o \in OrderKey, Sent(p, o)
      PROVE  /\ UNCHANGED active_orders
             /\ HasJob("event", x)' = HasJob("event", x)
             /\ HasJob("poll", x)' = HasJob("poll", x)
  <2>1. job[p][o].price \in Price
    BY <1>8 DEF Sent, JobsPriced
  <2>2. \A q \in Path : HasJob(q, x)' = HasJob(q, x)
    BY <1>8, <2>1, SentEffect DEF HasJob
  <2> QED BY <1>0, <1>8, <2>2 DEF Sent
<1>9. ASSUME NEW p \in Path, NEW o \in OrderKey, Returned(p, o)
      PROVE  /\ HasJob("event", x)' => ~HasJob("poll", x)' /\ x \in active_orders'
             /\ HasJob("poll", x)' => x \in active_orders'
  <2>1. PICK result \in {"ok", "err"} :
           /\ job[p][o].stage \in {"pricing", "sending", "confirming"}
           /\ job'[p][o].stage = IF p = "event" THEN "none" ELSE result
           /\ \A q \in Path, y \in OrderKey : q # p \/ y # o => job'[q][y] = job[q][y]
           /\ active_orders' = IF p = "event" /\ result = "err"
                               THEN active_orders \ {o} ELSE active_orders
    BY <1>9, ReturnedEffect
  <2>2. CASE x # o
    BY <1>0, <2>1, <2>2 DEF HasJob
  <2>3. CASE x = o /\ p = "event"
    BY <1>0, <2>1, <2>3 DEF HasJob
  <2>4. CASE x = o /\ p = "poll"
    BY <1>0, <2>1, <2>4 DEF HasJob
  <2> QED BY <2>2, <2>3, <2>4 DEF Path
<1> QED BY <1>0, <1>1, <1>2, <1>3, <1>4, <1>5, <1>6, <1>7, <1>8, <1>9, WorkerEffect
-----------------------------------------------------------------------------
(* Orders only move forward.                                               *)

\* No step of the program takes an order back, moves it to another market or
\* second, or touches it once it is closed.
LEMMA OrdersMoveForward ==
  ASSUME ProgramTypeOK, [ProgramNext]_programVars, NEW x \in OrderKey, orders[x].exists
  PROVE  /\ orders'[x].exists
         /\ orders'[x].market = orders[x].market
         /\ orders'[x].market_name = orders[x].market_name
         /\ orders'[x].open_timestamp = orders[x].open_timestamp
         /\ IsClosed(x) => orders'[x] = orders[x]
<1>1. CASE UNCHANGED orders
  BY <1>1
<1>2. ASSUME NEW o \in OrderKey, NEW m \in Market, create_order(o, m)
      PROVE  orders'[x] = orders[x]
  <2>1. x # o
    BY <1>2 DEF create_order, CreateOrder
  <2> QED BY <1>2, <2>1, CreateOrderAccount
<1>3. ASSUME NEW o \in OrderKey, NEW m \in MarketType, NEW p \in Price,
             NEW a \in Authority, NEW s \in Signer, fulfill_order(o, m, p, a, s)
      PROVE  /\ orders'[x].exists
             /\ orders'[x].market = orders[x].market
             /\ orders'[x].market_name = orders[x].market_name
             /\ orders'[x].open_timestamp = orders[x].open_timestamp
             /\ IsClosed(x) => orders'[x] = orders[x]
  <2>1. CASE x = o
    BY <1>3, <2>1, FulfillOrderAccount DEF IsClosed
  <2>2. CASE x # o
    BY <1>3, <2>2, FulfillOrderAccount
  <2> QED BY <2>1, <2>2
<1>4. CASE initialize
  BY <1>1, <1>4 DEF initialize, Initialize
<1>5. ASSUME NEW a \in Authority, NEW s \in Signer, register_oracle(a, s)
      PROVE  UNCHANGED orders
  BY <1>5 DEF register_oracle, RegisterOracle
<1>6. CASE ClockTick
  BY <1>1, <1>6 DEF ClockTick
<1>7. CASE UNCHANGED programVars
  BY <1>1, <1>7 DEF programVars
<1> QED BY <1>1, <1>2, <1>3, <1>4, <1>5, <1>6, <1>7 DEF ProgramNext

LEMMA ClosedStaysClosed ==
  ASSUME ProgramTypeOK, [ProgramNext]_programVars, NEW x \in OrderKey, IsClosed(x)
  PROVE  IsClosed(x)'
BY OrdersMoveForward DEF IsClosed

\* What the worker was asked for, it was asked for.
LEMMA AskedStays ==
  ASSUME ProgramTypeOK, [ProgramNext]_programVars, strays \subseteq strays',
         NEW x \in OrderKey, NEW m, NEW t, Asked(x, m, t)
  PROVE  Asked(x, m, t)'
BY OrdersMoveForward DEF Asked

\* What the steps below rest on.
LEMMA StepFacts ==
  ASSUME SystemInv, [Next]_vars
  PROVE  /\ TypeOK /\ ProgramTypeOK /\ OpenedInThePast /\ OracleReady /\ KeyLoaded
         /\ JobsPriced /\ SingleFlight
         /\ [ProgramNext]_programVars
         /\ strays \subseteq strays'
BY StepOfProgram, RegistrationStep DEF SystemInv, ProgramInv
-----------------------------------------------------------------------------
(* No order is left behind.                                                *)

LEMMA PollJobsStep ==
  ASSUME SystemInv, [Next]_vars
  PROVE  PollJobsAreJoined'
<1> SUFFICES ASSUME poll' # "joining", NEW x \in OrderKey
             PROVE  job'["poll"][x].stage = "none"
  BY DEF PollJobsAreJoined, HasJob
<1>0. /\ TypeOK /\ OracleReady /\ JobsPriced
      /\ poll # "joining" => job["poll"][x].stage = "none"
      /\ "poll" \in Path
  BY StepFacts DEF SystemInv, PollJobsAreJoined, HasJob, Path
<1>1. CASE UNCHANGED <<active_orders, poll, open_orders, job>>
  BY <1>0, <1>1
<1>2. CASE WorkerDown
  BY <1>0, <1>2, NoJobsType DEF WorkerDown
<1>3. ASSUME NEW o \in OrderKey, NEW m \in MarketType, NEW t \in Time,
             EventHandled(o, m, t)
      PROVE  job'["poll"][x].stage = "none"
  BY <1>0, <1>3, EventEffect DEF EventHandled
<1>4. CASE fetch_open_order_accounts
  BY <1>0, <1>4 DEF fetch_open_order_accounts
<1>5. CASE SpawnFutures
  BY <1>0, <1>5, SpawnEffect
<1>6. CASE JoinAll
  BY <1>0, <1>6, JoinEffect, JobTypes
<1>7. ASSUME NEW p \in Path, NEW o \in OrderKey, Priced(p, o)
      PROVE  job'["poll"][x].stage = "none"
  <2>1. poll # "joining"
    BY <1>7 DEF Priced
  <2> QED BY <1>0, <1>7, <2>1, PricedEffect
<1>8. ASSUME NEW p \in Path, NEW o \in OrderKey, Sent(p, o)
      PROVE  job'["poll"][x].stage = "none"
  <2>1. job[p][o].price \in Price
    BY <1>0, <1>8 DEF Sent, JobsPriced
  <2> QED BY <1>0, <1>8, <2>1, SentEffect DEF Sent
<1>9. ASSUME NEW p \in Path, NEW o \in OrderKey, Returned(p, o)
      PROVE  job'["poll"][x].stage = "none"
  BY <1>0, <1>9, ReturnedEffect DEF Returned
<1> QED BY <1>0, <1>1, <1>2, <1>3, <1>4, <1>5, <1>6, <1>7, <1>8, <1>9, WorkerEffect

LEMMA SuccessStep ==
  ASSUME SystemInv, [Next]_vars
  PROVE  SuccessMeansClosed'
<1>0. /\ TypeOK /\ ProgramTypeOK /\ OracleReady /\ JobsPriced /\ [ProgramNext]_programVars
      /\ \A r \in ledger : r.tx.order \in OrderKey
      /\ \A r \in ledger : r.ok => IsClosed(r.tx.order)
      /\ \A o \in OrderKey : job["poll"][o].stage = "ok" => IsClosed(o)
      /\ "poll" \in Path
  BY StepFacts DEF SystemInv, SuccessMeansClosed, TypeOK, Tx, Path
<1>1. ASSUME NEW r \in ledger', r.ok
      PROVE  IsClosed(r.tx.order)'
  <2>1. CASE r \in ledger
    BY <1>0, <1>1, <2>1, ClosedStaysClosed
  <2>2. CASE r \notin ledger
    <3>1. PICK tx \in mempool : Execute(tx)
      BY <1>0, <2>2, NetEffect DEF Sent
    <3>2. /\ r = [tx |-> tx, ok |-> TRUE]
          /\ fulfill_order(tx.order, tx.market, tx.price, Payer, tx.signer)
      BY <1>0, <1>1, <2>2, <3>1, ExecuteEffect
    <3>3. tx.order \in OrderKey
      BY <1>0 DEF TypeOK, Tx
    <3> QED BY <1>0, <3>2, <3>3, FulfillOrderAccount DEF IsClosed
  <2> QED BY <2>1, <2>2
<1>2. ASSUME NEW x \in OrderKey, job'["poll"][x].stage = "ok"
      PROVE  IsClosed(x)'
  <2>0. ASSUME IsClosed(x) PROVE IsClosed(x)'
    BY <1>0, <2>0, ClosedStaysClosed
  <2>1. CASE UNCHANGED <<active_orders, poll, open_orders, job>>
    BY <1>0, <1>2, <2>0, <2>1
  <2>2. CASE WorkerDown
    BY <1>0, <1>2, <2>2, NoJobsType DEF WorkerDown
  <2>3. ASSUME NEW o \in OrderKey, NEW m \in MarketType, NEW t \in Time,
               EventHandled(o, m, t)
        PROVE  job["poll"][x].stage = "ok"
    BY <1>0, <1>2, <2>3, EventEffect
  <2>4. CASE fetch_open_order_accounts
    BY <1>0, <1>2, <2>0, <2>4 DEF fetch_open_order_accounts
  <2>5. CASE SpawnFutures
    BY <1>0, <1>2, <2>5, SpawnEffect, JobTypes
  <2>6. CASE JoinAll
    BY <1>0, <1>2, <2>6, JoinEffect, JobTypes
  <2>7. ASSUME NEW p \in Path, NEW o \in OrderKey, Priced(p, o)
        PROVE  job["poll"][x].stage = "ok"
    BY <1>0, <1>2, <2>7, PricedEffect
  <2>8. ASSUME NEW p \in Path, NEW o \in OrderKey, Sent(p, o)
        PROVE  job["poll"][x].stage = "ok"
    <3>1. job[p][o].price \in Price
      BY <1>0, <2>8 DEF Sent, JobsPriced
    <3> QED BY <1>0, <1>2, <2>8, <3>1, SentEffect
  <2>9. ASSUME NEW p \in Path, NEW o \in OrderKey, Returned(p, o)
        PROVE  IsClosed(x)
    <3>1. PICK result \in {"ok", "err"} :
             /\ result = "ok" => \E r \in ledger : r.ok /\ r.tx.order = o
             /\ job'[p][o].stage = IF p = "event" THEN "none" ELSE result
             /\ \A q \in Path, y \in OrderKey : q # p \/ y # o => job'[q][y] = job[q][y]
      BY <1>0, <2>9, ReturnedEffect
    <3> QED BY <1>0, <1>2, <3>1
  <2> QED BY <1>0, <2>0, <2>1, <2>2, <2>3, <2>4, <2>5, <2>6, <2>7, <2>8, <2>9, WorkerEffect
<1> QED BY <1>1, <1>2 DEF SuccessMeansClosed

LEMMA NoStrandedStep ==
  ASSUME SystemInv, [Next]_vars
  PROVE  NoStrandedOrder'
<1> SUFFICES ASSUME NEW x \in OrderKey, x \in active_orders',
                    job'["event"][x].stage = "none", job'["poll"][x].stage = "none"
             PROVE  IsClosed(x)'
  BY DEF NoStrandedOrder, HasJob
<1>0. /\ TypeOK /\ ProgramTypeOK /\ OracleReady /\ JobsPriced /\ [ProgramNext]_programVars
      /\ "poll" \in Path /\ "event" \in Path
  BY StepFacts DEF Path
<1>1. ASSUME IsClosed(x) PROVE IsClosed(x)'
  BY <1>0, <1>1, ClosedStaysClosed
<1>2. ASSUME x \in active_orders, job["event"][x].stage = "none",
             job["poll"][x].stage = "none"
      PROVE  IsClosed(x)'
  BY <1>1, <1>2 DEF SystemInv, NoStrandedOrder, HasJob
<1>3. CASE UNCHANGED <<active_orders, poll, open_orders, job>>
  BY <1>2, <1>3
<1>4. CASE WorkerDown
  BY <1>4 DEF WorkerDown
<1>5. ASSUME NEW o \in OrderKey, NEW m \in MarketType, NEW t \in Time,
             EventHandled(o, m, t)
      PROVE  IsClosed(x)'
  <2>1. x # o
    BY <1>0, <1>5, EventEffect
  <2> QED BY <1>0, <1>2, <1>5, <2>1, EventEffect DEF EventHandled
<1>6. CASE fetch_open_order_accounts
  BY <1>2, <1>6 DEF fetch_open_order_accounts
<1>7. CASE SpawnFutures
  <2>1. /\ job["event"][x].stage = "none"
        /\ job["poll"][x].stage = "none"
    BY <1>0, <1>7, SpawnEffect DEF SystemInv, PollJobsAreJoined, HasJob
  <2>2. x \in active_orders
    BY <1>0, <1>7, SpawnEffect, JobTypes
  <2> QED BY <1>2, <2>1, <2>2
<1>8. CASE JoinAll
  <2>1. /\ job["event"][x].stage = "none"
        /\ x \in active_orders
        /\ job["poll"][x].stage \in {"none", "ok"}
    BY <1>0, <1>8, JoinEffect
  <2>2. CASE job["poll"][x].stage = "ok"
    BY <1>1, <2>2 DEF SystemInv, SuccessMeansClosed
  <2> QED BY <1>2, <2>1, <2>2
<1>9. ASSUME NEW p \in Path, NEW o \in OrderKey, Priced(p, o)
      PROVE  IsClosed(x)'
  <2>1. x \in active_orders
    BY <1>9 DEF Priced
  <2>2. job["event"][x].stage = "none" /\ job["poll"][x].stage = "none"
    BY <1>0, <1>9, PricedEffect
  <2> QED BY <1>2, <2>1, <2>2
<1>10. ASSUME NEW p \in Path, NEW o \in OrderKey, Sent(p, o)
       PROVE  IsClosed(x)'
  <2>1. job[p][o].price \in Price
    BY <1>0, <1>10 DEF Sent, JobsPriced
  <2>2. x \in active_orders
    BY <1>10 DEF Sent
  <2>3. job["event"][x].stage = "none" /\ job["poll"][x].stage = "none"
    BY <1>0, <1>10, <2>1, SentEffect
  <2> QED BY <1>2, <2>2, <2>3
<1>11. ASSUME NEW p \in Path, NEW o \in OrderKey, Returned(p, o)
       PROVE  IsClosed(x)'
  <2>1. PICK result \in {"ok", "err"} :
           /\ result = "ok" => \E r \in ledger : r.ok /\ r.tx.order = o
           /\ job'[p][o].stage = IF p = "event" THEN "none" ELSE result
           /\ \A q \in Path, y \in OrderKey : q # p \/ y # o => job'[q][y] = job[q][y]
           /\ active_orders' = IF p = "event" /\ result = "err"
                               THEN active_orders \ {o} ELSE active_orders
    BY <1>0, <1>11, ReturnedEffect
  <2>2. CASE x # o
    BY <1>0, <1>2, <2>1, <2>2
  <2>3. CASE x = o
    <3>1. p = "event" /\ result = "ok"
      BY <2>1, <2>3 DEF Path
    <3>2. IsClosed(x)
      BY <2>1, <2>3, <3>1 DEF SystemInv, SuccessMeansClosed
    <3> QED BY <1>1, <3>2
  <2> QED BY <2>2, <2>3
<1> QED BY <1>0, <1>3, <1>4, <1>5, <1>6, <1>7, <1>8, <1>9, <1>10, <1>11, WorkerEffect
-----------------------------------------------------------------------------
(* What is known of an order is what its account says.                     *)

LEMMA EventsFaithfulStep ==
  ASSUME ProgramInv, EventsFaithful, [ProgramNext]_programVars
  PROVE  EventsFaithful'
<1> SUFFICES ASSUME NEW i \in DOMAIN logs', logs'[i].type = "requested"
             PROVE  LET o == logs'[i].order IN
                      /\ orders'[o].exists
                      /\ logs'[i].market = orders'[o].market
                      /\ logs'[i].timestamp = orders'[o].open_timestamp
  BY DEF EventsFaithful
<1> DEFINE o == logs'[i].order
<1>0. ProgramTypeOK /\ OpenedInThePast /\ logs \in Seq(Event)
  BY DEF ProgramInv, ProgramTypeOK
<1>1. ASSUME i \in DOMAIN logs, logs'[i] = logs[i]
      PROVE  /\ orders'[o].exists
             /\ logs'[i].market = orders'[o].market
             /\ logs'[i].timestamp = orders'[o].open_timestamp
  <2>1. o \in OrderKey
    BY <1>0, <1>1 DEF Event, OraclePriceRequestedEvent, OraclePriceFulfilledEvent
  <2> QED BY <1>0, <1>1, <2>1, OrdersMoveForward DEF EventsFaithful
<1>2. ASSUME NEW x \in OrderKey, NEW m \in Market, create_order(x, m)
      PROVE  /\ orders'[o].exists
             /\ logs'[i].market = orders'[o].market
             /\ logs'[i].timestamp = orders'[o].open_timestamp
  <2>1. PICK e \in Event : /\ logs' = Append(logs, e)
                           /\ e.order = x /\ e.market = m /\ e.timestamp = unix_timestamp
    BY <1>0, <1>2, CreateOrderEvent
  <2>2. \/ i \in DOMAIN logs /\ logs'[i] = logs[i]
        \/ logs'[i] = e
    BY <1>0, <2>1, AppendPositions
  <2>3. CASE logs'[i] = e
    BY <1>0, <1>2, <2>1, <2>3, CreateOrderAccount
  <2> QED BY <1>1, <2>2, <2>3
<1>3. ASSUME NEW x \in OrderKey, NEW m \in MarketType, NEW p \in Price,
             NEW a \in Authority, NEW s \in Signer, fulfill_order(x, m, p, a, s)
      PROVE  i \in DOMAIN logs /\ logs'[i] = logs[i]
  <2>1. PICK e \in Event : logs' = Append(logs, e) /\ e.type = "fulfilled"
    BY <1>0, <1>3, FulfillOrderEvent
  <2> QED BY <1>0, <2>1, AppendPositions
<1>4. CASE initialize
  BY <1>1, <1>4 DEF initialize, Initialize
<1>5. ASSUME NEW a \in Authority, NEW s \in Signer, register_oracle(a, s)
      PROVE  UNCHANGED logs
  BY <1>5 DEF register_oracle, RegisterOracle
<1>6. CASE ClockTick
  BY <1>1, <1>6 DEF ClockTick
<1>7. CASE UNCHANGED programVars
  BY <1>1, <1>7 DEF programVars
<1> QED BY <1>1, <1>2, <1>3, <1>4, <1>5, <1>6, <1>7 DEF ProgramNext

\* Only getProgramAccounts brings new accounts.
LEMMA AnswerShrinks ==
  ASSUME TypeOK, OracleReady, [Next]_vars
  PROVE  fetch_open_order_accounts \/ open_orders' \subseteq open_orders
<1>1. WorkerDown => open_orders' = {}
  BY DEF WorkerDown
<1>2. ASSUME NEW o, NEW m, NEW t, EventHandled(o, m, t)
      PROVE  UNCHANGED open_orders
  BY <1>2 DEF EventHandled
<1>3. SpawnFutures => open_orders' = {}
  BY DEF SpawnFutures, Spawn
<1>4. JoinAll => UNCHANGED open_orders
  BY DEF JoinAll, Join
<1>5. ASSUME NEW p \in Path, NEW o \in OrderKey,
             Priced(p, o) \/ Sent(p, o) \/ Returned(p, o)
      PROVE  UNCHANGED open_orders
  BY <1>5 DEF Priced, Sent, Returned
<1> QED BY <1>1, <1>2, <1>3, <1>4, <1>5, WorkerEffect

LEMMA AnswerFaithfulStep ==
  ASSUME SystemInv, [Next]_vars
  PROVE  AnswerFaithful'
<1>0. /\ TypeOK /\ ProgramTypeOK /\ OracleReady /\ [ProgramNext]_programVars
      /\ \A r \in open_orders : r.order \in OrderKey
  BY StepFacts DEF TypeOK, OpenOrder
<1> SUFFICES ASSUME NEW r \in open_orders'
             PROVE  /\ orders'[r.order].exists
                    /\ r.market_name = orders'[r.order].market_name
                    /\ r.open_timestamp = orders'[r.order].open_timestamp
  BY DEF AnswerFaithful
<1>1. CASE fetch_open_order_accounts
  <2>1. PICK o \in OrderKey : /\ IsOpen(o)
                              /\ r = [order |-> o, market_name |-> orders[o].market_name,
                                      open_timestamp |-> orders[o].open_timestamp]
    BY <1>1 DEF fetch_open_order_accounts
  <2> QED BY <1>1, <2>1 DEF fetch_open_order_accounts, programVars, IsOpen
<1>2. CASE r \in open_orders
  <2>1. /\ r.order \in OrderKey
        /\ orders[r.order].exists
        /\ r.market_name = orders[r.order].market_name
        /\ r.open_timestamp = orders[r.order].open_timestamp
    BY <1>0, <1>2 DEF SystemInv, AnswerFaithful
  <2> QED BY <1>0, <2>1, OrdersMoveForward
<1> QED BY <1>0, <1>1, <1>2, AnswerShrinks

LEMMA JobsAskedStep ==
  ASSUME SystemInv, [Next]_vars
  PROVE  JobsAsked'
<1>0. /\ TypeOK /\ ProgramTypeOK /\ OracleReady /\ JobsPriced /\ [ProgramNext]_programVars
      /\ strays \subseteq strays'
      /\ "poll" \in Path /\ "event" \in Path
  BY StepFacts DEF Path
<1> SUFFICES ASSUME NEW q \in Path, NEW x \in OrderKey
             PROVE  JobAsked(q, x)'
  BY DEF JobsAsked
<1>1. JobAsked(q, x)
  BY DEF SystemInv, JobsAsked
<1>2. ASSUME NEW m, NEW t, Asked(x, m, t)
      PROVE  Asked(x, m, t)'
  BY <1>0, <1>2, AskedStays
<1>3. ASSUME job'[q][x] = job[q][x]
      PROVE  JobAsked(q, x)'
  BY <1>1, <1>2, <1>3 DEF JobAsked, get_price
<1>4. ASSUME job'[q][x].stage \notin {"pricing", "sending", "confirming"}
      PROVE  JobAsked(q, x)'
  BY <1>4 DEF JobAsked
<1>5. ASSUME NEW m \in MarketType, NEW t \in Time, Asked(x, m, t)',
             job'[q][x] = NewJob(m, t)
      PROVE  JobAsked(q, x)'
  <2>1. /\ job'[q][x].stage = "pricing"
        /\ job'[q][x].market = m
        /\ job'[q][x].timestamp = t
    BY <1>5, JobTypes
  <2> QED BY <1>5, <2>1 DEF JobAsked
<1>6. CASE UNCHANGED <<active_orders, poll, open_orders, job>>
  BY <1>3, <1>6
<1>7. CASE WorkerDown
  BY <1>4, <1>7, NoJobsType DEF WorkerDown
<1>8. ASSUME NEW o \in OrderKey, NEW m \in MarketType, NEW t \in Time,
             EventHandled(o, m, t)
      PROVE  JobAsked(q, x)'
  <2>1. CASE q = "event" /\ x = o
    <3>1. Asked(o, m, t)'
      <4>1. CASE [order |-> o, market |-> m, timestamp |-> t] \in strays'
        BY <4>1 DEF Asked
      <4>2. ASSUME NEW i \in DOMAIN logs, logs[i].type = "requested", logs[i].order = o,
                   logs[i].market = m, logs[i].timestamp = t
            PROVE  Asked(o, m, t)
        BY <4>2 DEF SystemInv, EventsFaithful, Asked
      <4> QED BY <1>2, <1>8, <2>1, <4>1, <4>2 DEF EventHandled, Read
    <3> QED BY <1>0, <1>5, <1>8, <2>1, <3>1, EventEffect
  <2>2. CASE ~(q = "event" /\ x = o)
    BY <1>0, <1>3, <1>8, <2>2, EventEffect
  <2> QED BY <2>1, <2>2
<1>9. CASE fetch_open_order_accounts
  BY <1>3, <1>9 DEF fetch_open_order_accounts
<1>10. CASE SpawnFutures
  <2>1. CASE q = "event"
    BY <1>0, <1>3, <1>10, <2>1, SpawnEffect
  <2>2. CASE q = "poll"
    <3>1. CASE job'[q][x] = NoJob
      BY <1>4, <3>1, JobTypes
    <3>2. ASSUME NEW r \in open_orders, r.order = x,
                 job'[q][x] = NewJob(try_from(r.market_name), r.open_timestamp)
          PROVE  JobAsked(q, x)'
      <4>1. /\ orders[x].exists
            /\ r.market_name = orders[x].market_name
            /\ r.open_timestamp = orders[x].open_timestamp
        BY <3>2 DEF SystemInv, AnswerFaithful
      <4>2. try_from(r.market_name) = orders[x].market
        BY <4>1 DEF SystemInv, ProgramInv, MarketNameDecodes
      <4>3. orders[x].market \in MarketType /\ orders[x].open_timestamp \in Time
        BY <1>0 DEF ProgramTypeOK, OrderAccount
      <4>4. Asked(x, orders[x].market, orders[x].open_timestamp)
        BY <4>1 DEF Asked
      <4> HIDE DEF Asked
      <4> QED BY <1>2, <1>5, <3>2, <4>1, <4>2, <4>3, <4>4
    <3> QED BY <1>0, <1>10, <2>2, <3>1, <3>2, SpawnEffect
  <2> QED BY <2>1, <2>2 DEF Path
<1>11. CASE JoinAll
  <2>1. CASE q = "event"
    BY <1>0, <1>3, <1>11, <2>1, JoinEffect
  <2>2. CASE q = "poll"
    BY <1>0, <1>4, <1>11, <2>2, JoinEffect, JobTypes
  <2> QED BY <2>1, <2>2 DEF Path
<1>12. ASSUME NEW p \in Path, NEW o \in OrderKey, Priced(p, o)
       PROVE  JobAsked(q, x)'
  <2>1. CASE q = p /\ x = o
    <3>1. /\ job[q][x].stage = "pricing" /\ job'[q][x].stage = "sending"
          /\ job'[q][x].market = job[q][x].market
          /\ job'[q][x].timestamp = job[q][x].timestamp
          /\ job'[q][x].price \in get_price(job[q][x].market, job[q][x].timestamp)
      BY <1>0, <1>12, <2>1, PricedEffect
    <3> QED BY <1>1, <1>2, <3>1 DEF JobAsked, get_price
  <2>2. CASE ~(q = p /\ x = o)
    BY <1>0, <1>3, <1>12, <2>2, PricedEffect
  <2> QED BY <2>1, <2>2
<1>13. ASSUME NEW p \in Path, NEW o \in OrderKey, Sent(p, o)
       PROVE  JobAsked(q, x)'
  <2>0. job[p][o].price \in Price
    BY <1>0, <1>13 DEF Sent, JobsPriced
  <2>1. CASE q = p /\ x = o
    <3>1. /\ job[q][x].stage = "sending" /\ job'[q][x].stage = "confirming"
          /\ job'[q][x].market = job[q][x].market
          /\ job'[q][x].timestamp = job[q][x].timestamp
          /\ job'[q][x].price = job[q][x].price
      BY <1>0, <1>13, <2>0, <2>1, SentEffect
    <3> QED BY <1>1, <1>2, <3>1 DEF JobAsked, get_price
  <2>2. CASE ~(q = p /\ x = o)
    BY <1>0, <1>3, <1>13, <2>0, <2>2, SentEffect
  <2> QED BY <2>1, <2>2
<1>14. ASSUME NEW p \in Path, NEW o \in OrderKey, Returned(p, o)
       PROVE  JobAsked(q, x)'
  <2>1. PICK result \in {"ok", "err"} :
           /\ job'[p][o].stage = IF p = "event" THEN "none" ELSE result
           /\ \A r \in Path, y \in OrderKey : r # p \/ y # o => job'[r][y] = job[r][y]
    BY <1>0, <1>14, ReturnedEffect
  <2>2. CASE q = p /\ x = o
    BY <1>4, <2>1, <2>2
  <2>3. CASE ~(q = p /\ x = o)
    BY <1>3, <2>1, <2>3
  <2> QED BY <2>2, <2>3
<1> QED BY <1>0, <1>6, <1>7, <1>8, <1>9, <1>10, <1>11, <1>12, <1>13, <1>14, WorkerEffect

LEMMA TxsAskedStep ==
  ASSUME SystemInv, [Next]_vars
  PROVE  TxsAsked'
<1>0. /\ TypeOK /\ ProgramTypeOK /\ OracleReady /\ JobsPriced /\ [ProgramNext]_programVars
      /\ strays \subseteq strays'
      /\ \A tx \in mempool : tx.order \in OrderKey
  BY StepFacts DEF TypeOK, Tx
<1> SUFFICES ASSUME NEW tx \in mempool'
             PROVE  \E t \in Time : Asked(tx.order, tx.market, t)'
                                   /\ tx.price \in get_price(tx.market, t)
  BY DEF TxsAsked, TxAsked, get_price
<1>1. CASE tx \in mempool
  <2>1. PICK t \in Time : /\ Asked(tx.order, tx.market, t)
                          /\ tx.price \in get_price(tx.market, t)
    BY <1>1 DEF SystemInv, TxsAsked, TxAsked
  <2> QED BY <1>0, <1>1, <2>1, AskedStays
<1>2. CASE tx \notin mempool
  <2>1. PICK p \in Path, o \in OrderKey : Sent(p, o)
    BY <1>0, <1>2, NetEffect, ExecuteEffect
  <2>2. job[p][o].price \in Price
    BY <1>0, <2>1 DEF Sent, JobsPriced
  <2>3. /\ job[p][o].stage = "sending"
        /\ tx = TxOf(o, Signed(p, o))
    BY <1>2, <2>1 DEF Sent
  <2>4. /\ tx.order = o /\ tx.price = job[p][o].price
        /\ tx.market = job[p][o].market
    BY <1>0, <2>1, <2>2, <2>3, SentEffect
  <2>5. /\ Asked(o, job[p][o].market, job[p][o].timestamp)
        /\ job[p][o].price \in get_price(job[p][o].market, job[p][o].timestamp)
    BY <2>3 DEF SystemInv, JobsAsked, JobAsked
  <2>6. job[p][o].timestamp \in Time
    BY <1>0 DEF TypeOK, Job
  <2> QED BY <1>0, <2>4, <2>5, <2>6, AskedStays
<1> QED BY <1>1, <1>2

\* Accounts of orders change in three ways only: a user creates one, a transaction
\* of the worker closes one, or another oracle does.
LEMMA OrdersEffect ==
  ASSUME TypeOK, OracleReady, [Next]_vars
  PROVE  \/ UNCHANGED orders
         \/ \E o \in OrderKey, m \in Market : create_order(o, m)
         \/ \E tx \in mempool :
              /\ tx.order \in OrderKey
              /\ fulfill_order(tx.order, tx.market, tx.price, Payer, tx.signer)
         \/ \E a \in Authority \ {Payer}, s \in Signer, o \in OrderKey, p \in Price :
              fulfill_order(o, orders[o].market, p, a, s)
<1>1. CASE Environment
  <2>1. ASSUME NEW a \in Authority, NEW s \in Signer, register_oracle(a, s)
        PROVE  UNCHANGED orders
    BY <2>1 DEF register_oracle, RegisterOracle
  <2> QED BY <1>1, <2>1 DEF Environment, OtherOracle, initialize, Initialize, ClockTick
<1>2. CASE Initialization
  BY <1>2 DEF Initialization, Start, InitializeOracleSigner, RegistrationConfirmed,
              RegistrationExpires, programVars
<1>3. ASSUME NEW reg \in registrations, ExecuteRegistration(reg) \/ DropRegistration(reg)
      PROVE  UNCHANGED orders
  BY <1>3 DEF ExecuteRegistration, DropRegistration, register_oracle, RegisterOracle,
              programVars
<1>4. CASE Crash \/ fetch_blockhash_and_slot
  BY <1>4 DEF Crash, fetch_blockhash_and_slot, programVars
<1>5. CASE logs_subscribe \/ SubscribeFails \/ Disconnect
  BY <1>5 DEF logs_subscribe, Subscribe, SubscribeFails, Disconnect, programVars
<1>6. CASE RequestEvent \/ IgnoreEvent \/ \E e \in Stray : StrayEvent(e)
  BY <1>6 DEF RequestEvent, IgnoreEvent, StrayEvent, programVars
<1>7. CASE PollRound
  BY <1>7 DEF PollRound, fetch_open_order_accounts, SpawnFutures, Spawn, JoinAll, Join,
              programVars
<1>8. ASSUME NEW p \in Path, NEW o \in OrderKey, FulfillStep(p, o) \/ FulfillFails(p, o)
      PROVE  UNCHANGED orders
  BY <1>8, FulfillEffect DEF programVars
<1>9. ASSUME NEW tx \in mempool, Execute(tx)
      PROVE  \/ UNCHANGED orders
             \/ /\ tx.order \in OrderKey
                /\ fulfill_order(tx.order, tx.market, tx.price, Payer, tx.signer)
  <2>1. tx.order \in OrderKey
    BY DEF TypeOK, Tx
  <2> QED BY <1>9, <2>1, ExecuteEffect DEF programVars
<1>10. ASSUME NEW tx \in mempool, Drop(tx)
       PROVE  UNCHANGED orders
  BY <1>10 DEF Drop, programVars
<1>11. CASE UNCHANGED vars
  BY <1>11 DEF vars, programVars
<1> QED BY <1>1, <1>2, <1>3, <1>4, <1>5, <1>6, <1>7, <1>8, <1>9, <1>10, <1>11 DEF Next
-----------------------------------------------------------------------------
(* The theorems.                                                           *)

LEMMA SystemInit == Init => SystemInv
<1> SUFFICES ASSUME Init PROVE SystemInv
  OBVIOUS
<1>1. TypeOK /\ KeyLoaded /\ BackoffDoubles
  BY SystemTypeInit
<1>2. ProgramInv
  BY InvInit DEF Init
<1>3. \A p \in Path, o \in OrderKey : job[p][o].stage = "none"
  BY NoJobsType DEF Init
<1>4. JobsPriced /\ SingleFlight /\ PollJobsAreJoined /\ JobsAsked
  BY <1>3 DEF JobsPriced, SingleFlight, PollJobsAreJoined, JobsAsked, JobAsked,
              HasJob, Path
<1>5. SuccessMeansClosed /\ NoStrandedOrder /\ AnswerFaithful /\ TxsAsked
  BY <1>3 DEF Init, SuccessMeansClosed, NoStrandedOrder, AnswerFaithful, TxsAsked, Path
<1>6. EventsFaithful
  BY DEF Init, ProgramInit, EventsFaithful
<1> QED BY <1>1, <1>2, <1>4, <1>5, <1>6 DEF SystemInv

LEMMA ProgramInvStep == ProgramInv /\ [ProgramNext]_programVars => ProgramInv'
BY TypeStep, PastStep, LogsStep, OnceStep, MarketNameStep, OracleReadyStep
   DEF ProgramInv

\* SystemInv is inductive: every interleaving of the two paths, the cluster, users,
\* other oracles, stray events, late registrations, faults and restarts preserves it.
THEOREM SystemInvariance == Spec => []SystemInv
<1>1. ASSUME SystemInv, [Next]_vars
      PROVE  SystemInv'
  <2>1. /\ TypeOK /\ OpenedInThePast /\ OracleReady /\ KeyLoaded /\ JobsPriced
        /\ SingleFlight /\ [ProgramNext]_programVars
    BY <1>1, StepFacts
  <2>2. TypeOK' /\ KeyLoaded' /\ JobsPriced'
    BY <1>1, <2>1, SystemTypeStep
  <2>3. ProgramInv' /\ EventsFaithful'
    BY <1>1, <2>1, ProgramInvStep, EventsFaithfulStep DEF SystemInv
  <2>4. BackoffDoubles'
    BY <1>1, <2>1, ReconnectStep DEF SystemInv
  <2>5. SingleFlight' /\ PollJobsAreJoined' /\ SuccessMeansClosed' /\ NoStrandedOrder'
    BY <1>1, <2>1, SingleFlightStep, PollJobsStep, SuccessStep, NoStrandedStep
  <2>6. AnswerFaithful' /\ JobsAsked' /\ TxsAsked'
    BY <1>1, AnswerFaithfulStep, JobsAskedStep, TxsAskedStep
  <2> QED BY <2>2, <2>3, <2>4, <2>5, <2>6 DEF SystemInv
<1> QED BY SystemInit, <1>1, PTL DEF Spec

\* Every variable of the worker, the program and the network keeps its type; what
\* fulfill_order sends is a transaction the program can be asked to execute.
THEOREM SystemTyping == Spec => []TypeOK
<1>1. SystemInv => TypeOK
  BY DEF SystemInv
<1> QED BY SystemInvariance, <1>1, PTL

\* The event path and the poll path never submit the same order at the same time.
THEOREM OneFutureAtATime == Spec => []SingleFlight
<1>1. SystemInv => SingleFlight
  BY DEF SystemInv
<1> QED BY SystemInvariance, <1>1, PTL

\* An order in active_orders that no future works on is closed on chain, so the
\* paths are right to skip it.
THEOREM NothingStranded == Spec => []NoStrandedOrder
<1>1. SystemInv => NoStrandedOrder
  BY DEF SystemInv
<1> QED BY SystemInvariance, <1>1, PTL

\* The delay of watch_anchor_events doubles with every failure in a row.
THEOREM Backoff == Spec => []BackoffDoubles
<1>1. SystemInv => BackoffDoubles
  BY DEF SystemInv
<1> QED BY SystemInvariance, <1>1, PTL

\* The worker is one more user of the program: all that is proved of the program
\* alone holds of the composed system.
THEOREM SystemRunsProgram == Spec => ProgramSpec
<1>1. Init => ProgramInit
  BY DEF Init
<1>2. SystemInv /\ [Next]_vars => [ProgramNext]_programVars
  BY StepFacts
<1> QED BY SystemInvariance, <1>1, <1>2, PTL DEF Spec, ProgramSpec

\* Program and worker together implement the service: an order is answered once and,
\* while the worker's account is the current oracle, with a price of its market at
\* the second it was placed in or one that a stray event asked for in its name.
THEOREM SystemImplementsBackfill == Spec => ImplementsBackfill
<1>1. Init => Backfill!ServiceInit
  BY DEF Init, ProgramInit, Backfill!ServiceInit, Backfill!Unplaced, Book, NoOrder
<1>2. ASSUME SystemInv, [Next]_vars
      PROVE  Backfill!ServiceNext \/ UNCHANGED Book
  <2>0. TypeOK /\ OracleReady /\ ProgramTypeOK
    BY <1>2, StepFacts
  <2>1. CASE UNCHANGED orders
    BY <2>1, BookUnchanged
  <2>2. ASSUME NEW o \in OrderKey, NEW m \in Market, create_order(o, m)
        PROVE  Backfill!ServiceNext
    <3>1. Backfill!Place(o)
      BY <2>0, <2>2, CreateIsPlace DEF Service!Place, Backfill!Place
    <3> QED BY <3>1 DEF Backfill!ServiceNext
  <2>3. ASSUME NEW tx \in mempool, tx.order \in OrderKey,
               fulfill_order(tx.order, tx.market, tx.price, Payer, tx.signer)
        PROVE  Backfill!ServiceNext
    <3> DEFINE o == tx.order
    <3>1. /\ Book[o].state = "placed"
          /\ Book[o].market = orders[o].market
          /\ Book[o].timestamp = orders[o].open_timestamp
          /\ Book' = [Book EXCEPT ![o] =
               [state |-> "answered", market |-> Book[o].market,
                timestamp |-> Book[o].timestamp, price |-> tx.price]]
      BY <2>0, <2>3, FulfillInBook
    <3>2. tx.market = orders[o].market /\ program.oracle = Payer
      BY <2>3 DEF fulfill_order, FulfillOrder
    <3>3. PICK t \in Time : /\ Asked(o, orders[o].market, t)
                            /\ tx.price \in get_price(orders[o].market, t)
      BY <1>2, <3>2 DEF SystemInv, TxsAsked, TxAsked
    <3>4. tx.price \in PricesAsked(o)
      BY <3>3 DEF PricesAsked
    <3>5. tx.price \in AcceptablePrices[o]
      BY <2>3, <3>2, <3>4 DEF AcceptablePrices
    <3>6. Backfill!Answer(o)
      BY <3>1, <3>5, Zenon DEF Backfill!Answer
    <3> QED BY <2>3, <3>6 DEF Backfill!ServiceNext
  <2>4. ASSUME NEW a \in Authority \ {Payer}, NEW s \in Signer, NEW o \in OrderKey,
               NEW p \in Price, fulfill_order(o, orders[o].market, p, a, s)
        PROVE  Backfill!ServiceNext
    <3>1. /\ Book[o].state = "placed"
          /\ Book' = [Book EXCEPT ![o] =
               [state |-> "answered", market |-> Book[o].market,
                timestamp |-> Book[o].timestamp, price |-> p]]
      BY <2>0, <2>4, FulfillInBook
    <3>2. program.oracle # Payer
      BY <2>4 DEF fulfill_order, FulfillOrder
    <3>3. p \in AcceptablePrices[o]
      BY <3>2 DEF AcceptablePrices
    <3>4. Backfill!Answer(o)
      BY <3>1, <3>3, Zenon DEF Backfill!Answer
    <3> QED BY <3>4 DEF Backfill!ServiceNext
  <2> QED BY <1>2, <2>0, <2>1, <2>2, <2>3, <2>4, OrdersEffect
<1> QED BY SystemInvariance, <1>1, <1>2, PTL
        DEF Spec, ImplementsBackfill, Backfill!ServiceSafety
=============================================================================
