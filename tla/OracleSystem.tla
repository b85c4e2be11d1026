---------------------------- MODULE OracleSystem ----------------------------
(***************************************************************************)
(* The off-chain worker (switchboard-function/src/worker.rs) composed with *)
(* the on-chain program.  The worker is one tokio task whose select! runs  *)
(* its watchers concurrently, so they interleave at every await: each      *)
(* stretch between two awaits is one action here.                          *)
(*                                                                         *)
(* Orders reach fulfill_order on two paths, the log subscription (event)   *)
(* and getProgramAccounts (poll), which share only the set active_orders.  *)
(* Transactions, the registration included, travel through a network that  *)
(* may delay or lose them, the RPC node may fail any call, the process may *)
(* die and be restarted, and the stream carries events of transactions     *)
(* that failed.  Every such failure is charged to the budget MaxFaults.    *)
(***************************************************************************)
EXTENDS BackfillProgram, FiniteSetsExt

CONSTANTS
  Payer,         \* the worker's payer, authority of its oracle account
  PythPrice(_, _),      \* what Pyth may report for a market and a second
  CoinbasePrice(_, _),  \* what the Coinbase feed may have cached for them
  Stray,         \* price requests in logs of transactions that created no order
  BlockhashAge,  \* slots for which a blockhash is accepted (150 on Solana)
  MaxFaults      \* bound: failures of the environment in a behaviour

ASSUME SystemAssumption ==
  /\ Payer \in Authority
  /\ \A m \in MarketType, t \in Time :
       /\ PythPrice(m, t) \subseteq Price
       /\ \A p \in PythPrice(m, t), c \in CoinbasePrice(m, t) : (c + p) \div 2 \in Price
  /\ Stray \subseteq [order : OrderKey, market : MarketType, timestamp : Time]
  /\ BlockhashAge \in Nat
  /\ MaxFaults \in Nat

VARIABLES
  phase,             \* process life cycle; "ready" is WorkerStatus::Ready
  enclave_signer,    \* the key load_enclave_signer returned
  register_blockhash,  \* slot of the blockhash of its register_oracle transaction
  recent_blockhash,  \* slot of the cached blockhash, 0 is Hash::default()
  active_orders,     \* the DashSet shared by both paths
  cursor,            \* next entry of logs to be streamed, 0: not subscribed
  reconnect,         \* retry_count and delay (ms) of watch_anchor_events
  poll,              \* where watch_open_order_accounts is
  open_orders,       \* the accounts getProgramAccounts returned
  job,               \* job[path][order]: a fulfill_order future
  mempool,           \* fulfil transactions sent and not yet executed
  registrations,     \* register_oracle transactions sent and not yet executed
  ledger,            \* fulfil transactions executed, with their outcome
  strays,            \* the members of Stray the worker has read so far
  faults             \* failures so far

procVars == <<phase, enclave_signer, register_blockhash, recent_blockhash>>
streamVars == <<cursor, reconnect>>
pollVars == <<poll, open_orders>>
workerVars == <<procVars, active_orders, streamVars, pollVars, job>>
txVars == <<mempool, registrations, ledger, strays>>
netVars == <<txVars, faults>>
vars == <<programVars, workerVars, netVars>>

Path == {"event", "poll"}
-----------------------------------------------------------------------------
(* A fulfill_order future: what it was called with and how far it got.     *)
(*   pricing     awaiting get_price                                        *)
(*   sending     priced, about to sign and send                            *)
(*   confirming  sent, awaiting send_and_confirm_transaction               *)
(*   ok, err     returned; only join_all keeps such a result for a while   *)

Stage == {"none", "pricing", "sending", "confirming", "ok", "err"}

Tx == [order : OrderKey, market : MarketType, price : Price,
       signer : Signer, blockhash : Time]

Job == [stage : Stage, market : MarketType, timestamp : Time,
        price : Price \cup {0}, signer : Signer \cup {NoKey}, blockhash : Time]

NoJob == [stage |-> "none", market |-> "Btc", timestamp |-> 0, price |-> 0,
          signer |-> NoKey, blockhash |-> 0]

NewJob(m, t) ==
  [NoJob EXCEPT !.stage = "pricing", !.market = m, !.timestamp = t]

\* The transaction a job has sent: its signature is determined by its content.
TxOf(o, j) ==
  [order |-> o, market |-> j.market, price |-> j.price, signer |-> j.signer,
   blockhash |-> j.blockhash]

NoJobs == [p \in Path |-> [o \in OrderKey |-> NoJob]]

\* watch_anchor_events retries a failed logs_subscribe after a delay in ms.
max_retries == 3

FirstTry == [retry_count |-> 0, delay |-> 500]

Registration == [signer : Signer, blockhash : Time]

OpenOrder == [order : OrderKey, market_name : MarketBytes, open_timestamp : Time]

TypeOK ==
  /\ ProgramTypeOK
  /\ phase \in {"down", "initializing", "registering", "registered", "ready"}
  /\ enclave_signer \in Signer \cup {NoKey}
  /\ register_blockhash \in Time
  /\ recent_blockhash \in Time
  /\ active_orders \in SUBSET OrderKey
  /\ cursor \in Nat
  /\ reconnect \in [retry_count : 0 .. max_retries - 1, delay : Nat]
  /\ poll \in {"idle", "fetched", "joining"}
  /\ open_orders \in SUBSET OpenOrder
  /\ job \in [Path -> [OrderKey -> Job]]
  /\ mempool \in SUBSET Tx
  /\ registrations \in SUBSET Registration
  /\ ledger \in SUBSET [tx : Tx, ok : BOOLEAN]
  /\ strays \in SUBSET Stray
  /\ faults \in Nat

WorkerDown ==
  /\ phase' = "down"
  /\ enclave_signer' = NoKey
  /\ register_blockhash' = 0
  /\ recent_blockhash' = 0
  /\ active_orders' = {}
  /\ cursor' = 0
  /\ reconnect' = FirstTry
  /\ poll' = "idle"
  /\ open_orders' = {}
  /\ job' = NoJobs

Init ==
  /\ ProgramInit
  /\ phase = "down"
  /\ enclave_signer = NoKey
  /\ register_blockhash = 0
  /\ recent_blockhash = 0
  /\ active_orders = {}
  /\ cursor = 0
  /\ reconnect = FirstTry
  /\ poll = "idle"
  /\ open_orders = {}
  /\ job = NoJobs
  /\ mempool = {}
  /\ registrations = {}
  /\ ledger = {}
  /\ strays = {}
  /\ faults = 0

Fault == faults < MaxFaults /\ faults' = faults + 1

ValidBlockhash(h) == h # 0 /\ slot <= h + BlockhashAge
-----------------------------------------------------------------------------
(* Process life cycle.                                                     *)

\* Without the PROGRAM account the worker exits again.
initialize_program_accounts == program.exists

\* OracleWorker::new: the key comes from the sealed file or is generated anew.
Start(s) ==
  /\ phase = "down"
  /\ initialize_program_accounts
  /\ phase' = "initializing"
  /\ enclave_signer' = s
  /\ UNCHANGED <<programVars, netVars, register_blockhash, recent_blockhash,
                 active_orders, streamVars, pollVars, job>>

\* The worker's registration: its signature is determined by key and blockhash.
OwnRegistration == [signer |-> enclave_signer, blockhash |-> register_blockhash]

\* initialize_oracle_signer sends register_oracle.  OracleAccount::deserialize
\* does not skip the 8-byte account discriminator, so the enclave_signer it reads
\* is never the worker's key and every start registers.
InitializeOracleSigner ==
  /\ phase = "initializing"
  /\ RegisterOracle
  /\ phase' = "registering"
  /\ register_blockhash' = slot
  /\ registrations' = registrations \cup {[signer |-> enclave_signer, blockhash |-> slot]}
  /\ UNCHANGED <<programVars, mempool, ledger, strays, faults, enclave_signer,
                 recent_blockhash, active_orders, streamVars, pollVars, job>>

\* The cluster executes it, whether or not its sender still waits.
ExecuteRegistration(r) ==
  /\ ValidBlockhash(r.blockhash)
  /\ register_oracle(Payer, r.signer)
  /\ registrations' = registrations \ {r}
  /\ phase' = IF phase = "registering" /\ r = OwnRegistration
              THEN "registered" ELSE phase
  /\ UNCHANGED <<mempool, ledger, strays, faults, enclave_signer, register_blockhash,
                 recent_blockhash, active_orders, streamVars, pollVars, job>>

DropRegistration(r) ==
  /\ \/ ~ValidBlockhash(r.blockhash) /\ UNCHANGED faults
     \/ Fault
  /\ registrations' = registrations \ {r}
  /\ UNCHANGED <<programVars, workerVars, mempool, ledger, strays>>

\* The worker sees it confirmed; start() runs the watchers.
RegistrationConfirmed ==
  /\ phase = "registered"
  /\ phase' = "ready"
  /\ UNCHANGED <<programVars, netVars, enclave_signer, register_blockhash,
                 recent_blockhash, active_orders, streamVars, pollVars, job>>

\* It gives up when the blockhash has expired unexecuted (or, in the last slot of
\* the model, when the transaction is lost), and the process ends.
RegistrationExpires ==
  /\ phase = "registering"
  /\ \/ ~ValidBlockhash(register_blockhash)
     \/ slot = MaxSlot /\ OwnRegistration \notin registrations
  /\ WorkerDown
  /\ UNCHANGED <<programVars, netVars>>

\* One step after the other, each in its own phase.
Initialization ==
  \/ \E s \in Signer : Start(s)
  \/ InitializeOracleSigner
  \/ RegistrationConfirmed
  \/ RegistrationExpires

\* A failed initialization, a panic in a watcher (an unwrap in a provider, a
\* low payer balance), a watcher that returns, a kill: the process is gone
\* and with it everything but the transactions it sent.
Crash ==
  /\ phase # "down"
  /\ Fault
  /\ WorkerDown
  /\ UNCHANGED <<programVars, txVars>>

fetch_blockhash_and_slot ==
  /\ phase = "ready"
  /\ recent_blockhash # slot
  /\ recent_blockhash' = slot
  /\ UNCHANGED <<programVars, netVars, phase, enclave_signer, register_blockhash,
                 active_orders, streamVars, pollVars, job>>
-----------------------------------------------------------------------------
(* The event path: watch_anchor_events.                                    *)

\* watch_anchor_events is one loop: it neither reads the stream nor reconnects
\* while a fulfill_order of this path is awaited.
AwaitsStream == \A o \in OrderKey : job["event"][o].stage = "none"

Connecting == phase = "ready" /\ cursor = 0 /\ AwaitsStream

Subscribe(tries) ==
  /\ Connecting
  /\ cursor' = Len(logs) + 1
  /\ reconnect' = tries
  /\ UNCHANGED <<programVars, netVars, procVars, active_orders, pollVars, job>>

\* Mutant: a connection resets the counter but not the delay.
logs_subscribeKeepsDelay == Subscribe([reconnect EXCEPT !.retry_count = 0])

\* Only events emitted after logs_subscribe are streamed.
logs_subscribe == Subscribe(FirstTry)

\* The watcher sleeps and counts the failure; with the last one it returns,
\* which ends select!, run() and the process.  An outage is one fault, however
\* many attempts it defeats.
SubscribeFails ==
  /\ Connecting
  /\ IF reconnect = FirstTry THEN Fault ELSE UNCHANGED faults
  /\ LET failures == reconnect.retry_count + 1 IN
       \/ /\ failures < max_retries
          /\ reconnect' = [retry_count |-> failures,
                           delay |-> Min({2 * reconnect.delay, 5000})]
          /\ UNCHANGED <<procVars, active_orders, cursor, pollVars, job>>
       \/ /\ failures >= max_retries
          /\ WorkerDown
  /\ UNCHANGED <<programVars, txVars>>

\* The websocket closes: what it had not delivered is lost, and the watcher
\* reconnects at once.
Disconnect ==
  /\ phase = "ready"
  /\ cursor # 0
  /\ Fault
  /\ cursor' = 0
  /\ UNCHANGED <<programVars, txVars, procVars, reconnect, active_orders, pollVars,
                 job>>

Streaming == phase = "ready" /\ cursor # 0 /\ AwaitsStream

\* The next event this program has emitted.
NextEvent ==
  /\ Streaming
  /\ cursor <= Len(logs)
  /\ cursor' = cursor + 1
  /\ UNCHANGED reconnect

handle_price_request_event(e) ==
  /\ e.order \notin active_orders
  /\ active_orders' = active_orders \cup {e.order}
  /\ job' = [job EXCEPT !["event"][e.order] = NewJob(e.market, e.timestamp)]

RequestEvent ==
  /\ NextEvent
  /\ logs[cursor].type = "requested"
  /\ handle_price_request_event(logs[cursor])
  /\ UNCHANGED <<programVars, netVars, procVars, pollVars>>

\* handle_order_fulfilled_event only logs, and a request whose order is
\* already active is dropped.
IgnoreEvent ==
  /\ NextEvent
  /\ \/ logs[cursor].type = "fulfilled"
     \/ logs[cursor].order \in active_orders
  /\ UNCHANGED <<programVars, netVars, procVars, active_orders, pollVars, job>>

\* The subscription delivers the logs of every transaction that mentions the
\* program, and the loop tests neither their err nor which program wrote a word: a
\* request of a create_order that failed is handled like any other.  (One that is
\* dropped, or a stray fulfilled event, changes nothing.)
StrayEvent(e) ==
  /\ Streaming
  /\ Fault
  /\ strays' = strays \cup {e}
  /\ handle_price_request_event(e)
  /\ UNCHANGED <<programVars, mempool, registrations, ledger, procVars, streamVars,
                 pollVars>>
-----------------------------------------------------------------------------
(* The poll path: watch_open_order_accounts.                               *)

\* getProgramAccounts with the open_order filter; a failed call and an empty
\* answer both end the round.
fetch_open_order_accounts ==
  /\ phase = "ready"
  /\ poll = "idle"
  /\ open_orders' = {[order |-> o, market_name |-> orders[o].market_name,
                      open_timestamp |-> orders[o].open_timestamp] :
                       o \in {x \in OrderKey : IsOpen(x)}}
  /\ open_orders' # {}
  /\ poll' = "fetched"
  /\ UNCHANGED <<programVars, netVars, procVars, active_orders, streamVars,
                 job>>

\* A future for each of these orders.
Spawn(new) ==
  /\ phase = "ready"
  /\ poll = "fetched"
  /\ active_orders' = active_orders \cup {r.order : r \in new}
  /\ job' = [job EXCEPT !["poll"] =
       [o \in OrderKey |->
          IF \E r \in new : r.order = o
          THEN LET r == CHOOSE r \in new : r.order = o
               IN NewJob(try_from(r.market_name), r.open_timestamp)
          ELSE NoJob]]
  /\ poll' = "joining"
  /\ open_orders' = {}
  /\ UNCHANGED <<programVars, netVars, procVars, streamVars>>

\* Mutant: a future for every order of the answer, active or not.
SpawnFuturesForAll == Spawn(open_orders)

\* The answer arrives, possibly stale: a future for each order not yet active.
SpawnFutures == Spawn({r \in open_orders : r.order \notin active_orders})

\* join_all: every future has returned; these orders become available again.
Join(failed) ==
  /\ phase = "ready"
  /\ poll = "joining"
  /\ \A o \in OrderKey : job["poll"][o].stage \in {"none", "ok", "err"}
  /\ active_orders' = active_orders \ failed
  /\ job' = [job EXCEPT !["poll"] = [o \in OrderKey |-> NoJob]]
  /\ poll' = "idle"
  /\ UNCHANGED <<programVars, netVars, procVars, streamVars, open_orders>>

\* Mutant: the results of the futures are ignored.
JoinAllIgnoresErrors == Join({})

\* Fulfilled orders stay active for ever.
JoinAll == Join({o \in OrderKey : job["poll"][o].stage = "err"})

PollRound == fetch_open_order_accounts \/ SpawnFutures \/ JoinAll
-----------------------------------------------------------------------------
(* fulfill_order, on either path.                                          *)

\* The result of a future of the poll path is kept for JoinAll.
Resolve(p, o, result) ==
  job' = [job EXCEPT ![p][o] =
    IF p = "event" THEN NoJob ELSE [NoJob EXCEPT !.stage = result]]

\* Mutant: a failed order stays active on the event path.
ReturnKeepsActive(p, o, result) ==
  Resolve(p, o, result) /\ UNCHANGED active_orders

\* The future returns: the event path acts on the result at once.
Return(p, o, result) ==
  /\ Resolve(p, o, result)
  /\ active_orders' = IF p = "event" /\ result = "err"
                      THEN active_orders \ {o} ELSE active_orders

\* Pyth must have a price; the Coinbase feed's, if it has one, is averaged in.
get_price(m, t) ==
  PythPrice(m, t) \cup
    {(c + p) \div 2 : p \in PythPrice(m, t), c \in CoinbasePrice(m, t)}

PricedFor(p, o, timestamp) ==
  /\ job[p][o].stage = "pricing"
  /\ \E price \in get_price(job[p][o].market, timestamp) :
       job' = [job EXCEPT ![p][o].stage = "sending", ![p][o].price = price]
  /\ UNCHANGED <<programVars, netVars, procVars, active_orders, streamVars, pollVars>>

\* Mutant: the latest price instead of the price at the order's second.
GetPriceLatest(p, o) == PricedFor(p, o, unix_timestamp)

GetPrice(p, o) == PricedFor(p, o, job[p][o].timestamp)

\* The cluster knows the transaction's signature.  In the last slot one that failed
\* may be sent again: the next blockhash would make it another transaction.
Executed(tx) == \E r \in ledger : r.tx = tx /\ (r.ok \/ slot < MaxSlot)

\* The job's transaction, signed with the cached blockhash.
Signed(p, o) ==
  [job[p][o] EXCEPT !.stage = "confirming", !.signer = enclave_signer,
                    !.blockhash = recent_blockhash]

\* The RPC node simulates a transaction before it forwards it.
Preflight(tx) ==
  /\ ValidBlockhash(tx.blockhash)
  /\ ~Executed(tx)
  /\ FulfillOrder(tx.order, tx.market, Payer, tx.signer)

Send(p, o) ==
  /\ job[p][o].stage = "sending"
  /\ Preflight(TxOf(o, Signed(p, o)))
  /\ job' = [job EXCEPT ![p][o] = Signed(p, o)]
  /\ mempool' = mempool \cup {TxOf(o, Signed(p, o))}
  /\ UNCHANGED <<programVars, registrations, ledger, strays, faults, procVars,
                 active_orders, streamVars, pollVars>>

PreflightFails(p, o) ==
  /\ job[p][o].stage = "sending"
  /\ ~Preflight(TxOf(o, Signed(p, o)))
  /\ Return(p, o, "err")
  /\ UNCHANGED <<programVars, netVars, procVars, streamVars, pollVars>>

\* send_and_confirm_transaction sees the status at commitment processed.
Confirm(p, o) ==
  /\ job[p][o].stage = "confirming"
  /\ \E r \in ledger :
       /\ r.tx = TxOf(o, job[p][o])
       /\ Return(p, o, IF r.ok THEN "ok" ELSE "err")
  /\ UNCHANGED <<programVars, netVars, procVars, streamVars, pollVars>>

\* It gives up on a transaction whose blockhash has expired unexecuted.  The
\* clock of the model stops at MaxSlot: a transaction lost by then counts as
\* expired.
Expire(p, o) ==
  /\ job[p][o].stage = "confirming"
  /\ ~Executed(TxOf(o, job[p][o]))
  /\ \/ ~ValidBlockhash(job[p][o].blockhash)
     \/ slot = MaxSlot /\ TxOf(o, job[p][o]) \notin mempool
  /\ Return(p, o, "err")
  /\ UNCHANGED <<programVars, netVars, procVars, streamVars, pollVars>>

\* Any await of fulfill_order may fail, and its `?` returns the error: the
\* price fetch, the send, or a status query - when the transaction may still
\* be executed, or already has been.
FulfillFails(p, o) ==
  /\ job[p][o].stage \in {"pricing", "sending", "confirming"}
  /\ Fault
  /\ Return(p, o, "err")
  /\ UNCHANGED <<programVars, txVars, procVars, streamVars, pollVars>>

FulfillStep(p, o) ==
  \/ GetPrice(p, o) \/ Send(p, o) \/ PreflightFails(p, o)
  \/ Confirm(p, o) \/ Expire(p, o)
-----------------------------------------------------------------------------
(* The cluster.                                                            *)

\* A transaction is executed at most once, while its blockhash is valid, and
\* fails unless all constraints of FulfillOrder hold at that moment.
Execute(tx) ==
  /\ ValidBlockhash(tx.blockhash)
  /\ ~Executed(tx)
  /\ mempool' = mempool \ {tx}
  /\ \/ /\ fulfill_order(tx.order, tx.market, tx.price, Payer, tx.signer)
        /\ ledger' = ledger \cup {[tx |-> tx, ok |-> TRUE]}
     \/ /\ ~FulfillOrder(tx.order, tx.market, Payer, tx.signer)
        /\ ledger' = ledger \cup {[tx |-> tx, ok |-> FALSE]}
        /\ UNCHANGED programVars
  /\ UNCHANGED <<workerVars, registrations, strays, faults>>

\* A transaction is forgotten when its blockhash has expired, or is lost.
Drop(tx) ==
  /\ \/ ~ValidBlockhash(tx.blockhash) /\ UNCHANGED faults
     \/ Fault
  /\ mempool' = mempool \ {tx}
  /\ UNCHANGED <<programVars, workerVars, registrations, ledger, strays>>

\* Any other authority may register its oracle, and answer while it is the current one.
OtherOracle(a, s) ==
  \/ register_oracle(a, s)
  \/ \E o \in OrderKey, p \in Price : fulfill_order(o, orders[o].market, p, a, s)

\* Users, the operator, other oracles, and the clock.
Environment ==
  /\ \/ initialize
     \/ \E o \in OrderKey, m \in Market : create_order(o, m)
     \/ \E a \in Authority \ {Payer}, s \in Signer : OtherOracle(a, s)
     \/ ClockTick
  /\ UNCHANGED <<workerVars, netVars>>

Next ==
  \/ Environment
  \/ Initialization
  \/ \E r \in registrations : ExecuteRegistration(r) \/ DropRegistration(r)
  \/ Crash
  \/ fetch_blockhash_and_slot
  \/ logs_subscribe
  \/ SubscribeFails
  \/ Disconnect
  \/ RequestEvent
  \/ IgnoreEvent
  \/ \E e \in Stray : StrayEvent(e)
  \/ PollRound
  \/ \E p \in Path, o \in OrderKey :
       FulfillStep(p, o) \/ FulfillFails(p, o)
  \/ \E tx \in mempool : Execute(tx) \/ Drop(tx)

\* Kubernetes restarts the process, start_routine's intervals and tokio poll every
\* watcher again and again, requests are assumed to end, and a transaction that is
\* not lost is executed or expires as the clock moves on.  Users, the operator,
\* other oracles and faults owe nothing.
Fairness ==
  /\ WF_vars(Initialization)
  /\ WF_vars(\E r \in registrations : ExecuteRegistration(r))
  /\ WF_vars(fetch_blockhash_and_slot)
  /\ WF_vars(PollRound)
  /\ WF_vars(RequestEvent \/ IgnoreEvent)
  /\ \A p \in Path, o \in OrderKey : WF_vars(FulfillStep(p, o))
  /\ WF_vars(\E tx \in mempool : Execute(tx))
  /\ WF_vars(ClockTick /\ UNCHANGED <<workerVars, netVars>>)

Spec == Init /\ [][Next]_vars

FairSpec == Spec /\ Fairness
-----------------------------------------------------------------------------
(* Properties.                                                             *)

\* The counter and the delay of watch_anchor_events are reset together, so every
\* failure in a row waits twice as long as the one before.  The watcher gives up
\* at max_retries failures, before the cap of 5 seconds bites.
BackoffDoubles == reconnect.delay = 500 * 2 ^ reconnect.retry_count

HasJob(p, o) == job[p][o].stage # "none"

\* An order is submitted by one future at a time: active_orders keeps the
\* event path and a poll working from a stale snapshot apart, although each
\* learns of the order on its own.
SingleFlight ==
  \A o \in OrderKey :
    /\ HasJob("event", o) => ~HasJob("poll", o) /\ o \in active_orders
    /\ HasJob("poll", o) => o \in active_orders

\* active_orders is never cleared of fulfilled orders and both paths skip what
\* is in it, so an order that sits there while no future works on it will not
\* be tried again.  That is right only if it is closed on chain.
NoStrandedOrder ==
  \A o \in OrderKey :
    o \in active_orders /\ ~HasJob("event", o) /\ ~HasJob("poll", o) => IsClosed(o)

\* A closed order carries a price of its own market at its own second.
PriceIsForOrder ==
  \A o \in OrderKey :
    IsClosed(o) =>
      orders[o].oracle_price \in get_price(orders[o].market, orders[o].open_timestamp)

\* The worker has been asked for a price of market m at second t for order o: by
\* the order's own account, or by an event of a transaction that did not create it.
Asked(o, m, t) ==
  \/ orders[o].exists /\ m = orders[o].market /\ t = orders[o].open_timestamp
  \/ [order |-> o, market |-> m, timestamp |-> t] \in strays

PricesAsked(o) ==
  UNION {get_price(orders[o].market, t) :
           t \in {u \in Time : Asked(o, orders[o].market, u)}}

\* While the worker's account is the current oracle, only what it was asked for may
\* answer an order; the program takes any price from another one.
AcceptablePrices ==
  [o \in OrderKey |-> IF program.oracle = Payer THEN PricesAsked(o) ELSE Price]

Backfill == INSTANCE BackfillService WITH book <- Book, acceptable <- AcceptablePrices

\* Program, worker, retries, restarts, late transactions and other oracles together
\* keep the service's promise: one answer, and as long as the worker's account is
\* the current oracle a price of the order's market, at the second it was opened in
\* or one that a failed create_order asked for in its name.
ImplementsBackfill == Backfill!ServiceSafety

\* The program names the worker's oracle and, once it is ready, its key.
Accepted ==
  /\ program.oracle = Payer
  /\ phase = "ready" => oracles[Payer].enclave_signer = enclave_signer

\* README.md: the worker "constantly watch[es] the chain and fulfill[s] orders".
\* Every open order is eventually closed, through failed calls, lost and late
\* transactions, restarts and stray events, unless another oracle's registration or a
\* late one of an earlier process locks the worker out for good.
EveryOrderAnswered == <>[]Accepted => Backfill!ServiceLiveness
=============================================================================
