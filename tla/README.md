# Backfill oracle: a TLA+ verification project

TLA+ models of the backfill oracle: the Solana program that keeps orders and the
off-chain worker that answers them, from its sealed key and its price feeds to the
transactions it sends. TLC checks the models on small instances; TLAPS proves every
safety property and every refinement that holds for every instance (section 4).

## 1. The system

| Component | Source | State | Operations |
| --- | --- | --- | --- |
| Program | `programs/backfill-oracle/src/lib.rs` | PROGRAM, market, oracle and order accounts; emitted events | `initialize`, `register_oracle`, `create_order`, `fulfill_order` |
| Worker | `switchboard-function/src/worker.rs` | enclave key, cached blockhash, `active_orders`, event stream, futures of `fulfill_order` | start and registration, `watch_anchor_events`, `watch_open_order_accounts`, `fetch_blockhash_and_slot`, `fulfill_order`, `get_price`, payer balance |
| Price cache | `switchboard-function/src/cache.rs` | map from second to a shared, locked cell | `get`, `set` |
| Pyth provider | `providers/pyth.rs` | one cache per market | poll latest prices into `set`, fetch one second for `get`, fixed-point conversion |
| Coinbase provider | `providers/coinbase.rs` | expiring map of per-second averages, bounded channel | websocket reader, averaging |
| Key and environment | `env.rs` | sealed key file, payer secret | `load_enclave_signer`, `get_payer` |
| Supervision | `main.rs`, `utils.rs` | process | `run` under `select!`, signals, shutdown, `start_routine` |
| Deployment | helm chart, `Dockerfile`, `configs/` | pods | restart, rolling update |
| Scripts, tests | `scripts/`, `tests/` | none of their own | send `initialize` and `create_order`, print metrics |

How they interact. A user sends `create_order`; the program stamps the order with
the cluster's second and emits `OraclePriceRequestedEvent`. The worker learns of
the order twice: from the log subscription (event path) and from
`getProgramAccounts` filtered on `open_order` (poll path). The shared set
`active_orders` is what keeps the two paths apart. Either path awaits
`fulfill_order`: price from the caches, sign with the cached blockhash, send, await
confirmation at commitment *processed*. The program accepts the answer if the order
is open, the oracle is the one PROGRAM names and its enclave key signed.

What is hard here: all watchers run in one `select!` and interleave at every
await; the two paths work from stale information; a transaction whose confirmation
failed can still execute after the order was retried; the process can die between
any two steps while its transactions, a registration included, live on; a rolling
update runs two workers with one payer; anybody may register an oracle of his own; the
log stream carries failed transactions too; everything is read at a commitment that a
fork can undo; and prices come from a poll, a fetch and a stream whose caches expire
at different times. The hazards, each at its line and with the
properties that cover it, are in `PROJECT.json`.

What makes each part correct:

- program: an order is answered once; its market and second are fixed; events and
  accounts agree; an open order can always be answered by somebody;
- worker: one future per order at a time; an order is dropped from consideration
  only when it is closed; the price submitted is one the order, or an event under its
  key, has asked for; every order is eventually answered while the worker is accepted;
- cache: one fetch per second at a time; a stored price is not overwritten by a
  late fetch; calls never hang;
- key, registration, supervision: a ready worker holds the key its oracle account
  names; a worker that cannot pay ends; on Kubernetes one comes up in the end;
- providers: the average of a second is the average of its ticks; a price is in 9
  decimals and of the second asked for; a dead stream is noticed.

## 2. Modules

| Module | Models | Extends |
| --- | --- | --- |
| `BackfillService` | the promise to users: `Place`, `Answer` with an acceptable price, liveness | |
| `BackfillProgram` | the program: one operator per account struct (`FulfillOrder` is the constraint set) and one action per instruction (`fulfill_order`) | instance of `BackfillService` |
| `OracleSystem` | the worker, the transaction network, the log stream, other oracles | `BackfillProgram`, instance of `BackfillService` |
| `ForkedSystem` | the same worker on a cluster that abandons forks | `OracleSystem` |
| `PriceMap` | what a cache promises: `Put`, `Ask`, `Answer`, `Resolve`, `Fail` on a map from seconds to prices | |
| `TimestampCache` | the cache of one market, with its cells and locks | instance of `PriceMap` |
| `WorkerLifecycle` | key file, registration as a transaction, payer balance, restarts, rolling update | `BackfillProgram` |
| `PriceFeeds` | both providers and `get_price` | |
| `MC*` | constants for TLC | the module of the same name |
| `BackfillProgramProofs`, `TimestampCacheProofs`, `PriceFeedsProofs` | theorems and proofs | the module proved about |
| `OracleSystemProofs`, `ForkedSystemProofs`, `WorkerLifecycleProofs` | theorems and proofs | the module proved about and the proofs of the module it builds on |

**BackfillProgram.** An instruction is atomic: all account constraints hold and
all assignments happen, or nothing does. PDAs are injective, so an oracle account is
named by its authority and a market account by its market. `logs` holds every
event in order. Fields that nothing reads are left out. Clock assumptions:
slots increase by one, a second never runs backwards and never ahead of the slots.

**OracleSystem.** A stretch between two awaits is one action. `job[path][order]`
is a future of `fulfill_order` with its arguments, price and signature:
`GetPrice` (from `get_price`), then `Send` or `PreflightFails`, then `Confirm`,
`Expire` or `FulfillFails`. The event path removes a failed order from
`active_orders` at once (`Return`), the poll path only after `join_all`
(`JoinAll`). `cursor` is the read position of the subscription; `logs_subscribe`
starts at the end of the log and `Disconnect` loses the rest. `reconnect` holds the
retry counter and delay of `watch_anchor_events`: after 500, 1000 and 2000 ms the third
failure in a row ends the watcher and with it the worker (`SubscribeFails`), so the
5 second cap and the test before the sleep (worker.rs:489) are never reached. An outage
is one fault, however many attempts it defeats. Transactions sit in
`mempool` until they execute, expire or are lost; `ledger` is the cluster's status
cache, which also rejects a second copy of the same transaction. `Crash` stands for
everything that ends the process: failed initialization, a panic, a watcher that
returns, a kill. `Start` picks any enclave key, because the sealed file may or may
not be readable. `InitializeOracleSigner` sends `register_oracle`; the transaction waits in
`registrations` and may execute (`ExecuteRegistration`) before its sender sees it
(`RegistrationConfirmed`), after the sender is gone, or never. It is sent on every start:
the worker decodes the oracle account without skipping its discriminator, so "Enclave
signer already set, skipping" (worker.rs:217) is never reached and each start pays a fee.

The stream delivers the logs of every transaction that mentions the program, and the
worker tests neither `event.value.err` nor which program wrote a word (worker.rs:451).
`RequestEvent` and `IgnoreEvent` take the program's own events in order; `StrayEvent`
takes a request from `Stray`, those found in logs of transactions that created no order,
at any time. `OtherOracle` lets every other authority register (`lib.rs:250`), which
displaces the worker's oracle, and answer orders with any price while it is the current
one. `AcceptablePrices` is therefore a variable of `BackfillService`: while the worker's
account is the current oracle, the prices `Asked` for under the order's key (the account's
second, or that of a stray event for the order's market), otherwise any.
`get_price(m, t)` is the set of possible results: Pyth's price, or its average with
a Coinbase price if one is cached.

**ForkedSystem.** `Fork` returns order accounts and executed transactions to the
last rooted state. What the worker has been told stays told. Undone answers may be
rebroadcast; an undone `create_order` may be sent again, for another market or in a
later second. `initialize` and `register_oracle` are taken to be rooted. Stray events and
other oracles are those of `OracleSystem`; `PriceWasRequested` speaks of the worker's
transactions, which `ledger` holds.

**TimestampCache.** Each call of `get()` is `Entry` (clone the cell's Arc out of
the map), `Read` (read lock), `Lock` (write lock and second look), then `FetchOk`
or `FetchFails`. What others see of it is a `PriceMap` (`ImplementsPriceMap`): the map is
what the current cells hold, and a call that shares a cell with the one that fetches finds
its price. A network error inside the fetch function is an `unwrap` that ends
the process, so it is not a cache behaviour; `FetchFails` is an HTTP error status.

**WorkerLifecycle.** `platform` says where the worker runs. On a host (`cargo run`)
there is one pod and its key file is kept. On Kubernetes the chart mounts no volume at
`/data`, so the file is lost with every container (`Restart`), and `Rollout` creates
the next pod while the last one runs (maxSurge 1, maxUnavailable 0); there is no
readiness probe, so `on_shutdown_requested` may stop the old pod as soon as the new
process runs. `load_enclave_signer` follows the code's branches on the file: 64 bytes
are loaded, anything else is left in place and a new key is appended; opening, reading
or writing may fail (`FileFault`). The oracle account is a sequence of 8-byte words, so
that `deserialize`, which starts at the discriminator, reads what the code reads.
`OtherRegisters` is the first registration of another authority. `register_oracle` goes
into `pending` and may execute when its sender is gone. The
balance is counted in fees of 10000 lamports, the limit at which
`fetch_payer_balance` panics. `Ends` is any failure of `run()`; the third failed
subscription of `OracleSystem` is one of them.

**PriceFeeds.** The websocket task (`ReadFrame`, `StreamEnds`) and the averaging loop
(`Average`, `SkipFrame`, `WatchReturns`) share the bounded channel. `temp_store` and
`coinbase` entries carry the time they were written; an expired entry counts as none.
`fetch` is one poll of Pyth and `FetchFails` its failure, which `watch` unwraps. A call of
`get_price` looks at the Pyth cache (`CallPrice`) and goes on with the price it finds
(`GetPyth`), or waits: one waiting call fetches for all who wait for the second
(`FetchPyth`), without overwriting a price a poll has stored meanwhile, or gets an error
(`GetPythFails`). After a further await, `Combine` reads Coinbase's average; the sum is
checked and its overflow ends the process. The cells and locks behind the Pyth cache are in
`TimestampCache`; nothing is claimed here of the map it makes of them. Quotes are
decimal numbers, converted as `to_fixed_precision` and `to_u64_price` do; the latter multiplies in f64 and truncates,
which may lose a unit. Arithmetic wraps at `Wide`, as in the release build of the
worker (its workspace sets no overflow checks).

Definitions whose comment begins with "Mutant:" are deliberately wrong variants.
No specification uses them; each shows that a property would notice that mistake.

## 3. Runs

| Run | Result | Bounds |
| --- | --- | --- |
| `program` | all six properties hold | 2 authorities, 2 keys, 2 orders, 2 markets, 2 prices, 3 slots |
| `register` | `RegisteredOracleIsCurrent` violated | as `program`, 1 slot |
| `system` | type, `SingleFlight`, `NoStrandedOrder`, `ImplementsBackfill` hold | 2 orders, 1 market, 1 authority, 2 keys, 8 stray events (2 markets, 2 seconds), 2 slots, 1 fault, blockhash valid one slot longer, with and without Coinbase |
| `answered` | `BackoffDoubles`, `ImplementsBackfill`, `EveryOrderAnswered` hold | 1 order, 2 authorities, 2 keys, 2 stray events, 2 slots, 1 fault, blockhash valid in its slot |
| `fork` | `PriceWasRequested`, `RootedAnswerFinal` hold | 1 order, 2 markets, 2 authorities, 1 key, 1 stray event, 2 slots, 1 fault |
| `fork_liveness` | `NoOrderOpenForever` violated | as `fork`, 1 market, 1 authority, no stray event |
| `fork_price` | `PriceIsForOrder` violated | as `fork`, 1 market, 1 authority, no stray event |
| `cache` | type, `SingleFetch`, `GettersAgree`, `LateFetchKeepsPrice`, `ImplementsPriceMap`, `EveryGetReturns` hold | 3 calls, 2 seconds, 2 prices, 2 sets |
| `cache_set` | `ResolvedOnce` violated | 2 calls, 1 set |
| `lifecycle` | type, `SealedKeyServes`, `LowFundsEndWorker`, `WorkerComesUp` hold | both platforms, 2 authorities, 2 pods, key of 2 bytes, 2 slots, 3 fees, 1 fault, 1 file fault |
| `rollout` | `LastWorkerServes` violated | as `lifecycle`, 1 authority, no faults at all |
| `feeds` | type, `AverageExact`, `AnswerWithinQuotes`, `DeadFeedEndsWorker` hold | 2 markets with different exponents, 1 second, 3 frames, channel of 2, sums kept 1 tick and averages 2 of a clock of 2, 2 decimals, integers that wrap at 2048, 1 call |

Why the bounds are enough. Two orders are the least that occupy the sequential
event path and the `join_all` barrier at once; two keys the least for a restart with
a new one; `BlockhashAge` 0 makes a cached blockhash expire, 1 lets a transaction
outlive the attempt that sent it. One fault is one crash, outage, failed call, lost
transaction, fork or stray event; what follows from it (an unconfirmed transaction that
lands later, a restart with another key, a retry) costs nothing more. The stray events of
`system` ask for the order's market and for another, in the order's second and in others.
Other authorities are left to `answered` and `fork` because of the size of `system`; the
theorem on `ImplementsBackfill` is for any number of them. A key of two bytes is the
shortest that can be cut short. One file fault is a limit of size: on Kubernetes the file
is lost with its container, so that file faults of one process do not reach the next.
Three frames in a channel of two fill it, and the clock outlasts both expiries. One call of
`get_price` races the polls there; calls that share a fetch are run in `cache`. `MaxSlot`
stops the clock; because it does, `Expire` counts a transaction that was lost at the last slot as
expired, as it would be one slot later.

The stopped clock has a second effect. A worker that comes back with a key it had before
would build the very transaction, blockhash included, that the cluster has already
executed and failed, and could never send it; on a real cluster the next blockhash makes it
a different one. In the last slot `Executed` therefore counts successes only.

`CHECK_DEADLOCK FALSE` appears where the system really comes to rest: all orders
answered (or stranded, in the fork runs) and the bounded clock stopped, or all calls
of the cache returned, or the worker of `feeds` ended, or the payer's funds used up.

**Fairness.** The worker's own steps are weakly fair: `start_routine` fires its
watchers at fixed intervals and tokio polls every future of `select!` and `join_all`
that can move. In `OracleSystem` the process is restarted, as Kubernetes does. A
transaction that stays executable is executed and the clock moves. Nothing is assumed of
users, of the operator, of other authorities, of the websocket (`logs_subscribe` is not
fair: the poll path alone must suffice) or of faults, which are finite in number. Stray
events are among them: the event path awaits each, and a stream that never stopped bringing
them could claim an order ahead of every poll. Requests are
assumed to end; `reqwest::get` (pyth.rs:46) is called without a timeout, so this is an
assumption on the network and not a fact of the code. In the cache, tokio's RwLock
queues its waiters in order. In `lifecycle` Kubernetes restarts processes and completes an
update it has begun; on a host the repository has nothing that restarts `cargo run`
(main.rs:80-91 only ends the process), so nothing is owed there and `WorkerComesUp` excepts
the host. Updates, answers, faults and other registrations are owed by nobody. In `feeds`
only the averaging loop is fair: the stream and the poll may stop.

`EveryOrderAnswered` has the hypothesis that from some time on the program names the worker's
oracle and, whenever the worker is ready, its key (`Accepted`). Both can fail without any
fault of the cluster: another authority registers, or a `register_oracle` of an earlier
process with another key lands late (finding 5), and then the worker is locked out.

### Findings

1. `register`: an authority that registers again does not become the current
   oracle, `program.oracle` is written only while `oracle.bump == 0` (lib.rs:94).
   README.md:38 says that a registered oracle is the only one accepted.
2. `cache_set`: `set()` replaces a resolved price (cache.rs:36), against
   "Values in the map can only be resolved once" (cache.rs:18). The
   theorem `GetResolvesOnce` shows that the sentence is true of `get()`.
3. `fork_liveness`: a confirmed order is kept in `active_orders` for ever
   (worker.rs:514). When the fork that confirmed it is abandoned, the order is open
   again and no path tries it until the process restarts.
4. `fork_price`: the worker prices the timestamp of an event that a fork can undo. If
   the order is created again in a later second, it is closed with the price of the
   earlier one; the program has no timestamp in `FulfillOrderParams` to compare.
   A fork is not the only way: a `create_order` that fails after it has emitted its event
   and is sent again in a later second has the same effect, which is why
   `ImplementsBackfill` promises a second that was asked for and not the order's own.
   `PriceWasRequested` says what forks leave of that promise.
5. `rollout`: the last `register_oracle` to execute decides which key is accepted. In a
   rolling update the old pod's may execute after the new pod's, and the new worker,
   which never looks again, stays ready and has every answer refused until it is
   restarted. No failure is needed. On a host the sealed key makes this impossible
   (`SealedKeyServes`): the late transaction carries the same key.

## 4. Proofs

**BackfillProgramProofs**, from `ProgramAssumption` only (keys differ from
`Pubkey::default()`, markets are `MarketType`s, prices are naturals). The inductive
invariant `ProgramInv` adds to the properties:

- `OpenedInThePast`: no order is stamped later than the clock. Without it not even
  the type invariant is inductive, since the latencies are differences;
- `LogsAgree`: an account exists iff its request is in the log, and is closed iff its
  fulfilment is. It makes `FulfilledAtMostOnce` inductive: an open order has no
  fulfilment yet;
- `OracleReady`: the oracle PROGRAM names has a key, the markets exist with PROGRAM,
  and orders exist only after a registration.

Proved: `ProgramTyping`, `FulfilledOnce`, `EventsReplay`, `MarketNames`,
`OpenOrdersFulfillable`, and `ProgramImplementsService`, that `create_order` is
`Place`, `fulfill_order` is `Answer` and every other step leaves the book alone.

**TimestampCacheProofs**, from `CacheAssumption` (None and Err are not prices, None
is no call and no number). `CacheInv` adds: a fetching call is the writer of its
cell, and the cell is empty; the map has a cell for every second asked for; all calls
for one second that hold an empty cell hold the same one. The last part is the point:
`set()` can detach a cell from the map while a call holds it, but what it puts there
has a price, so no second empty cell for that second can appear. Proved: `CacheTyping`,
`OneFetchPerSecond`, `LateFetch`, and `GetResolvesOnce` for `MaxSets = 0`. `CallsAgree`
(`GettersAgree`) needs `HoldsCurrent` too: as long as set() has not run, every call
holds the cell the map has now and has returned the price in it.
`CacheImplementsMap` (`ImplementsPriceMap`) needs `CellsApart`: no cell is ever shared
between two seconds, the detached ones included. Then resolving a cell is one step of the
map: it is seen by the calls waiting for one second, and changes the map exactly if the
cell is still the current one.

**OracleSystemProofs**, from `SystemAssumption` (every result of `get_price` is a
price, the payer is an authority). Each step of the worker is a step of the program
or leaves it alone (`SystemRunsProgram`), so `ProgramInv` carries over.
`SystemInv` adds, in three groups:

- the futures: a worker that is not down has a key, a future past `get_price` has a
  price, and the poll path has futures only while it joins them. This and the test of
  `active_orders` on both paths make `SingleFlight` inductive;
- `SuccessMeansClosed`: a transaction that `ledger` records as a success, and a poll
  future that returned Ok, have closed their order. This is why keeping an order in
  `active_orders` after a confirmation strands nothing;
- `EventsFaithful`, `AnswerFaithful`: what the program's own log and a stale answer of
  `getProgramAccounts` say of an order agrees with its account. This rests on
  `create_order` writing an order's market and second once. Of a stray event nothing of the
  kind is true; `JobsAsked` and `TxsAsked` say what is left: every future, every
  transaction under way and every one executed has a price its order was `Asked` for, by
  its account or by a stray event. What was asked for stays so (`AskedStays`), through
  crashes, restarts and registrations, and so the answer that closes an order while the
  worker's account is the current oracle is an acceptable one, however late it lands.

Proved: `SystemTyping`, `OneFutureAtATime`, `NothingStranded`, `Backoff` and
`SystemImplementsBackfill`, for any set of stray events and any number of authorities.

**ForkedSystemProofs**, from the same assumptions. `SuccessMeansClosed` and the
faithfulness of what the worker knows are lost with the first fork, and so is the
agreement of log and accounts. `ForkInv` keeps what does not depend on them and adds
`RootedInThePast` (a fork returns to a state the program has been in) and
`RootedIsProcessed` (an answer that is rooted is the one the account shows). `RequestInv` says
what replaces faithfulness: the log only grows, and every account, rooted or not, every
stale answer of `getProgramAccounts`, every future and every transaction, executed or not,
is for a market and second that the log, or a stray event the worker has read, has a request
for under that order's key. Proved:
`OneFutureDespiteForks`, `PricesWereRequested` (`PriceWasRequested`) and
`RootedAnswersFinal`.

**WorkerLifecycleProofs**, from `LifecycleAssumption` (keys are numbers, there is a pod,
a key has at least one byte), for any number of pods, faults and bytes of a key.
`LifecycleTyping` needs that a process past `OracleWorker::new` has a key. `SignerNeverFound`
is the lemma about the skipped discriminator: the words that `deserialize` takes for the
enclave key begin with the last word of the authority, so no key equals them and every
start sends a registration. `SealedKeyIsServed` (`SealedKeyServes`) needs `HostInv`: on a
host whose file has not failed, either no key is sealed, held, pending or registered, or the
key in the file is the only one of the payer's anywhere, and the payer's oracle is the
program's unless another authority has registered. The transaction that outlives its sender is the
reason for "pending" in that sentence. `LifecycleRunsProgram`: the worker's life
changes the chain through the program's instructions only.

**PriceFeedsProofs**, from `FeedAssumption`. `FeedTyping` (all sums and prices are u64s,
since arithmetic wraps) needs the types of what was heard and of the calls. Two theorems
have the hypothesis `QuotesFit`: a Pyth quote with all its decimals, and `MaxFrames` times the
largest tick, fit into the worker's integers. Without it the sums wrap and both
properties are false. For a u64, 9 decimals and prices around 10^5 a tick is about
10^14, so the sum of a second has room for more than 10^5 ticks; `MCPriceFeeds`
assumes `QuotesFit`, so that TLC evaluates it for `feeds`.

- `AnswersWithinQuotes` (`AnswerWithinQuotes`): `QuoteInv` adds that Pyth's
  map holds what a quote of that market and second is worth; a sum of n ticks lies
  between n times two ticks heard for its second, also after an expiry restarted it; and
  so does an average, also when its sum has expired. Between two ticks, unlike equal to
  their mean, is a statement that one more tick preserves by arithmetic alone.
- `AveragesExactly` (`AverageExact`): without a gap, the sum in `temp_store` is the sum of
  all ticks heard, their number is the length of that sequence, and the entry was last
  written with the last of them. The sum over a sequence is a recursive function, of which
  the prover knows nothing until one exists; that the ticks heard *have* such a
  function (`HasSum`) is part of the inductive invariant: one more tick extends it by
  one point, and two of them cannot differ.

**Only model-checked:**

- the liveness properties (`EveryOrderAnswered`, `EveryGetReturns`,
  `LowFundsEndWorker`, `WorkerComesUp`, `DeadFeedEndsWorker`): fairness and ENABLED are
  outside what the prover handles.

## 5. Not modelled, and the plan

Not modelled:

- HTTP, JSON and websocket framing, logging, account rent;
- `WorkerEnvironment::parse`, `get_payer` and `get_program_id`: configuration read once,
  an error of which keeps the worker from starting at all; `get_market_name_bytes`,
  which nothing calls;
- Pyth exponents outside -9 to -1, for which `to_fixed_precision` scales the wrong way
  (`FeedAssumption` excludes them; the three feeds publish -8);
- a connection error inside `fetch_pyth_price` in `PriceFeeds`: its `unwrap` ends the
  process and is `Crash` in `OracleSystem`;
- a request that never returns, and a stream in which stray events never end;
- forks of `initialize` and `register_oracle`;
- scripts that only send instructions and print, images, the enclave manifest.

What could follow: forks of `register_oracle`; a theorem on which pod's key is accepted after a rolling update
whose registrations execute in order, the counterpart of finding 5.
