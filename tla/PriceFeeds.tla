----------------------------- MODULE PriceFeeds -----------------------------
(***************************************************************************)
(* Where the worker's prices come from: the Coinbase provider, a task that *)
(* reads the websocket into a bounded channel and a loop that averages the *)
(* ticks of each second (providers/coinbase.rs); the Pyth provider, which  *)
(* polls the latest prices and fetches missing ones (providers/pyth.rs);   *)
(* and get_price, which combines the two (worker.rs).  The cache of each   *)
(* Pyth feed is a map here; TimestampCache has its cells and locks.        *)
(*                                                                         *)
(* A Pyth quote is price * 10^expo, a Coinbase quote digits / 10^places.   *)
(* Both are converted to units of 10^-Decimals in u64.                     *)
(***************************************************************************)
EXTENDS Integers, Sequences

CONSTANTS
  Market,           \* the markets both providers follow
  Second,           \* the seconds prices are for
  PythQuote(_, _),  \* what Pyth may report for a market and a second
  Tick,             \* the quotes of Coinbase's ticker
  Call,             \* calls of get_price
  None,             \* no price
  Decimals,         \* 9 in the code
  Wide,             \* 2^64 in the code: integers wrap in a release build
  Capacity,         \* of the channel, 1000 in the code
  StoreTTL,         \* of temp_store, 60 seconds in the code
  CacheTTL,         \* of the price cache, 3600 seconds in the code
  MaxTime,          \* bound: the clock stops here
  MaxFrames         \* bound: frames the websocket delivers

ASSUME FeedAssumption ==
  /\ {Decimals, Wide, Capacity, StoreTTL, CacheTTL} \subseteq Nat \ {0}
  /\ {MaxTime, MaxFrames} \subseteq Nat
  /\ Tick \subseteq [digits : Int, places : Nat]
  /\ \A m \in Market, t \in Second :
       PythQuote(m, t) \subseteq [price : Nat, expo : -Decimals .. -1]
  /\ None \notin Nat \cup Market

VARIABLES
  up,          \* the process runs
  now,         \* the clock of the two expiries
  reader,      \* the spawned task: running, or ended with its stream
  channel,     \* frames sent to the averaging loop
  frames,      \* how many there have been
  temp_store,  \* sum and number of the ticks of each second
  coinbase,    \* the averages get_price reads
  pyth,        \* the resolved Pyth prices
  call,        \* calls of get_price
  heard        \* history: the ticks averaged for each second, with their time

averageVars == <<temp_store, coinbase, heard>>
loopVars == <<channel, averageVars>>
vars == <<up, now, reader, frames, loopVars, pyth, call>>

\* A ticker message, or a frame that is none (an acknowledgement, another
\* product).
Frame == [market : Market, second : Second, quote : Tick] \cup {None}

U64 == 0 .. Wide - 1
OptionU64 == U64 \cup {None}

FeedTypeOK ==
  /\ up \in BOOLEAN
  /\ now \in 0 .. MaxTime
  /\ reader \in {"running", "ended"}
  /\ channel \in Seq(Frame) /\ Len(channel) <= Capacity
  /\ frames \in 0 .. MaxFrames
  /\ temp_store \in
       [Market -> [Second -> [total : U64, num : Nat, at : 0 .. MaxTime]]]
  /\ coinbase \in
       [Market -> [Second -> [price : OptionU64, at : 0 .. MaxTime]]]
  /\ pyth \in [Market -> [Second -> OptionU64]]
  /\ call \in
       [Call -> [pc : {"idle", "pyth", "coinbase", "ok", "err", "panicked"},
                 market : Market \cup {None}, second : Second \cup {None},
                 found : OptionU64, price : OptionU64]]

NoCall ==
  [pc |-> "idle", market |-> None, second |-> None, found |-> None, price |-> None]

\* The subscription has been sent, and nothing has been heard.
CoinbaseInit ==
  /\ reader = "running"
  /\ channel = <<>>
  /\ frames = 0
  /\ temp_store = [m \in Market |->
                     [t \in Second |-> [total |-> 0, num |-> 0, at |-> 0]]]
  /\ coinbase = [m \in Market |-> [t \in Second |-> [price |-> None, at |-> 0]]]
  /\ heard = [m \in Market |-> [t \in Second |-> <<>>]]

PythInit == pyth = [m \in Market |-> [t \in Second |-> None]]

FeedInit ==
  /\ CoinbaseInit
  /\ PythInit
  /\ up = TRUE
  /\ now = 0
  /\ call = [c \in Call |-> NoCall]
-----------------------------------------------------------------------------
(* Conversions.                                                            *)

\* (10u64).pow(n as u32): a negative n becomes an exponent of at least 2^31, for
\* which the power wraps to 0.
Pow10(n) == IF n < 0 THEN 0 ELSE (10 ^ n) % Wide

\* Mutant: the price is scaled by its exponent, not by the difference.
to_fixed_precisionUnscaled(q) == (q.price * Pow10(-q.expo)) % Wide

to_fixed_precision(q) ==
  IF q.expo < 0
  THEN (q.price * Pow10(Decimals + q.expo)) % Wide
  ELSE q.price \div Pow10(Decimals - q.expo)

Exact(q) == (q.digits * 10 ^ Decimals) \div (10 ^ q.places)

\* The possible results; none for a negative or too large price.  The product in
\* f64 is truncated and may come out one unit short.
to_u64_price(q) ==
  {v \in {Exact(q), Exact(q) - 1} : q.digits >= 0 /\ v \in U64}
-----------------------------------------------------------------------------
(* CoinbaseProvider::watch.                                                *)

Forward(f) ==
  /\ up /\ reader = "running"
  /\ frames < MaxFrames
  /\ frames' = frames + 1
  /\ channel' = Append(channel, f)
  /\ UNCHANGED <<up, now, reader, averageVars, pyth, call>>

\* Mutant: the channel is not bounded.
ReadFrameUnbounded(f) == Forward(f)

\* The spawned task forwards a frame; tx.send waits while the channel is full.
ReadFrame(f) == Len(channel) < Capacity /\ Forward(f)

\* The websocket closes: the task ends and drops the sender.
StreamEnds ==
  /\ up /\ reader = "running"
  /\ reader' = "ended"
  /\ UNCHANGED <<up, now, frames, loopVars, pyth, call>>

Live(e, ttl) == now < e.at + ttl

\* The entry of a second after one more tick.  Writing an entry renews its expiry;
\* an expired one is as good as none, and the sum starts again.
Summed(e, p, more) ==
  IF e.num > 0 /\ Live(e, StoreTTL)
  THEN [total |-> (e.total + p) % Wide, num |-> e.num + more, at |-> now]
  ELSE [total |-> p, num |-> 1, at |-> now]

\* Mutant: the number of ticks is not counted up.
AddTickUncounted(e, p) == Summed(e, p, 0)

AddTick(e, p) == Summed(e, p, 1)

\* The prices a frame may be read as: none if it is no ticker message.
PricesOf(f) == IF f = None THEN {} ELSE to_u64_price(f.quote)

\* One round of the averaging loop, for a ticker message with a valid price.
Average ==
  /\ up /\ channel # <<>>
  /\ \E p \in PricesOf(Head(channel)) :
       LET m == Head(channel).market
           t == Head(channel).second
           e == AddTick(temp_store[m][t], p)
       IN /\ temp_store' = [temp_store EXCEPT ![m][t] = e]
          /\ coinbase' = [coinbase EXCEPT ![m][t] =
                            [price |-> e.total \div e.num, at |-> now]]
          /\ heard' = [heard EXCEPT ![m][t] =
               Append(@, [quote |-> Head(channel).quote, price |-> p, at |-> now])]
  /\ channel' = Tail(channel)
  /\ UNCHANGED <<up, now, reader, frames, pyth, call>>

\* The loop goes on to the next frame.
SkipFrame ==
  /\ up /\ channel # <<>>
  /\ PricesOf(Head(channel)) = {}
  /\ channel' = Tail(channel)
  /\ UNCHANGED <<up, now, reader, frames, averageVars, pyth, call>>

\* select! and run() return, and the process ends.
Exit ==
  /\ up
  /\ up' = FALSE
  /\ UNCHANGED <<now, reader, frames, loopVars, pyth, call>>

\* Mutant: the loop keeps a sender of its own and waits for ever.
WatchReturnsNever == frames > MaxFrames /\ Exit

\* recv() is None once the sender is gone and the channel is drained: watch()
\* returns.
WatchReturns == reader = "ended" /\ channel = <<>> /\ Exit
-----------------------------------------------------------------------------
(* PythProvider::watch and get_price.                                      *)

\* What one poll may bring: quotes of some of the feeds.
fetch_pyth_prices(t) ==
  UNION {{q \in [ms -> UNION {PythQuote(m, t) : m \in ms}] :
            \A m \in ms : q[m] \in PythQuote(m, t)} : ms \in SUBSET Market}

\* fetch(), called once a second: the prices are stored under their second.
fetch ==
  /\ up
  /\ \E t \in Second : \E q \in fetch_pyth_prices(t) :
       pyth' = [m \in Market |->
         IF m \in DOMAIN q
         THEN [pyth[m] EXCEPT ![t] = to_fixed_precision(q[m])] ELSE pyth[m]]
  /\ UNCHANGED <<up, now, reader, frames, loopVars, call>>

\* start_routine returns the first error of fetch(), and watch() unwraps it.
FetchFails == Exit

fetch_pyth_price(m, t) == {to_fixed_precision(q) : q \in PythQuote(m, t)}

\* get_price calls pyth.get(timestamp), which takes the second's cell from the map.
CallPrice(c, m, t) ==
  /\ up /\ call[c].pc = "idle"
  /\ call' = [call EXCEPT ![c] =
       [pc |-> "pyth", market |-> m, second |-> t, found |-> pyth[m][t], price |-> None]]
  /\ UNCHANGED <<up, now, reader, frames, loopVars, pyth>>

\* The cell has a price.
GetPyth(c) ==
  /\ up /\ call[c].pc = "pyth" /\ call[c].found # None
  /\ call' = [call EXCEPT ![c].pc = "coinbase"]
  /\ UNCHANGED <<up, now, reader, frames, loopVars, pyth>>

\* The cell is empty, and the call waits for a fetch.
Waits(c, m, t) ==
  call[c].pc = "pyth" /\ call[c].market = m /\ call[c].second = t /\ call[c].found = None

\* The calls that wait for a second, with the price that c has fetched for it.
Answered(c, m, t, v) ==
  [d \in Call |->
     IF Waits(d, m, t)
     THEN [call[d] EXCEPT !.pc = IF d = c THEN "coinbase" ELSE "pyth", !.found = v]
     ELSE call[d]]

\* A call's fetch answers all of them.  A price that a poll has stored meanwhile is
\* in a cell of its own, and stays.
FetchPyth(c, m, t) ==
  /\ up /\ Waits(c, m, t)
  /\ \E v \in fetch_pyth_price(m, t) :
       /\ pyth' = [pyth EXCEPT ![m][t] = IF @ = None THEN v ELSE @]
       /\ call' = Answered(c, m, t, v)
  /\ UNCHANGED <<up, now, reader, frames, loopVars>>

\* An error status is returned: no price without Pyth.
GetPythFails(c, m, t) ==
  /\ up /\ Waits(c, m, t)
  /\ call' = [call EXCEPT ![c].pc = "err"]
  /\ UNCHANGED <<up, now, reader, frames, loopVars, pyth>>

\* coinbase.get(&timestamp): a price that has not expired is averaged in.  The checked
\* sum panics, in run()'s own task, and the process ends.
Combine(c) ==
  LET e == coinbase[call[c].market][call[c].second]
      p == call[c].found
  IN /\ up /\ call[c].pc = "coinbase"
     /\ call' = [call EXCEPT ![c] =
          IF e.price = None \/ ~Live(e, CacheTTL) THEN [@ EXCEPT !.pc = "ok", !.price = p]
          ELSE IF e.price + p \in U64
          THEN [@ EXCEPT !.pc = "ok", !.price = (e.price + p) \div 2]
          ELSE [@ EXCEPT !.pc = "panicked"]]
     /\ up' = (call'[c].pc # "panicked")
     /\ UNCHANGED <<now, reader, frames, loopVars, pyth>>

Advance ==
  /\ up /\ now < MaxTime
  /\ now' = now + 1
  /\ UNCHANGED <<up, reader, frames, loopVars, pyth, call>>

FeedNext ==
  \/ \E f \in Frame : ReadFrame(f)
  \/ StreamEnds
  \/ Average
  \/ SkipFrame
  \/ WatchReturns
  \/ fetch
  \/ FetchFails
  \/ \E c \in Call :
       \/ \E m \in Market, t \in Second :
            CallPrice(c, m, t) \/ FetchPyth(c, m, t) \/ GetPythFails(c, m, t)
       \/ GetPyth(c)
       \/ Combine(c)
  \/ Advance

\* tokio polls the averaging loop whenever it can move.
FeedSpec ==
  /\ FeedInit
  /\ [][FeedNext]_vars
  /\ WF_vars(Average \/ SkipFrame \/ WatchReturns)
-----------------------------------------------------------------------------
(* Properties.                                                             *)

SumOf(s) ==
  LET sum[i \in 0 .. Len(s)] == IF i = 0 THEN 0 ELSE sum[i - 1] + s[i].price
  IN  sum[Len(s)]

\* No two ticks are further apart than temp_store keeps its entry.
NoGap(s) == \A i \in 1 .. Len(s) - 1 : s[i + 1].at < s[i].at + StoreTTL

\* The cached price of a second is the average of all ticks heard for it, mixed
\* with those of other seconds and markets, unless there was a gap, after which the
\* average starts anew.
AverageExact ==
  \A m \in Market, t \in Second :
    LET s == heard[m][t] IN
      s # <<>> /\ NoGap(s) => coinbase[m][t].price = SumOf(s) \div Len(s)

HeardFor(m, t) == {heard[m][t][i] : i \in 1 .. Len(heard[m][t])}

\* What the quotes are worth, in units of 10^-Decimals; a tick is exact to a unit.
PythWorth(m, t) == {q.price * 10 ^ (Decimals + q.expo) : q \in PythQuote(m, t)}
Worth(m, t) ==
  PythWorth(m, t) \cup
  UNION {{Exact(h.quote), Exact(h.quote) - 1} : h \in HeardFor(m, t)}

\* The quotes fit: a Pyth quote with all its decimals, and the sum of all the ticks
\* of a run, are u64s.
QuotesFit ==
  /\ \A m \in Market, t \in Second : \A q \in PythQuote(m, t) :
       LET scale == 10 ^ (Decimals + q.expo)
       IN  {scale, q.price * scale} \subseteq U64
  /\ \E most \in U64 :
       /\ MaxFrames * most < Wide
       /\ \A q \in Tick : \A v \in to_u64_price(q) : v <= most

\* "fixed to 9 decimal places" (README.md): what get_price returns lies between the
\* quotes of the order's own market and second, whatever ticks, polls and
\* expiries come between its two reads.
AnswerWithinQuotes ==
  \A c \in Call : call[c].pc = "ok" =>
    LET w == Worth(call[c].market, call[c].second) IN
      (\E v \in w : v <= call[c].price) /\ (\E v \in w : call[c].price <= v)

\* A feed whose websocket has closed does not go on unnoticed: once the ticks still
\* in the channel are averaged, the worker ends.
DeadFeedEndsWorker == reader = "ended" ~> ~up
=============================================================================
