-------------------------- MODULE PriceFeedsProofs --------------------------
(***************************************************************************)
(* Proofs about the price feeds for any set of markets, seconds, quotes    *)
(* and calls, any capacity and any expiries.                               *)
(***************************************************************************)
EXTENDS PriceFeeds, TLAPS

Entry == [total : U64, num : Nat, at : 0 .. MaxTime]

HeardTick == [quote : Tick, price : U64, at : 0 .. MaxTime]

CallState ==
  [pc : {"idle", "pyth", "coinbase", "ok", "err", "panicked"},
   market : Market \cup {None}, second : Second \cup {None},
   found : OptionU64, price : OptionU64]

\* A call that is under way has a market and a second, a price of Pyth when it has
\* left the cache, and an answer at its end; one that is idle has none yet.
CallTypes ==
  /\ call \in [Call -> CallState]
  /\ \A c \in Call :
       /\ call[c].pc # "idle" => call[c].market \in Market /\ call[c].second \in Second
       /\ call[c].pc = "idle" => call[c].market = None
       /\ call[c].pc \in {"coinbase", "ok"} => call[c].found \in U64
       /\ call[c].pc = "ok" => call[c].price \in U64

\* What was heard are ticks with prices they can be read as, and every tick that was
\* summed up has been a frame.
HeardTypes ==
  /\ heard \in [Market -> [Second -> Seq(HeardTick)]]
  /\ \A m \in Market, t \in Second :
       LET s == heard[m][t] IN
         /\ \A i \in 1 .. Len(s) : s[i].price \in to_u64_price(s[i].quote)
         /\ Len(s) + Len(channel) <= frames
         /\ temp_store[m][t].num <= Len(s)

FeedInv == FeedTypeOK /\ CallTypes /\ HeardTypes
-----------------------------------------------------------------------------
(* Arithmetic.                                                             *)

LEMMA U64Facts ==
  /\ U64 \subseteq Nat /\ \A v \in U64 : v < Wide
  /\ \A v \in Nat : v < Wide => v \in U64
  /\ None \notin U64 /\ 0 \in U64
BY FeedAssumption DEF U64

LEMMA WrapType ==
  ASSUME NEW v \in Int
  PROVE  v % Wide \in U64
BY FeedAssumption DEF U64

LEMMA DivBetween ==
  ASSUME NEW x \in Nat, NEW n \in Nat \ {0}, NEW g \in Nat, NEW h \in Nat,
         n * g <= x, x <= n * h
  PROVE  g <= x \div n /\ x \div n <= h
OBVIOUS

LEMMA DivU64 ==
  ASSUME NEW x \in U64, NEW n \in Nat \ {0}
  PROVE  x \div n \in U64
<1>1. x \in Nat /\ x < Wide /\ Wide \in Nat
  BY U64Facts, FeedAssumption
<1>2. n * 0 <= x /\ x <= n * x
  BY <1>1
<1>3. x \div n \in Nat /\ x \div n <= x
  BY <1>1, <1>2, DivBetween
<1> QED BY <1>1, <1>3, U64Facts

\* One more value p in a sum x of n values that are at least g.
LEMMA SumAbove ==
  ASSUME NEW x \in Nat, NEW n \in Nat, NEW g \in Nat, NEW p \in Nat, n * g <= x
  PROVE  (n + 1) * g <= x + p \/ (n + 1) * p <= x + p
<1>1. (n + 1) * g = n * g + g /\ (n + 1) * p = n * p + p
  OBVIOUS
<1>2. p < g => n * p <= n * g
  OBVIOUS
<1> QED BY <1>1, <1>2

LEMMA SumBelow ==
  ASSUME NEW x \in Nat, NEW n \in Nat, NEW h \in Nat, NEW p \in Nat, x <= n * h
  PROVE  x + p <= (n + 1) * h \/ x + p <= (n + 1) * p
<1>1. (n + 1) * h = n * h + h /\ (n + 1) * p = n * p + p
  OBVIOUS
<1>2. h < p => n * h <= n * p
  OBVIOUS
<1> QED BY <1>1, <1>2

LEMMA NoWrap ==
  ASSUME NEW x \in Nat, NEW w \in Nat \ {0}, x < w
  PROVE  x % w = x
OBVIOUS
-----------------------------------------------------------------------------
(* Operators.                                                              *)

\* Both conversions give a u64.
LEMMA ToFixedPrecisionType ==
  ASSUME NEW m \in Market, NEW t \in Second, NEW q \in PythQuote(m, t)
  PROVE  to_fixed_precision(q) \in U64
<1>1. q.price \in Nat /\ q.expo \in -Decimals .. -1 /\ Decimals \in Nat /\ Wide \in Nat \ {0}
  BY FeedAssumption
<1>2. Decimals + q.expo \in Nat /\ q.expo < 0
  BY <1>1
<1>3. 10 ^ (Decimals + q.expo) \in Int
  BY <1>2
<1>4. Pow10(Decimals + q.expo) \in Nat
  BY <1>1, <1>2, <1>3 DEF Pow10
<1>5. q.price * Pow10(Decimals + q.expo) \in Int
  BY <1>1, <1>4
<1> HIDE DEF Pow10
<1>6. to_fixed_precision(q) = (q.price * Pow10(Decimals + q.expo)) % Wide
  BY <1>2 DEF to_fixed_precision
<1> QED BY <1>5, <1>6, WrapType

LEMMA FetchedType ==
  ASSUME NEW m \in Market, NEW t \in Second
  PROVE  fetch_pyth_price(m, t) \subseteq U64
BY ToFixedPrecisionType DEF fetch_pyth_price

LEMMA ToU64Type ==
  ASSUME NEW q
  PROVE  to_u64_price(q) \subseteq U64
BY DEF to_u64_price

\* An entry of a two-level map is written, and nothing else.
LEMMA OneEntry ==
  ASSUME NEW S, NEW f \in [Market -> [Second -> S]], NEW m \in Market, NEW t \in Second,
         NEW e \in S, NEW g, g = [f EXCEPT ![m][t] = e]
  PROVE  /\ g \in [Market -> [Second -> S]]
         /\ g[m][t] = e
         /\ \A n \in Market, u \in Second : n # m \/ u # t => g[n][u] = f[n][u]
<1>1. g = [f EXCEPT ![m] = [f[m] EXCEPT ![t] = e]] /\ f[m] \in [Second -> S]
  OBVIOUS
<1>2. /\ g[m] = [f[m] EXCEPT ![t] = e]
      /\ \A n \in Market : n # m => g[n] = f[n]
  BY <1>1
<1> QED BY <1>1, <1>2

\* AddTick counts the tick in, or starts anew with it.
LEMMA AddTickFacts ==
  ASSUME NEW e \in Entry, NEW p \in U64, now \in 0 .. MaxTime
  PROVE  /\ AddTick(e, p) \in Entry
         /\ AddTick(e, p).num # 0
         /\ AddTick(e, p).at = now
         /\ \/ /\ e.num > 0 /\ Live(e, StoreTTL)
               /\ AddTick(e, p).num = e.num + 1
               /\ AddTick(e, p).total = (e.total + p) % Wide
            \/ /\ ~(e.num > 0 /\ Live(e, StoreTTL))
               /\ AddTick(e, p).num = 1 /\ AddTick(e, p).total = p
<1>1. e.total \in U64 /\ e.num \in Nat
  BY DEF Entry
<1>2. (e.total + p) % Wide \in U64
  <2>0. e.total \in Nat /\ p \in Nat
    BY <1>1, U64Facts
  <2>1. e.total + p \in Int
    BY <2>0
  <2> QED BY <2>1, WrapType
<1>3. CASE e.num > 0 /\ Live(e, StoreTTL)
  <2>1. AddTick(e, p) = [total |-> (e.total + p) % Wide, num |-> e.num + 1, at |-> now]
    BY <1>3 DEF AddTick, Summed
  <2> QED BY <1>1, <1>2, <1>3, <2>1 DEF Entry
<1>4. CASE ~(e.num > 0 /\ Live(e, StoreTTL))
  <2>1. AddTick(e, p) = [total |-> p, num |-> 1, at |-> now]
    BY <1>4 DEF AddTick, Summed
  <2> QED BY <1>4, <2>1 DEF Entry
<1> QED BY <1>3, <1>4

\* What is left of the channel when the loop has taken a frame.
LEMMA TailFacts ==
  ASSUME NEW S, NEW s \in Seq(S), s # <<>>
  PROVE  /\ Head(s) \in S
         /\ Tail(s) \in Seq(S)
         /\ Len(s) \in Nat
         /\ Len(Tail(s)) = Len(s) - 1
OBVIOUS

LEMMA AppendFacts ==
  ASSUME NEW S, NEW s \in Seq(S), NEW e \in S
  PROVE  /\ Append(s, e) \in Seq(S)
         /\ Len(s) \in Nat
         /\ Len(Append(s, e)) = Len(s) + 1
         /\ \A i \in 1 .. Len(s) : Append(s, e)[i] = s[i]
         /\ Append(s, e)[Len(s) + 1] = e
OBVIOUS

\* The tick a round of the averaging loop hears, and what becomes of the sum and the
\* average of its second.
Heard(m, t, q, p) ==
  /\ p \in to_u64_price(q)
  /\ temp_store' = [temp_store EXCEPT ![m][t] = AddTick(temp_store[m][t], p)]
  /\ coinbase' = [coinbase EXCEPT ![m][t] =
       [price |-> AddTick(temp_store[m][t], p).total \div AddTick(temp_store[m][t], p).num,
        at |-> now]]
  /\ heard' = [heard EXCEPT ![m][t] =
       Append(heard[m][t], [quote |-> q, price |-> p, at |-> now])]

LEMMA AverageHears ==
  ASSUME FeedTypeOK, HeardTypes, Average
  PROVE  \E m \in Market, t \in Second, q \in Tick, p \in U64 : Heard(m, t, q, p)
<1> DEFINE f == Head(channel)
<1>1. f \in Frame
  BY TailFacts DEF FeedTypeOK, Average
<1>2. PICK p \in PricesOf(f) :
        LET e == AddTick(temp_store[f.market][f.second], p)
        IN /\ temp_store' = [temp_store EXCEPT ![f.market][f.second] = e]
           /\ coinbase' = [coinbase EXCEPT ![f.market][f.second] =
                             [price |-> e.total \div e.num, at |-> now]]
           /\ heard' = [heard EXCEPT ![f.market][f.second] =
                Append(@, [quote |-> f.quote, price |-> p, at |-> now])]
  BY DEF Average
<1>3. f # None /\ p \in to_u64_price(f.quote)
  BY <1>2 DEF PricesOf
<1>4. f.market \in Market /\ f.second \in Second /\ f.quote \in Tick /\ p \in U64
  BY <1>1, <1>3, ToU64Type DEF Frame
<1> HIDE DEF f
<1>5. heard' = [heard EXCEPT ![f.market][f.second] =
        Append(heard[f.market][f.second], [quote |-> f.quote, price |-> p, at |-> now])]
  BY <1>2, <1>4 DEF HeardTypes
<1>6. Heard(f.market, f.second, f.quote, p)
  BY <1>2, <1>3, <1>5 DEF Heard
<1> QED BY <1>4, <1>6

\* A round writes the sum, the average and the history of one second.
LEMMA HeardFacts ==
  ASSUME FeedTypeOK, HeardTypes, NEW m \in Market, NEW t \in Second, NEW q \in Tick,
         NEW p \in U64, Heard(m, t, q, p)
  PROVE  LET e == temp_store[m][t]
             r == [quote |-> q, price |-> p, at |-> now]
         IN  /\ e \in Entry
             /\ temp_store' \in [Market -> [Second -> Entry]]
             /\ temp_store'[m][t] = AddTick(e, p)
             /\ coinbase' \in
                  [Market -> [Second -> [price : OptionU64, at : 0 .. MaxTime]]]
             /\ coinbase'[m][t].price = AddTick(e, p).total \div AddTick(e, p).num
             /\ r \in HeardTick
             /\ heard' \in [Market -> [Second -> Seq(HeardTick)]]
             /\ heard[m][t] \in Seq(HeardTick)
             /\ heard'[m][t] = Append(heard[m][t], r)
             /\ \A n \in Market, u \in Second : n # m \/ u # t =>
                  /\ temp_store'[n][u] = temp_store[n][u]
                  /\ coinbase'[n][u] = coinbase[n][u]
                  /\ heard'[n][u] = heard[n][u]
<1> DEFINE e == temp_store[m][t]
           a == AddTick(e, p)
           r == [quote |-> q, price |-> p, at |-> now]
           C == [price : OptionU64, at : 0 .. MaxTime]
           c == [price |-> a.total \div a.num, at |-> now]
           s == heard[m][t]
<1>1. /\ temp_store \in [Market -> [Second -> Entry]]
      /\ coinbase \in [Market -> [Second -> C]]
      /\ heard \in [Market -> [Second -> Seq(HeardTick)]]
      /\ now \in 0 .. MaxTime
  BY DEF FeedTypeOK, HeardTypes, Entry
<1>2. e \in Entry /\ s \in Seq(HeardTick)
  BY <1>1
<1>3. a \in Entry /\ a.num # 0
  BY <1>1, <1>2, AddTickFacts
<1>4. c \in C
  <2>1. a.total \in U64 /\ a.num \in Nat \ {0}
    BY <1>3 DEF Entry
  <2>2. a.total \div a.num \in U64
    BY <2>1, DivU64
  <2> QED BY <1>1, <2>2 DEF OptionU64
<1>5. /\ temp_store' = [temp_store EXCEPT ![m][t] = a]
      /\ coinbase' = [coinbase EXCEPT ![m][t] = c]
      /\ heard' = [heard EXCEPT ![m][t] = Append(s, r)]
  BY DEF Heard
<1>6. r \in HeardTick
  BY <1>1 DEF HeardTick
<1>7. Append(s, r) \in Seq(HeardTick)
  BY <1>2, <1>6, AppendFacts
<1>8. c.price = a.total \div a.num
  OBVIOUS
<1> HIDE DEF a, c, C, r
<1>9. /\ temp_store' \in [Market -> [Second -> Entry]]
      /\ temp_store'[m][t] = a
      /\ \A n \in Market, u \in Second : n # m \/ u # t => temp_store'[n][u] = temp_store[n][u]
  BY <1>1, <1>3, <1>5, OneEntry
<1>10. /\ coinbase' \in [Market -> [Second -> C]]
       /\ coinbase'[m][t] = c
       /\ \A n \in Market, u \in Second : n # m \/ u # t => coinbase'[n][u] = coinbase[n][u]
  BY <1>1, <1>4, <1>5, OneEntry
<1>11. /\ heard' \in [Market -> [Second -> Seq(HeardTick)]]
       /\ heard'[m][t] = Append(s, r)
       /\ \A n \in Market, u \in Second : n # m \/ u # t => heard'[n][u] = heard[n][u]
  BY <1>1, <1>5, <1>7, OneEntry
<1> QED BY <1>2, <1>6, <1>8, <1>9, <1>10, <1>11 DEF a, C, r

\* A price of Pyth's map is kept or comes from a quote of its market and second.
PythMoves ==
  /\ pyth' \in [Market -> [Second -> OptionU64]]
  /\ \A m \in Market, t \in Second :
       pyth'[m][t] = pyth[m][t] \/ pyth'[m][t] \in fetch_pyth_price(m, t)

\* One poll, seen from one market: nothing for it, or a price of the second.
LEMMA PollMoves ==
  ASSUME fetch
  PROVE  /\ pyth' = [m \in Market |-> pyth'[m]]
         /\ \E t \in Second : \A m \in Market :
              \/ pyth'[m] = pyth[m]
              \/ \E v \in fetch_pyth_price(m, t) : pyth'[m] = [pyth[m] EXCEPT ![t] = v]
<1>1. PICK t \in Second : \E q \in fetch_pyth_prices(t) :
        pyth' = [m \in Market |->
          IF m \in DOMAIN q
          THEN [pyth[m] EXCEPT ![t] = to_fixed_precision(q[m])] ELSE pyth[m]]
  BY DEF fetch
<1>2. PICK q \in fetch_pyth_prices(t) :
        pyth' = [m \in Market |->
          IF m \in DOMAIN q
          THEN [pyth[m] EXCEPT ![t] = to_fixed_precision(q[m])] ELSE pyth[m]]
  BY <1>1
<1>3. PICK ms \in SUBSET Market :
        /\ q \in [ms -> UNION {PythQuote(m, t) : m \in ms}]
        /\ \A m \in ms : q[m] \in PythQuote(m, t)
  BY <1>2 DEF fetch_pyth_prices
<1>4. \A m \in Market : m \in DOMAIN q => to_fixed_precision(q[m]) \in fetch_pyth_price(m, t)
  BY <1>3 DEF fetch_pyth_price
<1>5. \A m \in Market :
        \/ pyth'[m] = pyth[m]
        \/ /\ m \in DOMAIN q
           /\ pyth'[m] = [pyth[m] EXCEPT ![t] = to_fixed_precision(q[m])]
  BY <1>2
<1>6. pyth' = [m \in Market |-> pyth'[m]]
  <2> DEFINE F(m) == IF m \in DOMAIN q
                     THEN [pyth[m] EXCEPT ![t] = to_fixed_precision(q[m])] ELSE pyth[m]
  <2>1. pyth' = [m \in Market |-> F(m)]
    BY <1>2
  <2> HIDE DEF F
  <2> QED BY <2>1
<1>7. \A m \in Market :
        \/ pyth'[m] = pyth[m]
        \/ \E v \in fetch_pyth_price(m, t) : pyth'[m] = [pyth[m] EXCEPT ![t] = v]
  BY <1>4, <1>5
<1> QED BY <1>6, <1>7, Zenon

LEMMA PollFacts ==
  ASSUME FeedTypeOK, fetch
  PROVE  PythMoves
<1>1. PICK t \in Second :
        /\ pyth' = [m \in Market |-> pyth'[m]]
        /\ \A m \in Market :
             \/ pyth'[m] = pyth[m]
             \/ \E v \in fetch_pyth_price(m, t) : pyth'[m] = [pyth[m] EXCEPT ![t] = v]
  BY PollMoves
<1>2. \A m \in Market :
        /\ pyth'[m] \in [Second -> OptionU64]
        /\ \A u \in Second :
             pyth'[m][u] = pyth[m][u] \/ pyth'[m][u] \in fetch_pyth_price(m, u)
  <2> TAKE m \in Market
  <2>1. pyth[m] \in [Second -> OptionU64]
    BY DEF FeedTypeOK
  <2>2. CASE pyth'[m] = pyth[m]
    BY <2>1, <2>2
  <2>3. ASSUME NEW v \in fetch_pyth_price(m, t), pyth'[m] = [pyth[m] EXCEPT ![t] = v]
        PROVE  /\ pyth'[m] \in [Second -> OptionU64]
               /\ \A u \in Second :
                    pyth'[m][u] = pyth[m][u] \/ pyth'[m][u] \in fetch_pyth_price(m, u)
    <3>1. v \in OptionU64
      BY FetchedType DEF OptionU64
    <3> QED BY <2>1, <2>3, <3>1
  <2> QED BY <1>1, <2>2, <2>3
<1>3. pyth' \in [Market -> [Second -> OptionU64]]
  BY <1>1, <1>2
<1> QED BY <1>2, <1>3 DEF PythMoves

\* A call of get_price goes on to pc with price v.
CallMoves(c, pc, v) ==
  call' = [call EXCEPT ![c] = [call[c] EXCEPT !.pc = pc, !.price = v]]

\* A call goes on without a price.
LEMMA PcMoves ==
  ASSUME CallTypes, NEW c \in Call, NEW pc, call' = [call EXCEPT ![c].pc = pc]
  PROVE  CallMoves(c, pc, call[c].price)
<1>1. call[c] \in CallState /\ DOMAIN call = Call
  BY DEF CallTypes
<1>2. [call[c] EXCEPT !.pc = pc] = [call[c] EXCEPT !.pc = pc, !.price = call[c].price]
  BY <1>1 DEF CallState
<1>3. call' = [call EXCEPT ![c] = [call[c] EXCEPT !.pc = pc]]
  BY <1>1
<1> QED BY <1>2, <1>3 DEF CallMoves

\* The three ways get_price ends.
LEMMA CombineFacts ==
  ASSUME FeedTypeOK, CallTypes, NEW c \in Call, Combine(c)
  PROVE  LET x == coinbase[call[c].market][call[c].second].price
             y == call[c].found
         IN  /\ call[c].pc = "coinbase"
             /\ call[c].market \in Market /\ call[c].second \in Second
             /\ y \in U64
             /\ \/ CallMoves(c, "ok", y)
                \/ x \in U64 /\ x + y \in U64 /\ CallMoves(c, "ok", (x + y) \div 2)
                \/ CallMoves(c, "panicked", call[c].price)
<1> DEFINE e == coinbase[call[c].market][call[c].second]
           y == call[c].found
<1>1. /\ call[c].pc = "coinbase" /\ call[c].market \in Market /\ call[c].second \in Second
      /\ y \in U64 /\ DOMAIN call = Call
  BY DEF Combine, CallTypes
<1>2. e.price \in OptionU64
  BY <1>1 DEF FeedTypeOK
<1>3. CASE e.price = None \/ ~Live(e, CacheTTL)
  <2>1. call' = [call EXCEPT ![c] = [call[c] EXCEPT !.pc = "ok", !.price = y]]
    BY <1>1, <1>3 DEF Combine
  <2> QED BY <1>1, <2>1 DEF CallMoves
<1>4. CASE e.price # None /\ Live(e, CacheTTL) /\ e.price + y \in U64
  <2>1. call' = [call EXCEPT ![c] =
          [call[c] EXCEPT !.pc = "ok", !.price = (e.price + y) \div 2]]
    BY <1>1, <1>4 DEF Combine
  <2> QED BY <1>1, <1>2, <1>4, <2>1 DEF CallMoves, OptionU64
<1>5. CASE e.price # None /\ Live(e, CacheTTL) /\ e.price + y \notin U64
  <2>1. call' = [call EXCEPT ![c] = [call[c] EXCEPT !.pc = "panicked"]]
    BY <1>1, <1>5 DEF Combine
  <2>2. call' = [call EXCEPT ![c].pc = "panicked"]
    BY <2>1
  <2> QED BY <1>1, <2>2, PcMoves
<1> QED BY <1>3, <1>4, <1>5, Zenon

\* One call moves, with or without an answer.
LEMMA OneCall ==
  ASSUME CallTypes, NEW c \in Call, NEW pc \in {"coinbase", "ok", "err", "panicked"},
         call[c].pc # "idle",
         NEW v \in OptionU64, pc = "ok" => v \in U64,
         pc \in {"coinbase", "ok"} => call[c].found \in U64,
         CallMoves(c, pc, v)
  PROVE  /\ CallTypes'
         /\ call'[c].pc = pc /\ call'[c].price = v
         /\ call'[c].market = call[c].market /\ call'[c].second = call[c].second
         /\ call'[c].found = call[c].found
         /\ \A d \in Call : d # c => call'[d] = call[d]
<1>1. call \in [Call -> CallState] /\ call[c] \in CallState
  BY DEF CallTypes
<1> DEFINE r == [call[c] EXCEPT !.pc = pc, !.price = v]
<1>2. /\ r \in CallState /\ r.pc = pc /\ r.price = v /\ r.found = call[c].found
      /\ r.market = call[c].market /\ r.second = call[c].second
  BY <1>1 DEF CallState
<1> HIDE DEF r
<1>3. /\ call' \in [Call -> CallState] /\ call'[c] = r
      /\ \A d \in Call : d # c => call'[d] = call[d]
  BY <1>1, <1>2 DEF r, CallMoves
<1>4. CallTypes'
  BY <1>2, <1>3 DEF CallTypes
<1> QED BY <1>2, <1>3, <1>4

\* How a call that combines goes on: with an answer between its two prices, or not.
LEMMA CombineTypes ==
  ASSUME FeedTypeOK, CallTypes, NEW c \in Call, Combine(c)
  PROVE  /\ CallTypes'
         /\ \E pc \in {"ok", "panicked"}, v \in OptionU64 :
              /\ CallMoves(c, pc, v) /\ call'[c].pc = pc /\ call'[c].price = v
              /\ LET x == coinbase[call[c].market][call[c].second].price
                     y == call[c].found
                 IN  pc = "ok" => v = y \/ (x \in U64 /\ v = (x + y) \div 2)
         /\ call'[c].market = call[c].market /\ call'[c].second = call[c].second
         /\ call'[c].found = call[c].found
         /\ \A d \in Call : d # c => call'[d] = call[d]
<1> DEFINE x == coinbase[call[c].market][call[c].second].price
           y == call[c].found
<1>1. /\ call[c].pc = "coinbase" /\ y \in U64 /\ call[c].price \in OptionU64
      /\ \/ CallMoves(c, "ok", y)
         \/ x \in U64 /\ x + y \in U64 /\ CallMoves(c, "ok", (x + y) \div 2)
         \/ CallMoves(c, "panicked", call[c].price)
  BY CombineFacts DEF CallTypes, CallState
<1>2. x + y \in U64 => (x + y) \div 2 \in U64
  BY DivU64
<1> HIDE DEF x
<1>3. PICK pc \in {"ok", "panicked"}, v \in OptionU64 :
        /\ CallMoves(c, pc, v)
        /\ pc = "ok" => v \in U64 /\ (v = y \/ (x \in U64 /\ v = (x + y) \div 2))
  <2>1. CASE CallMoves(c, "ok", y)
    <3>1. y \in U64 /\ y \in OptionU64
      BY <1>1 DEF OptionU64
    <3> HIDE DEF y
    <3>2. "ok" \in {"ok", "panicked"}
      OBVIOUS
    <3> QED BY <2>1, <3>1, <3>2
  <2>2. CASE x \in U64 /\ x + y \in U64 /\ CallMoves(c, "ok", (x + y) \div 2)
    <3> DEFINE v == (x + y) \div 2
    <3>1. v \in U64 /\ v \in OptionU64 /\ CallMoves(c, "ok", v)
      BY <1>2, <2>2 DEF OptionU64
    <3> QED BY <2>2, <3>1, Zenon
  <2>3. CASE CallMoves(c, "panicked", call[c].price)
    BY <1>1, <2>3
  <2> QED BY <1>1, <2>1, <2>2, <2>3
<1>4. /\ CallTypes'
      /\ call'[c].pc = pc /\ call'[c].price = v
      /\ call'[c].market = call[c].market /\ call'[c].second = call[c].second
      /\ call'[c].found = call[c].found
      /\ \A d \in Call : d # c => call'[d] = call[d]
  <2>1. /\ call[c].pc # "idle" /\ CallMoves(c, pc, v)
        /\ pc \in {"coinbase", "ok", "err", "panicked"} /\ v \in OptionU64
        /\ pc = "ok" => v \in U64
        /\ pc \in {"coinbase", "ok"} => call[c].found \in U64
    BY <1>1, <1>3
  <2> QED BY <2>1, OneCall
<1> QED BY <1>3, <1>4 DEF x

\* A call that waits for a fetch fails with it, and one whose cell has a price takes it.
LEMMA LeavesPyth ==
  ASSUME CallTypes, NEW c \in Call,
         \/ GetPyth(c)
         \/ \E m \in Market, t \in Second : GetPythFails(c, m, t)
  PROVE  /\ CallTypes' /\ UNCHANGED pyth /\ UNCHANGED <<up, now, reader, frames, loopVars>>
         /\ call[c].pc = "pyth"
         /\ \/ GetPyth(c) /\ call'[c].pc = "coinbase"
            \/ call[c].found = None /\ call'[c].pc = "err"
         /\ call'[c].market = call[c].market /\ call'[c].second = call[c].second
         /\ call'[c].found = call[c].found
         /\ \A d \in Call : d # c => call'[d] = call[d]
<1>0. /\ call[c].price \in OptionU64 /\ call[c].found \in OptionU64
      /\ UNCHANGED pyth /\ UNCHANGED <<up, now, reader, frames, loopVars>>
  BY DEF CallTypes, CallState, GetPyth, GetPythFails
<1>1. CASE GetPyth(c)
  <2>1. /\ call[c].pc = "pyth" /\ call[c].found # None
        /\ call' = [call EXCEPT ![c].pc = "coinbase"]
    BY <1>1 DEF GetPyth
  <2>2. call[c].found \in U64
    BY <1>0, <2>1 DEF OptionU64
  <2>3. CallMoves(c, "coinbase", call[c].price)
    BY <2>1, PcMoves
  <2> QED BY <1>0, <1>1, <2>1, <2>2, <2>3, OneCall
<1>2. CASE \E m \in Market, t \in Second : GetPythFails(c, m, t)
  <2>1. /\ call[c].pc = "pyth" /\ call[c].found = None
        /\ call' = [call EXCEPT ![c].pc = "err"]
    BY <1>2 DEF GetPythFails, Waits
  <2>2. CallMoves(c, "err", call[c].price)
    BY <2>1, PcMoves
  <2> QED BY <1>0, <2>1, <2>2, OneCall
<1> QED BY <1>1, <1>2

\* A fetch stores a price v of the second, unless there is one, and answers the calls
\* that wait for it.
FetchesPyth(c, m, t, v) ==
  /\ PythMoves /\ CallTypes'
  /\ pyth'[m] = IF pyth[m][t] = None THEN [pyth[m] EXCEPT ![t] = v] ELSE pyth[m]
  /\ \A n \in Market : n # m => pyth'[n] = pyth[n]
  /\ \A d \in Call :
       \/ ~Waits(d, m, t) /\ call'[d] = call[d]
       \/ /\ Waits(d, m, t)
          /\ call'[d].pc = IF d = c THEN "coinbase" ELSE "pyth"
          /\ call'[d].market = m /\ call'[d].second = t /\ call'[d].found = v

LEMMA FetchPythFacts ==
  ASSUME FeedTypeOK, CallTypes, NEW c \in Call, NEW m \in Market, NEW t \in Second,
         FetchPyth(c, m, t)
  PROVE  \E v \in fetch_pyth_price(m, t) : FetchesPyth(c, m, t, v)
<1>1. PICK v \in fetch_pyth_price(m, t) :
        /\ pyth' = [pyth EXCEPT ![m][t] = IF @ = None THEN v ELSE @]
        /\ call' = Answered(c, m, t, v)
  BY DEF FetchPyth
<1>2. pyth \in [Market -> [Second -> OptionU64]] /\ v \in U64 /\ v \in OptionU64
  BY FetchedType DEF FeedTypeOK, OptionU64
<1> DEFINE w == IF pyth[m][t] = None THEN v ELSE pyth[m][t]
<1>3. pyth' = [pyth EXCEPT ![m][t] = w] /\ w \in OptionU64
  BY <1>1, <1>2
<1>4. w = pyth[m][t] \/ w = v
  OBVIOUS
<1>5. /\ pyth'[m] = IF pyth[m][t] = None THEN [pyth[m] EXCEPT ![t] = v] ELSE pyth[m]
      /\ \A n \in Market : n # m => pyth'[n] = pyth[n]
  <2>1. pyth[m] \in [Second -> OptionU64] /\ pyth'[m] = [pyth[m] EXCEPT ![t] = w]
    BY <1>2, <1>3
  <2>2. pyth[m][t] # None => [pyth[m] EXCEPT ![t] = w] = pyth[m]
    BY <2>1
  <2> QED BY <1>2, <1>3, <2>1, <2>2
<1> HIDE DEF w
<1>6. PythMoves
  <2>1. /\ pyth' \in [Market -> [Second -> OptionU64]]
        /\ pyth'[m][t] = w
        /\ \A n \in Market, u \in Second : n # m \/ u # t => pyth'[n][u] = pyth[n][u]
    BY <1>2, <1>3, OneEntry
  <2> QED BY <1>1, <1>4, <2>1 DEF PythMoves
<1>7. call \in [Call -> CallState]
  BY DEF CallTypes
<1>8. \A d \in Call :
        \/ ~Waits(d, m, t) /\ call'[d] = call[d]
        \/ /\ Waits(d, m, t) /\ call'[d] \in CallState
           /\ call'[d].pc = IF d = c THEN "coinbase" ELSE "pyth"
           /\ call'[d].market = m /\ call'[d].second = t /\ call'[d].found = v
  <2> TAKE d \in Call
  <2>1. call[d] \in CallState
    BY <1>7
  <2>2. call'[d] = IF Waits(d, m, t)
                   THEN [call[d] EXCEPT !.pc = IF d = c THEN "coinbase" ELSE "pyth", !.found = v]
                   ELSE call[d]
    BY <1>1 DEF Answered
  <2>3. CASE ~Waits(d, m, t)
    BY <2>2, <2>3
  <2>4. CASE Waits(d, m, t)
    <3>1. call'[d] = [call[d] EXCEPT !.pc = IF d = c THEN "coinbase" ELSE "pyth", !.found = v]
      BY <2>2, <2>4
    <3>2. call[d].market = m /\ call[d].second = t
      BY <2>4 DEF Waits
    <3> QED BY <1>2, <2>1, <2>4, <3>1, <3>2 DEF CallState
  <2> QED BY <2>3, <2>4
<1>9. CallTypes'
  <2>1. \A d \in Call : call'[d] \in CallState
    BY <1>7, <1>8
  <2>2. call' \in [Call -> CallState]
    BY <1>1, <2>1 DEF Answered
  <2> QED BY <1>2, <1>8, <2>2 DEF CallTypes
<1> QED BY <1>5, <1>6, <1>8, <1>9 DEF FetchesPyth
-----------------------------------------------------------------------------
(* Types.                                                                  *)

LEMMA FeedTypeInit == FeedInit => FeedInv
<1> SUFFICES ASSUME FeedInit PROVE FeedInv
  OBVIOUS
<1> USE FeedAssumption
<1>1. <<>> \in Seq(Frame) /\ <<>> \in Seq(HeardTick) /\ Len(<<>>) = 0
  OBVIOUS
<1>2. temp_store \in [Market -> [Second -> [total : U64, num : Nat, at : 0 .. MaxTime]]]
  BY U64Facts DEF FeedInit, CoinbaseInit
<1>3. coinbase \in [Market -> [Second -> [price : OptionU64, at : 0 .. MaxTime]]]
  BY DEF FeedInit, CoinbaseInit, OptionU64
<1>4. pyth \in [Market -> [Second -> OptionU64]]
  BY DEF FeedInit, PythInit, OptionU64
<1>5. NoCall \in CallState /\ NoCall.pc = "idle" /\ NoCall.market = None
  BY DEF NoCall, CallState, OptionU64
<1>6. CallTypes
  BY <1>5 DEF FeedInit, CallTypes
<1>7. FeedTypeOK
  BY <1>1, <1>2, <1>3, <1>4, <1>6
     DEF FeedInit, CoinbaseInit, FeedTypeOK, CallTypes, CallState
<1>8. HeardTypes
  <2>1. \A m \in Market, t \in Second : temp_store[m][t].num = 0 /\ heard[m][t] = <<>>
    BY DEF FeedInit, CoinbaseInit
  <2>2. heard \in [Market -> [Second -> Seq(HeardTick)]]
    BY <1>1 DEF FeedInit, CoinbaseInit
  <2> QED BY <1>1, <2>1, <2>2 DEF FeedInit, CoinbaseInit, HeardTypes
<1> QED BY <1>6, <1>7, <1>8 DEF FeedInv

\* The frames of a round of the loop: one less, and nothing else changes.
LEMMA TakesFrame ==
  ASSUME FeedTypeOK, Average \/ SkipFrame
  PROVE  /\ channel' \in Seq(Frame)
         /\ Len(channel) \in Nat \ {0} /\ Len(channel') = Len(channel) - 1
         /\ Len(channel') <= Capacity
         /\ frames \in Nat /\ frames <= MaxFrames
         /\ UNCHANGED <<up, now, reader, frames, pyth, call>>
<1>1. /\ channel # <<>> /\ channel' = Tail(channel)
      /\ UNCHANGED <<up, now, reader, frames, pyth, call>>
  BY DEF Average, SkipFrame
<1>2. channel \in Seq(Frame) /\ Len(channel) <= Capacity /\ frames \in 0 .. MaxFrames
  BY DEF FeedTypeOK
<1>3. frames \in Nat /\ frames <= MaxFrames /\ Capacity \in Nat
  BY ONLY <1>2, FeedAssumption
<1>4. channel' \in Seq(Frame) /\ Len(channel) \in Nat /\ Len(channel') = Len(channel) - 1
  BY <1>1, <1>2, TailFacts
<1>5. Len(channel) # 0
  BY <1>1, <1>2
<1>6. Len(channel') <= Capacity
  BY ONLY <1>2, <1>3, <1>4
<1> QED BY <1>1, <1>3, <1>4, <1>5, <1>6

\* While nothing is heard and no call moves, the channel may shrink, and grow with
\* the frames.
LEMMA ChannelStepTypes ==
  ASSUME FeedInv, UNCHANGED <<averageVars, pyth, call>>,
         up' \in BOOLEAN, now' \in 0 .. MaxTime, reader' \in {"running", "ended"},
         channel' \in Seq(Frame), Len(channel') <= Capacity,
         frames' \in 0 .. MaxFrames,
         Len(channel') <= Len(channel) + frames' - frames
  PROVE  FeedInv'
<1>1. FeedTypeOK'
  BY DEF FeedInv, FeedTypeOK, averageVars
<1>2. HeardTypes'
  <2>0. channel \in Seq(Frame) /\ frames \in 0 .. MaxFrames
    BY DEF FeedInv, FeedTypeOK
  <2>1. Len(channel) \in Nat /\ frames \in Nat /\ Len(channel') \in Nat /\ frames' \in Nat
    <3>1. Len(channel) \in Nat /\ Len(channel') \in Nat
      BY <2>0
    <3> QED BY <2>0, <3>1, FeedAssumption
  <2>2. /\ heard' = heard /\ temp_store' = temp_store
        /\ \A m \in Market, t \in Second : heard[m][t] \in Seq(HeardTick)
    BY DEF FeedInv, HeardTypes, averageVars
  <2>3. \A m \in Market, t \in Second : Len(heard[m][t]) + Len(channel') <= frames'
    <3> SUFFICES ASSUME NEW m \in Market, NEW t \in Second
                 PROVE  Len(heard[m][t]) + Len(channel') <= frames'
      OBVIOUS
    <3>1. Len(heard[m][t]) \in Nat /\ Len(heard[m][t]) + Len(channel) <= frames
      BY <2>2 DEF FeedInv, HeardTypes
    <3> QED BY <2>1, <3>1
  <2> QED BY <2>2, <2>3 DEF FeedInv, HeardTypes
<1>3. CallTypes'
  BY DEF FeedInv, CallTypes
<1> QED BY <1>1, <1>2, <1>3 DEF FeedInv

LEMMA AverageTypes ==
  ASSUME FeedInv, Average
  PROVE  FeedInv'
<1>0. FeedTypeOK /\ CallTypes /\ HeardTypes
  BY DEF FeedInv
<1>1. /\ channel' \in Seq(Frame)
      /\ Len(channel) \in Nat \ {0} /\ Len(channel') = Len(channel) - 1
      /\ Len(channel') <= Capacity
      /\ frames \in Nat /\ frames <= MaxFrames
      /\ UNCHANGED <<up, now, reader, frames, pyth, call>>
  BY <1>0, TakesFrame
<1>2. PICK m \in Market, t \in Second, q \in Tick, p \in U64 : Heard(m, t, q, p)
  BY <1>0, AverageHears
<1> DEFINE e == temp_store[m][t]
           s == heard[m][t]
           r == [quote |-> q, price |-> p, at |-> now]
<1>3. /\ e \in Entry
      /\ temp_store' \in [Market -> [Second -> Entry]]
      /\ temp_store'[m][t] = AddTick(e, p)
      /\ coinbase' \in [Market -> [Second -> [price : OptionU64, at : 0 .. MaxTime]]]
      /\ r \in HeardTick
      /\ heard' \in [Market -> [Second -> Seq(HeardTick)]]
      /\ s \in Seq(HeardTick)
      /\ heard'[m][t] = Append(s, r)
      /\ \A n \in Market, u \in Second : n # m \/ u # t =>
           temp_store'[n][u] = temp_store[n][u] /\ heard'[n][u] = heard[n][u]
  BY <1>0, <1>2, HeardFacts
<1>4. FeedTypeOK'
  <2>1. temp_store' \in [Market -> [Second -> [total : U64, num : Nat, at : 0 .. MaxTime]]]
    BY ONLY <1>3 DEF Entry
  <2> HIDE DEF e, r, s
  <2> QED BY <1>0, <1>1, <1>3, <2>1 DEF FeedTypeOK
<1>5. /\ p \in to_u64_price(q) /\ r.price = p /\ r.quote = q
      /\ now \in 0 .. MaxTime
  BY <1>0, <1>2 DEF Heard, FeedTypeOK
<1>6. AddTick(e, p).num \in Nat /\ (AddTick(e, p).num = e.num + 1 \/ AddTick(e, p).num = 1)
  BY <1>3, <1>5, AddTickFacts DEF Entry
<1>7. e.num \in Nat /\ e.num <= Len(s) /\ Len(s) + Len(channel) <= frames
  BY <1>0, <1>3 DEF HeardTypes, Entry
<1> HIDE DEF e, r, s
<1>8. /\ Len(s) \in Nat /\ Len(heard'[m][t]) = Len(s) + 1
      /\ \A i \in 1 .. Len(s) : heard'[m][t][i] = s[i]
      /\ heard'[m][t][Len(s) + 1] = r
  BY <1>3, AppendFacts
<1>9. \A n \in Market, u \in Second :
        LET z == heard'[n][u] IN
          /\ \A i \in 1 .. Len(z) : z[i].price \in to_u64_price(z[i].quote)
          /\ Len(z) + Len(channel') <= frames'
          /\ temp_store'[n][u].num <= Len(z)
  <2> TAKE n \in Market, u \in Second
  <2>1. CASE n = m /\ u = t
    <3>1. \A i \in 1 .. Len(s) : s[i].price \in to_u64_price(s[i].quote)
      BY <1>0 DEF HeardTypes, s
    <3>2. \A i \in 1 .. Len(s) + 1 :
            heard'[m][t][i].price \in to_u64_price(heard'[m][t][i].quote)
      BY <1>5, <1>8, <3>1
    <3>3. Len(heard'[m][t]) + Len(channel') <= frames'
      BY <1>1, <1>7, <1>8
    <3>4. temp_store'[m][t].num <= Len(heard'[m][t])
      BY <1>3, <1>6, <1>7, <1>8
    <3> QED BY <1>8, <2>1, <3>2, <3>3, <3>4
  <2>2. CASE n # m \/ u # t
    <3>1. temp_store'[n][u] = temp_store[n][u] /\ heard'[n][u] = heard[n][u]
      BY <1>3, <2>2
    <3>2. /\ \A i \in 1 .. Len(heard[n][u]) :
               heard[n][u][i].price \in to_u64_price(heard[n][u][i].quote)
          /\ Len(heard[n][u]) + Len(channel) <= frames
          /\ temp_store[n][u].num <= Len(heard[n][u])
      BY <1>0 DEF HeardTypes
    <3>3. Len(heard[n][u]) \in Nat
      BY <1>0 DEF HeardTypes
    <3>4. Len(heard[n][u]) + Len(channel') <= frames'
      BY <1>1, <3>2, <3>3
    <3> QED BY <3>1, <3>2, <3>4
  <2> QED BY <2>1, <2>2
<1>10. HeardTypes'
  BY <1>3, <1>9 DEF HeardTypes
<1> QED BY <1>0, <1>1, <1>4, <1>10 DEF FeedInv, CallTypes

\* A step of Pyth's map or of a call leaves the averages alone.
LEMMA CallStepTypes ==
  ASSUME FeedInv, up' \in BOOLEAN, UNCHANGED <<now, reader, frames, loopVars>>,
         pyth' \in [Market -> [Second -> OptionU64]], CallTypes'
  PROVE  FeedInv'
<1>1. HeardTypes'
  BY DEF FeedInv, HeardTypes, loopVars, averageVars
<1>2. FeedTypeOK'
  BY DEF FeedInv, FeedTypeOK, loopVars, averageVars, CallTypes, CallState
<1> QED BY <1>1, <1>2 DEF FeedInv

\* What a call finds in the map when it asks.
LEMMA CallPriceFacts ==
  ASSUME FeedTypeOK, CallTypes, NEW c \in Call, NEW m \in Market, NEW t \in Second,
         CallPrice(c, m, t)
  PROVE  /\ CallTypes'
         /\ call' = [call EXCEPT ![c] =
              [pc |-> "pyth", market |-> m, second |-> t, found |-> pyth[m][t], price |-> None]]
         /\ call'[c] =
              [pc |-> "pyth", market |-> m, second |-> t, found |-> pyth[m][t], price |-> None]
         /\ \A d \in Call : d # c => call'[d] = call[d]
         /\ UNCHANGED pyth /\ UNCHANGED <<up, now, reader, frames, loopVars>>
<1> DEFINE r ==
      [pc |-> "pyth", market |-> m, second |-> t, found |-> pyth[m][t], price |-> None]
<1>1. /\ call' = [call EXCEPT ![c] = r]
      /\ UNCHANGED pyth /\ UNCHANGED <<up, now, reader, frames, loopVars>>
  BY DEF CallPrice
<1>2. pyth[m][t] \in OptionU64
  BY DEF FeedTypeOK
<1>3. r \in CallState /\ r.pc = "pyth" /\ r.market = m /\ r.second = t
  BY <1>2 DEF CallState, OptionU64
<1>4. call \in [Call -> CallState]
  BY DEF CallTypes
<1> HIDE DEF r
<1>5. /\ call' \in [Call -> CallState] /\ call'[c] = r
      /\ \A d \in Call : d # c => call'[d] = call[d]
  BY <1>1, <1>3, <1>4
<1>6. CallTypes'
  BY <1>3, <1>5 DEF CallTypes
<1> QED BY <1>1, <1>5, <1>6 DEF r

LEMMA FeedTypeStep ==
  ASSUME FeedInv, [FeedNext]_vars
  PROVE  FeedInv'
<1>0. /\ FeedTypeOK /\ CallTypes
      /\ pyth \in [Market -> [Second -> OptionU64]]
      /\ up \in BOOLEAN /\ now \in 0 .. MaxTime /\ reader \in {"running", "ended"}
      /\ channel \in Seq(Frame) /\ Len(channel) <= Capacity /\ frames \in 0 .. MaxFrames
      /\ Len(channel) \in Nat /\ frames \in Nat /\ Capacity \in Nat
      /\ MaxTime \in Nat /\ MaxFrames \in Nat
  BY FeedAssumption DEF FeedInv, FeedTypeOK
<1>1. ASSUME StreamEnds \/ WatchReturns \/ FetchFails \/ Advance \/ UNCHANGED vars
      PROVE  FeedInv'
  <2>1. UNCHANGED <<frames, channel>> /\ UNCHANGED <<averageVars, pyth, call>>
    BY <1>1 DEF StreamEnds, WatchReturns, FetchFails, Exit, Advance, vars, loopVars
  <2>2. up' \in BOOLEAN /\ reader' \in {"running", "ended"}
    BY <1>0, <1>1 DEF StreamEnds, WatchReturns, FetchFails, Exit, Advance, vars
  <2>3. now' \in 0 .. MaxTime
    <3>1. now' = now \/ (now < MaxTime /\ now' = now + 1)
      BY <1>1 DEF StreamEnds, WatchReturns, FetchFails, Exit, Advance, vars
    <3> QED BY <1>0, <3>1
  <2>4. Len(channel') <= Len(channel) + frames' - frames
    BY <1>0, <2>1
  <2> QED BY <1>0, <2>1, <2>2, <2>3, <2>4, ChannelStepTypes
<1>2. ASSUME NEW f \in Frame, ReadFrame(f)
      PROVE  FeedInv'
  <2>1. /\ Len(channel) < Capacity /\ frames < MaxFrames /\ frames' = frames + 1
        /\ channel' = Append(channel, f)
        /\ UNCHANGED <<up, now, reader>> /\ UNCHANGED <<averageVars, pyth, call>>
    BY <1>2 DEF ReadFrame, Forward
  <2>2. channel' \in Seq(Frame) /\ Len(channel') = Len(channel) + 1
    BY <1>0, <2>1, AppendFacts
  <2>3. /\ Len(channel') <= Capacity /\ frames' \in 0 .. MaxFrames
        /\ Len(channel') <= Len(channel) + frames' - frames
    BY <1>0, <2>1, <2>2
  <2> QED BY <1>0, <2>1, <2>2, <2>3, ChannelStepTypes
<1>3. ASSUME SkipFrame
      PROVE  FeedInv'
  <2>1. /\ channel' \in Seq(Frame) /\ Len(channel') = Len(channel) - 1
        /\ Len(channel') <= Capacity
        /\ UNCHANGED <<up, now, reader, frames, pyth, call>>
    BY <1>0, <1>3, TakesFrame
  <2>2. UNCHANGED <<averageVars, pyth, call>>
    BY <1>3 DEF SkipFrame
  <2>3. frames' \in 0 .. MaxFrames /\ Len(channel') <= Len(channel) + frames' - frames
    BY <1>0, <2>1
  <2> QED BY <1>0, <2>1, <2>2, <2>3, ChannelStepTypes
<1>4. ASSUME fetch
      PROVE  FeedInv'
  <2>1. UNCHANGED call /\ UNCHANGED <<up, now, reader, frames, loopVars>>
    BY <1>4 DEF fetch
  <2>2. pyth' \in [Market -> [Second -> OptionU64]]
    BY <1>0, <1>4, PollFacts DEF PythMoves
  <2>3. CallTypes'
    BY <1>0, <2>1 DEF CallTypes
  <2> QED BY <1>0, <2>1, <2>2, <2>3, CallStepTypes
<1>5. ASSUME NEW c \in Call, NEW m \in Market, NEW t \in Second, CallPrice(c, m, t)
      PROVE  FeedInv'
  BY <1>0, <1>5, CallPriceFacts, CallStepTypes
<1>6. ASSUME NEW c \in Call, NEW m \in Market, NEW t \in Second, FetchPyth(c, m, t)
      PROVE  FeedInv'
  <2>1. UNCHANGED <<up, now, reader, frames, loopVars>>
    BY <1>6 DEF FetchPyth
  <2>2. PythMoves /\ CallTypes'
    BY <1>0, <1>6, FetchPythFacts DEF FetchesPyth
  <2> QED BY <1>0, <2>1, <2>2, CallStepTypes DEF PythMoves
<1>7. ASSUME NEW c \in Call,
             GetPyth(c) \/ \E m \in Market, t \in Second : GetPythFails(c, m, t)
      PROVE  FeedInv'
  <2>1. /\ CallTypes' /\ UNCHANGED pyth
        /\ UNCHANGED <<up, now, reader, frames, loopVars>>
    BY <1>0, <1>7, LeavesPyth
  <2> QED BY <1>0, <2>1, CallStepTypes
<1>8. ASSUME NEW c \in Call, Combine(c)
      PROVE  FeedInv'
  <2>1. /\ UNCHANGED pyth /\ UNCHANGED <<now, reader, frames, loopVars>>
        /\ up' \in BOOLEAN
    BY <1>8 DEF Combine
  <2>2. CallTypes'
    BY <1>0, <1>8, CombineTypes
  <2> QED BY <1>0, <2>1, <2>2, CallStepTypes
<1> QED BY <1>1, <1>2, <1>3, <1>4, <1>5, <1>6, <1>7, <1>8, AverageTypes DEF FeedNext

\* Sums, counts, averages, the channel and the calls keep their types, and every tick
\* averaged has come through the channel.
THEOREM FeedInvariance == FeedSpec => []FeedInv
<1>1. FeedInv /\ [FeedNext]_vars => FeedInv'
  BY FeedTypeStep
<1> QED BY FeedTypeInit, <1>1, PTL DEF FeedSpec

\* The channel never holds more than its capacity, and every sum, average, Pyth price
\* and answer is a u64, whatever the exponent and the digits of the quotes.
THEOREM FeedTyping == FeedSpec => []FeedTypeOK
<1>1. FeedInv => FeedTypeOK
  BY DEF FeedInv
<1> QED BY FeedInvariance, <1>1, PTL
-----------------------------------------------------------------------------
(* Prices against the quotes they come from, when those fit.               *)

\* Pyth's map, and the calls that have looked into it, hold what a quote of their
\* market and second is worth.
PythFaithful ==
  /\ \A m \in Market, t \in Second : pyth[m][t] # None => pyth[m][t] \in PythWorth(m, t)
  /\ \A c \in Call : call[c].found # None =>
       call[c].found \in PythWorth(call[c].market, call[c].second)

\* n times some tick heard for the second is at most x, and n times some other at
\* least x.
TicksAround(m, t, n, x) ==
  \E g, h \in HeardFor(m, t) : n * g.price <= x /\ x <= n * h.price

\* A sum of n ticks is around n ticks of its second, also after it has started anew.
SumsAround ==
  \A m \in Market, t \in Second :
    temp_store[m][t].num > 0 =>
      TicksAround(m, t, temp_store[m][t].num, temp_store[m][t].total)

\* An average is around a tick, also when the sum has expired since.
AveragesAround ==
  \A m \in Market, t \in Second :
    coinbase[m][t].price # None => TicksAround(m, t, 1, coinbase[m][t].price)

QuoteInv == PythFaithful /\ SumsAround /\ AveragesAround /\ AnswerWithinQuotes

\* Without a wrap to_fixed_precision is exact.
LEMMA FixedPrecisionExact ==
  ASSUME QuotesFit, NEW m \in Market, NEW t \in Second
  PROVE  fetch_pyth_price(m, t) \subseteq PythWorth(m, t)
<1> SUFFICES ASSUME NEW q \in PythQuote(m, t)
             PROVE  to_fixed_precision(q) = q.price * 10 ^ (Decimals + q.expo)
  BY DEF fetch_pyth_price, PythWorth
<1>1. /\ q.price \in Nat /\ q.expo \in -Decimals .. -1 /\ Decimals \in Nat
      /\ Wide \in Nat \ {0}
  BY FeedAssumption
<1> DEFINE scale == 10 ^ (Decimals + q.expo)
<1>2. scale \in 0 .. Wide - 1 /\ q.price * scale \in 0 .. Wide - 1
  BY DEF QuotesFit, U64
<1>3. q.expo < 0 /\ ~(Decimals + q.expo < 0)
  BY <1>1
<1>4. Pow10(Decimals + q.expo) = scale % Wide
  BY <1>3 DEF Pow10
<1> HIDE DEF scale
<1>5. Pow10(Decimals + q.expo) = scale
  BY <1>1, <1>2, <1>4
<1>6. (q.price * scale) % Wide = q.price * scale
  BY <1>1, <1>2
<1> QED BY <1>3, <1>5, <1>6 DEF to_fixed_precision, scale

\* A tick is a number, and exact to a unit.
LEMMA TickFacts ==
  ASSUME HeardTypes, NEW m \in Market, NEW t \in Second, NEW h \in HeardFor(m, t)
  PROVE  /\ h \in HeardTick
         /\ h.price \in Nat
         /\ h.price \in to_u64_price(h.quote)
         /\ h.price \in Worth(m, t)
<1>1. PICK i \in 1 .. Len(heard[m][t]) : h = heard[m][t][i]
  BY DEF HeardFor
<1>2. h \in HeardTick /\ h.price \in Nat /\ h.price \in to_u64_price(h.quote)
  <2>1. heard[m][t] \in Seq(HeardTick)
    BY DEF HeardTypes
  <2>2. h \in HeardTick
    BY <1>1, <2>1
  <2>3. h.price \in to_u64_price(h.quote)
    BY <1>1 DEF HeardTypes
  <2> QED BY <2>2, <2>3, U64Facts DEF HeardTick
<1>3. h.price \in {Exact(h.quote), Exact(h.quote) - 1}
  BY <1>2 DEF to_u64_price
<1> QED BY <1>2, <1>3 DEF Worth

\* A tick more is heard, and nothing that was heard is forgotten.
LEMMA HeardGrows ==
  ASSUME FeedTypeOK, HeardTypes, NEW m \in Market, NEW t \in Second, NEW q \in Tick,
         NEW p \in U64, Heard(m, t, q, p)
  PROVE  /\ [quote |-> q, price |-> p, at |-> now] \in HeardFor(m, t)'
         /\ \A n \in Market, u \in Second :
              HeardFor(n, u) \subseteq HeardFor(n, u)' /\ Worth(n, u) \subseteq Worth(n, u)'
<1> DEFINE r == [quote |-> q, price |-> p, at |-> now]
           s == heard[m][t]
<1>1. /\ r \in HeardTick /\ s \in Seq(HeardTick) /\ heard'[m][t] = Append(s, r)
      /\ \A n \in Market, u \in Second : n # m \/ u # t => heard'[n][u] = heard[n][u]
  BY HeardFacts
<1> HIDE DEF r, s
<1>2. /\ Len(s) \in Nat /\ Len(heard'[m][t]) = Len(s) + 1
      /\ \A i \in 1 .. Len(s) : heard'[m][t][i] = s[i]
      /\ heard'[m][t][Len(s) + 1] = r
  BY <1>1, AppendFacts
<1>3. r \in HeardFor(m, t)'
  <2>1. Len(s) + 1 \in 1 .. Len(heard'[m][t])
    BY <1>2
  <2> QED BY <1>2, <2>1 DEF HeardFor
<1>4. \A n \in Market, u \in Second : HeardFor(n, u) \subseteq HeardFor(n, u)'
  <2> TAKE n \in Market, u \in Second
  <2>1. CASE n = m /\ u = t
    <3>1. \A i \in 1 .. Len(s) : i \in 1 .. Len(heard'[m][t]) /\ heard'[m][t][i] = s[i]
      BY <1>2
    <3> QED BY <2>1, <3>1 DEF HeardFor, s
  <2>2. CASE n # m \/ u # t
    BY <1>1, <2>2 DEF HeardFor
  <2> QED BY <2>1, <2>2
<1>5. \A n \in Market, u \in Second : Worth(n, u) \subseteq Worth(n, u)'
  BY <1>4 DEF Worth, PythWorth
<1> QED BY <1>3, <1>4, <1>5 DEF r

\* Without a gap: what the next tick makes of the sum, which does not wrap.
LEMMA SumFits ==
  ASSUME QuotesFit, FeedInv, SumsAround, Average, NEW m \in Market, NEW t \in Second,
         NEW q \in Tick, NEW p \in U64, Heard(m, t, q, p), temp_store[m][t].num > 0
  PROVE  (temp_store[m][t].total + p) % Wide = temp_store[m][t].total + p
<1> DEFINE e == temp_store[m][t]
<1>0. FeedTypeOK /\ HeardTypes
  BY DEF FeedInv
<1>1. e.num \in Nat /\ e.total \in U64 /\ p \in Nat
  BY <1>0, HeardFacts, U64Facts DEF Entry
<1>2. e.total \in Nat /\ Wide \in Nat \ {0} /\ MaxFrames \in Nat
  BY <1>1, U64Facts, FeedAssumption
<1>3. e.num + 1 <= MaxFrames
  <2>1. Len(heard[m][t]) \in Nat /\ e.num <= Len(heard[m][t])
        /\ Len(heard[m][t]) + Len(channel) <= frames
    BY <1>0 DEF HeardTypes
  <2>2. Len(channel) \in Nat \ {0} /\ frames \in Nat /\ frames <= MaxFrames
    BY <1>0, TakesFrame
  <2> QED BY <1>1, <1>2, <2>1, <2>2
<1>4. PICK h \in HeardFor(m, t) : e.total <= e.num * h.price
  BY DEF SumsAround, TicksAround
<1>5. h.price \in Nat /\ h \in HeardTick /\ h.price \in to_u64_price(h.quote)
  BY <1>0, TickFacts
<1>6. PICK most \in U64 :
        /\ MaxFrames * most < Wide
        /\ \A x \in Tick : \A v \in to_u64_price(x) : v <= most
  BY DEF QuotesFit
<1>7. most \in Nat /\ h.price <= most /\ p <= most
  <2>1. h.quote \in Tick /\ p \in to_u64_price(q)
    BY <1>5 DEF HeardTick, Heard
  <2> QED BY <1>5, <1>6, <2>1, U64Facts
<1> HIDE DEF e
<1>8. e.num * h.price <= e.num * most
  BY <1>1, <1>5, <1>7
<1>9. (e.num + 1) * most <= MaxFrames * most
  BY <1>1, <1>2, <1>3, <1>7
<1>10. (e.num + 1) * most = e.num * most + most
  BY <1>1, <1>7
<1>11. e.num * most \in Nat /\ (e.num + 1) * most \in Nat /\ MaxFrames * most \in Nat
       /\ e.num * h.price \in Nat
  BY <1>1, <1>2, <1>5, <1>7
<1>12. e.total + p < Wide /\ e.total + p \in Nat
  BY ONLY <1>1, <1>2, <1>4, <1>6, <1>7, <1>8, <1>9, <1>10, <1>11
<1>13. (e.total + p) % Wide = e.total + p
  BY ONLY <1>2, <1>12, NoWrap
<1> QED BY <1>13 DEF e

\* The sum of a second after one more tick stays around ticks of the second.
LEMMA SumStep ==
  ASSUME QuotesFit, FeedInv, SumsAround, Average, NEW m \in Market, NEW t \in Second,
         NEW q \in Tick, NEW p \in U64, Heard(m, t, q, p)
  PROVE  LET a == AddTick(temp_store[m][t], p)
         IN  /\ a \in Entry /\ a.num # 0
             /\ \E g \in HeardFor(m, t)' : a.num * g.price <= a.total
             /\ \E h \in HeardFor(m, t)' : a.total <= a.num * h.price
<1> DEFINE e == temp_store[m][t]
           a == AddTick(e, p)
           r == [quote |-> q, price |-> p, at |-> now]
<1>0. FeedTypeOK /\ HeardTypes /\ now \in 0 .. MaxTime /\ p \in Nat
  BY U64Facts DEF FeedInv, FeedTypeOK
<1>1. e \in Entry
  BY <1>0, HeardFacts
<1>2. /\ a \in Entry /\ a.num # 0
      /\ \/ e.num > 0 /\ a.num = e.num + 1 /\ a.total = (e.total + p) % Wide
         \/ a.num = 1 /\ a.total = p
  BY <1>0, <1>1, AddTickFacts
<1>3. e.num \in Nat /\ e.total \in U64 /\ r.price = p
  BY <1>1 DEF Entry
<1>4. e.total \in Nat
  BY <1>3, U64Facts
<1>5. r \in HeardFor(m, t)' /\ HeardFor(m, t) \subseteq HeardFor(m, t)'
  BY <1>0, HeardGrows
<1> HIDE DEF a, r
<1>6. CASE a.num = 1 /\ a.total = p
  <2>1. 1 * r.price <= p /\ p <= 1 * r.price
    BY <1>0, <1>3
  <2> QED BY <1>2, <1>5, <1>6, <2>1 DEF a
<1>7. CASE e.num > 0 /\ a.num = e.num + 1 /\ a.total = (e.total + p) % Wide
  <2>1. PICK g \in HeardFor(m, t), h \in HeardFor(m, t) :
          e.num * g.price <= e.total /\ e.total <= e.num * h.price
    BY <1>7 DEF SumsAround, TicksAround
  <2>2. g.price \in Nat /\ h.price \in Nat
    BY <1>0, <2>1, TickFacts
  <2>3. a.total = e.total + p
    BY <1>7, SumFits
  <2>4. (e.num + 1) * g.price <= e.total + p \/ (e.num + 1) * p <= e.total + p
    BY <1>0, <1>3, <1>4, <2>1, <2>2, SumAbove
  <2>5. e.total + p <= (e.num + 1) * h.price \/ e.total + p <= (e.num + 1) * p
    BY <1>0, <1>3, <1>4, <2>1, <2>2, SumBelow
  <2>6. g \in HeardFor(m, t)' /\ h \in HeardFor(m, t)'
    BY <1>5, <2>1
  <2>7. /\ \E x \in HeardFor(m, t)' : a.num * x.price <= a.total
        /\ \E x \in HeardFor(m, t)' : a.total <= a.num * x.price
    BY <1>3, <1>5, <1>7, <2>3, <2>4, <2>5, <2>6
  <2> QED BY <1>2, <2>7 DEF a
<1> QED BY <1>2, <1>6, <1>7 DEF a

LEMMA AverageQuotes ==
  ASSUME QuotesFit, FeedInv, QuoteInv, Average
  PROVE  QuoteInv'
<1>0. /\ FeedTypeOK /\ HeardTypes /\ PythFaithful /\ SumsAround /\ AveragesAround
      /\ AnswerWithinQuotes /\ CallTypes /\ UNCHANGED <<pyth, call>>
  BY DEF FeedInv, QuoteInv, Average
<1>1. PICK m \in Market, t \in Second, q \in Tick, p \in U64 : Heard(m, t, q, p)
  BY <1>0, AverageHears
<1> DEFINE a == AddTick(temp_store[m][t], p)
<1>2. /\ temp_store'[m][t] = a
      /\ coinbase'[m][t].price = a.total \div a.num
      /\ \A n \in Market, u \in Second : n # m \/ u # t =>
           temp_store'[n][u] = temp_store[n][u] /\ coinbase'[n][u] = coinbase[n][u]
  <2>1. temp_store'[m][t] = a
    BY <1>0, <1>1, HeardFacts
  <2>2. coinbase'[m][t].price = a.total \div a.num
    BY <1>0, <1>1, HeardFacts
  <2>3. \A n \in Market, u \in Second : n # m \/ u # t =>
          /\ temp_store'[n][u] = temp_store[n][u]
          /\ coinbase'[n][u] = coinbase[n][u]
          /\ heard'[n][u] = heard[n][u]
    BY <1>0, <1>1, HeardFacts
  <2> QED BY <2>1, <2>2, <2>3
<1>3. /\ a \in Entry /\ a.num # 0
      /\ \E g \in HeardFor(m, t)' : a.num * g.price <= a.total
      /\ \E h \in HeardFor(m, t)' : a.total <= a.num * h.price
  BY <1>0, <1>1, SumStep
<1> HIDE DEF a
<1>4. \A n \in Market, u \in Second :
        HeardFor(n, u) \subseteq HeardFor(n, u)' /\ Worth(n, u) \subseteq Worth(n, u)'
  BY <1>0, <1>1, HeardGrows
<1>5. SumsAround'
  <2> SUFFICES ASSUME NEW n \in Market, NEW u \in Second, temp_store'[n][u].num > 0
               PROVE  \E g, h \in HeardFor(n, u)' :
                        /\ temp_store'[n][u].num * g.price <= temp_store'[n][u].total
                        /\ temp_store'[n][u].total <= temp_store'[n][u].num * h.price
    BY DEF SumsAround, TicksAround
  <2>1. CASE n = m /\ u = t
    BY <1>2, <1>3, <2>1
  <2>2. CASE n # m \/ u # t
    BY <1>0, <1>2, <1>4, <2>2 DEF SumsAround, TicksAround
  <2> QED BY <2>1, <2>2
<1>6. AveragesAround'
  <2> SUFFICES ASSUME NEW n \in Market, NEW u \in Second, coinbase'[n][u].price # None
               PROVE  \E g, h \in HeardFor(n, u)' :
                        /\ 1 * g.price <= coinbase'[n][u].price
                        /\ coinbase'[n][u].price <= 1 * h.price
    BY DEF AveragesAround, TicksAround
  <2>1. CASE n = m /\ u = t
    <3>1. PICK g \in HeardFor(m, t)', h \in HeardFor(m, t)' :
            a.num * g.price <= a.total /\ a.total <= a.num * h.price
      BY <1>3
    <3>2. HeardTypes'
      BY AverageTypes DEF FeedInv
    <3>3. g.price \in Nat /\ h.price \in Nat
      <4>1. ASSUME NEW x \in HeardFor(m, t)' PROVE x.price \in Nat
        <5>1. PICK i \in 1 .. Len(heard'[m][t]) : x = heard'[m][t][i]
          BY <4>1 DEF HeardFor
        <5>2. heard'[m][t] \in Seq(HeardTick)
          BY <3>2 DEF HeardTypes
        <5>3. x \in HeardTick
          BY <5>1, <5>2
        <5> QED BY <5>3, U64Facts DEF HeardTick
      <4> QED BY <3>1, <4>1
    <3>4. a.total \in Nat /\ a.num \in Nat \ {0}
      BY <1>3, U64Facts DEF Entry
    <3>5. g.price <= a.total \div a.num /\ a.total \div a.num <= h.price
      BY <3>1, <3>3, <3>4, DivBetween
    <3>6. 1 * g.price = g.price /\ 1 * h.price = h.price
      BY <3>3
    <3> QED BY <1>2, <2>1, <3>1, <3>5, <3>6
  <2>2. CASE n # m \/ u # t
    BY <1>0, <1>2, <1>4, <2>2 DEF AveragesAround, TicksAround
  <2> QED BY <2>1, <2>2
<1>7. AnswerWithinQuotes'
  <2> SUFFICES ASSUME NEW c \in Call, call[c].pc = "ok"
               PROVE  LET w == Worth(call[c].market, call[c].second)'
                      IN  (\E v \in w : v <= call[c].price) /\ (\E v \in w : call[c].price <= v)
    BY <1>0 DEF AnswerWithinQuotes
  <2>1. call[c].market \in Market /\ call[c].second \in Second
    BY <1>0 DEF CallTypes
  <2> QED BY <1>0, <1>4, <2>1 DEF AnswerWithinQuotes
<1>8. PythFaithful'
  BY <1>0 DEF PythFaithful, PythWorth
<1> QED BY <1>5, <1>6, <1>7, <1>8 DEF QuoteInv

\* get_price's answer, from a Pyth price and an average that are around quotes.
LEMMA CombineWithinQuotes ==
  ASSUME FeedInv, QuoteInv, NEW c \in Call, Combine(c)
  PROVE  PythFaithful' /\ AnswerWithinQuotes'
<1> DEFINE m == call[c].market
           t == call[c].second
           x == coinbase[m][t].price
           y == call[c].found
<1>0. FeedTypeOK /\ CallTypes /\ HeardTypes /\ UNCHANGED <<pyth, heard>>
  BY DEF FeedInv, Combine, loopVars, averageVars
<1>1. call[c].pc = "coinbase" /\ m \in Market /\ t \in Second /\ y \in U64 /\ y \in Nat
  BY <1>0, CombineFacts, U64Facts
<1>2. y \in Worth(m, t)
  BY <1>1, U64Facts DEF QuoteInv, PythFaithful, Worth
<1>3. PICK pc \in {"ok", "panicked"}, v \in OptionU64 :
        /\ call'[c].pc = pc /\ call'[c].price = v
        /\ pc = "ok" => v = y \/ (x \in U64 /\ v = (x + y) \div 2)
  BY <1>0, CombineTypes
<1>4. /\ call'[c].market = m /\ call'[c].second = t /\ call'[c].found = y
      /\ \A d \in Call : d # c => call'[d] = call[d]
  BY <1>0, CombineTypes
<1>5. pc = "ok" => /\ \E w \in Worth(m, t) : w <= v
                   /\ \E w \in Worth(m, t) : v <= w
  <2>1. CASE v = y
    BY <1>1, <1>2, <2>1
  <2>2. CASE x \in U64 /\ v = (x + y) \div 2
    <3>1. x # None /\ x \in Nat
      BY <2>2, U64Facts
    <3>2. TicksAround(m, t, 1, x)
      BY <1>1, <3>1 DEF QuoteInv, AveragesAround
    <3>3. PICK g \in HeardFor(m, t), h \in HeardFor(m, t) :
            1 * g.price <= x /\ x <= 1 * h.price
      BY <3>2 DEF TicksAround
    <3>4. /\ g.price \in Nat /\ g.price \in Worth(m, t)
          /\ h.price \in Nat /\ h.price \in Worth(m, t)
      BY <1>0, <1>1, TickFacts
    <3> HIDE DEF x, y, m, t
    <3>5. g.price <= (x + y) \div 2 \/ y <= (x + y) \div 2
      BY <1>1, <3>1, <3>3, <3>4
    <3>6. (x + y) \div 2 <= h.price \/ (x + y) \div 2 <= y
      BY <1>1, <3>1, <3>3, <3>4
    <3> QED BY <1>2, <2>2, <3>4, <3>5, <3>6
  <2> QED BY <1>3, <2>1, <2>2
<1> HIDE DEF m, t, y
<1>6. \A n, u : Worth(n, u)' = Worth(n, u)
  BY <1>0 DEF Worth, PythWorth, HeardFor
<1>7. AnswerWithinQuotes'
  <2> SUFFICES ASSUME NEW d \in Call, call'[d].pc = "ok"
               PROVE  LET w == Worth(call[d].market, call[d].second)'
                      IN  /\ \E z \in w : z <= call'[d].price
                          /\ \E z \in w : call'[d].price <= z
    BY DEF AnswerWithinQuotes
  <2>1. CASE d = c
    BY <1>3, <1>4, <1>5, <1>6, <2>1
  <2>2. CASE d # c
    BY <1>4, <1>6, <2>2 DEF QuoteInv, AnswerWithinQuotes
  <2> QED BY <2>1, <2>2
<1>8. PythFaithful'
  <2>1. \A d \in Call : /\ call'[d].found = call[d].found
                        /\ call'[d].market = call[d].market
                        /\ call'[d].second = call[d].second
    BY <1>4 DEF m, t, y
  <2> QED BY <1>0, <2>1 DEF QuoteInv, PythFaithful, PythWorth
<1> QED BY <1>7, <1>8

\* A step that hears nothing and ends no call: answers keep their quotes.
LEMMA NothingHeard ==
  ASSUME QuoteInv, UNCHANGED averageVars,
         \A c \in Call : call'[c] = call[c] \/ call'[c].pc # "ok"
  PROVE  SumsAround' /\ AveragesAround' /\ AnswerWithinQuotes'
<1>1. UNCHANGED <<temp_store, coinbase, heard>>
  BY DEF averageVars
<1>2. \A n, u : HeardFor(n, u)' = HeardFor(n, u)
  BY <1>1 DEF HeardFor
<1>3. \A n, u : Worth(n, u)' = Worth(n, u)
  BY <1>2 DEF Worth, PythWorth
<1>4. SumsAround' /\ AveragesAround'
  BY <1>1, <1>2 DEF QuoteInv, SumsAround, AveragesAround, TicksAround
<1>5. AnswerWithinQuotes'
  BY <1>3 DEF QuoteInv, AnswerWithinQuotes
<1> QED BY <1>4, <1>5

LEMMA QuoteStep ==
  ASSUME QuotesFit, FeedInv, QuoteInv, [FeedNext]_vars
  PROVE  QuoteInv'
<1>0. FeedTypeOK /\ CallTypes /\ PythFaithful
  BY DEF FeedInv, QuoteInv
<1>1. ASSUME \/ (\E f \in Frame : ReadFrame(f)) \/ SkipFrame
             \/ StreamEnds \/ WatchReturns \/ FetchFails \/ Advance
             \/ UNCHANGED vars
      PROVE  QuoteInv'
  <2>1. UNCHANGED <<averageVars, pyth, call>>
    BY <1>1 DEF ReadFrame, Forward, SkipFrame, StreamEnds, WatchReturns, FetchFails,
                Exit, Advance, vars, loopVars
  <2>2. PythFaithful'
    BY <1>0, <2>1 DEF PythFaithful, PythWorth
  <2> QED BY <2>1, <2>2, NothingHeard DEF QuoteInv
<1>2. ASSUME PythMoves
      PROVE  \A m \in Market, t \in Second : pyth'[m][t] # None => pyth'[m][t] \in PythWorth(m, t)
  BY <1>0, <1>2, FixedPrecisionExact DEF PythMoves, PythFaithful
<1>3. ASSUME PythMoves, UNCHANGED averageVars,
             \A c \in Call :
               \/ call'[c] = call[c]
               \/ /\ call'[c].pc # "ok"
                  /\ call'[c].found # None =>
                       call'[c].found \in PythWorth(call'[c].market, call'[c].second)
      PROVE  QuoteInv'
  <2>1. PythFaithful'
    BY <1>0, <1>2, <1>3 DEF PythFaithful, PythWorth
  <2> QED BY <1>3, <2>1, NothingHeard DEF QuoteInv
<1>4. UNCHANGED pyth => PythMoves
  BY <1>0 DEF PythMoves, FeedTypeOK
<1>5. ASSUME fetch
      PROVE  QuoteInv'
  <2>1. PythMoves /\ UNCHANGED averageVars /\ UNCHANGED call
    BY <1>0, <1>5, PollFacts DEF fetch, loopVars
  <2> QED BY <1>3, <2>1
<1>6. ASSUME NEW c \in Call, NEW m \in Market, NEW t \in Second, CallPrice(c, m, t)
      PROVE  QuoteInv'
  <2>1. /\ call'[c] = [pc |-> "pyth", market |-> m, second |-> t,
                        found |-> pyth[m][t], price |-> None]
        /\ \A d \in Call : d # c => call'[d] = call[d]
    BY <1>0, <1>6, CallPriceFacts
  <2>2. UNCHANGED averageVars /\ UNCHANGED pyth
    BY <1>6 DEF CallPrice, loopVars
  <2>3. pyth[m][t] # None => pyth[m][t] \in PythWorth(m, t)
    BY <1>0 DEF PythFaithful
  <2> QED BY <1>3, <1>4, <2>1, <2>2, <2>3
<1>7. ASSUME NEW c \in Call, NEW m \in Market, NEW t \in Second, FetchPyth(c, m, t)
      PROVE  QuoteInv'
  <2>1. PICK v \in fetch_pyth_price(m, t) : FetchesPyth(c, m, t, v)
    BY <1>0, <1>7, FetchPythFacts
  <2>2. v \in PythWorth(m, t)
    BY FixedPrecisionExact
  <2>3. UNCHANGED averageVars
    BY <1>7 DEF FetchPyth, loopVars
  <2> QED BY <1>3, <2>1, <2>2, <2>3 DEF FetchesPyth
<1>8. ASSUME NEW c \in Call,
             GetPyth(c) \/ \E m \in Market, t \in Second : GetPythFails(c, m, t)
      PROVE  QuoteInv'
  <2>1. /\ call'[c].pc # "ok" /\ call'[c].market = call[c].market
        /\ call'[c].second = call[c].second /\ call'[c].found = call[c].found
        /\ \A d \in Call : d # c => call'[d] = call[d]
        /\ UNCHANGED averageVars /\ UNCHANGED pyth
    BY <1>0, <1>8, LeavesPyth DEF loopVars
  <2> QED BY <1>0, <1>3, <1>4, <2>1 DEF PythFaithful
<1>9. ASSUME NEW c \in Call, Combine(c)
      PROVE  QuoteInv'
  <2>1. PythFaithful' /\ AnswerWithinQuotes'
    BY <1>9, CombineWithinQuotes
  <2>2. UNCHANGED <<temp_store, coinbase, heard>>
    BY <1>9 DEF Combine, loopVars, averageVars
  <2>3. SumsAround' /\ AveragesAround'
    BY <2>2 DEF QuoteInv, SumsAround, AveragesAround, TicksAround, HeardFor
  <2> QED BY <2>1, <2>3 DEF QuoteInv
<1> QED BY <1>1, <1>5, <1>6, <1>7, <1>8, <1>9, AverageQuotes DEF FeedNext

LEMMA QuoteInit == FeedInit => QuoteInv
<1> SUFFICES ASSUME FeedInit PROVE QuoteInv
  OBVIOUS
<1>1. \A c \in Call : call[c].pc = "idle" /\ call[c].found = None
  BY DEF FeedInit, NoCall
<1>2. \A m \in Market, t \in Second :
        pyth[m][t] = None /\ temp_store[m][t].num = 0 /\ coinbase[m][t].price = None
  BY DEF FeedInit, PythInit, CoinbaseInit
<1> QED BY <1>1, <1>2 DEF QuoteInv, PythFaithful, SumsAround, AveragesAround,
                          AnswerWithinQuotes

\* Where nothing wraps, whatever is cached or answered lies between quotes of its market
\* and second, through every expiry and restart of a sum.
THEOREM QuotesInvariance ==
  ASSUME QuotesFit
  PROVE  FeedSpec => []QuoteInv
<1>1. FeedInv /\ QuoteInv /\ [FeedNext]_vars => QuoteInv'
  BY QuoteStep
<1> QED BY FeedInvariance, QuoteInit, <1>1, PTL DEF FeedSpec

\* Where nothing wraps, the price of an answer lies between quotes of its own market
\* and second, for any number of ticks, polls and calls and any expiries.
THEOREM AnswersWithinQuotes ==
  ASSUME QuotesFit
  PROVE  FeedSpec => []AnswerWithinQuotes
<1>1. QuoteInv => AnswerWithinQuotes
  BY DEF QuoteInv
<1> QED BY QuotesInvariance, <1>1, PTL
-----------------------------------------------------------------------------
(* The sums of the ticks heard.                                            *)

\* f sums up s, and it is the only function to do so.
Sums(s, f) ==
  f = [i \in 0 .. Len(s) |-> IF i = 0 THEN 0 ELSE f[i - 1] + s[i].price]

HasSum(s) == \E f : Sums(s, f) /\ \A g : Sums(s, g) => g = f

LEMMA SumOfIs ==
  ASSUME NEW s, NEW f, Sums(s, f), \A g : Sums(s, g) => g = f
  PROVE  SumOf(s) = f[Len(s)]
<1> DEFINE h == CHOOSE g : Sums(s, g)
<1>1. Sums(s, h)
  BY Zenon
<1>2. h = f
  BY <1>1
<1>3. SumOf(s) = h[Len(s)]
  BY Zenon DEF SumOf, Sums
<1> QED BY <1>2, <1>3

LEMMA SumEmpty == HasSum(<<>>) /\ SumOf(<<>>) = 0
<1> DEFINE s == <<>>
           F == [i \in 0 .. 0 |-> 0]
<1>1. Len(s) = 0
  OBVIOUS
<1> HIDE DEF s
<1>2. \A g : Sums(s, g) => g = F
  <2> SUFFICES ASSUME NEW g, Sums(s, g) PROVE g = F
    OBVIOUS
  <2>1. g = [i \in 0 .. 0 |-> IF i = 0 THEN 0 ELSE g[i - 1] + s[i].price]
    BY <1>1 DEF Sums
  <2>2. \A i \in 0 .. 0 : g[i] = 0
    BY <2>1
  <2> QED BY <2>1, <2>2
<1>3. Sums(s, F)
  <2>1. F = [i \in 0 .. 0 |-> IF i = 0 THEN 0 ELSE F[i - 1] + s[i].price]
    OBVIOUS
  <2> QED BY <1>1, <2>1 DEF Sums
<1>4. SumOf(s) = F[Len(s)]
  BY <1>2, <1>3, SumOfIs
<1>5. F[Len(s)] = 0
  BY <1>1
<1> HIDE DEF F
<1>6. HasSum(s)
  BY <1>2, <1>3 DEF HasSum
<1> QED BY <1>4, <1>5, <1>6 DEF s

LEMMA SumAppend ==
  ASSUME NEW S, NEW s \in Seq(S), NEW x \in S, HasSum(s)
  PROVE  HasSum(Append(s, x)) /\ SumOf(Append(s, x)) = SumOf(s) + x.price
<1> DEFINE n == Len(s)
           r == Append(s, x)
<1>1. /\ n \in Nat /\ Len(r) = n + 1 /\ r[n + 1] = x
      /\ \A i \in 1 .. n : r[i] = s[i]
  OBVIOUS
<1>2. PICK f : Sums(s, f) /\ \A g : Sums(s, g) => g = f
  BY DEF HasSum
<1> DEFINE F == [i \in 0 .. n + 1 |-> IF i = n + 1 THEN f[n] + x.price ELSE f[i]]
<1> HIDE DEF n, r
<1>3. ASSUME NEW g, Sums(r, g)
      PROVE  g = F
  <2>1. g = [i \in 0 .. n + 1 |-> IF i = 0 THEN 0 ELSE g[i - 1] + r[i].price]
    BY <1>1, <1>3 DEF Sums
  <2> DEFINE h == [i \in 0 .. n |-> g[i]]
  <2>2. \A i \in 0 .. n : h[i] = IF i = 0 THEN 0 ELSE h[i - 1] + s[i].price
    BY <1>1, <2>1
  <2>3. h = [i \in 0 .. n |-> IF i = 0 THEN 0 ELSE h[i - 1] + s[i].price]
    BY <2>2
  <2>4. h = f
    BY <1>2, <2>3 DEF Sums, n
  <2>5. g[n + 1] = g[n] + x.price
    BY <1>1, <2>1
  <2>6. \A i \in 0 .. n + 1 : g[i] = F[i]
    BY <1>1, <2>4, <2>5
  <2> QED BY <2>1, <2>6
<1>4. Sums(r, F)
  <2>1. f = [i \in 0 .. n |-> IF i = 0 THEN 0 ELSE f[i - 1] + s[i].price]
    BY <1>2 DEF Sums, n
  <2>2. \A i \in 0 .. n + 1 : F[i] = IF i = 0 THEN 0 ELSE F[i - 1] + r[i].price
    BY <1>1, <2>1
  <2>3. F = [i \in 0 .. n + 1 |-> IF i = 0 THEN 0 ELSE F[i - 1] + r[i].price]
    BY <2>2
  <2> QED BY <1>1, <2>3 DEF Sums
<1>5. SumOf(s) = f[n]
  BY <1>2, SumOfIs DEF n
<1>6. SumOf(r) = F[Len(r)]
  BY <1>3, <1>4, SumOfIs
<1>7. F[Len(r)] = f[n] + x.price
  BY <1>1
<1> HIDE DEF F
<1>8. HasSum(r)
  BY <1>3, <1>4 DEF HasSum
<1> QED BY <1>5, <1>6, <1>7, <1>8 DEF r

\* A tick more without a gap: there was none before, and the last tick is recent.
LEMMA NoGapAppend ==
  ASSUME NEW s \in Seq(HeardTick), NEW r \in HeardTick, NoGap(Append(s, r)), s # <<>>
  PROVE  NoGap(s) /\ r.at < s[Len(s)].at + StoreTTL
<1>1. /\ Len(s) \in Nat \ {0} /\ Len(Append(s, r)) = Len(s) + 1
      /\ Append(s, r)[Len(s) + 1] = r
      /\ \A i \in 1 .. Len(s) : Append(s, r)[i] = s[i]
  OBVIOUS
<1>2. \A i \in 1 .. Len(s) :
        Append(s, r)[i + 1].at < Append(s, r)[i].at + StoreTTL
  BY <1>1 DEF NoGap
<1>3. r.at < s[Len(s)].at + StoreTTL
  <2>1. Len(s) \in 1 .. Len(s)
    BY <1>1
  <2> QED BY <1>1, <1>2, <2>1
<1>4. \A i \in 1 .. Len(s) - 1 : s[i + 1].at < s[i].at + StoreTTL
  <2> TAKE i \in 1 .. Len(s) - 1
  <2>1. i \in 1 .. Len(s) /\ i + 1 \in 1 .. Len(s)
    BY <1>1
  <2> QED BY <1>1, <1>2, <2>1
<1> QED BY <1>3, <1>4 DEF NoGap

\* The ticks s of a second, its entry e of temp_store and its average: the entry is as
\* old as the last tick, and holds the sum of all unless there was a gap.
ExactFor(s, e, average) ==
  /\ HasSum(s)
  /\ s = <<>> => e.num = 0
  /\ s # <<>> => e.num > 0 /\ e.at = s[Len(s)].at
  /\ s # <<>> /\ NoGap(s) =>
       e.num = Len(s) /\ e.total = SumOf(s) /\ average = SumOf(s) \div Len(s)

SumsExact ==
  \A m \in Market, t \in Second :
    ExactFor(heard[m][t], temp_store[m][t], coinbase[m][t].price)

LEMMA AverageSumsExactly ==
  ASSUME QuotesFit, FeedInv, QuoteInv, SumsExact, Average
  PROVE  SumsExact'
<1>0. FeedTypeOK /\ HeardTypes /\ now \in 0 .. MaxTime /\ SumsAround
  BY DEF FeedInv, FeedTypeOK, QuoteInv
<1>1. PICK m \in Market, t \in Second, q \in Tick, p \in U64 : Heard(m, t, q, p)
  BY <1>0, AverageHears
<1> DEFINE e == temp_store[m][t]
           a == AddTick(e, p)
           s == heard[m][t]
           r == [quote |-> q, price |-> p, at |-> now]
<1>2. /\ e \in Entry /\ r \in HeardTick /\ s \in Seq(HeardTick)
      /\ temp_store'[m][t] = a /\ heard'[m][t] = Append(s, r)
      /\ coinbase'[m][t].price = a.total \div a.num
  BY <1>0, <1>1, HeardFacts
<1>3. \A n \in Market, u \in Second : n # m \/ u # t =>
        /\ temp_store'[n][u] = temp_store[n][u]
        /\ coinbase'[n][u] = coinbase[n][u]
        /\ heard'[n][u] = heard[n][u]
  BY <1>0, <1>1, HeardFacts
<1>4. /\ a \in Entry /\ a.num # 0 /\ a.at = now
      /\ \/ /\ e.num > 0 /\ Live(e, StoreTTL)
            /\ a.num = e.num + 1
            /\ a.total = (e.total + p) % Wide
         \/ /\ ~(e.num > 0 /\ Live(e, StoreTTL))
            /\ a.num = 1 /\ a.total = p
  BY <1>0, <1>2, AddTickFacts
<1>5. ExactFor(s, e, coinbase[m][t].price)
  BY DEF SumsExact
<1>6. r.price = p /\ r.at = now /\ p \in Nat /\ a.num \in Nat
  BY <1>4, U64Facts DEF Entry
<1>7. e.num > 0 => (e.total + p) % Wide = e.total + p
  BY <1>0, <1>1, SumFits
<1> HIDE DEF e, a, s, r
<1>8. /\ Append(s, r) # <<>> /\ Len(s) \in Nat /\ Len(Append(s, r)) = Len(s) + 1
      /\ Append(s, r)[Len(s) + 1] = r
  BY <1>2
<1>9. HasSum(Append(s, r)) /\ SumOf(Append(s, r)) = SumOf(s) + p
  BY <1>2, <1>5, <1>6, SumAppend DEF ExactFor
<1>10. ASSUME NoGap(Append(s, r))
       PROVE  a.num = Len(s) + 1 /\ a.total = SumOf(s) + p
  <2>1. CASE s = <<>>
    <3>1. e.num = 0 /\ SumOf(s) = 0 /\ Len(s) = 0
      BY <1>5, <2>1, SumEmpty DEF ExactFor
    <3> QED BY <1>4, <1>6, <3>1
  <2>2. CASE s # <<>>
    <3>1. NoGap(s) /\ now < s[Len(s)].at + StoreTTL
      BY <1>2, <1>6, <1>10, <2>2, NoGapAppend
    <3>2. /\ e.num > 0 /\ e.at = s[Len(s)].at
          /\ e.num = Len(s) /\ e.total = SumOf(s)
      BY <1>5, <2>2, <3>1 DEF ExactFor
    <3>3. Live(e, StoreTTL)
      BY <3>1, <3>2 DEF Live
    <3> QED BY <1>4, <1>7, <3>2, <3>3
  <2> QED BY <2>1, <2>2
<1>11. ExactFor(Append(s, r), a, a.total \div a.num)
  BY <1>4, <1>6, <1>8, <1>9, <1>10 DEF ExactFor
<1> QED
  <2> SUFFICES ASSUME NEW n \in Market, NEW u \in Second
               PROVE  ExactFor(heard'[n][u], temp_store'[n][u], coinbase'[n][u].price)
    BY DEF SumsExact, ExactFor, HasSum, Sums, NoGap, SumOf
  <2>1. CASE n = m /\ u = t
    BY <1>2, <1>11, <2>1
  <2>2. CASE n # m \/ u # t
    BY <1>3, <2>2 DEF SumsExact
  <2> QED BY <2>1, <2>2

LEMMA SumsExactStep ==
  ASSUME QuotesFit, FeedInv, QuoteInv, SumsExact, [FeedNext]_vars
  PROVE  SumsExact'
<1>1. Average \/ UNCHANGED averageVars
  <2>1. (\E f \in Frame : ReadFrame(f)) \/ SkipFrame \/ StreamEnds \/ WatchReturns
          \/ FetchFails \/ Advance \/ UNCHANGED vars => UNCHANGED averageVars
    BY DEF ReadFrame, Forward, SkipFrame, StreamEnds, WatchReturns, FetchFails, Exit,
           Advance, vars, loopVars
  <2>2. \A c \in Call, m \in Market, t \in Second :
          CallPrice(c, m, t) \/ FetchPyth(c, m, t) \/ GetPythFails(c, m, t)
            => UNCHANGED averageVars
    BY DEF CallPrice, FetchPyth, GetPythFails, loopVars
  <2>3. fetch \/ (\E c \in Call : GetPyth(c) \/ Combine(c)) => UNCHANGED averageVars
    BY DEF fetch, GetPyth, Combine, loopVars
  <2> QED BY <2>1, <2>2, <2>3 DEF FeedNext
<1>2. CASE UNCHANGED averageVars
  BY <1>2 DEF SumsExact, averageVars
<1> QED BY <1>1, <1>2, AverageSumsExactly

\* Where nothing wraps, the cached price of a second is the average of exactly the ticks
\* heard for it, unless there was a gap, however frames of other seconds and markets,
\* polls, calls and the clock come between them.
THEOREM AveragesExactly ==
  ASSUME QuotesFit
  PROVE  FeedSpec => []AverageExact
<1>1. FeedInit => SumsExact
  <2> SUFFICES ASSUME FeedInit, NEW m \in Market, NEW t \in Second
               PROVE  ExactFor(heard[m][t], temp_store[m][t], coinbase[m][t].price)
    BY DEF SumsExact
  <2>1. heard[m][t] = <<>> /\ temp_store[m][t].num = 0
    BY DEF FeedInit, CoinbaseInit
  <2> QED BY <2>1, SumEmpty DEF ExactFor
<1>2. FeedInv /\ QuoteInv /\ SumsExact /\ [FeedNext]_vars => SumsExact'
  BY SumsExactStep
<1>3. SumsExact => AverageExact
  BY DEF SumsExact, ExactFor, AverageExact
<1> QED BY FeedInvariance, QuotesInvariance, <1>1, <1>2, <1>3, PTL DEF FeedSpec
=============================================================================
