--------------------------- MODULE TimestampCache ---------------------------
(***************************************************************************)
(* The Pyth price cache of one market (switchboard-function/src/cache.rs): *)
(* a concurrent map from seconds to shared cells, each an RwLock around an *)
(* optional price.  get() clones the cell's Arc out of the map, so a cell  *)
(* outlives its place in the map when set() puts a new cell there.         *)
(*                                                                         *)
(* A getter is one call of get() (from get_price, for one order); set() is *)
(* called by the routine that polls the latest prices.  The fetch          *)
(* function's answer is any price or a failure.                            *)
(***************************************************************************)
EXTENDS Naturals

CONSTANTS
  Timestamp,  \* the seconds asked for
  Getter,     \* calls of get()
  Value,      \* prices
  None,       \* Option::None, and the map's missing entry
  Err,        \* Err(SbError::NetworkError)
  MaxSets     \* bound: calls of set()

ASSUME CacheAssumption ==
  /\ None \notin Value \cup Getter \cup Nat
  /\ Err \notin Value
  /\ None # Err
  /\ MaxSets \in Nat

VARIABLES
  data,     \* the DashMap: the cell id of each second, or None
  cell,     \* the cells allocated so far: their price and their write lock
  cells,    \* how many there are; ids are 1 .. cells
  getter,   \* the state of each call of get()
  sets      \* calls of set() so far

cacheVars == <<data, cell, cells, getter, sets>>

\* pc: idle, entered (holds the Arc), waiting (read None, awaits the write
\* lock), fetching (holds the write lock across the fetch), returned.
GetterState ==
  [pc : {"idle", "entered", "waiting", "fetching", "returned"},
   timestamp : Timestamp \cup {None},
   cell : Nat,
   result : Value \cup {None, Err}]

Idle == [pc |-> "idle", timestamp |-> None, cell |-> 0, result |-> None]

Cell == [value : Value \cup {None}, writer : Getter \cup {None}]

CacheTypeOK ==
  /\ cells \in Nat
  /\ data \in [Timestamp -> Nat \cup {None}]
  /\ \A t \in Timestamp : data[t] # None => data[t] \in 1 .. cells
  /\ cell \in [1 .. cells -> Cell]
  /\ getter \in [Getter -> GetterState]
  /\ \A g \in Getter : getter[g].pc # "idle" =>
       getter[g].timestamp \in Timestamp /\ getter[g].cell \in 1 .. cells
  /\ sets \in Nat

CacheInit ==
  /\ data = [t \in Timestamp |-> None]
  /\ cell = [c \in {} |-> [value |-> None, writer |-> None]]
  /\ cells = 0
  /\ getter = [g \in Getter |-> Idle]
  /\ sets = 0

\* A new cell with this price in the map at t.
Allocate(t, v) ==
  /\ cells' = cells + 1
  /\ cell' = [c \in 1 .. cells + 1 |->
       IF c = cells + 1 THEN [value |-> v, writer |-> None] ELSE cell[c]]
  /\ data' = [data EXCEPT ![t] = cells + 1]
-----------------------------------------------------------------------------
\* PythProvider::fetch stores the latest price under its publish time,
\* replacing whatever cell is there.
set(t, v) ==
  /\ sets < MaxSets
  /\ sets' = sets + 1
  /\ Allocate(t, v)
  /\ UNCHANGED getter

\* data.entry(timestamp).or_default().value().clone()
Entry(g, t) ==
  /\ getter[g].pc = "idle"
  /\ \/ /\ data[t] # None
        /\ getter' = [getter EXCEPT ![g] =
             [pc |-> "entered", timestamp |-> t, cell |-> data[t], result |-> None]]
        /\ UNCHANGED <<data, cell, cells>>
     \/ /\ data[t] = None
        /\ Allocate(t, None)
        /\ getter' = [getter EXCEPT ![g] =
             [pc |-> "entered", timestamp |-> t, cell |-> cells + 1, result |-> None]]
  /\ UNCHANGED sets

Returns(g, r) == [getter EXCEPT ![g].pc = "returned", ![g].result = r]

\* cell.read().await waits while another call holds the write lock.
Read(g) ==
  LET c == getter[g].cell IN
    /\ getter[g].pc = "entered"
    /\ cell[c].writer = None
    /\ getter' = IF cell[c].value # None THEN Returns(g, cell[c].value)
                 ELSE [getter EXCEPT ![g].pc = "waiting"]
    /\ UNCHANGED <<data, cell, cells, sets>>

\* Mutant: the write lock is neither awaited nor followed by a second look.
LockUnguarded(g) ==
  /\ getter[g].pc = "waiting"
  /\ cell' = [cell EXCEPT ![getter[g].cell].writer = g]
  /\ getter' = [getter EXCEPT ![g].pc = "fetching"]
  /\ UNCHANGED <<data, cells, sets>>

\* Mutant: no second look at the value once the lock is held.
LockWithoutRecheck(g) == LockUnguarded(g) /\ cell[getter[g].cell].writer = None

\* cell.write().await, and the second look at the value.
Lock(g) ==
  LET c == getter[g].cell IN
    /\ getter[g].pc = "waiting"
    /\ cell[c].writer = None
    /\ \/ /\ cell[c].value # None
          /\ getter' = Returns(g, cell[c].value)
          /\ UNCHANGED cell
       \/ /\ cell[c].value = None
          /\ cell' = [cell EXCEPT ![c].writer = g]
          /\ getter' = [getter EXCEPT ![g].pc = "fetching"]
    /\ UNCHANGED <<data, cells, sets>>

\* Mutant: the price is stored through the map, as a new cell.
FetchOkInserts(g, v) ==
  /\ getter[g].pc = "fetching"
  /\ Allocate(getter[g].timestamp, v)
  /\ getter' = Returns(g, v)
  /\ UNCHANGED sets

FetchOk(g, v) ==
  LET c == getter[g].cell IN
    /\ getter[g].pc = "fetching"
    /\ cell' = [cell EXCEPT ![c] = [value |-> v, writer |-> None]]
    /\ getter' = Returns(g, v)
    /\ UNCHANGED <<data, cells, sets>>

\* Mutant: the failure is stored in the cell.
FetchFailsStored(g) == FetchOk(g, Err)

\* Mutant: the write lock outlives a failed fetch.
FetchFailsLocked(g) ==
  /\ getter[g].pc = "fetching"
  /\ getter' = Returns(g, Err)
  /\ UNCHANGED <<data, cell, cells, sets>>

\* A failure is returned and not stored: the next caller fetches again.
FetchFails(g) ==
  LET c == getter[g].cell IN
    /\ getter[g].pc = "fetching"
    /\ cell' = [cell EXCEPT ![c].writer = None]
    /\ getter' = Returns(g, Err)
    /\ UNCHANGED <<data, cells, sets>>

Fetched(g) == (\E v \in Value : FetchOk(g, v)) \/ FetchFails(g)

CacheNext ==
  \/ \E t \in Timestamp, v \in Value : set(t, v)
  \/ \E g \in Getter, t \in Timestamp : Entry(g, t)
  \/ \E g \in Getter : Read(g) \/ Lock(g) \/ Fetched(g)

\* Assumed: every request ends (reqwest::get sets no timeout of its own).  tokio's
\* RwLock grants its waiters in FIFO order, so no call is overtaken for ever.
CacheFairness ==
  \A g \in Getter :
    WF_cacheVars(Read(g)) /\ WF_cacheVars(Lock(g)) /\ WF_cacheVars(Fetched(g))

CacheSafety == CacheInit /\ [][CacheNext]_cacheVars

CacheSpec == CacheSafety /\ CacheFairness
-----------------------------------------------------------------------------
(* Properties.                                                             *)

\* The price the map holds for a second.
Resolved(t) == data[t] # None /\ cell[data[t]].value # None
Lookup(t) == IF data[t] = None THEN None ELSE cell[data[t]].value

\* Orders placed in the same second share one request to Pyth: two calls never
\* fetch the same second at the same time, although set() may have replaced
\* the cell one of them holds.
SingleFetch ==
  \A g, h \in Getter :
    /\ getter[g].pc = "fetching" /\ getter[h].pc = "fetching"
    /\ getter[g].timestamp = getter[h].timestamp
    => g = h

\* A slow fetch never overwrites a price: once the map holds a price for a
\* second, only another set() changes it, whatever calls are still under way.
LateFetchKeepsPrice ==
  [][\A t \in Timestamp :
       Resolved(t) /\ Lookup(t)' # Lookup(t) => \E v \in Value : set(t, v)]_cacheVars

\* "Values in the map can only be resolved once" (cache.rs): until set() comes in,
\* two calls for the same second that succeed return the same price, however
\* they overlapped and whichever of their fetches failed.
GettersAgree ==
  sets = 0 => \A g, h \in Getter :
    /\ getter[g].pc = "returned" /\ getter[h].pc = "returned"
    /\ getter[g].timestamp = getter[h].timestamp
    /\ getter[g].result # Err /\ getter[h].result # Err
    => getter[g].result = getter[h].result

\* "Values in the map can only be resolved once" (cache.rs): the price of a
\* second, once there, stays.
ResolvedOnce ==
  [][\A t \in Timestamp : Resolved(t) => Lookup(t)' = Lookup(t)]_cacheVars

\* The cache as a map: what is between the Arc and the result is waiting, and the
\* price found is that of the cell held.
AsCall(g) ==
  LET r == getter[g] IN
    CASE r.pc = "idle" -> [pc |-> "idle", timestamp |-> None, found |-> None]
      [] r.pc = "returned" ->
           [pc |-> "returned", timestamp |-> r.timestamp, found |-> r.result]
      [] OTHER -> [pc |-> "asked", timestamp |-> r.timestamp, found |-> cell[r.cell].value]

Map == INSTANCE PriceMap WITH
         map <- [t \in Timestamp |-> Lookup(t)],
         call <- [g \in Getter |-> AsCall(g)]

\* Cells, locks and second looks implement the map: a fetch answers all the calls
\* waiting for its second, those included whose cell set() has put out of the map, and
\* it never replaces a price.
ImplementsPriceMap == Map!MapSpec

\* No call of get() waits for ever, whatever fails and whoever holds the lock.
EveryGetReturns ==
  \A g \in Getter : getter[g].pc = "entered" ~> getter[g].pc = "returned"
=============================================================================
