------------------------ MODULE TimestampCacheProofs ------------------------
(***************************************************************************)
(* Proofs about the price cache for any number of concurrent calls of      *)
(* get(), seconds and prices, and any number of calls of set().            *)
(***************************************************************************)
EXTENDS TimestampCache, TLAPS

Active(g) == getter[g].pc # "idle"
HeldCell(g) == cell[getter[g].cell]

\* A fetching call holds the write lock of its cell, and the cell has no price.
FetcherHoldsLock ==
  \A g \in Getter : getter[g].pc = "fetching" =>
    HeldCell(g).writer = g /\ HeldCell(g).value = None

\* The map has a cell for every second a call has asked for.
AskedIsInMap == \A g \in Getter : Active(g) => data[getter[g].timestamp] # None

\* The calls for a second that hold a cell without a price hold the same one:
\* only the first call for the second allocates such a cell, and set() replaces
\* it by one that has a price.
OneEmptyCell ==
  /\ \A g, h \in Getter :
       /\ Active(g) /\ Active(h)
       /\ getter[g].timestamp = getter[h].timestamp
       /\ HeldCell(g).value = None /\ HeldCell(h).value = None
       => getter[g].cell = getter[h].cell
  /\ \A g \in Getter :
       /\ Active(g)
       /\ HeldCell(g).value = None
       /\ Lookup(getter[g].timestamp) = None
       => getter[g].cell = data[getter[g].timestamp]

CacheInv ==
  /\ CacheTypeOK
  /\ FetcherHoldsLock
  /\ AskedIsInMap
  /\ OneEmptyCell
-----------------------------------------------------------------------------
(* What the parts of the actions do.                                       *)

LEMMA AllocateFacts ==
  ASSUME CacheTypeOK, NEW t \in Timestamp, NEW v \in Value \cup {None}, Allocate(t, v)
  PROVE  /\ cells \in Nat /\ cells' = cells + 1
         /\ cell' \in [1 .. cells' -> Cell]
         /\ \A c \in 1 .. cells : cell'[c] = cell[c] /\ c \in 1 .. cells'
         /\ cell'[cells + 1] = [value |-> v, writer |-> None]
         /\ data' \in [Timestamp -> Nat \cup {None}]
         /\ data'[t] = cells + 1
         /\ \A u \in Timestamp \ {t} : data'[u] = data[u]
         /\ \A u \in Timestamp : data'[u] # None => data'[u] \in 1 .. cells'
<1>1. cells \in Nat /\ cells' = cells + 1
  BY DEF CacheTypeOK, Allocate
<1>2. [value |-> v, writer |-> None] \in Cell
  BY DEF Cell
<1>3. /\ \A c \in 1 .. cells : cell'[c] = cell[c] /\ c \in 1 .. cells'
      /\ cell'[cells + 1] = [value |-> v, writer |-> None]
  BY <1>1 DEF Allocate
<1>4. cell' \in [1 .. cells' -> Cell]
  BY <1>1, <1>2 DEF Allocate, CacheTypeOK
<1>5. /\ data' \in [Timestamp -> Nat \cup {None}]
      /\ data'[t] = cells + 1
      /\ \A u \in Timestamp \ {t} : data'[u] = data[u]
  BY <1>1 DEF Allocate, CacheTypeOK
<1>6. \A u \in Timestamp : data'[u] # None => data'[u] \in 1 .. cells'
  BY <1>1, <1>5 DEF CacheTypeOK
<1> QED BY <1>1, <1>3, <1>4, <1>5, <1>6

LEMMA ReturnsFacts ==
  ASSUME CacheTypeOK, NEW g \in Getter, NEW r \in Value \cup {None, Err}
  PROVE  /\ Returns(g, r) \in [Getter -> GetterState]
         /\ Returns(g, r)[g].pc = "returned"
         /\ Returns(g, r)[g].result = r
         /\ Returns(g, r)[g].timestamp = getter[g].timestamp
         /\ Returns(g, r)[g].cell = getter[g].cell
         /\ \A h \in Getter \ {g} : Returns(g, r)[h] = getter[h]
BY DEF Returns, CacheTypeOK, GetterState

LEMMA PcFacts ==
  ASSUME CacheTypeOK, NEW g \in Getter, NEW p \in {"waiting", "fetching"}
  PROVE  LET new == [getter EXCEPT ![g].pc = p]
         IN  /\ new \in [Getter -> GetterState]
             /\ new[g].pc = p
             /\ new[g].timestamp = getter[g].timestamp
             /\ new[g].cell = getter[g].cell
             /\ \A h \in Getter \ {g} : new[h] = getter[h]
BY DEF CacheTypeOK, GetterState

\* What a call that is not idle holds.
LEMMA ActiveFacts ==
  ASSUME CacheTypeOK, NEW g \in Getter, Active(g)
  PROVE  /\ getter[g].timestamp \in Timestamp
         /\ getter[g].cell \in 1 .. cells
         /\ HeldCell(g) \in Cell
BY DEF CacheTypeOK, Active, HeldCell
-----------------------------------------------------------------------------
(* Each action preserves the invariant.                                    *)

LEMMA InitInv == CacheInit => CacheInv
<1> SUFFICES ASSUME CacheInit PROVE CacheInv
  OBVIOUS
<1>1. \A g \in Getter : getter[g] = Idle /\ ~Active(g)
  BY DEF CacheInit, Active, Idle
<1>2. CacheTypeOK
  <2>1. getter \in [Getter -> GetterState]
    BY DEF CacheInit, GetterState, Idle
  <2>2. cell \in [1 .. cells -> Cell]
    BY DEF CacheInit
  <2> QED BY <1>1, <2>1, <2>2 DEF CacheInit, CacheTypeOK, Active
<1>3. FetcherHoldsLock
  BY <1>1 DEF FetcherHoldsLock, Idle
<1> QED BY <1>1, <1>2, <1>3 DEF CacheInv, AskedIsInMap, OneEmptyCell

LEMMA SetInv ==
  ASSUME CacheInv, NEW t \in Timestamp, NEW v \in Value, set(t, v)
  PROVE  CacheInv'
<1>0. /\ CacheTypeOK /\ Allocate(t, v) /\ getter' = getter
      /\ v \in Value \cup {None} /\ v # None
  BY CacheAssumption DEF CacheInv, set
<1>1. /\ cells \in Nat /\ cells' = cells + 1
      /\ cell' \in [1 .. cells' -> Cell]
      /\ \A c \in 1 .. cells : cell'[c] = cell[c] /\ c \in 1 .. cells'
      /\ cell'[cells + 1] = [value |-> v, writer |-> None]
      /\ data' \in [Timestamp -> Nat \cup {None}]
      /\ data'[t] = cells + 1
      /\ \A u \in Timestamp \ {t} : data'[u] = data[u]
      /\ \A u \in Timestamp : data'[u] # None => data'[u] \in 1 .. cells'
  BY <1>0, AllocateFacts
<1>2. \A g \in Getter : Active(g) =>
        /\ Active(g)' /\ HeldCell(g)' = HeldCell(g)
        /\ getter[g].timestamp \in Timestamp /\ getter[g].cell \in 1 .. cells
  BY <1>0, <1>1, ActiveFacts DEF Active, HeldCell
<1>3. \A g \in Getter : Active(g)' => Active(g)
  BY <1>0 DEF Active
<1>4. CacheTypeOK'
  <2>1. \A g \in Getter : getter'[g].pc # "idle" =>
          getter'[g].timestamp \in Timestamp /\ getter'[g].cell \in 1 .. cells'
    BY <1>0, <1>1 DEF CacheTypeOK
  <2> QED BY <1>0, <1>1, <2>1 DEF CacheTypeOK, set, CacheInv
<1>5. FetcherHoldsLock'
  BY <1>0, <1>2 DEF CacheInv, FetcherHoldsLock, Active
<1>6. AskedIsInMap'
  BY <1>0, <1>1, <1>2, <1>3, CacheAssumption DEF CacheInv, AskedIsInMap
<1>7. \A u \in Timestamp : Lookup(u)' = None => u # t /\ Lookup(u) = None /\ data'[u] = data[u]
  BY <1>0, <1>1, CacheAssumption DEF Lookup, CacheTypeOK
<1>8. OneEmptyCell'
  BY <1>0, <1>2, <1>3, <1>7 DEF CacheInv, OneEmptyCell
<1> QED BY <1>4, <1>5, <1>6, <1>8 DEF CacheInv

LEMMA EntryInv ==
  ASSUME CacheInv, NEW g \in Getter, NEW t \in Timestamp, Entry(g, t)
  PROVE  CacheInv'
<1>0. CacheTypeOK /\ ~Active(g)
  BY DEF CacheInv, Entry, Active
<1>1. CASE data[t] # None
  <2>1. /\ UNCHANGED <<data, cell, cells, sets>>
        /\ getter' = [getter EXCEPT ![g] =
             [pc |-> "entered", timestamp |-> t, cell |-> data[t], result |-> None]]
    BY <1>1 DEF Entry
  <2>2. /\ getter'[g] = [pc |-> "entered", timestamp |-> t, cell |-> data[t], result |-> None]
        /\ \A h \in Getter \ {g} : getter'[h] = getter[h]
    BY <1>0, <2>1 DEF CacheTypeOK
  <2>3. data[t] \in 1 .. cells /\ data[t] \in Nat
    BY <1>0, <1>1 DEF CacheTypeOK
  <2>4. CacheTypeOK'
    <3>1. getter'[g] \in GetterState
      BY <2>2, <2>3 DEF GetterState
    <3>2. getter' \in [Getter -> GetterState]
      BY <1>0, <2>1, <2>2, <3>1 DEF CacheTypeOK
    <3>3. \A h \in Getter : getter'[h].pc # "idle" =>
            getter'[h].timestamp \in Timestamp /\ getter'[h].cell \in 1 .. cells
      BY <1>0, <2>2, <2>3 DEF CacheTypeOK
    <3> QED BY <1>0, <2>1, <3>2, <3>3 DEF CacheTypeOK
  <2>5. \A h \in Getter \ {g} : Active(h)' = Active(h) /\ HeldCell(h)' = HeldCell(h)
    BY <2>1, <2>2 DEF Active, HeldCell
  <2>6. HeldCell(g)' = cell[data[t]] /\ Active(g)'
    BY <2>1, <2>2 DEF HeldCell, Active
  <2>7. FetcherHoldsLock'
    BY <2>2, <2>5 DEF CacheInv, FetcherHoldsLock
  <2>8. AskedIsInMap'
    BY <1>1, <2>1, <2>2, <2>5 DEF CacheInv, AskedIsInMap
  <2>9. Lookup(t) = cell[data[t]].value /\ \A u \in Timestamp : Lookup(u)' = Lookup(u)
    BY <1>1, <2>1 DEF Lookup
  <2>10. OneEmptyCell'
    <3>1. ASSUME NEW h \in Getter, Active(h)', HeldCell(h)'.value = None,
                 Lookup(getter[h].timestamp)' = None
          PROVE  getter'[h].cell = data'[getter'[h].timestamp]
      <4>1. CASE h = g
        BY <2>1, <2>2, <4>1
      <4>2. CASE h # g
        <5>1. getter'[h] = getter[h] /\ Active(h) /\ HeldCell(h).value = None
          BY <2>2, <2>5, <3>1, <4>2
        <5>2. getter[h].timestamp \in Timestamp
          BY <1>0, <5>1, ActiveFacts
        <5> QED BY <2>1, <2>9, <3>1, <5>1, <5>2 DEF CacheInv, OneEmptyCell
      <4> QED BY <4>1, <4>2
    <3>2. ASSUME NEW h \in Getter, NEW k \in Getter, Active(h)', Active(k)',
                 getter'[h].timestamp = getter'[k].timestamp,
                 HeldCell(h)'.value = None, HeldCell(k)'.value = None
          PROVE  getter'[h].cell = getter'[k].cell
      <4>1. CASE h = g \/ k = g
        <5>1. getter'[h].timestamp = t /\ getter'[k].timestamp = t
          BY <2>2, <3>2, <4>1
        <5>2. Lookup(t)' = None
          BY <2>6, <2>9, <3>2, <4>1
        <5> QED BY <3>1, <3>2, <5>1, <5>2
      <4>2. CASE h # g /\ k # g
        BY <2>2, <2>5, <3>2, <4>2 DEF CacheInv, OneEmptyCell
      <4> QED BY <4>1, <4>2
    <3> QED BY <3>1, <3>2 DEF OneEmptyCell
  <2> QED BY <2>4, <2>7, <2>8, <2>10 DEF CacheInv
<1>2. CASE data[t] = None
  <2>1. /\ Allocate(t, None)
        /\ getter' = [getter EXCEPT ![g] =
             [pc |-> "entered", timestamp |-> t, cell |-> cells + 1, result |-> None]]
        /\ UNCHANGED sets
    BY <1>2 DEF Entry
  <2>2. /\ getter'[g] = [pc |-> "entered", timestamp |-> t, cell |-> cells + 1, result |-> None]
        /\ \A h \in Getter \ {g} : getter'[h] = getter[h]
    BY <1>0, <2>1 DEF CacheTypeOK
  <2>3. /\ cells \in Nat /\ cells' = cells + 1
        /\ cell' \in [1 .. cells' -> Cell]
        /\ \A c \in 1 .. cells : cell'[c] = cell[c] /\ c \in 1 .. cells'
        /\ data' \in [Timestamp -> Nat \cup {None}]
        /\ data'[t] = cells + 1
        /\ \A u \in Timestamp \ {t} : data'[u] = data[u]
        /\ \A u \in Timestamp : data'[u] # None => data'[u] \in 1 .. cells'
    BY <1>0, <2>1, AllocateFacts
  <2>4. CacheTypeOK'
    <3>1. getter'[g] \in GetterState
      BY <2>2, <2>3 DEF GetterState
    <3>2. getter' \in [Getter -> GetterState]
      BY <1>0, <2>1, <2>2, <3>1 DEF CacheTypeOK
    <3>3. \A h \in Getter : getter'[h].pc # "idle" =>
            getter'[h].timestamp \in Timestamp /\ getter'[h].cell \in 1 .. cells'
      BY <1>0, <2>2, <2>3 DEF CacheTypeOK
    <3> QED BY <1>0, <2>1, <2>3, <3>2, <3>3 DEF CacheTypeOK
  <2>5. \A h \in Getter \ {g} : Active(h)' = Active(h) /\ getter'[h] = getter[h]
    BY <2>2 DEF Active
  <2>6. \A h \in Getter \ {g} : Active(h) =>
          /\ HeldCell(h)' = HeldCell(h)
          /\ getter[h].timestamp \in Timestamp \ {t}
    BY <1>0, <1>2, <2>2, <2>3, ActiveFacts DEF HeldCell, CacheInv, AskedIsInMap
  <2>7. FetcherHoldsLock'
    BY <2>2, <2>5, <2>6 DEF CacheInv, FetcherHoldsLock, Active
  <2>8. AskedIsInMap'
    BY <2>2, <2>3, <2>5, <2>6, CacheAssumption DEF CacheInv, AskedIsInMap
  <2>9. \A u \in Timestamp \ {t} : Lookup(u)' = Lookup(u)
    BY <1>0, <2>3 DEF Lookup, CacheTypeOK
  <2>10. OneEmptyCell'
    <3>1. getter'[g].timestamp = t /\ getter'[g].cell = data'[t]
      BY <2>2, <2>3
    <3>2. \A h \in Getter \ {g} : Active(h) => getter'[h].timestamp # t
      BY <2>5, <2>6
    <3> QED BY <2>3, <2>5, <2>6, <2>9, <3>1, <3>2 DEF CacheInv, OneEmptyCell
  <2> QED BY <2>4, <2>7, <2>8, <2>10 DEF CacheInv
<1> QED BY <1>1, <1>2

\* A step of a call that keeps its cell, and takes no price out of any cell,
\* leaves the map and the empty cells as they are.
LEMMA KeepsCell ==
  ASSUME CacheInv, NEW g \in Getter, Active(g),
         UNCHANGED <<data, cells>>,
         \A h \in Getter : /\ Active(h)' = Active(h)
                           /\ getter'[h].timestamp = getter[h].timestamp
                           /\ getter'[h].cell = getter[h].cell,
         \A c \in 1 .. cells : cell'[c].value = None => cell[c].value = None
  PROVE  AskedIsInMap' /\ OneEmptyCell'
<1>0. CacheTypeOK
  BY DEF CacheInv
<1>1. AskedIsInMap'
  BY DEF CacheInv, AskedIsInMap
<1>2. \A h \in Getter : Active(h) /\ HeldCell(h)'.value = None => HeldCell(h).value = None
  BY <1>0, ActiveFacts DEF HeldCell
<1>3. \A u \in Timestamp : Lookup(u)' = None => Lookup(u) = None
  BY <1>0 DEF Lookup, CacheTypeOK
<1>4. \A h \in Getter : Active(h) => getter[h].timestamp \in Timestamp
  BY <1>0, ActiveFacts
<1>5. OneEmptyCell'
  BY <1>2, <1>3, <1>4 DEF CacheInv, OneEmptyCell
<1> QED BY <1>1, <1>5

LEMMA ReadInv ==
  ASSUME CacheInv, NEW g \in Getter, Read(g)
  PROVE  CacheInv'
<1>0. CacheTypeOK /\ Active(g) /\ UNCHANGED <<data, cell, cells, sets>>
  BY DEF CacheInv, Read, Active
<1>1. HeldCell(g).value \in Value \cup {None, Err}
  BY <1>0, ActiveFacts DEF Cell
<1>2. /\ getter' \in [Getter -> GetterState]
      /\ getter'[g].pc \in {"returned", "waiting"}
      /\ getter'[g].timestamp = getter[g].timestamp
      /\ getter'[g].cell = getter[g].cell
      /\ \A h \in Getter \ {g} : getter'[h] = getter[h]
  <2>1. \/ getter' = Returns(g, HeldCell(g).value)
        \/ getter' = [getter EXCEPT ![g].pc = "waiting"]
    BY DEF Read, HeldCell
  <2>2. CASE getter' = Returns(g, HeldCell(g).value)
    BY <1>0, <1>1, <2>2, ReturnsFacts
  <2>3. CASE getter' = [getter EXCEPT ![g].pc = "waiting"]
    BY <1>0, <2>3, PcFacts
  <2> QED BY <2>1, <2>2, <2>3
<1>3. \A h \in Getter : /\ Active(h)' = Active(h)
                        /\ getter'[h].timestamp = getter[h].timestamp
                        /\ getter'[h].cell = getter[h].cell
  BY <1>0, <1>2 DEF Active
<1>4. CacheTypeOK'
  BY <1>0, <1>2, <1>3 DEF CacheTypeOK, Active
<1>5. FetcherHoldsLock'
  BY <1>0, <1>2 DEF CacheInv, FetcherHoldsLock, HeldCell
<1>6. \A c \in 1 .. cells : cell'[c].value = None => cell[c].value = None
  BY <1>0
<1> QED BY <1>0, <1>3, <1>4, <1>5, <1>6, KeepsCell DEF CacheInv

LEMMA LockInv ==
  ASSUME CacheInv, NEW g \in Getter, Lock(g)
  PROVE  CacheInv'
<1>0. CacheTypeOK /\ Active(g) /\ UNCHANGED <<data, cells, sets>>
  BY DEF CacheInv, Lock, Active
<1>1. getter[g].cell \in 1 .. cells /\ HeldCell(g) \in Cell
  BY <1>0, ActiveFacts
<1>2. HeldCell(g).writer = None
  BY DEF Lock, HeldCell
<1>3. CASE HeldCell(g).value # None
  <2>1. getter' = Returns(g, HeldCell(g).value) /\ UNCHANGED cell
    BY <1>3 DEF Lock, HeldCell
  <2>2. HeldCell(g).value \in Value \cup {None, Err}
    BY <1>1 DEF Cell
  <2>3. /\ getter' \in [Getter -> GetterState]
        /\ getter'[g].pc = "returned"
        /\ getter'[g].timestamp = getter[g].timestamp
        /\ getter'[g].cell = getter[g].cell
        /\ \A h \in Getter \ {g} : getter'[h] = getter[h]
    BY <1>0, <2>1, <2>2, ReturnsFacts
  <2>4. \A h \in Getter : /\ Active(h)' = Active(h)
                          /\ getter'[h].timestamp = getter[h].timestamp
                          /\ getter'[h].cell = getter[h].cell
    BY <1>0, <2>3 DEF Active
  <2>5. CacheTypeOK'
    BY <1>0, <2>1, <2>3, <2>4 DEF CacheTypeOK, Active
  <2>6. FetcherHoldsLock'
    BY <1>0, <2>1, <2>3 DEF CacheInv, FetcherHoldsLock, HeldCell
  <2>7. \A c \in 1 .. cells : cell'[c].value = None => cell[c].value = None
    BY <2>1
  <2> QED BY <1>0, <2>4, <2>5, <2>6, <2>7, KeepsCell DEF CacheInv
<1>4. CASE HeldCell(g).value = None
  <2>1. /\ cell' = [cell EXCEPT ![getter[g].cell].writer = g]
        /\ getter' = [getter EXCEPT ![g].pc = "fetching"]
    BY <1>4 DEF Lock, HeldCell
  <2>2. /\ getter' \in [Getter -> GetterState]
        /\ getter'[g].pc = "fetching"
        /\ getter'[g].timestamp = getter[g].timestamp
        /\ getter'[g].cell = getter[g].cell
        /\ \A h \in Getter \ {g} : getter'[h] = getter[h]
    BY <1>0, <2>1, PcFacts
  <2>3. /\ cell' \in [1 .. cells -> Cell]
        /\ cell'[getter[g].cell].writer = g
        /\ \A c \in 1 .. cells : cell'[c].value = cell[c].value
        /\ \A c \in 1 .. cells : c # getter[g].cell => cell'[c] = cell[c]
    BY <1>0, <1>1, <2>1 DEF CacheTypeOK, Cell
  <2>4. \A h \in Getter : /\ Active(h)' = Active(h)
                          /\ getter'[h].timestamp = getter[h].timestamp
                          /\ getter'[h].cell = getter[h].cell
    BY <1>0, <2>2 DEF Active
  <2>5. CacheTypeOK'
    BY <1>0, <2>2, <2>3, <2>4 DEF CacheTypeOK, Active
  <2>6. FetcherHoldsLock'
    <3> SUFFICES ASSUME NEW h \in Getter, getter'[h].pc = "fetching"
                 PROVE  HeldCell(h)'.writer = h /\ HeldCell(h)'.value = None
      BY DEF FetcherHoldsLock
    <3>1. CASE h = g
      BY <1>1, <1>4, <2>2, <2>3, <3>1 DEF HeldCell
    <3>2. CASE h # g
      <4>1. getter[h].pc = "fetching" /\ getter'[h] = getter[h] /\ Active(h)
        BY <2>2, <3>2 DEF Active
      <4>2. HeldCell(h).writer = h /\ HeldCell(h).value = None
        BY <4>1 DEF CacheInv, FetcherHoldsLock
      <4>3. h # None
        BY CacheAssumption
      <4>4. getter[h].cell # getter[g].cell /\ getter[h].cell \in 1 .. cells
        BY <1>0, <1>2, <4>1, <4>2, <4>3, ActiveFacts DEF HeldCell
      <4> QED BY <2>3, <4>1, <4>2, <4>4 DEF HeldCell
    <3> QED BY <3>1, <3>2
  <2>7. \A c \in 1 .. cells : cell'[c].value = None => cell[c].value = None
    BY <2>3
  <2> QED BY <1>0, <2>4, <2>5, <2>6, <2>7, KeepsCell DEF CacheInv
<1> QED BY <1>3, <1>4

\* The end of a fetch, with or without a price for the cell.
LEMMA FetchEndInv ==
  ASSUME CacheInv, NEW g \in Getter, getter[g].pc = "fetching",
         NEW r \in Value \cup {Err}, getter' = Returns(g, r),
         NEW v \in Value \cup {None},
         cell' = [cell EXCEPT ![getter[g].cell] = [value |-> v, writer |-> None]],
         UNCHANGED <<data, cells, sets>>
  PROVE  CacheInv'
<1>0. CacheTypeOK /\ Active(g) /\ r \in Value \cup {None, Err}
  BY DEF CacheInv, Active
<1>1. /\ getter[g].cell \in 1 .. cells
      /\ HeldCell(g).writer = g /\ HeldCell(g).value = None
  BY <1>0, ActiveFacts DEF CacheInv, FetcherHoldsLock
<1>2. /\ getter' \in [Getter -> GetterState]
      /\ getter'[g].pc = "returned"
      /\ getter'[g].timestamp = getter[g].timestamp
      /\ getter'[g].cell = getter[g].cell
      /\ \A h \in Getter \ {g} : getter'[h] = getter[h]
  BY <1>0, ReturnsFacts
<1>3. [value |-> v, writer |-> None] \in Cell
  BY DEF Cell
<1>4. /\ cell' \in [1 .. cells -> Cell]
      /\ \A c \in 1 .. cells : c # getter[g].cell => cell'[c] = cell[c]
  BY <1>0, <1>1, <1>3 DEF CacheTypeOK
<1>5. \A h \in Getter : /\ Active(h)' = Active(h)
                        /\ getter'[h].timestamp = getter[h].timestamp
                        /\ getter'[h].cell = getter[h].cell
  BY <1>0, <1>2 DEF Active
<1>6. CacheTypeOK'
  BY <1>0, <1>2, <1>4, <1>5 DEF CacheTypeOK, Active
<1>7. FetcherHoldsLock'
  <2> SUFFICES ASSUME NEW h \in Getter, getter'[h].pc = "fetching"
               PROVE  HeldCell(h)'.writer = h /\ HeldCell(h)'.value = None
    BY DEF FetcherHoldsLock
  <2>1. h # g /\ getter'[h] = getter[h] /\ Active(h)
    BY <1>2 DEF Active
  <2>2. HeldCell(h).writer = h /\ HeldCell(h).value = None
    BY <2>1 DEF CacheInv, FetcherHoldsLock
  <2>3. getter[h].cell # getter[g].cell /\ getter[h].cell \in 1 .. cells
    BY <1>0, <1>1, <2>1, <2>2, ActiveFacts DEF HeldCell
  <2> QED BY <1>4, <2>1, <2>2, <2>3 DEF HeldCell
<1>8. \A c \in 1 .. cells : cell'[c].value = None => cell[c].value = None
  BY <1>1, <1>4 DEF HeldCell
<1> QED BY <1>0, <1>5, <1>6, <1>7, <1>8, KeepsCell DEF CacheInv

LEMMA FetchedInv ==
  ASSUME CacheInv, NEW g \in Getter, Fetched(g)
  PROVE  CacheInv'
<1>0. CacheTypeOK
  BY DEF CacheInv
<1>1. ASSUME NEW v \in Value, FetchOk(g, v)
      PROVE  CacheInv'
  BY <1>1, FetchEndInv DEF FetchOk
<1>2. CASE FetchFails(g)
  <2>1. /\ getter[g].pc = "fetching" /\ Active(g)
        /\ cell' = [cell EXCEPT ![getter[g].cell].writer = None]
        /\ getter' = Returns(g, Err)
        /\ UNCHANGED <<data, cells, sets>>
    BY <1>2 DEF FetchFails, Active
  <2>2. HeldCell(g) \in Cell /\ HeldCell(g).value \in Value \cup {None}
    BY <1>0, <2>1, ActiveFacts DEF Cell
  <2>3. [HeldCell(g) EXCEPT !.writer = None]
          = [value |-> HeldCell(g).value, writer |-> None]
    BY <2>2 DEF Cell
  <2>4. cell' = [cell EXCEPT ![getter[g].cell] =
                   [value |-> HeldCell(g).value, writer |-> None]]
    BY <1>0, <2>1, <2>3, ActiveFacts DEF HeldCell, CacheTypeOK
  <2> QED BY <2>1, <2>2, <2>4, FetchEndInv
<1> QED BY <1>1, <1>2 DEF Fetched
-----------------------------------------------------------------------------
(* The theorems.                                                           *)

\* CacheInv holds however the calls of get() and set() interleave.
THEOREM CacheInvariance == CacheSafety => []CacheInv
<1>1. CacheInv /\ [CacheNext]_cacheVars => CacheInv'
  <2> SUFFICES ASSUME CacheInv, [CacheNext]_cacheVars PROVE CacheInv'
    OBVIOUS
  <2>1. CASE UNCHANGED cacheVars
    BY <2>1 DEF cacheVars, CacheInv, CacheTypeOK, FetcherHoldsLock, AskedIsInMap,
                OneEmptyCell, Active, HeldCell, Lookup
  <2> QED BY <2>1, SetInv, EntryInv, ReadInv, LockInv, FetchedInv DEF CacheNext
<1> QED BY InitInv, <1>1, PTL DEF CacheSafety

\* The cells and calls keep their types.
THEOREM CacheTyping == CacheSafety => []CacheTypeOK
<1>1. CacheInv => CacheTypeOK
  BY DEF CacheInv
<1> QED BY CacheInvariance, <1>1, PTL

\* At most one request to Pyth is under way for a second, for any number of
\* orders placed in it.
THEOREM OneFetchPerSecond == CacheSafety => []SingleFetch
<1>1. ASSUME CacheInv, NEW g \in Getter, NEW h \in Getter,
             getter[g].pc = "fetching", getter[h].pc = "fetching",
             getter[g].timestamp = getter[h].timestamp
      PROVE  g = h
  <2>1. Active(g) /\ Active(h)
    BY <1>1 DEF Active
  <2>2. /\ HeldCell(g).writer = g /\ HeldCell(g).value = None
        /\ HeldCell(h).writer = h /\ HeldCell(h).value = None
    BY <1>1 DEF CacheInv, FetcherHoldsLock
  <2>3. getter[g].cell = getter[h].cell
    BY <1>1, <2>1, <2>2 DEF CacheInv, OneEmptyCell
  <2> QED BY <2>2, <2>3 DEF HeldCell
<1>2. CacheInv => SingleFetch
  BY <1>1 DEF SingleFetch
<1> QED BY CacheInvariance, <1>2, PTL

\* No call of get() changes a price the map already holds.
LEMMA GetKeepsPrice ==
  ASSUME CacheInv, [CacheNext]_cacheVars, NEW t \in Timestamp, Resolved(t),
         Lookup(t)' # Lookup(t)
  PROVE  \E v \in Value : set(t, v)
<1>0. /\ CacheTypeOK /\ data[t] # None /\ data[t] \in 1 .. cells
      /\ cell[data[t]].value # None /\ Lookup(t) = cell[data[t]].value
  BY DEF CacheInv, CacheTypeOK, Resolved, Lookup
<1>1. ASSUME data'[t] = data[t], cell'[data[t]].value = cell[data[t]].value
      PROVE  FALSE
  BY <1>0, <1>1 DEF Lookup
<1>2. ASSUME NEW u \in Timestamp, NEW v \in Value, set(u, v), u # t
      PROVE  FALSE
  <2>1. Allocate(u, v) /\ v \in Value \cup {None}
    BY <1>2 DEF set
  <2>2. data'[t] = data[t] /\ cell'[data[t]] = cell[data[t]]
    BY <1>0, <1>2, <2>1, AllocateFacts
  <2> QED BY <1>1, <2>2
<1>3. ASSUME NEW g \in Getter, NEW u \in Timestamp, Entry(g, u)
      PROVE  FALSE
  <2>1. CASE data[u] # None
    BY <1>1, <1>3, <2>1 DEF Entry
  <2>2. CASE data[u] = None
    <3>1. Allocate(u, None) /\ u # t
      BY <1>0, <1>3, <2>2 DEF Entry
    <3>2. data'[t] = data[t] /\ cell'[data[t]] = cell[data[t]]
      BY <1>0, <3>1, AllocateFacts
    <3> QED BY <1>1, <3>2
  <2> QED BY <2>1, <2>2
<1>4. ASSUME NEW g \in Getter, Read(g)
      PROVE  FALSE
  BY <1>1, <1>4 DEF Read
<1>5. ASSUME NEW g \in Getter, Lock(g)
      PROVE  FALSE
  <2>1. data'[t] = data[t]
    BY <1>5 DEF Lock
  <2>2. cell'[data[t]].value = cell[data[t]].value
    BY <1>0, <1>5 DEF Lock, CacheTypeOK, Cell
  <2> QED BY <1>1, <2>1, <2>2
<1>6. ASSUME NEW g \in Getter, Fetched(g)
      PROVE  FALSE
  <2>1. /\ getter[g].pc = "fetching" /\ data'[t] = data[t]
        /\ \A c \in 1 .. cells : c # getter[g].cell => cell'[c] = cell[c]
    BY <1>0, <1>6 DEF Fetched, FetchOk, FetchFails, CacheTypeOK
  <2>2. cell[getter[g].cell].value = None
    BY <2>1 DEF CacheInv, FetcherHoldsLock, HeldCell
  <2> QED BY <1>0, <1>1, <2>1, <2>2
<1>7. CASE UNCHANGED cacheVars
  BY <1>1, <1>7 DEF cacheVars
<1>8. PICK u \in Timestamp, v \in Value : set(u, v)
  BY <1>3, <1>4, <1>5, <1>6, <1>7 DEF CacheNext
<1> QED BY <1>2, <1>8

\* A price stored by the polling routine is never overwritten by a fetch that
\* started before it.
THEOREM LateFetch == CacheSafety => LateFetchKeepsPrice
<1>1. CacheInv /\ [CacheNext]_cacheVars =>
        [\A t \in Timestamp : Resolved(t) /\ Lookup(t)' # Lookup(t)
           => \E v \in Value : set(t, v)]_cacheVars
  BY GetKeepsPrice
<1> QED BY CacheInvariance, <1>1, PTL DEF CacheSafety, LateFetchKeepsPrice

\* "Values in the map can only be resolved once" (cache.rs) is true of get():
\* while set() is not called, the price of a second never changes.
THEOREM GetResolvesOnce ==
  ASSUME MaxSets = 0
  PROVE  CacheSafety => ResolvedOnce
<1>1. CacheInv /\ [CacheNext]_cacheVars =>
        [\A t \in Timestamp : Resolved(t) => Lookup(t)' = Lookup(t)]_cacheVars
  <2> SUFFICES ASSUME CacheInv, [CacheNext]_cacheVars, NEW t \in Timestamp,
                      Resolved(t), Lookup(t)' # Lookup(t)
               PROVE  FALSE
    OBVIOUS
  <2>1. PICK v \in Value : set(t, v)
    BY GetKeepsPrice
  <2> QED BY <2>1 DEF set, CacheInv, CacheTypeOK
<1> QED BY CacheInvariance, <1>1, PTL DEF CacheSafety, ResolvedOnce
-----------------------------------------------------------------------------
(* Two calls for one second, before the first set().                       *)

\* Until set() comes in, a call holds the cell the map has for its second, and one
\* that has succeeded has returned that cell's price.
HoldsCurrent(g) ==
  Active(g) =>
    /\ getter[g].cell = data[getter[g].timestamp]
    /\ getter[g].pc = "returned" /\ getter[g].result # Err =>
         getter[g].result = HeldCell(g).value /\ getter[g].result # None

CurrentCells == sets = 0 => \A g \in Getter : HoldsCurrent(g)

\* A step that leaves the map alone, moves the call g only, and changes no price
\* but that of an empty cell, keeps CurrentCells if it keeps g's part of it.
LEMMA CurrentKept ==
  ASSUME CacheInv, CurrentCells, UNCHANGED <<data, cells, sets>>, NEW g \in Getter,
         \A h \in Getter \ {g} : getter'[h] = getter[h],
         \A c \in 1 .. cells :
           cell'[c].value = cell[c].value \/ cell[c].value = None,
         sets = 0 => HoldsCurrent(g)'
  PROVE  CurrentCells'
<1> SUFFICES ASSUME sets = 0, NEW h \in Getter, h # g PROVE HoldsCurrent(h)'
  BY DEF CurrentCells
<1> SUFFICES ASSUME Active(h)
             PROVE  /\ getter'[h].cell = data'[getter'[h].timestamp]
                    /\ getter'[h].pc = "returned" /\ getter'[h].result # Err =>
                         getter'[h].result = HeldCell(h)'.value /\ getter'[h].result # None
  BY DEF HoldsCurrent, Active
<1>1. HoldsCurrent(h) /\ getter'[h] = getter[h]
  BY DEF CurrentCells
<1>2. getter[h].cell \in 1 .. cells
  BY ActiveFacts DEF CacheInv
<1>3. HeldCell(h)'.value = HeldCell(h).value \/ HeldCell(h).value = None
  BY <1>1, <1>2 DEF HeldCell
<1> QED BY <1>1, <1>3 DEF HoldsCurrent

LEMMA EntryCurrent ==
  ASSUME CacheInv, CurrentCells, NEW g \in Getter, NEW t \in Timestamp, Entry(g, t)
  PROVE  CurrentCells'
<1>0. CacheTypeOK /\ sets' = sets
  BY DEF CacheInv, Entry
<1>1. CASE data[t] # None
  <2>1. /\ UNCHANGED <<data, cell, cells, sets>>
        /\ getter' = [getter EXCEPT ![g] =
             [pc |-> "entered", timestamp |-> t, cell |-> data[t], result |-> None]]
    BY <1>1 DEF Entry
  <2>2. /\ getter'[g] = [pc |-> "entered", timestamp |-> t, cell |-> data[t],
                         result |-> None]
        /\ \A h \in Getter \ {g} : getter'[h] = getter[h]
    BY <1>0, <2>1 DEF CacheTypeOK
  <2>3. HoldsCurrent(g)'
    BY <2>1, <2>2 DEF HoldsCurrent
  <2> QED BY <2>1, <2>2, <2>3, CurrentKept
<1>2. CASE data[t] = None
  <2>1. /\ Allocate(t, None) /\ None \in Value \cup {None}
        /\ getter' = [getter EXCEPT ![g] =
             [pc |-> "entered", timestamp |-> t, cell |-> cells + 1, result |-> None]]
    BY <1>2 DEF Entry
  <2>2. /\ getter'[g] = [pc |-> "entered", timestamp |-> t, cell |-> cells + 1,
                         result |-> None]
        /\ \A h \in Getter \ {g} : getter'[h] = getter[h]
    BY <1>0, <2>1 DEF CacheTypeOK
  <2>3. /\ \A c \in 1 .. cells : cell'[c] = cell[c]
        /\ data'[t] = cells + 1
        /\ \A u \in Timestamp \ {t} : data'[u] = data[u]
    BY <1>0, <2>1, AllocateFacts
  <2>4. HoldsCurrent(g)'
    BY <2>2, <2>3 DEF HoldsCurrent
  <2>5. ASSUME sets = 0, NEW h \in Getter, h # g, Active(h)
        PROVE  HoldsCurrent(h)'
    <3>1. HoldsCurrent(h) /\ getter'[h] = getter[h]
      BY <2>2, <2>5 DEF CurrentCells
    <3>2. /\ getter[h].timestamp \in Timestamp \ {t}
          /\ getter[h].cell \in 1 .. cells
      BY <1>0, <1>2, <2>5, ActiveFacts DEF CacheInv, AskedIsInMap
    <3>3. HeldCell(h)' = HeldCell(h)
      BY <2>3, <3>1, <3>2 DEF HeldCell
    <3> QED BY <2>3, <2>5, <3>1, <3>2, <3>3 DEF HoldsCurrent
  <2>6. \A h \in Getter \ {g} : Active(h)' => Active(h)
    BY <2>2 DEF Active
  <2>7. \A h \in Getter \ {g} : ~Active(h) => HoldsCurrent(h)'
    BY <2>6 DEF HoldsCurrent
  <2> QED BY <1>0, <2>4, <2>5, <2>7 DEF CurrentCells
<1> QED BY <1>1, <1>2

LEMMA ReadCurrent ==
  ASSUME CacheInv, CurrentCells, NEW g \in Getter, Read(g)
  PROVE  CurrentCells'
<1>0. CacheTypeOK /\ Active(g) /\ UNCHANGED <<data, cell, cells, sets>>
  BY DEF CacheInv, Read, Active
<1>1. HeldCell(g).value \in Value \cup {None, Err}
  BY <1>0, ActiveFacts DEF Cell
<1>2. CASE HeldCell(g).value # None
  <2>1. getter' = Returns(g, HeldCell(g).value)
    BY <1>2 DEF Read, HeldCell
  <2>2. /\ getter'[g].result = HeldCell(g).value
        /\ getter'[g].timestamp = getter[g].timestamp
        /\ getter'[g].cell = getter[g].cell
        /\ \A h \in Getter \ {g} : getter'[h] = getter[h]
    BY <1>0, <1>1, <2>1, ReturnsFacts
  <2>3. HeldCell(g)' = HeldCell(g)
    BY <1>0, <2>2 DEF HeldCell
  <2>4. sets = 0 => HoldsCurrent(g)'
    BY <1>0, <1>2, <2>2, <2>3 DEF CurrentCells, HoldsCurrent
  <2> QED BY <1>0, <2>2, <2>4, CurrentKept
<1>3. CASE HeldCell(g).value = None
  <2>1. getter' = [getter EXCEPT ![g].pc = "waiting"]
    BY <1>3 DEF Read, HeldCell
  <2>2. /\ getter'[g].pc = "waiting"
        /\ getter'[g].timestamp = getter[g].timestamp
        /\ getter'[g].cell = getter[g].cell
        /\ \A h \in Getter \ {g} : getter'[h] = getter[h]
    BY <1>0, <2>1, PcFacts
  <2>3. sets = 0 => HoldsCurrent(g)'
    BY <1>0, <2>2 DEF CurrentCells, HoldsCurrent
  <2> QED BY <1>0, <2>2, <2>3, CurrentKept
<1> QED BY <1>2, <1>3

LEMMA LockCurrent ==
  ASSUME CacheInv, CurrentCells, NEW g \in Getter, Lock(g)
  PROVE  CurrentCells'
<1>0. CacheTypeOK /\ Active(g) /\ UNCHANGED <<data, cells, sets>>
  BY DEF CacheInv, Lock, Active
<1>1. /\ HeldCell(g).value \in Value \cup {None, Err}
      /\ getter[g].cell \in 1 .. cells
  BY <1>0, ActiveFacts DEF Cell
<1>2. CASE HeldCell(g).value # None
  <2>1. getter' = Returns(g, HeldCell(g).value) /\ UNCHANGED cell
    BY <1>2 DEF Lock, HeldCell
  <2>2. /\ getter'[g].result = HeldCell(g).value
        /\ getter'[g].timestamp = getter[g].timestamp
        /\ getter'[g].cell = getter[g].cell
        /\ \A h \in Getter \ {g} : getter'[h] = getter[h]
    BY <1>0, <1>1, <2>1, ReturnsFacts
  <2>3. HeldCell(g)' = HeldCell(g)
    BY <2>1, <2>2 DEF HeldCell
  <2>4. sets = 0 => HoldsCurrent(g)'
    BY <1>0, <1>2, <2>2, <2>3 DEF CurrentCells, HoldsCurrent
  <2> QED BY <1>0, <2>1, <2>2, <2>4, CurrentKept
<1>3. CASE HeldCell(g).value = None
  <2>1. /\ cell' = [cell EXCEPT ![getter[g].cell].writer = g]
        /\ getter' = [getter EXCEPT ![g].pc = "fetching"]
    BY <1>3 DEF Lock, HeldCell
  <2>2. /\ getter'[g].pc = "fetching"
        /\ getter'[g].timestamp = getter[g].timestamp
        /\ getter'[g].cell = getter[g].cell
        /\ \A h \in Getter \ {g} : getter'[h] = getter[h]
    BY <1>0, <2>1, PcFacts
  <2>3. sets = 0 => HoldsCurrent(g)'
    BY <1>0, <2>2 DEF CurrentCells, HoldsCurrent
  <2>4. \A c \in 1 .. cells : cell'[c].value = cell[c].value
    BY <1>0, <1>1, <2>1 DEF CacheTypeOK, Cell
  <2> QED BY <1>0, <2>2, <2>3, <2>4, CurrentKept
<1> QED BY <1>2, <1>3

LEMMA FetchedCurrent ==
  ASSUME CacheInv, CurrentCells, NEW g \in Getter, Fetched(g)
  PROVE  CurrentCells'
<1>0. CacheTypeOK /\ Active(g) /\ UNCHANGED <<data, cells, sets>>
  BY DEF CacheInv, Fetched, FetchOk, FetchFails, Active
<1>1. getter[g].cell \in 1 .. cells /\ HeldCell(g).value = None
  BY <1>0, ActiveFacts DEF CacheInv, FetcherHoldsLock, Fetched, FetchOk, FetchFails
<1>2. PICK r \in Value \cup {Err} :
        /\ getter' = Returns(g, r)
        /\ r # Err => cell'[getter[g].cell].value = r
        /\ \A c \in 1 .. cells : c # getter[g].cell => cell'[c] = cell[c]
  <2>1. ASSUME NEW v \in Value, FetchOk(g, v)
        PROVE  /\ getter' = Returns(g, v)
               /\ cell'[getter[g].cell].value = v
               /\ \A c \in 1 .. cells : c # getter[g].cell => cell'[c] = cell[c]
    BY <1>0, <1>1, <2>1 DEF FetchOk, CacheTypeOK
  <2>2. ASSUME FetchFails(g)
        PROVE  /\ getter' = Returns(g, Err)
               /\ \A c \in 1 .. cells : c # getter[g].cell => cell'[c] = cell[c]
    BY <1>0, <1>1, <2>2 DEF FetchFails, CacheTypeOK
  <2> QED BY <2>1, <2>2 DEF Fetched
<1>3. /\ getter'[g].result = r
      /\ getter'[g].timestamp = getter[g].timestamp
      /\ getter'[g].cell = getter[g].cell
      /\ \A h \in Getter \ {g} : getter'[h] = getter[h]
  BY <1>0, <1>2, ReturnsFacts
<1>4. \A c \in 1 .. cells : cell'[c].value = cell[c].value \/ cell[c].value = None
  BY <1>1, <1>2 DEF HeldCell
<1>5. sets = 0 => HoldsCurrent(g)'
  <2>1. getter'[g].result # Err =>
          getter'[g].result = HeldCell(g)'.value /\ getter'[g].result # None
    BY <1>2, <1>3, CacheAssumption DEF HeldCell
  <2> QED BY <1>0, <1>3, <2>1 DEF CurrentCells, HoldsCurrent
<1> QED BY <1>0, <1>3, <1>4, <1>5, CurrentKept

\* However the calls for one second overlap, and whichever of their fetches fail,
\* the ones that succeed before the first set() return the same price.
THEOREM CallsAgree == CacheSafety => []GettersAgree
<1>1. CacheInit => CurrentCells
  BY DEF CacheInit, CurrentCells, HoldsCurrent, Active, Idle
<1>2. CacheInv /\ CurrentCells /\ [CacheNext]_cacheVars => CurrentCells'
  <2> SUFFICES ASSUME CacheInv, CurrentCells, [CacheNext]_cacheVars
               PROVE  CurrentCells'
    OBVIOUS
  <2>1. CASE UNCHANGED cacheVars
    BY <2>1 DEF cacheVars, CurrentCells, HoldsCurrent, Active, HeldCell
  <2>2. ASSUME NEW t \in Timestamp, NEW v \in Value, set(t, v)
        PROVE  CurrentCells'
    BY <2>2 DEF set, CacheInv, CacheTypeOK, CurrentCells
  <2> QED BY <2>1, <2>2, EntryCurrent, ReadCurrent, LockCurrent, FetchedCurrent
          DEF CacheNext
<1>3. CacheInv /\ CurrentCells => GettersAgree
  <2> SUFFICES ASSUME CurrentCells, sets = 0, NEW g \in Getter, NEW h \in Getter,
                      getter[g].pc = "returned", getter[h].pc = "returned",
                      getter[g].timestamp = getter[h].timestamp,
                      getter[g].result # Err, getter[h].result # Err
               PROVE  getter[g].result = getter[h].result
    BY DEF GettersAgree
  <2>1. HoldsCurrent(g) /\ HoldsCurrent(h) /\ Active(g) /\ Active(h)
    BY DEF CurrentCells, Active
  <2> QED BY <2>1 DEF HoldsCurrent, HeldCell
<1> QED BY CacheInvariance, <1>1, <1>2, <1>3, PTL DEF CacheSafety
-----------------------------------------------------------------------------
(* The cache implements PriceMap.                                          *)

\* The map or a call has this cell for the second.
Belongs(c, t) ==
  \/ data[t] = c
  \/ \E g \in Getter : Active(g) /\ getter[g].timestamp = t /\ getter[g].cell = c

\* No cell is shared between seconds, also not one that set() has put out of the map.
CellsApart ==
  \A c \in 1 .. cells, t, u \in Timestamp : Belongs(c, t) /\ Belongs(c, u) => t = u

\* A step that gives no second a cell, but perhaps a new one to t.
LEMMA ApartKept ==
  ASSUME CacheInv, CellsApart, NEW t,
         \A c \in 1 .. cells', u \in Timestamp :
           Belongs(c, u)' => Belongs(c, u) \/ (u = t /\ c \notin 1 .. cells)
  PROVE  CellsApart'
<1>1. \A c, u : u \in Timestamp /\ c \in Nat /\ Belongs(c, u) => c \in 1 .. cells
  <2> SUFFICES ASSUME NEW u \in Timestamp, NEW c \in Nat, Belongs(c, u)
               PROVE  c \in 1 .. cells
    OBVIOUS
  <2>1. CASE data[u] = c
    BY <2>1, CacheAssumption DEF CacheInv, CacheTypeOK
  <2>2. ASSUME NEW g \in Getter, Active(g), getter[g].cell = c
        PROVE  c \in 1 .. cells
    BY <2>2, ActiveFacts DEF CacheInv
  <2> QED BY <2>1, <2>2 DEF Belongs
<1> SUFFICES ASSUME NEW c \in 1 .. cells', NEW u \in Timestamp, NEW w \in Timestamp,
                    Belongs(c, u)', Belongs(c, w)'
             PROVE  u = w
  BY DEF CellsApart
<1>2. c \in Nat
  OBVIOUS
<1>3. CASE c \in 1 .. cells
  <2>1. Belongs(c, u) /\ Belongs(c, w)
    BY <1>3
  <2> QED BY <1>3, <2>1 DEF CellsApart
<1>4. CASE c \notin 1 .. cells
  BY <1>1, <1>2, <1>4
<1> QED BY <1>3, <1>4

\* A call goes on with its cell, and the map keeps its cells.
LEMMA ApartGoesOn ==
  ASSUME CacheInv, CellsApart, UNCHANGED <<data, cells>>,
         \A g \in Getter : Active(g)' => Active(g) /\ getter'[g].cell = getter[g].cell
                                      /\ getter'[g].timestamp = getter[g].timestamp
  PROVE  CellsApart'
<1>1. \A c, u : Belongs(c, u)' => Belongs(c, u)
  BY DEF Belongs
<1> QED BY <1>1, ApartKept

LEMMA GoesOn ==
  ASSUME CacheInv, NEW g \in Getter, Read(g) \/ Lock(g) \/ Fetched(g)
  PROVE  /\ UNCHANGED <<data, cells>>
         /\ Active(g) /\ getter[g].pc \in {"entered", "waiting", "fetching"}
         /\ getter'[g].cell = getter[g].cell
         /\ getter'[g].timestamp = getter[g].timestamp
         /\ \A h \in Getter : h # g => getter'[h] = getter[h]
         /\ \/ /\ getter'[g].pc \in {"waiting", "fetching"}
            \/ /\ Read(g) \/ Lock(g)
               /\ getter'[g].pc = "returned" /\ getter'[g].result = HeldCell(g).value
               /\ HeldCell(g).value # None /\ UNCHANGED cell
            \/ Fetched(g) /\ getter'[g].pc = "returned"
<1>0. CacheTypeOK /\ UNCHANGED <<data, cells>> /\ Active(g)
      /\ getter[g].pc \in {"entered", "waiting", "fetching"}
  BY DEF CacheInv, Read, Lock, Fetched, FetchOk, FetchFails, Active
<1>1. HeldCell(g).value \in Value \cup {None}
  BY <1>0, ActiveFacts DEF Cell
<1>2. \/ \E p \in {"waiting", "fetching"} : getter' = [getter EXCEPT ![g].pc = p]
      \/ /\ Read(g) \/ Lock(g)
         /\ getter' = Returns(g, HeldCell(g).value)
         /\ HeldCell(g).value # None /\ UNCHANGED cell
      \/ Fetched(g) /\ \E r \in Value \cup {Err} : getter' = Returns(g, r)
  BY DEF Read, Lock, Fetched, FetchOk, FetchFails, HeldCell
<1>3. CASE \E p \in {"waiting", "fetching"} : getter' = [getter EXCEPT ![g].pc = p]
  <2>1. CASE getter' = [getter EXCEPT ![g].pc = "waiting"]
    BY <1>0, <2>1, PcFacts
  <2>2. CASE getter' = [getter EXCEPT ![g].pc = "fetching"]
    BY <1>0, <2>2, PcFacts
  <2> QED BY <1>3, <2>1, <2>2
<1>4. CASE /\ Read(g) \/ Lock(g)
           /\ getter' = Returns(g, HeldCell(g).value)
           /\ HeldCell(g).value # None /\ UNCHANGED cell
  BY <1>0, <1>1, <1>4, ReturnsFacts
<1>5. CASE Fetched(g) /\ \E r \in Value \cup {Err} : getter' = Returns(g, r)
  BY <1>0, <1>5, ReturnsFacts
<1> QED BY <1>2, <1>3, <1>4, <1>5

\* What Entry does to the cells of the seconds and calls.
LEMMA EntryFacts ==
  ASSUME CacheInv, NEW g \in Getter, NEW t \in Timestamp, Entry(g, t)
  PROVE  /\ ~Active(g) /\ getter[g].pc = "idle"
         /\ getter'[g].pc = "entered" /\ getter'[g].timestamp = t
         /\ getter'[g].cell = data'[t]
         /\ \A h \in Getter : h # g => getter'[h] = getter[h]
         /\ \A u \in Timestamp : u # t => data'[u] = data[u]
         /\ \A c \in 1 .. cells : cell'[c] = cell[c]
         /\ \/ data[t] # None /\ data'[t] = data[t]
            \/ /\ data[t] = None /\ cells \in Nat /\ data'[t] = cells + 1
               /\ cell'[cells + 1].value = None
<1>0. CacheTypeOK /\ ~Active(g) /\ getter[g].pc = "idle"
  BY DEF CacheInv, Entry, Active
<1>1. CASE data[t] # None
  <2>1. /\ getter' = [getter EXCEPT ![g] =
             [pc |-> "entered", timestamp |-> t, cell |-> data[t], result |-> None]]
        /\ UNCHANGED <<data, cell, cells>>
    BY <1>1 DEF Entry
  <2> QED BY <1>0, <1>1, <2>1 DEF CacheTypeOK
<1>2. CASE data[t] = None
  <2>1. /\ Allocate(t, None) /\ None \in Value \cup {None}
        /\ getter' = [getter EXCEPT ![g] =
             [pc |-> "entered", timestamp |-> t, cell |-> cells + 1, result |-> None]]
    BY <1>2 DEF Entry
  <2>2. /\ cells \in Nat /\ \A c \in 1 .. cells : cell'[c] = cell[c]
        /\ cell'[cells + 1] = [value |-> None, writer |-> None]
        /\ data'[t] = cells + 1
        /\ \A u \in Timestamp \ {t} : data'[u] = data[u]
    BY <1>0, <2>1, AllocateFacts
  <2>3. /\ getter'[g] = [pc |-> "entered", timestamp |-> t, cell |-> cells + 1,
                         result |-> None]
        /\ \A h \in Getter \ {g} : getter'[h] = getter[h]
    BY <1>0, <2>1 DEF CacheTypeOK
  <2> QED BY <1>0, <1>2, <2>2, <2>3
<1> QED BY <1>1, <1>2

LEMMA ApartStep ==
  ASSUME CacheInv, CellsApart, [CacheNext]_cacheVars
  PROVE  CellsApart'
<1>0. CacheTypeOK
  BY DEF CacheInv
<1>1. ASSUME NEW t \in Timestamp, NEW v \in Value, set(t, v)
      PROVE  CellsApart'
  <2>1. Allocate(t, v) /\ getter' = getter /\ v \in Value \cup {None}
    BY <1>1 DEF set
  <2>2. /\ cells \in Nat /\ data'[t] = cells + 1
        /\ \A u \in Timestamp \ {t} : data'[u] = data[u]
    BY <1>0, <2>1, AllocateFacts
  <2>3. \A c, u : u \in Timestamp /\ Belongs(c, u)' =>
          Belongs(c, u) \/ (u = t /\ c \notin 1 .. cells)
    BY <2>1, <2>2 DEF Belongs, Active
  <2> QED BY <2>3, ApartKept
<1>2. ASSUME NEW g \in Getter, NEW t \in Timestamp, Entry(g, t)
      PROVE  CellsApart'
  <2>1. /\ getter'[g].timestamp = t /\ getter'[g].cell = data'[t]
        /\ \A h \in Getter : h # g => getter'[h] = getter[h]
        /\ \A u \in Timestamp : u # t => data'[u] = data[u]
        /\ data'[t] = data[t] \/ (cells \in Nat /\ data'[t] = cells + 1)
    BY <1>2, EntryFacts
  <2>2. data'[t] = data[t] \/ data'[t] \notin 1 .. cells
    BY <2>1
  <2>3. \A c, u : u \in Timestamp /\ Belongs(c, u)' =>
          Belongs(c, u) \/ (u = t /\ c \notin 1 .. cells)
    BY <2>1, <2>2 DEF Belongs, Active
  <2> QED BY <2>3, ApartKept
<1>3. ASSUME NEW g \in Getter, Read(g) \/ Lock(g) \/ Fetched(g)
      PROVE  CellsApart'
  <2>1. \A h \in Getter : Active(h)' => Active(h) /\ getter'[h].cell = getter[h].cell
                                     /\ getter'[h].timestamp = getter[h].timestamp
    BY <1>3, GoesOn DEF Active
  <2>2. UNCHANGED <<data, cells>>
    BY <1>3, GoesOn
  <2> QED BY <2>1, <2>2, ApartGoesOn
<1>4. CASE UNCHANGED cacheVars
  <2>1. UNCHANGED <<data, cells>> /\ getter' = getter
    BY <1>4 DEF cacheVars
  <2> QED BY <2>1, ApartGoesOn DEF Active
<1> QED BY <1>1, <1>2, <1>3, <1>4 DEF CacheNext

\* The call of the map that a call of get() is.
LEMMA AsCallFacts ==
  ASSUME NEW g
  PROVE  /\ getter[g].pc = "idle" =>
              AsCall(g) = [pc |-> "idle", timestamp |-> None, found |-> None]
         /\ getter[g].pc = "returned" =>
              AsCall(g) = [pc |-> "returned", timestamp |-> getter[g].timestamp,
                           found |-> getter[g].result]
         /\ getter[g].pc \in {"entered", "waiting", "fetching"} =>
              AsCall(g) = [pc |-> "asked", timestamp |-> getter[g].timestamp,
                           found |-> HeldCell(g).value]
BY DEF AsCall, HeldCell

AsCalls == [g \in Getter |-> AsCall(g)]
Prices == [t \in Timestamp |-> Lookup(t)]

\* A call that does not move stays what it is while its cell keeps its price.
LEMMA AsCallKept ==
  ASSUME CacheInv, NEW g \in Getter, getter'[g] = getter[g],
         Active(g) => HeldCell(g)'.value = HeldCell(g).value
  PROVE  AsCall(g)' = AsCall(g)
<1>1. getter[g].pc \in {"idle", "entered", "waiting", "fetching", "returned"}
  BY DEF CacheInv, CacheTypeOK, GetterState
<1>2. CASE getter[g].pc = "idle"
  BY <1>2 DEF AsCall
<1>3. CASE getter[g].pc = "returned"
  BY <1>3 DEF AsCall
<1>4. CASE getter[g].pc \in {"entered", "waiting", "fetching"}
  <2>1. HeldCell(g)'.value = HeldCell(g).value
    BY <1>4 DEF Active
  <2> QED BY <1>4, <2>1 DEF AsCall, HeldCell
<1> QED BY <1>1, <1>2, <1>3, <1>4

LEMMA OneAsCall ==
  ASSUME NEW g \in Getter, \A h \in Getter : h # g => AsCall(h)' = AsCall(h)
  PROVE  AsCalls' = [AsCalls EXCEPT ![g] = AsCall(g)']
BY DEF AsCalls

\* While the map keeps its cells, and they their prices, it stays as it is.
LEMMA LookupKept ==
  ASSUME CacheInv, NEW t \in Timestamp, data'[t] = data[t],
         \A c \in 1 .. cells : cell'[c].value = cell[c].value
  PROVE  Lookup(t)' = Lookup(t)
BY DEF Lookup, CacheInv, CacheTypeOK

LEMMA PutMap ==
  ASSUME CacheInv, NEW t \in Timestamp, NEW v \in Value, set(t, v)
  PROVE  Map!Put(t, v)
<1>1. CacheTypeOK /\ Allocate(t, v) /\ getter' = getter /\ v \in Value \cup {None}
  BY DEF CacheInv, set
<1>2. /\ cells \in Nat /\ data'[t] = cells + 1
      /\ cell'[cells + 1] = [value |-> v, writer |-> None]
      /\ \A c \in 1 .. cells : cell'[c] = cell[c]
      /\ \A u \in Timestamp \ {t} : data'[u] = data[u]
  BY <1>1, AllocateFacts
<1>3. \A u \in Timestamp \ {t} : Lookup(u)' = Lookup(u)
  BY <1>2, LookupKept
<1>4. Lookup(t)' = v
  BY <1>2, CacheAssumption DEF Lookup
<1>5. Prices' = [Prices EXCEPT ![t] = v]
  BY <1>3, <1>4 DEF Prices
<1>6. \A g \in Getter : Active(g) => HeldCell(g)'.value = HeldCell(g).value
  BY <1>1, <1>2, ActiveFacts DEF HeldCell
<1>7. \A g \in Getter : AsCall(g)' = AsCall(g)
  BY <1>1, <1>6, AsCallKept
<1> QED BY <1>5, <1>7 DEF Map!Put, Prices

LEMMA AskMap ==
  ASSUME CacheInv, NEW g \in Getter, NEW t \in Timestamp, Entry(g, t)
  PROVE  Map!Ask(g, t)
<1>1. /\ ~Active(g) /\ getter[g].pc = "idle"
      /\ getter'[g].pc = "entered" /\ getter'[g].timestamp = t
      /\ getter'[g].cell = data'[t]
      /\ \A h \in Getter : h # g => getter'[h] = getter[h]
      /\ \A u \in Timestamp : u # t => data'[u] = data[u]
      /\ \A c \in 1 .. cells : cell'[c] = cell[c]
      /\ \/ data[t] # None /\ data'[t] = data[t]
         \/ /\ data[t] = None /\ cells \in Nat /\ data'[t] = cells + 1
            /\ cell'[cells + 1].value = None
  BY EntryFacts
<1>2. Lookup(t)' = Lookup(t) /\ Lookup(t) = HeldCell(g)'.value
  <2>1. CASE data[t] # None /\ data'[t] = data[t]
    <3>1. data[t] \in 1 .. cells
      BY <2>1 DEF CacheInv, CacheTypeOK
    <3>2. HeldCell(g)'.value = cell[data[t]].value
      BY <1>1, <2>1, <3>1 DEF HeldCell
    <3> QED BY <1>1, <2>1, <3>2, LookupKept DEF Lookup
  <2>2. CASE /\ data[t] = None /\ cells \in Nat /\ data'[t] = cells + 1
             /\ cell'[cells + 1].value = None
    <3>1. HeldCell(g)'.value = None
      BY <1>1, <2>2 DEF HeldCell
    <3>2. Lookup(t) = None /\ Lookup(t)' = None
      BY <2>2, CacheAssumption DEF Lookup
    <3> QED BY <3>1, <3>2
  <2> QED BY <1>1, <2>1, <2>2
<1>3. \A u \in Timestamp : Lookup(u)' = Lookup(u)
  BY <1>1, <1>2, LookupKept
<1>4. \A h \in Getter : h # g => AsCall(h)' = AsCall(h)
  <2> SUFFICES ASSUME NEW h \in Getter, h # g PROVE AsCall(h)' = AsCall(h)
    OBVIOUS
  <2>1. Active(h) => HeldCell(h)'.value = HeldCell(h).value
    BY <1>1, ActiveFacts DEF CacheInv, HeldCell
  <2> QED BY <1>1, <2>1, AsCallKept
<1>5. AsCall(g) = [pc |-> "idle", timestamp |-> None, found |-> None]
  BY <1>1, AsCallFacts
<1>6. AsCall(g)' = [pc |-> "asked", timestamp |-> t, found |-> Lookup(t)]
  BY <1>1, <1>2 DEF AsCall, HeldCell
<1>7. AsCalls' = [AsCalls EXCEPT ![g] = [pc |-> "asked", timestamp |-> t, found |-> Lookup(t)]]
  BY <1>4, <1>6, OneAsCall
<1> QED BY <1>3, <1>5, <1>7 DEF Map!Ask, AsCalls

\* A first or second look: an answer for the call, or nothing.
LEMMA AnswerMap ==
  ASSUME CacheInv, NEW g \in Getter, Read(g) \/ Lock(g)
  PROVE  Map!Answer(g) \/ UNCHANGED Map!mapVars
<1>0. CacheTypeOK
  BY DEF CacheInv
<1>1. /\ UNCHANGED <<data, cells>>
      /\ Active(g) /\ getter[g].pc \in {"entered", "waiting"}
      /\ getter'[g].cell = getter[g].cell
      /\ getter'[g].timestamp = getter[g].timestamp
      /\ \A h \in Getter : h # g => getter'[h] = getter[h]
      /\ \/ getter'[g].pc \in {"waiting", "fetching"}
         \/ /\ getter'[g].pc = "returned" /\ getter'[g].result = HeldCell(g).value
            /\ HeldCell(g).value # None
  BY GoesOn DEF Read, Lock, Fetched, FetchOk, FetchFails
<1>2. \A c \in 1 .. cells : cell'[c].value = cell[c].value
  <2>1. cell' = cell \/ cell' = [cell EXCEPT ![getter[g].cell].writer = g]
    BY DEF Read, Lock
  <2>2. cell \in [1 .. cells -> Cell] /\ getter[g].cell \in 1 .. cells
    BY <1>0, <1>1, ActiveFacts DEF CacheTypeOK
  <2>3. CASE cell' = [cell EXCEPT ![getter[g].cell].writer = g]
    <3>1. cell'[getter[g].cell] = [cell[getter[g].cell] EXCEPT !.writer = g]
      BY <2>2, <2>3
    <3>2. cell[getter[g].cell] \in Cell
      BY <2>2
    <3>3. cell'[getter[g].cell].value = cell[getter[g].cell].value
      BY <3>1, <3>2 DEF Cell
    <3> QED BY <2>2, <2>3, <3>3
  <2> QED BY <2>1, <2>3
<1>3. \A h \in Getter : Active(h) /\ getter'[h].cell = getter[h].cell =>
        HeldCell(h)'.value = HeldCell(h).value
  BY <1>0, <1>2, ActiveFacts DEF HeldCell
<1>4. \A t \in Timestamp : Lookup(t)' = Lookup(t)
  BY <1>1, <1>2, LookupKept
<1>5. \A h \in Getter : h # g => AsCall(h)' = AsCall(h)
  BY <1>1, <1>3, AsCallKept
<1>6. AsCall(g) = [pc |-> "asked", timestamp |-> getter[g].timestamp,
                   found |-> HeldCell(g).value]
  BY <1>1, AsCallFacts
<1>7. CASE getter'[g].pc \in {"waiting", "fetching"}
  <2>1. AsCall(g)' = [pc |-> "asked", timestamp |-> getter[g].timestamp,
                      found |-> HeldCell(g).value]
    BY <1>1, <1>3, <1>7 DEF AsCall, HeldCell
  <2>2. \A h \in Getter : AsCall(h)' = AsCall(h)
    BY <1>5, <1>6, <2>1
  <2> QED BY <1>4, <2>2 DEF Map!mapVars
<1>8. CASE /\ getter'[g].pc = "returned" /\ getter'[g].result = HeldCell(g).value
           /\ HeldCell(g).value # None
  <2>1. AsCall(g)' = [pc |-> "returned", timestamp |-> getter[g].timestamp,
                      found |-> HeldCell(g).value]
    BY <1>1, <1>8 DEF AsCall
  <2>2. AsCall(g)' = [AsCalls[g] EXCEPT !.pc = "returned"]
    BY <1>6, <2>1 DEF AsCalls
  <2>3. AsCalls' = [AsCalls EXCEPT ![g] = AsCall(g)']
    BY <1>5, OneAsCall
  <2>4. AsCalls' = [AsCalls EXCEPT ![g].pc = "returned"]
    BY <2>2, <2>3
  <2> QED BY <1>4, <1>6, <1>8, <2>4 DEF Map!Answer, AsCalls
<1> QED BY <1>1, <1>7, <1>8

\* A fetched price is found by every call that waits for the second, whichever cell of
\* it is in the map by now, and by no other.
LEMMA ResolveMap ==
  ASSUME CacheInv, CellsApart, NEW g \in Getter, NEW v \in Value, FetchOk(g, v)
  PROVE  Map!Resolve(g, getter[g].timestamp, v)
<1> DEFINE c == getter[g].cell
           t == getter[g].timestamp
<1>0. CacheTypeOK /\ FetcherHoldsLock /\ OneEmptyCell /\ v # None
  BY CacheAssumption DEF CacheInv
<1>1. /\ UNCHANGED <<data, cells>> /\ Active(g) /\ getter[g].pc = "fetching"
      /\ HeldCell(g).value = None /\ t \in Timestamp /\ c \in 1 .. cells
      /\ getter' = Returns(g, v) /\ v \in Value \cup {None, Err}
  BY <1>0, ActiveFacts DEF FetchOk, FetcherHoldsLock, Active
<1>2. /\ cell[c].value = None /\ cell'[c].value = v
      /\ \A d \in 1 .. cells : d # c => cell'[d] = cell[d]
  BY <1>0, <1>1 DEF FetchOk, CacheTypeOK, HeldCell
<1>3. /\ getter'[g].pc = "returned" /\ getter'[g].result = v
      /\ getter'[g].timestamp = t
      /\ \A h \in Getter \ {g} : getter'[h] = getter[h]
  BY <1>0, <1>1, ReturnsFacts
<1>4. \A u \in Timestamp : u # t => data[u] # c
  BY <1>1 DEF CellsApart, Belongs
<1>5. \A h \in Getter : Active(h) /\ getter[h].timestamp # t => getter[h].cell # c
  BY <1>0, <1>1, ActiveFacts DEF CellsApart, Belongs
<1>6. \A u \in Timestamp : u # t => Lookup(u)' = Lookup(u)
  BY <1>0, <1>1, <1>2, <1>4 DEF Lookup, CacheTypeOK
<1>7. ASSUME NEW u \in Timestamp, u = t
      PROVE  Lookup(u)' = IF Lookup(u) = None THEN v ELSE Lookup(u)
  <2>1. CASE Lookup(u) = None
    <3>1. data[u] = c /\ c # None
      BY <1>0, <1>1, <1>7, <2>1, CacheAssumption DEF OneEmptyCell
    <3> QED BY <1>1, <1>2, <2>1, <3>1 DEF Lookup
  <2>2. CASE Lookup(u) # None
    <3>1. data[u] # None /\ data[u] # c /\ data[u] \in 1 .. cells
      BY <1>0, <1>1, <1>2, <2>2 DEF Lookup, CacheTypeOK
    <3> QED BY <1>1, <1>2, <2>2, <3>1 DEF Lookup
  <2> QED BY <2>1, <2>2
<1>8. Prices' = IF Prices[t] = None THEN [Prices EXCEPT ![t] = v] ELSE Prices
  BY <1>1, <1>6, <1>7 DEF Prices
<1>9. AsCall(g) = [pc |-> "asked", timestamp |-> t, found |-> None]
  BY <1>1, AsCallFacts
<1>10. AsCall(g)' = [pc |-> "returned", timestamp |-> t, found |-> v]
  BY <1>3 DEF AsCall
<1>11. ASSUME NEW h \in Getter, h # g, Map!Waits(h, t)
       PROVE  AsCall(h)' = [pc |-> "asked", timestamp |-> t, found |-> v]
  <2>1. /\ getter[h].pc \in {"entered", "waiting", "fetching"}
        /\ getter[h].timestamp = t /\ HeldCell(h).value = None
    <3>1. getter[h].pc \in {"idle", "entered", "waiting", "fetching", "returned"}
      BY <1>0 DEF CacheTypeOK, GetterState
    <3>2. AsCall(h).pc = "asked" /\ AsCall(h).timestamp = t /\ AsCall(h).found = None
      BY <1>11 DEF Map!Waits
    <3>3. getter[h].pc \in {"entered", "waiting", "fetching"}
      BY <3>1, <3>2, AsCallFacts
    <3> QED BY <3>2, <3>3, AsCallFacts
  <2>2. getter[h].cell = c
    BY <1>0, <1>1, <2>1 DEF OneEmptyCell, Active
  <2>3. getter'[h] = getter[h] /\ HeldCell(h)'.value = v
    BY <1>2, <1>3, <1>11, <2>2 DEF HeldCell
  <2> QED BY <2>1, <2>3 DEF AsCall, HeldCell
<1>12. ASSUME NEW h \in Getter, h # g, ~Map!Waits(h, t)
       PROVE  AsCall(h)' = AsCall(h)
  <2>1. getter'[h] = getter[h]
    BY <1>3, <1>12
  <2>2. getter[h].pc \in {"idle", "entered", "waiting", "fetching", "returned"}
    BY <1>0 DEF CacheTypeOK, GetterState
  <2>3. CASE getter[h].pc \in {"idle", "returned"}
    BY <2>1, <2>3 DEF AsCall
  <2>4. CASE getter[h].pc \in {"entered", "waiting", "fetching"}
    <3>1. getter[h].timestamp # t \/ HeldCell(h).value # None
      <4>1. AsCall(h) = [pc |-> "asked", timestamp |-> getter[h].timestamp,
                         found |-> HeldCell(h).value]
        BY <2>4, AsCallFacts
      <4> QED BY <1>12, <4>1 DEF Map!Waits
    <3>2. getter[h].cell # c /\ getter[h].cell \in 1 .. cells
      BY <1>0, <1>2, <1>5, <2>4, <3>1, ActiveFacts DEF Active, HeldCell
    <3>3. HeldCell(h)'.value = HeldCell(h).value
      BY <1>2, <2>1, <3>2 DEF HeldCell
    <3> QED BY <2>1, <3>3, AsCallKept
  <2> QED BY <2>2, <2>3, <2>4
<1> HIDE DEF c, t
<1>13. Map!Waits(g, t)
  BY <1>9 DEF Map!Waits
<1>14. AsCalls' =
         [h \in Getter |->
            IF Map!Waits(h, t)
            THEN [pc |-> IF h = g THEN "returned" ELSE "asked", timestamp |-> t, found |-> v]
            ELSE AsCall(h)]
  <2>1. \A h \in Getter : AsCall(h)' =
          IF Map!Waits(h, t)
          THEN [pc |-> IF h = g THEN "returned" ELSE "asked", timestamp |-> t, found |-> v]
          ELSE AsCall(h)
    BY <1>10, <1>11, <1>12, <1>13
  <2> QED BY <2>1 DEF AsCalls
<1>15. Map!Resolve(g, t, v)
  BY <1>8, <1>13, <1>14 DEF Map!Resolve, Prices, AsCalls
<1> QED BY <1>15 DEF t

LEMMA FailMap ==
  ASSUME CacheInv, NEW g \in Getter, FetchFails(g)
  PROVE  Map!Fail(g, getter[g].timestamp)
<1>0. CacheTypeOK /\ FetcherHoldsLock
  BY DEF CacheInv
<1>1. /\ UNCHANGED <<data, cells>> /\ Active(g) /\ getter[g].pc = "fetching"
      /\ HeldCell(g).value = None /\ getter[g].cell \in 1 .. cells
      /\ getter' = Returns(g, Err) /\ Err \in Value \cup {None, Err}
      /\ cell' = [cell EXCEPT ![getter[g].cell].writer = None]
  BY <1>0, ActiveFacts DEF FetchFails, FetcherHoldsLock, Active
<1>2. \A c \in 1 .. cells : cell'[c].value = cell[c].value
  BY <1>0, <1>1 DEF CacheTypeOK, Cell
<1>3. /\ getter'[g].pc = "returned" /\ getter'[g].result = Err
      /\ getter'[g].timestamp = getter[g].timestamp
      /\ \A h \in Getter \ {g} : getter'[h] = getter[h]
  BY <1>0, <1>1, ReturnsFacts
<1>4. \A t \in Timestamp : Lookup(t)' = Lookup(t)
  BY <1>1, <1>2, LookupKept
<1>5. \A h \in Getter : h # g => AsCall(h)' = AsCall(h)
  <2> SUFFICES ASSUME NEW h \in Getter, h # g PROVE AsCall(h)' = AsCall(h)
    OBVIOUS
  <2>1. getter'[h] = getter[h] /\ (Active(h) => HeldCell(h)'.value = HeldCell(h).value)
    BY <1>0, <1>2, <1>3, ActiveFacts DEF HeldCell
  <2> QED BY <2>1, AsCallKept
<1>6. AsCall(g) = [pc |-> "asked", timestamp |-> getter[g].timestamp, found |-> None]
  BY <1>1, AsCallFacts
<1>7. AsCall(g)' = [pc |-> "returned", timestamp |-> getter[g].timestamp, found |-> Err]
  BY <1>3 DEF AsCall
<1>8. AsCalls' = [AsCalls EXCEPT ![g] =
        [pc |-> "returned", timestamp |-> getter[g].timestamp, found |-> Err]]
  BY <1>5, <1>7, OneAsCall
<1>9. Map!Waits(g, getter[g].timestamp)
  BY <1>6 DEF Map!Waits
<1> QED BY <1>4, <1>8, <1>9 DEF Map!Fail, AsCalls

\* Cells, locks and second looks implement the map, for any number of calls of get()
\* and set(): a fetch answers every call that waits for its second, those included
\* whose cell set() has put out of the map, and it replaces no price.
THEOREM CacheImplementsMap == CacheSafety => ImplementsPriceMap
<1>1. CacheInit => CellsApart /\ Map!MapInit
  <2> SUFFICES ASSUME CacheInit PROVE CellsApart /\ Map!MapInit
    OBVIOUS
  <2>1. \A g \in Getter : AsCall(g) = [pc |-> "idle", timestamp |-> None, found |-> None]
    BY DEF CacheInit, Idle, AsCall
  <2>2. \A t \in Timestamp : Lookup(t) = None
    BY DEF CacheInit, Lookup
  <2> QED BY <2>1, <2>2 DEF CacheInit, CellsApart, Map!MapInit
<1>2. CacheInv /\ CellsApart /\ [CacheNext]_cacheVars => CellsApart'
  BY ApartStep
<1>3. CacheInv /\ CellsApart /\ [CacheNext]_cacheVars => [Map!MapNext]_(Map!mapVars)
  <2> SUFFICES ASSUME CacheInv, CellsApart, [CacheNext]_cacheVars
               PROVE  [Map!MapNext]_(Map!mapVars)
    OBVIOUS
  <2>1. CASE UNCHANGED cacheVars
    BY <2>1 DEF cacheVars, Map!mapVars, Lookup, AsCall
  <2>2. ASSUME NEW t \in Timestamp, NEW v \in Value, set(t, v)
        PROVE  Map!MapNext
    BY <2>2, PutMap DEF Map!MapNext
  <2>3. ASSUME NEW g \in Getter, NEW t \in Timestamp, Entry(g, t)
        PROVE  Map!MapNext
    BY <2>3, AskMap DEF Map!MapNext
  <2>4. ASSUME NEW g \in Getter, Read(g) \/ Lock(g)
        PROVE  [Map!MapNext]_(Map!mapVars)
    BY <2>4, AnswerMap DEF Map!MapNext
  <2>5. ASSUME NEW g \in Getter, Fetched(g)
        PROVE  Map!MapNext
    <3>1. getter[g].timestamp \in Timestamp
      BY <2>5, ActiveFacts DEF CacheInv, Fetched, FetchOk, FetchFails, Active
    <3> QED BY <2>5, <3>1, ResolveMap, FailMap DEF Fetched, Map!MapNext
  <2> QED BY <2>1, <2>2, <2>3, <2>4, <2>5 DEF CacheNext
<1> QED BY CacheInvariance, <1>1, <1>2, <1>3, PTL
        DEF CacheSafety, ImplementsPriceMap, Map!MapSpec
=============================================================================
