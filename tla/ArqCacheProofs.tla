--------------------------- MODULE ArqCacheProofs ---------------------------
(***************************************************************************)
(* Proofs about ArqCache for every number of slots, buffers and lengths.   *)
(***************************************************************************)
EXTENDS ArqCache, FiniteSetTheorems, WellFoundedInduction, TLAPS

\* The pool and the sets the counters count are finite.
LEMMA FiniteSets_ ==
  /\ IsFiniteSet(Bufs) /\ Cardinality(Bufs) = PoolSize
  /\ IsFiniteSet(Used) /\ IsFiniteSet(InUse) /\ IsFiniteSet(Buffered)
<1>1. IsFiniteSet(Bufs) /\ Cardinality(Bufs) = PoolSize
  BY FS_Interval, PoolAssumption DEF Bufs
<1>2. Used \in SUBSET Bufs /\ InUse \in SUBSET Slots /\ Buffered \in SUBSET Slots
  BY DEF Used, InUse, Buffered
<1> QED
  BY <1>1, <1>2, FS_Subset, SlotsAssumption

\* A set of buffers that is not empty has a lowest member, so the scan of
\* insert() for a free buffer ends at one.
LEMMA LowestFree ==
  ASSUME NEW u \in [Bufs -> BOOLEAN], \E b \in Bufs : ~u[b]
  PROVE  FirstFree(u) \in Bufs /\ ~u[FirstFree(u)]
<1> DEFINE Below(b) == 0..b
           T == {Below(b) : b \in {c \in Bufs : ~u[c]}}
           R == StrictSubsetOrdering(Bufs)
<1>1. T \subseteq SUBSET Bufs /\ T # {}
  BY PoolAssumption DEF Bufs
<1>2. IsWellFoundedOn(R, SUBSET Bufs) 
  BY FiniteSets_, FS_StrictSubsetOrderingWellFounded, FS_FiniteSubsetsOfFinite
<1> HIDE DEF T, R
<1>3. PICK x \in T : \A y \in T : ~(<<y, x>> \in R)
  BY <1>1, <1>2, WFMin
<1>4. PICK b \in Bufs : ~u[b] /\ x = Below(b)
  BY <1>3 DEF T
<1>5. \A c \in Bufs : ~u[c] => b <= c
  <2> SUFFICES ASSUME NEW c \in Bufs, ~u[c], c < b PROVE FALSE
    BY PoolAssumption DEF Bufs
  <2>1. Below(c) \in T /\ Below(b) \in T
    BY <1>4 DEF T
  <2>2. Below(c) \subseteq Below(b) /\ b \in Below(b) /\ b \notin Below(c)
    BY PoolAssumption DEF Bufs
  <2>3. <<Below(c), Below(b)>> \in R
    BY <1>1, <2>1, <2>2 DEF R, StrictSubsetOrdering
  <2> QED
    BY <1>3, <1>4, <2>1, <2>3
<1> QED
  BY <1>4, <1>5 DEF FirstFree

-----------------------------------------------------------------------------
UsedOther(s) == {b \in Bufs : UsedWithout(s)[b]}

\* Taking the buffer back from slot s leaves flags and counters that
\* describe the other slots exactly.
LEMMA WithoutSlot ==
  ASSUME CacheInv, NEW s \in Slots
  PROVE  /\ UsedWithout(s) \in [Bufs -> BOOLEAN]
         /\ \A b \in Bufs : UsedWithout(s)[b] <=>
              \E t \in Buffered : t # s /\ pending[t].poolIdx = b
         /\ IsFiniteSet(UsedOther(s)) /\ Cardinality(UsedOther(s)) \in Nat
         /\ FreeWithout(s) = PoolSize - Cardinality(UsedOther(s))
         /\ IsFiniteSet(InUse \ {s})
         /\ CountWithout(s) = Cardinality(InUse \ {s})
<1> USE PoolAssumption
<1>a. TypeOK /\ BuffersInv /\ CountsInv
  BY DEF CacheInv
<1>t. /\ poolUsed \in [Bufs -> BOOLEAN]
      /\ pending[s] \in [in_use : BOOLEAN, poolIdx : 0..PoolSize, len : 0..BufMax]
      /\ \A t \in Buffered : pending[t].poolIdx \in Bufs
  BY <1>a DEF TypeOK, Buffered, NoBuf, Bufs
<1>f. IsFiniteSet(Used) /\ IsFiniteSet(InUse) /\ Cardinality(Used) \in Nat
      /\ Cardinality(InUse) \in Nat
  BY FiniteSets_, FS_CardinalityType
<1>1. CASE s \in Buffered
  <2> DEFINE o == pending[s].poolIdx
  <2>1. pending[s].in_use /\ o \in Bufs /\ o \in Used /\ s \in InUse
    BY <1>1, <1>a, <1>t DEF Buffered, BuffersInv, Used, InUse
  <2>2. UsedWithout(s) = [poolUsed EXCEPT ![o] = FALSE]
    BY <2>1 DEF UsedWithout
  <2>3. UsedOther(s) = Used \ {o}
    BY <2>1, <2>2, <1>t DEF UsedOther, Used
  <2>4. \A b \in Bufs : UsedWithout(s)[b] <=>
          \E t \in Buffered : t # s /\ pending[t].poolIdx = b
    BY <1>1, <1>a, <1>t, <2>1, <2>2 DEF BuffersInv
  <2>5. IsFiniteSet(Used \ {o}) /\ Cardinality(Used \ {o}) = Cardinality(Used) - 1
    BY <2>1, <1>f, FS_RemoveElement
  <2>6. IsFiniteSet(InUse \ {s}) /\ Cardinality(InUse \ {s}) = Cardinality(InUse) - 1
    BY <2>1, <1>f, FS_RemoveElement
  <2>7. Cardinality(Used \ {o}) \in Nat /\ Cardinality(InUse \ {s}) \in Nat
    BY <2>5, <2>6, FS_CardinalityType
  <2>8. FreeWithout(s) = poolFree + 1
    BY <1>a, <1>f, <2>1, <2>5, <2>7 DEF FreeWithout, CountsInv
  <2>9. CountWithout(s) = pendingCount - 1
    BY <1>a, <1>f, <2>1, <2>6, <2>7 DEF CountWithout, CountsInv
  <2> QED
    BY <1>a, <1>f, <1>t, <2>1, <2>2, <2>3, <2>4, <2>5, <2>6, <2>7, <2>8, <2>9
       DEF CountsInv
<1>2. CASE s \notin Buffered
  <2>1. UsedWithout(s) = poolUsed /\ FreeWithout(s) = poolFree
    BY <1>2, <1>t DEF UsedWithout, FreeWithout, Buffered, NoBuf, Bufs
  <2>2. UsedOther(s) = Used
    BY <2>1 DEF UsedOther, Used
  <2>3. \A b \in Bufs : poolUsed[b] <=>
          \E t \in Buffered : t # s /\ pending[t].poolIdx = b
    BY <1>2, <1>a DEF BuffersInv
  <2>4. IsFiniteSet(InUse \ {s}) /\ CountWithout(s) = Cardinality(InUse \ {s})
    <3>1. /\ IsFiniteSet(InUse \ {s})
          /\ Cardinality(InUse \ {s}) =
               IF s \in InUse THEN Cardinality(InUse) - 1 ELSE Cardinality(InUse)
      BY <1>f, FS_RemoveElement
    <3>2. Cardinality(InUse \ {s}) \in Nat
      BY <3>1, FS_CardinalityType
    <3>3. pending[s].in_use <=> s \in InUse
      BY DEF InUse
    <3> QED
      BY <1>a, <1>f, <3>1, <3>2, <3>3 DEF CountWithout, CountsInv
  <2> QED
    BY <1>a, <1>f, <1>t, <2>1, <2>2, <2>3, <2>4 DEF CountsInv
<1> QED
  BY <1>1, <1>2

\* hasRoom() is the truth about the pool, also when slot s is overwritten.
LEMMA RoomLeft ==
  ASSUME CacheInv, NEW s \in Slots, hasRoom
  PROVE  FreeWithout(s) > 0 /\ \E b \in Bufs : ~UsedWithout(s)[b]
<1> USE PoolAssumption
<1>1. FreeWithout(s) > 0
  BY DEF FreeWithout, hasRoom, CacheInv, TypeOK
<1>w. FreeWithout(s) = PoolSize - Cardinality(UsedOther(s)) /\ Cardinality(UsedOther(s)) \in Nat
  BY WithoutSlot
<1>2. Cardinality(UsedOther(s)) < PoolSize
  BY <1>1, <1>w
<1>3. UsedOther(s) # Bufs
  BY <1>2, <1>w, FiniteSets_
<1> QED
  BY <1>1, <1>3 DEF UsedOther

-----------------------------------------------------------------------------
\* An empty cache satisfies the invariant.
LEMMA InitCache == Init => CacheInv
<1> SUFFICES ASSUME Init PROVE CacheInv
  OBVIOUS
<1> USE PoolAssumption, WindowAssumption, ChunkFitsAssumption DEF Init
<1>1. Used = {} /\ InUse = {} /\ Buffered = {}
  BY DEF Used, InUse, Buffered, EmptySlot
<1>2. Cardinality(Used) = 0 /\ Cardinality(InUse) = 0
  BY <1>1, FS_EmptySet
<1>3. Cardinality(Slots) \in Nat
  BY SlotsAssumption, FS_CardinalityType
<1>4. TypeOK
  BY <1>3 DEF TypeOK, EmptySlot, NoBuf, Nothing
<1>5. BuffersInv
  BY <1>1 DEF BuffersInv, Nothing, EmptySlot
<1>6. CountsInv
  BY <1>2 DEF CountsInv
<1> QED
  BY <1>4, <1>5, <1>6 DEF CacheInv

\* A count of slots in use or of buffers in use fits its counter.
LEMMA CountsType ==
  ASSUME NEW U \in SUBSET Bufs, NEW I \in SUBSET Slots
  PROVE  /\ Cardinality(I) \in 0..Cardinality(Slots)
         /\ PoolSize - Cardinality(U) \in 0..PoolSize
<1>1. IsFiniteSet(U) /\ IsFiniteSet(I)
  BY FiniteSets_, FS_Subset, SlotsAssumption
<1>2. Cardinality(U) \in Nat /\ Cardinality(I) \in Nat /\ Cardinality(Slots) \in Nat
  BY <1>1, FS_CardinalityType, SlotsAssumption
<1>3. Cardinality(U) <= PoolSize /\ Cardinality(I) <= Cardinality(Slots)
  BY FiniteSets_, FS_Subset, SlotsAssumption
<1> QED
  BY <1>2, <1>3, PoolAssumption

\* insert() with a buffer: the buffer taken is a free one, so no other slot
\* loses its bytes.
LEMMA InsertBufferedKeeps ==
  ASSUME CacheInv, NEW s \in Slots, NEW p \in Payloads, p.len > 0,
         NEW b \in Bufs, ~UsedWithout(s)[b], InsertBuffered(s, p, b),
         kept' = [kept EXCEPT ![s] = p], window' = window
  PROVE  CacheInv'
<1> USE PoolAssumption, ChunkFitsAssumption
<1>a. TypeOK /\ BuffersInv /\ CountsInv
  BY DEF CacheInv
<1>w. /\ UsedWithout(s) \in [Bufs -> BOOLEAN]
      /\ \A c \in Bufs : UsedWithout(s)[c] <=>
           \E t \in Buffered : t # s /\ pending[t].poolIdx = c
      /\ IsFiniteSet(UsedOther(s)) /\ Cardinality(UsedOther(s)) \in Nat
      /\ FreeWithout(s) = PoolSize - Cardinality(UsedOther(s))
      /\ IsFiniteSet(InUse \ {s})
      /\ CountWithout(s) = Cardinality(InUse \ {s})
  BY WithoutSlot
<1>n. /\ pending' = [pending EXCEPT ![s] = [in_use |-> TRUE, poolIdx |-> b, len |-> p.len]]
      /\ pool' = [pool EXCEPT ![b] = p.body]
      /\ poolUsed' = [UsedWithout(s) EXCEPT ![b] = TRUE]
      /\ poolFree' = FreeWithout(s) - 1
      /\ pendingCount' = CountWithout(s) + 1
  BY DEF InsertBuffered
<1>p. p.body \in Bodies /\ p.len \in 1..BufMax
  BY DEF Payloads
<1>1. Used' = UsedOther(s) \cup {b} /\ b \notin UsedOther(s)
  BY <1>n, <1>w DEF Used, UsedOther
<1>2. InUse' = (InUse \ {s}) \cup {s}
  BY <1>n, <1>a DEF InUse, TypeOK
<1>3. b # NoBuf /\ Buffered' = Buffered \cup {s}
  <2>1. b # NoBuf
    BY DEF NoBuf, Bufs
  <2> QED
    BY <2>1, <1>n, <1>a DEF Buffered, TypeOK
<1>4. CountsInv'
  <2>1. Cardinality(Used') = Cardinality(UsedOther(s)) + 1
    BY <1>1, <1>w, FS_AddElement
  <2>2. Cardinality(InUse') = Cardinality(InUse \ {s}) + 1
    BY <1>2, <1>w, FS_AddElement
  <2> QED
    BY <2>1, <2>2, <1>n, <1>w DEF CountsInv
<1>5. TypeOK'
  <2>1. pendingCount' \in 0..Cardinality(Slots) /\ poolFree' \in 0..PoolSize
    <3>1. Used' \in SUBSET Bufs /\ InUse' \in SUBSET Slots
      BY <1>1, <1>2 DEF UsedOther, InUse
    <3>2. Cardinality(InUse') \in 0..Cardinality(Slots) /\ PoolSize - Cardinality(Used') \in 0..PoolSize
      BY <3>1, CountsType
    <3> QED
      BY <3>2, <1>4 DEF CountsInv
  <2>2. pending' \in [Slots -> [in_use : BOOLEAN, poolIdx : 0..PoolSize, len : 0..BufMax]]
    BY <1>n, <1>a, <1>p DEF TypeOK, Bufs
  <2>3. pool' \in [Bufs -> Bodies] /\ poolUsed' \in [Bufs -> BOOLEAN]
    BY <1>n, <1>a, <1>p, <1>w DEF TypeOK
  <2>4. kept' \in [Slots -> Payloads \cup {Nothing}] /\ window' \in 1..WindowMax
    BY <1>a DEF TypeOK
  <2> QED
    BY <2>1, <2>2, <2>3, <2>4 DEF TypeOK
<1>6. BuffersInv'
  <2>o. \A t \in Slots : t # s => pending'[t] = pending[t] /\ kept'[t] = kept[t]
    BY <1>n, <1>a DEF TypeOK
  <2>s. pending'[s] = [in_use |-> TRUE, poolIdx |-> b, len |-> p.len] /\ kept'[s] = p
    BY <1>n, <1>a DEF TypeOK
  <2>b. \A t \in Buffered : t # s => pending[t].poolIdx \in Bufs /\ pending[t].poolIdx # b
    BY <1>w, <1>a DEF BuffersInv, TypeOK, Buffered, Bufs, NoBuf
  <2>c. \A t \in Buffered : t \in Slots
    BY DEF Buffered
  <2>1. \A t, v \in Buffered' : pending'[t].poolIdx = pending'[v].poolIdx => t = v
    BY <1>3, <1>a, <2>o, <2>s, <2>b, <2>c DEF BuffersInv
  <2>2. \A c \in Bufs : poolUsed'[c] <=> \E t \in Buffered' : pending'[t].poolIdx = c
    <3> TAKE c \in Bufs
    <3>1. CASE c = b
      BY <3>1, <1>3, <1>n, <1>w, <2>s
    <3>2. CASE c # b
      <4>1. poolUsed'[c] = UsedWithout(s)[c]
        BY <3>2, <1>n, <1>w
      <4>2. UsedWithout(s)[c] <=> \E t \in Buffered : t # s /\ pending[t].poolIdx = c
        BY <1>w
      <4>3. (\E t \in Buffered : t # s /\ pending[t].poolIdx = c)
              <=> \E t \in Buffered' : pending'[t].poolIdx = c
        BY <3>2, <1>3, <2>o, <2>s, <2>c
      <4> QED
        BY <4>1, <4>2, <4>3
    <3> QED
      BY <3>1, <3>2
  <2>3. \A t \in Slots : ~pending'[t].in_use => pending'[t] = EmptySlot
    BY <1>a, <2>o, <2>s DEF BuffersInv
  <2>4. \A t \in Buffered' : /\ pool'[pending'[t].poolIdx] = kept'[t].body
                            /\ pending'[t].len = kept'[t].len /\ kept'[t].len > 0
    <3> TAKE t \in Buffered'
    <3>1. CASE t = s
      BY <3>1, <2>s, <1>n, <1>a DEF TypeOK
    <3>2. CASE t # s
      <4>1. t \in Buffered /\ t \in Slots
        BY <3>2, <1>3, <2>c
      <4>2. pool'[pending[t].poolIdx] = pool[pending[t].poolIdx]
        BY <3>2, <4>1, <2>b, <1>n, <1>a DEF TypeOK
      <4> QED
        BY <3>2, <4>1, <4>2, <2>o, <1>a DEF BuffersInv
    <3> QED
      BY <3>1, <3>2
  <2>5. \A t \in Slots \ Buffered' : kept'[t].len = 0
    BY <1>3, <2>o, <1>a DEF BuffersInv
  <2> QED
    BY <2>1, <2>2, <2>3, <2>4, <2>5 DEF BuffersInv
<1> QED
  BY <1>4, <1>5, <1>6 DEF CacheInv

\* A slot that ends without a buffer: freed, or in use for an empty chunk.
LEMMA UnbufferedKeeps ==
  ASSUME CacheInv, NEW s \in Slots, NEW busy \in BOOLEAN,
         NEW k \in Payloads \cup {Nothing}, k.len = 0,
         pending' = [pending EXCEPT ![s] = [in_use |-> busy, poolIdx |-> NoBuf, len |-> 0]],
         poolUsed' = UsedWithout(s), poolFree' = FreeWithout(s),
         pendingCount' = IF busy THEN CountWithout(s) + 1 ELSE CountWithout(s),
         kept' = [kept EXCEPT ![s] = k], pool' = pool, window' = window
  PROVE  CacheInv'
<1> USE PoolAssumption, ChunkFitsAssumption
<1>a. TypeOK /\ BuffersInv /\ CountsInv
  BY DEF CacheInv
<1>w. /\ UsedWithout(s) \in [Bufs -> BOOLEAN]
      /\ \A c \in Bufs : UsedWithout(s)[c] <=>
           \E t \in Buffered : t # s /\ pending[t].poolIdx = c
      /\ FreeWithout(s) = PoolSize - Cardinality(UsedOther(s))
      /\ IsFiniteSet(InUse \ {s})
      /\ CountWithout(s) = Cardinality(InUse \ {s})
  BY WithoutSlot
<1>1. Used' = UsedOther(s)
  BY DEF Used, UsedOther
<1>2. InUse' = IF busy THEN (InUse \ {s}) \cup {s} ELSE InUse \ {s}
  BY <1>a DEF InUse, TypeOK
<1>3. Buffered' = Buffered \ {s}
  BY <1>a DEF Buffered, TypeOK
<1>4. CountsInv'
  <2>1. Cardinality((InUse \ {s}) \cup {s}) = Cardinality(InUse \ {s}) + 1
    BY <1>w, FS_AddElement
  <2> QED
    BY <2>1, <1>1, <1>2, <1>w DEF CountsInv
<1>5. TypeOK'
  <2>1. Used' \in SUBSET Bufs /\ InUse' \in SUBSET Slots
    BY <1>1, <1>2 DEF UsedOther, InUse
  <2>2. Cardinality(InUse') \in 0..Cardinality(Slots) /\ PoolSize - Cardinality(Used') \in 0..PoolSize
    BY <2>1, CountsType
  <2>3. pendingCount' \in 0..Cardinality(Slots) /\ poolFree' \in 0..PoolSize
    BY <2>2, <1>4 DEF CountsInv
  <2>4. pending' \in [Slots -> [in_use : BOOLEAN, poolIdx : 0..PoolSize, len : 0..BufMax]]
    BY <1>a DEF TypeOK, NoBuf
  <2>5. kept' \in [Slots -> Payloads \cup {Nothing}]
    BY <1>a DEF TypeOK
  <2> QED
    BY <2>3, <2>4, <2>5, <1>a, <1>w DEF TypeOK
<1>6. BuffersInv'
  <2>o. \A t \in Slots : t # s => pending'[t] = pending[t] /\ kept'[t] = kept[t]
    BY <1>a DEF TypeOK
  <2>s. pending'[s] = [in_use |-> busy, poolIdx |-> NoBuf, len |-> 0] /\ kept'[s] = k
    BY <1>a DEF TypeOK
  <2>c. \A t \in Buffered : t \in Slots
    BY DEF Buffered
  <2>1. \A t, v \in Buffered' : pending'[t].poolIdx = pending'[v].poolIdx => t = v
    BY <1>3, <1>a, <2>o, <2>c DEF BuffersInv
  <2>2. \A c \in Bufs : poolUsed'[c] <=> \E t \in Buffered' : pending'[t].poolIdx = c
    BY <1>w, <1>3, <2>o, <2>c
  <2>3. \A t \in Slots : ~pending'[t].in_use => pending'[t] = EmptySlot
    <3> SUFFICES ASSUME NEW t \in Slots, ~pending'[t].in_use PROVE pending'[t] = EmptySlot
      OBVIOUS
    <3>1. CASE t = s
      <4>1. pending'[t] = [in_use |-> busy, poolIdx |-> NoBuf, len |-> 0] /\ ~busy
        BY <3>1, <2>s
      <4>2. busy = FALSE
        BY <4>1
      <4> QED
        BY <4>1, <4>2 DEF EmptySlot
    <3>2. CASE t # s
      BY <3>2, <1>a, <2>o DEF BuffersInv
    <3> QED
      BY <3>1, <3>2
  <2>4. \A t \in Buffered' : /\ pool'[pending'[t].poolIdx] = kept'[t].body
                            /\ pending'[t].len = kept'[t].len /\ kept'[t].len > 0
    BY <1>3, <1>a, <2>o, <2>c DEF BuffersInv
  <2>5. \A t \in Slots \ Buffered' : kept'[t].len = 0
    BY <1>3, <2>o, <2>s, <1>a DEF BuffersInv
  <2> QED
    BY <2>1, <2>2, <2>3, <2>4, <2>5 DEF BuffersInv
<1> QED
  BY <1>4, <1>5, <1>6 DEF CacheInv

\* After clearAll() the cache is as the constructor left it.
LEMMA ClearAllKeeps == CacheInv /\ ClearAll => CacheInv'
<1> SUFFICES ASSUME CacheInv, ClearAll PROVE CacheInv'
  OBVIOUS
<1> USE PoolAssumption, ChunkFitsAssumption DEF ClearAll
<1>1. Used' = {} /\ InUse' = {} /\ Buffered' = {}
  BY DEF Used, InUse, Buffered, EmptySlot
<1>2. Cardinality(Used') = 0 /\ Cardinality(InUse') = 0
  BY <1>1, FS_EmptySet
<1>3. Cardinality(Slots) \in Nat
  BY SlotsAssumption, FS_CardinalityType
<1>4. TypeOK'
  BY <1>3 DEF TypeOK, EmptySlot, NoBuf, Nothing, CacheInv
<1>5. BuffersInv'
  BY <1>1 DEF BuffersInv, Nothing, EmptySlot
<1>6. CountsInv'
  BY <1>2 DEF CountsInv
<1> QED
  BY <1>4, <1>5, <1>6 DEF CacheInv

\* Every operation of the cache keeps the inductive invariant.
LEMMA NextCache == CacheInv /\ [Next]_vars => CacheInv'
<1> SUFFICES ASSUME CacheInv, [Next]_vars PROVE CacheInv'
  OBVIOUS
<1>1. ASSUME NEW s \in Slots, NEW p \in Payloads, Insert(s, p) PROVE CacheInv'
  <2>1. /\ p.len \in 0..BufMax /\ (p.len > 0 => hasRoom)
        /\ kept' = [kept EXCEPT ![s] = p] /\ window' = window
    BY <1>1, ChunkFitsAssumption DEF Insert, Payloads
  <2>2. CASE p.len = 0
    <3>1. InsertEmpty(s)
      BY <1>1, <2>2 DEF Insert
    <3> QED
      BY <2>1, <2>2, <3>1, UnbufferedKeeps DEF InsertEmpty
  <2>3. CASE p.len > 0
    <3>1. FreeWithout(s) > 0 /\ \E b \in Bufs : ~UsedWithout(s)[b]
      BY <2>1, <2>3, RoomLeft
    <3>2. UsedWithout(s) \in [Bufs -> BOOLEAN]
      BY WithoutSlot
    <3>3. FirstFree(UsedWithout(s)) \in Bufs /\ ~UsedWithout(s)[FirstFree(UsedWithout(s))]
      BY <3>1, <3>2, LowestFree
    <3>4. InsertBuffered(s, p, FirstFree(UsedWithout(s)))
      BY <1>1, <2>1, <2>3, <3>1, ChunkFitsAssumption DEF Insert
    <3> QED
      BY <2>1, <2>3, <3>3, <3>4, InsertBufferedKeeps
  <2> QED
    BY <2>1, <2>2, <2>3, ChunkFitsAssumption
<1>2. ASSUME NEW s \in Slots, FreeBySeq(s) PROVE CacheInv'
  <2>1. Nothing.len = 0
    BY DEF Nothing
  <2> QED
    BY <1>2, <2>1, UnbufferedKeeps DEF FreeBySeq, EmptySlot
<1>3. ASSUME ClearAll PROVE CacheInv'
  BY <1>3, ClearAllKeeps
<1>4. ASSUME NEW w \in 0..(WindowMax + 1), SetWindow(w) PROVE CacheInv'
  BY <1>4, WindowAssumption
     DEF SetWindow, CacheInv, TypeOK, BuffersInv, CountsInv, Used, InUse, Buffered
<1>5. CASE UNCHANGED vars
  BY <1>5 DEF vars, CacheInv, TypeOK, BuffersInv, CountsInv, Used, InUse, Buffered
<1> QED
  BY <1>1, <1>2, <1>3, <1>4, <1>5 DEF Next

\* Slots with a buffer and buffers in use are as many: a slot's buffer is a
\* bijection between them.
LEMMA AsManyBuffers == CacheInv => Cardinality(Buffered) = Cardinality(Used)
<1> SUFFICES ASSUME CacheInv PROVE Cardinality(Buffered) = Cardinality(Used)
  OBVIOUS
<1> DEFINE f == [s \in Buffered |-> pending[s].poolIdx]
<1>1. \A s \in Buffered : pending[s].poolIdx \in Bufs
  BY PoolAssumption DEF Buffered, CacheInv, TypeOK, Bufs, NoBuf
<1>2. \A s \in Buffered : f[s] \in Used
  BY <1>1 DEF CacheInv, BuffersInv, Used
<1>3. \A s, t \in Buffered : f[s] = f[t] => s = t
  BY DEF CacheInv, BuffersInv
<1>4. \A b \in Used : \E s \in Buffered : f[s] = b
  BY DEF CacheInv, BuffersInv, Used
<1>5. f \in Bijection(Buffered, Used)
  BY <1>2, <1>3, <1>4 DEF Bijection, Injection, Surjection, IsInjective
<1>6. ExistsBijection(Buffered, Used)
  BY <1>5 DEF ExistsBijection
<1> QED
  BY <1>6, FiniteSets_, FS_Bijection

-----------------------------------------------------------------------------
\* The inductive invariant holds in every reachable state of the cache.
THEOREM CacheInvariant == Spec => []CacheInv
  BY InitCache, NextCache, PTL DEF Spec

\* The fields of the cache keep their types: poolIdx never leaves the pool
\* and neither counter ever wraps below zero or above its array.
THEOREM CacheTypes == Spec => []TypeOK
<1>1. CacheInv => TypeOK
  BY DEF CacheInv
<1> QED
  BY <1>1, CacheInvariant, PTL

\* ArqCache::assertInvariants() never fires: the counters admission relies
\* on agree with the slots and the pool after any sequence of operations.
THEOREM CountersNeverDrift == Spec => []assertInvariants
<1>1. CacheInv => assertInvariants
  BY AsManyBuffers DEF CacheInv, BuffersInv, CountsInv, assertInvariants
<1> QED
  BY <1>1, CacheInvariant, PTL

\* A retransmission sends the payload that was inserted under its number and
\* nothing else, for any interleaving of inserts, overwrites and frees.
THEOREM RetransmitsTheOriginal == Spec => []RetxSendsWhatWasInserted
<1>1. ASSUME CacheInv, NEW s \in Slots
      PROVE  peekForRetx(s) = IF kept[s].len > 0 THEN kept[s] ELSE Nothing
  <2>1. CASE s \in Buffered
    <3>1. /\ pending[s].in_use /\ pending[s].poolIdx \in Bufs
          /\ pool[pending[s].poolIdx] = kept[s].body
          /\ pending[s].len = kept[s].len /\ kept[s].len > 0
      BY <1>1, <2>1, PoolAssumption DEF CacheInv, BuffersInv, Buffered, TypeOK, Bufs, NoBuf
    <3>2. kept[s] \in Payloads
      BY <1>1, <3>1 DEF CacheInv, TypeOK, Nothing
    <3>3. kept[s] = [body |-> kept[s].body, len |-> kept[s].len]
      BY <3>2 DEF Payloads
    <3>4. pending[s].len # 0
      BY <3>1
    <3> QED
      BY <3>1, <3>3, <3>4 DEF peekForRetx
  <2>2. CASE s \notin Buffered
    <3>1. ~(pending[s].in_use /\ pending[s].poolIdx \in Bufs)
      BY <2>2, PoolAssumption DEF Buffered, Bufs, NoBuf
    <3>2. kept[s].len = 0
      BY <1>1, <2>2 DEF CacheInv, BuffersInv
    <3>3. ~(kept[s].len > 0)
      BY <3>2
    <3> QED
      BY <3>1, <3>3 DEF peekForRetx
  <2> QED
    BY <2>1, <2>2
<1>2. CacheInv => RetxSendsWhatWasInserted
  BY <1>1 DEF RetxSendsWhatWasInserted
<1> QED
  BY <1>2, CacheInvariant, PTL

\* A chunk let through by hasRoom() is always cached, so a chunk that was
\* sent can always be sent again.
THEOREM AdmittedIsCached == Spec => []RoomIsReal
<1>1. CacheInv => RoomIsReal
  BY RoomLeft DEF RoomIsReal
<1> QED
  BY <1>1, CacheInvariant, PTL
=============================================================================
