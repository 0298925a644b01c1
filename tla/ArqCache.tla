------------------------------ MODULE ArqCache ------------------------------
(***************************************************************************)
(* The retransmit cache of the sender, class ArqCache                      *)
(* (src/src/al/link/arq/ArqCache.{h,cpp}).  A slot per wire sequence       *)
(* number refers to one buffer of a fixed pool; two counters shadow the    *)
(* slots and the pool so that admission (hasRoom, freeRoom) is cheap.      *)
(* Every operation runs under the link lock, so each one is one action.    *)
(***************************************************************************)
EXTENDS Naturals, FiniteSets

CONSTANTS
  Slots,       \* the wire sequence numbers that index pending_[]
  PoolSize,    \* POOL_SIZE, buffers in the pool
  BufMax,      \* POOL_BUF_MAX, bytes in one buffer
  WindowMax,   \* windowMax_, the pipeline window given to the constructor
  Bodies,      \* the contents a chunk can have
  NoBody,      \* the absence of contents
  MaxLen       \* the longest chunk the link hands to insert()

ASSUME SlotsAssumption == IsFiniteSet(Slots)
ASSUME PoolAssumption == PoolSize \in Nat \ {0}
ASSUME BodyAssumption == NoBody \notin Bodies
ASSUME WindowAssumption == WindowMax \in Nat \ {0}
\* POOL_BUF_MAX covers a full MSG_HDR + MAX_CHUNK frame (static_assert in
\* ArqCache.h), so no chunk of the link is refused for its length.
ASSUME ChunkFitsAssumption == BufMax \in Nat /\ MaxLen \in 0..BufMax

Bufs == 0..(PoolSize - 1)
NoBuf == PoolSize             \* poolIdx 0xFF: the slot has no buffer
Payloads == [body : Bodies, len : 0..MaxLen]
Nothing == [body |-> NoBody, len |-> 0]

VARIABLES
  pending,       \* pending_[]: slot -> [in_use, poolIdx, len]
  pendingCount,  \* pendingCount_
  pool,          \* pool_[]: buffer -> the bytes in it
  poolUsed,      \* poolUsed_[]
  poolFree,      \* poolFree_
  window,        \* window_
  kept           \* history: the payload last inserted and not yet freed

vars == <<pending, pendingCount, pool, poolUsed, poolFree, window, kept>>

EmptySlot == [in_use |-> FALSE, poolIdx |-> NoBuf, len |-> 0]

Init ==
  /\ pending = [s \in Slots |-> EmptySlot]
  /\ pendingCount = 0
  /\ pool \in [Bufs -> Bodies]
  /\ poolUsed = [b \in Bufs |-> FALSE]
  /\ poolFree = PoolSize
  /\ window = WindowMax
  /\ kept = [s \in Slots |-> Nothing]

-----------------------------------------------------------------------------
hasRoom == pendingCount < Cardinality(Slots) /\ poolFree > 0

freeRoom ==
  LET slots == Cardinality(Slots) - pendingCount
  IN  IF slots < poolFree THEN slots ELSE poolFree

\* peekForRetx: the bytes a retransmission of s would put on the wire,
\* Nothing on a cache miss.
peekForRetx(s) ==
  IF pending[s].in_use /\ pending[s].poolIdx \in Bufs /\ pending[s].len # 0
    THEN [body |-> pool[pending[s].poolIdx], len |-> pending[s].len]
    ELSE Nothing

\* Mutants: a buffer or the count is forgotten when a slot is given up.
UsedKept(s) == poolUsed
CountKept(s) == pendingCount

\* The bookkeeping once the buffer of slot s, if it has one, is back in the
\* pool: the part insert() and freeBySeq() share.
UsedWithout(s) ==
  IF pending[s].in_use /\ pending[s].poolIdx \in Bufs
    THEN [poolUsed EXCEPT ![pending[s].poolIdx] = FALSE] ELSE poolUsed
FreeWithout(s) ==
  IF pending[s].in_use /\ pending[s].poolIdx \in Bufs /\ poolFree < PoolSize
    THEN poolFree + 1 ELSE poolFree
CountWithout(s) ==
  IF pending[s].in_use /\ pendingCount > 0
    THEN pendingCount - 1 ELSE pendingCount

\* Mutant: the scan takes the first buffer, used or not.
FirstAny(u) == 0

\* The lowest free buffer of u.
FirstFree(u) ==
  CHOOSE b \in Bufs : ~u[b] /\ \A c \in Bufs : ~u[c] => b <= c

\* insert() of a chunk that takes a pool buffer.
InsertBuffered(s, p, b) ==
  /\ pending' = [pending EXCEPT ![s] =
                   [in_use |-> TRUE, poolIdx |-> b, len |-> p.len]]
  /\ pool' = [pool EXCEPT ![b] = p.body]
  /\ poolUsed' = [UsedWithout(s) EXCEPT ![b] = TRUE]
  /\ poolFree' = FreeWithout(s) - 1
  /\ pendingCount' = CountWithout(s) + 1

\* insert() of an empty chunk: the slot is in use without a buffer.
InsertEmpty(s) ==
  /\ pending' = [pending EXCEPT ![s] =
                   [in_use |-> TRUE, poolIdx |-> NoBuf, len |-> 0]]
  /\ poolUsed' = UsedWithout(s)
  /\ poolFree' = FreeWithout(s)
  /\ pendingCount' = CountWithout(s) + 1
  /\ UNCHANGED pool

\* insert() returning early (chunk too long, pool exhausted, bookkeeping
\* drift): the old buffer is gone, nothing new is stored, and a slot that was
\* in use stays marked in use.
InsertSkipped(s) ==
  /\ pending' = [pending EXCEPT ![s] =
                   [in_use |-> @.in_use, poolIdx |-> NoBuf, len |-> 0]]
  /\ poolUsed' = UsedWithout(s)
  /\ poolFree' = FreeWithout(s)
  /\ pendingCount' = CountWithout(s)
  /\ UNCHANGED pool

\* insert(seq, payload, payloadLen).  sendCobsFrameAcked_unlocked asks
\* hasRoom() before it lets a non-empty chunk through.
Insert(s, p) ==
  /\ p.len > 0 => hasRoom
  /\ \/ p.len = 0 /\ InsertEmpty(s)
     \/ /\ p.len > 0
        /\ IF \/ p.len > BufMax
              \/ FreeWithout(s) = 0
              \/ \A b \in Bufs : UsedWithout(s)[b]
             THEN InsertSkipped(s)
             ELSE InsertBuffered(s, p, FirstFree(UsedWithout(s)))
  /\ kept' = [kept EXCEPT ![s] = p]
  /\ UNCHANGED window

\* freeBySeq(seq, cause).  The cause is only logged.
FreeBySeq(s) ==
  /\ pending[s].in_use
  /\ pending' = [pending EXCEPT ![s] = EmptySlot]
  /\ poolUsed' = UsedWithout(s)
  /\ poolFree' = FreeWithout(s)
  /\ pendingCount' = CountWithout(s)
  /\ kept' = [kept EXCEPT ![s] = Nothing]
  /\ UNCHANGED <<pool, window>>

\* clearAll(), called by every reset_unlocked().
ClearAll ==
  /\ pending' = [s \in Slots |-> EmptySlot]
  /\ poolUsed' = [b \in Bufs |-> FALSE]
  /\ pendingCount' = 0
  /\ poolFree' = PoolSize
  /\ kept' = [s \in Slots |-> Nothing]
  /\ UNCHANGED <<pool, window>>

\* setWindow(w): begin() shrinks the window to what the TX ring holds.
SetWindow(w) ==
  /\ window' = IF w < 1 THEN 1 ELSE IF w > WindowMax THEN WindowMax ELSE w
  /\ UNCHANGED <<pending, pendingCount, pool, poolUsed, poolFree, kept>>

Next ==
  \/ \E s \in Slots, p \in Payloads : Insert(s, p)
  \/ \E s \in Slots : FreeBySeq(s)
  \/ ClearAll
  \/ \E w \in 0..(WindowMax + 1) : SetWindow(w)

Spec == Init /\ [][Next]_vars

-----------------------------------------------------------------------------
Used == {b \in Bufs : poolUsed[b]}
InUse == {s \in Slots : pending[s].in_use}
Buffered == {s \in Slots : pending[s].in_use /\ pending[s].poolIdx # NoBuf}

\* The fields of ArqCache.h keep their types; poolIdx names a buffer or none.
TypeOK ==
  /\ pending \in [Slots -> [in_use : BOOLEAN, poolIdx : 0..PoolSize, len : 0..BufMax]]
  /\ pendingCount \in 0..Cardinality(Slots)
  /\ pool \in [Bufs -> Bodies]
  /\ poolUsed \in [Bufs -> BOOLEAN]
  /\ poolFree \in 0..PoolSize
  /\ window \in 1..WindowMax
  /\ kept \in [Slots -> Payloads \cup {Nothing}]

\* ArqCache::assertInvariants(): the slots not in use are blank, and the two
\* counters and the pool flags agree with a scan of the slots.  The counters
\* are what admission (hasRoom, freeRoom) believes; a drift makes the link
\* refuse chunks for good or accept chunks it cannot retransmit.
assertInvariants ==
  /\ \A s \in Slots : ~pending[s].in_use => pending[s] = EmptySlot
  /\ pendingCount = Cardinality(InUse)
  /\ Cardinality(Buffered) = Cardinality(Used)
  /\ poolFree = PoolSize - Cardinality(Used)

\* What a retransmission of a pending chunk sends is the payload that was
\* inserted for it, however inserts, overwrites of a slot and frees follow
\* each other: no buffer is shared, reused early or lost (peekForRetx).
RetxSendsWhatWasInserted == \A s \in Slots : peekForRetx(s) = 
  IF kept[s].len > 0 THEN kept[s] ELSE Nothing

\* insert() under hasRoom() always caches the chunk: "pool exhausted" and
\* "bookkeeping drift" are unreachable from sendCobsFrameAcked_unlocked, for
\* a fresh slot and for one that is overwritten.
RoomIsReal == 
  hasRoom => \A s \in Slots : 
    /\ FreeWithout(s) > 0 
    /\ \E b \in Bufs : ~UsedWithout(s)[b]

-----------------------------------------------------------------------------
(* The inductive invariant                                                 *)

\* A buffer is marked used exactly when one slot refers to it, no two slots
\* share a buffer, and the buffer holds what was inserted for that slot.
BuffersInv ==
  /\ \A s, t \in Buffered : pending[s].poolIdx = pending[t].poolIdx => s = t
  /\ \A b \in Bufs : poolUsed[b] <=> \E s \in Buffered : pending[s].poolIdx = b
  /\ \A s \in Slots : ~pending[s].in_use => pending[s] = EmptySlot
  /\ \A s \in Buffered : /\ pool[pending[s].poolIdx] = kept[s].body
                         /\ pending[s].len = kept[s].len /\ kept[s].len > 0
  /\ \A s \in Slots \ Buffered : kept[s].len = 0

CountsInv ==
  /\ pendingCount = Cardinality(InUse)
  /\ poolFree = PoolSize - Cardinality(Used)

CacheInv == TypeOK /\ BuffersInv /\ CountsInv
=============================================================================
