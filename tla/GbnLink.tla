------------------------------- MODULE GbnLink -------------------------------
(***************************************************************************)
(* One direction of an ASYNC link: the go-back-N sender of one board       *)
(* (Link::sendMsg, onAck, onNak, sweepRetx), the receiver of the other     *)
(* (Link::onPayload) and the UART lines between them.                      *)
(*                                                                         *)
(* A handler runs under hw.lock() from its first to its last statement, so *)
(* it is one action; sendMsg releases the lock between chunks, so it is    *)
(* one action per chunk.  A line is a FIFO of frames: the TX ring, the     *)
(* wire and the peer's FIFO.  A frame may be corrupted, which the CRC      *)
(* turns into a loss; frames are never reordered.                          *)
(*                                                                         *)
(* Time is abstracted: a timeout, a dedup window or a hold-NAK interval    *)
(* may have elapsed or not whenever the code asks.                         *)
(*                                                                         *)
(* A chunk is known by its position in the session (history variable       *)
(* sent); frames, the retransmit cache and the app buffer carry it in      *)
(* place of the bytes.                                                     *)
(***************************************************************************)
EXTENDS SeqSpace, FiniteSets, Sequences

CONSTANTS
  AdmitWindow,  \* arqCache_.window(): PIPELINE_WINDOW or less, set by begin()
  PoolSize,     \* ArqCache::POOL_SIZE
  BurstMax,     \* cfg.gbnResendBurstMax
  RingCap,      \* frames the TX ring of either side holds
  AppCap,       \* bytes the app buffer holds, in units of the header chunk
  BodyLen,      \* bytes of a body chunk, same unit (a header chunk has 1)
  NoChunk,      \* an empty cache slot
  rIsMaster,    \* isMaster of the receiver's board
  MaxSent,      \* bound: chunks accepted in one session
  MaxLoss,      \* bound: frames corrupted on the lines
  MaxSessions   \* bound: sessions

ASSUME LinkAssumption ==
  /\ AdmitWindow \in 1..PIPELINE_WINDOW
  /\ PoolSize \in Nat /\ BurstMax \in Nat /\ RingCap \in Nat
  /\ BodyLen \in Nat \ {0} /\ AppCap \in Nat /\ AppCap >= BodyLen
  /\ MaxSent \in Nat /\ MaxLoss \in Nat /\ MaxSessions \in Nat
  /\ NoChunk \notin [idx : Nat, len : Nat]
  /\ rIsMaster \in BOOLEAN

Chunks == [idx : Nat, len : Nat]
NoHold == [seq |-> -1, sameLap |-> FALSE, free |-> 0]

VARIABLES
  (* the sender *)
  sState,      \* state: "OK" or "SWP"
  txSeq,       \* txSeq
  gbnActive,   \* arq_.gbnActive()
  gbnBase,     \* arq_.gbnBase()
  pending,     \* the entries of arq_.pending_[] that are set
  cache,       \* arqCache_: sequence number -> chunk or NoChunk
  job,         \* chunks the running sendMsg() has still to send
  (* the receiver *)
  rState,      \* state: "OK" or "SWP"
  rxSeq, rxSeqSet,
  hold,        \* holdNakSeq_, whether holdNakWrap_ is still the current lap,
               \* holdNakFreeAtSet_; NoHold when holdNakActive_ is false
  appBuf,      \* the app buffer: the chunks in it, oldest first
  appFree,     \* hw.appBufFree()
  (* the lines *)
  data,        \* sender to receiver: data frames
  ctrl,        \* receiver to sender: ACK and NAK frames
  (* history and bounds *)
  session,     \* sessions begun
  joined,      \* the sides that have locked in this session
  rLocks,      \* sessions the receiver has locked in: wasEverOk_ is rLocks > 0
  sent,        \* chunks accepted in this session
  freed,       \* chunks the sender has released as delivered
  cursor,      \* one past the chunk the receiver delivered last
  delivered,   \* chunks pushed to the app buffer in this session
  losses       \* frames corrupted so far

sender == <<sState, txSeq, gbnActive, gbnBase, pending, cache, job>>
receiver == <<rState, rxSeq, rxSeqSet, hold, appBuf, appFree>>
sessions == <<session, joined, rLocks>>
history == <<sent, freed, cursor, delivered>>
vars == <<sender, receiver, data, ctrl, sessions, history, losses>>

EmptyCache == [s \in Seqs |-> NoChunk]

\* Both boards boot into the sweep.  kickoff() runs resetSeq_unlocked on the
\* slave only, before the link was ever up, which anchors an ASYNC receiver at
\* sequence 0.  The master's kickoff() calls reset_unlocked, which leaves the
\* sequence state alone unless it ends an OK session: rxSeqSet keeps its
\* default, and the master starts without an expectation.
Init ==
  /\ sState = "SWP" /\ txSeq = 0 /\ gbnActive = FALSE /\ gbnBase = 0
  /\ pending = {} /\ cache = EmptyCache /\ job = 0
  /\ rState = "SWP"
  /\ rxSeqSet = ~rIsMaster
  /\ rxSeq = IF rIsMaster THEN 0 ELSE COBS_SEQ_SPACE - 1
  /\ hold = NoHold /\ appBuf = <<>> /\ appFree = AppCap
  /\ data = <<>> /\ ctrl = <<>>
  /\ session = 0 /\ joined = {} /\ rLocks = 0
  /\ sent = 0 /\ freed = 0 /\ cursor = 0 /\ delivered = {}
  /\ losses = 0

-----------------------------------------------------------------------------
(* The sender                                                              *)

CacheUsed == Cardinality({s \in Seqs : cache[s] # NoChunk})
hasRoom == CacheUsed < PoolSize
pendingCount == Cardinality(pending)

\* sendCobsFrameAcked_unlocked: the chunk goes on the line and into the
\* cache; an idle pipeline starts over at this chunk.
SendCobsFrameAcked(len) ==
  /\ hasRoom
  /\ Len(data) < RingCap
  /\ data' = Append(data, [seq |-> txSeq, idx |-> sent, len |-> len])
  /\ txSeq' = NextSeq(txSeq)
  /\ gbnBase' = IF gbnActive THEN gbnBase ELSE txSeq
  /\ gbnActive' = TRUE
  /\ pending' = pending \cup {budgetIdx(txSeq)}
  /\ cache' = [cache EXCEPT ![txSeq] = [idx |-> sent, len |-> len]]
  /\ sent' = sent + 1

\* sendMsg of a message of n chunks, up to and including its first frame: a
\* header, or the header merged with a short message.  Admission counts the
\* whole message once.
SendMsg(n) ==
  /\ sState = "OK" /\ job = 0
  /\ sent + n <= MaxSent
  /\ pendingCount + n <= AdmitWindow
  /\ CacheUsed + n <= PoolSize
  /\ SendCobsFrameAcked(1)
  /\ job' = n - 1
  /\ UNCHANGED <<sState, receiver, ctrl, sessions, freed, cursor, delivered, losses>>

\* A further chunk of the message, after the unlocked gap between chunks.
SendChunk ==
  /\ sState = "OK" /\ job > 0
  /\ SendCobsFrameAcked(BodyLen)
  /\ job' = job - 1
  /\ UNCHANGED <<sState, receiver, ctrl, sessions, freed, cursor, delivered, losses>>

\* sendMsg gives up: the link went down, the cache or the ring is full.
AbortMsg ==
  /\ job > 0
  /\ sState # "OK" \/ ~hasRoom \/ Len(data) >= RingCap
  /\ job' = 0
  /\ UNCHANGED <<sState, txSeq, gbnActive, gbnBase, pending, cache,
                 receiver, data, ctrl, sessions, history, losses>>

\* Mutants: a walk frees one chunk more, or leaves the last one in the cache.
PendingAfterFar(n) == pending \ {budgetIdx(Ahead(gbnBase, k)) : k \in 0..n}
CacheAfterFar(n) ==
  [s \in Seqs |-> IF \E k \in 0..n : s = Ahead(gbnBase, k)
                    THEN NoChunk ELSE cache[s]]

\* The walk from the base over n sequence numbers: onAcked() and freeBySeq()
\* on each.
PendingAfter(n) == pending \ {budgetIdx(Ahead(gbnBase, k)) : k \in 0..(n - 1)}
CacheAfter(n) ==
  [s \in Seqs |-> IF \E k \in 0..(n - 1) : s = Ahead(gbnBase, k)
                    THEN NoChunk ELSE cache[s]]

\* onAck: an ACK releases everything up to the acknowledged chunk.
OnAck ==
  /\ ctrl # <<>> /\ Head(ctrl).type = "ACK"
  /\ ctrl' = Tail(ctrl)
  /\ LET s == Head(ctrl).seq
         i == idxOf(gbnBase, s)
     IN  IF sState # "OK" \/ budgetIdx(s) \notin pending \/ i < 0
           THEN UNCHANGED <<sender, history>>
           ELSE /\ pending' = PendingAfter(i + 1)
                /\ cache' = CacheAfter(i + 1)
                /\ gbnBase' = NextSeq(s)
                /\ gbnActive' = (pending' # {})
                /\ freed' = freed + i + 1
                /\ UNCHANGED <<sState, txSeq, job, sent, cursor, delivered>>
  /\ UNCHANGED <<receiver, data, sessions, losses>>

\* The i-th smallest element of K.
Nth(K, i) == CHOOSE k \in K : Cardinality({j \in K : j < k}) = i - 1

\* Mutant: the burst starts after the base.
ResendAfterBase(base, pend, cch) ==
  LET k == Ahead(base, 1)
  IN  IF Cardinality(pend) > 1 /\ cch[k] # NoChunk /\ Len(data) < RingCap
        THEN Append(data, [seq |-> k, idx |-> cch[k].idx, len |-> cch[k].len])
        ELSE data

\* gbnResendWindow_unlocked from base: the first BurstMax pending chunks that
\* are in the cache, as far as the TX ring has room.
ResendWindow(base, pend, cch) ==
  LET burst == IF Cardinality(pend) < BurstMax THEN Cardinality(pend) ELSE BurstMax
      hits == {k \in 0..(burst - 1) : cch[Ahead(base, k)] # NoChunk}
      room == RingCap - Len(data)
      n == IF Cardinality(hits) < room THEN Cardinality(hits) ELSE room
      Frame(s) == [seq |-> s, idx |-> cch[s].idx, len |-> cch[s].len]
  IN  data \o [i \in 1..n |-> Frame(Ahead(base, Nth(hits, i)))]

\* onNak: a NAK for chunk m says that everything before m arrived; the base
\* moves to m, and if m is the base it is sent again with what follows it.
\* The resend is suppressed only for a base that was already the base: inside
\* the dedup window of the last resend, or after more than maxRetx NAKs.
OnNak ==
  /\ ctrl # <<>> /\ Head(ctrl).type = "NAK"
  /\ ctrl' = Tail(ctrl)
  /\ LET s == Head(ctrl).seq
         i == idxOf(gbnBase, s)
         n == IF gbnActive /\ i > 0 THEN i ELSE 0
         base == IF n > 0 THEN s ELSE gbnBase
     IN  IF sState # "OK" \/ budgetIdx(s) \notin pending
           THEN UNCHANGED <<sender, data, freed>>
           ELSE /\ pending' = PendingAfter(n)
                /\ cache' = CacheAfter(n)
                /\ gbnBase' = base
                /\ freed' = freed + n
                /\ \/ /\ gbnActive /\ s = base
                      /\ data' = ResendWindow(base, pending', cache')
                   \/ /\ ~gbnActive \/ s = gbnBase \/ s # base
                      /\ UNCHANGED data
                /\ UNCHANGED <<sState, txSeq, gbnActive, job>>
  /\ UNCHANGED <<receiver, sessions, sent, cursor, delivered, losses>>

\* sweepRetx_unlocked: the retransmit timeout of the base.
SweepRetx ==
  /\ sState = "OK" /\ gbnActive
  /\ data' = ResendWindow(gbnBase, pending, cache)
  /\ UNCHANGED <<sender, receiver, ctrl, sessions, history, losses>>

-----------------------------------------------------------------------------
(* The receiver                                                            *)

\* sendAckFrame_unlocked, sendNakFrame_unlocked: a full TX ring drops the
\* frame.  "upto" is history: the chunks below it are claimed as received.
Reply(type, s, upto) ==
  ctrl' = IF Len(ctrl) < RingCap
            THEN Append(ctrl, [type |-> type, seq |-> s, upto |-> upto])
            ELSE ctrl

frame == Head(data)
\* Mutant: the NAK names the frame that arrived, not the missing one.
reorderArrivedSeq == frame.seq
reorderExpectedSeq == NextSeq(rxSeq)

\* onPayload's common part: the frame is consumed in state OK.
Receive(class) ==
  /\ data # <<>> /\ rState = "OK"
  /\ classifyGap(frame.seq, rxSeq, rxSeqSet) = class
  /\ data' = Tail(data)
  /\ UNCHANGED <<sender, sessions, sent, freed, losses>>

\* A data frame is ignored while the receiver sweeps.
ReceiveSweeping ==
  /\ data # <<>> /\ rState # "OK"
  /\ data' = Tail(data)
  /\ UNCHANGED <<sender, receiver, ctrl, sessions, history, losses>>

\* A duplicate is acknowledged again; one more than two windows back is not.
ReceiveStale ==
  /\ Receive("Stale")
  /\ IF genuineDup(frame.seq, rxSeq)
       THEN Reply("ACK", frame.seq, frame.idx + 1)
       ELSE UNCHANGED ctrl
  /\ UNCHANGED <<receiver, cursor, delivered>>

\* A frame after a gap is dropped; the expected one is NAKed unless the
\* receiver itself is holding it back.
ReceiveGap ==
  /\ Receive("Gap")
  /\ IF hold # NoHold /\ hold.seq = reorderExpectedSeq /\ hold.sameLap
       THEN UNCHANGED ctrl
       ELSE Reply("NAK", reorderExpectedSeq, cursor)
  /\ UNCHANGED <<receiver, cursor, delivered>>

freshHold == hold = NoHold \/ hold.seq # frame.seq \/ ~hold.sameLap

\* The expected frame does not fit the app buffer: nothing is written, the
\* cursor stays, and the NAK is repeated only when the app has drained
\* something or the liveness interval is over.
ReceiveHeld ==
  /\ Receive("Forward")
  /\ appFree < frame.len
  /\ \/ /\ freshHold \/ appFree > hold.free
        /\ hold' = [seq |-> frame.seq, sameLap |-> TRUE, free |-> appFree]
        /\ Reply("NAK", frame.seq, frame.idx)
     \/ /\ ~freshHold /\ appFree <= hold.free
        /\ \/ Reply("NAK", frame.seq, frame.idx)
           \/ UNCHANGED ctrl
        /\ UNCHANGED hold
  /\ UNCHANGED <<rState, rxSeq, rxSeqSet, appBuf, appFree, cursor, delivered>>

\* rxSeqWrap_ is incremented: the frame starts a new lap.
NewLap == rxSeqSet /\ frame.seq < rxSeq /\ rxSeq - frame.seq > COBS_SEQ_SPACE \div 2

\* The expected frame is pushed to the app buffer and acknowledged.
ReceiveForward ==
  /\ Receive("Forward")
  /\ appFree >= frame.len
  /\ appBuf' = Append(appBuf, [idx |-> frame.idx, len |-> frame.len])
  /\ appFree' = appFree - frame.len
  /\ hold' = IF hold = NoHold \/ (hold.seq = frame.seq /\ hold.sameLap)
               THEN NoHold
               ELSE [hold EXCEPT !.sameLap = @ /\ ~NewLap]
  /\ rxSeq' = frame.seq /\ rxSeqSet' = TRUE
  /\ Reply("ACK", frame.seq, frame.idx + 1)
  /\ cursor' = frame.idx + 1
  /\ delivered' = delivered \cup {frame.idx}
  /\ UNCHANGED rState

\* recvMsg takes a chunk's bytes out of the app buffer.
AppRead ==
  /\ appBuf # <<>>
  /\ appBuf' = Tail(appBuf)
  /\ appFree' = appFree + Head(appBuf).len
  /\ UNCHANGED <<sender, rState, rxSeq, rxSeqSet, hold, data, ctrl,
                 sessions, history, losses>>

-----------------------------------------------------------------------------
(* Sessions and the lines                                                  *)

\* A line is left with what was already transmitted: discardTx().
Truncated(line) == {SubSeq(line, 1, k) : k \in 0..Len(line)}

\* reset_unlocked on the sender's board, for whatever reason: the window is
\* wiped, and sequence numbers start over.
SenderReset ==
  /\ sState = "OK"
  /\ sState' = "SWP"
  /\ txSeq' = 0 /\ gbnActive' = FALSE /\ gbnBase' = 0
  /\ pending' = {} /\ cache' = EmptyCache
  /\ data' \in Truncated(data)
  /\ UNCHANGED <<job, receiver, ctrl, sessions, history, losses>>

\* reset_unlocked on the receiver's board.  The link has been up, so
\* resetSeq_unlocked leaves the receiver without an expectation.
ReceiverReset ==
  /\ rState = "OK"
  /\ rState' = "SWP"
  /\ rxSeqSet' = FALSE /\ rxSeq' = 0
  /\ hold' = NoHold /\ appBuf' = <<>> /\ appFree' = AppCap
  /\ ctrl' \in Truncated(ctrl)
  /\ UNCHANGED <<sender, data, sessions, history, losses>>

\* The first of the two to lock a new session.  Both swept, and the sweep's
\* PING and PONG frames pushed out what the old session left on the lines.
NewSession(side) ==
  /\ sState = "SWP" /\ rState = "SWP"
  /\ data = <<>> /\ ctrl = <<>>
  /\ session < MaxSessions
  /\ session' = session + 1 /\ joined' = {side}
  /\ sent' = 0 /\ freed' = 0 /\ cursor' = 0 /\ delivered' = {}

\* The second one, while the first is still up.
JoinSession(side, otherState) ==
  /\ side \notin joined /\ joined # {} /\ otherState = "OK"
  /\ joined' = joined \cup {side}
  /\ UNCHANGED <<session, history>>

\* lockOk_unlocked on the sender's board.
SenderLock ==
  /\ sState = "SWP"
  /\ NewSession("sender") \/ JoinSession("sender", rState)
  /\ sState' = "OK"
  /\ UNCHANGED <<txSeq, gbnActive, gbnBase, pending, cache, job, receiver,
                 data, ctrl, rLocks, losses>>

\* lockOk_unlocked on the receiver's board; it clears the app buffer.
ReceiverLock ==
  /\ rState = "SWP"
  /\ NewSession("receiver") \/ JoinSession("receiver", sState)
  /\ rState' = "OK"
  /\ appBuf' = <<>> /\ appFree' = AppCap
  /\ rLocks' = rLocks + 1
  /\ UNCHANGED <<sender, rxSeq, rxSeqSet, hold, data, ctrl, losses>>

\* A frame fails its CRC and is dropped by the framer.
LoseData ==
  /\ data # <<>> /\ losses < MaxLoss
  /\ data' = Tail(data) /\ losses' = losses + 1
  /\ UNCHANGED <<sender, receiver, ctrl, sessions, history>>

LoseCtrl ==
  /\ ctrl # <<>> /\ losses < MaxLoss
  /\ ctrl' = Tail(ctrl) /\ losses' = losses + 1
  /\ UNCHANGED <<sender, receiver, data, sessions, history>>

SenderNext ==
  \/ \E n \in 1..AdmitWindow : SendMsg(n)
  \/ SendChunk
  \/ AbortMsg
  \/ OnAck
  \/ OnNak
  \/ SweepRetx

ReceiverNext ==
  \/ ReceiveSweeping
  \/ ReceiveStale
  \/ ReceiveGap
  \/ ReceiveHeld
  \/ ReceiveForward
  \/ AppRead

SessionNext ==
  \/ SenderReset
  \/ ReceiverReset
  \/ SenderLock
  \/ ReceiverLock

Next == SenderNext \/ ReceiverNext \/ SessionNext \/ LoseData \/ LoseCtrl

Spec == Init /\ [][Next]_vars

\* The UART task handles every frame that arrives, the OK timer ticks as long
\* as chunks are in flight, sendMsg runs to its end, and the app keeps
\* reading.  Nothing is assumed of losses, resets or new messages.
Fairness ==
  /\ WF_vars(OnAck \/ OnNak)
  /\ WF_vars(SweepRetx)
  /\ WF_vars(SendChunk \/ AbortMsg)
  /\ WF_vars(ReceiveSweeping \/ ReceiveStale \/ ReceiveGap \/ ReceiveHeld
             \/ ReceiveForward)
  /\ WF_vars(AppRead)

FairSpec == Spec /\ Fairness

-----------------------------------------------------------------------------
DataFrames == [seq : Seqs, idx : Nat, len : Nat]
CtrlFrames == [type : {"ACK", "NAK"}, seq : Seqs, upto : Nat]

\* The state variables have the types of the fields they stand for.
TypeOK ==
  /\ sState \in {"OK", "SWP"} /\ rState \in {"OK", "SWP"}
  /\ txSeq \in Seqs /\ gbnBase \in Seqs /\ gbnActive \in BOOLEAN
  /\ pending \subseteq BudgetSlots
  /\ cache \in [Seqs -> Chunks \cup {NoChunk}]
  /\ job \in 0..(AdmitWindow - 1)
  /\ rxSeq \in Seqs /\ rxSeqSet \in BOOLEAN
  /\ hold \in [seq : Seqs \cup {-1}, sameLap : BOOLEAN, free : Int]
  /\ appBuf \in Seq(Chunks) /\ appFree \in Int
  /\ data \in Seq(DataFrames) /\ ctrl \in Seq(CtrlFrames)
  /\ session \in Nat /\ joined \subseteq {"sender", "receiver"} /\ rLocks \in Nat
  /\ sent \in Nat /\ freed \in Nat /\ cursor \in Nat
  /\ delivered \subseteq Nat /\ losses \in Nat

\* What waits in the app buffer is a run of consecutive chunks that ends at
\* the one delivered last: onPayload never delivers a chunk twice, out of
\* order or with a hole inside a session, whatever is lost, repeated or held
\* back, and however sequence numbers wrap.
DeliveredInOrder ==
  \A i \in 1..Len(appBuf) : appBuf[i].idx = cursor - Len(appBuf) + i - 1

\* The sender never releases a chunk (cumulative ACK or NAK) beyond what the
\* receiver has moved past, and the receiver never moves past what was sent.
ReleasedWithinReceived == freed <= cursor /\ cursor <= sent

\* In the receiver's first session no chunk is skipped: everything below its
\* cursor reached the app buffer, so everything the sender released did.  This
\* is what resetSeq_unlocked's anchor is for ("First-ever-session, ASYNC-ONLY:
\* expect the peer's first frame to be exactly cobsSeq 0"); it holds when the
\* receiver is the slave, and not when it is the master.
FirstSessionLossless == rLocks = 1 => delivered = 0..(cursor - 1)

\* In any session what is delivered is gapless from the first chunk on.
DeliveredIsRun ==
  delivered # {} =>
    /\ cursor - 1 \in delivered
    /\ \A i \in delivered : i..(cursor - 1) \subseteq delivered

\* "The in-flight set is always contiguous" (sendMsg): the chunks in flight
\* are exactly those from the base on, each has an entry of its own in
\* pending_[] and its own bytes in the cache, so each can be retransmitted.
WindowIntact ==
  sState = "OK" =>
    /\ gbnActive <=> freed < sent
    /\ sent + job - freed <= AdmitWindow
    /\ pending = {budgetIdx(Ahead(gbnBase, k)) : k \in 0..(sent - freed - 1)}
    /\ \A k \in 0..(sent - freed - 1) :
         cache[Ahead(gbnBase, k)] # NoChunk /\ cache[Ahead(gbnBase, k)].idx = freed + k

\* Everything the sender released was really pushed to the app buffer.
\* resetSeq_unlocked's comment takes this for granted in every session.
ReleasedWasDelivered == \A i \in 0..(freed - 1) : i \in delivered

\* The link implements the abstract stream; the first session is strict when
\* the receiver is the slave, and no other one is.
Stream == INSTANCE ReliableStream WITH
  accepted <- sent, received <- cursor, released <- freed,
  strict <- ~rIsMaster /\ rLocks <= 1
ImplementsStream == Stream!Spec

\* Every chunk in flight is released in the end, unless one of the boards
\* drops the link: lost frames, lost ACKs, suppressed NAKs, a full TX ring
\* and a full app buffer delay it but never wedge both sides.
BothUp == sState = "OK" /\ rState = "OK"
InFlightIsReleased == (BothUp /\ freed < sent) ~> (~BothUp \/ freed = sent)

\* The wait is the same for the receiving app: what was sent reaches the app.
SentIsRead == (BothUp /\ sent = MaxSent) ~> (~BothUp \/ (cursor = sent /\ appBuf = <<>>))

-----------------------------------------------------------------------------
(* The inductive invariant                                                 *)

\* How far the three counters can be apart.
CountersInv ==
  /\ freed <= cursor /\ cursor <= sent
  /\ sent <= freed + PIPELINE_WINDOW

\* A side that is up has locked in this session; one that has not locked in
\* it has left no trace in it.
SessionInv ==
  /\ sState = "OK" => "sender" \in joined
  /\ rState = "OK" => "receiver" \in joined
  /\ "sender" \notin joined => sent = 0
  /\ "receiver" \notin joined => cursor = 0 /\ delivered = {}

\* The sender's window is the chunks freed..sent-1, under their own numbers.
SenderInv ==
  /\ sState = "SWP" => txSeq = 0 /\ ~gbnActive /\ pending = {}
  /\ sState = "OK" =>
       /\ gbnActive <=> freed < sent
       /\ sent + job <= freed + AdmitWindow
       /\ txSeq = SeqOf(sent)
       /\ gbnActive => gbnBase = SeqOf(freed)
       /\ pending = {budgetIdx(SeqOf(i)) : i \in freed..(sent - 1)}
       /\ \A i \in freed..(sent - 1) :
            /\ cache[SeqOf(i)] # NoChunk
            /\ cache[SeqOf(i)].idx = i /\ cache[SeqOf(i)].len <= AppCap

\* The receiver expects the chunk at its cursor, or anything at the start; a
\* slave in its first session expects chunk 0 at the start.
ReceiverInv ==
  /\ rState = "SWP" => appBuf = <<>> /\ (rxSeqSet => rLocks = 0)
  /\ rState = "OK" => rLocks > 0
  /\ rLocks = 0 => cursor = 0 /\ rxSeqSet = ~rIsMaster
  /\ rLocks = 0 /\ rxSeqSet => NextSeq(rxSeq) = 0
  /\ rState = "OK" /\ rxSeqSet => NextSeq(rxSeq) = SeqOf(cursor)
  /\ ~rxSeqSet => appBuf = <<>> /\ appFree = AppCap
  /\ ~rxSeqSet /\ rState = "OK" => cursor = 0 /\ delivered = {}
  /\ rLocks = 1 /\ ~rIsMaster =>
       /\ delivered = 0..(cursor - 1)
       /\ ~rxSeqSet => rState = "SWP"

\* A data frame is one window around the cursor, and stays so when the
\* frames before it are delivered.
DataInv ==
  /\ \A i \in 1..Len(data) :
       /\ data[i].seq = SeqOf(data[i].idx)
       /\ data[i].idx < sent
       /\ cursor <= data[i].idx + PIPELINE_WINDOW
       /\ data[i].len <= AppCap
  /\ \A i, j \in 1..Len(data) :
       i < j => data[i].idx < data[j].idx + PIPELINE_WINDOW

\* An ACK or NAK is never ahead of the cursor and at most a window (and the
\* acknowledged chunk) behind the base, also when those before it are done.
CtrlInv ==
  /\ \A i \in 1..Len(ctrl) :
       /\ ctrl[i].type = "ACK" => ctrl[i].upto > 0 /\ ctrl[i].seq = SeqOf(ctrl[i].upto - 1)
       /\ ctrl[i].type = "NAK" => ctrl[i].seq = SeqOf(ctrl[i].upto)
       /\ ctrl[i].upto <= cursor
       /\ freed <= ctrl[i].upto + PIPELINE_WINDOW
  /\ \A i, j \in 1..Len(ctrl) :
       i < j => ctrl[i].upto <= ctrl[j].upto + PIPELINE_WINDOW

IInv ==
  /\ TypeOK
  /\ CountersInv
  /\ SessionInv
  /\ SenderInv
  /\ ReceiverInv
  /\ DataInv
  /\ CtrlInv
  /\ DeliveredInOrder
=============================================================================
