------------------------------ MODULE SyncLink ------------------------------
(***************************************************************************)
(* One direction of a SYNC link, from sendMsg on one board to recvMsg on   *)
(* the other: the blocking retransmit ladder (syncAwaitAcked, syncRtoStep, *)
(* LinkArq::waitForAck), the receiver's SYNC branches of onPayload, the    *)
(* message parser (LinkMsgCodec, recvMsg) and the lines between them.      *)
(*                                                                         *)
(* sendMsg holds the lock except while it waits for an ACK (waitForAck) or *)
(* for room in the TX ring (drainTxRing); there the other task, a reset or *)
(* a new session may come in.  Its steps are the stretches between.        *)
(*                                                                         *)
(* The byte stream is counted in units: a header is MSG_HDR of them, a     *)
(* body frame one.  A unit knows the message it belongs to, so a CRC       *)
(* matches exactly when the units read are the body that was sent.         *)
(*                                                                         *)
(* Time counts only for the ladder's budget: an ACK timeout lasts          *)
(* AckTimeout ticks, a wake-up by a NAK at least one.  How long ago recvMsg *)
(* read a header is left open.                                             *)
(***************************************************************************)
EXTENDS SeqSpace, FiniteSets, Sequences

CONSTANTS
  BodyLens,      \* body frames of a message
  MSG_HDR,       \* units of a message header
  MaxRetx,       \* cfg.maxRetx
  AckTimeout,    \* cfg.syncAckTimeoutMs
  RingCap,       \* frames a TX ring and the line behind it hold
  AppCap,        \* units the app buffer holds
  ScanMax,       \* units a resync scan looks at: cfg.maxMsg + MSG_HDR
  errThreshold,  \* cfg.errThreshold
  MaxMsgs, MaxLoss, MaxSessions

ASSUME SyncAssumption ==
  /\ BodyLens \subseteq Nat \ {0}
  /\ MSG_HDR \in Nat \ {0} /\ AckTimeout \in Nat \ {0} /\ MaxRetx \in Nat
  /\ RingCap \in Nat \ {0} /\ AppCap \in Nat
  /\ ScanMax \in Nat /\ \A n \in BodyLens : ScanMax >= n + MSG_HDR
  /\ errThreshold \in Nat /\ MaxMsgs \in Nat
  /\ PIPELINE_WINDOW >= 2   \* so two numbers in a row never share a slot

VARIABLES
  sState, txSeq, pending,  \* as in GbnLink: state, txSeq, ackedPending_
  nakWake,       \* nakWakeSeq_ while nakWake_ is set, or NoSeq
  clearAllEpoch,
  call,          \* the sendMsg in progress
  rState, rxSeq, rxSeqSet,
  hold,          \* holdNakSeq_ and holdNakFreeAtSet_
  errs,          \* Link::errs of the receiver
  appBuf,
  msgRx,         \* the header recvMsg has read, or NoMsg
  errDue,        \* recvMsg has unlocked and not yet called err()
  data, ctrl,
  session, joined, rLocks, losses, msgs,
  confirmed,     \* history: messages of this session that sendMsg confirmed
  got,           \* history: messages of this session that recvMsg returned
  taint          \* history: what has gone wrong for good in this session

sender == <<sState, txSeq, pending, nakWake, clearAllEpoch, call, msgs>>
receiver == <<rState, rxSeq, rxSeqSet, hold, errs, appBuf, msgRx, errDue, got>>
world == <<session, joined, rLocks>>
vars == <<sender, receiver, world, data, ctrl, losses, confirmed, taint>>

NoSeq == -1
NoMsg == [msg |-> 0, len |-> 0]
NoHold == [seq |-> NoSeq, free |-> 0]
Idle == [phase |-> "idle", msg |-> 0, len |-> 0, merged |-> FALSE, part |-> 0,
         seq |-> 0, again |-> FALSE, spent |-> NoSeq, gen |-> 0, sess |-> 0]

\* What goes over the wire for a message: its header, then its body.
Text(m, n) == [i \in 1..(MSG_HDR + n) |-> [msg |-> m, len |-> n, at |-> i]]
Header(m, n) == SubSeq(Text(m, n), 1, MSG_HDR)
Body(m, n) == SubSeq(Text(m, n), MSG_HDR + 1, MSG_HDR + n)

Init ==
  /\ sState = "SWP" /\ txSeq = 0 /\ pending = {} /\ nakWake = NoSeq
  /\ clearAllEpoch = 0 /\ call = Idle /\ msgs = 0
  /\ rState = "SWP" /\ rxSeq = 0 /\ rxSeqSet = FALSE
  /\ hold = NoHold /\ errs = 0 /\ appBuf = <<>> /\ msgRx = NoMsg /\ errDue = FALSE
  /\ data = <<>> /\ ctrl = <<>>
  /\ session = 0 /\ joined = {} /\ rLocks = 0 /\ losses = 0
  /\ confirmed = {} /\ got = <<>> /\ taint = {}

-----------------------------------------------------------------------------
(* The sender                                                              *)

\* The frame a call is at: everything at once when it fits one frame.
Payload(c) ==
  CASE c.merged -> Text(c.msg, c.len)
    [] ~c.merged /\ c.part = 0 -> Header(c.msg, c.len)
    [] OTHER -> <<Text(c.msg, c.len)[MSG_HDR + c.part]>>
LastPart(c) == c.merged \/ c.part = c.len

\* sendCobsFrame_unlocked takes the next number, a retransmission keeps the
\* one of the op; then LinkArq::onSent for the op and waitForAck's start.
Transmit(c) ==
  /\ data' = Append(data, [seq |-> IF c.again THEN c.seq ELSE txSeq,
                           bytes |-> Payload(c)])
  /\ txSeq' = IF c.again THEN txSeq ELSE NextSeq(txSeq)
  /\ pending' = pending \cup {budgetIdx(c.seq)}
  /\ nakWake' = NoSeq
  /\ call' = [c EXCEPT !.phase = "wait", !.gen = clearAllEpoch]
  /\ taint' = IF c.sess # session THEN taint \cup {"late"} ELSE taint

\* drainTxRing_unlocked: no wait when the ring has room.
SendFrame(c) ==
  \/ /\ Len(data) < RingCap
     /\ Transmit(c)
  \/ /\ Len(data) >= RingCap
     /\ call' = [c EXCEPT !.phase = "drain"]
     /\ UNCHANGED <<data, txSeq, pending, nakWake, taint>>

\* sendMsg is admitted; op.seq is read before the ring is drained.
SendMsg(n, merged) ==
  /\ sState = "OK" /\ call = Idle /\ msgs < MaxMsgs
  /\ merged => n = 1
  /\ msgs' = msgs + 1
  /\ SendFrame([Idle EXCEPT !.msg = msgs + 1, !.len = n, !.merged = merged,
                            !.seq = txSeq, !.sess = session])
  /\ UNCHANGED <<sState, clearAllEpoch, receiver, ctrl, world, losses, confirmed>>

Truncated(line) == {SubSeq(line, 1, k) : k \in 0..Len(line)}

\* reset_unlocked on the sender's board: clearAll wipes the pending bits and
\* counts the epoch.
SenderWipe ==
  /\ sState' = "SWP" /\ txSeq' = 0 /\ pending' = {}
  /\ clearAllEpoch' = clearAllEpoch + 1
  /\ data' \in Truncated(data)

Blame(c) == IF c.merged THEN "single" ELSE IF c.part = 0 THEN "header" ELSE "body"

\* The ladder is exhausted.  Only a header's timeout drops the link
\* (onSyncAckTimeout_unlocked); for other frames the message is abandoned.
GiveUp(c, clear) ==
  /\ call' = Idle
  /\ taint' = taint \cup {Blame(c)}
  /\ IF Blame(c) = "header" /\ sState = "OK"
       THEN SenderWipe
       ELSE /\ pending' = pending \ clear
            /\ UNCHANGED <<sState, txSeq, clearAllEpoch, data>>

\* Mutant: the budget counts from zero at every step.
SpentAlwaysZero(c, dt) == 0

\* The time on the ladder since its first step.
Spent(c, dt) == IF c.spent = NoSeq THEN 0 ELSE c.spent + dt

\* syncAwaitAcked after a wait that failed: give up when the link is gone,
\* else syncRtoStep.  waitForAck has cleared the pending bits in "clear".
RtoStep(dt, clear) ==
  LET spent == Spent(call, dt)
      c == [call EXCEPT !.again = TRUE, !.spent = spent]
  IN  \/ /\ sState # "OK" \/ spent >= MaxRetx * AckTimeout
         /\ GiveUp(call, clear)
         /\ UNCHANGED nakWake
      \/ /\ sState = "OK" /\ spent < MaxRetx * AckTimeout
         /\ \/ /\ Len(data) < RingCap
               /\ Transmit(c)
            \/ /\ Len(data) >= RingCap
               /\ call' = [c EXCEPT !.phase = "drain"]
               /\ pending' = pending \ clear
               /\ UNCHANGED <<data, txSeq, nakWake, taint>>
         /\ UNCHANGED <<sState, clearAllEpoch>>

Pending(c) == budgetIdx(c.seq) \in pending
Waiting == call.phase = "wait"
SenderStep == UNCHANGED <<receiver, ctrl, world, losses, msgs>>

\* Mutant: a reset in between is taken for an ACK, as both clear the bit.
AckedAnyEpoch == ~Pending(call)

\* waitForAck's successful end: the bit is clear and no reset cleared it.
Acked == ~Pending(call) /\ call.gen = clearAllEpoch

\* The frame is acknowledged: sendMsg goes on with the next one or returns.
FrameAcked ==
  /\ Waiting /\ Acked
  /\ \/ /\ LastPart(call)
        /\ call' = Idle
        /\ confirmed' = IF call.sess = session THEN confirmed \cup {call.msg} ELSE confirmed
        /\ UNCHANGED <<txSeq, pending, nakWake, data, taint>>
     \/ /\ ~LastPart(call) /\ sState = "OK"
        /\ SendFrame([call EXCEPT !.part = @ + 1, !.seq = txSeq, !.again = FALSE,
                                  !.spent = NoSeq])
        /\ UNCHANGED confirmed
     \/ /\ ~LastPart(call) /\ sState # "OK"
        /\ call' = Idle
        /\ UNCHANGED <<txSeq, pending, nakWake, data, taint, confirmed>>
  /\ UNCHANGED <<sState, clearAllEpoch>> /\ SenderStep

\* A reset came in while the call waited.
WaitReset ==
  /\ Waiting /\ ~Acked /\ call.gen # clearAllEpoch
  /\ RtoStep(0, {})
  /\ UNCHANGED confirmed /\ SenderStep

\* The peer's NAK ends the wait early.
WaitNak ==
  /\ Waiting /\ Pending(call) /\ call.gen = clearAllEpoch
  /\ nakWake = call.seq
  /\ RtoStep(1, {budgetIdx(call.seq)})
  /\ UNCHANGED confirmed /\ SenderStep

\* The ACK timeout.
WaitTimeout ==
  /\ Waiting /\ Pending(call) /\ call.gen = clearAllEpoch
  /\ RtoStep(AckTimeout, {budgetIdx(call.seq)})
  /\ UNCHANGED confirmed /\ SenderStep

\* drainTxRing's loop: it ends as soon as there is room, whatever the state
\* is then; it gives up when the link is gone or after a timeout.
Drain ==
  /\ call.phase = "drain"
  /\ \/ /\ Len(data) < RingCap
        /\ Transmit(call)
        /\ UNCHANGED <<sState, clearAllEpoch>>
     \/ /\ Len(data) >= RingCap
        /\ IF call.again
             THEN GiveUp(call, {})
             ELSE /\ call' = Idle
                  /\ taint' = taint \cup (IF call.part = 0 THEN {} ELSE {"body"})
                  /\ UNCHANGED <<sState, txSeq, pending, clearAllEpoch, data>>
        /\ UNCHANGED nakWake
  /\ UNCHANGED confirmed /\ SenderStep

\* onAck, SYNC branch: one slot is freed.
OnAck ==
  /\ ctrl # <<>> /\ Head(ctrl).type = "ACK"
  /\ ctrl' = Tail(ctrl)
  /\ pending' = IF sState = "OK" THEN pending \ {budgetIdx(Head(ctrl).seq)} ELSE pending
  /\ UNCHANGED <<sState, txSeq, nakWake, clearAllEpoch, call, msgs, receiver, data,
                 world, losses, confirmed, taint>>

\* onNak, SYNC branch: noteNakWake for a pending number.
OnNak ==
  /\ ctrl # <<>> /\ Head(ctrl).type = "NAK"
  /\ ctrl' = Tail(ctrl)
  /\ nakWake' = IF sState = "OK" /\ budgetIdx(Head(ctrl).seq) \in pending
                  THEN Head(ctrl).seq ELSE nakWake
  /\ UNCHANGED <<sState, txSeq, pending, clearAllEpoch, call, msgs, receiver, data,
                 world, losses, confirmed, taint>>

-----------------------------------------------------------------------------
(* The receiver                                                            *)

Reply(type, s) ==
  ctrl' = IF Len(ctrl) < RingCap THEN Append(ctrl, [type |-> type, seq |-> s]) ELSE ctrl

frame == Head(data)
appFree == AppCap - Len(appBuf)
fits == Len(frame.bytes) <= appFree

Receive(class) ==
  /\ data # <<>> /\ rState = "OK"
  /\ classifyGap(frame.seq, rxSeq, rxSeqSet) = class
  /\ data' = Tail(data)
  /\ UNCHANGED <<sender, rState, msgRx, errDue, got, world, losses, confirmed, taint>>

ReceiveSweeping ==
  /\ data # <<>> /\ rState # "OK"
  /\ data' = Tail(data)
  /\ UNCHANGED <<sender, receiver, ctrl, world, losses, confirmed, taint>>

\* A duplicate is acknowledged again.
ReceiveStale ==
  /\ Receive("Stale")
  /\ IF genuineDup(frame.seq, rxSeq) THEN Reply("ACK", frame.seq) ELSE UNCHANGED ctrl
  /\ UNCHANGED <<rxSeq, rxSeqSet, hold, errs, appBuf>>

\* The SYNC branch for a gap: the frame is taken, the cursor stays.
ReceiveGap ==
  /\ Receive("Gap")
  /\ IF fits
       THEN appBuf' = appBuf \o frame.bytes /\ Reply("ACK", frame.seq)
       ELSE Reply("NAK", frame.seq) /\ UNCHANGED appBuf
  /\ UNCHANGED <<rxSeq, rxSeqSet, hold, errs>>

\* The expected frame does not fit: NAK when the hold is new or the app has
\* drained something, and else only at the liveness interval.
ReceiveHeld ==
  /\ Receive("Forward") /\ ~fits
  /\ \/ /\ hold.seq # frame.seq \/ appFree > hold.free
        /\ hold' = [seq |-> frame.seq, free |-> appFree]
        /\ Reply("NAK", frame.seq)
     \/ /\ hold.seq = frame.seq /\ appFree <= hold.free
        /\ Reply("NAK", frame.seq) \/ UNCHANGED ctrl
        /\ UNCHANGED hold
  /\ UNCHANGED <<rxSeq, rxSeqSet, errs, appBuf>>

\* Mutant: the cursor is not moved.
ReceiveForwardStuck ==
  /\ Receive("Forward") /\ fits
  /\ appBuf' = appBuf \o frame.bytes
  /\ hold' = IF hold.seq = frame.seq THEN NoHold ELSE hold
  /\ errs' = 0 /\ UNCHANGED <<rxSeq, rxSeqSet>>
  /\ Reply("ACK", frame.seq)

ReceiveForward ==
  /\ Receive("Forward") /\ fits
  /\ appBuf' = appBuf \o frame.bytes
  /\ hold' = IF hold.seq = frame.seq THEN NoHold ELSE hold
  /\ rxSeq' = frame.seq /\ rxSeqSet' = TRUE /\ errs' = 0
  /\ Reply("ACK", frame.seq)

-----------------------------------------------------------------------------
(* recvMsg                                                                 *)

\* msgResyncScan: the first place where a whole message with a valid CRC
\* starts; 0 if there is none.
FullAt(b, d) ==
  /\ d + MSG_HDR <= Len(b) + 1 /\ b[d].at = 1
  /\ d + MSG_HDR + b[d].len <= Len(b) + 1
  /\ SubSeq(b, d, d + MSG_HDR + b[d].len - 1) = Text(b[d].msg, b[d].len)
msgResyncScan(b) ==
  LET starts == {d \in 1..Len(b) : FullAt(b, d)}
  IN  IF starts = {} THEN 0 ELSE CHOOSE d \in starts : \A e \in starts : d <= e

\* findMsgHeaderResync_unlocked: the scanned part is taken out and, from the
\* message found, put back behind the rest; with none, all is dropped.
Resync(b) ==
  LET n == IF ScanMax + MSG_HDR < Len(b) THEN ScanMax + MSG_HDR ELSE Len(b)
      d == msgResyncScan(SubSeq(b, 1, n))
  IN  CASE Len(b) < MSG_HDR -> b
        [] Len(b) >= MSG_HDR /\ d = 0 -> <<>>
        [] OTHER -> SubSeq(b, n + 1, Len(b)) \o SubSeq(b, d, n)

AppStep == UNCHANGED <<sender, rState, rxSeq, rxSeqSet, hold, errs, data, ctrl, world,
                       losses, confirmed>>
\* The app task calls recvMsg; it has finished the last call's err().
AppCalls == rState = "OK" /\ ~errDue

Drop(n) == SubSeq(appBuf, n + 1, Len(appBuf))

\* Mutant: a partial message has no limit.
OverdueNever == FALSE

\* A partial message may be past its limit at any call of recvMsg: only the
\* time since its header counts, whether its sendMsg is still at it or not.
Overdue == msgRx # NoMsg

\* recvMsg comes before the body is through, or too late for a complete one.
TooSoon == call.msg = msgRx.msg \/ Len(appBuf) >= msgRx.len

\* A stale partial message is abandoned, also with its body complete.
RecvStale ==
  /\ AppCalls /\ Overdue
  /\ msgRx' = NoMsg /\ appBuf' = Resync(appBuf) /\ errDue' = TRUE
  /\ taint' = IF TooSoon THEN taint \cup {"stale"} ELSE taint
  /\ UNCHANGED got /\ AppStep

AtHeader == SubSeq(appBuf, 1, MSG_HDR) = Header(appBuf[1].msg, appBuf[1].len)

\* Bytes that are no header, with a length out of range: resynchronise.
RecvBadHeader ==
  /\ AppCalls /\ msgRx = NoMsg /\ Len(appBuf) >= MSG_HDR /\ ~AtHeader
  /\ appBuf' = Resync(Drop(MSG_HDR)) /\ errDue' = TRUE
  /\ UNCHANGED <<msgRx, got, taint>> /\ AppStep

\* The body of header h is complete in b: it is returned, or rejected by its
\* CRC.
TakeBody(h, b) ==
  /\ msgRx' = NoMsg /\ appBuf' = SubSeq(b, h.len + 1, Len(b))
  /\ IF SubSeq(b, 1, h.len) = Body(h.msg, h.len)
       THEN got' = Append(got, h.msg) /\ UNCHANGED errDue
       ELSE errDue' = TRUE /\ UNCHANGED got

\* beginMsg; the call goes on to the body, and returns 0 when that is not
\* complete.  Only the length is checked, so bytes that are no header may pass
\* for one.
RecvHeader(n) ==
  /\ AppCalls /\ msgRx = NoMsg /\ Len(appBuf) >= MSG_HDR
  /\ AtHeader => n = appBuf[1].len
  /\ LET h == [msg |-> IF AtHeader THEN appBuf[1].msg ELSE 0, len |-> n]
     IN  \/ /\ Len(Drop(MSG_HDR)) < n
            /\ msgRx' = h /\ appBuf' = Drop(MSG_HDR) /\ UNCHANGED <<errDue, got>>
         \/ /\ Len(Drop(MSG_HDR)) >= n
            /\ TakeBody(h, Drop(MSG_HDR))
  /\ UNCHANGED taint /\ AppStep

\* A later call finds the body of the partial message complete.
RecvBody ==
  /\ AppCalls /\ msgRx # NoMsg /\ Len(appBuf) >= msgRx.len
  /\ TakeBody(msgRx, appBuf)
  /\ UNCHANGED taint /\ AppStep

\* reset_unlocked on the receiver's board.
ReceiverWipe ==
  /\ rState' = "SWP" /\ rxSeqSet' = FALSE /\ rxSeq' = 0 /\ hold' = NoHold
  /\ errs' = 0 /\ appBuf' = <<>> /\ msgRx' = NoMsg
  /\ ctrl' \in Truncated(ctrl)

\* Mutant: the threshold is compared before the error is counted.
ErrsExceededLate == rState = "OK" /\ errs > errThreshold

ErrsExceeded == rState = "OK" /\ errs + 1 > errThreshold

\* err(): too many errors in a row drop the link.
Err ==
  /\ errDue /\ errDue' = FALSE
  /\ \/ /\ ErrsExceeded
        /\ ReceiverWipe
     \/ /\ ~ErrsExceeded
        /\ errs' = IF rState = "OK" THEN errs + 1 ELSE errs
        /\ UNCHANGED <<rState, rxSeq, rxSeqSet, hold, appBuf, msgRx, ctrl>>
  /\ UNCHANGED <<sender, data, world, losses, got, confirmed, taint>>

-----------------------------------------------------------------------------
(* Sessions and the lines                                                  *)

SenderReset ==
  /\ sState = "OK" /\ SenderWipe
  /\ UNCHANGED <<nakWake, call, msgs, receiver, ctrl, world, losses, confirmed, taint>>

ReceiverReset ==
  /\ rState = "OK" /\ ReceiverWipe
  /\ UNCHANGED <<sender, errDue, got, data, world, losses, confirmed, taint>>

\* As in GbnLink: the sweep has pushed out what the old session left.
NewSession(side) ==
  /\ sState = "SWP" /\ rState = "SWP"
  /\ data = <<>> /\ ctrl = <<>> /\ session < MaxSessions
  /\ session' = session + 1 /\ joined' = {side}
  /\ confirmed' = {} /\ got' = <<>>
  /\ taint' = {}

JoinSession(side, otherState) ==
  /\ side \notin joined /\ joined # {} /\ otherState = "OK"
  /\ joined' = joined \cup {side}
  /\ UNCHANGED <<session, confirmed, got, taint>>

SenderLock ==
  /\ sState = "SWP" /\ sState' = "OK"
  /\ NewSession("sender") \/ JoinSession("sender", rState)
  /\ UNCHANGED <<txSeq, pending, nakWake, clearAllEpoch, call, msgs, rState, rxSeq,
                 rxSeqSet, hold, errs, appBuf, msgRx, errDue, data, ctrl, rLocks, losses>>

ReceiverLock ==
  /\ rState = "SWP" /\ rState' = "OK"
  /\ NewSession("receiver") \/ JoinSession("receiver", sState)
  /\ appBuf' = <<>> /\ msgRx' = NoMsg /\ rLocks' = rLocks + 1
  /\ UNCHANGED <<sender, rxSeq, rxSeqSet, hold, errs, errDue, data, ctrl, losses>>

LoseData ==
  /\ data # <<>> /\ losses < MaxLoss
  /\ data' = Tail(data) /\ losses' = losses + 1
  /\ UNCHANGED <<sender, receiver, ctrl, world, confirmed, taint>>

LoseCtrl ==
  /\ ctrl # <<>> /\ losses < MaxLoss
  /\ ctrl' = Tail(ctrl) /\ losses' = losses + 1
  /\ UNCHANGED <<sender, receiver, data, world, confirmed, taint>>

CallNext == FrameAcked \/ WaitReset \/ WaitNak \/ WaitTimeout \/ Drain
UartNext ==
  \/ OnAck \/ OnNak
  \/ ReceiveSweeping \/ ReceiveStale \/ ReceiveGap \/ ReceiveHeld \/ ReceiveForward
AppNext ==
  RecvStale \/ RecvBadHeader \/ (\E n \in BodyLens : RecvHeader(n)) \/ RecvBody \/ Err

Next ==
  \/ \E n \in BodyLens, merged \in BOOLEAN : SendMsg(n, merged)
  \/ CallNext
  \/ UartNext
  \/ AppNext
  \/ SenderReset \/ ReceiverReset \/ SenderLock \/ ReceiverLock
  \/ LoseData \/ LoseCtrl

Spec == Init /\ [][Next]_vars

\* The caller's task runs (its waits have deadlines), the UART task handles
\* frames, the app polls.  Nothing is assumed of losses, resets or the sweep.
Fairness ==
  /\ WF_vars(CallNext)
  /\ WF_vars(OnAck \/ OnNak)
  /\ WF_vars(ReceiveSweeping \/ ReceiveStale \/ ReceiveGap \/ ReceiveHeld \/ ReceiveForward)
  /\ WF_vars(AppNext)

FairSpec == Spec /\ Fairness

-----------------------------------------------------------------------------
Units == [msg : 1..MaxMsgs, len : BodyLens, at : Nat]

\* The state variables have the types of the fields they stand for.
TypeOK ==
  /\ sState \in {"OK", "SWP"} /\ rState \in {"OK", "SWP"}
  /\ txSeq \in Seqs /\ pending \subseteq BudgetSlots /\ nakWake \in Seqs \cup {NoSeq}
  /\ clearAllEpoch \in Nat /\ call.phase \in {"idle", "drain", "wait"}
  /\ call.seq \in Seqs /\ call.part \in 0..call.len
  /\ rxSeq \in Seqs /\ rxSeqSet \in BOOLEAN /\ errs \in 0..errThreshold
  /\ appBuf \in Seq(Units) /\ Len(appBuf) <= AppCap
  /\ msgRx.len \in BodyLens \cup {0} /\ errDue \in BOOLEAN
  /\ Len(data) <= RingCap /\ Len(ctrl) <= RingCap
  /\ confirmed \subseteq 1..MaxMsgs /\ got \in Seq(1..MaxMsgs)

\* The receiving app has m, or will have it from what the parser holds.
InHand(m) ==
  \/ \E i \in 1..Len(got) : got[i] = m
  \/ msgRx.msg = m /\ SubSeq(appBuf, 1, msgRx.len) = Body(m, msgRx.len)
  \/ \E d \in 1..Len(appBuf) : appBuf[d].msg = m /\ FullAt(appBuf, d)

\* A message for which sendMsg returned true in a session is in the hands of
\* the receiving app as long as its side of the session lasts, provided no
\* frame of the session was given up and recvMsg abandoned no message as stale
\* that was still being sent or already complete: lost frames, lost ACKs, NAK
\* wake-ups, a full ring, a full app buffer and resets of the sender while it
\* waits never make waitForAck report an ACK for what was not delivered.
ConfirmedIsReceived ==
  rState = "OK" /\ taint = {} => \A m \in confirmed : InHand(m)

\* In such a session recvMsg returns every message at most once, in order.
ReceivedInOrder ==
  taint = {} => \A i, j \in 1..Len(got) : i < j => got[i] < got[j]

\* In such a session err() never counts towards dropping a good link: recvMsg
\* meets no bad header and no bad CRC, and holds no partial message whose
\* sendMsg has ended.  (An abandoned message that is still being sent, or
\* complete, is itself an error, and ends the premise.)
NoParserError == [][taint' = {} /\ ~errDue => ~errDue']_vars

\* sendMsg returns: no pattern of NAKs, losses, full rings or resets keeps
\* the ladder going for ever.
CallReturns == call # Idle ~> call = Idle

\* The receiver does not wedge: whatever is left in the app buffer, whole or
\* partial, is read or given up in the end (less than a header may stay).
BufferDrains ==
  Len(appBuf) >= MSG_HDR ~> (Len(appBuf) < MSG_HDR /\ msgRx = NoMsg) \/ rState # "OK"
=============================================================================
