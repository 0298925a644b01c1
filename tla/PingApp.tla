------------------------------- MODULE PingApp -------------------------------
(***************************************************************************)
(* The Ping application on an ASYNC link: loop() with its pipeline of      *)
(* unconfirmed messages, the gap stop on a NAK and its escape, the send    *)
(* gate with a retained draw, and the web hooks that pause it or change    *)
(* the fill mode.  loop() runs in its own task; every call into the link   *)
(* takes the lock for itself, so ACKs, NAKs, resets and the web task come  *)
(* in between: a step of loop() is the stretch from one such call to the   *)
(* next.  The link below is its window of chunks and lastNakSeq_.          *)
(*                                                                         *)
(* A message is its number of chunks.  Timers are 0 (off), 1 (running) or  *)
(* up; Tick lets time pass.                                                *)
(***************************************************************************)
EXTENDS SeqSpace, FiniteSets, Sequences

CONSTANTS
  Window,            \* the runtime window, Ping::effWindow_()
  MaxSize,           \* chunks of the longest message, Ping::maxSeqSize_
  MAX_TX_PER_LOOP,
  MaxMsgs, MaxFaults, MaxClicks

\* Link::begin warns when the longest message does not fit the window.
ASSUME PingAssumption ==
  /\ Window \in 1..PIPELINE_WINDOW
  /\ MaxSize \in 1..Window
  /\ MAX_TX_PER_LOOP \in Nat \ {0}

VARIABLES
  pc, local,         \* where loop() is, and its local variables
  queue,             \* queue_, head_, tail_, count_
  draw,              \* pendingDrawLen_ while havePendingDraw_, or 0
  gapSeq, gapTimer, stallTimer, wait, wasReady,
  fillMode, seqSize, paused,
  rampDue,           \* setFillMode has yet to reset seqSize_
  ready, base, next, \* the link: its state and the chunks in flight
  exp,               \* the chunk the peer expects
  lastNak,           \* lastNakSeq_
  naked,             \* history: the chunks in flight that the peer has NAKed
  session,
  msgs, faults, clicks

app == <<queue, draw, gapSeq, gapTimer, stallTimer, wait, wasReady, seqSize, msgs>>
web == <<fillMode, rampDue, paused, clicks>>
link == <<ready, base, next, exp, lastNak, naked, session>>
vars == <<pc, local, app, web, link, faults>>

NoGap == -1
NoLocal == [nak |-> NoGap, act |-> "Stay", gap |-> NoGap, sent |-> 0]
Expired == 2

Init ==
  /\ pc = "idle" /\ local = NoLocal
  /\ queue = <<>> /\ draw = 0 /\ gapSeq = NoGap /\ gapTimer = 0 /\ stallTimer = 0
  /\ wait = {} /\ wasReady = FALSE
  /\ fillMode = "SEQUENTIAL" /\ rampDue = FALSE /\ seqSize = 1 /\ paused = TRUE
  /\ ready = FALSE /\ base = 0 /\ next = 0 /\ exp = 0 /\ lastNak = NoGap
  /\ naked = {} /\ session = 0
  /\ msgs = 0 /\ faults = 0 /\ clicks = 0

-----------------------------------------------------------------------------
(* What the link answers                                                   *)

pendingBits == {budgetIdx(SeqOf(c)) : c \in base..(next - 1)}
arqPendingCount == next - base

\* Mutant: what was not reported missing is taken for delivered.
isAckedUnlessNaked(s) == s # lastNak

isAcked(s) == budgetIdx(s) \notin pendingBits

-----------------------------------------------------------------------------
(* loop()                                                                  *)

\* clearQueue_
ClearQueue ==
  /\ queue' = <<>> /\ stallTimer' = 0 /\ gapTimer' = 0 /\ draw' = 0

LoopStep == UNCHANGED <<web, link>>

\* The link is lost: drop the pipeline.  gapSeq_ shows lastSeq_ + 1 until the
\* next session; only the monitor reads it there.
LoopLinkLost ==
  /\ pc = "idle" /\ ~ready /\ wasReady
  /\ ClearQueue
  /\ wasReady' = FALSE /\ gapSeq' = COBS_SEQ_SPACE
  /\ wait' = wait \ {"cool"}
  /\ UNCHANGED <<pc, local, seqSize, msgs, faults>> /\ LoopStep

\* The first loop() of a session starts the settle time.
LoopFirstReady ==
  /\ pc = "idle" /\ ready /\ ~wasReady
  /\ wasReady' = TRUE /\ gapSeq' = NoGap /\ gapTimer' = 0
  /\ wait' = (wait \ {"cool"}) \cup {"settle"}
  /\ UNCHANGED <<pc, local, queue, draw, stallTimer, seqSize, msgs,
                 faults>>
  /\ LoopStep

\* The stall watchdog on a full pipeline, then the pause.
LoopTop ==
  /\ pc = "idle" /\ ready /\ wasReady /\ "settle" \notin wait
  /\ IF Len(queue) = PIPELINE_WINDOW /\ stallTimer = Expired
       THEN ClearQueue /\ gapSeq' = NoGap
       ELSE /\ stallTimer' = IF Len(queue) < PIPELINE_WINDOW THEN 0
                             ELSE IF stallTimer = 0 THEN 1 ELSE stallTimer
            /\ UNCHANGED <<queue, draw, gapSeq, gapTimer>>
  /\ pc' = IF paused THEN "idle" ELSE "gap"
  /\ UNCHANGED <<local, wait, wasReady, seqSize, msgs, faults>> /\ LoopStep

\* lastNakSeq()
GapSample ==
  /\ pc = "gap" /\ pc' = "decide"
  /\ local' = [local EXCEPT !.nak = lastNak]
  /\ UNCHANGED <<app, faults>> /\ LoopStep

decideGapTransition(currentGap, nak, gapPending) ==
  CASE currentGap = NoGap /\ nak # NoGap /\ gapPending -> [act |-> "Enter", gap |-> nak]
    [] currentGap = NoGap /\ ~(nak # NoGap /\ gapPending) -> [act |-> "Stay", gap |-> NoGap]
    [] currentGap # NoGap /\ nak \notin {NoGap, currentGap} -> [act |-> "Update", gap |-> nak]
    [] currentGap # NoGap /\ nak \in {NoGap, currentGap} /\ ~gapPending ->
         [act |-> "Resume", gap |-> NoGap]
    [] OTHER -> [act |-> "Stay", gap |-> currentGap]

\* isAcked() of the candidate, and the decision.
GapDecide ==
  /\ pc = "decide" /\ pc' = "latch"
  /\ LET cand == IF gapSeq = NoGap THEN local.nak ELSE gapSeq
         d == decideGapTransition(gapSeq, local.nak, cand # NoGap /\ ~isAcked(cand))
     IN  local' = [local EXCEPT !.act = d.act, !.gap = d.gap]
  /\ UNCHANGED <<app, faults>> /\ LoopStep

\* Mutant: a gap stop has no escape.
GapExpiredNever(timer) == FALSE

\* A gap stop on the same number has lasted GAP_STOP_FORCE_RESUME_MS.
GapExpired(timer) == gapSeq # NoGap /\ timer = Expired

\* A stale NAK is suppressed (isAcked() once more), the timer kept, the gap
\* latched unless it has lasted too long.
GapLatch ==
  /\ pc = "latch"
  /\ LET stale == local.act \in {"Enter", "Update"} /\ isAcked(local.gap)
         timer == CASE ~stale /\ local.act \in {"Enter", "Update"} -> 1
                    [] local.act = "Resume" -> 0
                    [] OTHER -> gapTimer
     IN  /\ gapSeq' = IF GapExpired(timer) THEN NoGap ELSE IF stale THEN gapSeq ELSE local.gap
         /\ gapTimer' = IF GapExpired(timer) THEN 0 ELSE timer
  /\ pc' = IF gapSeq' = NoGap THEN "send" ELSE "retire"
  /\ local' = NoLocal
  /\ UNCHANGED <<queue, draw, stallTimer, wait, wasReady, seqSize, msgs, faults>>
  /\ LoopStep

\* Mutants: the gate takes every draw for one chunk; the comparison is off by
\* one.
NeededChunksOne == 1
NeededChunksPlus ==
  CASE draw # 0 -> draw + 1
    [] draw = 0 /\ fillMode = "SEQUENTIAL" -> seqSize + 1
    [] OTHER -> 2

\* The chunks the next send costs as far as the gate knows.
NeededChunks ==
  CASE draw # 0 -> draw
    [] draw = 0 /\ fillMode = "SEQUENTIAL" -> seqSize
    [] OTHER -> 1

\* Mutant: the pipeline's own bound is left out.
SendStopsLate ==
  \/ local.sent = MAX_TX_PER_LOOP
  \/ wait \cap {"cool", "pace"} # {}
  \/ Window - arqPendingCount < NeededChunks

\* The conditions that end the send loop.
SendStops ==
  \/ Len(queue) = PIPELINE_WINDOW \/ local.sent = MAX_TX_PER_LOOP
  \/ wait \cap {"cool", "pace"} # {}
  \/ Window - arqPendingCount < NeededChunks

SendGate ==
  /\ pc = "send"
  /\ IF SendStops \/ msgs = MaxMsgs
       THEN pc' = "retire" /\ local' = NoLocal
       ELSE pc' = "draw" /\ UNCHANGED local
  /\ UNCHANGED <<app, faults>> /\ LoopStep

\* pickMsgSize_: RANDOM clamps to the free window, SEQUENTIAL does not.
Sizes ==
  CASE draw # 0 -> {draw}
    [] draw = 0 /\ fillMode = "SEQUENTIAL" -> {seqSize}
    [] OTHER -> {n \in 1..MaxSize : n = 1 \/ n <= Window - arqPendingCount}

\* sendMsg queues all chunks of the message.
SendMsg(n, pace) ==
  /\ pc = "draw" /\ ready /\ n \in Sizes /\ arqPendingCount + n <= Window
  /\ next' = next + n
  /\ queue' = Append(queue, [seq |-> SeqOf(next), at |-> next, sess |-> session])
  /\ draw' = 0 /\ msgs' = msgs + 1
  /\ seqSize' = IF fillMode # "SEQUENTIAL" THEN seqSize
                ELSE IF seqSize = MaxSize THEN 1 ELSE seqSize + 1
  /\ wait' = IF pace THEN wait \cup {"pace"} ELSE wait
  /\ local' = [local EXCEPT !.sent = @ + 1]
  /\ pc' = "send"
  /\ UNCHANGED <<gapSeq, gapTimer, stallTimer, wasReady, web, ready, base, exp,
                 lastNak, naked, session, faults>>

\* GbnWindowFull: the draw is kept for the next loop().
SendWindowFull(n) ==
  /\ pc = "draw" /\ ready /\ n \in Sizes /\ arqPendingCount + n > Window
  /\ draw' = n
  /\ pc' = "retire" /\ local' = NoLocal
  /\ UNCHANGED <<queue, gapSeq, gapTimer, stallTimer, wait, wasReady,
                 seqSize, msgs, faults>>
  /\ LoopStep

\* The link is gone, or the message is refused or cut short for another
\* reason (quiet time, rate, ring): then some of its chunks may be in flight.
SendNotReady ==
  /\ pc = "draw" /\ ~ready
  /\ pc' = "retire" /\ local' = NoLocal
  /\ UNCHANGED <<app, faults>> /\ LoopStep

SendFails(n, sent) ==
  /\ pc = "draw" /\ ready /\ faults < MaxFaults
  /\ n \in Sizes /\ arqPendingCount + n <= Window /\ sent \in 0..(n - 1)
  /\ next' = next + sent
  /\ draw' = 0 /\ wait' = wait \cup {"cool"} /\ faults' = faults + 1
  /\ pc' = "retire" /\ local' = NoLocal
  /\ UNCHANGED <<queue, gapSeq, gapTimer, stallTimer, wasReady, seqSize, msgs, web,
                 ready, base, exp, lastNak, naked, session>>

HeadAcked == queue # <<>> /\ isAcked(Head(queue).seq)

\* One turn of the loop that retires messages whose first chunk is acked.
Retire ==
  /\ pc = "retire" /\ HeadAcked
  /\ queue' = Tail(queue)
  /\ UNCHANGED <<pc, local, draw, gapSeq, gapTimer, stallTimer, wait, wasReady,
                 seqSize, msgs, faults>>
  /\ LoopStep

LoopEnd ==
  /\ pc = "retire" /\ ~HeadAcked
  /\ pc' = "idle"
  /\ UNCHANGED <<local, app, faults>> /\ LoopStep

\* recv() has reported a CRC error or lost sync: drop the pipeline.
LoopEndRejected ==
  /\ pc = "retire" /\ ~HeadAcked
  /\ gapSeq = NoGap /\ faults < MaxFaults
  /\ ClearQueue /\ faults' = faults + 1
  /\ pc' = "idle"
  /\ UNCHANGED <<local, gapSeq, wait, wasReady, seqSize, msgs>> /\ LoopStep

-----------------------------------------------------------------------------
(* The web task                                                            *)

\* setFillMode takes no lock: loop() may see the new mode before the ramp is
\* restarted.
SetFillMode(m) ==
  /\ clicks < MaxClicks /\ m # fillMode /\ ~rampDue
  /\ fillMode' = m /\ clicks' = clicks + 1 /\ rampDue' = (m = "SEQUENTIAL")
  /\ UNCHANGED <<pc, local, app, paused, link, faults>>

RestartRamp ==
  /\ rampDue /\ rampDue' = FALSE
  /\ seqSize' = 1
  /\ UNCHANGED <<pc, local, queue, draw, gapSeq, gapTimer, stallTimer, wait, wasReady,
                 fillMode, paused, clicks, msgs, link, faults>>

Pause ==
  /\ ~paused /\ clicks < MaxClicks
  /\ paused' = TRUE /\ clicks' = clicks + 1
  /\ UNCHANGED <<pc, local, app, fillMode, rampDue, link, faults>>

\* setPaused(false) clears the pipeline without a lock: assumed to come after
\* the loop() that was running at the pause.
Start ==
  /\ paused /\ pc = "idle"
  /\ paused' = FALSE
  /\ ClearQueue /\ gapSeq' = NoGap /\ wait' = wait \ {"pace"}
  /\ UNCHANGED <<pc, local, wasReady, seqSize, msgs, fillMode, rampDue, clicks,
                 link, faults>>

-----------------------------------------------------------------------------
(* The link's other task, and time                                         *)

\* Mutant: the latch is released by a reset only.
NakAfterKept(k) == lastNak

\* The NAK latch after the chunks below k are freed.
NakAfter(k) == IF lastNak \in {SeqOf(c) : c \in base..(k - 1)} THEN NoGap ELSE lastNak

LinkStep == UNCHANGED <<pc, local, app, web, ready, session, faults>>

PeerReceives ==
  /\ ready /\ exp < next /\ exp' = exp + 1
  /\ UNCHANGED <<base, next, lastNak, naked>> /\ LinkStep

\* onAck: everything before chunk k is freed.
OnAck(k) ==
  /\ ready /\ k \in (base + 1)..exp
  /\ base' = k /\ lastNak' = NakAfter(k) /\ naked' = {c \in naked : c >= k}
  /\ UNCHANGED <<next, exp>> /\ LinkStep

\* onNak: the peer expected k when it sent this, after everything it sent
\* before; for a pending chunk it also frees those before it.
OnNak(k) ==
  /\ ready /\ k \in base..exp /\ k < next /\ \A c \in naked : c <= k
  /\ base' = k /\ lastNak' = SeqOf(k) /\ naked' = {k}
  /\ UNCHANGED <<next, exp>> /\ LinkStep

LinkReset ==
  /\ ready /\ faults < MaxFaults
  /\ ready' = FALSE /\ faults' = faults + 1
  /\ base' = 0 /\ next' = 0 /\ exp' = 0 /\ lastNak' = NoGap /\ naked' = {}
  /\ UNCHANGED <<pc, local, app, web, session>>

LinkLock ==
  /\ ~ready /\ ready' = TRUE /\ session' = session + 1
  /\ UNCHANGED <<pc, local, app, web, base, next, exp, lastNak, naked, faults>>

Tick ==
  /\ wait # {} \/ gapTimer = 1 \/ stallTimer = 1
  /\ wait' = {}
  /\ gapTimer' = IF gapTimer = 1 THEN Expired ELSE gapTimer
  /\ stallTimer' = IF stallTimer = 1 THEN Expired ELSE stallTimer
  /\ UNCHANGED <<pc, local, queue, draw, gapSeq, wasReady, seqSize, msgs,
                 web, link, faults>>

Loop ==
  \/ LoopLinkLost \/ LoopFirstReady \/ LoopTop
  \/ GapSample \/ GapDecide \/ GapLatch
  \/ SendGate \/ SendNotReady
  \/ \E n \in 1..MaxSize :
       \/ \E pace \in BOOLEAN : SendMsg(n, pace)
       \/ SendWindowFull(n)
       \/ \E sent \in 0..(MaxSize - 1) : SendFails(n, sent)
  \/ Retire \/ LoopEnd \/ LoopEndRejected

Ack == \E k \in base..exp : OnAck(k)

Next ==
  \/ Loop
  \/ \E m \in {"SEQUENTIAL", "RANDOM"} : SetFillMode(m)
  \/ RestartRamp \/ Pause \/ Start
  \/ PeerReceives \/ Ack \/ (\E k \in base..exp : OnNak(k))
  \/ LinkReset \/ LinkLock \/ Tick

\* The loop task runs and time passes.  The link owes nothing.
Spec == Init /\ [][Next]_vars /\ WF_vars(Loop) /\ WF_vars(Tick)

-----------------------------------------------------------------------------
\* The variables have the types of the fields they stand for; the queue
\* never outgrows queue_.
TypeOK ==
  /\ pc \in {"idle", "gap", "decide", "latch", "send", "draw", "retire"}
  /\ Len(queue) <= PIPELINE_WINDOW /\ \A i \in 1..Len(queue) : queue[i].seq \in Seqs
  /\ draw \in 0..MaxSize /\ seqSize \in 1..MaxSize
  /\ gapSeq \in {NoGap, COBS_SEQ_SPACE} \cup Seqs
  /\ gapTimer \in 0..Expired /\ stallTimer \in 0..Expired
  /\ wait \subseteq {"cool", "pace", "settle"}
  /\ lastNak \in {NoGap} \cup Seqs
  /\ base \in 0..exp /\ exp \in base..next /\ next - base \in 0..Window
  /\ {wasReady, paused, rampDue, ready} \subseteq BOOLEAN

\* A gap stop never blames a healthy chunk: when the app stops for a number,
\* the chunk in flight under that number is one the peer has NAKed in this
\* session, although numbers are reused on every lap and in every session.
GapWasReported ==
  pc = "retire" /\ gapSeq # NoGap =>
    \A c \in base..(next - 1) : SeqOf(c) = gapSeq => c \in naked

\* An echo is counted for a message of the running session only after an ACK
\* has freed its first chunk.  (A reset in the middle of loop() frees all
\* entries, so messages of the session it ended are counted as well.)
CountedWasAcked ==
  [][Retire /\ ready /\ Head(queue).sess = session => Head(queue).at < base]_vars

\* A retained draw is offered to sendMsg only when it fits: the window never
\* refuses the same draw twice, whatever ACKs, resets and clicks come between
\* the gate and the call.
RetainedIsAdmitted ==
  [][draw # 0 => ~\E n \in 1..MaxSize : SendWindowFull(n)]_vars

\* A gap stop ends although the link need not make any progress.
StopEnds == gapSeq # NoGap ~> gapSeq = NoGap \/ paused \/ ~ready

\* If the link relocks, delivers and acknowledges, an app that is not paused
\* goes on sending: no combination of gap stop, stall, retained draw, cooldown
\* and link loss stops the pipeline for good.
FlowContinues ==
  WF_vars(LinkLock) /\ WF_vars(PeerReceives) /\ WF_vars(Ack) =>
    (~paused ~> paused \/ msgs = MaxMsgs)
=============================================================================
