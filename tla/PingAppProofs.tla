---------------------------- MODULE PingAppProofs ----------------------------
(***************************************************************************)
(* Proofs about PingApp, for every sequence space that holds two windows   *)
(* and a number, every window, message size and burst, and any number of   *)
(* messages, faults, sessions and clicks.                                  *)
(***************************************************************************)
EXTENDS PingApp, SeqSpaceProofs

Entries == [seq : Seqs, at : Nat, sess : Nat]
Locals ==
  [nak : {NoGap} \cup Seqs, act : {"Stay", "Enter", "Update", "Resume"},
   gap : {NoGap, COBS_SEQ_SPACE} \cup Seqs, sent : Nat]

\* The types of the app's variables, of the link's, and of the flags.
AppTypes ==
  /\ pc \in {"idle", "gap", "decide", "latch", "send", "draw", "retire"}
  /\ local \in Locals
  /\ queue \in Seq(Entries) /\ Len(queue) <= PIPELINE_WINDOW
  /\ draw \in 0..MaxSize /\ seqSize \in 1..MaxSize
  /\ gapSeq \in {NoGap, COBS_SEQ_SPACE} \cup Seqs
  /\ gapTimer \in 0..Expired /\ stallTimer \in 0..Expired
  /\ wait \subseteq {"cool", "pace", "settle"}

LinkTypes ==
  /\ base \in Nat /\ exp \in Nat /\ next \in Nat /\ session \in Nat
  /\ base <= exp /\ exp <= next /\ next - base <= Window
  /\ lastNak \in {NoGap} \cup Seqs
  /\ naked \subseteq base..(next - 1)

FlagTypes ==
  wasReady \in BOOLEAN /\ paused \in BOOLEAN /\ rampDue \in BOOLEAN /\ ready \in BOOLEAN

TypeInv == AppTypes /\ LinkTypes /\ FlagTypes

\* The chunk in flight under number s, if any, has been NAKed.
Reported(s) == \A c \in base..(next - 1) : SeqOf(c) = s => c \in naked

\* lastNakSeq_ names a NAKed chunk that is still in flight, so no chunk sent
\* later in the window shares its number; from the sample of it to the latch,
\* and for as long as the gap stop lasts, loop() sends nothing.
GapInv ==
  /\ lastNak # NoGap => \E k \in naked : SeqOf(k) = lastNak
  /\ Reported(lastNak)
  /\ gapSeq # NoGap => pc \notin {"send", "draw"}
  /\ Reported(gapSeq)
  /\ pc = "decide" => Reported(local.nak)
  /\ pc = "latch" => Reported(local.gap)

\* A message of the running session knows its first chunk.
QueueInv ==
  \A i \in 1..Len(queue) :
    /\ queue[i].seq = SeqOf(queue[i].at)
    /\ queue[i].sess <= session
    /\ ready /\ queue[i].sess = session => queue[i].at < next

\* What the gate saw still holds when sendMsg is called: only loop() sends.
DrawInv ==
  pc = "draw" =>
    /\ Len(queue) < PIPELINE_WINDOW
    /\ draw # 0 => arqPendingCount + draw <= Window

IInv == TypeInv /\ GapInv /\ QueueInv /\ DrawInv

-----------------------------------------------------------------------------
(* Types                                                                   *)

\* The queue after a message is appended or its head retired.
LEMMA QueueTypes ==
  ASSUME NEW q \in Seq(Entries)
  PROVE  /\ \A e \in Entries :
              /\ Append(q, e) \in Seq(Entries) /\ Len(Append(q, e)) = Len(q) + 1
              /\ \A i \in 1..(Len(q) + 1) :
                   Append(q, e)[i] = IF i <= Len(q) THEN q[i] ELSE e
         /\ q # <<>> =>
              /\ Tail(q) \in Seq(Entries) /\ Len(Tail(q)) = Len(q) - 1
              /\ \A i \in 1..(Len(q) - 1) : Tail(q)[i] = q[i + 1]
              /\ Head(q) = q[1] /\ Len(q) >= 1
         /\ Len(q) \in Nat
         /\ \A i \in 1..Len(q) : q[i] \in Entries
  OBVIOUS

LEMMA InitTypes == Init => TypeInv
<1> SUFFICES ASSUME Init PROVE TypeInv
  OBVIOUS
<1> USE SpaceAssumption, PingAssumption DEF Init
<1>1. AppTypes
  BY DEF AppTypes, Locals, NoLocal, NoGap, Expired
<1>2. LinkTypes
  BY DEF LinkTypes
<1>3. FlagTypes
  BY DEF FlagTypes
<1> QED
  BY <1>1, <1>2, <1>3 DEF TypeInv

LEMMA TypeInvTypes == TypeInv => TypeOK
<1> SUFFICES ASSUME TypeInv PROVE TypeOK
  OBVIOUS
<1> USE SpaceAssumption, PingAssumption DEF TypeInv
<1>1. \A i \in 1..Len(queue) : queue[i].seq \in Seqs
  BY QueueTypes DEF AppTypes, Entries
<1>2. base \in 0..exp /\ exp \in base..next /\ next - base \in 0..Window
  BY DEF LinkTypes
<1>3. {wasReady, paused, rampDue, ready} \subseteq BOOLEAN
  BY DEF FlagTypes
<1> QED
  BY <1>1, <1>2, <1>3 DEF TypeOK, AppTypes, LinkTypes

\* The actions that send, acknowledge, reset or lock are the only ones that
\* touch the link.
LEMMA LinkChanges ==
  ASSUME [Next]_vars
  PROVE  \/ UNCHANGED link
         \/ \E n \in 1..MaxSize : \E pace \in BOOLEAN : SendMsg(n, pace)
         \/ \E n \in 1..MaxSize : \E sent \in 0..(MaxSize - 1) : SendFails(n, sent)
         \/ PeerReceives
         \/ \E k \in base..exp : OnAck(k) \/ OnNak(k)
         \/ LinkReset \/ LinkLock
  BY DEF Next, Loop, Ack, vars, LoopStep, LoopLinkLost, LoopFirstReady, LoopTop, GapSample,
         GapDecide, GapLatch, SendGate, SendNotReady, SendWindowFull, Retire, LoopEnd,
         LoopEndRejected, SetFillMode, RestartRamp, Pause, Start, Tick

LEMMA NextLinkTypes == IInv /\ [Next]_vars => LinkTypes'
<1> SUFFICES ASSUME IInv, [Next]_vars PROVE LinkTypes'
  OBVIOUS
<1> USE SpaceAssumption, PingAssumption DEF IInv, TypeInv, LinkTypes
<1>1. CASE UNCHANGED link
  BY <1>1 DEF link
<1>2. ASSUME NEW n \in 1..MaxSize, NEW pace \in BOOLEAN, SendMsg(n, pace)
      PROVE  LinkTypes'
  <2>1. /\ next' = next + n /\ next - base + n <= Window
        /\ UNCHANGED <<base, exp, session, lastNak, naked>>
    BY <1>2 DEF SendMsg, arqPendingCount
  <2>2. base..(next - 1) \subseteq base'..(next' - 1)
    BY <2>1
  <2> QED
    BY <2>1, <2>2
<1>3. ASSUME NEW n \in 1..MaxSize, NEW sent \in 0..(MaxSize - 1), SendFails(n, sent)
      PROVE  LinkTypes'
  <2>1. /\ next' = next + sent /\ next - base + n <= Window /\ sent \in 0..(n - 1)
        /\ UNCHANGED <<base, exp, session, lastNak, naked>>
    BY <1>3 DEF SendFails, arqPendingCount
  <2>2. base..(next - 1) \subseteq base'..(next' - 1)
    BY <2>1
  <2> QED
    BY <2>1, <2>2
<1>4. CASE PeerReceives
  BY <1>4 DEF PeerReceives, LinkStep
<1>5. ASSUME NEW k \in base..exp, OnAck(k) PROVE LinkTypes'
  <2>1. lastNak' \in {NoGap} \cup Seqs
    BY <1>5 DEF OnAck, NakAfter
  <2>2. /\ base' = k /\ next' = next /\ exp' = exp /\ session' = session
        /\ k \in (base + 1)..exp /\ naked' = {c \in naked : c >= k}
    BY <1>5 DEF OnAck, LinkStep
  <2>3. ASSUME NEW c \in naked' PROVE c \in k..(next - 1)
    <3>1. c \in base..(next - 1) /\ c >= k
      BY <2>2
    <3> QED
      BY <3>1
  <2> QED
    <3>1. naked' \subseteq base'..(next' - 1)
      BY <2>2, <2>3
    <3>2. base' \in Nat /\ base' <= exp' /\ next' - base' <= Window
      BY <2>2
    <3> QED
      BY <2>1, <2>2, <3>1, <3>2
<1>6. ASSUME NEW k \in base..exp, OnNak(k) PROVE LinkTypes'
  <2>1. SeqOf(k) \in Seqs
    BY SeqOfType
  <2> QED
    BY <1>6, <2>1 DEF OnNak, LinkStep
<1>7. CASE LinkReset
  BY <1>7 DEF LinkReset
<1>8. CASE LinkLock
  BY <1>8 DEF LinkLock
<1> QED
  BY LinkChanges, <1>1, <1>2, <1>3, <1>4, <1>5, <1>6, <1>7, <1>8

LEMMA NextFlagTypes == IInv /\ [Next]_vars => FlagTypes'
<1> SUFFICES ASSUME IInv, [Next]_vars PROVE FlagTypes'
  OBVIOUS
<1> USE DEF IInv, TypeInv, FlagTypes
<1>1. ASSUME Loop PROVE FlagTypes'
  <2>1. /\ UNCHANGED <<ready, paused, rampDue>>
        /\ wasReady' = wasReady \/ wasReady' = TRUE \/ wasReady' = FALSE
    BY <1>1 DEF Loop, LoopStep, app, web, link, LoopLinkLost, LoopFirstReady, LoopTop,
       GapSample, GapDecide, GapLatch, SendGate, SendNotReady, SendMsg, SendWindowFull,
       SendFails, Retire, LoopEnd, LoopEndRejected
  <2> QED
    BY <2>1
<1>2. ASSUME NEW m \in {"SEQUENTIAL", "RANDOM"}, SetFillMode(m) PROVE FlagTypes'
  BY <1>2 DEF SetFillMode, app, link
<1>3. CASE RestartRamp \/ Pause \/ Start
  BY <1>3 DEF RestartRamp, Pause, Start, app, link
<1>4. CASE PeerReceives \/ \E k \in base..exp : OnAck(k) \/ OnNak(k)
  BY <1>4 DEF PeerReceives, OnAck, OnNak, LinkStep, app, web
<1>5. CASE LinkReset \/ LinkLock \/ Tick
  BY <1>5 DEF LinkReset, LinkLock, Tick, app, web, link
<1>6. CASE UNCHANGED vars
  BY <1>6 DEF vars, app, web, link
<1> QED
  BY <1>1, <1>2, <1>3, <1>4, <1>5, <1>6 DEF Next, Ack

\* The link's task, and the web task before a start, leave the app alone.
LEMMA AppChanges ==
  ASSUME [Next]_vars
  PROVE  \/ UNCHANGED <<pc, local, app>>
         \/ Loop \/ RestartRamp \/ Start \/ Tick
  BY DEF Next, Ack, vars, LinkStep, SetFillMode, Pause, PeerReceives, OnAck, OnNak,
         LinkReset, LinkLock

LEMMA NextAppTypes == IInv /\ [Next]_vars => AppTypes'
<1> SUFFICES ASSUME IInv, [Next]_vars PROVE AppTypes'
  OBVIOUS
<1> USE SpaceAssumption, PingAssumption DEF IInv, TypeInv, AppTypes
<1>1. CASE UNCHANGED <<pc, local, app>>
  BY <1>1 DEF app
<1>2. CASE LoopLinkLost
  BY <1>2 DEF LoopLinkLost, ClearQueue, Expired
<1>3. CASE LoopFirstReady
  BY <1>3 DEF LoopFirstReady, Expired
<1>4. CASE LoopTop
  <2>1. CASE ClearQueue /\ gapSeq' = NoGap
    BY <1>4, <2>1 DEF LoopTop, ClearQueue, Expired
  <2>2. CASE /\ stallTimer' = IF Len(queue) < PIPELINE_WINDOW THEN 0
                              ELSE IF stallTimer = 0 THEN 1 ELSE stallTimer
             /\ UNCHANGED <<queue, draw, gapSeq, gapTimer>>
    BY <1>4, <2>2 DEF LoopTop, Expired
  <2> QED
    BY <1>4, <2>1, <2>2 DEF LoopTop
<1>5. CASE GapSample
  BY <1>5 DEF GapSample, Locals, LinkTypes, app
<1>6. CASE GapDecide
  BY <1>6 DEF GapDecide, Locals, decideGapTransition, app
<1>7. CASE GapLatch
  BY <1>7 DEF GapLatch, Locals, NoLocal, Expired
<1>8. CASE SendGate
  BY <1>8 DEF SendGate, Locals, NoLocal, app
<1>9. CASE SendNotReady
  BY <1>9 DEF SendNotReady, Locals, NoLocal, app
<1>10. ASSUME NEW n \in 1..MaxSize, NEW pace \in BOOLEAN, SendMsg(n, pace)
       PROVE  AppTypes'
  <2>1. /\ queue' = Append(queue, [seq |-> SeqOf(next), at |-> next, sess |-> session])
        /\ Len(queue) < PIPELINE_WINDOW
    BY <1>10 DEF SendMsg, DrawInv
  <2>2. [seq |-> SeqOf(next), at |-> next, sess |-> session] \in Entries
    BY SeqOfType DEF Entries, LinkTypes
  <2>3. queue' \in Seq(Entries) /\ Len(queue') <= PIPELINE_WINDOW
    BY <2>1, <2>2, QueueTypes
  <2>4. local' \in Locals
    <3>1. local' = [local EXCEPT !.sent = local.sent + 1]
      BY <1>10 DEF SendMsg
    <3>2. local.sent + 1 \in Nat
      BY DEF Locals
    <3> QED
      BY <3>1, <3>2 DEF Locals
  <2>5. seqSize' \in 1..MaxSize
    <3>1. MaxSize \in Nat \ {0} /\ seqSize \in 1..MaxSize
      OBVIOUS
    <3>2. seqSize' \in {seqSize, 1} \/ (seqSize # MaxSize /\ seqSize' = seqSize + 1)
      BY <1>10 DEF SendMsg
    <3> QED
      BY <3>1, <3>2
  <2>6. /\ pc' = "send" /\ draw' = 0 /\ wait' \subseteq {"cool", "pace", "settle"}
        /\ UNCHANGED <<gapSeq, gapTimer, stallTimer>>
    BY <1>10 DEF SendMsg
  <2> QED
    BY <2>3, <2>4, <2>5, <2>6
<1>11. ASSUME NEW n \in 1..MaxSize, SendWindowFull(n) PROVE AppTypes'
  BY <1>11 DEF SendWindowFull, Locals, NoLocal
<1>12. ASSUME NEW n \in 1..MaxSize, NEW sent \in 0..(MaxSize - 1), SendFails(n, sent)
       PROVE  AppTypes'
  BY <1>12 DEF SendFails, Locals, NoLocal
<1>13. CASE Retire
  BY <1>13, QueueTypes DEF Retire, HeadAcked
<1>14. CASE LoopEnd
  BY <1>14 DEF LoopEnd, app
<1>15. CASE LoopEndRejected
  BY <1>15 DEF LoopEndRejected, ClearQueue, Expired
<1>16. CASE RestartRamp
  BY <1>16 DEF RestartRamp
<1>17. CASE Start
  BY <1>17 DEF Start, ClearQueue, Expired
<1>18. CASE Tick
  BY <1>18 DEF Tick, Expired
<1> QED
  BY AppChanges, <1>1, <1>2, <1>3, <1>4, <1>5, <1>6, <1>7, <1>8, <1>9, <1>10, <1>11,
     <1>12, <1>13, <1>14, <1>15, <1>16, <1>17, <1>18 DEF Loop

-----------------------------------------------------------------------------
(* The gap stop                                                            *)

\* No chunk has the number NoGap or COBS_SEQ_SPACE.
LEMMA NoChunkNumber ==
  \A c \in Nat : SeqOf(c) \notin {NoGap, COBS_SEQ_SPACE}
  BY SeqOfType, SpaceAssumption DEF NoGap, Seqs

\* Two chunks of one window have different numbers.
LEMMA WindowNumbers ==
  ASSUME NEW b \in Nat, NEW c \in b..(b + Window - 1), NEW d \in b..(b + Window - 1),
         SeqOf(c) = SeqOf(d)
  PROVE  c = d
<1> USE SpaceAssumption, PingAssumption
<1>1. c \in Nat /\ d \in Nat
  OBVIOUS
<1>2. CASE c < d
  <2>1. d - c \in 1..(COBS_SEQ_SPACE - 1) /\ c + (d - c) = d
    BY <1>1, <1>2
  <2>2. SeqOf(c + (d - c)) # SeqOf(c)
    BY <1>1, <2>1, SeqOfInjective
  <2> QED
    BY <2>1, <2>2
<1>3. CASE d < c
  <2>1. c - d \in 1..(COBS_SEQ_SPACE - 1) /\ d + (c - d) = c
    BY <1>1, <1>3
  <2>2. SeqOf(d + (c - d)) # SeqOf(d)
    BY <1>1, <2>1, SeqOfInjective
  <2> QED
    BY <2>1, <2>2
<1> QED
  BY <1>1, <1>2, <1>3

\* A chunk sent while the NAK latch is set does not take the latched number.
LEMMA NewChunkIsUnreported ==
  ASSUME IInv, NEW m \in Nat, next - base + m <= Window,
         NEW c \in next..(next + m - 1)
  PROVE  SeqOf(c) # lastNak
<1> USE SpaceAssumption, PingAssumption DEF IInv, TypeInv, LinkTypes
<1>1. c \in Nat /\ c \in base..(base + Window - 1) /\ c >= next
  OBVIOUS
<1>2. CASE lastNak = NoGap
  BY <1>1, <1>2, NoChunkNumber
<1>3. CASE lastNak # NoGap
  <2>1. PICK k \in naked : SeqOf(k) = lastNak
    BY <1>3 DEF GapInv
  <2>2. k \in base..(next - 1)
    OBVIOUS
  <2>3. k \in base..(base + Window - 1) /\ k < next
    BY <2>2
  <2> QED
    BY <1>1, <2>1, <2>3, WindowNumbers
<1> QED
  BY <1>2, <1>3

\* While loop() does not send, what was reported stays reported.
LEMMA ReportedKept ==
  ASSUME IInv, [Next]_vars, pc # "draw", NEW s, Reported(s)
  PROVE  \A c \in base'..(next' - 1) : SeqOf(c) = s => c \in naked'
<1> USE DEF IInv, TypeInv, LinkTypes, Reported
<1>1. CASE UNCHANGED link
  BY <1>1 DEF link
<1>2. CASE PeerReceives
  BY <1>2 DEF PeerReceives
<1>3. ASSUME NEW k \in base..exp, OnAck(k)
      PROVE  \A c \in base'..(next' - 1) : SeqOf(c) = s => c \in naked'
  BY <1>3 DEF OnAck
<1>4. ASSUME NEW k \in base..exp, OnNak(k)
      PROVE  \A c \in base'..(next' - 1) : SeqOf(c) = s => c \in naked'
  BY <1>4 DEF OnNak
<1>5. CASE LinkReset
  BY <1>5 DEF LinkReset
<1>6. CASE LinkLock
  BY <1>6 DEF LinkLock
<1>7. /\ \A n, pace : ~SendMsg(n, pace)
      /\ \A n, sent : ~SendFails(n, sent)
  BY DEF SendMsg, SendFails
<1> QED
  BY LinkChanges, <1>1, <1>2, <1>3, <1>4, <1>5, <1>6, <1>7

\* The latch lastNakSeq_ names a NAKed chunk in flight, and only that.
LEMMA NakLatchKept ==
  ASSUME IInv, [Next]_vars
  PROVE  /\ lastNak' # NoGap => \E k \in naked' : SeqOf(k) = lastNak'
         /\ Reported(lastNak)'
<1> DEFINE Goal == /\ lastNak' # NoGap => \E k \in naked' : SeqOf(k) = lastNak'
                   /\ Reported(lastNak)'
<1> USE SpaceAssumption, PingAssumption DEF IInv, TypeInv, LinkTypes, Reported
<1>1. CASE UNCHANGED link
  BY <1>1 DEF link, GapInv
<1>2. ASSUME NEW m \in Nat, next - base + m <= Window, next' = next + m,
             UNCHANGED <<base, lastNak, naked>>
      PROVE  Goal
  <2>1. \A c \in next..(next + m - 1) : SeqOf(c) # lastNak
    BY <1>2, NewChunkIsUnreported
  <2>2. \A c \in base..(next + m - 1) :
          c \in base..(next - 1) \/ c \in next..(next + m - 1)
    OBVIOUS
  <2> QED
    BY <1>2, <2>1, <2>2 DEF GapInv
<1>3. ASSUME NEW n \in 1..MaxSize, NEW pace \in BOOLEAN, SendMsg(n, pace) PROVE Goal
  BY <1>2, <1>3 DEF SendMsg, arqPendingCount
<1>4. ASSUME NEW n \in 1..MaxSize, NEW sent \in 0..(MaxSize - 1), SendFails(n, sent)
      PROVE  Goal
  <2>1. /\ next' = next + sent /\ next - base + n <= Window /\ sent \in 0..(n - 1)
        /\ UNCHANGED <<base, lastNak, naked>>
    BY <1>4 DEF SendFails, arqPendingCount
  <2> QED
    BY <1>2, <2>1
<1>5. CASE PeerReceives
  BY <1>5 DEF PeerReceives, GapInv
<1>6. ASSUME NEW k \in base..exp, OnAck(k) PROVE Goal
  <2>1. /\ base' = k /\ next' = next /\ naked' = {c \in naked : c >= k}
        /\ lastNak' = NakAfter(k)
    BY <1>6 DEF OnAck
  <2>2. CASE lastNak' = NoGap
    BY <2>1, <2>2, NoChunkNumber
  <2>3. CASE lastNak' # NoGap
    <3>1. /\ lastNak' = lastNak /\ lastNak # NoGap
          /\ \A c \in base..(k - 1) : SeqOf(c) # lastNak
      BY <2>1, <2>3 DEF NakAfter
    <3>2. PICK j \in naked : SeqOf(j) = lastNak
      BY <3>1 DEF GapInv
    <3>3. j \in base..(next - 1)
      OBVIOUS
    <3>4. j \notin base..(k - 1)
      BY <3>1, <3>2
    <3>5. j \in naked'
      BY <2>1, <3>3, <3>4
    <3>6. \A c \in k..(next - 1) : c \in base..(next - 1)
      OBVIOUS
    <3>7. Reported(lastNak)'
      BY <2>1, <3>1, <3>6 DEF GapInv
    <3> QED
      BY <3>1, <3>2, <3>5, <3>7
  <2> QED
    BY <2>2, <2>3
<1>7. ASSUME NEW k \in base..exp, OnNak(k) PROVE Goal
  <2>1. base' = k /\ next' = next /\ naked' = {k} /\ lastNak' = SeqOf(k) /\ k < next
    BY <1>7 DEF OnNak
  <2>2. \A c \in k..(next - 1) : SeqOf(c) = SeqOf(k) => c = k
    <3> TAKE c \in k..(next - 1)
    <3>1. c \in base..(base + Window - 1) /\ k \in base..(base + Window - 1)
      BY <2>1
    <3> QED
      BY <3>1, WindowNumbers
  <2> QED
    BY <2>1, <2>2
<1>8. CASE LinkReset
  BY <1>8 DEF LinkReset
<1>9. CASE LinkLock
  BY <1>9 DEF LinkLock, GapInv
<1> QED
  BY LinkChanges, <1>1, <1>3, <1>4, <1>5, <1>6, <1>7, <1>8, <1>9

\* Where gapSeq_ comes from.
LEMMA GapSource ==
  ASSUME IInv, [Next]_vars
  PROVE  /\ \/ gapSeq' \in {gapSeq, NoGap, COBS_SEQ_SPACE}
            \/ pc = "latch" /\ gapSeq' = local.gap
         /\ gapSeq' # NoGap => pc' \notin {"send", "draw"}
<1> USE DEF IInv, GapInv
<1>1. CASE UNCHANGED <<pc, local, app>>
  BY <1>1 DEF app
<1>2. CASE LoopLinkLost \/ LoopFirstReady \/ LoopTop \/ Start
  BY <1>2 DEF LoopLinkLost, LoopFirstReady, LoopTop, Start
<1>3. CASE GapSample \/ GapDecide \/ SendGate \/ SendNotReady \/ LoopEnd
  BY <1>3 DEF GapSample, GapDecide, SendGate, SendNotReady, LoopEnd, app
<1>4. CASE GapLatch
  BY <1>4 DEF GapLatch
<1>5. CASE Retire \/ LoopEndRejected \/ RestartRamp \/ Tick
  BY <1>5 DEF Retire, LoopEndRejected, RestartRamp, Tick
<1>6. CASE \E n \in 1..MaxSize :
             \/ \E pace \in BOOLEAN : SendMsg(n, pace)
             \/ SendWindowFull(n)
             \/ \E sent \in 0..(MaxSize - 1) : SendFails(n, sent)
  BY <1>6 DEF SendMsg, SendWindowFull, SendFails
<1> QED
  BY AppChanges, <1>1, <1>2, <1>3, <1>4, <1>5, <1>6 DEF Loop

\* Where the sampled NAK and the decision of loop() come from.
LEMMA LocalSource ==
  ASSUME IInv, [Next]_vars
  PROVE  /\ pc' = "decide" =>
              \/ pc = "decide" /\ local' = local
              \/ local'.nak = lastNak /\ pc # "draw"
         /\ pc' = "latch" =>
              \/ pc = "latch" /\ local' = local
              \/ pc = "decide" /\ local'.gap \in {NoGap, local.nak, gapSeq}
<1> USE DEF IInv, TypeInv, AppTypes
<1>1. CASE UNCHANGED <<pc, local, app>>
  BY <1>1
<1>2. CASE LoopLinkLost \/ LoopFirstReady \/ LoopTop \/ Start
  BY <1>2 DEF LoopLinkLost, LoopFirstReady, LoopTop, Start
<1>3. CASE GapSample
  BY <1>3 DEF GapSample, Locals
<1>4. CASE GapDecide
  BY <1>4 DEF GapDecide, decideGapTransition, Locals
<1>5. CASE SendGate \/ SendNotReady \/ LoopEnd \/ GapLatch
  BY <1>5 DEF SendGate, SendNotReady, LoopEnd, GapLatch
<1>6. CASE Retire \/ LoopEndRejected \/ RestartRamp \/ Tick
  BY <1>6 DEF Retire, LoopEndRejected, RestartRamp, Tick
<1>7. CASE \E n \in 1..MaxSize :
             \/ \E pace \in BOOLEAN : SendMsg(n, pace)
             \/ SendWindowFull(n)
             \/ \E sent \in 0..(MaxSize - 1) : SendFails(n, sent)
  BY <1>7 DEF SendMsg, SendWindowFull, SendFails
<1> QED
  BY AppChanges, <1>1, <1>2, <1>3, <1>4, <1>5, <1>6, <1>7 DEF Loop

LEMMA NextGap == IInv /\ [Next]_vars => GapInv'
<1> SUFFICES ASSUME IInv, [Next]_vars PROVE GapInv'
  OBVIOUS
<1>1. /\ lastNak' # NoGap => \E k \in naked' : SeqOf(k) = lastNak'
      /\ Reported(lastNak)'
  BY NakLatchKept
<1>2. gapSeq' # NoGap => pc' \notin {"send", "draw"}
  BY GapSource
<1>3. LinkTypes /\ LinkTypes'
  BY NextLinkTypes DEF IInv, TypeInv
<1>4. ASSUME NEW s \in {NoGap, COBS_SEQ_SPACE}
      PROVE  \A c \in base'..(next' - 1) : SeqOf(c) = s => c \in naked'
  <2> TAKE c \in base'..(next' - 1)
  <2>1. c \in Nat
    BY <1>3 DEF LinkTypes
  <2> QED
    BY <2>1, NoChunkNumber
<1>5. Reported(gapSeq)'
  <2>1. CASE gapSeq' \in {NoGap, COBS_SEQ_SPACE}
    BY <1>4, <2>1 DEF Reported
  <2>2. CASE gapSeq' = gapSeq /\ gapSeq # NoGap
    <3>1. pc # "draw" /\ Reported(gapSeq)
      BY <2>2 DEF IInv, GapInv
    <3> QED
      BY <2>2, <3>1, ReportedKept DEF Reported
  <2>3. CASE pc = "latch" /\ gapSeq' = local.gap
    <3>1. Reported(local.gap)
      BY <2>3 DEF IInv, GapInv
    <3> QED
      BY <2>3, <3>1, ReportedKept DEF Reported
  <2> QED
    BY <2>1, <2>2, <2>3, GapSource
<1>6. ASSUME pc' = "decide" PROVE Reported(local.nak)'
  <2>1. CASE pc = "decide" /\ local' = local
    <3>1. Reported(local.nak)
      BY <2>1 DEF IInv, GapInv
    <3> QED
      BY <2>1, <3>1, ReportedKept DEF Reported
  <2>2. CASE local'.nak = lastNak /\ pc # "draw"
    <3>1. Reported(lastNak)
      BY DEF IInv, GapInv
    <3> QED
      BY <2>2, <3>1, ReportedKept DEF Reported
  <2> QED
    BY <1>6, <2>1, <2>2, LocalSource
<1>7. ASSUME pc' = "latch" PROVE Reported(local.gap)'
  <2>1. CASE pc = "latch" /\ local' = local
    <3>1. Reported(local.gap)
      BY <2>1 DEF IInv, GapInv
    <3> QED
      BY <2>1, <3>1, ReportedKept DEF Reported
  <2>2. CASE pc = "decide" /\ local'.gap \in {local.nak, gapSeq}
    <3>1. Reported(local.nak) /\ Reported(gapSeq)
      BY <2>2 DEF IInv, GapInv
    <3> QED
      BY <2>2, <3>1, ReportedKept DEF Reported
  <2>3. CASE local'.gap = NoGap
    BY <1>4, <2>3 DEF Reported
  <2> QED
    BY <1>7, <2>1, <2>2, <2>3, LocalSource
<1> QED
  BY <1>1, <1>2, <1>5, <1>6, <1>7 DEF GapInv

-----------------------------------------------------------------------------
(* The pipeline and the gate                                               *)

LEMMA NextQueue == IInv /\ [Next]_vars => QueueInv'
<1> SUFFICES ASSUME IInv, [Next]_vars PROVE QueueInv'
  OBVIOUS
<1> USE DEF IInv, TypeInv, AppTypes, LinkTypes
<1>1. queue \in Seq(Entries) /\ \A i \in 1..Len(queue) : queue[i] \in Entries
  BY QueueTypes
<1>2. CASE queue' = <<>>
  BY <1>2 DEF QueueInv
<1>3. ASSUME queue' = queue, session' = session, ready' => ready /\ next <= next',
             next' \in Nat
      PROVE  QueueInv'
  <2> SUFFICES ASSUME NEW i \in 1..Len(queue)
               PROVE  /\ queue[i].seq = SeqOf(queue[i].at)
                      /\ queue[i].sess <= session
                      /\ ready' /\ queue[i].sess = session => queue[i].at < next'
    BY <1>3 DEF QueueInv
  <2>1. /\ queue[i].seq = SeqOf(queue[i].at)
        /\ queue[i].sess <= session
        /\ ready /\ queue[i].sess = session => queue[i].at < next
    BY DEF QueueInv
  <2>2. queue[i].at \in Nat /\ next \in Nat
    BY <1>1 DEF Entries
  <2> QED
    BY <1>3, <2>1, <2>2
<1>4. CASE Retire
  <2>1. queue # <<>> /\ queue' = Tail(queue) /\ UNCHANGED <<session, ready, next>>
    BY <1>4 DEF Retire, HeadAcked, LoopStep, link
  <2>2. /\ Len(queue') = Len(queue) - 1 /\ Len(queue) \in Nat
        /\ \A i \in 1..(Len(queue) - 1) : queue'[i] = queue[i + 1]
    BY <2>1, QueueTypes
  <2>3. \A i \in 1..(Len(queue) - 1) : i + 1 \in 1..Len(queue)
    BY <2>2
  <2> QED
    BY <2>1, <2>2, <2>3 DEF QueueInv
<1>5. ASSUME NEW n \in 1..MaxSize, NEW pace \in BOOLEAN, SendMsg(n, pace)
      PROVE  QueueInv'
  <2> DEFINE e == [seq |-> SeqOf(next), at |-> next, sess |-> session]
  <2>1. /\ queue' = Append(queue, e) /\ next' = next + n
        /\ UNCHANGED <<session, ready>>
    BY <1>5 DEF SendMsg
  <2>2. e \in Entries
    BY SeqOfType DEF Entries
  <2>3. /\ Len(queue') = Len(queue) + 1 /\ Len(queue) \in Nat
        /\ \A i \in 1..(Len(queue) + 1) :
             queue'[i] = IF i <= Len(queue) THEN queue[i] ELSE e
    BY <2>1, <2>2, QueueTypes
  <2>4. n \in Nat \ {0}
    BY PingAssumption
  <2>5. ASSUME NEW i \in 1..Len(queue')
        PROVE  /\ queue'[i].seq = SeqOf(queue'[i].at)
               /\ queue'[i].sess <= session'
               /\ ready' /\ queue'[i].sess = session' => queue'[i].at < next'
    <3>1. CASE i <= Len(queue)
      <4>1. i \in 1..Len(queue) /\ queue'[i] = queue[i]
        BY <2>3, <2>5, <3>1
      <4>2. /\ queue[i].seq = SeqOf(queue[i].at)
            /\ queue[i].sess <= session
            /\ ready /\ queue[i].sess = session => queue[i].at < next
        BY <4>1 DEF QueueInv
      <4>3. queue[i].at \in Nat /\ next \in Nat
        BY <1>1, <4>1 DEF Entries
      <4> QED
        BY <2>1, <2>4, <4>1, <4>2, <4>3
    <3>2. CASE ~(i <= Len(queue))
      <4>1. queue'[i] = e
        BY <2>3, <2>5, <3>2
      <4>2. e.seq = SeqOf(e.at) /\ e.sess = session /\ e.at = next
        OBVIOUS
      <4>3. session <= session /\ next < next + n
        BY <2>4
      <4> HIDE DEF e
      <4> QED
        BY <2>1, <4>1, <4>2, <4>3
    <3> QED
      BY <3>1, <3>2
  <2> QED
    BY <2>5 DEF QueueInv
<1>6. CASE LinkLock
  <2>1. queue' = queue /\ session' = session + 1
    BY <1>6 DEF LinkLock, app
  <2>2. \A i \in 1..Len(queue) : queue[i].sess \in Nat /\ queue[i].sess <= session
    BY <1>1 DEF QueueInv, Entries
  <2>3. \A i \in 1..Len(queue) : queue[i].sess <= session + 1 /\ queue[i].sess # session + 1
    BY <2>2
  <2> QED
    BY <2>1, <2>3 DEF QueueInv
<1>7. ASSUME NEW n \in 1..MaxSize, NEW sent \in 0..(MaxSize - 1), SendFails(n, sent)
      PROVE  QueueInv'
  BY <1>3, <1>7 DEF SendFails
<1>8. CASE LinkReset
  BY <1>3, <1>8 DEF LinkReset, app
<1>9. CASE PeerReceives \/ \E k \in base..exp : OnAck(k) \/ OnNak(k)
  BY <1>3, <1>9 DEF PeerReceives, OnAck, OnNak, LinkStep, app
<1>10. CASE LoopLinkLost \/ LoopEndRejected \/ Start
  BY <1>2, <1>10 DEF LoopLinkLost, LoopEndRejected, Start, ClearQueue
<1>11. CASE LoopTop
  BY <1>2, <1>3, <1>11 DEF LoopTop, ClearQueue, LoopStep, link
<1>12. CASE \/ LoopFirstReady \/ GapLatch \/ Tick \/ RestartRamp
            \/ \E n \in 1..MaxSize : SendWindowFull(n)
  BY <1>3, <1>12 DEF LoopFirstReady, GapLatch, Tick, RestartRamp, SendWindowFull, LoopStep, link
<1>13. CASE \/ GapSample \/ GapDecide \/ SendGate \/ SendNotReady \/ LoopEnd \/ Pause
            \/ \E m \in {"SEQUENTIAL", "RANDOM"} : SetFillMode(m)
  BY <1>3, <1>13 DEF GapSample, GapDecide, SendGate, SendNotReady, LoopEnd, Pause,
     SetFillMode, LoopStep, app, link
<1>14. CASE UNCHANGED vars
  BY <1>3, <1>14 DEF vars, app, link
<1> QED
  BY <1>4, <1>5, <1>6, <1>7, <1>8, <1>9, <1>10, <1>11, <1>12, <1>13, <1>14
     DEF Next, Loop, Ack

LEMMA NextDraw == IInv /\ [Next]_vars => DrawInv'
<1> SUFFICES ASSUME IInv, [Next]_vars, pc' = "draw" PROVE DrawInv'
  BY DEF DrawInv
<1> USE SpaceAssumption, PingAssumption DEF IInv, TypeInv, AppTypes, LinkTypes
<1>1. CASE SendGate
  <2>1. ~SendStops /\ UNCHANGED <<queue, draw, base, next>>
    BY <1>1 DEF SendGate, app, LoopStep, link
  <2>2. Len(queue) # PIPELINE_WINDOW /\ ~(Window - arqPendingCount < NeededChunks)
    BY <2>1 DEF SendStops
  <2>3. draw # 0 => NeededChunks = draw
    BY DEF NeededChunks
  <2>4. Len(queue) \in Nat
    OBVIOUS
  <2> QED
    BY <2>1, <2>2, <2>3, <2>4 DEF DrawInv, arqPendingCount
<1>2. ASSUME pc = "draw", queue' = queue, draw' = draw,
             next' \in Nat, base' \in Nat, next' - base' <= next - base
      PROVE  DrawInv'
  <2>1. Window \in Int /\ draw \in Int /\ next \in Int /\ base \in Int
    OBVIOUS
  <2>2. ASSUME draw # 0 PROVE next' - base' + draw <= Window
    <3>1. next - base + draw <= Window
      BY <1>2, <2>2 DEF DrawInv, arqPendingCount
    <3>2. next' \in Int /\ base' \in Int
      BY <1>2
    <3>3. next' - base' <= next - base
      BY <1>2, Zenon
    <3>4. \A a, b, c, d, e, w \in Int : a - b <= c - d /\ c - d + e <= w => a - b + e <= w
      OBVIOUS
    <3> QED
      BY <2>1, <3>1, <3>2, <3>3, <3>4
  <2>3. Len(queue) < PIPELINE_WINDOW
    BY <1>2 DEF DrawInv
  <2> QED
    BY <1>2, <2>2, <2>3 DEF DrawInv, arqPendingCount
<1>3. CASE UNCHANGED <<pc, local, app>>
  <2>1. pc = "draw" /\ UNCHANGED <<queue, draw>>
    BY <1>3 DEF app
  <2>2. /\ \A n, pace : ~SendMsg(n, pace)
        /\ \A n, sent : ~SendFails(n, sent)
    BY <1>3, <2>1 DEF SendMsg, SendFails
  <2>3. LinkTypes'
    BY NextLinkTypes
  <2>4. next' - base' <= next - base
    <3>1. CASE UNCHANGED link \/ PeerReceives \/ LinkLock
      BY <3>1 DEF link, PeerReceives, LinkLock
    <3>2. ASSUME NEW k \in base..exp, OnAck(k) \/ OnNak(k) PROVE next' - base' <= next - base
      BY <3>2 DEF OnAck, OnNak
    <3>3. CASE LinkReset
      BY <3>3 DEF LinkReset
    <3> QED
      BY LinkChanges, <2>2, <3>1, <3>2, <3>3
  <2> QED
    BY <1>2, <2>1, <2>3, <2>4
<1>4. CASE RestartRamp \/ Tick
  BY <1>2, <1>4 DEF RestartRamp, Tick, link
<1>5. ~Start
  BY DEF Start
<1>6. ASSUME Loop PROVE SendGate
  BY <1>6 DEF Loop, LoopLinkLost, LoopFirstReady, LoopTop, GapSample, GapDecide, GapLatch,
     SendNotReady, SendMsg, SendWindowFull, SendFails, Retire, LoopEnd, LoopEndRejected
<1> QED
  BY AppChanges, <1>1, <1>3, <1>4, <1>5, <1>6

-----------------------------------------------------------------------------
(* The theorems                                                            *)

LEMMA InitPing == Init => IInv
<1> SUFFICES ASSUME Init PROVE IInv
  OBVIOUS
<1>1. TypeInv
  BY InitTypes
<1>2. GapInv
  BY DEF Init, GapInv, Reported, NoGap
<1>3. QueueInv /\ DrawInv
  BY DEF Init, QueueInv, DrawInv
<1> QED
  BY <1>1, <1>2, <1>3 DEF IInv

\* The inductive invariant holds in every reachable state of the application.
THEOREM PingInvariant == Spec => []IInv
<1>1. IInv /\ [Next]_vars => IInv'
  BY NextAppTypes, NextLinkTypes, NextFlagTypes, NextGap, NextQueue, NextDraw
     DEF IInv, TypeInv
<1> QED
  BY <1>1, InitPing, PTL DEF Spec

\* The fields of Ping and of the link below it keep their types, and the
\* pipeline never outgrows queue_[].
THEOREM PingTypes == Spec => []TypeOK
<1>1. IInv => TypeOK
  BY TypeInvTypes DEF IInv
<1> QED
  BY <1>1, PingInvariant, PTL

\* loop() stops for a gap only while the chunk in flight under that number is
\* one the peer has NAKed in this session, for any number of laps of the
\* sequence space and any number of sessions, although the NAK is sampled,
\* decided on and latched in three separate steps.
THEOREM GapStopsForReported == Spec => []GapWasReported
<1>1. IInv => GapWasReported
  BY DEF IInv, GapInv, Reported, GapWasReported
<1> QED
  BY <1>1, PingInvariant, PTL

\* loop() counts an echo for a message of the running session only after its
\* first chunk has been acknowledged.
THEOREM CountsOnlyAcked == Spec => CountedWasAcked
<1>1. ASSUME IInv, [Next]_vars, Retire, ready, Head(queue).sess = session
      PROVE  Head(queue).at < base
  <2> USE DEF IInv, TypeInv, AppTypes, LinkTypes
  <2>1. queue # <<>> /\ budgetIdx(Head(queue).seq) \notin pendingBits
    BY <1>1 DEF Retire, HeadAcked, isAcked
  <2>2. Head(queue) = queue[1] /\ 1 \in 1..Len(queue) /\ Head(queue) \in Entries
    BY <1>1, <2>1, QueueTypes
  <2>3. Head(queue).seq = SeqOf(Head(queue).at) /\ Head(queue).at < next
    BY <1>1, <2>2 DEF QueueInv
  <2>4. Head(queue).at \in Nat
    BY <2>2 DEF Entries
  <2>5. Head(queue).at \notin base..(next - 1)
    BY <2>1, <2>3 DEF pendingBits
  <2> QED
    BY <1>1, <2>3, <2>4, <2>5
<1>2. IInv /\ [Next]_vars =>
        [Retire /\ ready /\ Head(queue).sess = session => Head(queue).at < base]_vars
  BY <1>1
<1> QED
  BY <1>2, PingInvariant, PTL DEF Spec, CountedWasAcked

\* The window never refuses a retained draw: what the gate saw
\* still holds when sendMsg is called.
THEOREM RetainedDrawFits == Spec => RetainedIsAdmitted
<1>1. ASSUME IInv, draw # 0, NEW n \in 1..MaxSize PROVE ~SendWindowFull(n)
  <2> SUFFICES ASSUME SendWindowFull(n) PROVE FALSE
    OBVIOUS
  <2>1. pc = "draw" /\ n \in Sizes /\ arqPendingCount + n > Window
    BY DEF SendWindowFull
  <2>2. n = draw
    BY <1>1, <2>1 DEF Sizes
  <2>3. arqPendingCount + draw <= Window
    BY <1>1, <2>1 DEF IInv, DrawInv
  <2>4. arqPendingCount \in Int /\ draw \in Int /\ Window \in Int
    BY <1>1, SpaceAssumption, PingAssumption
       DEF IInv, TypeInv, AppTypes, LinkTypes, arqPendingCount
  <2> QED
    BY <2>1, <2>2, <2>3, <2>4
<1>2. IInv /\ [Next]_vars =>
        [draw # 0 => ~\E n \in 1..MaxSize : SendWindowFull(n)]_vars
  BY <1>1
<1> QED
  BY <1>2, PingInvariant, PTL DEF Spec, RetainedIsAdmitted
=============================================================================
