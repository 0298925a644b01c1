------------------------------- MODULE OkTimer -------------------------------
(***************************************************************************)
(* The OK timer of one ASYNC board: what Link::onTimerOk decides about the *)
(* chunks in flight (the retransmit ladder of sweepRetx_unlocked) and      *)
(* about the peer (the watchdogs of applyHealth_unlocked), against a peer  *)
(* that acknowledges, NAKs, babbles or keeps silent as it likes.           *)
(*                                                                         *)
(* Time is counted in units of one retransmit timeout, and a time stamp is *)
(* modelled by its age.  An age stops growing where no comparison can tell *)
(* the difference any more.  Sequence numbers are not modelled: the window *)
(* is the sequence of the chunks in flight, its head is the base.          *)
(***************************************************************************)
EXTENDS Integers, Sequences

CONSTANTS
  Window,        \* arqCache_.window()
  Pool,          \* ArqCache::POOL_SIZE
  MaxRetx,       \* cfg.maxRetx
  BurstMax,      \* cfg.gbnResendBurstMax
  Rto,           \* baudAwareRtoMs_unlocked(), at least syncAckTimeoutMs
  Sync,          \* cfg.syncAckTimeoutMs, which is also okTickMs()
  ChunkDrain,    \* time one chunk takes on the wire, 0 at a fast baud
  BackoffCap,    \* gbnBackoffCapMs_unlocked()
  KeepCap,       \* DEFAULT_GBN_KEEP_RESCUE_CAP
  BacklogCap,    \* DEFAULT_GBN_APPBACKLOG_CAP
  Idle,          \* cfg.idleTimeoutMs; 0 turns the watchdogs off
  FastIdleTx,    \* healthFastIdleTxMs()
  StalledFloor,  \* the 2 s floor of healthPeerStalledMs
  Camp,          \* resweepPrefBudgetMs_unlocked()
  FairChance,    \* postLockQuietMs + 2 * syncAckTimeoutMs
  Mismatch,      \* kPeerBaudMismatchThreshold
  Roles,         \* the roles of the board: TRUE is the master
  MaxLate,       \* bound: how late the timer task may be
  MaxRingFull    \* bound: times the TX ring has no room for a resend

ASSUME TimerAssumption ==
  /\ {Window, Pool, MaxRetx, Rto, Sync, KeepCap, Mismatch} \subseteq Nat \ {0}
  /\ {BurstMax, ChunkDrain, BackoffCap, BacklogCap, Idle, FastIdleTx,
      StalledFloor, Camp, FairChance, MaxLate, MaxRingFull} \subseteq Nat
  /\ Sync <= Rto /\ Roles \subseteq BOOLEAN

VARIABLES
  isMaster,         \* isMaster, fixed by begin()
  state,            \* "OK" or "SWP"
  win,              \* the chunks in flight: sentAtMs_, retxCount_, nakCount_
  attempts,         \* gbnAttempts_
  backoff,          \* gbnBackoffMs_
  lastRetxBase,     \* gbnLastRetxBase_: "none", "base" or "other"
  resent,           \* gbnLastResendBase_ is the base
  tracked,          \* gbnBaseStuckTrackedSeq_ is the base
  stuck,            \* age of gbnBaseStuckSinceMs_
  keeps,            \* consecutiveKeep_
  backlogs,         \* consecutiveAppBacklog_
  sinceTick,        \* age of lastOkTickMs_; Never before the first tick
  rxAge, validAge, txAge, lockAge,  \* lastRxMs, lastValidRxMs, lastTxMs, lockedAtMs_
  rejFirst, rejLast,                \* txRejFirstMs_, txRejLastMs_, or Never
  frameErrs,        \* frameErrs > 0
  locksWithoutRecv, \* locksWithoutRecv_
  timer,            \* time to the next onTimer()
  late,             \* how long onTimer() is overdue
  ringFull,         \* resends that found no room so far
  crossed,          \* history: an ACK, NAK or message arrived in this session
  mute,             \* history: sessions in a row that had a fair chance and
                    \* ended without one
  why               \* history: why the last session ended, "up" in a session

ladder == <<attempts, backoff, lastRetxBase, resent, tracked, stuck, keeps>>
clocks == <<rxAge, validAge, txAge, lockAge>>
rejects == <<rejFirst, rejLast>>
evidence == <<locksWithoutRecv, crossed, mute>>
vars == <<isMaster, state, win, ladder, backlogs, sinceTick, clocks, rejects, frameErrs,
          evidence, timer, late, ringFull, why>>

Never == -1
Larger(a, b) == IF a > b THEN a ELSE b
Smaller(a, b) == IF a < b THEN a ELSE b
Base == Head(win)
gbnActive == win # <<>>

\* The largest value each age is compared with, plus one: an age grows no
\* further, and not at all when the watchdogs that read it are off.
TickGap == Larger(3 * Sync, Rto)
StuckCap == Larger(Window * ChunkDrain, BackoffCap) + Rto
SilenceCap == IF Idle = 0 THEN 0 ELSE 3 * Idle + 1
QuietCap == IF Idle = 0 THEN 0 ELSE Larger(Idle, FastIdleTx) + 1
RetxCap == MaxRetx + 1

Init ==
  /\ isMaster \in Roles
  /\ state = "SWP" /\ win = <<>> /\ attempts = 0 /\ backoff = 0
  /\ lastRetxBase = "none" /\ resent = FALSE /\ tracked = FALSE /\ stuck = 0
  /\ keeps = 0 /\ backlogs = 0 /\ sinceTick = Never
  /\ rxAge = 0 /\ validAge = 0 /\ txAge = 0 /\ lockAge = 0
  /\ rejFirst = Never /\ rejLast = Never /\ frameErrs = FALSE
  /\ locksWithoutRecv = 0 /\ crossed = FALSE /\ mute = 0
  /\ timer = 0 /\ late = 0 /\ ringFull = 0 /\ why = "boot"

\* The retransmit ladder starts afresh.  The mutant keeps the old backoff.
LadderHalfCleared == attempts' = 0 /\ lastRetxBase' = "none" /\ UNCHANGED backoff
LadderCleared == attempts' = 0 /\ lastRetxBase' = "none" /\ backoff' = 0

-----------------------------------------------------------------------------
(* Sessions                                                                *)

\* lockOk_unlocked, as far as the timer is concerned.
LockOk ==
  /\ state = "SWP" /\ state' = "OK"
  /\ rxAge' = 0 /\ validAge' = 0 /\ txAge' = 0 /\ lockAge' = 0
  /\ timer' = Sync /\ late' = 0 /\ why' = "up"
  /\ UNCHANGED <<win, ladder, backlogs, sinceTick, rejects, frameErrs,
                 evidence, ringFull>>

\* reset_unlocked(count = TRUE) of a session that is up.
Reset(reason) ==
  /\ state' = "SWP" /\ why' = reason
  /\ win' = <<>> /\ LadderCleared
  /\ resent' = FALSE /\ tracked' = FALSE /\ stuck' = 0 /\ keeps' = 0
  /\ rejFirst' = Never /\ rejLast' = Never
  /\ rxAge' = 0
  /\ locksWithoutRecv' = IF lockAge >= FairChance
                           THEN Smaller(locksWithoutRecv + 1, Mismatch)
                           ELSE locksWithoutRecv
  /\ mute' = IF crossed THEN 0
             ELSE IF lockAge >= FairChance THEN Smaller(mute + 1, Mismatch) ELSE mute
  /\ crossed' = FALSE
  /\ timer' = 0 /\ late' = 0
  /\ UNCHANGED <<backlogs, validAge, txAge, lockAge, frameErrs, ringFull>>

\* A reset from elsewhere: a confirmed BREAK, the peer's new epoch, errors.
OtherReset == state = "OK" /\ Reset("other") /\ UNCHANGED sinceTick

-----------------------------------------------------------------------------
(* The application and the peer                                            *)

\* sendMsg accepts a chunk.
SendChunk ==
  /\ state = "OK" /\ Len(win) < Window
  /\ win' = Append(win, [age |-> 0, retx |-> 0, nak |-> 0])
  /\ txAge' = 0 /\ rejFirst' = Never /\ rejLast' = Never
  /\ UNCHANGED <<state, ladder, backlogs, sinceTick, rxAge, validAge, lockAge,
                 frameErrs, evidence, timer, late, ringFull, why>>

\* sendMsg refuses a message that does not fit beside the chunks in flight.
RejectMsg ==
  /\ state = "OK" /\ win # <<>>
  /\ rejFirst' = IF rejFirst = Never THEN 0 ELSE rejFirst
  /\ rejLast' = 0
  /\ UNCHANGED <<state, win, ladder, backlogs, sinceTick, clocks, frameErrs,
                 evidence, timer, late, ringFull, why>>

\* A valid frame; the board's answer to it, if it sends one, is traffic too.
Heard == rxAge' = 0 /\ validAge' = 0 /\ UNCHANGED lockAge
Answered == txAge' \in {txAge, 0}
CrossingUncounted == UNCHANGED <<locksWithoutRecv, mute>> /\ crossed' = TRUE
Crossing == locksWithoutRecv' = 0 /\ crossed' = TRUE /\ UNCHANGED mute

\* onAck of the k-th chunk in flight.
OnAck(k) ==
  /\ state = "OK" /\ k <= Len(win)
  /\ win' = SubSeq(win, k + 1, Len(win))
  /\ LadderCleared /\ resent' = FALSE /\ keeps' = 0 /\ tracked' = FALSE
  /\ Heard /\ Crossing
  /\ UNCHANGED <<state, stuck, backlogs, sinceTick, txAge, rejects, frameErrs, timer,
                 late, ringFull, why>>

\* The chunks of w after a resend of the first n: applyRetx on each.
Resend(w, n, fromRto) ==
  [i \in 1..Len(w) |->
     IF i <= n /\ fromRto
       THEN [w[i] EXCEPT !.retx = Smaller(@ + 1, RetxCap), !.age = 0] ELSE w[i]]

\* gbnResendWindow_unlocked: the burst stops where the TX ring has no room.
Burst(w, fromRto) ==
  \E room \in 0..Len(w) :
    LET n == Smaller(room, BurstMax)
    IN  /\ room = 0 => ringFull < MaxRingFull
        /\ ringFull' = IF room = 0 THEN ringFull + 1 ELSE ringFull
        /\ resent' = TRUE
        /\ win' = Resend(w, n, fromRto)
        /\ txAge' = IF n > 0 THEN 0 ELSE txAge

\* onNak of the k-th chunk in flight: the chunks before it are released.  The
\* resend is suppressed when the base was NAKed more than maxRetx times, and
\* may be when it has just been resent (the dedup window).
OnNak(k) ==
  /\ state = "OK" /\ k <= Len(win)
  /\ LET w == SubSeq(win, k, Len(win))
         naked == [w EXCEPT ![1].nak = Smaller(@ + 1, RetxCap)]
     IN  \/ /\ w[1].nak > MaxRetx \/ (k = 1 /\ resent)
            /\ win' = naked
            /\ resent' = (k = 1 /\ resent)
            /\ UNCHANGED <<txAge, ringFull>>
         \/ /\ w[1].nak <= MaxRetx
            /\ Burst([naked EXCEPT ![1].age = 0], FALSE)
  /\ tracked' = (k = 1 /\ tracked)
  /\ lastRetxBase' = IF k > 1 /\ lastRetxBase = "base" THEN "other" ELSE lastRetxBase
  /\ Heard /\ Crossing
  /\ UNCHANGED <<state, attempts, backoff, stuck, keeps, backlogs, sinceTick, rejects,
                 frameErrs, timer, late, why>>

\* A message of the peer's arrives and the application reads it; or a chunk
\* that nobody reads, a PING or a PONG.
OnMessage ==
  /\ state = "OK" /\ Heard /\ Answered /\ Crossing
  /\ UNCHANGED <<state, win, ladder, backlogs, sinceTick, rejects, frameErrs,
                 timer, late, ringFull, why>>
OnFrame ==
  /\ state = "OK" /\ Heard /\ Answered
  /\ UNCHANGED <<state, win, ladder, backlogs, sinceTick, rejects, frameErrs,
                 evidence, timer, late, ringFull, why>>

\* Bytes that are no frame: lastRxMs is stamped, and an error may be counted.
OnNoise ==
  /\ state = "OK" /\ rxAge' = 0
  /\ frameErrs' \in {frameErrs, TRUE}
  /\ UNCHANGED <<state, win, ladder, backlogs, sinceTick, validAge, txAge,
                 lockAge, rejects, evidence, timer, late, ringFull, why>>

-----------------------------------------------------------------------------
(* The watchdogs                                                           *)

\* healthPeerStalledMs, with the backoff clamp of applyHealth_unlocked.
peerStalledMs ==
  Larger(Larger(StalledFloor, 2 * Len(win) * ChunkDrain), backoff + Rto)

\* The age decideHealth looks at is that of the last valid frame, not of the
\* last byte; silence has to outlast two timeouts.
peerAgeAnyByte == rxAge
peerAge == validAge
OverdueEarly == peerAge > Rto
Overdue == peerAge > 2 * Rto

\* The checks of decideHealth in their order; the first that fires decides.
\* idleTimeoutMs = 0 turns them off, and one-sided silence is left to the
\* retransmit ladder while it has attempts to spend.
decideHealth ==
  LET pending == win # <<>>
      quiet   == peerAge > Idle /\ txAge > Idle
      oneSided == Overdue /\ txAge < FastIdleTx /\ pending
  IN  IF Idle = 0 THEN "Keep"
      ELSE IF rejFirst > Idle /\ rejLast <= Idle THEN "TxStall"
      ELSE IF pending /\ quiet THEN "DeadLink"
      ELSE IF peerAge > 3 * Idle THEN "SilentPeer"
      ELSE IF ~isMaster /\ Camp > 0 /\ peerAge > 2 * Camp THEN "PeerReset"
      ELSE IF oneSided /\ gbnActive /\ attempts < MaxRetx THEN "Keep"
      ELSE IF oneSided THEN "AsymIdle"
      ELSE IF quiet /\ (pending \/ frameErrs) THEN "Idle"
      ELSE IF Len(win) >= Pool /\ Overdue THEN "PoolExhaust"
      ELSE IF pending /\ peerAge > peerStalledMs THEN "PeerStalled"
      ELSE "Keep"

\* applyHealth_unlocked: too many locks in a row over which nothing came.
Escalates == lockAge >= FairChance /\ locksWithoutRecv >= Mismatch
Verdict ==
  LET verdict == decideHealth
  IN  IF verdict = "Keep" /\ Escalates THEN "PeerBaudMismatch" ELSE verdict

-----------------------------------------------------------------------------
(* The retransmit ladder                                                   *)

\* decideGbnBackoff: doubles with every attempt, up to the cap.
Doubled[i \in Nat] == IF i = 0 THEN Sync ELSE 2 * Doubled[i - 1]
decideGbnBackoffUncapped(n) == IF n <= 1 THEN Sync ELSE Doubled[n - 1]
decideGbnBackoff(n) ==
  IF n <= 1 THEN Sync ELSE Smaller(Doubled[n - 1], Larger(BackoffCap, Sync))

\* LinkArq::decideSlot of the base.
decideSlot == IF Base.age < Rto THEN "Hold"
              ELSE IF Base.retx >= MaxRetx THEN "Drop" ELSE "Retx"

\* decideGbnDropOnMaxRetx: any byte within the last timeout keeps the link.
lineAlive == rxAge < Sync

\* A link kept this often is given up all the same.
RescueNever == FALSE
RescueDue == keeps >= KeepCap

\* gbnBaseStuckSinceMs_ after its three re-arms: the timer task was starved,
\* the app buffer holds unread bytes, the base is a new one.
Since(backlog) ==
  IF \/ sinceTick > TickGap
     \/ backlog /\ backlogs < BacklogCap
     \/ ~tracked
    THEN 0 ELSE stuck
BaseStormStuck(backlog) ==
  Since(backlog) >= Larger(Larger(Sync, Len(win) * ChunkDrain), backoff + Rto)

\* The base has used up its retransmissions.
Spent(backlog) ==
  \/ decideSlot = "Drop"
  \/ decideSlot = "Hold" /\ BaseStormStuck(backlog) /\ Base.retx >= 2

\* The part of sweepRetx_unlocked that every tick over a window runs.
Sweeps(backlog) ==
  /\ gbnActive /\ sinceTick' = 0 /\ tracked' = TRUE
  /\ backlogs' = IF backlog /\ tracked THEN Smaller(backlogs + 1, BacklogCap) ELSE 0

\* The end of onTimerOk_unlocked: the next tick waits out the backoff.
Rearm == /\ timer' = Larger(Sync, backoff') /\ late' = 0

\* Neither the timeout nor the stuck clock has run out.
TickHold(backlog) ==
  /\ Sweeps(backlog) /\ decideSlot = "Hold" /\ ~BaseStormStuck(backlog)
  /\ stuck' = Since(backlog)
  /\ UNCHANGED <<state, win, attempts, backoff, lastRetxBase, resent, keeps,
                 clocks, rejects, frameErrs, evidence, ringFull, why>>
  /\ Rearm

\* gbnRetxBaseAndRearm_unlocked: the timeout has run out, or the stuck clock
\* has and the base was resent less than twice.
TickRetx(backlog) ==
  /\ Sweeps(backlog)
  /\ \/ decideSlot = "Retx"
     \/ decideSlot = "Hold" /\ BaseStormStuck(backlog) /\ Base.retx < 2
  /\ LET again == lastRetxBase = "other"
     IN  /\ attempts' = IF again THEN 1 ELSE Smaller(attempts + 1, RetxCap)
         /\ keeps' = IF again THEN 0 ELSE keeps
  /\ lastRetxBase' = "base"
  /\ backoff' = decideGbnBackoff(attempts')
  /\ Burst(win, TRUE)
  /\ stuck' = 0
  /\ UNCHANGED <<state, rxAge, validAge, lockAge, rejects, frameErrs, evidence, why>>
  /\ Rearm

\* The budget is spent but the line is alive: the base gets a new budget.
TickKeep(backlog) ==
  /\ Sweeps(backlog) /\ Spent(backlog) /\ lineAlive /\ ~RescueDue
  /\ keeps' = Smaller(keeps + 1, KeepCap)
  /\ win' = [win EXCEPT ![1].retx = 0, ![1].age = 0]
  /\ LadderCleared
  /\ stuck' = Since(backlog)
  /\ UNCHANGED <<state, resent, clocks, rejects, frameErrs, evidence, ringFull, why>>
  /\ Rearm

\* The budget is spent: the session ends, at once if the line is silent.
TickDrop(backlog) ==
  /\ gbnActive /\ Spent(backlog) /\ sinceTick' = 0
  /\ lineAlive => RescueDue
  /\ Reset(IF lineAlive THEN "KeepRescue" ELSE "MaxRetx")

\* A watchdog ends the session.
TickHealth(verdict) == Reset(verdict) /\ UNCHANGED sinceTick

\* Nothing in flight: a keepalive PING once the line was unused for a while.
TickIdle ==
  /\ ~gbnActive
  /\ txAge' = IF Idle > 0 /\ txAge > Idle \div 2 THEN 0 ELSE txAge
  /\ UNCHANGED <<state, win, ladder, backlogs, sinceTick, rxAge, validAge,
                 lockAge, rejects, frameErrs, evidence, ringFull, why>>
  /\ Rearm

\* onTimerOk_unlocked: the watchdogs first, then the window.
Tick ==
  /\ state = "OK" /\ timer = 0 /\ UNCHANGED isMaster
  /\ LET verdict == Verdict
     IN  \/ verdict # "Keep" /\ TickHealth(verdict)
         \/ verdict = "Keep" /\ TickIdle
         \/ /\ verdict = "Keep"
            /\ \E backlog \in BOOLEAN :
                 TickHold(backlog) \/ TickRetx(backlog) \/ TickKeep(backlog) \/ TickDrop(backlog)

\* One timeout passes.  The timer may be overdue by MaxLate of them.
Advance ==
  LET Older(age, cap) == IF age = Never THEN Never ELSE Smaller(age + 1, cap)
  IN  /\ timer > 0 \/ late < MaxLate \/ state = "SWP"
      /\ timer' = IF timer > 0 THEN timer - 1 ELSE 0
      /\ late' = IF timer > 0 \/ state = "SWP" THEN late ELSE late + 1
      /\ win' = [i \in DOMAIN win |-> [win[i] EXCEPT !.age = Older(@, Rto)]]
      /\ stuck' = Older(stuck, StuckCap)
      /\ sinceTick' = Older(sinceTick, TickGap + 1)
      /\ rxAge' = Older(rxAge, Sync)
      /\ validAge' = Older(validAge, SilenceCap)
      /\ txAge' = Older(txAge, QuietCap)
      /\ lockAge' = Older(lockAge, FairChance)
      /\ rejFirst' = Older(rejFirst, QuietCap)
      /\ rejLast' = Older(rejLast, QuietCap)
      /\ UNCHANGED <<isMaster, state, attempts, backoff, lastRetxBase, resent, tracked,
                     keeps, backlogs, frameErrs, evidence, ringFull, why>>

Peer ==
  \/ OnMessage \/ OnFrame \/ OnNoise
  \/ \E k \in 1..Window : OnAck(k) \/ OnNak(k)

Next ==
  \/ Tick \/ Advance
  \/ (LockOk \/ OtherReset \/ SendChunk \/ RejectMsg \/ Peer) /\ UNCHANGED isMaster

\* Time passes and the timer task runs; nothing is assumed of the peer or of
\* the application.
Fairness == WF_vars(Advance) /\ WF_vars(Tick)
Spec == Init /\ [][Next]_vars /\ Fairness

-----------------------------------------------------------------------------
(* Properties                                                              *)

Chunk == [age : 0..Rto, retx : 0..RetxCap, nak : 0..RetxCap]

\* The fields keep their types: counters stay under their caps and ages under
\* the largest value the code compares them with.
TypeOK ==
  /\ isMaster \in Roles /\ state \in {"OK", "SWP"}
  /\ win \in Seq(Chunk) /\ Len(win) <= Window
  /\ attempts \in 0..RetxCap /\ backoff \in 0..Larger(BackoffCap, Sync)
  /\ lastRetxBase \in {"none", "base", "other"}
  /\ {resent, tracked, frameErrs, crossed} \subseteq BOOLEAN
  /\ stuck \in 0..StuckCap /\ keeps \in 0..KeepCap /\ backlogs \in 0..BacklogCap
  /\ sinceTick \in Never..TickGap + 1
  /\ rxAge \in 0..Sync /\ validAge \in 0..SilenceCap
  /\ txAge \in 0..QuietCap /\ lockAge \in 0..FairChance
  /\ {rejFirst, rejLast} \subseteq Never..QuietCap
  /\ {locksWithoutRecv, mute} \subseteq 0..Mismatch
  /\ timer \in 0..Larger(BackoffCap, Sync) /\ late \in 0..MaxLate
  /\ ringFull \in 0..MaxRingFull

\* A base that stays in place does not stay forever: whatever the peer sends
\* (NAKs that restart the timeout, noise that keeps the line alive, messages
\* that fill the app buffer), the ladder either sees it move or ends the
\* session.  This is what the stuck clock, the caps on keeps and on backlog
\* re-arms and the NAK budget of sweepRetx_unlocked and onNak are for.
StuckBaseEnds == (state = "OK" /\ tracked) ~> (state = "SWP" \/ ~tracked)

\* A session does not outlive its peer: when no valid frame arrives any more
\* the session ends, even if noise keeps stamping lastRxMs and the application
\* keeps sending (applyHealth_unlocked reads lastValidRxMs).
DeadPeerEndsSession == (state = "OK") ~> (state = "SWP" \/ validAge = 0)

\* A peer that was heard within two timeouts is never taken for dead: only the
\* spent ladder, a stalled application or the baud-mismatch escalation may end
\* the session then (HealthState: "watchdogs wait out 2 x RTO").
HeardPeerIsKept ==
  [][state = "OK" /\ state' = "SWP" /\ validAge <= 2 * Rto =>
       why' \in {"other", "TxStall", "PeerBaudMismatch", "MaxRetx", "KeepRescue"}]_vars

\* The baud-mismatch counter never runs ahead of the evidence by more than
\* the session that ended last: at most one session in which something crossed
\* is counted (reset_unlocked counts without asking).
MismatchHasEvidence == locksWithoutRecv <= mute + 1

\* The ladder knows its base: attempts are counted, and a backoff is held, only
\* while a retransmission round is remembered, and the backoff is the one that
\* belongs to the number of attempts.
LadderIsCoherent ==
  /\ (attempts > 0) = (lastRetxBase # "none")
  /\ backoff = IF attempts = 0 THEN 0 ELSE decideGbnBackoff(attempts)
  /\ lastRetxBase = "base" => tracked /\ win # <<>>

\* A watchdog that drops a link for silence leaves the ladder a chance first:
\* the base was resent at least once (LinkHealth.h on HealthState::rtoMs:
\* "retx needs a chance to draw a reply").
RepairBeforeDrop ==
  [][state = "OK" /\ why' = "PeerStalled" /\ state' = "SWP" => Base.retx > 0]_vars
=============================================================================
