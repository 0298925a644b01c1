------------------------------- MODULE Sweep -------------------------------
(***************************************************************************)
(* The baud sweep: how a master and a slave, each with its own timers and  *)
(* each on a baud of its own, come to the same baud, and come back to it   *)
(* after a drop (LinkSweep, LinkTimersSwp, LinkSweepGlue, LinkCore's       *)
(* reset_unlocked and kickoff, the control frames of LinkRx, onBreak).     *)
(*                                                                         *)
(* Time is in milliseconds and jumps from one timer to the next.  A        *)
(* control frame takes far less than the shortest timer: it arrives before *)
(* the clock moves, or is lost, and is understood only by a board on the   *)
(* baud it was sent at.  The link is idle: no messages, so the watchdogs   *)
(* over a window of chunks (OkTimer) have nothing to look at.              *)
(*                                                                         *)
(* One field per pair that the code always sets together: spd is spdI and  *)
(* the UART's speed, and in phase 3 also phase3Baud_; a LOCK frame names   *)
(* the baud it is sent at.  pong is sweepPongCount_ > 0.                   *)
(***************************************************************************)
EXTENDS Integers, Sequences

CONSTANTS
  Bauds,        \* allowedBaudsCount; 0 is the fastest, Bauds - 1 the slowest
  Delay,        \* delayMs: between two PINGs of phase 1
  SubTick,      \* phase2Slave: the slave's stay on a baud, the master's PINGs
  Dwell,        \* phase2: the master's stay on a baud
  Extra,        \* what the slave adds to Dwell in phase 1
  T3, T3Again,  \* phase 3: first wait for a PONG, wait after one came
  Budget,       \* resweepPrefBudgetMs: the camp on the preferred baud
  Margin, Floor,
  Idle,         \* idleTimeoutMs
  OkTick,       \* okTickMs
  FairChance,   \* postLockQuietMs + 2 * syncAckTimeoutMs
  Confirm, Coalesce, Grace,   \* of a BREAK, in the link
  Guard, Debounce,            \* of a BREAK, in the HAL
  UpgradeDelay, UpgradeMax,
  Skews,        \* how much later than the other a board may start
  MaxLoss, MaxDrop, MaxReboot,
  Mixed         \* whether faults of several kinds happen in one behaviour

ASSUME BaudsAssumption == Bauds \in Nat \ {0}
ASSUME TimesAssumption ==
  /\ {Delay, SubTick, Dwell, T3, T3Again, Budget, Floor, Idle, OkTick, Confirm}
       \subseteq Nat \ {0}
  /\ {Extra, Margin, FairChance, Coalesce, Grace, Guard, Debounce, UpgradeDelay,
      UpgradeMax, MaxLoss, MaxDrop, MaxReboot} \cup Skews \subseteq Nat

VARIABLES board, wire, losses, drops, reboots, missed
vars == <<board, wire, losses, drops, reboots, missed>>

Boards == {"M", "S"}
Peer(b) == IF b = "M" THEN "S" ELSE "M"
isMaster(b) == b = "M"
Slowest == Bauds - 1
None == -1

PHASE3_ACKS_NEEDED == 2
RESWEEP_PREF_MAX_ATTEMPTS == 2
RESWEEP_PREF_ATTEMPT_CEILING == 24
DISC_STORM_THRESHOLD == 3
MismatchThreshold == 3
DiscWindow == 10000

\* A board that has not started: begin() runs when its timer does.
Off(delay) ==
  [st |-> "OFF", phase |-> "NONE", spd |-> 0, acks |-> 0, pong |-> FALSE,
   elapsed |-> 0, timer |-> delay,
   preferred |-> None, best |-> None, upgradeIn |-> None, upgrades |-> 0,
   prefPending |-> FALSE, attempts |-> 0, deadline |-> None,
   epoch |-> 0, peerEpoch |-> None,
   txAge |-> 0, rxAge |-> 0, lockAge |-> 0,
   discs |-> 0, discAge |-> DiscWindow, mute |-> 0,
   suspect |-> None, seen |-> FALSE, confirmed |-> FALSE,
   storm |-> FALSE, stormSeen |-> FALSE, guard |-> 0, debounce |-> 0]

Init ==
  /\ \E late \in Boards, skew \in Skews :
       board = [b \in Boards |-> Off(IF b = late THEN skew ELSE 0)]
  /\ wire = [b \in Boards |-> <<>>]
  /\ losses = 0 /\ drops = 0 /\ reboots = 0
  /\ missed = [b \in Boards |-> FALSE]

-----------------------------------------------------------------------------
(* What a handler does: the board after it, and what it put on the line.   *)

Frame(r, cmd) == [cmd |-> cmd, baud |-> r.spd, epoch |-> r.epoch]
Does(r, out) == [r |-> r, out |-> out]
Sends(r, cmd) == Does(r, <<Frame(r, cmd)>>)
Ping(b, r) == IF isMaster(b) THEN Sends(r, "PING") ELSE Does(r, <<>>)

\* sendBreak, after the lock of the link is given back.
WithBreak(s) == Does(s.r, Append(s.out, Frame(s.r, "BREAK")))

\* setSpd also arms the HAL's guard against the glitch it makes.
At(r, spd) == [r EXCEPT !.spd = spd, !.guard = Guard]

enterPhase1(b, r) ==
  Ping(b, [At(r, Slowest) EXCEPT
             !.phase = "P1", !.pong = FALSE,
             !.timer = IF isMaster(b) THEN Delay ELSE Dwell + Extra])

enterPhase2(b, r) ==
  Ping(b, [At(r, 0) EXCEPT !.phase = "P2", !.timer = SubTick,
                           !.elapsed = IF isMaster(b) THEN 0 ELSE @])

\* The slave camps for as long as the master's first PING and its retries.
enterPhase3(b, r) ==
  Ping(b, [At(r, r.spd) EXCEPT !.phase = "P3", !.acks = 0,
                    !.timer = IF isMaster(b) THEN T3
                              ELSE T3 * (RESWEEP_PREF_MAX_ATTEMPTS + 1)])

\* LinkSweep::reset.  The mutant leaves the phase as it is.
ClearedButPhase(r) == [r EXCEPT !.acks = 0, !.elapsed = 0]
Cleared(r) == [r EXCEPT !.phase = "NONE", !.acks = 0, !.elapsed = 0]

\* lockOk_unlocked: the session starts on the board's baud.  A lock on a baud
\* slower than one already proven arms an upgrade.
lockOk(r) ==
  LET best  == IF r.best = None \/ r.spd < r.best THEN r.spd ELSE r.best
      slower == r.spd > best
  IN  [Cleared(At(r, r.spd)) EXCEPT
         !.st = "OK", !.preferred = r.spd, !.best = best,
         !.upgradeIn = IF slower /\ r.upgrades < UpgradeMax THEN UpgradeDelay ELSE None,
         !.upgrades = IF slower THEN @ ELSE 0,
         !.prefPending = FALSE, !.attempts = 0, !.deadline = None,
         !.txAge = 0, !.rxAge = 0, !.lockAge = 0, !.timer = OkTick]

\* The end of an OK session in the counters, when the reset counts.  The mutant
\* does not tell the peer.
EpochKept(r, reason) == r.epoch
EpochAfter(r, reason) ==
  IF reason = "PeerEpochMismatch" THEN r.epoch ELSE (r.epoch + 1) % 256
Counted(r, reason) ==
  [r EXCEPT !.epoch = EpochAfter(r, reason),
            !.discs = IF r.discAge < DiscWindow
                        THEN IF @ < DISC_STORM_THRESHOLD THEN @ + 1 ELSE @ ELSE 1,
            !.discAge = 0,
            !.mute = IF r.lockAge >= FairChance /\ @ < MismatchThreshold THEN @ + 1 ELSE @]

\* reset_unlocked.  Without a preferred baud to keep the board starts over in
\* phase 1; with one it camps there, unless that baud has kept failing.
reset(b, r, count, preserve, reason) ==
  LET keep == preserve /\ (isMaster(b) \/ reason = "HealthWatchdog")
      ended == IF count /\ r.st = "OK" THEN Counted(r, reason) ELSE r
      q == [ended EXCEPT
              !.st = "SWP", !.pong = FALSE, !.suspect = None, !.seen = FALSE,
              !.preferred = IF keep THEN @ ELSE None, !.best = IF keep THEN @ ELSE None,
              !.upgrades = IF keep THEN @ ELSE 0, !.upgradeIn = None,
              !.txAge = 0, !.rxAge = 0, !.lockAge = 0, !.attempts = 0]
      camps == /\ preserve /\ q.preferred # None
               /\ q.discs < DISC_STORM_THRESHOLD /\ q.mute < MismatchThreshold
               /\ ~q.stormSeen
  IN  IF camps
        THEN enterPhase3(b, [q EXCEPT !.spd = q.preferred, !.prefPending = TRUE,
                                      !.deadline = Budget])
        ELSE enterPhase1(b, [q EXCEPT !.prefPending = FALSE, !.deadline = None])

\* kickoff: the master's first PING goes out before its epoch is counted up.
kickoff(b, r) ==
  IF isMaster(b)
    THEN LET s == reset(b, [r EXCEPT !.stormSeen = FALSE], FALSE, FALSE, "Kickoff")
         IN  WithBreak([s EXCEPT !.r.epoch = (@ + 1) % 256])
    ELSE Does([At(r, Slowest) EXCEPT
                 !.st = "SWP", !.phase = "P1", !.stormSeen = FALSE,
                 !.suspect = None, !.seen = FALSE,
                 !.epoch = (@ + 1) % 256, !.timer = Dwell + Extra], <<>>)

-----------------------------------------------------------------------------
(* Control frames                                                          *)

\* Two answers in a row at the baud: the board locks and tells its peer.
LockHere(r) == LET q == lockOk(r) IN Sends(q, "LOCK")
Acked(r) == [r EXCEPT !.acks = @ + 1]
Enough(r) == r.acks >= PHASE3_ACKS_NEEDED

\* handleSwp_unlocked with applyMasterSwpAction: a PONG.  Between phases
\* (NONE) it is counted and ignored.
masterPong(r) ==
  LET q == [r EXCEPT !.pong = TRUE]
  IN  CASE q.phase = "P1" -> enterPhase2("M", q)
        [] q.phase = "P2" -> enterPhase3("M", q)
        [] q.phase = "P3" -> IF Enough(Acked(q)) THEN LockHere(q)
                             ELSE Sends([Acked(q) EXCEPT !.timer = T3Again], "PING")
        [] OTHER -> Does(q, <<>>)

\* ... with applyPongSwpAction: a PING.  In phase 1 the PONG leaves on the
\* slowest baud, before the slave changes to the fastest.
slavePing(r) ==
  CASE r.phase = "P1" -> Does(enterPhase2("S", r).r, <<Frame(r, "PONG")>>)
    [] r.phase = "P2" -> Sends(enterPhase3("S", r).r, "PONG")
    [] r.phase = "P3" -> IF Enough(Acked(r)) THEN LockHere(r) ELSE Sends(Acked(r), "PONG")
    [] OTHER -> Does(r, <<>>)

\* The peer's epoch is taken over from every frame of a sweep; the mutant takes
\* the first one it sees.
LatchedOnce(r, f) == IF r.peerEpoch = None THEN [r EXCEPT !.peerEpoch = f.epoch] ELSE r
Latched(r, f) == [r EXCEPT !.peerEpoch = f.epoch]
handleSwp(b, r, f) ==
  LET q == Latched(r, f)
  IN  CASE f.cmd = "LOCK" -> Does(lockOk(q), <<>>)
        [] f.cmd = "PONG" /\ isMaster(b) -> masterPong(q)
        [] f.cmd = "PING" /\ ~isMaster(b) -> slavePing(q)
        [] OTHER -> Does(q, <<>>)

\* noteValidFrameOk_unlocked: the second frame after the grace ends the
\* suspicion of a BREAK.
Noted(r) ==
  IF r.suspect = None \/ r.suspect < Grace THEN r
  ELSE IF r.seen THEN [r EXCEPT !.suspect = None, !.seen = FALSE]
  ELSE [r EXCEPT !.seen = TRUE]

\* processCtrlFrame_unlocked in OK: a PING of another epoch says that the peer
\* has started over; a small step forward is taken for a recovery.
EpochReason(r, f) ==
  IF (f.epoch - r.peerEpoch) % 256 \in 1..8 THEN "HealthWatchdog" ELSE "PeerEpochMismatch"
handleOk(b, r, f) ==
  LET q == Noted([r EXCEPT !.rxAge = 0])
  IN  CASE f.cmd = "PING" /\ f.epoch # r.peerEpoch ->
             WithBreak(reset(b, Latched(q, f), TRUE, TRUE, EpochReason(r, f)))
        [] f.cmd = "PING" /\ f.epoch = r.peerEpoch ->
             Sends([q EXCEPT !.txAge = 0], "PONG")
        [] OTHER -> Does(q, <<>>)

\* How long until a keepalive is due, seen from onBreak.
KeepaliveIn(r) == IF r.txAge >= Idle \div 2 THEN 0 ELSE Idle \div 2 - r.txAge
Soon(ms) == IF ms < 1 THEN 1 ELSE ms
Earlier(x, y) == IF x < y THEN x ELSE y

\* onBreak.  The first BREAK raises a suspicion; another one confirms it,
\* unless it is the same pulse or a frame has come in between.
onBreak(r) ==
  IF r.st # "OK" THEN r
  ELSE IF r.suspect = None
    THEN [r EXCEPT !.suspect = 0, !.seen = FALSE,
                   !.timer = Soon(Earlier(Confirm, KeepaliveIn(r)))]
  ELSE IF r.suspect < Coalesce THEN [r EXCEPT !.timer = Confirm]
  ELSE IF r.seen THEN [r EXCEPT !.seen = FALSE, !.timer = Confirm]
  ELSE [r EXCEPT !.suspect = None, !.confirmed = TRUE, !.timer = 1]

\* The HAL hands on a BREAK, unless the baud has just been changed or another
\* BREAK has just come.
onUartBreak(r) ==
  IF r.guard > 0 THEN [r EXCEPT !.debounce = Debounce]
  ELSE IF r.debounce > 0 THEN r
  ELSE [onBreak(r) EXCEPT !.debounce = Debounce]

\* A frame on another baud is noise.
onFrame(b, r, f) ==
  CASE r.st = "OFF" -> Does(r, <<>>)
    [] r.st # "OFF" /\ f.cmd = "BREAK" -> Does(onUartBreak(r), <<>>)
    [] OTHER -> IF f.baud # r.spd THEN Does(r, <<>>)
                ELSE IF r.st = "OK" THEN handleOk(b, r, f) ELSE handleSwp(b, r, f)

-----------------------------------------------------------------------------
(* Timers                                                                  *)

\* The end of the sweep without a baud that both hold: the slowest, if the
\* peer has answered at all.  Only the fallback of phase 2 sends a LOCK.
Fallback(r, tells) ==
  IF ~r.pong THEN enterPhase1("M", r)
  ELSE LET q == [r EXCEPT !.spd = Slowest]
       IN  IF tells THEN LockHere(q) ELSE Does(lockOk(q), <<>>)

masterPhase2(r) ==
  LET waited == r.elapsed + SubTick
  IN  IF waited < Dwell
        THEN Sends([r EXCEPT !.elapsed = waited, !.timer = SubTick], "PING")
      ELSE IF r.spd + 2 >= Bauds
        THEN Fallback([r EXCEPT !.elapsed = 0], TRUE)
        ELSE Sends([At(r, r.spd + 1) EXCEPT !.elapsed = 0, !.timer = SubTick], "PING")

\* On the preferred baud the master goes on until the budget is used up, and
\* then starts over; in an ordinary sweep it tries the next baud once.
campOpen(r) == r.deadline > 0 /\ r.attempts < RESWEEP_PREF_ATTEMPT_CEILING
T3Left(r) == IF r.acks = 0 THEN T3 ELSE T3Again
masterPhase3(r) ==
  IF r.prefPending
    THEN IF campOpen(r)
           THEN Sends([r EXCEPT !.attempts = @ + 1, !.timer = T3Left(r)], "PING")
           ELSE Sends([Cleared(At(r, Slowest)) EXCEPT
                         !.attempts = 0, !.prefPending = FALSE, !.deadline = None,
                         !.phase = "P1", !.timer = Delay], "PING")
    ELSE IF r.spd + 1 >= Bauds
           THEN Fallback(r, FALSE)
           ELSE Sends([Cleared(At(r, r.spd + 1)) EXCEPT !.timer = Dwell], "PING")

masterSwp(r) ==
  CASE r.phase = "P1" -> Sends([r EXCEPT !.timer = Delay], "PING")
    [] r.phase = "P2" -> masterPhase2(r)
    [] r.phase = "P3" -> masterPhase3(r)
    [] OTHER -> enterPhase1("M", r)

\* The slave's walk: down the list and around, from the slowest again.  The
\* mutant stays on the fastest.
slavePhase2Stops(r) ==
  [At(r, IF r.spd > 0 THEN r.spd - 1 ELSE 0) EXCEPT !.timer = SubTick]
slavePhase2(r) ==
  [At(r, IF r.spd > 0 THEN r.spd - 1 ELSE Slowest) EXCEPT !.timer = SubTick]

\* The slave's camp: two more waits, within the budget if there is one (the
\* mutant's waits are not).
campOver(r) == r.deadline = 0 \/ r.attempts >= RESWEEP_PREF_MAX_ATTEMPTS
RearmMsUnclamped(r) == IF Idle \div 2 < 1000 THEN 1000 ELSE Idle \div 2
RearmMs(r) ==
  LET long == IF Idle \div 2 < 1000 THEN 1000 ELSE Idle \div 2
      left == IF r.deadline - Margin < Floor THEN Floor ELSE r.deadline - Margin
  IN  IF r.deadline = None THEN long ELSE Earlier(long, left)
slaveCamp(r) ==
  IF campOver(r)
    THEN enterPhase1("S", [r EXCEPT !.attempts = 0, !.deadline = None,
                                    !.preferred = None, !.prefPending = FALSE])
    ELSE Does([r EXCEPT !.attempts = @ + 1, !.timer = RearmMs(r)], <<>>)

slaveSwp(r) ==
  CASE r.phase = "P1" -> Does([r EXCEPT !.timer = Dwell + Extra], <<>>)
    [] r.phase = "P2" -> Does(slavePhase2(r), <<>>)
    [] OTHER -> slaveCamp(r)

\* onTimerOk_unlocked while a BREAK is suspected: confirm it, or send the
\* keepalive that may clear it and wake up again.
WithKeepalive(r, due) ==
  IF due THEN Sends([r EXCEPT !.txAge = 0], "PING") ELSE Does(r, <<>>)
okSuspect(b, r) ==
  IF r.suspect >= Confirm
    THEN WithBreak(reset(b, r, TRUE, TRUE, "HealthWatchdog"))
    ELSE LET s == WithKeepalive(r, r.txAge >= Idle \div 2)
         IN  [s EXCEPT !.r.timer = Soon(Earlier(Confirm - r.suspect, KeepaliveIn(s.r)))]

\* The watchdogs that an idle link leaves (decideHealth): silence, shorter for
\* the slave; and locks after which nothing was ever received.
PeerGone(b, r) ==
  \/ r.rxAge > 3 * Idle
  \/ ~isMaster(b) /\ r.rxAge > 2 * Budget
Mismatch(r) == r.lockAge >= FairChance /\ r.mute >= MismatchThreshold
okIdle(b, r) ==
  IF PeerGone(b, r) THEN WithBreak(reset(b, r, TRUE, TRUE, "HealthWatchdog"))
  ELSE IF Mismatch(r)
    THEN WithBreak(reset(b, [r EXCEPT !.preferred = None, !.prefPending = FALSE],
                         TRUE, TRUE, "HealthWatchdog"))
  ELSE WithKeepalive([r EXCEPT !.timer = OkTick], r.txAge > Idle \div 2)

\* The upgrade aims at the best baud proven and does not count as a drop.
UpgradeDue(r) == r.upgradeIn = 0 /\ r.best # None /\ r.spd > r.best /\ r.upgrades < UpgradeMax
timerOk(b, r) ==
  IF UpgradeDue(r)
    THEN WithBreak(reset(b, [r EXCEPT !.preferred = r.best, !.upgrades = @ + 1],
                         FALSE, TRUE, "BaudUpgrade"))
  ELSE IF r.suspect # None THEN okSuspect(b, r)
  ELSE okIdle(b, r)

\* onTimer: what onBreakStorm and onBreak have left for it comes first.
onTimer(b, r) ==
  CASE r.st = "OFF" -> kickoff(b, r)
    [] r.st # "OFF" /\ r.storm ->
         WithBreak(reset(b, [r EXCEPT !.storm = FALSE, !.stormSeen = TRUE],
                         TRUE, FALSE, "PeerBaudMismatch"))
    [] r.st # "OFF" /\ ~r.storm /\ r.confirmed ->
         reset(b, [r EXCEPT !.confirmed = FALSE], TRUE, TRUE, "HealthWatchdog")
    [] OTHER -> IF r.st = "OK" THEN timerOk(b, r)
                ELSE IF isMaster(b) THEN masterSwp(r) ELSE Does(slaveSwp(r).r, <<>>)

-----------------------------------------------------------------------------
(* The two boards and the line between them                                *)

\* A board that leaves its session; a session its peer knows nothing of.
Restarts(r, q) == r.st = "OK" /\ q.st # "OK"
MissedAfter(b, s) ==
  [c \in Boards |->
     IF c = b THEN missed[c] /\ s.r.st = "OK"
     ELSE missed[c] \/ (Restarts(board[b], s.r) /\ board[c].st = "OK")]

\* Board b has done s; the frames still on their way to it are rest.
Take(b, s, rest) ==
  /\ board' = [board EXCEPT ![b] = s.r]
  /\ wire' = [wire EXCEPT ![b] = rest, ![Peer(b)] = @ \o s.out]
  /\ missed' = MissedAfter(b, s)

Receive(b) ==
  /\ wire[b] # <<>>
  /\ Take(b, onFrame(b, board[b], Head(wire[b])), Tail(wire[b]))
  /\ UNCHANGED <<losses, drops, reboots>>

\* The faults that may still happen, within the bounds of the model.
Alone(others) == Mixed \/ others = 0
MayLose == losses < MaxLoss /\ Alone(drops + reboots)
MayDrop == drops < MaxDrop /\ Alone(losses + reboots)
MayReboot == reboots < MaxReboot /\ Alone(losses + drops)

\* A frame that is garbled, or flushed with the UART's buffer when the baud is
\* set.  The BREAK of a board on a faster baud may be too short to be one.
Short(b, f) == f.cmd = "BREAK" /\ f.baud < board[b].spd
LoseFrame(b) ==
  /\ wire[b] # <<>>
  /\ \/ Short(b, Head(wire[b])) /\ UNCHANGED losses
     \/ ~Short(b, Head(wire[b])) /\ MayLose /\ losses' = losses + 1
  /\ wire' = [wire EXCEPT ![b] = Tail(@)]
  /\ UNCHANGED <<board, drops, reboots, missed>>

Timer(b) ==
  /\ board[b].timer = 0
  /\ Take(b, onTimer(b, board[b]), wire[b])
  /\ UNCHANGED <<losses, drops, reboots>>

\* dropLink, or too many frame errors (FALSE); a watchdog over traffic (TRUE).
Drop(b, preserve) ==
  /\ board[b].st = "OK" /\ MayDrop /\ drops' = drops + 1
  /\ Take(b, WithBreak(reset(b, board[b], TRUE, preserve,
                             IF preserve THEN "HealthWatchdog" ELSE "UserDropLink")),
          wire[b])
  /\ UNCHANGED <<losses, reboots>>

\* onBreakStorm: the HAL reports many BREAKs in a short time.
Storm(b) ==
  /\ board[b].st # "OFF" /\ MayDrop /\ drops' = drops + 1
  /\ board' = [board EXCEPT ![b].storm = TRUE]
  /\ UNCHANGED <<wire, losses, reboots, missed>>

\* Power fails and comes back.
Reboot(b) ==
  /\ board[b].st # "OFF" /\ MayReboot /\ reboots' = reboots + 1
  /\ \E delay \in Skews : Take(b, Does(Off(delay), <<>>), <<>>)
  /\ UNCHANGED <<losses, drops>>

\* Nothing is left to do at this moment: the clock goes to the next timer.
Step == LET t == [b \in Boards |-> board[b].timer] IN Earlier(t["M"], t["S"])
Later(r, dt) ==
  LET on(age) == IF r.st = "OK" THEN age + dt ELSE age
      upTo(age, top) == IF age + dt > top THEN top ELSE age + dt
      down(left) == IF left = None THEN None ELSE IF left > dt THEN left - dt ELSE 0
  IN  [r EXCEPT !.timer = @ - dt, !.txAge = on(@), !.rxAge = on(@),
                !.lockAge = IF r.st = "OK" THEN upTo(@, FairChance) ELSE @,
                !.discAge = upTo(@, DiscWindow), !.deadline = down(@),
                !.upgradeIn = down(@), !.guard = down(@), !.debounce = down(@),
                !.suspect = IF @ = None THEN None ELSE upTo(@, Confirm)]
Advance ==
  /\ Step > 0
  /\ \A b \in Boards : wire[b] = <<>>
  /\ board' = [b \in Boards |-> Later(board[b], Step)]
  /\ UNCHANGED <<wire, losses, drops, reboots, missed>>

System == Advance \/ \E b \in Boards : Receive(b) \/ Timer(b)
Next ==
  \/ System
  \/ \E b \in Boards : LoseFrame(b) \/ Storm(b) \/ Reboot(b)
  \/ \E b \in Boards, preserve \in BOOLEAN : Drop(b, preserve)

\* Timers fire and frames arrive.
Spec == Init /\ [][Next]_vars /\ WF_vars(System)

-----------------------------------------------------------------------------
(* Properties                                                              *)

BoardType ==
  [st : {"OFF", "SWP", "OK"}, phase : {"NONE", "P1", "P2", "P3"},
   spd : 0..Slowest, acks : 0..PHASE3_ACKS_NEEDED, pong : BOOLEAN,
   elapsed : Nat, timer : Nat,
   preferred : {None} \cup (0..Slowest), best : {None} \cup (0..Slowest),
   upgradeIn : {None} \cup (0..UpgradeDelay), upgrades : 0..UpgradeMax,
   prefPending : BOOLEAN, attempts : 0..RESWEEP_PREF_ATTEMPT_CEILING,
   deadline : {None} \cup (0..Budget),
   epoch : 0..255, peerEpoch : {None} \cup (0..255),
   txAge : Nat, rxAge : Nat, lockAge : 0..FairChance,
   discs : 0..DISC_STORM_THRESHOLD, discAge : 0..DiscWindow,
   mute : 0..MismatchThreshold,
   suspect : {None} \cup (0..Confirm), seen : BOOLEAN, confirmed : BOOLEAN,
   storm : BOOLEAN, stormSeen : BOOLEAN, guard : 0..Guard, debounce : 0..Debounce]

\* The state is well-formed: a board in OK is in no phase of the sweep.
TypeOK ==
  /\ board \in [Boards -> BoardType]
  /\ \A b \in Boards : board[b].st = "OK" => board[b].phase = "NONE"
  /\ \A b \in Boards : \A i \in 1..Len(wire[b]) :
       wire[b][i] \in [cmd : {"PING", "PONG", "LOCK", "BREAK"},
                       baud : 0..Slowest, epoch : 0..255]
  /\ losses \in 0..MaxLoss /\ drops \in 0..MaxDrop /\ reboots \in 0..MaxReboot
  /\ missed \in [Boards -> BOOLEAN]

\* A camp on the preferred baud (phase 3 with a budget, onTimerSwp_unlocked)
\* ends when its budget does, but for one short wait: neither the slave's long
\* waits nor the master's repeated PINGs carry it further.
CampEndsOnTime ==
  \A b \in Boards :
    board[b].phase = "P3" /\ board[b].deadline = 0
      => board[b].timer <= T3 \/ board[b].timer <= Floor

\* A board in OK gives up its session for the epoch of a PING
\* (processCtrlFrame_unlocked) only if its peer has left the session they had:
\* never while both are in the same one.
EpochReset(b) == board[b].st = "OK" /\ board'[b].st = "SWP" /\ wire'[b] # wire[b]
EpochResetIsJustified ==
  [][\A b \in Boards : EpochReset(b) => missed[b] \/ board[Peer(b)].st # "OK"]_vars

\* A board in OK whose peer has left the session does not stay in it: a BREAK,
\* an epoch or a watchdog ends it (onBreak, processCtrlFrame_unlocked,
\* decideHealth).
RestartIsNoticed == \A b \in Boards : missed[b] ~> ~missed[b]

\* Whatever is lost, dropped or restarted within the bounds, in the end both
\* boards are in OK on one baud and stay there.
Together == /\ board["M"].st = "OK" /\ board["S"].st = "OK"
            /\ board["M"].spd = board["S"].spd
BoardsMeet == <>[]Together

\* A slave that camps without a budget on the baud of a master in OK reaches
\* OK: the camp lasts for the two keepalive PINGs it needs (the comment on the
\* re-arm dwell in onTimerSwp_unlocked says so).
CampsAtKeepalive ==
  /\ board["S"].phase = "P3" /\ board["S"].deadline = None
  /\ board["M"].st = "OK" /\ board["M"].spd = board["S"].spd
KeepaliveEndsCamp ==
  CampsAtKeepalive ~> (board["S"].st = "OK" \/ board["M"].st # "OK")
=============================================================================
