---------------------------- MODULE SweepProofs ----------------------------
(***************************************************************************)
(* Theorems about Sweep.  A handler maps the board's record to the record  *)
(* after it and what it sends, so the proof goes operator by operator:     *)
(* each one keeps the record well-formed, the phase in step with the       *)
(* state, and the camp on the preferred baud within its budget.  That      *)
(* every step of the specification does so follows from those lemmas.      *)
(***************************************************************************)
EXTENDS Sweep, TLAPS

-----------------------------------------------------------------------------
(* The record of a board                                                   *)

Fields ==
  {"st", "phase", "spd", "acks", "pong", "elapsed", "timer", "preferred", "best",
   "upgradeIn", "upgrades", "prefPending", "attempts", "deadline", "epoch",
   "peerEpoch", "txAge", "rxAge", "lockAge", "discs", "discAge", "mute", "suspect",
   "seen", "confirmed", "storm", "stormSeen", "guard", "debounce"}
Bytes == 0..255
TypeOf ==
  [st |-> {"OFF", "SWP", "OK"}, phase |-> {"NONE", "P1", "P2", "P3"},
   spd |-> 0..Slowest, acks |-> 0..2, pong |-> BOOLEAN, elapsed |-> Nat, timer |-> Nat,
   preferred |-> {-1} \cup (0..Slowest), best |-> {-1} \cup (0..Slowest),
   upgradeIn |-> {-1} \cup (0..UpgradeDelay), upgrades |-> 0..UpgradeMax,
   prefPending |-> BOOLEAN, attempts |-> 0..RESWEEP_PREF_ATTEMPT_CEILING,
   deadline |-> {-1} \cup (0..Budget),
   epoch |-> Bytes, peerEpoch |-> {-1} \cup Bytes,
   txAge |-> Nat, rxAge |-> Nat, lockAge |-> 0..FairChance,
   discs |-> 0..3, discAge |-> 0..DiscWindow, mute |-> 0..3,
   suspect |-> {-1} \cup (0..Confirm), seen |-> BOOLEAN, confirmed |-> BOOLEAN,
   storm |-> BOOLEAN, stormSeen |-> BOOLEAN, guard |-> 0..Guard,
   debounce |-> 0..Debounce]
IsRecord(r) == r = [f \in Fields |-> r[f]]
Typed(r) == \A f \in Fields : r[f] \in TypeOf[f]
Board(r) == IsRecord(r) /\ Typed(r)

\* What the assumptions say of each constant.
LEMMA Times ==
  /\ Delay \in Nat /\ SubTick \in Nat /\ Dwell \in Nat /\ T3 \in Nat /\ T3Again \in Nat
  /\ Budget \in Nat /\ Floor \in Nat /\ Idle \in Nat /\ OkTick \in Nat /\ Confirm \in Nat
  /\ Extra \in Nat /\ Margin \in Nat /\ FairChance \in Nat /\ Guard \in Nat
  /\ Debounce \in Nat /\ UpgradeDelay \in Nat /\ UpgradeMax \in Nat /\ Skews \subseteq Nat
  /\ Bauds \in Nat /\ Slowest \in Nat /\ Slowest = Bauds - 1 /\ Idle \div 2 \in Nat
  /\ MaxLoss \in Nat /\ MaxDrop \in Nat /\ MaxReboot \in Nat
  /\ DiscWindow \in Nat /\ RESWEEP_PREF_ATTEMPT_CEILING \in Nat
BY TimesAssumption, BaudsAssumption
DEF Slowest, DiscWindow, RESWEEP_PREF_ATTEMPT_CEILING

\* The epoch is a byte.
LEMMA ByteRange == \A x : x \in Bytes <=> x \in Int /\ 0 <= x /\ x <= 255
BY DEF Bytes

LEMMA EpochStep == \A x \in Bytes : (x + 1) % 256 \in Bytes
<1>1. \A x \in Int : (x + 1) % 256 \in Int /\ 0 <= (x + 1) % 256 /\ (x + 1) % 256 <= 255
  OBVIOUS
<1> QED BY <1>1, ByteRange

\* Values that fit the fields of the sweep.
LEMMA SweepFits ==
  /\ \A v \in {"OFF", "SWP", "OK"} : v \in TypeOf["st"]
  /\ \A v \in {"NONE", "P1", "P2", "P3"} : v \in TypeOf["phase"]
  /\ \A v \in 0..Slowest : v \in TypeOf["spd"]
  /\ \A v \in 0..2 : v \in TypeOf["acks"]
  /\ \A v \in Nat : v \in TypeOf["elapsed"]
  /\ \A v \in Nat : v \in TypeOf["timer"]
BY DEF TypeOf

\* Values that fit the fields of the preferred baud.
LEMMA PrefFits ==
  /\ \A v \in {-1} \cup (0..Slowest) : v \in TypeOf["preferred"]
  /\ \A v \in {-1} \cup (0..Slowest) : v \in TypeOf["best"]
  /\ \A v \in {-1} \cup (0..UpgradeDelay) : v \in TypeOf["upgradeIn"]
  /\ \A v \in 0..UpgradeMax : v \in TypeOf["upgrades"]
  /\ \A v \in 0..RESWEEP_PREF_ATTEMPT_CEILING : v \in TypeOf["attempts"]
  /\ \A v \in {-1} \cup (0..Budget) : v \in TypeOf["deadline"]
BY DEF TypeOf

\* Values that fit the fields of the session.
LEMMA SessionFits ==
  /\ \A v \in Bytes : v \in TypeOf["epoch"]
  /\ \A v \in {-1} \cup Bytes : v \in TypeOf["peerEpoch"]
  /\ \A v \in Nat : v \in TypeOf["txAge"]
  /\ \A v \in Nat : v \in TypeOf["rxAge"]
  /\ \A v \in 0..FairChance : v \in TypeOf["lockAge"]
  /\ \A v \in 0..3 : v \in TypeOf["discs"]
  /\ \A v \in 0..DiscWindow : v \in TypeOf["discAge"]
  /\ \A v \in 0..3 : v \in TypeOf["mute"]
BY DEF TypeOf

\* Values that fit the fields of BREAKs.
LEMMA BreakFits ==
  /\ \A v \in {-1} \cup (0..Confirm) : v \in TypeOf["suspect"]
  /\ \A v \in 0..Guard : v \in TypeOf["guard"]
  /\ \A v \in 0..Debounce : v \in TypeOf["debounce"]
BY DEF TypeOf

\* Both truth values fit the flags.
LEMMA FlagFits ==
  /\ FALSE \in TypeOf["pong"] /\ TRUE \in TypeOf["pong"]
  /\ FALSE \in TypeOf["prefPending"] /\ TRUE \in TypeOf["prefPending"]
  /\ FALSE \in TypeOf["seen"] /\ TRUE \in TypeOf["seen"]
  /\ FALSE \in TypeOf["confirmed"] /\ TRUE \in TypeOf["confirmed"]
  /\ FALSE \in TypeOf["storm"] /\ TRUE \in TypeOf["storm"]
  /\ FALSE \in TypeOf["stormSeen"] /\ TRUE \in TypeOf["stormSeen"]
<1>1. /\ TypeOf["pong"] = BOOLEAN /\ TypeOf["prefPending"] = BOOLEAN
      /\ TypeOf["seen"] = BOOLEAN /\ TypeOf["confirmed"] = BOOLEAN
      /\ TypeOf["storm"] = BOOLEAN /\ TypeOf["stormSeen"] = BOOLEAN
  BY DEF TypeOf
<1> QED BY <1>1, Zenon

\* What a well-formed board says of the fields of the sweep.
LEMMA SweepReads ==
  ASSUME NEW r, Board(r)
  PROVE  /\ r.st \in {"OFF", "SWP", "OK"} /\ r.phase \in {"NONE", "P1", "P2", "P3"}
         /\ r.spd \in 0..Slowest /\ r.acks \in 0..2 /\ r.pong \in BOOLEAN
         /\ r.elapsed \in Nat /\ r.timer \in Nat
<1>1. /\ r.st \in TypeOf["st"] /\ r.phase \in TypeOf["phase"] /\ r.spd \in TypeOf["spd"]
      /\ r.acks \in TypeOf["acks"] /\ r.pong \in TypeOf["pong"]
      /\ r.elapsed \in TypeOf["elapsed"] /\ r.timer \in TypeOf["timer"]
  BY Zenon DEF Board, Typed, Fields
<1> QED BY <1>1 DEF TypeOf

\* What a well-formed board says of the fields of the preferred baud.
LEMMA PrefReads ==
  ASSUME NEW r, Board(r)
  PROVE  /\ r.preferred \in {-1} \cup (0..Slowest) /\ r.best \in {-1} \cup (0..Slowest)
         /\ r.upgradeIn \in {-1} \cup (0..UpgradeDelay) /\ r.upgrades \in 0..UpgradeMax
         /\ r.prefPending \in BOOLEAN /\ r.attempts \in 0..RESWEEP_PREF_ATTEMPT_CEILING
         /\ r.deadline \in {-1} \cup (0..Budget)
<1>1. /\ r.preferred \in TypeOf["preferred"] /\ r.best \in TypeOf["best"]
      /\ r.upgradeIn \in TypeOf["upgradeIn"] /\ r.upgrades \in TypeOf["upgrades"]
      /\ r.prefPending \in TypeOf["prefPending"] /\ r.attempts \in TypeOf["attempts"]
      /\ r.deadline \in TypeOf["deadline"]
  BY Zenon DEF Board, Typed, Fields
<1> QED BY <1>1 DEF TypeOf

\* What a well-formed board says of the fields of the session.
LEMMA SessionReads ==
  ASSUME NEW r, Board(r)
  PROVE  /\ r.epoch \in Bytes /\ r.peerEpoch \in {-1} \cup Bytes /\ r.txAge \in Nat
         /\ r.rxAge \in Nat /\ r.lockAge \in 0..FairChance /\ r.discs \in 0..3
         /\ r.discAge \in 0..DiscWindow /\ r.mute \in 0..3
<1>1. /\ r.epoch \in TypeOf["epoch"] /\ r.peerEpoch \in TypeOf["peerEpoch"]
      /\ r.txAge \in TypeOf["txAge"] /\ r.rxAge \in TypeOf["rxAge"]
      /\ r.lockAge \in TypeOf["lockAge"] /\ r.discs \in TypeOf["discs"]
      /\ r.discAge \in TypeOf["discAge"] /\ r.mute \in TypeOf["mute"]
  BY Zenon DEF Board, Typed, Fields
<1> QED BY <1>1 DEF TypeOf

\* What a well-formed board says of the fields of BREAKs.
LEMMA BreakReads ==
  ASSUME NEW r, Board(r)
  PROVE  /\ r.suspect \in {-1} \cup (0..Confirm) /\ r.seen \in BOOLEAN
         /\ r.confirmed \in BOOLEAN /\ r.storm \in BOOLEAN /\ r.stormSeen \in BOOLEAN
         /\ r.guard \in 0..Guard /\ r.debounce \in 0..Debounce
<1>1. /\ r.suspect \in TypeOf["suspect"] /\ r.seen \in TypeOf["seen"]
      /\ r.confirmed \in TypeOf["confirmed"] /\ r.storm \in TypeOf["storm"]
      /\ r.stormSeen \in TypeOf["stormSeen"] /\ r.guard \in TypeOf["guard"]
      /\ r.debounce \in TypeOf["debounce"]
  BY Zenon DEF Board, Typed, Fields
<1> QED BY <1>1 DEF TypeOf

Listed(r) ==
  [st |-> r.st, phase |-> r.phase, spd |-> r.spd, acks |-> r.acks, pong |-> r.pong,
   elapsed |-> r.elapsed, timer |-> r.timer, preferred |-> r.preferred,
   best |-> r.best, upgradeIn |-> r.upgradeIn, upgrades |-> r.upgrades,
   prefPending |-> r.prefPending, attempts |-> r.attempts, deadline |-> r.deadline,
   epoch |-> r.epoch, peerEpoch |-> r.peerEpoch, txAge |-> r.txAge, rxAge |-> r.rxAge,
   lockAge |-> r.lockAge, discs |-> r.discs, discAge |-> r.discAge, mute |-> r.mute,
   suspect |-> r.suspect, seen |-> r.seen, confirmed |-> r.confirmed,
   storm |-> r.storm, stormSeen |-> r.stormSeen, guard |-> r.guard,
   debounce |-> r.debounce]

\* A well-formed board has BoardType.
LEMMA BoardIsTyped == ASSUME NEW r, Board(r) PROVE r \in BoardType
<1>1. r = Listed(r)
  BY SMT DEF Board, IsRecord, Fields, Listed
<1>2. Listed(r) \in BoardType
  BY SweepReads, PrefReads, SessionReads, BreakReads, SMT
  DEF BoardType, Listed, None, PHASE3_ACKS_NEEDED, Bytes,
      DISC_STORM_THRESHOLD, MismatchThreshold
<1> QED BY <1>1, <1>2

\* A board that has not started is well-formed.
LEMMA OffBoard == ASSUME NEW delay \in Nat PROVE Board(Off(delay))
<1> DEFINE r == Off(delay)
<1>1. IsRecord(r) BY SMT DEF Off, IsRecord, Fields
<1>2. /\ r["st"] \in TypeOf["st"] /\ r["phase"] \in TypeOf["phase"]
      /\ r["spd"] \in TypeOf["spd"] /\ r["acks"] \in TypeOf["acks"]
      /\ r["elapsed"] \in TypeOf["elapsed"] /\ r["timer"] \in TypeOf["timer"]
  BY Times, SweepFits, SMT DEF Off
<1>3. /\ r["preferred"] \in TypeOf["preferred"] /\ r["best"] \in TypeOf["best"]
      /\ r["upgradeIn"] \in TypeOf["upgradeIn"] /\ r["upgrades"] \in TypeOf["upgrades"]
      /\ r["attempts"] \in TypeOf["attempts"] /\ r["deadline"] \in TypeOf["deadline"]
  BY Times, PrefFits, SMT DEF Off, None
<1>4. /\ r["epoch"] \in TypeOf["epoch"] /\ r["peerEpoch"] \in TypeOf["peerEpoch"]
      /\ r["txAge"] \in TypeOf["txAge"] /\ r["rxAge"] \in TypeOf["rxAge"]
      /\ r["lockAge"] \in TypeOf["lockAge"] /\ r["discs"] \in TypeOf["discs"]
      /\ r["discAge"] \in TypeOf["discAge"] /\ r["mute"] \in TypeOf["mute"]
  BY Times, SessionFits, ByteRange, SMT DEF Off, None
<1>5. /\ r["suspect"] \in TypeOf["suspect"] /\ r["guard"] \in TypeOf["guard"]
      /\ r["debounce"] \in TypeOf["debounce"]
  BY Times, BreakFits, SMT DEF Off, None
<1>7. /\ r["pong"] = FALSE /\ r["prefPending"] = FALSE /\ r["seen"] = FALSE
      /\ r["confirmed"] = FALSE /\ r["storm"] = FALSE /\ r["stormSeen"] = FALSE
  BY SMT DEF Off
<1> HIDE DEF r
<1>8. /\ r["pong"] \in TypeOf["pong"] /\ r["prefPending"] \in TypeOf["prefPending"]
      /\ r["seen"] \in TypeOf["seen"] /\ r["confirmed"] \in TypeOf["confirmed"]
      /\ r["storm"] \in TypeOf["storm"] /\ r["stormSeen"] \in TypeOf["stormSeen"]
  BY <1>7, FlagFits, Zenon
<1>6. Typed(r) BY <1>2, <1>3, <1>4, <1>5, <1>8, Zenon DEF Typed, Fields
<1> QED BY <1>1, <1>6 DEF Board, r

-----------------------------------------------------------------------------
(* What every handler must leave                                           *)

\* A board is in a phase only while it sweeps.
Calm(r) == r.st # "SWP" => r.phase = "NONE"

\* Only a camp on the preferred baud has a budget.
Camp(r) == r.deadline # None => r.phase = "P3" /\ r.prefPending

\* The next wake-up is at most one short wait later than the end of the budget,
\* where the waits are in proportion: the second wait of phase 3 is no longer
\* than the first, and the budget holds two more than the first.
Proportions == T3Again <= T3 /\ 2 * T3 <= Budget
Wait == IF T3 < Floor THEN Floor ELSE T3
InTime(r) == Proportions /\ r.deadline # None => r.timer <= r.deadline + Wait

Good(r) == Board(r) /\ Calm(r) /\ Camp(r) /\ InTime(r)

Cmds == {"PING", "PONG", "LOCK", "BREAK"}
FrameType == [cmd : Cmds, baud : 0..Slowest, epoch : Bytes]
Done(s) == Good(s.r) /\ s.out \in Seq(FrameType)

LEMMA FrameTyped ==
  ASSUME NEW r, Board(r), NEW cmd \in Cmds PROVE Frame(r, cmd) \in FrameType
BY SweepReads, SessionReads DEF Frame, FrameType

LEMMA DoesDone ==
  ASSUME NEW r, Good(r), NEW out \in Seq(FrameType) PROVE Done(Does(r, out))
BY DEF Does, Done

LEMMA SendsDone == ASSUME NEW r, Good(r), NEW cmd \in Cmds PROVE Done(Sends(r, cmd))
<1>1. Frame(r, cmd) \in FrameType BY FrameTyped DEF Good
<1>2. <<Frame(r, cmd)>> \in Seq(FrameType) BY <1>1
<1> QED BY <1>2, DoesDone DEF Sends

LEMMA PingDone == ASSUME NEW r, Good(r), NEW b PROVE Done(Ping(b, r))
<1>1. <<>> \in Seq(FrameType) OBVIOUS
<1>2. Done(Sends(r, "PING")) BY SendsDone DEF Cmds
<1>3. Done(Does(r, <<>>)) BY <1>1, DoesDone
<1> QED BY <1>2, <1>3 DEF Ping

LEMMA BreakDone == ASSUME NEW s, Done(s) PROVE Done(WithBreak(s))
<1>1. Frame(s.r, "BREAK") \in FrameType BY FrameTyped DEF Done, Good, Cmds
<1>2. Append(s.out, Frame(s.r, "BREAK")) \in Seq(FrameType) BY <1>1 DEF Done
<1> QED BY <1>2, DoesDone DEF WithBreak, Done

-----------------------------------------------------------------------------
(* Entering a phase, locking, resetting                                    *)

LEMMA AtBoard == ASSUME NEW r, Board(r), NEW s \in 0..Slowest PROVE Board(At(r, s))
<1>1. s \in TypeOf["spd"] /\ Guard \in TypeOf["guard"] BY Times, SweepFits, BreakFits
<1> QED BY <1>1, Zenon DEF At, Board, Typed, IsRecord

\* Setting the baud leaves the other fields alone.
LEMMA AtReads ==
  ASSUME NEW r, Board(r), NEW s
  PROVE  LET q == At(r, s)
         IN  /\ q.st = r.st /\ q.phase = r.phase /\ q.timer = r.timer
             /\ q.deadline = r.deadline /\ q.prefPending = r.prefPending
             /\ q.elapsed = r.elapsed /\ q.upgrades = r.upgrades /\ q.epoch = r.epoch
BY DEF Board, IsRecord, Fields, At

LEMMA ClearedBoard == ASSUME NEW r, Board(r) PROVE Board(Cleared(r))
<1>1. "NONE" \in TypeOf["phase"] /\ 0 \in TypeOf["acks"] /\ 0 \in TypeOf["elapsed"]
  BY SweepFits
<1> QED BY <1>1, Zenon DEF Cleared, Board, Typed, IsRecord

LEMMA Phase1Done ==
  ASSUME NEW r, Board(r), NEW b, r.st = "SWP", r.deadline = None
  PROVE  Done(enterPhase1(b, r))
<1> DEFINE p == At(r, Slowest)
           t == IF isMaster(b) THEN Delay ELSE Dwell + Extra
           q == [p EXCEPT !.phase = "P1", !.pong = FALSE, !.timer = t]
<1>1. Board(p) BY AtBoard, Times
<1>2. p.st = "SWP" /\ p.deadline = None BY AtReads
<1>3. "P1" \in TypeOf["phase"] /\ t \in TypeOf["timer"]
  BY Times, SweepFits
<1> HIDE DEF p, t
<1>4. Board(q) BY <1>1, <1>3, FlagFits, Zenon DEF Board, Typed, IsRecord
<1>5. q.st = "SWP" /\ q.deadline = None
  BY <1>1, <1>2 DEF Board, IsRecord, Fields
<1>6. Good(q) BY <1>4, <1>5 DEF Good, Calm, Camp, InTime
<1>7. Done(Ping(b, q)) BY <1>6, PingDone
<1> QED BY <1>7 DEF enterPhase1, p, t

LEMMA Phase2Done ==
  ASSUME NEW r, Board(r), NEW b, r.st = "SWP", r.deadline = None
  PROVE  Done(enterPhase2(b, r))
<1> DEFINE p == At(r, 0)
           e == IF isMaster(b) THEN 0 ELSE p.elapsed
           q == [p EXCEPT !.phase = "P2", !.timer = SubTick, !.elapsed = e]
<1>1. Board(p) BY AtBoard, Times
<1>2. p.st = "SWP" /\ p.deadline = None BY AtReads
<1>3. "P2" \in TypeOf["phase"] /\ SubTick \in TypeOf["timer"] /\ e \in TypeOf["elapsed"]
  BY <1>1, SweepReads, Times, SweepFits
<1>4. enterPhase2(b, r) = Ping(b, q)
  BY <1>1 DEF enterPhase2, Board, IsRecord, Fields
<1> HIDE DEF p, e
<1>5. Board(q) BY <1>1, <1>3, Zenon DEF Board, Typed, IsRecord
<1>6. q.st = "SWP" /\ q.deadline = None
  BY <1>1, <1>2 DEF Board, IsRecord, Fields
<1>7. Good(q) BY <1>5, <1>6 DEF Good, Calm, Camp, InTime
<1> QED BY <1>4, <1>7, PingDone

LEMMA Phase3Done ==
  ASSUME NEW r, Board(r), NEW b, r.st = "SWP",
         r.deadline = None \/ (r.deadline = Budget /\ r.prefPending)
  PROVE  Done(enterPhase3(b, r))
<1> DEFINE p == At(r, r.spd)
           t == IF isMaster(b) THEN T3 ELSE T3 * (RESWEEP_PREF_MAX_ATTEMPTS + 1)
           q == [p EXCEPT !.phase = "P3", !.acks = 0, !.timer = t]
<1>1. Board(p) BY AtBoard, SweepReads
<1>2. p.st = "SWP" /\ p.deadline = r.deadline /\ p.prefPending = r.prefPending BY AtReads
<1>3. t \in Nat /\ t <= 3 * T3 BY Times DEF RESWEEP_PREF_MAX_ATTEMPTS
<1>4. "P3" \in TypeOf["phase"] /\ 0 \in TypeOf["acks"] /\ t \in TypeOf["timer"]
  BY <1>3, SweepFits
<1> HIDE DEF p, t
<1>5. Board(q) BY <1>1, <1>4, Zenon DEF Board, Typed, IsRecord
<1>6. /\ q.st = "SWP" /\ q.phase = "P3" /\ q.timer = t
      /\ q.deadline = r.deadline /\ q.prefPending = r.prefPending
  BY <1>1, <1>2 DEF Board, IsRecord, Fields
<1>7. Calm(q) /\ Camp(q) BY <1>6 DEF Calm, Camp
<1>8. InTime(q) BY <1>3, <1>6, Times DEF InTime, Proportions, Wait
<1>9. Good(q) BY <1>5, <1>7, <1>8 DEF Good
<1> QED BY <1>9, PingDone DEF enterPhase3, p, t

LEMMA LockGood == ASSUME NEW r, Board(r) PROVE Good(lockOk(r))
<1> DEFINE p == Cleared(At(r, r.spd))
           q(best, up, n) ==
             [p EXCEPT !.st = "OK", !.preferred = r.spd, !.best = best,
                       !.upgradeIn = up, !.upgrades = n,
                       !.prefPending = FALSE, !.attempts = 0, !.deadline = None,
                       !.txAge = 0, !.rxAge = 0, !.lockAge = 0, !.timer = OkTick]
<1>1. Board(p) BY AtBoard, ClearedBoard, SweepReads
<1>2. p.phase = "NONE" BY AtBoard, SweepReads DEF Cleared, Board, IsRecord, Fields
<1>3. /\ "OK" \in TypeOf["st"] /\ r.spd \in TypeOf["preferred"]
      /\ r.spd \in TypeOf["best"] /\ r.best \in TypeOf["best"]
      /\ UpgradeDelay \in TypeOf["upgradeIn"] /\ None \in TypeOf["upgradeIn"]
      /\ p.upgrades \in TypeOf["upgrades"] /\ 0 \in TypeOf["upgrades"]
  BY <1>1, SweepReads, PrefReads, Times, SweepFits, PrefFits DEF None
<1>4. /\ 0 \in TypeOf["attempts"]
      /\ None \in TypeOf["deadline"] /\ 0 \in TypeOf["txAge"] /\ 0 \in TypeOf["rxAge"]
      /\ 0 \in TypeOf["lockAge"] /\ OkTick \in TypeOf["timer"]
  BY Times, SweepFits, PrefFits, SessionFits DEF None
<1> HIDE DEF p
<1>5. ASSUME NEW best \in TypeOf["best"], NEW up \in TypeOf["upgradeIn"],
             NEW n \in TypeOf["upgrades"]
      PROVE  Good(q(best, up, n))
  <2>1. Board(q(best, up, n)) BY <1>1, <1>3, <1>4, FlagFits, Zenon DEF Board, Typed, IsRecord
  <2>2. q(best, up, n).phase = "NONE" /\ q(best, up, n).deadline = None
    BY <1>1, <1>2 DEF Board, IsRecord, Fields
  <2> QED BY <2>1, <2>2 DEF Good, Calm, Camp, InTime
<1>6. \E best \in TypeOf["best"], up \in TypeOf["upgradeIn"], n \in TypeOf["upgrades"] :
        lockOk(r) = q(best, up, n)
  BY <1>1, <1>3 DEF lockOk, p
<1>7. PICK best \in TypeOf["best"], up \in TypeOf["upgradeIn"], n \in TypeOf["upgrades"] :
        lockOk(r) = q(best, up, n)
  BY <1>6
<1> HIDE DEF q
<1> QED BY <1>5, <1>7

LEMMA CountedBoard == ASSUME NEW r, Board(r), NEW reason PROVE Board(Counted(r, reason))
<1> DEFINE q(e, d, m) ==
             [r EXCEPT !.epoch = e, !.discs = d, !.discAge = 0, !.mute = m]
           e0 == EpochAfter(r, reason)
           d0 == IF r.discAge < DiscWindow
                   THEN IF r.discs < DISC_STORM_THRESHOLD THEN r.discs + 1 ELSE r.discs
                   ELSE 1
           m0 == IF r.lockAge >= FairChance /\ r.mute < MismatchThreshold
                   THEN r.mute + 1 ELSE r.mute
<1>1. e0 \in TypeOf["epoch"]
  <2>1. r.epoch \in Bytes BY SessionReads
  <2>2. e0 \in Bytes BY <2>1, EpochStep DEF EpochAfter
  <2> HIDE DEF e0
  <2> QED BY <2>2, SessionFits
<1>2. d0 \in TypeOf["discs"] BY SessionReads, SessionFits DEF DISC_STORM_THRESHOLD
<1>3. m0 \in TypeOf["mute"] /\ 0 \in TypeOf["discAge"]
  BY SessionReads, SessionFits, Times DEF MismatchThreshold
<1>4. Counted(r, reason) = q(e0, d0, m0)
  BY DEF Counted, Board, IsRecord, Fields
<1>5. ASSUME NEW e \in TypeOf["epoch"], NEW d \in TypeOf["discs"], NEW m \in TypeOf["mute"]
      PROVE  Board(q(e, d, m))
  BY <1>3, Zenon DEF Board, Typed, IsRecord
<1> HIDE DEF q, e0, d0, m0
<1> QED BY <1>1, <1>2, <1>3, <1>4, <1>5

\* reset_unlocked leaves the session: into a camp with a fresh budget, or into
\* phase 1 without one.
LEMMA ResetDone ==
  ASSUME NEW r, Board(r), NEW b, NEW count, NEW preserve, NEW reason
  PROVE  Done(reset(b, r, count, preserve, reason))
<1> DEFINE keep == preserve /\ (isMaster(b) \/ reason = "HealthWatchdog")
           ended == IF count /\ r.st = "OK" THEN Counted(r, reason) ELSE r
           q(pr, be, up) ==
             [ended EXCEPT
                !.st = "SWP", !.pong = FALSE, !.suspect = None, !.seen = FALSE,
                !.preferred = pr, !.best = be, !.upgrades = up, !.upgradeIn = None,
                !.txAge = 0, !.rxAge = 0, !.lockAge = 0, !.attempts = 0]
           pr0 == IF keep THEN ended.preferred ELSE None
           be0 == IF keep THEN ended.best ELSE None
           up0 == IF keep THEN ended.upgrades ELSE 0
           p == q(pr0, be0, up0)
           camps == /\ preserve /\ p.preferred # None
                    /\ p.discs < DISC_STORM_THRESHOLD /\ p.mute < MismatchThreshold
                    /\ ~p.stormSeen
           into == [p EXCEPT !.spd = p.preferred, !.prefPending = TRUE, !.deadline = Budget]
           over == [p EXCEPT !.prefPending = FALSE, !.deadline = None]
<1>1. Board(ended) BY CountedBoard
<1>2. /\ pr0 \in TypeOf["preferred"] /\ be0 \in TypeOf["best"] /\ up0 \in TypeOf["upgrades"]
      /\ "SWP" \in TypeOf["st"] /\ None \in TypeOf["suspect"]
      /\ None \in TypeOf["upgradeIn"]
  BY <1>1, SweepReads, PrefReads, BreakReads, Times, SweepFits, PrefFits, BreakFits DEF None
<1>3. /\ 0 \in TypeOf["txAge"] /\ 0 \in TypeOf["rxAge"] /\ 0 \in TypeOf["lockAge"]
      /\ 0 \in TypeOf["attempts"]
  BY Times, PrefFits, SessionFits
<1>4. reset(b, r, count, preserve, reason) =
        IF camps THEN enterPhase3(b, into) ELSE enterPhase1(b, over)
  BY <1>1 DEF reset, Board, IsRecord, Fields
<1> HIDE DEF ended, pr0, be0, up0, keep
<1>5. Board(p) BY <1>1, <1>2, <1>3, FlagFits, Zenon DEF Board, Typed, IsRecord
<1>6. p.st = "SWP" BY <1>1 DEF Board, IsRecord, Fields
<1> HIDE DEF q
<1>7. ASSUME camps PROVE Done(enterPhase3(b, into))
  <2>1. /\ p.preferred \in TypeOf["spd"] /\ Budget \in TypeOf["deadline"]
    BY <1>5, <1>7, SweepReads, PrefReads, Times, SweepFits, PrefFits DEF None
  <2> HIDE DEF p
  <2>2. Board(into) BY <1>5, <2>1, FlagFits, Zenon DEF Board, Typed, IsRecord
  <2>3. into.st = "SWP" /\ into.deadline = Budget /\ into.prefPending
    BY <1>5, <1>6 DEF Board, IsRecord, Fields
  <2> QED BY <2>2, <2>3, Phase3Done
<1>8. Done(enterPhase1(b, over))
  <2>1. None \in TypeOf["deadline"]
    BY PrefFits DEF None
  <2> HIDE DEF p
  <2>2. Board(over) BY <1>5, <2>1, FlagFits, Zenon DEF Board, Typed, IsRecord
  <2>3. over.st = "SWP" /\ over.deadline = None
    BY <1>5, <1>6 DEF Board, IsRecord, Fields
  <2> QED BY <2>2, <2>3, Phase1Done
<1> HIDE DEF camps, into, over
<1> QED BY <1>4, <1>7, <1>8

LEMMA ResetBreakDone ==
  ASSUME NEW r, Board(r), NEW b, NEW count, NEW preserve, NEW reason
  PROVE  Done(WithBreak(reset(b, r, count, preserve, reason)))
BY ResetDone, BreakDone

\* An update of fields that no camp depends on keeps a board good.
LEMMA GoodKept ==
  ASSUME NEW r, Good(r), NEW q, Board(q), q.st = r.st, q.phase = r.phase,
         q.deadline = r.deadline, q.prefPending = r.prefPending, q.timer = r.timer
  PROVE  Good(q)
BY DEF Good, Calm, Camp, InTime

LEMMA KickoffDone == ASSUME NEW r, Good(r), r.st = "OFF", NEW b PROVE Done(kickoff(b, r))
<1> DEFINE e(x) == (x + 1) % 256
<1>2. Board([r EXCEPT !.stormSeen = FALSE])
  BY FlagFits, Zenon DEF Good, Board, Typed, IsRecord
<1>3. ASSUME NEW s, Done(s) PROVE Good([s.r EXCEPT !.epoch = e(s.r.epoch)])
  <2> DEFINE q == [s.r EXCEPT !.epoch = e(s.r.epoch)]
  <2>1. e(s.r.epoch) \in TypeOf["epoch"]
    <3>1. Board(s.r) BY <1>3 DEF Done, Good
    <3>2. s.r.epoch \in Bytes BY <3>1, SessionReads
    <3>3. e(s.r.epoch) \in Bytes BY <3>2, EpochStep
    <3> HIDE DEF e
    <3> QED BY <3>3, SessionFits
  <2>2. Board(q) BY <1>3, <2>1, Zenon DEF Done, Good, Board, Typed, IsRecord
  <2>3. /\ q.st = s.r.st /\ q.phase = s.r.phase /\ q.timer = s.r.timer
        /\ q.deadline = s.r.deadline /\ q.prefPending = s.r.prefPending
    BY <1>3 DEF Done, Good, Board, IsRecord, Fields
  <2> HIDE DEF q
  <2> QED BY <1>3, <2>2, <2>3, GoodKept DEF Done, q
<1>4. CASE isMaster(b)
  <2> DEFINE s == reset(b, [r EXCEPT !.stormSeen = FALSE], FALSE, FALSE, "Kickoff")
  <2>1. Done(s) BY <1>2, ResetDone
  <2>2. [s EXCEPT !.r.epoch = e(@)] = Does([s.r EXCEPT !.epoch = e(s.r.epoch)], s.out)
    BY DEF reset, enterPhase1, enterPhase3, Ping, Sends, Does
  <2>3. kickoff(b, r) = WithBreak([s EXCEPT !.r.epoch = e(@)]) BY <1>4 DEF kickoff
  <2> HIDE DEF s
  <2>4. Done(Does([s.r EXCEPT !.epoch = e(s.r.epoch)], s.out))
    <3>1. Good([s.r EXCEPT !.epoch = e(s.r.epoch)]) BY <2>1, <1>3
    <3>2. s.out \in Seq(FrameType) BY <2>1 DEF Done
    <3> HIDE DEF e
    <3> QED BY <3>1, <3>2, DoesDone
  <2> QED BY <2>2, <2>3, <2>4, BreakDone
<1>5. CASE ~isMaster(b)
  <2> DEFINE p == At(r, Slowest)
             q == [p EXCEPT !.st = "SWP", !.phase = "P1", !.stormSeen = FALSE,
                            !.suspect = None, !.seen = FALSE,
                            !.epoch = e(p.epoch), !.timer = Dwell + Extra]
  <2>1. Board(p) BY AtBoard, Times DEF Good
  <2>2. p.deadline = None BY AtReads DEF Good, Calm, Camp
  <2>3. /\ "SWP" \in TypeOf["st"] /\ "P1" \in TypeOf["phase"] /\ None \in TypeOf["suspect"]
        /\ Dwell + Extra \in TypeOf["timer"]
    BY Times, SweepFits, BreakFits DEF None
  <2>9. e(p.epoch) \in TypeOf["epoch"]
    <3>1. p.epoch \in Bytes BY <2>1, SessionReads
    <3>2. e(p.epoch) \in Bytes BY <3>1, EpochStep
    <3> HIDE DEF e
    <3> QED BY <3>2, SessionFits
  <2>4. kickoff(b, r) = Does(q, <<>>) BY <1>5, <2>1 DEF kickoff, Board, IsRecord, Fields
  <2> HIDE DEF p, e
  <2>5. Board(q) BY <2>1, <2>3, <2>9, FlagFits, Zenon DEF Board, Typed, IsRecord
  <2>6. q.st = "SWP" /\ q.deadline = None BY <2>1, <2>2 DEF Board, IsRecord, Fields
  <2>7. Good(q) BY <2>5, <2>6 DEF Good, Calm, Camp, InTime
  <2>8. <<>> \in Seq(FrameType) OBVIOUS
  <2> QED BY <2>4, <2>7, <2>8, DoesDone
<1> QED BY <1>4, <1>5

-----------------------------------------------------------------------------
(* Control frames                                                          *)

LEMMA NothingSent == ASSUME NEW r, Good(r) PROVE Done(Does(r, <<>>))
<1>1. <<>> \in Seq(FrameType) OBVIOUS
<1> QED BY <1>1, DoesDone

LEMMA LockHereDone == ASSUME NEW r, Board(r) PROVE Done(LockHere(r))
BY LockGood, SendsDone DEF LockHere, Cmds

\* A board that has counted an answer and not yet enough of them.
LEMMA AckedGood ==
  ASSUME NEW r, Good(r), ~Enough(Acked(r))
  PROVE  Good(Acked(r)) /\ Acked(r).phase = r.phase /\ Acked(r).deadline = r.deadline
<1> DEFINE q == [r EXCEPT !.acks = r.acks + 1]
<1>1. Acked(r) = q BY DEF Acked
<1>2. /\ q.acks = r.acks + 1 /\ q.st = r.st /\ q.phase = r.phase
      /\ q.deadline = r.deadline /\ q.prefPending = r.prefPending /\ q.timer = r.timer
  BY DEF Good, Board, IsRecord, Fields
<1>3. r.acks + 1 \in TypeOf["acks"]
  <2>1. r.acks \in 0..2 /\ ~(q.acks >= 2)
    BY <1>1, SweepReads DEF Good, Enough, PHASE3_ACKS_NEEDED
  <2> HIDE DEF q
  <2>2. r.acks + 1 \in 0..2 BY <1>2, <2>1
  <2> QED BY <2>2, SweepFits
<1>4. Board(q) BY <1>3, Zenon DEF Good, Board, Typed, IsRecord
<1> HIDE DEF q
<1> QED BY <1>1, <1>2, <1>4, GoodKept

\* A new wait, in a phase without a budget or within its wait.
LEMMA TimerGood ==
  ASSUME NEW r, Good(r), NEW t \in Nat,
         Proportions /\ r.deadline # None => t <= r.deadline + Wait
  PROVE  Good([r EXCEPT !.timer = t])
<1> DEFINE q == [r EXCEPT !.timer = t]
<1>1. t \in TypeOf["timer"] BY SweepFits
<1>2. Board(q) BY <1>1, Zenon DEF Good, Board, Typed, IsRecord
<1>3. /\ q.timer = t /\ q.st = r.st /\ q.phase = r.phase
      /\ q.deadline = r.deadline /\ q.prefPending = r.prefPending
  BY DEF Good, Board, IsRecord, Fields
<1> HIDE DEF q
<1>4. Good(q) BY <1>2, <1>3 DEF Good, Calm, Camp, InTime
<1> QED BY <1>4 DEF q

\* The waits of phase 3 are short.
LEMMA ShortWaits ==
  ASSUME NEW r, Board(r)
  PROVE  Proportions /\ r.deadline # None
           => T3 <= r.deadline + Wait /\ T3Again <= r.deadline + Wait
<1>1. r.deadline # None => r.deadline >= 0 /\ r.deadline \in Int BY PrefReads, Times DEF None
<1> QED BY <1>1, Times DEF Proportions, Wait

LEMMA MasterPongDone ==
  ASSUME NEW r, Good(r), r.st = "SWP" PROVE Done(masterPong(r))
<1> DEFINE q == [r EXCEPT !.pong = TRUE]
<1>2. Board(q) BY FlagFits, Zenon DEF Good, Board, Typed, IsRecord
<1>3. /\ q.st = r.st /\ q.phase = r.phase /\ q.timer = r.timer
      /\ q.deadline = r.deadline /\ q.prefPending = r.prefPending
  BY DEF Good, Board, IsRecord, Fields
<1>4. masterPong(r) =
        CASE q.phase = "P1" -> enterPhase2("M", q)
          [] q.phase = "P2" -> enterPhase3("M", q)
          [] q.phase = "P3" -> IF Enough(Acked(q)) THEN LockHere(q)
                               ELSE Sends([Acked(q) EXCEPT !.timer = T3Again], "PING")
          [] OTHER -> Does(q, <<>>)
  BY DEF masterPong
<1> HIDE DEF q
<1>5. Good(q) BY <1>2, <1>3, GoodKept
<1>6. q.phase \in {"P1", "P2"} => q.deadline = None BY <1>5 DEF Good, Camp
<1>7. CASE q.phase = "P1"
  <2>1. masterPong(r) = enterPhase2("M", q) BY <1>4, <1>7
  <2> QED BY <1>2, <1>3, <1>6, <1>7, <2>1, Phase2Done
<1>8. CASE q.phase = "P2"
  <2>1. masterPong(r) = enterPhase3("M", q) BY <1>4, <1>8
  <2> QED BY <1>2, <1>3, <1>6, <1>8, <2>1, Phase3Done
<1>9. CASE q.phase = "P3" /\ Enough(Acked(q))
  <2>1. masterPong(r) = LockHere(q) BY <1>4, <1>9
  <2> QED BY <1>2, <2>1, LockHereDone
<1>10. CASE q.phase = "P3" /\ ~Enough(Acked(q))
  <2>1. masterPong(r) = Sends([Acked(q) EXCEPT !.timer = T3Again], "PING")
    BY <1>4, <1>10
  <2>2. Good(Acked(q)) BY <1>5, <1>10, AckedGood
  <2>3. Good([Acked(q) EXCEPT !.timer = T3Again])
    BY <2>2, TimerGood, ShortWaits, Times DEF Good
  <2> QED BY <2>1, <2>3, SendsDone DEF Cmds
<1>11. CASE q.phase = "NONE"
  <2>1. masterPong(r) = Does(q, <<>>) BY <1>4, <1>11
  <2> QED BY <1>5, <2>1, NothingSent
<1> QED BY <1>2, <1>7, <1>8, <1>9, <1>10, <1>11, SweepReads

LEMMA SlavePingDone ==
  ASSUME NEW r, Good(r), r.st = "SWP" PROVE Done(slavePing(r))
<1>1. Board(r) BY DEF Good
<1>2. r.phase \in {"P1", "P2"} => r.deadline = None BY DEF Good, Camp
<1>3. CASE r.phase = "P1"
  <2>1. slavePing(r) = Does(enterPhase2("S", r).r, <<Frame(r, "PONG")>>)
    BY <1>3 DEF slavePing
  <2>2. Good(enterPhase2("S", r).r) BY <1>1, <1>2, <1>3, Phase2Done DEF Done
  <2>3. Frame(r, "PONG") \in FrameType BY <1>1, FrameTyped DEF Cmds
  <2>4. <<Frame(r, "PONG")>> \in Seq(FrameType) BY <2>3
  <2> QED BY <2>1, <2>2, <2>4, DoesDone
<1>4. CASE r.phase = "P2"
  <2>1. slavePing(r) = Sends(enterPhase3("S", r).r, "PONG") BY <1>4 DEF slavePing
  <2>2. Good(enterPhase3("S", r).r) BY <1>1, <1>2, <1>4, Phase3Done DEF Done
  <2> QED BY <2>1, <2>2, SendsDone DEF Cmds
<1>5. CASE r.phase = "P3" /\ Enough(Acked(r))
  <2>1. slavePing(r) = LockHere(r) BY <1>5 DEF slavePing
  <2> QED BY <1>1, <2>1, LockHereDone
<1>6. CASE r.phase = "P3" /\ ~Enough(Acked(r))
  <2>1. slavePing(r) = Sends(Acked(r), "PONG") BY <1>6 DEF slavePing
  <2> QED BY <1>6, <2>1, AckedGood, SendsDone DEF Cmds
<1>7. CASE r.phase = "NONE"
  <2>1. slavePing(r) = Does(r, <<>>) BY <1>7 DEF slavePing
  <2> QED BY <2>1, NothingSent
<1> QED BY <1>1, <1>3, <1>4, <1>5, <1>6, <1>7, SweepReads

LEMMA LatchedGood ==
  ASSUME NEW r, Good(r), NEW f \in FrameType
  PROVE  Good(Latched(r, f)) /\ Latched(r, f).st = r.st
<1> DEFINE q == [r EXCEPT !.peerEpoch = f.epoch]
<1>1. f.epoch \in TypeOf["peerEpoch"] BY SessionFits DEF FrameType
<1>2. Board(q) BY <1>1, Zenon DEF Good, Board, Typed, IsRecord
<1>3. /\ q.st = r.st /\ q.phase = r.phase /\ q.timer = r.timer
      /\ q.deadline = r.deadline /\ q.prefPending = r.prefPending
  BY DEF Good, Board, IsRecord, Fields
<1> HIDE DEF q
<1>4. Good(q) BY <1>2, <1>3, GoodKept
<1> QED BY <1>3, <1>4 DEF Latched, q

LEMMA HandleSwpDone ==
  ASSUME NEW r, Good(r), r.st = "SWP", NEW b, NEW f \in FrameType
  PROVE  Done(handleSwp(b, r, f))
<1> DEFINE q == Latched(r, f)
<1>1. Good(q) /\ q.st = "SWP" BY LatchedGood
<1>2. Board(q) BY <1>1 DEF Good
<1>3. handleSwp(b, r, f) \in
        {Does(lockOk(q), <<>>), masterPong(q), slavePing(q), Does(q, <<>>)}
  BY DEF handleSwp
<1> HIDE DEF q
<1>4. Done(Does(lockOk(q), <<>>)) BY <1>2, LockGood, NothingSent
<1>5. Done(masterPong(q)) BY <1>1, MasterPongDone
<1>6. Done(slavePing(q)) BY <1>1, SlavePingDone
<1>7. Done(Does(q, <<>>)) BY <1>1, NothingSent
<1> QED BY <1>3, <1>4, <1>5, <1>6, <1>7

\* A field that is neither the state, the phase, the camp nor the timer.
Aside == Fields \ {"st", "phase", "timer", "deadline", "prefPending"}

LEMMA AsideGood ==
  ASSUME NEW r, Good(r), NEW f \in Aside, NEW v \in TypeOf[f]
  PROVE  /\ Good([r EXCEPT ![f] = v])
         /\ [r EXCEPT ![f] = v].st = r.st
         /\ [r EXCEPT ![f] = v].deadline = r.deadline
<1> DEFINE q == [r EXCEPT ![f] = v]
<1>1. f \in Fields BY DEF Aside
<1>2. Board(q) BY <1>1, Zenon DEF Good, Board, Typed, IsRecord
<1>3. /\ q.st = r.st /\ q.phase = r.phase /\ q.timer = r.timer
      /\ q.deadline = r.deadline /\ q.prefPending = r.prefPending
  BY <1>1 DEF Good, Board, IsRecord, Fields, Aside
<1> HIDE DEF q
<1>4. Good(q) BY <1>2, <1>3, GoodKept
<1> QED BY <1>3, <1>4 DEF q

LEMMA NotedGood == ASSUME NEW r, Good(r) PROVE Good(Noted(r)) /\ Noted(r).st = r.st
<1>1. /\ "suspect" \in Aside /\ "seen" \in Aside BY DEF Aside, Fields
<1>2. None \in TypeOf["suspect"]
  BY BreakFits DEF None
<1>3. Good([r EXCEPT !["seen"] = TRUE]) /\ [r EXCEPT !["seen"] = TRUE].st = r.st
  BY <1>1, FlagFits, AsideGood, Zenon
<1> DEFINE p == [r EXCEPT !["suspect"] = None]
<1>4. Good(p) /\ p.st = r.st BY <1>1, <1>2, AsideGood
<1>5. Good([p EXCEPT !["seen"] = FALSE]) /\ [p EXCEPT !["seen"] = FALSE].st = r.st
  <2> HIDE DEF p
  <2> QED BY <1>1, <1>4, FlagFits, AsideGood, Zenon
<1>6. Noted(r) \in {r, [p EXCEPT !["seen"] = FALSE], [r EXCEPT !["seen"] = TRUE]}
  BY DEF Noted
<1> QED BY <1>3, <1>5, <1>6

LEMMA HandleOkDone ==
  ASSUME NEW r, Good(r), NEW b, NEW f \in FrameType
  PROVE  Done(handleOk(b, r, f))
<1> DEFINE p == [r EXCEPT !["rxAge"] = 0]
           q == Noted(p)
           a == [q EXCEPT !["txAge"] = 0]
<1>1. /\ "rxAge" \in Aside /\ "txAge" \in Aside BY DEF Aside, Fields
<1>2. 0 \in TypeOf["rxAge"] /\ 0 \in TypeOf["txAge"] BY SessionFits
<1>3. Good(p) BY <1>1, <1>2, AsideGood
<1>4. handleOk(b, r, f) \in
        {WithBreak(reset(b, Latched(q, f), TRUE, TRUE, EpochReason(r, f))),
         Sends(a, "PONG"), Does(q, <<>>)}
  BY DEF handleOk
<1> HIDE DEF p
<1>5. Good(q) BY <1>3, NotedGood
<1> HIDE DEF q
<1>6. Good(a) BY <1>1, <1>2, <1>5, AsideGood
<1> HIDE DEF a
<1>7. Done(WithBreak(reset(b, Latched(q, f), TRUE, TRUE, EpochReason(r, f))))
  BY <1>5, LatchedGood, ResetBreakDone DEF Good
<1>8. Done(Sends(a, "PONG")) BY <1>6, SendsDone DEF Cmds
<1>9. Done(Does(q, <<>>)) BY <1>5, NothingSent
<1> QED BY <1>4, <1>7, <1>8, <1>9

\* A session has no camp.
LEMMA OkHasNoBudget == ASSUME NEW r, Good(r), r.st = "OK" PROVE r.deadline = None
BY DEF Good, Calm, Camp

LEMMA OnBreakGood == ASSUME NEW r, Good(r) PROVE Good(onBreak(r))
<1> DEFINE t == Soon(Earlier(Confirm, KeepaliveIn(r)))
           fresh == [[r EXCEPT !["suspect"] = 0] EXCEPT !["seen"] = FALSE]
           again == [r EXCEPT !["seen"] = FALSE]
           sure == [[r EXCEPT !["suspect"] = None] EXCEPT !["confirmed"] = TRUE]
<1>1. "suspect" \in Aside /\ "seen" \in Aside /\ "confirmed" \in Aside
  BY DEF Aside, Fields
<1>2. /\ 0 \in TypeOf["suspect"] /\ None \in TypeOf["suspect"]
  BY Times, BreakFits DEF None
<1>3. Good(fresh) /\ fresh.deadline = r.deadline
  <2> DEFINE p == [r EXCEPT !["suspect"] = 0]
  <2>1. Good(p) /\ p.deadline = r.deadline BY <1>1, <1>2, AsideGood
  <2> HIDE DEF p
  <2>2. Good([p EXCEPT !["seen"] = FALSE]) /\ [p EXCEPT !["seen"] = FALSE].deadline = r.deadline
    BY <1>1, <2>1, FlagFits, AsideGood, Zenon
  <2> QED BY <2>2 DEF p
<1>4. Good(again) /\ again.deadline = r.deadline BY <1>1, FlagFits, AsideGood, Zenon
<1>5. Good(sure) /\ sure.deadline = r.deadline
  <2> DEFINE p == [r EXCEPT !["suspect"] = None]
  <2>1. Good(p) /\ p.deadline = r.deadline BY <1>1, <1>2, AsideGood
  <2> HIDE DEF p
  <2>2. /\ Good([p EXCEPT !["confirmed"] = TRUE])
        /\ [p EXCEPT !["confirmed"] = TRUE].deadline = r.deadline
    BY <1>1, <2>1, FlagFits, AsideGood, Zenon
  <2> QED BY <2>2 DEF p
<1>6. t \in Nat BY SessionReads, Times DEF Good, Soon, Earlier, KeepaliveIn
<1>7. onBreak(r) \in {r, [fresh EXCEPT !.timer = t], [r EXCEPT !.timer = Confirm],
                      [again EXCEPT !.timer = Confirm], [sure EXCEPT !.timer = 1]}
  BY DEF onBreak
<1>8. r.st # "OK" => onBreak(r) = r BY DEF onBreak
<1> HIDE DEF fresh, again, sure, t
<1>9. CASE r.st = "OK"
  <2>1. r.deadline = None BY <1>9, OkHasNoBudget
  <2>2. Good([fresh EXCEPT !.timer = t]) BY <1>3, <1>6, <2>1, TimerGood
  <2>3. Good([r EXCEPT !.timer = Confirm]) BY <2>1, TimerGood, Times
  <2>4. Good([again EXCEPT !.timer = Confirm]) BY <1>4, <2>1, TimerGood, Times
  <2>5. Good([sure EXCEPT !.timer = 1]) BY <1>5, <2>1, TimerGood
  <2> QED BY <1>7, <2>2, <2>3, <2>4, <2>5
<1> QED BY <1>8, <1>9

LEMMA OnUartBreakGood == ASSUME NEW r, Good(r) PROVE Good(onUartBreak(r))
<1>1. "debounce" \in Aside /\ Debounce \in TypeOf["debounce"]
  BY Times, BreakFits DEF Aside, Fields
<1>2. Good([r EXCEPT !["debounce"] = Debounce]) BY <1>1, AsideGood
<1>3. Good([onBreak(r) EXCEPT !["debounce"] = Debounce]) BY <1>1, OnBreakGood, AsideGood
<1>4. onUartBreak(r) \in {[r EXCEPT !["debounce"] = Debounce], r,
                          [onBreak(r) EXCEPT !["debounce"] = Debounce]}
  BY DEF onUartBreak
<1> QED BY <1>2, <1>3, <1>4

LEMMA OnFrameDone ==
  ASSUME NEW r, Good(r), NEW b, NEW f \in FrameType PROVE Done(onFrame(b, r, f))
<1>1. CASE r.st = "OFF"
  BY <1>1, NothingSent DEF onFrame
<1>2. CASE r.st # "OFF" /\ f.cmd = "BREAK"
  BY <1>2, OnUartBreakGood, NothingSent DEF onFrame
<1>3. CASE r.st # "OFF" /\ f.cmd # "BREAK"
  <2>1. r.st \in {"SWP", "OK"} BY <1>3, SweepReads DEF Good
  <2>2. onFrame(b, r, f) = IF f.baud # r.spd THEN Does(r, <<>>)
                ELSE IF r.st = "OK" THEN handleOk(b, r, f) ELSE handleSwp(b, r, f)
    BY <1>3 DEF onFrame
  <2> QED BY <2>1, <2>2, NothingSent, HandleOkDone, HandleSwpDone
<1> QED BY <1>1, <1>2, <1>3

-----------------------------------------------------------------------------
(* Timers                                                                  *)

LEMMA AtGood ==
  ASSUME NEW r, Good(r), NEW s \in 0..Slowest
  PROVE  Good(At(r, s)) /\ At(r, s).st = r.st /\ At(r, s).deadline = r.deadline
<1> DEFINE q == At(r, s)
<1>1. Board(q) BY AtBoard DEF Good
<1>2. /\ q.st = r.st /\ q.phase = r.phase /\ q.timer = r.timer
      /\ q.deadline = r.deadline /\ q.prefPending = r.prefPending
  BY AtReads DEF Good
<1> HIDE DEF q
<1>3. Good(q) BY <1>1, <1>2, GoodKept
<1> QED BY <1>2, <1>3 DEF q

LEMMA ClearedGood ==
  ASSUME NEW r, Good(r), r.deadline = None
  PROVE  Good(Cleared(r)) /\ Cleared(r).st = r.st /\ Cleared(r).deadline = None
<1> DEFINE q == Cleared(r)
<1>1. Board(q) BY ClearedBoard DEF Good
<1>2. q.st = r.st /\ q.phase = "NONE" /\ q.deadline = None
  BY DEF Cleared, Good, Board, IsRecord, Fields
<1> HIDE DEF q
<1>3. Good(q) BY <1>1, <1>2 DEF Good, Calm, Camp, InTime
<1> QED BY <1>2, <1>3 DEF q

LEMMA FallbackDone ==
  ASSUME NEW r, Good(r), r.st = "SWP", r.deadline = None, NEW tells
  PROVE  Done(Fallback(r, tells))
<1> DEFINE q == [r EXCEPT !["spd"] = Slowest]
<1>1. "spd" \in Aside /\ Slowest \in TypeOf["spd"] BY Times, SweepFits DEF Aside, Fields
<1>2. Good(q) BY <1>1, AsideGood
<1>3. Fallback(r, tells) \in {enterPhase1("M", r), LockHere(q), Does(lockOk(q), <<>>)}
  BY DEF Fallback
<1> HIDE DEF q
<1>4. Done(enterPhase1("M", r)) BY Phase1Done DEF Good
<1>5. Done(LockHere(q)) BY <1>2, LockHereDone DEF Good
<1>6. Done(Does(lockOk(q), <<>>)) BY <1>2, LockGood, NothingSent DEF Good
<1> QED BY <1>3, <1>4, <1>5, <1>6

LEMMA MasterPhase2Done ==
  ASSUME NEW r, Good(r), r.st = "SWP", r.phase = "P2" PROVE Done(masterPhase2(r))
<1> DEFINE waited == r.elapsed + SubTick
           stay == [r EXCEPT !["elapsed"] = waited]
           last == [r EXCEPT !["elapsed"] = 0]
           step == At(r, r.spd + 1)
           next == [step EXCEPT !["elapsed"] = 0]
<1>1. r.deadline = None BY DEF Good, Camp
<1>2. "elapsed" \in Aside BY DEF Aside, Fields
<1>3. waited \in TypeOf["elapsed"] /\ 0 \in TypeOf["elapsed"]
  BY SweepReads, Times, SweepFits DEF Good
<1>4. masterPhase2(r) =
        IF waited < Dwell THEN Sends([stay EXCEPT !.timer = SubTick], "PING")
        ELSE IF r.spd + 2 >= Bauds THEN Fallback(last, TRUE)
        ELSE Sends([next EXCEPT !.timer = SubTick], "PING")
  BY DEF masterPhase2
<1>5. Done(Sends([stay EXCEPT !.timer = SubTick], "PING"))
  <2>1. Good(stay) /\ stay.deadline = None BY <1>1, <1>2, <1>3, AsideGood
  <2> HIDE DEF stay
  <2>2. Good([stay EXCEPT !.timer = SubTick]) BY <2>1, TimerGood, Times
  <2> QED BY <2>2, SendsDone DEF Cmds
<1>6. Done(Fallback(last, TRUE))
  <2>1. Good(last) /\ last.deadline = None /\ last.st = "SWP"
    BY <1>1, <1>2, <1>3, AsideGood
  <2> HIDE DEF last
  <2> QED BY <2>1, FallbackDone
<1>7. ASSUME ~(r.spd + 2 >= Bauds)
      PROVE  Done(Sends([next EXCEPT !.timer = SubTick], "PING"))
  <2>1. r.spd + 1 \in 0..Slowest BY <1>7, SweepReads, Times DEF Good
  <2>2. Good(step) /\ step.deadline = None BY <1>1, <2>1, AtGood
  <2> HIDE DEF step
  <2>3. Good(next) /\ next.deadline = None BY <1>2, <1>3, <2>2, AsideGood
  <2> HIDE DEF next
  <2>4. Good([next EXCEPT !.timer = SubTick]) BY <2>3, TimerGood, Times
  <2> QED BY <2>4, SendsDone DEF Cmds
<1> HIDE DEF stay, last, next
<1> QED BY <1>4, <1>5, <1>6, <1>7

LEMMA MasterPhase3Done ==
  ASSUME NEW r, Good(r), r.st = "SWP", r.phase = "P3" PROVE Done(masterPhase3(r))
<1> DEFINE more == [r EXCEPT !["attempts"] = r.attempts + 1]
           p == Cleared(At(r, Slowest))
           over == [p EXCEPT !.attempts = 0, !.prefPending = FALSE, !.deadline = None,
                             !.phase = "P1", !.timer = Delay]
           next == Cleared(At(r, r.spd + 1))
<1>1. Board(r) BY DEF Good
<1>2. masterPhase3(r) =
        IF r.prefPending
          THEN IF campOpen(r) THEN Sends([more EXCEPT !.timer = T3Left(r)], "PING")
               ELSE Sends(over, "PING")
          ELSE IF r.spd + 1 >= Bauds THEN Fallback(r, FALSE)
               ELSE Sends([next EXCEPT !.timer = Dwell], "PING")
  BY DEF masterPhase3
<1>3. ASSUME campOpen(r) PROVE Done(Sends([more EXCEPT !.timer = T3Left(r)], "PING"))
  <2>1. r.attempts + 1 \in TypeOf["attempts"]
    <3>1. r.attempts \in 0..RESWEEP_PREF_ATTEMPT_CEILING BY <1>1, PrefReads
    <3>2. r.attempts + 1 \in 0..RESWEEP_PREF_ATTEMPT_CEILING
      BY <1>3, <3>1, Times DEF campOpen
    <3> QED BY <3>2, PrefFits
  <2>2. "attempts" \in Aside BY DEF Aside, Fields
  <2>3. Good(more) /\ more.deadline = r.deadline BY <2>1, <2>2, AsideGood
  <2> HIDE DEF more
  <2>4. T3Left(r) \in {T3, T3Again} BY DEF T3Left
  <2>5. /\ T3Left(r) \in Nat
        /\ Proportions /\ more.deadline # None => T3Left(r) <= more.deadline + Wait
    BY <1>1, <2>3, <2>4, ShortWaits, Times
  <2>6. Good([more EXCEPT !.timer = T3Left(r)]) BY <2>3, <2>5, TimerGood
  <2> QED BY <2>6, SendsDone DEF Cmds
<1>4. Done(Sends(over, "PING"))
  <2>1. Board(p) BY <1>1, AtBoard, ClearedBoard, Times
  <2>2. p.st = "SWP" BY <1>1, AtBoard, AtReads, Times DEF Cleared, Board, IsRecord, Fields
  <2>3. /\ 0 \in TypeOf["attempts"] /\ None \in TypeOf["deadline"] /\ "P1" \in TypeOf["phase"]
        /\ Delay \in TypeOf["timer"]
    BY Times, SweepFits, PrefFits DEF None
  <2> HIDE DEF p
  <2>4. Board(over) BY <2>1, <2>3, FlagFits, Zenon DEF Board, Typed, IsRecord
  <2>5. over.st = "SWP" /\ over.deadline = None BY <2>1, <2>2 DEF Board, IsRecord, Fields
  <2> HIDE DEF over
  <2>6. Good(over) BY <2>4, <2>5 DEF Good, Calm, Camp, InTime
  <2> QED BY <2>6, SendsDone DEF Cmds
<1>5. ASSUME ~r.prefPending PROVE r.deadline = None BY <1>5 DEF Good, Camp
<1>6. ASSUME ~r.prefPending PROVE Done(Fallback(r, FALSE))
  BY <1>5, <1>6, FallbackDone
<1>7. ASSUME ~r.prefPending, ~(r.spd + 1 >= Bauds)
      PROVE  Done(Sends([next EXCEPT !.timer = Dwell], "PING"))
  <2>1. r.spd + 1 \in 0..Slowest BY <1>1, <1>7, SweepReads, Times
  <2>2. Good(At(r, r.spd + 1)) /\ At(r, r.spd + 1).deadline = None
    BY <1>5, <1>7, <2>1, AtGood
  <2>3. Good(next) /\ next.deadline = None BY <2>2, ClearedGood
  <2> HIDE DEF next
  <2>4. Good([next EXCEPT !.timer = Dwell]) BY <2>3, TimerGood, Times
  <2> QED BY <2>4, SendsDone DEF Cmds
<1> HIDE DEF more, over, next
<1> QED BY <1>2, <1>3, <1>4, <1>6, <1>7

LEMMA MasterSwpDone == ASSUME NEW r, Good(r), r.st = "SWP" PROVE Done(masterSwp(r))
<1>1. Board(r) BY DEF Good
<1>2. CASE r.phase = "P1"
  <2>1. r.deadline = None BY <1>2 DEF Good, Camp
  <2>2. Good([r EXCEPT !.timer = Delay]) BY <2>1, TimerGood, Times
  <2>3. masterSwp(r) = Sends([r EXCEPT !.timer = Delay], "PING") BY <1>2 DEF masterSwp
  <2> QED BY <2>2, <2>3, SendsDone DEF Cmds
<1>3. CASE r.phase = "P2" BY <1>3, MasterPhase2Done DEF masterSwp
<1>4. CASE r.phase = "P3" BY <1>4, MasterPhase3Done DEF masterSwp
<1>5. CASE r.phase = "NONE"
  <2>1. r.deadline = None BY <1>5 DEF Good, Camp
  <2>2. masterSwp(r) = enterPhase1("M", r) BY <1>5 DEF masterSwp
  <2> QED BY <1>1, <2>1, <2>2, Phase1Done
<1> QED BY <1>1, <1>2, <1>3, <1>4, <1>5, SweepReads

\* The slave's long wait is cut to what is left of the budget.
LEMMA RearmInTime ==
  ASSUME NEW r, Board(r)
  PROVE  /\ RearmMs(r) \in Nat
         /\ r.deadline # None => RearmMs(r) <= r.deadline + Wait
<1>1. r.deadline # None => r.deadline >= 0 /\ r.deadline \in Int BY PrefReads, Times DEF None
<1> QED BY <1>1, Times DEF RearmMs, Earlier, Wait

LEMMA SlaveSwpGood == ASSUME NEW r, Good(r), r.st = "SWP" PROVE Good(slaveSwp(r).r)
<1> DEFINE more == [r EXCEPT !["attempts"] = r.attempts + 1]
           p == At(r, IF r.spd > 0 THEN r.spd - 1 ELSE Slowest)
           over == [r EXCEPT !.attempts = 0, !.deadline = None,
                             !.preferred = None, !.prefPending = FALSE]
<1>1. Board(r) BY DEF Good
<1>2. CASE r.phase = "P1"
  <2>1. r.deadline = None BY <1>2 DEF Good, Camp
  <2>2. Good([r EXCEPT !.timer = Dwell + Extra]) BY <2>1, TimerGood, Times
  <2> QED BY <1>2, <2>2 DEF slaveSwp, Does
<1>3. CASE r.phase = "P2"
  <2>1. r.deadline = None BY <1>3 DEF Good, Camp
  <2>2. (IF r.spd > 0 THEN r.spd - 1 ELSE Slowest) \in 0..Slowest BY <1>1, SweepReads, Times
  <2>3. Good(p) /\ p.deadline = None BY <2>1, <2>2, AtGood
  <2>4. slaveSwp(r).r = [p EXCEPT !.timer = SubTick]
    BY <1>3 DEF slaveSwp, slavePhase2, Does
  <2> HIDE DEF p
  <2> QED BY <2>3, <2>4, TimerGood, Times
<1>4. CASE r.phase \in {"P3", "NONE"}
  <2>1. slaveSwp(r).r = slaveCamp(r).r BY <1>4 DEF slaveSwp
  <2>2. CASE campOver(r)
    <3>1. /\ 0 \in TypeOf["attempts"] /\ None \in TypeOf["deadline"]
          /\ None \in TypeOf["preferred"]
      BY PrefFits, Times DEF None
    <3>2. Board(over) BY <1>1, <3>1, FlagFits, Zenon DEF Board, Typed, IsRecord
    <3>3. over.st = "SWP" /\ over.deadline = None BY <1>1 DEF Board, IsRecord, Fields
    <3>4. slaveCamp(r) = enterPhase1("S", over) BY <2>2 DEF slaveCamp
    <3> HIDE DEF over
    <3> QED BY <2>1, <3>2, <3>3, <3>4, Phase1Done DEF Done
  <2>3. CASE ~campOver(r)
    <3>1. r.attempts + 1 \in TypeOf["attempts"]
      <4>1. r.attempts \in 0..RESWEEP_PREF_ATTEMPT_CEILING BY <1>1, PrefReads
      <4>2. r.attempts + 1 \in 0..RESWEEP_PREF_ATTEMPT_CEILING
        BY <2>3, <4>1
        DEF campOver, RESWEEP_PREF_MAX_ATTEMPTS, RESWEEP_PREF_ATTEMPT_CEILING
      <4> QED BY <4>2, PrefFits
    <3>2. "attempts" \in Aside BY DEF Aside, Fields
    <3>3. Good(more) /\ more.deadline = r.deadline BY <3>1, <3>2, AsideGood
    <3>4. slaveCamp(r).r = [more EXCEPT !.timer = RearmMs(r)]
      BY <2>3 DEF slaveCamp, Does
    <3> HIDE DEF more
    <3>5. Good([more EXCEPT !.timer = RearmMs(r)])
      BY <1>1, <3>3, RearmInTime, TimerGood
    <3> QED BY <2>1, <3>4, <3>5
  <2> QED BY <2>2, <2>3
<1> QED BY <1>1, <1>2, <1>3, <1>4, SweepReads

LEMMA KeepaliveDone ==
  ASSUME NEW r, Good(r), NEW due
  PROVE  /\ Done(WithKeepalive(r, due))
         /\ WithKeepalive(r, due).r.st = r.st
         /\ WithKeepalive(r, due).r.deadline = r.deadline
         /\ WithKeepalive(r, due) =
              Does(WithKeepalive(r, due).r, WithKeepalive(r, due).out)
<1> DEFINE q == [r EXCEPT !["txAge"] = 0]
<1>1. "txAge" \in Aside /\ 0 \in TypeOf["txAge"] BY SessionFits DEF Aside, Fields
<1>2. Good(q) /\ q.st = r.st /\ q.deadline = r.deadline BY <1>1, AsideGood
<1>3. WithKeepalive(r, due) = IF due THEN Sends(q, "PING") ELSE Does(r, <<>>)
  BY DEF WithKeepalive
<1> HIDE DEF q
<1>4. Done(Sends(q, "PING")) /\ Done(Does(r, <<>>))
  BY <1>2, SendsDone, NothingSent DEF Cmds
<1>5. WithKeepalive(r, due).r = IF due THEN q ELSE r BY <1>3 DEF Sends, Does
<1>6. WithKeepalive(r, due) = Does(WithKeepalive(r, due).r, WithKeepalive(r, due).out)
  BY <1>3 DEF Sends, Does
<1> QED BY <1>2, <1>3, <1>4, <1>5, <1>6

LEMMA OkSuspectDone ==
  ASSUME NEW r, Good(r), r.st = "OK", r.suspect # None, NEW b PROVE Done(okSuspect(b, r))
<1> DEFINE s == WithKeepalive(r, r.txAge >= Idle \div 2)
           t == Soon(Earlier(Confirm - r.suspect, KeepaliveIn(s.r)))
<1>1. Board(r) /\ r.deadline = None BY OkHasNoBudget DEF Good
<1>2. CASE r.suspect >= Confirm
  BY <1>1, <1>2, ResetBreakDone DEF okSuspect
<1>3. CASE ~(r.suspect >= Confirm)
  <2>1. /\ Done(s) /\ s.r.deadline = None /\ s = Does(s.r, s.out)
    BY <1>1, KeepaliveDone
  <2>2. okSuspect(b, r) = [s EXCEPT !.r.timer = t] BY <1>3 DEF okSuspect
  <2> HIDE DEF s
  <2>3. Good(s.r) /\ s.out \in Seq(FrameType) BY <2>1 DEF Done
  <2>4. t \in Nat
    <3>1. KeepaliveIn(s.r) \in Int BY <2>3, SessionReads, Times DEF Good, KeepaliveIn
    <3>2. r.suspect \in Int BY <1>1, BreakReads, Times
    <3> HIDE DEF KeepaliveIn
    <3> QED BY <3>1, <3>2, Times DEF Soon, Earlier
  <2> HIDE DEF t
  <2>5. Good([s.r EXCEPT !.timer = t]) BY <2>1, <2>3, <2>4, TimerGood
  <2>6. [s EXCEPT !.r.timer = t] = Does([s.r EXCEPT !.timer = t], s.out)
    BY <2>1 DEF Does
  <2> QED BY <2>2, <2>3, <2>5, <2>6, DoesDone
<1> QED BY <1>2, <1>3

LEMMA OkIdleDone == ASSUME NEW r, Good(r), r.st = "OK", NEW b PROVE Done(okIdle(b, r))
<1> DEFINE q == [r EXCEPT !.preferred = None, !.prefPending = FALSE]
           p == [r EXCEPT !.timer = OkTick]
<1>1. Board(r) /\ r.deadline = None BY OkHasNoBudget DEF Good
<1>2. None \in TypeOf["preferred"]
  BY PrefFits DEF None
<1>3. Board(q) BY <1>1, <1>2, FlagFits, Zenon DEF Board, Typed, IsRecord
<1>4. Good(p) BY <1>1, TimerGood, Times
<1>5. okIdle(b, r) \in
        {WithBreak(reset(b, r, TRUE, TRUE, "HealthWatchdog")),
         WithBreak(reset(b, q, TRUE, TRUE, "HealthWatchdog")),
         WithKeepalive(p, r.txAge > Idle \div 2)}
  BY DEF okIdle
<1> HIDE DEF q, p
<1>6. /\ Done(WithBreak(reset(b, r, TRUE, TRUE, "HealthWatchdog")))
      /\ Done(WithBreak(reset(b, q, TRUE, TRUE, "HealthWatchdog")))
  BY <1>1, <1>3, ResetBreakDone
<1>7. Done(WithKeepalive(p, r.txAge > Idle \div 2)) BY <1>4, KeepaliveDone
<1> QED BY <1>5, <1>6, <1>7

LEMMA TimerOkDone == ASSUME NEW r, Good(r), r.st = "OK", NEW b PROVE Done(timerOk(b, r))
<1> DEFINE q == [r EXCEPT !.preferred = r.best, !.upgrades = r.upgrades + 1]
<1>1. Board(r) BY DEF Good
<1>2. ASSUME UpgradeDue(r)
      PROVE  Done(WithBreak(reset(b, q, FALSE, TRUE, "BaudUpgrade")))
  <2>1. r.upgrades \in 0..UpgradeMax /\ r.best \in {-1} \cup (0..Slowest)
    BY <1>1, PrefReads
  <2>2. r.upgrades + 1 \in 0..UpgradeMax BY <1>2, <2>1, Times DEF UpgradeDue
  <2>3. r.upgrades + 1 \in TypeOf["upgrades"] BY <2>2, PrefFits
  <2>4. r.best \in TypeOf["preferred"] BY <2>1, PrefFits
  <2>5. Board(q) BY <1>1, <2>3, <2>4, Zenon DEF Board, Typed, IsRecord
  <2> HIDE DEF q
  <2> QED BY <2>5, ResetBreakDone
<1>3. timerOk(b, r) =
        IF UpgradeDue(r) THEN WithBreak(reset(b, q, FALSE, TRUE, "BaudUpgrade"))
        ELSE IF r.suspect # None THEN okSuspect(b, r) ELSE okIdle(b, r)
  BY <1>1 DEF timerOk, Board, IsRecord, Fields
<1> HIDE DEF q
<1> QED BY <1>2, <1>3, OkSuspectDone, OkIdleDone

LEMMA OnTimerDone == ASSUME NEW r, Good(r), NEW b PROVE Done(onTimer(b, r))
<1> DEFINE p == [r EXCEPT !.storm = FALSE, !.stormSeen = TRUE]
           q == [r EXCEPT !.confirmed = FALSE]
<1>1. Board(r) BY DEF Good
<1>2. CASE r.st = "OFF" BY <1>2, KickoffDone DEF onTimer
<1>3. CASE r.st # "OFF" /\ r.storm
  <2>2. Board(p) BY <1>1, FlagFits, Zenon DEF Board, Typed, IsRecord
  <2>3. onTimer(b, r) = WithBreak(reset(b, p, TRUE, FALSE, "PeerBaudMismatch"))
    BY <1>3 DEF onTimer
  <2> HIDE DEF p
  <2> QED BY <2>2, <2>3, ResetBreakDone
<1>4. CASE r.st # "OFF" /\ ~r.storm /\ r.confirmed
  <2>2. Board(q) BY <1>1, FlagFits, Zenon DEF Board, Typed, IsRecord
  <2>3. onTimer(b, r) = reset(b, q, TRUE, TRUE, "HealthWatchdog")
    BY <1>4 DEF onTimer
  <2> HIDE DEF q
  <2> QED BY <2>2, <2>3, ResetDone
<1>5. CASE r.st # "OFF" /\ ~r.storm /\ ~r.confirmed
  <2>1. onTimer(b, r) = IF r.st = "OK" THEN timerOk(b, r)
                        ELSE IF isMaster(b) THEN masterSwp(r) ELSE Does(slaveSwp(r).r, <<>>)
    BY <1>5 DEF onTimer
  <2>2. r.st \in {"SWP", "OK"} BY <1>1, <1>5, SweepReads
  <2>3. CASE r.st = "OK" BY <2>1, <2>3, TimerOkDone
  <2>4. CASE r.st = "SWP"
    BY <2>1, <2>4, MasterSwpDone, SlaveSwpGood, NothingSent
  <2> QED BY <2>2, <2>3, <2>4
<1> QED BY <1>2, <1>3, <1>4, <1>5

\* The clock goes on by at most the time to the board's own timer.
LEMMA LaterGood ==
  ASSUME NEW r, Good(r), NEW dt \in Nat, dt <= r.timer PROVE Good(Later(r, dt))
<1> DEFINE on(age) == IF r.st = "OK" THEN age + dt ELSE age
           upTo(age, top) == IF age + dt > top THEN top ELSE age + dt
           down(left) == IF left = None THEN None ELSE IF left > dt THEN left - dt ELSE 0
           lock == IF r.st = "OK" THEN upTo(r.lockAge, FairChance) ELSE r.lockAge
           susp == IF r.suspect = None THEN None ELSE upTo(r.suspect, Confirm)
           q(t, tx, rx, l, d, dl, u, g, de, s) ==
             [r EXCEPT !.timer = t, !.txAge = tx, !.rxAge = rx, !.lockAge = l,
                       !.discAge = d, !.deadline = dl, !.upgradeIn = u, !.guard = g,
                       !.debounce = de, !.suspect = s]
           p == q(r.timer - dt, on(r.txAge), on(r.rxAge), lock,
                  upTo(r.discAge, DiscWindow), down(r.deadline), down(r.upgradeIn),
                  down(r.guard), down(r.debounce), susp)
<1>1. Board(r) BY DEF Good
<1>2. Later(r, dt) = p BY <1>1 DEF Later, Board, IsRecord, Fields
<1>3. /\ r.timer - dt \in TypeOf["timer"] /\ on(r.txAge) \in TypeOf["txAge"]
      /\ on(r.rxAge) \in TypeOf["rxAge"]
  BY <1>1, SweepReads, SessionReads, SweepFits, SessionFits
<1>4. lock \in TypeOf["lockAge"] /\ upTo(r.discAge, DiscWindow) \in TypeOf["discAge"]
  <2>1. r.lockAge \in 0..FairChance /\ r.discAge \in 0..DiscWindow BY <1>1, SessionReads
  <2>2. lock \in 0..FairChance BY <2>1, Times
  <2>3. upTo(r.discAge, DiscWindow) \in 0..DiscWindow BY <2>1, Times
  <2> HIDE DEF upTo, lock
  <2> QED BY <2>2, <2>3, SessionFits
<1>5. down(r.deadline) \in TypeOf["deadline"] /\ down(r.upgradeIn) \in TypeOf["upgradeIn"]
  <2>1. r.deadline \in {-1} \cup (0..Budget) /\ r.upgradeIn \in {-1} \cup (0..UpgradeDelay)
    BY <1>1, PrefReads
  <2>2. down(r.deadline) \in {-1} \cup (0..Budget) BY <2>1, Times DEF None
  <2>3. down(r.upgradeIn) \in {-1} \cup (0..UpgradeDelay) BY <2>1, Times DEF None
  <2> HIDE DEF down
  <2> QED BY <2>2, <2>3, PrefFits
<1>6. down(r.guard) \in TypeOf["guard"] /\ down(r.debounce) \in TypeOf["debounce"]
  BY <1>1, BreakReads, Times, BreakFits DEF None
<1>7. susp \in TypeOf["suspect"]
  BY <1>1, BreakReads, Times, BreakFits DEF None
<1>8. InTime(r) /\ Proportions /\ r.deadline # None
        => r.timer - dt <= down(r.deadline) + Wait
  <2>1. r.timer \in Nat /\ (r.deadline # None => r.deadline \in Nat)
    BY <1>1, SweepReads, PrefReads DEF None
  <2>2. Wait \in Nat BY Times DEF Wait
  <2> QED BY <2>1, <2>2 DEF InTime
<1>9. r.deadline = None <=> down(r.deadline) = None BY <1>1, PrefReads, Times DEF None
<1> HIDE DEF on, upTo, down, lock, susp
<1>10. Board(p)
  BY <1>1, <1>3, <1>4, <1>5, <1>6, <1>7, Zenon DEF Board, Typed, IsRecord
<1>11. /\ p.st = r.st /\ p.phase = r.phase /\ p.prefPending = r.prefPending
       /\ p.timer = r.timer - dt /\ p.deadline = down(r.deadline)
  BY <1>1 DEF Board, IsRecord, Fields
<1> HIDE DEF p
<1>12. Good(p) BY <1>8, <1>9, <1>10, <1>11 DEF Good, Calm, Camp, InTime
<1> QED BY <1>2, <1>12

-----------------------------------------------------------------------------
(* The steps of the two boards                                             *)

BoardInv ==
  /\ DOMAIN board = Boards /\ board = [b \in Boards |-> board[b]]
  /\ \A b \in Boards : Good(board[b])
WireInv == wire \in [Boards -> Seq(FrameType)]
CountInv == losses \in 0..MaxLoss /\ drops \in 0..MaxDrop /\ reboots \in 0..MaxReboot
MissedInv == missed \in [Boards -> BOOLEAN]
IInv == BoardInv /\ WireInv /\ CountInv /\ MissedInv

LEMMA PeerIsBoard == \A b \in Boards : Peer(b) \in Boards /\ Peer(b) # b
BY DEF Boards, Peer

\* A board that is switched on is good.
LEMMA OffGood == ASSUME NEW delay \in Nat PROVE Good(Off(delay))
<1>1. Off(delay).phase = "NONE" /\ Off(delay).deadline = None BY DEF Off
<1> QED BY <1>1, OffBoard DEF Good, Calm, Camp, InTime

\* What a handler leaves, put in the place of what was there.
LEMMA TakeInv ==
  ASSUME BoardInv, WireInv, MissedInv, NEW b \in Boards, NEW s, Done(s),
         NEW rest \in Seq(FrameType), Take(b, s, rest)
  PROVE  BoardInv' /\ WireInv' /\ MissedInv'
<1>1. board' = [board EXCEPT ![b] = s.r] BY DEF Take
<1>2. Good(s.r) /\ s.out \in Seq(FrameType) BY DEF Done
<1>3. BoardInv'
  <2>1. DOMAIN board' = Boards BY <1>1 DEF BoardInv
  <2>2. \A c \in Boards : board'[c] = IF c = b THEN s.r ELSE board[c]
    BY <1>1 DEF BoardInv
  <2>3. board' = [c \in Boards |-> board'[c]] BY <1>1, Zenon DEF BoardInv
  <2>4. \A c \in Boards : Good(board'[c]) BY <1>2, <2>2 DEF BoardInv
  <2> QED BY <2>1, <2>3, <2>4, Zenon DEF BoardInv
<1>4. WireInv'
  <2>1. Peer(b) \in Boards BY PeerIsBoard
  <2>2. wire[Peer(b)] \o s.out \in Seq(FrameType) BY <1>2, <2>1 DEF WireInv
  <2>3. wire' = [wire EXCEPT ![b] = rest, ![Peer(b)] = wire[Peer(b)] \o s.out]
    BY PeerIsBoard DEF Take, WireInv
  <2> QED BY <2>1, <2>2, <2>3 DEF WireInv
<1>5. MissedInv'
  BY DEF Take, MissedInv, MissedAfter, Restarts
<1> QED BY <1>3, <1>4, <1>5

LEMMA InitInv == Init => IInv
<1> SUFFICES ASSUME Init PROVE IInv OBVIOUS
<1>1. PICK late \in Boards, skew \in Skews :
        board = [b \in Boards |-> Off(IF b = late THEN skew ELSE 0)]
  BY DEF Init
<1>2. \A b \in Boards : (IF b = late THEN skew ELSE 0) \in Nat BY Times
<1>3. \A b \in Boards : Good(board[b]) BY <1>1, <1>2, OffGood
<1>4. BoardInv BY <1>1, <1>3 DEF BoardInv
<1>5. WireInv BY DEF Init, WireInv
<1>6. CountInv BY Times DEF Init, CountInv
<1>7. MissedInv BY DEF Init, MissedInv
<1> QED BY <1>4, <1>5, <1>6, <1>7 DEF IInv

LEMMA ReceiveStep ==
  ASSUME IInv, NEW b \in Boards, Receive(b) PROVE BoardInv' /\ WireInv' /\ MissedInv'
<1>1. wire[b] \in Seq(FrameType) /\ wire[b] # <<>> BY DEF IInv, WireInv, Receive
<1>2. Head(wire[b]) \in FrameType /\ Tail(wire[b]) \in Seq(FrameType) BY <1>1
<1>3. Good(board[b]) BY DEF IInv, BoardInv
<1>4. Done(onFrame(b, board[b], Head(wire[b]))) BY <1>2, <1>3, OnFrameDone
<1>5. Take(b, onFrame(b, board[b], Head(wire[b])), Tail(wire[b])) BY DEF Receive
<1> QED BY <1>2, <1>4, <1>5, TakeInv DEF IInv

LEMMA TimerStep ==
  ASSUME IInv, NEW b \in Boards, Timer(b) PROVE BoardInv' /\ WireInv' /\ MissedInv'
<1>1. wire[b] \in Seq(FrameType) BY DEF IInv, WireInv
<1>2. Done(onTimer(b, board[b])) BY OnTimerDone DEF IInv, BoardInv
<1>3. Take(b, onTimer(b, board[b]), wire[b]) BY DEF Timer
<1> QED BY <1>1, <1>2, <1>3, TakeInv DEF IInv

LEMMA DropStep ==
  ASSUME IInv, NEW b \in Boards, NEW preserve \in BOOLEAN, Drop(b, preserve)
  PROVE  BoardInv' /\ WireInv' /\ MissedInv'
<1> DEFINE s == WithBreak(reset(b, board[b], TRUE, preserve,
                    IF preserve THEN "HealthWatchdog" ELSE "UserDropLink"))
<1>1. wire[b] \in Seq(FrameType) BY DEF IInv, WireInv
<1>2. Board(board[b]) BY DEF IInv, BoardInv, Good
<1>3. Done(s) BY <1>2, ResetBreakDone
<1>4. Take(b, s, wire[b]) BY DEF Drop
<1> HIDE DEF s
<1> QED BY <1>1, <1>3, <1>4, TakeInv DEF IInv

LEMMA RebootStep ==
  ASSUME IInv, NEW b \in Boards, Reboot(b) PROVE BoardInv' /\ WireInv' /\ MissedInv'
<1>1. PICK delay \in Skews : Take(b, Does(Off(delay), <<>>), <<>>) BY DEF Reboot
<1>2. delay \in Nat BY Times
<1>3. Done(Does(Off(delay), <<>>)) BY <1>2, OffGood, NothingSent
<1>4. <<>> \in Seq(FrameType) OBVIOUS
<1> QED BY <1>1, <1>3, <1>4, TakeInv DEF IInv

LEMMA StormStep ==
  ASSUME IInv, NEW b \in Boards, Storm(b) PROVE BoardInv' /\ WireInv' /\ MissedInv'
<1> DEFINE q == [board[b] EXCEPT !["storm"] = TRUE]
<1>1. "storm" \in Aside BY DEF Aside, Fields
<1>2. Good(board[b]) BY DEF IInv, BoardInv
<1>3. Good(q) BY <1>1, <1>2, FlagFits, AsideGood, Zenon
<1>4. board' = [board EXCEPT ![b] = q] BY DEF Storm
<1> HIDE DEF q
<1>5. /\ DOMAIN board' = Boards
      /\ \A c \in Boards : board'[c] = IF c = b THEN q ELSE board[c]
  BY <1>4 DEF IInv, BoardInv
<1>6. board' = [c \in Boards |-> board'[c]] BY <1>4, Zenon DEF IInv, BoardInv
<1>7. \A c \in Boards : Good(board'[c]) BY <1>3, <1>5 DEF IInv, BoardInv
<1>8. BoardInv' BY <1>5, <1>6, <1>7, Zenon DEF BoardInv
<1>9. WireInv' /\ MissedInv' BY DEF Storm, IInv, WireInv, MissedInv
<1> QED BY <1>8, <1>9

LEMMA AdvanceStep == ASSUME IInv, Advance PROVE BoardInv' /\ WireInv' /\ MissedInv'
<1>1. \A b \in Boards : Good(board[b]) /\ board[b].timer \in Nat
  BY SweepReads DEF IInv, BoardInv, Good
<1>2. Step \in Nat /\ \A b \in Boards : Step <= board[b].timer
  BY <1>1 DEF Step, Earlier, Boards
<1>3. board' = [b \in Boards |-> Later(board[b], Step)] BY DEF Advance
<1>4. \A b \in Boards : Good(Later(board[b], Step)) BY <1>1, <1>2, LaterGood
<1>5. BoardInv' BY <1>3, <1>4 DEF BoardInv
<1>6. WireInv' /\ MissedInv' BY DEF Advance, IInv, WireInv, MissedInv
<1> QED BY <1>5, <1>6

LEMMA CountStep == ASSUME IInv, [Next]_vars PROVE CountInv'
<1>1. CASE UNCHANGED <<losses, drops, reboots>>
  BY <1>1 DEF IInv, CountInv
<1>2. ASSUME NEW b \in Boards, LoseFrame(b) PROVE CountInv'
  BY <1>2, Times DEF IInv, CountInv, LoseFrame, MayLose
<1>3. ASSUME NEW b \in Boards, Storm(b) PROVE CountInv'
  BY <1>3, Times DEF IInv, CountInv, Storm, MayDrop
<1>4. ASSUME NEW b \in Boards, Reboot(b) PROVE CountInv'
  BY <1>4, Times DEF IInv, CountInv, Reboot, MayReboot
<1>5. ASSUME NEW b \in Boards, NEW preserve \in BOOLEAN, Drop(b, preserve) PROVE CountInv'
  BY <1>5, Times DEF IInv, CountInv, Drop, MayDrop
<1>6. (Advance \/ \E b \in Boards : Receive(b) \/ Timer(b)) \/ UNCHANGED vars
        => UNCHANGED <<losses, drops, reboots>>
  BY DEF Advance, Receive, Timer, vars
<1> QED BY <1>1, <1>2, <1>3, <1>4, <1>5, <1>6 DEF Next, System

LEMMA StepInv == IInv /\ [Next]_vars => IInv'
<1> SUFFICES ASSUME IInv, [Next]_vars PROVE BoardInv' /\ WireInv' /\ MissedInv'
  BY CountStep DEF IInv
<1>1. CASE Advance BY <1>1, AdvanceStep
<1>2. ASSUME NEW b \in Boards, Receive(b) PROVE BoardInv' /\ WireInv' /\ MissedInv'
  BY <1>2, ReceiveStep
<1>3. ASSUME NEW b \in Boards, Timer(b) PROVE BoardInv' /\ WireInv' /\ MissedInv'
  BY <1>3, TimerStep
<1>4. ASSUME NEW b \in Boards, LoseFrame(b) PROVE BoardInv' /\ WireInv' /\ MissedInv'
  <2>1. wire[b] \in Seq(FrameType) /\ wire[b] # <<>>
    BY <1>4 DEF IInv, WireInv, LoseFrame
  <2>2. Tail(wire[b]) \in Seq(FrameType) BY <2>1
  <2>3. WireInv' BY <1>4, <2>2 DEF IInv, WireInv, LoseFrame
  <2>4. board' = board /\ missed' = missed BY <1>4 DEF LoseFrame
  <2> QED BY <2>3, <2>4 DEF IInv, BoardInv, MissedInv
<1>5. ASSUME NEW b \in Boards, Storm(b) PROVE BoardInv' /\ WireInv' /\ MissedInv'
  BY <1>5, StormStep
<1>6. ASSUME NEW b \in Boards, Reboot(b) PROVE BoardInv' /\ WireInv' /\ MissedInv'
  BY <1>6, RebootStep
<1>7. ASSUME NEW b \in Boards, NEW preserve \in BOOLEAN, Drop(b, preserve)
      PROVE  BoardInv' /\ WireInv' /\ MissedInv'
  BY <1>7, DropStep
<1>8. CASE UNCHANGED vars
  BY <1>8 DEF vars, IInv, BoardInv, WireInv, MissedInv
<1> QED BY <1>1, <1>2, <1>3, <1>4, <1>5, <1>6, <1>7, <1>8 DEF Next, System

\* The inductive invariant: every board is well-formed, in a phase only while
\* it sweeps, with a budget only while it camps on its preferred baud (phase 3),
\* and, where the waits are in proportion, with its next wake-up at most one
\* short wait after the end of that budget (onTimerSwp_unlocked).
THEOREM SweepInvariant == Spec => []IInv
BY InitInv, StepInv, PTL DEF Spec

\* Every handler of the sweep keeps both boards and the frames between them
\* well-formed: no baud index leaves the list, no counter its limit, an epoch
\* stays a byte, and a board in OK is in no phase.
THEOREM SweepTypes == Spec => []TypeOK
<1>1. IInv => TypeOK
  <2> SUFFICES ASSUME IInv PROVE TypeOK OBVIOUS
  <2>1. \A b \in Boards : board[b] \in BoardType /\ Calm(board[b])
    BY BoardIsTyped DEF IInv, BoardInv, Good
  <2>2. board \in [Boards -> BoardType] BY <2>1 DEF IInv, BoardInv
  <2>3. \A b \in Boards : board[b].st = "OK" => board[b].phase = "NONE"
    BY <2>1 DEF Calm
  <2>4. \A b \in Boards : \A i \in 1..Len(wire[b]) :
          wire[b][i] \in [cmd : {"PING", "PONG", "LOCK", "BREAK"},
                          baud : 0..Slowest, epoch : 0..255]
    <3> SUFFICES ASSUME NEW b \in Boards, NEW i \in 1..Len(wire[b])
                 PROVE  wire[b][i] \in FrameType
      BY DEF FrameType, Cmds, Bytes
    <3>1. wire[b] \in Seq(FrameType) BY DEF IInv, WireInv
    <3> QED BY <3>1
  <2> QED BY <2>2, <2>3, <2>4 DEF TypeOK, IInv, CountInv, MissedInv
<1> QED BY <1>1, SweepInvariant, PTL

\* A camp on the preferred baud ends with its budget but for one short wait, for
\* every budget that holds two first waits of phase 3 and a second wait no longer
\* than the first (both follow from the code's formulas): the slave's re-armed
\* dwell and the master's repeated PINGs never carry it further.
THEOREM CampsEndOnTime == ASSUME Proportions PROVE Spec => []CampEndsOnTime
<1>1. IInv => CampEndsOnTime
  <2> SUFFICES ASSUME IInv, NEW b \in Boards,
                      board[b].phase = "P3", board[b].deadline = 0
               PROVE  board[b].timer <= T3 \/ board[b].timer <= Floor
    BY DEF CampEndsOnTime
  <2>1. Board(board[b]) /\ InTime(board[b]) BY DEF IInv, BoardInv, Good
  <2>2. board[b].timer \in Nat BY <2>1, SweepReads
  <2> QED BY <2>1, <2>2, Times DEF InTime, Wait, None
<1> QED BY <1>1, SweepInvariant, PTL

=============================================================================
