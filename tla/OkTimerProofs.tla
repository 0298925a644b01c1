---------------------------- MODULE OkTimerProofs ----------------------------
(***************************************************************************)
(* Proofs about OkTimer, for every window, timeout, cap and threshold.     *)
(***************************************************************************)
EXTENDS OkTimer, WellFoundedInduction, TLAPS

\* A set of numbers that is not empty has a least member.
LEMMA LeastMember ==
  ASSUME NEW T, T \subseteq Nat, T # {}
  PROVE  \E x \in T : \A y \in T : x <= y
<1> DEFINE R == OpToRel(<, Nat)
<1>1. IsWellFoundedOn(R, Nat)
  BY NatLessThanWellFounded
<1>2. \A x, y \in Nat : x < y => <<x, y>> \in R
  BY DEF OpToRel
<1> HIDE DEF R
<1>3. PICK x \in T : \A y \in T : ~(<<y, x>> \in R)
  BY <1>1, WFMin
<1>4. \A y \in T : ~(y < x)
  BY <1>2, <1>3
<1> QED
  BY <1>3, <1>4

-----------------------------------------------------------------------------
(* The backoff                                                             *)

\* g holds the first doublings of Sync, up to the n-th.
DoublingsUpTo(g, n) ==
  /\ g \in [0..n -> Nat] /\ g[0] = Sync
  /\ \A i \in 1..n : g[i] = 2 * g[i - 1]

LEMMA DoublingsExist == \A n \in Nat : \E g : DoublingsUpTo(g, n)
<1> DEFINE T == {n \in Nat : ~\E g : DoublingsUpTo(g, n)}
<1> SUFFICES ASSUME T # {} PROVE FALSE
  OBVIOUS
<1>1. Sync \in Nat
  BY TimerAssumption
<1>2. PICK x \in T : \A y \in T : x <= y
  BY LeastMember
<1>3. x \in Nat /\ ~\E g : DoublingsUpTo(g, x)
  OBVIOUS
<1>4. CASE x = 0
  <2> DEFINE g == [i \in 0..0 |-> Sync]
  <2>1. DoublingsUpTo(g, 0)
    BY <1>1 DEF DoublingsUpTo
  <2> QED
    BY <1>3, <1>4, <2>1
<1>5. CASE x # 0
  <2>1. x - 1 \in Nat /\ x - 1 \notin T
    BY <1>2, <1>3, <1>5
  <2>2. PICK g : DoublingsUpTo(g, x - 1)
    BY <2>1
  <2> DEFINE h == [i \in 0..x |-> IF i = x THEN 2 * g[x - 1] ELSE g[i]]
  <2>3. g[x - 1] \in Nat /\ \A i \in 0..(x - 1) : g[i] \in Nat
    BY <2>1, <2>2 DEF DoublingsUpTo
  <2>4. h \in [0..x -> Nat] /\ h[0] = Sync
    BY <1>3, <1>5, <2>2, <2>3 DEF DoublingsUpTo
  <2>5. ASSUME NEW i \in 1..x PROVE h[i] = 2 * h[i - 1]
    <3>1. CASE i = x
      BY <1>3, <1>5, <3>1
    <3>2. CASE i # x
      <4>1. i \in 1..(x - 1) /\ i - 1 \in 0..x /\ i - 1 # x /\ i \in 0..x
        BY <1>3, <3>2
      <4>2. h[i] = g[i] /\ h[i - 1] = g[i - 1]
        BY <3>2, <4>1
      <4> HIDE DEF h
      <4> QED
        BY <2>2, <4>1, <4>2 DEF DoublingsUpTo
    <3> QED
      BY <3>1, <3>2
  <2> HIDE DEF h
  <2>6. DoublingsUpTo(h, x)
    BY <2>4, <2>5 DEF DoublingsUpTo
  <2> QED
    BY <1>3, <2>6
<1> QED
  BY <1>4, <1>5

LEMMA DoublingsAgree ==
  ASSUME NEW m \in Nat, NEW n \in Nat, m <= n, NEW g, NEW h,
         DoublingsUpTo(g, m), DoublingsUpTo(h, n)
  PROVE  g[m] = h[m]
<1> DEFINE T == {i \in 0..m : g[i] # h[i]}
<1>1. SUFFICES ASSUME T # {} PROVE FALSE
  OBVIOUS
<1>2. PICK x \in T : \A y \in T : x <= y
  <2>1. T \subseteq Nat
    OBVIOUS
  <2> HIDE DEF T
  <2> QED
    BY <1>1, <2>1, LeastMember
<1>3. x \in 0..m /\ g[x] # h[x]
  OBVIOUS
<1>4. x # 0
  BY <1>3 DEF DoublingsUpTo
<1>5. x \in 1..m /\ x \in 1..n /\ x - 1 \in 0..m /\ ~(x <= x - 1)
  BY <1>3, <1>4
<1>6. g[x - 1] = h[x - 1]
  BY <1>2, <1>5
<1> QED
  BY <1>3, <1>5, <1>6 DEF DoublingsUpTo

\* Doubled is what its definition says, and a number.
LEMMA DoubledDefined ==
  /\ Doubled = [n \in Nat |-> IF n = 0 THEN Sync ELSE 2 * Doubled[n - 1]]
  /\ \A n \in Nat : Doubled[n] \in Nat
<1> DEFINE g(n) == CHOOSE g : DoublingsUpTo(g, n)
           f == [n \in Nat |-> g(n)[n]]
<1>1. \A n \in Nat : DoublingsUpTo(g(n), n)
  BY DoublingsExist
<1> HIDE DEF g
<1>2. \A n \in Nat : f[n] \in Nat
  BY <1>1 DEF DoublingsUpTo
<1>3. ASSUME NEW n \in Nat
      PROVE  f[n] = IF n = 0 THEN Sync ELSE 2 * f[n - 1]
  <2>1. CASE n = 0
    BY <1>1, <2>1 DEF DoublingsUpTo
  <2>2. CASE n # 0
    <3>1. n - 1 \in Nat /\ n - 1 <= n /\ n \in 1..n
      BY <2>2
    <3>2. g(n - 1)[n - 1] = g(n)[n - 1]
      BY <1>1, <3>1, DoublingsAgree
    <3>3. g(n)[n] = 2 * g(n)[n - 1]
      BY <1>1, <3>1 DEF DoublingsUpTo
    <3> QED
      BY <2>2, <3>1, <3>2, <3>3
  <2> QED
    BY <2>1, <2>2
<1>4. f = [n \in Nat |-> IF n = 0 THEN Sync ELSE 2 * f[n - 1]]
  BY <1>3
<1> HIDE DEF f
<1>5. Doubled = [n \in Nat |-> IF n = 0 THEN Sync ELSE 2 * Doubled[n - 1]]
  BY <1>4 DEF Doubled
<1> DEFINE T == {n \in Nat : Doubled[n] \notin Nat}
<1>6. ASSUME T # {} PROVE FALSE
  <2>1. PICK x \in T : \A y \in T : x <= y
    BY <1>6, LeastMember
  <2>2. x \in Nat /\ Doubled[x] \notin Nat
    OBVIOUS
  <2>3. x # 0
    BY <1>5, <2>2, TimerAssumption
  <2>4. x - 1 \in Nat /\ ~(x <= x - 1)
    BY <2>2, <2>3
  <2>5. Doubled[x - 1] \in Nat
    BY <2>1, <2>4
  <2> QED
    BY <1>5, <2>2, <2>3, <2>5
<1> QED
  BY <1>5, <1>6

\* The parameters one by one.
LEMMA Params ==
  /\ Window \in Nat \ {0} /\ Pool \in Nat \ {0} /\ MaxRetx \in Nat \ {0}
  /\ Rto \in Nat \ {0} /\ Sync \in Nat \ {0} /\ KeepCap \in Nat \ {0}
  /\ Mismatch \in Nat \ {0}
  /\ BurstMax \in Nat /\ ChunkDrain \in Nat /\ BackoffCap \in Nat /\ BacklogCap \in Nat
  /\ Idle \in Nat /\ FastIdleTx \in Nat /\ StalledFloor \in Nat /\ Camp \in Nat
  /\ FairChance \in Nat /\ MaxLate \in Nat /\ MaxRingFull \in Nat
  BY TimerAssumption

\* The largest values of the ages and counters are numbers.
LEMMA Caps ==
  /\ Larger(BackoffCap, Sync) \in Nat /\ Sync <= Larger(BackoffCap, Sync)
  /\ TickGap \in Nat /\ StuckCap \in Nat /\ SilenceCap \in Nat /\ QuietCap \in Nat
  /\ RetxCap \in Nat \ {0}
<1>1. Larger(BackoffCap, Sync) \in Nat /\ Sync <= Larger(BackoffCap, Sync)
  BY Params DEF Larger
<1>2. TickGap \in Nat
  BY Params DEF TickGap, Larger
<1>3. StuckCap \in Nat
  <2>1. Window * ChunkDrain \in Nat
    BY Params
  <2> QED
    BY <2>1, Params DEF StuckCap, Larger
<1>4. SilenceCap \in Nat /\ QuietCap \in Nat /\ RetxCap \in Nat \ {0}
  BY Params DEF SilenceCap, QuietCap, RetxCap, Larger
<1> QED
  BY <1>1, <1>2, <1>3, <1>4

\* decideGbnBackoff never leaves the range between the timeout and its cap.
LEMMA BackoffInRange ==
  ASSUME NEW n \in Nat
  PROVE  decideGbnBackoff(n) \in 0..Larger(BackoffCap, Sync)
<1>1. n > 1 => Doubled[n - 1] \in Nat
  BY DoubledDefined
<1> QED
  BY <1>1, Caps, Params DEF decideGbnBackoff, Smaller

\* The closed form of decideGbnBackoff is the loop of the code, which stops
\* doubling at the cap: one more attempt doubles the backoff or reaches it.
THEOREM BackoffDoubles ==
  ASSUME NEW n \in Nat \ {0}
  PROVE  decideGbnBackoff(n + 1) =
           Smaller(2 * decideGbnBackoff(n), Larger(BackoffCap, Sync))
<1>1. /\ n \in Nat /\ n - 1 \in Nat /\ (n + 1) - 1 = n /\ n # 0
      /\ ~(n + 1 <= 1) /\ (n <= 1) = (n - 1 = 0)
  OBVIOUS
<1>2. Doubled[n] = 2 * Doubled[n - 1] /\ Doubled[n] \in Nat /\ Doubled[n - 1] \in Nat
  BY <1>1, DoubledDefined
<1>3. n - 1 = 0 => Doubled[n - 1] = Sync
  BY <1>1, DoubledDefined
<1>4. Larger(BackoffCap, Sync) \in Nat /\ Sync <= Larger(BackoffCap, Sync) /\ Sync \in Nat
  BY Caps, Params
<1>5. decideGbnBackoff(n + 1) = Smaller(Doubled[n], Larger(BackoffCap, Sync))
  BY <1>1 DEF decideGbnBackoff
<1>6. CASE n <= 1
  <2>1. decideGbnBackoff(n) = Sync /\ Doubled[n] = 2 * Sync
    BY <1>1, <1>2, <1>3, <1>6 DEF decideGbnBackoff
  <2> QED
    BY <1>5, <2>1
<1>7. CASE ~(n <= 1)
  <2>1. decideGbnBackoff(n) = Smaller(Doubled[n - 1], Larger(BackoffCap, Sync))
    BY <1>7 DEF decideGbnBackoff
  <2>2. \A d, c \in Nat : Smaller(2 * d, c) = Smaller(2 * Smaller(d, c), c)
    BY DEF Smaller
  <2> QED
    BY <1>2, <1>4, <1>5, <2>1, <2>2
<1> QED
  BY <1>6, <1>7

-----------------------------------------------------------------------------
(* The inductive invariant                                                 *)

WinTypes == win \in Seq(Chunk) /\ Len(win) <= Window

LadderTypes ==
  /\ attempts \in 0..RetxCap /\ backoff \in 0..Larger(BackoffCap, Sync)
  /\ lastRetxBase \in {"none", "base", "other"}
  /\ stuck \in 0..StuckCap /\ keeps \in 0..KeepCap /\ backlogs \in 0..BacklogCap

ClockTypes ==
  /\ sinceTick \in Never..(TickGap + 1)
  /\ rxAge \in 0..Sync /\ validAge \in 0..SilenceCap
  /\ txAge \in 0..QuietCap /\ lockAge \in 0..FairChance
  /\ rejFirst \in Never..QuietCap /\ rejLast \in Never..QuietCap
  /\ timer \in 0..Larger(BackoffCap, Sync) /\ late \in 0..MaxLate

CountTypes ==
  /\ isMaster \in Roles /\ state \in {"OK", "SWP"}
  /\ locksWithoutRecv \in 0..Mismatch /\ mute \in 0..Mismatch
  /\ ringFull \in 0..MaxRingFull

FlagTypes ==
  resent \in BOOLEAN /\ tracked \in BOOLEAN /\ frameErrs \in BOOLEAN /\ crossed \in BOOLEAN

\* What crossed in this session has cleared the mismatch counter.
EvidenceInv == MismatchHasEvidence /\ (crossed => locksWithoutRecv = 0)

IInv ==
  /\ WinTypes /\ LadderTypes /\ ClockTypes /\ CountTypes /\ FlagTypes
  /\ LadderIsCoherent /\ EvidenceInv

LEMMA InitTimer == Init => IInv
<1> SUFFICES ASSUME Init PROVE IInv
  OBVIOUS
<1> USE Params, Caps DEF Init
<1>1. WinTypes /\ LadderTypes
  BY DEF WinTypes, LadderTypes
<1>2. ClockTypes
  BY DEF ClockTypes, Never
<1>3. CountTypes
  BY DEF CountTypes
<1>5. FlagTypes
  BY DEF FlagTypes
<1>4. LadderIsCoherent /\ EvidenceInv
  BY DEF LadderIsCoherent, EvidenceInv, MismatchHasEvidence
<1> QED
  BY <1>1, <1>2, <1>3, <1>4, <1>5 DEF IInv

LEMMA IInvTypes == IInv => TypeOK
<1> SUFFICES ASSUME IInv PROVE TypeOK
  OBVIOUS
<1>1. {resent, tracked, frameErrs, crossed} \subseteq BOOLEAN
  BY DEF IInv, FlagTypes
<1>2. /\ {rejFirst, rejLast} \subseteq Never..QuietCap
      /\ {locksWithoutRecv, mute} \subseteq 0..Mismatch
  BY DEF IInv, ClockTypes, CountTypes
<1> QED
  BY <1>1, <1>2 DEF IInv, TypeOK, WinTypes, LadderTypes, ClockTypes, CountTypes

-----------------------------------------------------------------------------
(* What each step may do to the window                                     *)

\* A sequence rebuilt chunk by chunk.
LEMMA WinRebuilt ==
  ASSUME NEW w \in Seq(Chunk), NEW v, DOMAIN v = 1..Len(w), v = [i \in 1..Len(w) |-> v[i]],
         \A i \in 1..Len(w) : v[i] \in Chunk
  PROVE  v \in Seq(Chunk) /\ Len(v) = Len(w)
  OBVIOUS

\* The rest of the window from the k-th chunk on.
LEMMA WinRest ==
  ASSUME NEW w \in Seq(Chunk), NEW k \in 1..(Len(w) + 1)
  PROVE  /\ SubSeq(w, k, Len(w)) \in Seq(Chunk)
         /\ Len(SubSeq(w, k, Len(w))) = Len(w) - k + 1
         /\ \A i \in 1..(Len(w) - k + 1) : SubSeq(w, k, Len(w))[i] = w[k + i - 1]
  OBVIOUS

LEMMA ChunkUpdates ==
  ASSUME NEW c \in Chunk
  PROVE  /\ [c EXCEPT !.age = 0] \in Chunk
         /\ [c EXCEPT !.nak = Smaller(c.nak + 1, RetxCap)] \in Chunk
         /\ [c EXCEPT !.retx = Smaller(c.retx + 1, RetxCap), !.age = 0] \in Chunk
         /\ [c EXCEPT !.retx = 0, !.age = 0] \in Chunk
         /\ [c EXCEPT !.age = IF c.age = Never THEN Never ELSE Smaller(c.age + 1, Rto)] \in Chunk
<1> USE Params, Caps
<1>1. c.age \in 0..Rto /\ c.retx \in 0..RetxCap /\ c.nak \in 0..RetxCap
      /\ c = [age |-> c.age, retx |-> c.retx, nak |-> c.nak]
  BY DEF Chunk
<1>2. 0 \in 0..Rto /\ 0 \in 0..RetxCap
  OBVIOUS
<1>3. \A i \in 0..RetxCap : Smaller(i + 1, RetxCap) \in 0..RetxCap
  BY DEF Smaller
<1>4. \A i \in 0..Rto : (IF i = Never THEN Never ELSE Smaller(i + 1, Rto)) \in 0..Rto
  BY DEF Smaller, Never
<1> QED
  BY <1>1, <1>2, <1>3, <1>4 DEF Chunk

LEMMA ResendTypes ==
  ASSUME NEW w \in Seq(Chunk), NEW n \in Nat, NEW b \in BOOLEAN
  PROVE  Resend(w, n, b) \in Seq(Chunk) /\ Len(Resend(w, n, b)) = Len(w)
<1>1. \A i \in 1..Len(w) : w[i] \in Chunk
  OBVIOUS
<1>2. \A i \in 1..Len(w) : Resend(w, n, b)[i] \in Chunk
  BY <1>1, ChunkUpdates DEF Resend
<1> DEFINE v == Resend(w, n, b)
<1>3. DOMAIN v = 1..Len(w) /\ v = [i \in 1..Len(w) |-> v[i]]
  BY DEF Resend
<1> HIDE DEF v
<1>4. \A i \in 1..Len(w) : v[i] \in Chunk
  BY <1>2 DEF v
<1>5. v \in Seq(Chunk) /\ Len(v) = Len(w)
  BY <1>3, <1>4, WinRebuilt
<1> QED
  BY <1>5 DEF v

\* An update of the base alone.
LEMMA BaseUpdated ==
  ASSUME NEW w \in Seq(Chunk), w # <<>>, NEW c \in Chunk
  PROVE  [w EXCEPT ![1] = c] \in Seq(Chunk) /\ Len([w EXCEPT ![1] = c]) = Len(w)
  OBVIOUS

LEMMA BurstTypes ==
  ASSUME NEW w \in Seq(Chunk), NEW b \in BOOLEAN, CountTypes, ClockTypes, Burst(w, b)
  PROVE  /\ win' \in Seq(Chunk) /\ Len(win') = Len(w)
         /\ resent' = TRUE /\ ringFull' \in 0..MaxRingFull /\ txAge' \in 0..QuietCap
<1>1. PICK room \in 0..Len(w) :
        /\ room = 0 => ringFull < MaxRingFull
        /\ ringFull' = IF room = 0 THEN ringFull + 1 ELSE ringFull
        /\ resent' = TRUE
        /\ win' = Resend(w, Smaller(room, BurstMax), b)
        /\ txAge' = IF Smaller(room, BurstMax) > 0 THEN 0 ELSE txAge
  BY DEF Burst
<1>2. Smaller(room, BurstMax) \in Nat
  BY Params DEF Smaller
<1>3. win' \in Seq(Chunk) /\ Len(win') = Len(w)
  BY <1>1, <1>2, ResendTypes
<1>4. ringFull' \in 0..MaxRingFull
  BY <1>1, Params DEF CountTypes
<1>5. txAge' \in 0..QuietCap
  BY <1>1, Caps DEF ClockTypes
<1> QED
  BY <1>1, <1>3, <1>4, <1>5

LEMMA SendChunkWin == IInv /\ SendChunk => WinTypes' /\ win' # <<>>
<1> SUFFICES ASSUME IInv, SendChunk PROVE WinTypes' /\ win' # <<>>
  OBVIOUS
<1>1. [age |-> 0, retx |-> 0, nak |-> 0] \in Chunk
  BY Params, Caps DEF Chunk
<1>2. win \in Seq(Chunk) /\ Len(win) < Window
      /\ win' = Append(win, [age |-> 0, retx |-> 0, nak |-> 0])
  BY DEF IInv, WinTypes, SendChunk
<1> QED
  BY <1>1, <1>2, Params DEF WinTypes

LEMMA OnAckWin ==
  ASSUME IInv, NEW k \in 1..Window, OnAck(k)
  PROVE  WinTypes'
<1>1. win \in Seq(Chunk) /\ Len(win) \in Nat /\ k <= Len(win) /\ Len(win) <= Window
      /\ win' = SubSeq(win, k + 1, Len(win))
  BY DEF IInv, WinTypes, OnAck
<1>2. k + 1 \in 1..(Len(win) + 1)
  BY <1>1, Params
<1>3. win' \in Seq(Chunk) /\ Len(win') = Len(win) - (k + 1) + 1
  BY <1>1, <1>2, WinRest
<1> QED
  BY <1>1, <1>2, <1>3, Params DEF WinTypes

LEMMA OnNakWin ==
  ASSUME IInv, NEW k \in 1..Window, OnNak(k)
  PROVE  /\ WinTypes' /\ win' # <<>>
         /\ resent' \in BOOLEAN /\ ringFull' \in 0..MaxRingFull /\ txAge' \in 0..QuietCap
<1> DEFINE w == SubSeq(win, k, Len(win))
           c == [w[1] EXCEPT !.nak = Smaller(w[1].nak + 1, RetxCap)]
           naked == [w EXCEPT ![1] = c]
<1>1. win \in Seq(Chunk) /\ Len(win) \in Nat /\ k <= Len(win) /\ Len(win) <= Window
  BY DEF IInv, WinTypes, OnNak
<1>2. k \in 1..(Len(win) + 1) /\ Len(win) - k + 1 >= 1 /\ Len(win) - k + 1 <= Window
  BY <1>1, Params
<1>3. w \in Seq(Chunk) /\ Len(w) = Len(win) - k + 1
  BY <1>1, <1>2, WinRest
<1>4. \/ win' = naked /\ resent' = (k = 1 /\ resent) /\ UNCHANGED <<txAge, ringFull>>
      \/ Burst([naked EXCEPT ![1].age = 0], FALSE)
  BY DEF OnNak
<1> HIDE DEF w
<1>5. w # <<>> /\ w[1] \in Chunk
  BY <1>2, <1>3
<1>6. naked \in Seq(Chunk) /\ Len(naked) = Len(w) /\ naked[1] = c /\ c \in Chunk
  <2>1. c \in Chunk
    BY <1>5, ChunkUpdates
  <2> HIDE DEF c
  <2>2. naked \in Seq(Chunk) /\ Len(naked) = Len(w)
    BY <1>3, <1>5, <2>1, BaseUpdated
  <2>3. naked[1] = c
    BY <1>2, <1>3
  <2> QED
    BY <2>1, <2>2, <2>3
<1> HIDE DEF naked, c
<1>7. [naked EXCEPT ![1] = [c EXCEPT !.age = 0]] \in Seq(Chunk)
      /\ Len([naked EXCEPT ![1] = [c EXCEPT !.age = 0]]) = Len(naked)
  <2>1. naked # <<>>
    BY <1>2, <1>3, <1>6
  <2>2. [c EXCEPT !.age = 0] \in Chunk
    BY <1>6, ChunkUpdates
  <2> QED
    BY <1>6, <2>1, <2>2, BaseUpdated
<1>8. [naked EXCEPT ![1].age = 0] = [naked EXCEPT ![1] = [c EXCEPT !.age = 0]]
  BY <1>6
<1>9. win' \in Seq(Chunk) /\ Len(win') = Len(w)
      /\ resent' \in BOOLEAN /\ ringFull' \in 0..MaxRingFull /\ txAge' \in 0..QuietCap
  <2>1. CountTypes /\ ClockTypes /\ FlagTypes
    BY DEF IInv
  <2>2. CASE win' = naked /\ resent' = (k = 1 /\ resent) /\ UNCHANGED <<txAge, ringFull>>
    BY <1>6, <2>1, <2>2 DEF CountTypes, ClockTypes, FlagTypes
  <2>3. CASE Burst([naked EXCEPT ![1].age = 0], FALSE)
    BY <1>6, <1>7, <1>8, <2>1, <2>3, BurstTypes
  <2> QED
    BY <1>4, <2>2, <2>3
<1> QED
  BY <1>1, <1>2, <1>3, <1>9 DEF WinTypes

LEMMA TickRetxWin ==
  ASSUME IInv, NEW backlog \in BOOLEAN, TickRetx(backlog)
  PROVE  /\ WinTypes' /\ win' # <<>>
         /\ resent' \in BOOLEAN /\ ringFull' \in 0..MaxRingFull /\ txAge' \in 0..QuietCap
<1>1. win \in Seq(Chunk) /\ Len(win) <= Window /\ win # <<>> /\ Burst(win, TRUE)
  BY DEF IInv, WinTypes, TickRetx, Sweeps, gbnActive
<1>2. CountTypes /\ ClockTypes
  BY DEF IInv
<1>3. win' \in Seq(Chunk) /\ Len(win') = Len(win)
      /\ resent' = TRUE /\ ringFull' \in 0..MaxRingFull /\ txAge' \in 0..QuietCap
  BY <1>1, <1>2, BurstTypes
<1> QED
  BY <1>1, <1>3 DEF WinTypes

LEMMA TickKeepWin ==
  ASSUME IInv, NEW backlog \in BOOLEAN, TickKeep(backlog)
  PROVE  WinTypes'
<1> DEFINE c == [win[1] EXCEPT !.retx = 0, !.age = 0]
<1>1. /\ win \in Seq(Chunk) /\ Len(win) <= Window /\ win # <<>>
      /\ win' = [win EXCEPT ![1].retx = 0, ![1].age = 0]
  BY DEF IInv, WinTypes, TickKeep, Sweeps, gbnActive
<1>2. win[1] \in Chunk
  BY <1>1
<1>3. c \in Chunk
  BY <1>2, ChunkUpdates
<1>4. win' = [win EXCEPT ![1] = c]
  BY <1>1
<1> HIDE DEF c
<1> QED
  BY <1>1, <1>3, <1>4, BaseUpdated DEF WinTypes

LEMMA AdvanceWin ==
  ASSUME IInv, Advance
  PROVE  WinTypes' /\ (win # <<>> => win' # <<>>)
<1> DEFINE Aged(c) ==
             [c EXCEPT !.age = IF c.age = Never THEN Never ELSE Smaller(c.age + 1, Rto)]
<1>1. /\ win \in Seq(Chunk) /\ Len(win) <= Window
      /\ win' = [i \in 1..Len(win) |-> Aged(win[i])]
  BY DEF IInv, WinTypes, Advance
<1>2. ASSUME NEW i \in 1..Len(win) PROVE Aged(win[i]) \in Chunk
  <2>1. win[i] \in Chunk
    BY <1>1
  <2> QED
    BY <2>1, ChunkUpdates
<1> HIDE DEF Aged
<1>3. win' \in Seq(Chunk) /\ Len(win') = Len(win)
  BY <1>1, <1>2, WinRebuilt
<1> QED
  BY <1>1, <1>3 DEF WinTypes

\* Only these steps touch the window.
LEMMA WinChanges ==
  ASSUME [Next]_vars
  PROVE  \/ win' = win \/ win' = <<>> \/ SendChunk \/ Advance
         \/ \E k \in 1..Window : OnAck(k) \/ OnNak(k)
         \/ \E b \in BOOLEAN : TickRetx(b) \/ TickKeep(b)
  BY DEF Next, Tick, Peer, vars, TickHealth, TickIdle, TickHold, TickDrop, Reset, LockOk,
         OtherReset, RejectMsg, OnMessage, OnFrame, OnNoise

LEMMA NextWin == IInv /\ [Next]_vars => WinTypes'
<1> SUFFICES ASSUME IInv, [Next]_vars PROVE WinTypes'
  OBVIOUS
<1>1. ASSUME win' = win PROVE WinTypes'
  BY <1>1 DEF IInv, WinTypes
<1>2. ASSUME win' = <<>> PROVE WinTypes'
  <2>1. Len(win') = 0 /\ win' \in Seq(Chunk)
    BY <1>2
  <2> QED
    BY <2>1, Params DEF WinTypes
<1> QED
  BY <1>1, <1>2, WinChanges, SendChunkWin, OnAckWin, OnNakWin, TickRetxWin, TickKeepWin, AdvanceWin

-----------------------------------------------------------------------------
(* The other variables                                                     *)

LEMMA NextFlags == IInv /\ [Next]_vars => FlagTypes'
<1> SUFFICES ASSUME IInv, [Next]_vars PROVE FlagTypes'
  OBVIOUS
<1> USE DEF IInv, FlagTypes
<1>1. ASSUME NEW r, Reset(r) PROVE FlagTypes'
  BY <1>1 DEF Reset
<1>2. CASE LockOk \/ SendChunk \/ RejectMsg \/ OnNoise
  BY <1>2 DEF LockOk, SendChunk, RejectMsg, OnNoise, ladder, evidence
<1>3. CASE OnMessage \/ OnFrame
  BY <1>3 DEF OnMessage, OnFrame, ladder, evidence, Crossing
<1>4. ASSUME NEW k \in 1..Window, OnAck(k) PROVE FlagTypes'
  BY <1>4 DEF OnAck, Crossing
<1>5. ASSUME NEW k \in 1..Window, OnNak(k) PROVE FlagTypes'
  <2>1. resent' \in BOOLEAN
    BY <1>5, OnNakWin
  <2> QED
    BY <1>5, <2>1 DEF OnNak, Crossing
<1>6. ASSUME NEW b \in BOOLEAN, TickHold(b) PROVE FlagTypes'
  BY <1>6 DEF TickHold, Sweeps, evidence
<1>7. ASSUME NEW b \in BOOLEAN, TickRetx(b) PROVE FlagTypes'
  <2>1. resent' \in BOOLEAN
    BY <1>7, TickRetxWin
  <2> QED
    BY <1>7, <2>1 DEF TickRetx, Sweeps, evidence
<1>8. ASSUME NEW b \in BOOLEAN, TickKeep(b) PROVE FlagTypes'
  BY <1>8 DEF TickKeep, Sweeps, evidence
<1>9. CASE TickIdle
  BY <1>9 DEF TickIdle, ladder, evidence
<1>10. CASE Advance
  BY <1>10 DEF Advance, evidence
<1>11. CASE UNCHANGED vars
  BY <1>11 DEF vars, ladder, evidence
<1> QED
  BY <1>1, <1>2, <1>3, <1>4, <1>5, <1>6, <1>7, <1>8, <1>9, <1>10, <1>11
     DEF Next, Tick, Peer, OtherReset, TickHealth, TickDrop

LEMMA NextCounts == IInv /\ [Next]_vars => CountTypes' /\ EvidenceInv'
<1> SUFFICES ASSUME IInv, [Next]_vars PROVE CountTypes' /\ EvidenceInv'
  OBVIOUS
<1> USE DEF IInv, CountTypes, EvidenceInv, MismatchHasEvidence
<1>1. ASSUME NEW r, Reset(r), isMaster' = isMaster PROVE CountTypes' /\ EvidenceInv'
  <2>1. CASE crossed
    BY <1>1, <2>1, Params DEF Reset, Smaller
  <2>2. CASE ~crossed /\ lockAge >= FairChance
    BY <1>1, <2>2, Params DEF Reset, Smaller
  <2>3. CASE ~crossed /\ ~(lockAge >= FairChance)
    BY <1>1, <2>3, Params DEF Reset
  <2> QED
    BY <2>1, <2>2, <2>3
<1>2. ASSUME UNCHANGED <<isMaster, ringFull>>, state' \in {"OK", "SWP"},
             UNCHANGED evidence \/ Crossing
      PROVE  CountTypes' /\ EvidenceInv'
  BY <1>2, Params DEF evidence, Crossing
<1>3. ASSUME isMaster' = isMaster, LockOk \/ SendChunk \/ RejectMsg \/ OnNoise
      PROVE  CountTypes' /\ EvidenceInv'
  BY <1>2, <1>3 DEF LockOk, SendChunk, RejectMsg, OnNoise
<1>4. ASSUME isMaster' = isMaster, OnMessage \/ OnFrame
      PROVE  CountTypes' /\ EvidenceInv'
  BY <1>2, <1>4 DEF OnMessage, OnFrame
<1>5. ASSUME isMaster' = isMaster, NEW k \in 1..Window, OnAck(k)
      PROVE  CountTypes' /\ EvidenceInv'
  BY <1>2, <1>5 DEF OnAck
<1>6. ASSUME isMaster' = isMaster, NEW k \in 1..Window, OnNak(k)
      PROVE  CountTypes' /\ EvidenceInv'
  <2>1. ringFull' \in 0..MaxRingFull
    BY <1>6, OnNakWin
  <2> QED
    <3>1. /\ locksWithoutRecv' = 0 /\ UNCHANGED <<mute, state, isMaster>>
      BY <1>6 DEF OnNak, Crossing
    <3> QED
      BY <2>1, <3>1, Params
<1>7. ASSUME isMaster' = isMaster, NEW b \in BOOLEAN, TickHold(b) \/ TickKeep(b)
      PROVE  CountTypes' /\ EvidenceInv'
  BY <1>2, <1>7 DEF TickHold, TickKeep
<1>8. ASSUME isMaster' = isMaster, NEW b \in BOOLEAN, TickRetx(b)
      PROVE  CountTypes' /\ EvidenceInv'
  <2>1. ringFull' \in 0..MaxRingFull
    BY <1>8, TickRetxWin
  <2> QED
    BY <1>8, <2>1 DEF TickRetx, evidence
<1>9. ASSUME isMaster' = isMaster, TickIdle PROVE CountTypes' /\ EvidenceInv'
  BY <1>2, <1>9 DEF TickIdle
<1>10. CASE Advance
  BY <1>2, <1>10 DEF Advance
<1>11. CASE UNCHANGED vars
  BY <1>2, <1>11 DEF vars
<1> QED
  BY <1>1, <1>3, <1>4, <1>5, <1>6, <1>7, <1>8, <1>9, <1>10, <1>11
     DEF Next, Tick, Peer, OtherReset, TickHealth, TickDrop

LEMMA NextLadder == IInv /\ [Next]_vars => LadderTypes'
<1> SUFFICES ASSUME IInv, [Next]_vars PROVE LadderTypes'
  OBVIOUS
<1> USE Params, Caps DEF IInv, LadderTypes
<1>1. ASSUME NEW r, Reset(r) PROVE LadderTypes'
  BY <1>1 DEF Reset, LadderCleared
<1>2. ASSUME UNCHANGED <<ladder, backlogs>> PROVE LadderTypes'
  BY <1>2 DEF ladder
<1>3. CASE LockOk \/ SendChunk \/ RejectMsg \/ OnNoise \/ OnMessage \/ OnFrame \/ TickIdle
  BY <1>2, <1>3 DEF LockOk, SendChunk, RejectMsg, OnNoise, OnMessage, OnFrame, TickIdle
<1>4. ASSUME NEW k \in 1..Window, OnAck(k) PROVE LadderTypes'
  BY <1>4 DEF OnAck, LadderCleared
<1>5. ASSUME NEW k \in 1..Window, OnNak(k) PROVE LadderTypes'
  BY <1>5 DEF OnNak
<1>6. ASSUME NEW b \in BOOLEAN, Sweeps(b)
      PROVE  backlogs' \in 0..BacklogCap /\ Since(b) \in 0..StuckCap
  BY <1>6 DEF Sweeps, Since, Smaller
<1>7. ASSUME NEW b \in BOOLEAN, TickHold(b) PROVE LadderTypes'
  BY <1>6, <1>7 DEF TickHold
<1>8. ASSUME NEW b \in BOOLEAN, TickRetx(b) PROVE LadderTypes'
  <2>1. attempts' \in 0..RetxCap /\ keeps' \in 0..KeepCap
    BY <1>8 DEF TickRetx, Smaller
  <2>2. attempts' \in Nat
    BY <2>1
  <2>3. backoff' \in 0..Larger(BackoffCap, Sync)
    BY <1>8, <2>2, BackoffInRange DEF TickRetx
  <2> QED
    BY <1>6, <1>8, <2>1, <2>3 DEF TickRetx
<1>9. ASSUME NEW b \in BOOLEAN, TickKeep(b) PROVE LadderTypes'
  <2>1. keeps' \in 0..KeepCap
    BY <1>9 DEF TickKeep, Smaller
  <2> QED
    BY <1>6, <1>9, <2>1 DEF TickKeep, LadderCleared
<1>10. CASE Advance
  <2>1. stuck' \in 0..StuckCap
    BY <1>10 DEF Advance, Smaller, Never
  <2> QED
    BY <1>10, <2>1 DEF Advance
<1>11. CASE UNCHANGED vars
  BY <1>2, <1>11 DEF vars
<1> QED
  BY <1>1, <1>3, <1>4, <1>5, <1>7, <1>8, <1>9, <1>10, <1>11
     DEF Next, Tick, Peer, OtherReset, TickHealth, TickDrop

LEMMA NextCoherent == IInv /\ [Next]_vars => LadderIsCoherent'
<1> SUFFICES ASSUME IInv, [Next]_vars PROVE LadderIsCoherent'
  OBVIOUS
<1> USE DEF IInv
<1>1. ASSUME attempts' = 0, backoff' = 0, lastRetxBase' = "none" PROVE LadderIsCoherent'
  BY <1>1 DEF LadderIsCoherent
<1>2. ASSUME UNCHANGED <<attempts, backoff, lastRetxBase>>,
             tracked => tracked', win # <<>> => win' # <<>>
      PROVE  LadderIsCoherent'
  BY <1>2 DEF LadderIsCoherent
<1>3. ASSUME NEW r, Reset(r) PROVE LadderIsCoherent'
  BY <1>1, <1>3 DEF Reset, LadderCleared
<1>4. CASE LockOk \/ RejectMsg \/ OnNoise \/ OnMessage \/ OnFrame \/ TickIdle
  BY <1>2, <1>4 DEF LockOk, RejectMsg, OnNoise, OnMessage, OnFrame, TickIdle, ladder
<1>5. CASE SendChunk
  BY <1>2, <1>5, SendChunkWin DEF SendChunk, ladder
<1>6. ASSUME NEW k \in 1..Window, OnAck(k) PROVE LadderIsCoherent'
  BY <1>1, <1>6 DEF OnAck, LadderCleared
<1>7. ASSUME NEW k \in 1..Window, OnNak(k) PROVE LadderIsCoherent'
  <2>1. win' # <<>>
    BY <1>7, OnNakWin
  <2>2. /\ UNCHANGED <<attempts, backoff>> /\ tracked' = (k = 1 /\ tracked)
        /\ lastRetxBase' = IF k > 1 /\ lastRetxBase = "base" THEN "other" ELSE lastRetxBase
    BY <1>7 DEF OnNak
  <2>3. k = 1 \/ k > 1
    BY Params
  <2> QED
    BY <2>1, <2>2, <2>3 DEF LadderIsCoherent
<1>8. ASSUME NEW b \in BOOLEAN, TickHold(b) PROVE LadderIsCoherent'
  BY <1>2, <1>8 DEF TickHold, Sweeps
<1>9. ASSUME NEW b \in BOOLEAN, TickRetx(b) PROVE LadderIsCoherent'
  <2>1. win' # <<>>
    BY <1>9, TickRetxWin
  <2>2. /\ lastRetxBase' = "base" /\ backoff' = decideGbnBackoff(attempts')
        /\ tracked' = TRUE
        /\ attempts' = IF lastRetxBase = "other" THEN 1 ELSE Smaller(attempts + 1, RetxCap)
    BY <1>9 DEF TickRetx, Sweeps
  <2>3. attempts' \in Nat /\ attempts' > 0
    BY <2>2, Params, Caps DEF LadderTypes, Smaller
  <2> QED
    BY <2>1, <2>2, <2>3 DEF LadderIsCoherent
<1>10. ASSUME NEW b \in BOOLEAN, TickKeep(b) PROVE LadderIsCoherent'
  BY <1>1, <1>10 DEF TickKeep, LadderCleared
<1>11. CASE Advance
  BY <1>2, <1>11, AdvanceWin DEF Advance
<1>12. CASE UNCHANGED vars
  BY <1>2, <1>12 DEF vars, ladder
<1> QED
  BY <1>3, <1>4, <1>5, <1>6, <1>7, <1>8, <1>9, <1>10, <1>11, <1>12
     DEF Next, Tick, Peer, OtherReset, TickHealth, TickDrop

\* The end of onTimerOk_unlocked arms the timer within its range.
LEMMA RearmTypes ==
  ASSUME Rearm, backoff' \in 0..Larger(BackoffCap, Sync)
  PROVE  timer' \in 0..Larger(BackoffCap, Sync) /\ late' \in 0..MaxLate
<1>1. timer' \in 0..Larger(BackoffCap, Sync)
  <2>1. timer' = Larger(Sync, backoff')
    BY DEF Rearm
  <2>2. timer' = Sync \/ timer' = backoff'
    BY <2>1 DEF Larger
  <2> QED
    BY <2>2, Params, Caps
<1> QED
  BY <1>1, Params DEF Rearm

LEMMA NextClocks == IInv /\ [Next]_vars => ClockTypes'
<1> SUFFICES ASSUME IInv, [Next]_vars PROVE ClockTypes'
  OBVIOUS
<1>0. LadderTypes'
  BY NextLadder
<1> USE Params, Caps DEF IInv, ClockTypes, Never
<1>1. ASSUME NEW r, Reset(r), sinceTick' = 0 \/ sinceTick' = sinceTick PROVE ClockTypes'
  BY <1>1 DEF Reset
<1>2. CASE LockOk
  BY <1>2 DEF LockOk, rejects
<1>3. CASE SendChunk
  BY <1>3 DEF SendChunk
<1>4. CASE RejectMsg
  BY <1>4 DEF RejectMsg, clocks
<1>5. CASE OnMessage \/ OnFrame \/ OnNoise
  <2>1. CASE OnMessage \/ OnFrame
    <3>1. /\ rxAge' = 0 /\ validAge' = 0 /\ (txAge' = txAge \/ txAge' = 0)
          /\ UNCHANGED <<lockAge, sinceTick, rejFirst, rejLast, timer, late>>
      BY <2>1 DEF OnMessage, OnFrame, Heard, Answered, rejects
    <3> QED
      BY <3>1
  <2>2. CASE OnNoise
    BY <2>2 DEF OnNoise, rejects
  <2> QED
    BY <1>5, <2>1, <2>2
<1>6. ASSUME NEW k \in 1..Window, OnAck(k) PROVE ClockTypes'
  BY <1>6 DEF OnAck, Heard, rejects
<1>7. ASSUME NEW k \in 1..Window, OnNak(k) PROVE ClockTypes'
  <2>1. txAge' \in 0..QuietCap
    BY <1>7, OnNakWin
  <2> QED
    BY <1>7, <2>1 DEF OnNak, Heard, rejects
<1>8. ASSUME NEW b \in BOOLEAN, TickHold(b) PROVE ClockTypes'
  <2>1. timer' \in 0..Larger(BackoffCap, Sync) /\ late' \in 0..MaxLate
    BY <1>0, <1>8, RearmTypes DEF TickHold, LadderTypes
  <2> QED
    BY <1>8, <2>1 DEF TickHold, Sweeps, clocks, rejects
<1>9. ASSUME NEW b \in BOOLEAN, TickRetx(b) PROVE ClockTypes'
  <2>1. timer' \in 0..Larger(BackoffCap, Sync) /\ late' \in 0..MaxLate
    BY <1>0, <1>9, RearmTypes DEF TickRetx, LadderTypes
  <2>2. txAge' \in 0..QuietCap
    BY <1>9, TickRetxWin
  <2> QED
    BY <1>9, <2>1, <2>2 DEF TickRetx, Sweeps, rejects
<1>10. ASSUME NEW b \in BOOLEAN, TickKeep(b) PROVE ClockTypes'
  <2>1. timer' \in 0..Larger(BackoffCap, Sync) /\ late' \in 0..MaxLate
    BY <1>0, <1>10, RearmTypes DEF TickKeep, LadderTypes
  <2> QED
    BY <1>10, <2>1 DEF TickKeep, Sweeps, clocks, rejects
<1>11. CASE TickIdle
  <2>1. timer' \in 0..Larger(BackoffCap, Sync) /\ late' \in 0..MaxLate
    BY <1>0, <1>11, RearmTypes DEF TickIdle, LadderTypes
  <2> QED
    BY <1>11, <2>1 DEF TickIdle, rejects
<1>12. CASE Advance
  <2>1. timer' \in 0..Larger(BackoffCap, Sync) /\ late' \in 0..MaxLate
    BY <1>12 DEF Advance, CountTypes
  <2>2. sinceTick' \in Never..(TickGap + 1) /\ rxAge' \in 0..Sync
    BY <1>12 DEF Advance, Smaller
  <2>3. validAge' \in 0..SilenceCap /\ txAge' \in 0..QuietCap
    BY <1>12 DEF Advance, Smaller
  <2>4. lockAge' \in 0..FairChance
    BY <1>12 DEF Advance, Smaller
  <2>5. rejFirst' \in Never..QuietCap /\ rejLast' \in Never..QuietCap
    BY <1>12 DEF Advance, Smaller
  <2> QED
    BY <2>1, <2>2, <2>3, <2>4, <2>5
<1>13. CASE UNCHANGED vars
  BY <1>13 DEF vars, clocks, rejects
<1> QED
  BY <1>1, <1>2, <1>3, <1>4, <1>5, <1>6, <1>7, <1>8, <1>9, <1>10, <1>11, <1>12, <1>13
     DEF Next, Tick, Peer, OtherReset, TickHealth, TickDrop

-----------------------------------------------------------------------------
(* The theorems                                                            *)

\* The inductive invariant holds in every reachable state of the OK timer.
THEOREM TimerInvariant == Spec => []IInv
<1>1. IInv /\ [Next]_vars => IInv'
  BY NextWin, NextLadder, NextClocks, NextCounts, NextFlags, NextCoherent DEF IInv
<1> QED
  BY <1>1, InitTimer, PTL DEF Spec

\* Counters of the ladder and the watchdogs stay under their caps, ages under
\* the largest value they are compared with.
THEOREM TimerTypes == Spec => []TypeOK
  BY TimerInvariant, IInvTypes, PTL

\* locksWithoutRecv_ never runs ahead of the sessions without a crossing by
\* more than one.
THEOREM MismatchNeedsEvidence == Spec => []MismatchHasEvidence
<1>1. IInv => MismatchHasEvidence
  BY DEF IInv, EvidenceInv
<1> QED
  BY <1>1, TimerInvariant, PTL

\* The ladder of sweepRetx_unlocked never works on a base it does not track,
\* and its backoff is the one of its attempts.
THEOREM LadderStaysCoherent == Spec => []LadderIsCoherent
<1>1. IInv => LadderIsCoherent
  BY DEF IInv
<1> QED
  BY <1>1, TimerInvariant, PTL

-----------------------------------------------------------------------------
(* The watchdogs                                                           *)

\* The limits of the watchdogs that do not wait out two timeouts by
\* themselves leave room for them.  The defaults do at 9600 baud and above: Rto
\* is at most 530 ms, idleTimeoutMs is 10 s, the camp budget at least 3 s and
\* the floor of healthPeerStalledMs 2 s.
Horizons ==
  /\ Idle = 0 \/ Idle >= 2 * Rto
  /\ Camp = 0 \/ Camp >= Rto
  /\ StalledFloor >= 2 * Rto

LEMMA StalledIsLate == IInv /\ Horizons => peerStalledMs >= 2 * Rto /\ peerStalledMs \in Nat
<1> SUFFICES ASSUME IInv, Horizons
             PROVE  peerStalledMs >= 2 * Rto /\ peerStalledMs \in Nat
  OBVIOUS
<1>1. 2 * Len(win) * ChunkDrain \in Nat /\ backoff + Rto \in Nat
  <2>1. Len(win) \in Nat /\ backoff \in Nat
    BY Caps DEF IInv, WinTypes, LadderTypes
  <2> QED
    BY <2>1, Params
<1>2. \A a, b, c \in Nat : Larger(Larger(a, b), c) \in Nat /\ Larger(Larger(a, b), c) >= a
  BY DEF Larger
<1> QED
  <2>1. StalledFloor \in Nat /\ StalledFloor >= 2 * Rto /\ Rto \in Nat
    BY Params DEF Horizons
  <2>2. peerStalledMs \in Nat /\ peerStalledMs >= StalledFloor
    BY <1>1, <1>2, <2>1 DEF peerStalledMs
  <2> QED
    BY <2>1, <2>2

\* While a valid frame is no older than two timeouts, the watchdogs keep the
\* link or blame the application.
LEMMA HeardVerdict ==
  ASSUME IInv, Horizons, validAge <= 2 * Rto
  PROVE  decideHealth \in {"Keep", "TxStall"}
<1> USE Params, Caps
<1>1. validAge \in Nat
  BY DEF IInv, ClockTypes
<1>2. ~Overdue
  BY <1>1 DEF Overdue, peerAge
<1>3. Idle # 0 => ~(peerAge > Idle) /\ ~(peerAge > 3 * Idle)
  BY <1>1 DEF peerAge, Horizons
<1>4. ~(Camp > 0 /\ peerAge > 2 * Camp)
  BY <1>1 DEF peerAge, Horizons
<1>5. ~(peerAge > peerStalledMs)
  BY <1>1, StalledIsLate DEF peerAge
<1> QED
  BY <1>2, <1>3, <1>4, <1>5 DEF decideHealth

\* A peer that was heard within two timeouts is not taken for dead: as long as
\* the configured limits leave room for two timeouts, only the spent ladder, a
\* stalled application, a foreign reset or the mismatch escalation ends a session then.
THEOREM HeardPeersAreKept ==
  ASSUME Horizons
  PROVE  Spec => HeardPeerIsKept
<1>1. ASSUME IInv, [Next]_vars, state = "OK", state' = "SWP", validAge <= 2 * Rto
      PROVE  why' \in {"other", "TxStall", "PeerBaudMismatch", "MaxRetx", "KeepRescue"}
  <2>1. CASE OtherReset
    BY <2>1 DEF OtherReset, Reset
  <2>2. CASE Verdict # "Keep" /\ TickHealth(Verdict)
    <3>1. decideHealth \in {"Keep", "TxStall"}
      BY <1>1, HeardVerdict
    <3>2. Verdict \in {"TxStall", "PeerBaudMismatch"}
      BY <2>2, <3>1 DEF Verdict
    <3> QED
      BY <2>2, <3>2 DEF TickHealth, Reset
  <2>3. ASSUME NEW b \in BOOLEAN, TickDrop(b)
        PROVE  why' \in {"other", "TxStall", "PeerBaudMismatch", "MaxRetx", "KeepRescue"}
    BY <2>3 DEF TickDrop, Reset
  <2>4. ~(UNCHANGED vars) /\ ~Advance /\ ~LockOk /\ ~SendChunk /\ ~RejectMsg /\ ~TickIdle
    BY <1>1 DEF vars, Advance, LockOk, SendChunk, RejectMsg, TickIdle
  <2>5. ~Peer
    BY <1>1 DEF Peer, OnMessage, OnFrame, OnNoise, OnAck, OnNak
  <2>6. \A b \in BOOLEAN : ~TickHold(b) /\ ~TickRetx(b) /\ ~TickKeep(b)
    BY <1>1 DEF TickHold, TickRetx, TickKeep
  <2> QED
    BY <1>1, <2>1, <2>2, <2>3, <2>4, <2>5, <2>6 DEF Next, Tick
<1>2. IInv /\ [Next]_vars =>
        [state = "OK" /\ state' = "SWP" /\ validAge <= 2 * Rto =>
           why' \in {"other", "TxStall", "PeerBaudMismatch", "MaxRetx", "KeepRescue"}]_vars
  BY <1>1
<1> QED
  BY <1>2, TimerInvariant, PTL DEF Spec, HeardPeerIsKept
=============================================================================
