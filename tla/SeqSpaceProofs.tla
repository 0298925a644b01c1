--------------------------- MODULE SeqSpaceProofs ---------------------------
(***************************************************************************)
(* What the arithmetic on wire numbers computes, stated on positions       *)
(* (natural numbers that never wrap), for every size of the sequence       *)
(* space, of the window and of the chunk budget.                           *)
(***************************************************************************)
EXTENDS SeqSpace, TLAPS

\* A chunk's wire number is in the sequence space.
LEMMA SeqOfType == \A i \in Nat : SeqOf(i) \in Seqs
  BY SpaceAssumption DEF SeqOf, Seqs

\* Quotient and remainder determine each other.
LEMMA Remainder ==
  ASSUME NEW q \in Nat, NEW r \in Seqs
  PROVE  SeqOf(COBS_SEQ_SPACE * q + r) = r
  BY SpaceAssumption DEF SeqOf, Seqs

\* Quotient and remainder are unique: the arithmetic behind %.
LEMMA Division ==
  ASSUME NEW i \in Nat
  PROVE  \E q \in Nat : i = COBS_SEQ_SPACE * q + SeqOf(i)
<1>1. i \div COBS_SEQ_SPACE \in Nat
  BY SpaceAssumption
<1>2. i = COBS_SEQ_SPACE * (i \div COBS_SEQ_SPACE) + SeqOf(i)
  BY SpaceAssumption DEF SeqOf
<1> QED
  BY <1>1, <1>2

\* A walk of k steps from the number of position i reaches that of i + k.
LEMMA AheadSeq ==
  ASSUME NEW i \in Nat, NEW k \in 0..(COBS_SEQ_SPACE - 1)
  PROVE  Ahead(SeqOf(i), k) = SeqOf(i + k)
<1> DEFINE S == COBS_SEQ_SPACE
<1>1. PICK q \in Nat : i = S * q + SeqOf(i)
  BY Division
<1>2. SeqOf(i) \in Seqs /\ S \in Nat
  BY SeqOfType, SpaceAssumption
<1>3. CASE SeqOf(i) + k < S
  <2>1. SeqOf(i) + k \in Seqs
    BY <1>2, <1>3 DEF Seqs
  <2>2. i + k = S * q + (SeqOf(i) + k)
    BY <1>1, <1>2 DEF Seqs
  <2>3. SeqOf(S * q + (SeqOf(i) + k)) = SeqOf(i) + k
    BY <2>1, Remainder
  <2> QED
    BY <1>3, <2>2, <2>3 DEF Ahead
<1>4. CASE ~(SeqOf(i) + k < S)
  <2>1. SeqOf(i) + k - S \in Seqs
    BY <1>2, <1>4 DEF Seqs
  <2>2. i + k = S * (q + 1) + (SeqOf(i) + k - S)
    BY <1>1, <1>2 DEF Seqs
  <2>3. SeqOf(S * (q + 1) + (SeqOf(i) + k - S)) = SeqOf(i) + k - S
    BY <2>1, Remainder
  <2> QED
    BY <1>4, <2>2, <2>3 DEF Ahead
<1> QED
  BY <1>3, <1>4

\* txSeq and gbnBase step to the number of the next position.
LEMMA NextSeqOf ==
  ASSUME NEW i \in Nat
  PROVE  NextSeq(SeqOf(i)) = SeqOf(i + 1)
<1>1. Ahead(SeqOf(i), 1) = SeqOf(i + 1)
  BY AheadSeq, SpaceAssumption
<1>2. SeqOf(i) \in Seqs
  BY SeqOfType
<1> QED
  BY <1>1, <1>2, SpaceAssumption DEF Ahead, NextSeq, Seqs

\* The ++seq of the code, with its wrap, never merges two numbers.
LEMMA NextSeqInjective ==
  ASSUME NEW s \in Seqs, NEW t \in Seqs, NextSeq(s) = NextSeq(t)
  PROVE  s = t
  BY SpaceAssumption DEF NextSeq, Seqs

\* Positions less than a whole space apart have different numbers.
LEMMA SeqOfInjective ==
  ASSUME NEW i \in Nat, NEW k \in 1..(COBS_SEQ_SPACE - 1)
  PROVE  SeqOf(i + k) # SeqOf(i)
<1>1. Ahead(SeqOf(i), k) = SeqOf(i + k)
  BY AheadSeq, SpaceAssumption
<1>2. SeqOf(i) \in Seqs
  BY SeqOfType
<1> QED
  BY <1>1, <1>2, SpaceAssumption DEF Ahead, Seqs

\* LinkArq::idxOf finds the place of a chunk that is in the window, and
\* rejects the chunk after the window and every chunk up to a window and one
\* behind the base.
THEOREM IdxOfIsPlace ==
  ASSUME NEW b \in Nat, NEW m \in Nat,
         m <= b + PIPELINE_WINDOW, b <= m + PIPELINE_WINDOW + 1
  PROVE  idxOf(SeqOf(b), SeqOf(m)) =
           IF b <= m /\ m < b + PIPELINE_WINDOW THEN m - b ELSE -1
<1> USE SpaceAssumption
<1>1. SeqOf(b) \in Seqs /\ SeqOf(m) \in Seqs
  BY SeqOfType
<1>2. CASE m >= b
  <2>1. m - b \in 0..(COBS_SEQ_SPACE - 1) /\ b + (m - b) = m
    BY <1>2
  <2>2. Ahead(SeqOf(b), m - b) = SeqOf(m)
    BY <2>1, AheadSeq
  <2> QED
    BY <1>1, <1>2, <2>2 DEF Ahead, Seqs, idxOf
<1>3. CASE m < b
  <2>1. b - m \in 1..(PIPELINE_WINDOW + 1) /\ m + (b - m) = b
    BY <1>3
  <2>2. Ahead(SeqOf(m), b - m) = SeqOf(b)
    BY <2>1, AheadSeq
  <2> QED
    BY <1>1, <1>3, <2>1, <2>2 DEF Ahead, Seqs, idxOf
<1> QED
  BY <1>2, <1>3

\* classifyGap tells a duplicate, the expected chunk and a chunk after a gap
\* apart for every chunk within a window of the cursor, whatever wraps.
THEOREM ClassifyGapIsOrder ==
  ASSUME NEW c \in Nat, NEW i \in Nat, NEW r \in Seqs,
         NextSeq(r) = SeqOf(c),
         i < c + PIPELINE_WINDOW, c <= i + PIPELINE_WINDOW
  PROVE  classifyGap(SeqOf(i), r, TRUE) =
           IF i = c THEN "Forward" ELSE IF i < c THEN "Stale" ELSE "Gap"
<1> USE SpaceAssumption
<1>1. SeqOf(c) \in Seqs /\ SeqOf(i) \in Seqs
  BY SeqOfType
<1>2. CASE i = c
  BY <1>2 DEF classifyGap
<1>3. CASE i > c
  <2>1. i - c \in 1..(PIPELINE_WINDOW - 1) /\ c + (i - c) = i
    BY <1>3
  <2>a. i - c \in 0..(COBS_SEQ_SPACE - 1) /\ i - c \in 1..(COBS_SEQ_SPACE - 1)
    BY <2>1
  <2>b. Ahead(SeqOf(c), i - c) = SeqOf(c + (i - c))
    BY <2>a, AheadSeq
  <2>c. SeqOf(c + (i - c)) # SeqOf(c)
    BY <2>a, SeqOfInjective
  <2>2. Ahead(SeqOf(c), i - c) = SeqOf(i) /\ SeqOf(i) # SeqOf(c)
    BY <2>1, <2>b, <2>c
  <2>3. GapDiff(SeqOf(i), r) = i - c + 1
    BY <1>1, <2>1, <2>2 DEF GapDiff, NextSeq, Ahead, Seqs
  <2>4. i - c + 1 <= COBS_SEQ_SPACE \div 2 /\ i - c + 1 # 0
    BY <2>1
  <2> QED
    BY <1>3, <2>1, <2>2, <2>3, <2>4 DEF classifyGap
<1>4. CASE i < c
  <2>1. c - i \in 1..PIPELINE_WINDOW /\ i + (c - i) = c
    BY <1>4
  <2>a. c - i \in 0..(COBS_SEQ_SPACE - 1) /\ c - i \in 1..(COBS_SEQ_SPACE - 1)
    BY <2>1
  <2>b. Ahead(SeqOf(i), c - i) = SeqOf(i + (c - i))
    BY <2>a, AheadSeq
  <2>c. SeqOf(i + (c - i)) # SeqOf(i)
    BY <2>a, SeqOfInjective
  <2>2. Ahead(SeqOf(i), c - i) = SeqOf(c) /\ SeqOf(c) # SeqOf(i)
    BY <2>1, <2>b, <2>c
  <2>3. GapDiff(SeqOf(i), r) = IF c - i = 1 THEN 0 ELSE COBS_SEQ_SPACE - (c - i) + 1
    BY <1>1, <2>1, <2>2 DEF GapDiff, NextSeq, Ahead, Seqs
  <2>4. COBS_SEQ_SPACE - (c - i) + 1 > COBS_SEQ_SPACE \div 2
    BY <2>1
  <2> QED
    BY <1>4, <2>1, <2>2, <2>3, <2>4 DEF classifyGap
<1>5. i = c \/ i > c \/ i < c
  OBVIOUS
<1> QED
  BY <1>2, <1>3, <1>4, <1>5

\* onPayload's horizon covers every duplicate that can arrive: each one is
\* acknowledged again, so a lost ACK is made good.
THEOREM DuplicateIsReAcked ==
  ASSUME NEW c \in Nat, NEW i \in Nat, NEW r \in Seqs,
         NextSeq(r) = SeqOf(c), i < c, c <= i + PIPELINE_WINDOW
  PROVE  genuineDup(SeqOf(i), r)
<1> USE SpaceAssumption
<1>1. SeqOf(c) \in Seqs /\ SeqOf(i) \in Seqs
  BY SeqOfType
<1>2. c - i \in 0..(COBS_SEQ_SPACE - 1) /\ c - i \in 1..PIPELINE_WINDOW /\ i + (c - i) = c
  OBVIOUS
<1>3. Ahead(SeqOf(i), c - i) = SeqOf(i + (c - i))
  BY <1>2, AheadSeq
<1>4. Ahead(SeqOf(i), c - i) = SeqOf(c)
  BY <1>2, <1>3
<1>5. GapDiff(SeqOf(i), r) = IF c - i = 1 THEN 0 ELSE COBS_SEQ_SPACE - (c - i) + 1
  BY <1>1, <1>2, <1>4 DEF GapDiff, NextSeq, Ahead, Seqs
<1> QED
  BY <1>2, <1>5 DEF genuineDup

\* Two chunks of one window never share an entry of the sender's arrays.
THEOREM BudgetIsInjective ==
  ASSUME NEW b \in Nat, NEW i \in b..(b + PIPELINE_WINDOW - 1),
         NEW j \in b..(b + PIPELINE_WINDOW - 1),
         budgetIdx(SeqOf(i)) = budgetIdx(SeqOf(j))
  PROVE  i = j
<1> USE SpaceAssumption
<1>1. /\ i - b \in 0..(PIPELINE_WINDOW - 1) /\ b + (i - b) = i
      /\ j - b \in 0..(PIPELINE_WINDOW - 1) /\ b + (j - b) = j
  OBVIOUS
<1>2. Ahead(SeqOf(b), i - b) = SeqOf(i) /\ Ahead(SeqOf(b), j - b) = SeqOf(j)
  BY <1>1, AheadSeq
<1>3. SeqOf(b) \in Seqs
  BY SeqOfType
<1>4. budgetIdx(Ahead(SeqOf(b), i - b)) = budgetIdx(Ahead(SeqOf(b), j - b))
  BY <1>2
<1>5. i - b = j - b
  BY <1>1, <1>3, <1>4, BudgetAssumption
<1> QED
  BY <1>1, <1>5
=============================================================================
