------------------------------ MODULE SeqSpace ------------------------------
(***************************************************************************)
(* Arithmetic on wire sequence numbers (cobsSeq).  The wire uses the       *)
(* values 0..COBS_SEQ_SPACE-1 (0xFE and 0xFF mark control frames); the     *)
(* sender keys its per-chunk arrays by seq % ARQ_CHUNK_BUDGET and accepts  *)
(* an ACK or NAK only inside PIPELINE_WINDOW of its base.                  *)
(***************************************************************************)
EXTENDS Integers

CONSTANTS
  COBS_SEQ_SPACE,    \* 254
  PIPELINE_WINDOW,   \* AUTOLINK_ARQ_PIPELINE_WINDOW, 32
  ARQ_CHUNK_BUDGET   \* 64

\* The space holds a window ahead of a cursor and a window behind it.
ASSUME SpaceAssumption ==
  /\ PIPELINE_WINDOW \in Nat \ {0}
  /\ COBS_SEQ_SPACE \in Nat
  /\ COBS_SEQ_SPACE >= 2 * PIPELINE_WINDOW + 1
  /\ ARQ_CHUNK_BUDGET \in Nat \ {0}

Seqs == 0..(COBS_SEQ_SPACE - 1)
BudgetSlots == 0..(ARQ_CHUNK_BUDGET - 1)

\* Mutant: the wrap at COBS_SEQ_SPACE is forgotten.
NextSeqNoWrap(s) == s + 1

NextSeq(s) == IF s = COBS_SEQ_SPACE - 1 THEN 0 ELSE s + 1

\* The number k steps after s, 0 <= k < COBS_SEQ_SPACE: what the walks that
\* start at gbnBase() reach.
Ahead(s, k) == IF s + k < COBS_SEQ_SPACE THEN s + k ELSE s + k - COBS_SEQ_SPACE

\* The number of the i-th chunk of a session, counted from 0: txSeq starts at
\* 0 and every chunk takes the next number.
SeqOf(i) == i % COBS_SEQ_SPACE

\* Mutant: the window test is left out.
idxOfUnbounded(base, s) ==
  IF s < base THEN s - base + COBS_SEQ_SPACE ELSE s - base

\* LinkArq::idxOf: the place of s in the window that starts at base, or -1.
idxOf(base, s) ==
  LET d == IF s < base THEN s - base + COBS_SEQ_SPACE ELSE s - base
  IN  IF d < PIPELINE_WINDOW THEN d ELSE -1

\* LinkArq::budgetIdx
budgetIdx(s) == s % ARQ_CHUNK_BUDGET

\* The arrays of LinkArq are shorter than the sequence space and their
\* length does not divide it, so a window that crosses the wrap must still
\* fall on distinct entries.
ASSUME BudgetAssumption ==
  \A s \in Seqs : \A j, k \in 0..(PIPELINE_WINDOW - 1) :
    budgetIdx(Ahead(s, j)) = budgetIdx(Ahead(s, k)) => j = k

\* classifyGap: what a data frame is relative to the last one delivered.
GapDiff(cobsSeq, rxSeq) ==
  IF cobsSeq < rxSeq THEN cobsSeq - rxSeq + COBS_SEQ_SPACE ELSE cobsSeq - rxSeq

\* Mutant: a frame after a gap is accepted.
classifyGapAccepting(cobsSeq, rxSeq, rxSeqSet) ==
  IF ~rxSeqSet \/ GapDiff(cobsSeq, rxSeq) \in 1..(COBS_SEQ_SPACE \div 2)
    THEN "Forward" ELSE "Stale"

classifyGap(cobsSeq, rxSeq, rxSeqSet) ==
  IF ~rxSeqSet \/ cobsSeq = NextSeq(rxSeq)
    THEN "Forward"
    ELSE IF \/ GapDiff(cobsSeq, rxSeq) = 0
            \/ GapDiff(cobsSeq, rxSeq) > COBS_SEQ_SPACE \div 2
           THEN "Stale"
           ELSE "Gap"

\* Mutant: nothing is taken for a duplicate.
genuineDupNever(cobsSeq, rxSeq) == FALSE

\* onPayload's horizon for re-ACKing a stale frame: at most two windows back.
genuineDup(cobsSeq, rxSeq) ==
  LET diff == GapDiff(cobsSeq, rxSeq)
  IN  diff = 0 \/ COBS_SEQ_SPACE - diff <= 2 * PIPELINE_WINDOW
=============================================================================
