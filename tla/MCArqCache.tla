----------------------------- MODULE MCArqCache -----------------------------
(* Instance of ArqCache for TLC: more slots than pool buffers, so that the   *)
(* pool runs out while slots are free, and chunks with and without bytes.    *)
EXTENDS ArqCache, TLC

\* Slots and contents are interchangeable; buffers are not (lowest first).
Symmetry == Permutations(Slots) \cup Permutations(Bodies)
=============================================================================
