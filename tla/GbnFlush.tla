------------------------------ MODULE GbnFlush ------------------------------
(***************************************************************************)
(* The link of GbnLink whose receiving application also calls flushRx().   *)
(* Ping does so when the link becomes ready, when its pipeline stalls and  *)
(* when recv() rejects a message, in the middle of a session.              *)
(***************************************************************************)
EXTENDS GbnLink

VARIABLE
  flushing   \* flushRx() has released the lock and not yet emptied the UART

flushVars == <<vars, flushing>>

FlushInit == Init /\ flushing = FALSE

\* The locked part of flushRx(): the app buffer and the receiver's
\* expectation are dropped, whatever the state of the link.
FlushRx ==
  /\ ~flushing
  /\ appBuf' = <<>> /\ appFree' = AppCap
  /\ rxSeqSet' = FALSE /\ rxSeq' = 0
  /\ flushing' = TRUE
  /\ UNCHANGED <<sender, rState, hold, data, ctrl, sessions, history, losses>>

\* hw.flushRxHw(), after the lock is released: what the UART had received is
\* discarded.
FlushRxHw ==
  /\ flushing /\ flushing' = FALSE
  /\ \E k \in 0..Len(data) : data' = SubSeq(data, k + 1, Len(data))
  /\ UNCHANGED <<sender, receiver, ctrl, sessions, history, losses>>

FlushNext ==
  \/ Next /\ UNCHANGED flushing
  \/ FlushRx
  \/ FlushRxHw

FlushSpec == FlushInit /\ [][FlushNext]_flushVars

-----------------------------------------------------------------------------
\* The receiver never delivers a chunk it has already moved past: inside a
\* session the cursor only advances (onPayload: "the seq advances exactly
\* once").
CursorOnlyAdvances == [][session' = session => cursor' >= cursor]_flushVars
=============================================================================
