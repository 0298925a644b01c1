--------------------------- MODULE ReliableStream ---------------------------
(***************************************************************************)
(* What one direction of an ASYNC link promises its users, session by      *)
(* session: chunks are received in the order they were accepted, each      *)
(* once, and a chunk is released by the sender only after the receiver     *)
(* moved past it.  A strict session starts with chunk 0; any other starts  *)
(* with whatever the receiver hears first.  Only the first can be strict.  *)
(***************************************************************************)
EXTENDS Naturals

VARIABLES
  accepted,   \* chunks the sender took from its user
  received,   \* one past the chunk handed to the receiving user last
  released,   \* chunks the sender no longer keeps
  strict      \* the session must start with chunk 0

vars == <<accepted, received, released, strict>>

Init == accepted = 0 /\ received = 0 /\ released = 0 /\ strict \in BOOLEAN

Accept ==
  /\ accepted' = accepted + 1
  /\ UNCHANGED <<received, released, strict>>

Deliver ==
  /\ received' \in (received + 1)..accepted
  /\ strict \/ received > 0 => received' = received + 1
  /\ UNCHANGED <<accepted, released, strict>>

Release ==
  /\ released' \in (released + 1)..received
  /\ UNCHANGED <<accepted, received, strict>>

\* A new session.
Restart ==
  /\ accepted' = 0 /\ received' = 0 /\ released' = 0
  /\ strict' \in BOOLEAN /\ (strict' => strict)

\* The receiver enters a session that the sender already uses.
Join ==
  /\ received = 0
  /\ strict' = FALSE
  /\ UNCHANGED <<accepted, received, released>>

Next == Accept \/ Deliver \/ Release \/ Restart \/ Join

Spec == Init /\ [][Next]_vars
=============================================================================
