----------------------------- MODULE MCGbnLink -----------------------------
(* Instances of GbnLink for TLC.                                            *)
EXTENDS GbnLink
=============================================================================
