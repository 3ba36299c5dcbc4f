---------------------------- MODULE MCWaitingRoom ----------------------------
(* WaitingRoom with the constants TLC needs.                               *)
EXTENDS WaitingRoom, TLC

CONSTANTS ann, bob, r1, r2
=============================================================================
