------------------------------- MODULE MCWsHub -------------------------------
(***************************************************************************)
(* The hub with one connection of one of two users (MCWsHub.cfg), where     *)
(* liveness is within reach, and with two racing for one place.            *)
(***************************************************************************)
EXTENDS WsHub

CONSTANTS c1, c2, u1, u2

MCOwner == [c \in Conns |-> IF c = c1 THEN u1 ELSE u2]
=============================================================================
