---------------------------- MODULE MCSessionLocks ----------------------------
(***************************************************************************)
(* Two requests and one connection, each doing one thing after another for  *)
(* ever: reports and stops against requests of every kind.                 *)
(***************************************************************************)
EXTENDS SessionLocks, TLC

CONSTANTS h1, h2

MCRequests == (h1 :> {"report", "stop"}) @@ (h2 :> Jobs \ {"subscribe"})
=============================================================================
