------------------------- MODULE MCPlaybackSessions -------------------------
(***************************************************************************)
(* A small instance of PlaybackSessions: two users who may pick the same   *)
(* session id, one item of runtime 10 (finished from position 9 on), and   *)
(* policies with a stream limit of one, without a limit, and with the item *)
(* denied.                                                                 *)
(***************************************************************************)
EXTENDS PlaybackSessions, TLC

MCRuntime == [i \in Items |-> 10]

Limited   == [play |-> TRUE, max |-> 1, deny |-> {}]
Unlimited == [play |-> TRUE, max |-> 0, deny |-> {}]
Denied    == [play |-> TRUE, max |-> 1, deny |-> Items]
MCPolicies == {Limited, Unlimited, Denied}

\* Users, session ids and handlers are interchangeable.
Symmetry == Permutations(Users) \cup Permutations(Sids) \cup Permutations(Requests)
=============================================================================
