------------------------------ MODULE MCAccounts ------------------------------
(***************************************************************************)
(* Two passwords, two concurrent requests, one administrator who saves     *)
(* rows, and a cache and a limiter that are full almost at once.           *)
(***************************************************************************)
EXTENDS Accounts, TLC

\* Passwords, token values and handlers are interchangeable.
Symmetry == Permutations(Passwords) \cup Permutations(Tokens) \cup Permutations(Requests)

\* What the future depends on: a count whose window is over is never read, and
\* the history meant is for MCAccountsLost.
Relevant == <<user, tokens, cache, IF window THEN count ELSE 0, window, stage, local,
              [a \in Savers |-> IF draft[a] = None THEN None ELSE draft[a].row],
              right, ops, errors>>

\* One disturbance, an administrative operation or a database error, and one
\* token of a login at a time: the bounds count those of Basic requests.
Small ==
    /\ ops + errors <= 1
    /\ Cardinality({t \in Tokens : tokens[t] # None /\ ~tokens[t].basic}) <= 1
=============================================================================
