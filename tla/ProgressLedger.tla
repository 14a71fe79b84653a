--------------------------- MODULE ProgressLedger ---------------------------
(***************************************************************************)
(* What the store of play progress promises to its callers, whatever       *)
(* statements, buffers and goroutines implement it: one entry per user and *)
(* item, every operation takes effect at one instant, a play is counted    *)
(* once for each call that counted it, and a crash or a failed call loses  *)
(* only plays that were never acknowledged.                                *)
(***************************************************************************)
EXTENDS Naturals

CONSTANTS Keys, Positions

VARIABLES
    ledger,     \* the entry of each <<user, item>> pair
    unacked     \* plays counted by calls that have not answered yet

lvars == <<ledger, unacked>>

Blank == [pos |-> 0, played |-> FALSE, count |-> 0, fav |-> FALSE]

Init == ledger = [k \in Keys |-> Blank] /\ unacked = [k \in Keys |-> 0]

\* Positions change, of several pairs together when a buffer is flushed;
\* no other field of an entry does.
SetPositions ==
    /\ \A k \in Keys : \E p \in Positions \cup {ledger[k].pos} :
            ledger'[k] = [ledger[k] EXCEPT !.pos = p]
    /\ UNCHANGED unacked

\* A Stopped report near the end: a viewing counts unless it already did.
CompleteAt(k, p) ==
    /\ ledger' = [ledger EXCEPT ![k].pos = p, ![k].played = TRUE,
                    ![k].count = IF ledger[k].played THEN @ ELSE @ + 1]
    /\ UNCHANGED unacked

MarkPlayed(k) ==
    /\ ledger' = [ledger EXCEPT ![k].played = TRUE, ![k].count = @ + 1]
    /\ unacked' = [unacked EXCEPT ![k] = @ + 1]

AcknowledgePlay(k) ==
    /\ unacked[k] > 0
    /\ unacked' = [unacked EXCEPT ![k] = @ - 1]
    /\ UNCHANGED ledger

\* The call fails after it has set the flag.
LosePlay(k) ==
    /\ unacked[k] > 0
    /\ unacked' = [unacked EXCEPT ![k] = @ - 1]
    /\ ledger' = [ledger EXCEPT ![k].count = @ - 1]

UnmarkPlayed(k) ==
    /\ ledger' = [ledger EXCEPT ![k].played = FALSE]
    /\ UNCHANGED unacked

SetFavorite(k, b) ==
    /\ ledger' = [ledger EXCEPT ![k].fav = b]
    /\ UNCHANGED unacked

Crash ==
    /\ unacked' = [k \in Keys |-> 0]
    /\ \A k \in Keys : \E n \in 0 .. unacked[k] :
            ledger'[k] = [ledger[k] EXCEPT !.count = @ - n]

Next ==
    \/ SetPositions
    \/ \E k \in Keys, p \in Positions : CompleteAt(k, p)
    \/ \E k \in Keys : \/ MarkPlayed(k)
                       \/ AcknowledgePlay(k)
                       \/ LosePlay(k)
                       \/ UnmarkPlayed(k)
                       \/ \E b \in BOOLEAN : SetFavorite(k, b)
    \/ Crash

Spec == Init /\ [][Next]_lvars
=============================================================================
