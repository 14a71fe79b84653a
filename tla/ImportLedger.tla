----------------------------- MODULE ImportLedger -----------------------------
(***************************************************************************)
(* What a batch import promises, whatever transactions, savepoints and     *)
(* retries implement it.  The catalogue changes at one instant, to what    *)
(* the items of the batch that are counted make of it, each of them as a   *)
(* whole and in the order of the batch; the answer counts these items; and *)
(* nothing that somebody else has written since is lost.                   *)
(***************************************************************************)
EXTENDS Naturals, Sequences

CONSTANTS Batches, None, Failed

VARIABLES
    db,         \* the catalogue: [lib, rows]
    request,    \* the batch in hand: [items, dry], or None
    base,       \* the catalogue the draft was made from
    draft,      \* what the items counted so far make of it
    next,       \* the next item of the batch
    counted,    \* how many items have been counted
    answer      \* what the last request was told: a count, Failed or None

lvars == <<db, request, base, draft, next, counted, answer>>

Over(f, g) == [i \in DOMAIN f \cup DOMAIN g |-> IF i \in DOMAIN f THEN f[i] ELSE g[i]]

\* The rows `at' hold the nodes of the item, and nothing else has changed.
PlacedAt(item, at, before, after) ==
    LET Nodes == DOMAIN item.nodes
        Rows  == {at[n] : n \in Nodes}
    IN  /\ after.lib = "named"
        /\ DOMAIN after.rows = DOMAIN before.rows \cup Rows
        /\ \A i \in DOMAIN before.rows \ Rows : after.rows[i] = before.rows[i]
        /\ \A m, n \in Nodes : at[m] = at[n] => m = n
        /\ \A n \in Nodes :
             LET node == item.nodes[n]
                 row  == after.rows[at[n]]
             IN  /\ node.id # None => at[n] = node.id
                 /\ row.kind = node.kind /\ row.text = node.text
                 /\ row.parent = IF node.up = 0 THEN item.parent ELSE at[node.up]
                 /\ IF at[n] \in DOMAIN before.rows
                    THEN LET old == before.rows[at[n]] IN
                         /\ old.kind = row.kind /\ old.parent = row.parent
                         /\ row.prov = Over(node.prov, old.prov)
                    ELSE row.prov = node.prov

Placed(item, before, after) ==
    \E at \in [DOMAIN item.nodes -> DOMAIN after.rows] : PlacedAt(item, at, before, after)

Init ==
    /\ request = None /\ base = db /\ draft = db
    /\ next = 0 /\ counted = 0 /\ answer = None

Receive ==
    /\ request = None
    /\ \E items \in Batches, dry \in BOOLEAN : request' = [items |-> items, dry |-> dry]
    /\ answer' = None
    /\ next' = 0
    /\ UNCHANGED <<db, base, draft, counted>>

\* Also again, after an attempt that came to nothing.
Begin ==
    /\ request # None
    /\ base' = db /\ draft' = db /\ next' = 1 /\ counted' = 0
    /\ UNCHANGED <<db, request, answer>>

Pending == request # None /\ next \in 1 .. Len(request.items)

Take ==
    /\ Pending
    /\ next' = next + 1 /\ counted' = counted + 1
    /\ IF request.dry THEN draft' = draft ELSE Placed(request.items[next], draft, draft')
    /\ UNCHANGED <<db, request, base, answer>>

Refuse ==
    /\ Pending
    /\ next' = next + 1
    /\ UNCHANGED <<db, request, base, draft, counted, answer>>

\* A draft replaces only the catalogue that it was made from.  The answer
\* may be lost.
Commit ==
    /\ request # None /\ next = Len(request.items) + 1
    /\ db' = IF draft = base THEN db ELSE draft
    /\ draft # base => db = base
    /\ answer' \in {counted, None} /\ request' = None
    /\ next' = 0 /\ counted' = 0 /\ base' = db' /\ draft' = db'

\* The request comes to nothing: it is refused, or nobody lives to answer.
Abandon ==
    /\ request # None
    /\ answer' \in {Failed, None} /\ request' = None
    /\ next' = 0 /\ counted' = 0 /\ base' = db /\ draft' = db
    /\ UNCHANGED db

\* Another handler or program removes rows, or gives the library a new name.
Elsewhere ==
    /\ db' # db
    /\ DOMAIN db'.rows \subseteq DOMAIN db.rows
    /\ \A i \in DOMAIN db'.rows : db'.rows[i] = db.rows[i]
    /\ request = None => base' = db' /\ draft' = db'
    /\ request # None => base' = base /\ draft' = draft
    /\ UNCHANGED <<request, next, counted, answer>>

Next == Receive \/ Begin \/ Take \/ Refuse \/ Commit \/ Abandon \/ Elsewhere

Spec == Init /\ [][Next]_lvars
=============================================================================
