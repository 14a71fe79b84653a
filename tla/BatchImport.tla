------------------------------ MODULE BatchImport ------------------------------
(***************************************************************************)
(* The batch import: importBatch and what it calls in                      *)
(* internal/api/admin/import.go.                                           *)
(*                                                                         *)
(* A batch is a sequence of items, an item is a tree: its nodes in the     *)
(* order in which planImportTree and writeImportTree visit them.  The      *)
(* whole batch is one transaction on the only connection that writes, each *)
(* item is under a savepoint, and a locked database repeats first the item *)
(* and then the transaction.  Transactions are deferred: one that has read *)
(* an older catalogue than there is cannot write any more.  One library is *)
(* modelled.  `text' stands for every column that the import overwrites,   *)
(* sources, images and subtitles included.                                 *)
(***************************************************************************)
EXTENDS Naturals, Sequences, FiniteSets

CONSTANTS
    Batches,        \* the batches clients send
    Catalogues,     \* the catalogues there may be at the start
    Attempts,       \* importAttempts
    MaxRequests,    \* bound: requests
    MaxFaults,      \* bound: failing statements, timeouts and crashes
    MaxOthers,      \* bound: writes of other handlers and programs
    None, Failed

Kinds == {"Movie", "Series", "Season", "Episode"}

IsFunction(f)    == f = [x \in DOMAIN f |-> f[x]]
IsNonEmptySeq(s) == s \in Seq({s[i] : i \in DOMAIN s}) /\ Len(s) > 0

\* A node comes after the one it is under.
IsTree(nodes) ==
    /\ IsNonEmptySeq(nodes) /\ nodes[1].up = 0
    /\ \A n \in DOMAIN nodes :
         /\ nodes[n].kind \in Kinds /\ IsFunction(nodes[n].prov)
         /\ n > 1 => nodes[n].up \in 1 .. n - 1

ASSUME ConstantsAssumption ==
    /\ Attempts \in Nat \ {0}
    /\ MaxRequests \in Nat /\ MaxFaults \in Nat /\ MaxOthers \in Nat
    /\ \A items \in Batches : IsNonEmptySeq(items) /\ \A i \in DOMAIN items : IsTree(items[i].nodes)
    /\ None \notin [items : Batches, dry : BOOLEAN]

VARIABLES
    db,         \* what is committed: the state of the library, and the rows
    request,    \* the batch in hand: [items, dry], or None
    pc,         \* "idle", or what comes next: "begin", "plan", "write", "commit"
    item,       \* index of the item in hand
    snap,       \* what the transaction has begun from
    work,       \* what it has made of it
    save,       \* the savepoint
    locked,     \* the transaction has written: nobody else can
    places,     \* the id of each node planned so far
    planned,    \* the rows that are planned for these
    preview,    \* dry run: the rows planned for earlier items
    written,    \* how many nodes of the item have been written
    outer,      \* attempts left for the transaction
    inner,      \* attempts left for the item
    response,   \* [imported, errors], as it is built
    answer,     \* what the client was told: a count, Failed or None
    touched,    \* history: the ids this attempt has written, one by one
    last,       \* history: the batch committed last without an error, with the ids then
    sent, faults, others    \* bounds

plan    == <<places, planned, written>>
tx      == <<snap, work, save, locked, preview, response, touched>>
bounds  == <<sent, faults, others>>
vars    == <<db, request, pc, item, tx, plan, outer, inner, answer, last, bounds>>

-----------------------------------------------------------------------------
\* Functions from names of providers to ids, from ids to rows, ...
Over(f, g) == [i \in DOMAIN f \cup DOMAIN g |-> IF i \in DOMAIN f THEN f[i] ELSE g[i]]
Nothing    == [i \in {} |-> None]
Known(f, i) == i \in DOMAIN f

Shares(p, q) == \E k \in DOMAIN p \cap DOMAIN q : p[k] = q[k]
Conflicts(p, q) == \E k \in DOMAIN p \cap DOMAIN q : p[k] # q[k]

InScope(row, kind, parent) == row.kind = kind /\ row.parent = parent

Catalogue(d) ==
    /\ d \in [lib : {"none", "named", "renamed"}, rows : {d.rows}]
    /\ IsFunction(d.rows)
    /\ \A i \in DOMAIN d.rows : d.rows[i].kind \in Kinds

Apart(row, other) == InScope(row, other.kind, other.parent) => ~Shares(row.prov, other.prov)
Unambiguous(rows) == \A i, j \in DOMAIN rows : i # j => Apart(rows[i], rows[j])

\* What was there before is as imports leave it.
ASSUME CataloguesAssumption == \A d \in Catalogues : Catalogue(d) /\ Unambiguous(d.rows)

\* Mutant: the id is made up anew for each request.
FreshId(node, parent) ==
    <<node.kind, parent, node.prov, IF DOMAIN node.prov # {} THEN None ELSE node.name, sent>>

\* An item without an Id gets one made from where it is and what it is
\* known by: its providers, else its number or its name.
StableId(node, parent) ==
    <<node.kind, parent, node.prov, IF DOMAIN node.prov # {} THEN None ELSE node.name>>

IdOf(node, parent) == IF node.id # None THEN node.id ELSE StableId(node, parent)

\* `bad' is the verdict on single values: lengths, ranges, dates, addresses.
ValidNode(node) == ~node.bad

\* Siblings have different numbers.
ValidTree(tree) ==
    /\ \A n \in DOMAIN tree.nodes : ValidNode(tree.nodes[n])
    /\ \A m, n \in DOMAIN tree.nodes :
         tree.nodes[m].up = tree.nodes[n].up /\ m # n => tree.nodes[m].name # tree.nodes[n].name

(***************************************************************************)
(* Which row a node is                                                     *)
(***************************************************************************)

\* A row as the plan sees it.
Seen == Over(planned, Over(preview, work.rows))

\* The SQL condition looks at the table, then the two maps are searched.
MatchesByProvider(node, parent) ==
    LET Hits(rows) == {i \in DOMAIN rows : /\ InScope(rows[i], node.kind, parent)
                                           /\ Shares(rows[i].prov, node.prov)}
    IN  Hits(work.rows) \cup Hits(preview) \cup Hits(planned)

Matches(node, parent) ==
    MatchesByProvider(node, parent) \cup ({IdOf(node, parent)} \cap DOMAIN Seen)

\* The copy of a matching row that the plan starts from.
Found(node, parent, i) ==
    IF Known(preview, i) /\ (i = IdOf(node, parent) \/ Shares(preview[i].prov, node.prov))
    THEN preview[i] ELSE work.rows[i]

ParentFits(node, parent) ==
    CASE node.kind \in {"Movie", "Series"} -> parent = None
      [] node.kind = "Season"  -> Known(Seen, parent) /\ Seen[parent].kind = "Series"
      [] node.kind = "Episode" -> Known(Seen, parent) /\ Seen[parent].kind = "Season"

\* Mutant: more than one match is settled by taking one.
ResolvesFirst(node, parent, id) ==
    LET found == Matches(node, parent) IN
    IF found = {} THEN id = IdOf(node, parent)
    ELSE /\ id = CHOOSE i \in found : TRUE
         /\ node.id # None => id = node.id
         /\ node.id = None => ~Conflicts(Found(node, parent, id).prov, node.prov)

\* Whether a node is the row `id', which may not exist yet.
Resolves(node, parent, id) ==
    LET found == Matches(node, parent)
        own   == IdOf(node, parent)
    IN  /\ Known(Seen, own) => InScope(Seen[own], node.kind, parent)
        /\ IF found = {} THEN id = own
           ELSE /\ found = {id}
                /\ node.id # None => id = node.id
                /\ node.id = None => ~Conflicts(Found(node, parent, id).prov, node.prov)

RowFor(node, parent, id) ==
    [kind |-> node.kind, parent |-> parent, text |-> node.text,
     prov |-> IF Known(Seen, id) THEN Over(node.prov, Found(node, parent, id).prov) ELSE node.prov]

-----------------------------------------------------------------------------
Init ==
    /\ db \in Catalogues
    /\ request = None /\ pc = "idle" /\ item = 0
    /\ snap = db /\ work = db /\ save = db /\ locked = FALSE
    /\ places = <<>> /\ planned = Nothing /\ preview = Nothing /\ written = 0
    /\ outer = 0 /\ inner = 0
    /\ response = [imported |-> 0, errors |-> 0]
    /\ answer = None
    /\ touched = <<>> /\ last = None
    /\ sent = 0 /\ faults = 0 /\ others = 0

Tree  == request.items[item]
Depth == Len(places) + 1        \* the node to be planned
ParentOf(n) == IF Tree.nodes[n].up = 0 THEN Tree.parent ELSE places[Tree.nodes[n].up]

\* The batch has been decoded and checked.
Receive(items, dry) ==
    /\ pc = "idle" /\ sent < MaxRequests
    /\ sent' = sent + 1
    /\ request' = [items |-> items, dry |-> dry]
    /\ pc' = "begin" /\ outer' = Attempts /\ answer' = None
    /\ item' = 0
    /\ UNCHANGED <<db, tx, plan, inner, last, faults, others>>

(***************************************************************************)
(* One attempt at the transaction                                          *)
(***************************************************************************)

NewItem == places' = <<>> /\ planned' = Nothing /\ written' = 0 /\ inner' = Attempts

\* The snapshot is the catalogue of the first read, the one of the library.
Begin ==
    /\ pc = "begin"
    /\ pc' = "plan" /\ item' = 1
    /\ snap' = db /\ work' = db /\ save' = db /\ locked' = FALSE
    /\ preview' = Nothing /\ touched' = <<>>
    /\ response' = [imported |-> 0, errors |-> 0]
    /\ NewItem
    /\ UNCHANGED <<db, request, outer, answer, last, bounds>>

NextItem ==
    /\ item' = item + 1
    /\ pc' = IF item = Len(request.items) THEN "commit" ELSE "plan"
    /\ NewItem

CountError == response' = [response EXCEPT !.errors = @ + 1]

RefuseInvalid ==
    /\ pc = "plan" /\ ~ValidTree(Tree)
    /\ CountError /\ NextItem
    /\ UNCHANGED <<db, request, snap, work, save, locked, preview, touched, outer, answer, last, bounds>>

Plannable(id) ==
    LET node == Tree.nodes[Depth] IN
    /\ ParentFits(node, ParentOf(Depth))
    /\ Resolves(node, ParentOf(Depth), id)
    /\ ~Known(planned, id)

Candidates == LET node == Tree.nodes[Depth]
              IN  Matches(node, ParentOf(Depth)) \cup {IdOf(node, ParentOf(Depth))}

PlanNode ==
    /\ pc = "plan" /\ ValidTree(Tree)
    /\ \E id \in Candidates :
         /\ Plannable(id)
         /\ places' = Append(places, id)
         /\ planned' = Over([i \in {id} |-> RowFor(Tree.nodes[Depth], ParentOf(Depth), id)], planned)
    /\ pc' = IF Depth = Len(Tree.nodes) THEN "write" ELSE "plan"
    /\ UNCHANGED <<db, request, item, tx, written, outer, inner, answer, last, bounds>>

\* No parent that fits, more than one match, a conflict, or the node is a
\* row that another node of the item already is.
RefusePlan ==
    /\ pc = "plan" /\ ValidTree(Tree)
    /\ ~\E id \in Candidates : Plannable(id)
    /\ CountError /\ NextItem
    /\ UNCHANGED <<db, request, snap, work, save, locked, preview, touched, outer, answer, last, bounds>>

Preview ==
    /\ pc = "write" /\ request.dry
    /\ preview' = Over(planned, preview)
    /\ response' = [response EXCEPT !.imported = @ + 1]
    /\ NextItem
    /\ UNCHANGED <<db, request, snap, work, save, locked, touched, outer, answer, last, bounds>>

Writing  == pc = "write" /\ ~request.dry /\ written < Len(places)
CanWrite == locked \/ snap = db

\* The library is made with the first item.
WriteNode ==
    /\ Writing /\ CanWrite /\ work.lib # "renamed"
    /\ LET id == places[written + 1] IN
         /\ work' = [lib |-> "named",
                     rows |-> Over([i \in {id} |-> planned[id]], work.rows)]
         /\ touched' = Append(touched, id)
    /\ locked' = TRUE /\ written' = written + 1
    /\ UNCHANGED <<db, request, pc, item, snap, save, preview, response, places, planned,
                   outer, inner, answer, last, bounds>>

KeepItem ==
    /\ pc = "write" /\ ~request.dry /\ written = Len(places)
    /\ save' = work
    /\ response' = [response EXCEPT !.imported = @ + 1]
    /\ NextItem
    /\ UNCHANGED <<db, request, snap, work, locked, preview, touched, outer, answer, last, bounds>>

\* Mutant: the savepoint is released instead of rolled back to.
WriteFailsKeeping ==
    /\ Writing
    /\ \/ work.lib = "renamed" /\ CanWrite /\ UNCHANGED faults
       \/ faults < MaxFaults /\ faults' = faults + 1
    /\ locked' \in {locked, CanWrite}
    /\ UNCHANGED <<work, touched>>
    /\ CountError /\ NextItem
    /\ UNCHANGED <<db, request, snap, save, preview, outer, answer, last, sent, others>>

\* A statement fails, and the item with it.  That is what a new library
\* meets if it was given another name: its id is taken.
WriteFails ==
    /\ Writing
    /\ \/ work.lib = "renamed" /\ CanWrite /\ UNCHANGED faults
       \/ faults < MaxFaults /\ faults' = faults + 1
    /\ locked' \in {locked, CanWrite}
    /\ work' = save /\ touched' = SubSeq(touched, 1, Len(touched) - written)
    /\ CountError /\ NextItem
    /\ UNCHANGED <<db, request, snap, save, preview, outer, answer, last, sent, others>>

(***************************************************************************)
(* Retries and the end of the request                                      *)
(***************************************************************************)

\* What a request uses is gone with it.
EndRequest ==
    /\ pc' = "idle" /\ request' = None /\ item' = 0
    /\ snap' = db' /\ work' = db' /\ save' = db' /\ locked' = FALSE
    /\ NewItem
    /\ preview' = Nothing /\ touched' = <<>> /\ outer' = 0
    /\ response' = [imported |-> 0, errors |-> 0]

RetryTransaction ==
    /\ outer > 1
    /\ outer' = outer - 1 /\ pc' = "begin" /\ locked' = FALSE
    /\ UNCHANGED <<request, item, snap, work, save, preview, response, touched, plan, inner, answer>>

GiveUp == outer = 1 /\ EndRequest /\ answer' = Failed

BusyFault == \/ snap # db /\ UNCHANGED faults
             \/ faults < MaxFaults /\ faults' = faults + 1

\* Mutant: an outdated snapshot is tried for ever.
RetryItemForEver ==
    /\ Writing /\ ~locked /\ BusyFault
    /\ inner > 1 /\ inner' = IF snap # db THEN inner ELSE inner - 1
    /\ UNCHANGED <<db, request, pc, item, tx, plan, outer, answer, last, sent, others>>

\* The first write finds the database locked, or the snapshot outdated:
\* the latter does not change however often the item is repeated.
RetryItem ==
    /\ Writing /\ ~locked /\ BusyFault
    /\ inner > 1 /\ inner' = inner - 1
    /\ UNCHANGED <<db, request, pc, item, tx, plan, outer, answer, last, sent, others>>

WriteBusy ==
    /\ Writing /\ ~locked /\ BusyFault
    /\ inner = 1
    /\ UNCHANGED <<db, last, sent, others>>
    /\ RetryTransaction \/ GiveUp

Distinct(s) == \A i, j \in DOMAIN s : s[i] = s[j] => i = j

\* The answer may not reach the client.
Commit ==
    /\ pc = "commit"
    /\ db' = IF locked THEN work ELSE db
    /\ \/ answer' = response.imported /\ UNCHANGED faults
       \/ faults < MaxFaults /\ faults' = faults + 1 /\ answer' = None
    /\ last' = IF response.errors = 0 /\ Distinct(touched) /\ ~request.dry
               THEN [items |-> request.items, db |-> db']
               ELSE IF db' = db THEN last ELSE None
    /\ EndRequest
    /\ UNCHANGED <<sent, others>>

CommitBusy ==
    /\ pc = "commit" /\ locked
    /\ faults < MaxFaults /\ faults' = faults + 1
    /\ UNCHANGED <<db, last, sent, others>>
    /\ RetryTransaction \/ GiveUp

\* The half minute is over, BEGIN, the search for the library or the commit
\* fails, or the savepoint cannot be rolled back: nothing is committed.  (A read
\* for an item that fails, but for a lock, is that item's error: WriteFails.)
Abort ==
    /\ pc # "idle"
    /\ faults < MaxFaults /\ faults' = faults + 1
    /\ answer' = Failed
    /\ UNCHANGED <<db, last, sent, others>>
    /\ EndRequest

Crash ==
    /\ pc # "idle"
    /\ faults < MaxFaults /\ faults' = faults + 1
    /\ answer' = None
    /\ UNCHANGED <<db, last, sent, others>>
    /\ EndRequest

(***************************************************************************)
(* Everybody else                                                          *)
(***************************************************************************)

Children(rows, ids) == {j \in DOMAIN rows : rows[j].parent \in ids}
Below(rows, i) == LET c == Children(rows, {i}) IN {i} \cup c \cup Children(rows, c)

\* deleteItem or saveAdminLibrary, between two attempts, or in another
\* program at any time before the transaction writes.
OtherWrites ==
    /\ ~locked
    /\ others < MaxOthers /\ others' = others + 1
    /\ \/ \E i \in DOMAIN db.rows :
            db' = [db EXCEPT !.rows = [j \in DOMAIN @ \ Below(@, i) |-> @[j]]]
       \/ db.lib = "named" /\ db' = [db EXCEPT !.lib = "renamed"]
    /\ IF pc = "idle" THEN snap' = db' /\ work' = db' /\ save' = db'
                      ELSE UNCHANGED <<snap, work, save>>
    /\ last' = None
    /\ UNCHANGED <<request, pc, item, locked, preview, response, touched, plan, outer, inner,
                   answer, sent, faults>>

Step ==
    \/ Begin \/ RefuseInvalid \/ PlanNode \/ RefusePlan \/ Preview
    \/ WriteNode \/ KeepItem \/ WriteFails \/ RetryItem \/ WriteBusy
    \/ Commit \/ CommitBusy \/ Abort

Next ==
    \/ \E items \in Batches, dry \in BOOLEAN : Receive(items, dry)
    \/ Step
    \/ Crash
    \/ OtherWrites

Spec == Init /\ [][Next]_vars

\* A request that has been received is worked on.
FairSpec == Spec /\ WF_vars(Step)

-----------------------------------------------------------------------------
TypeOK ==
    /\ Catalogue(db) /\ Catalogue(snap) /\ Catalogue(work) /\ Catalogue(save)
    /\ pc \in {"idle", "begin", "plan", "write", "commit"}
    /\ request # None => /\ request.items \in Batches /\ request.dry \in BOOLEAN
                         /\ item \in 0 .. Len(request.items) + 1
    /\ pc = "idle" <=> request = None
    /\ pc \in {"plan", "write"} =>
         /\ item \in 1 .. Len(request.items)
         /\ Len(places) <= Len(Tree.nodes) /\ DOMAIN planned = {places[n] : n \in DOMAIN places}
    /\ locked \in BOOLEAN
    /\ written \in 0 .. Len(places)
    /\ outer \in 0 .. Attempts /\ inner \in 0 .. Attempts
    /\ sent \in 0 .. MaxRequests /\ faults \in 0 .. MaxFaults /\ others \in 0 .. MaxOthers

\* Two rows of one place and kind never have a provider's id in common, so
\* that a later import cannot be refused as ambiguous, nor update the wrong one.
UniqueProviders == Unambiguous(db.rows) /\ Unambiguous(work.rows)

\* Importing once more what was imported without an error changes nothing,
\* whether or not the first answer was heard; as long as the batch meant each
\* row once and nobody else has written (docs/ROADMAP.md:215).
RepeatChangesNothing ==
    [][last # None /\ request # None /\ request.items = last.items /\ others' = others
        => db' = db]_vars

Ledger == INSTANCE ImportLedger WITH
    base    <- snap,
    draft   <- IF pc = "write" THEN save ELSE work,
    next    <- item,
    counted <- response.imported

\* An import takes effect at once, item by item as a whole or not at all, and
\* the answer counts these items.
ImplementsLedger == Ledger!Spec

\* Whatever locks it meets, a request is answered: the retries are bounded.
EveryRequestEnds == pc # "idle" ~> pc = "idle"
=============================================================================
