-------------------------- MODULE BatchImport_proofs --------------------------
(***************************************************************************)
(* What BatchImport promises holds for all batches, catalogues and bounds: *)
(* an import takes effect as ImportLedger says, it keeps rows of one place *)
(* and kind apart, and importing the same batch again changes nothing.     *)
(***************************************************************************)
EXTENDS BatchImport, TLAPS

Busy == pc # "idle"
InItem == pc \in {"plan", "write"}

-----------------------------------------------------------------------------
(***************************************************************************)
(* Sequences, functions and trees                                          *)
(***************************************************************************)

LEMMA Elements ==
    ASSUME NEW S, NEW s \in Seq(S)
    PROVE  Len(s) \in Nat /\ DOMAIN s = 1 .. Len(s) /\ \A n \in 1 .. Len(s) : s[n] \in S
OBVIOUS

LEMMA Wider ==
    ASSUME NEW S, NEW T, NEW s \in Seq(S), S \subseteq T
    PROVE  s \in Seq(T)
OBVIOUS

LEMMA Appended ==
    ASSUME NEW S, NEW s \in Seq(S), NEW e
    PROVE  /\ Append(s, e) \in Seq(S \cup {e})
           /\ Len(Append(s, e)) = Len(s) + 1
           /\ DOMAIN Append(s, e) = 1 .. Len(s) + 1
           /\ \A n \in 1 .. Len(s) : Append(s, e)[n] = s[n]
           /\ Append(s, e)[Len(s) + 1] = e
<1>1. s \in Seq(S \cup {e})
    BY Wider
<1> QED BY <1>1

LEMMA Whole ==
    ASSUME NEW s, IsNonEmptySeq(s)
    PROVE  Len(s) \in Nat \ {0} /\ DOMAIN s = 1 .. Len(s)
BY DEF IsNonEmptySeq

LEMMA TreeNodes ==
    ASSUME NEW nodes, IsTree(nodes), NEW n \in DOMAIN nodes
    PROVE  /\ n \in 1 .. Len(nodes) /\ Len(nodes) \in Nat \ {0} /\ DOMAIN nodes = 1 .. Len(nodes)
           /\ nodes[n].kind \in Kinds
           /\ nodes[n].up = 0 \/ nodes[n].up \in 1 .. n - 1
<1>1. Len(nodes) \in Nat \ {0} /\ DOMAIN nodes = 1 .. Len(nodes)
    BY Whole DEF IsTree
<1>2. nodes[1].up = 0 /\ nodes[n].kind \in Kinds /\ (n > 1 => nodes[n].up \in 1 .. n - 1)
    BY Zenon DEF IsTree
<1>3. n = 1 \/ n > 1
    BY <1>1
<1>4. nodes[n].up = 0 \/ nodes[n].up \in 1 .. n - 1
    BY <1>2, <1>3, Zenon
<1> QED BY <1>1, <1>2, <1>4, Zenon

\* h is f, and g where f is not defined.
Merged(h, f, g) ==
    /\ IsFunction(h) /\ DOMAIN h = DOMAIN f \cup DOMAIN g
    /\ \A i \in DOMAIN f : h[i] = f[i]
    /\ \A i \in DOMAIN g \ DOMAIN f : h[i] = g[i]

LEMMA OverIs ==
    ASSUME NEW f, NEW g
    PROVE  Merged(Over(f, g), f, g)
BY DEF Merged, Over, IsFunction

\* One row, or one planned row, more.
With(g, id, row) == Over([i \in {id} |-> row], g)

Grown(f, g, id, row) ==
    /\ IsFunction(f) /\ DOMAIN f = {id} \cup DOMAIN g
    /\ f[id] = row
    /\ \A i \in DOMAIN g \ {id} : f[i] = g[i]

LEMMA OneMore ==
    ASSUME NEW id, NEW row, NEW g
    PROVE  Grown(With(g, id, row), g, id, row)
BY DEF Grown, With, Over, IsFunction

LEMMA NothingIs == DOMAIN Nothing = {}
BY DEF Nothing

LEMMA OverNothing ==
    ASSUME NEW f
    PROVE  DOMAIN Over(Nothing, f) = DOMAIN f /\ \A i \in DOMAIN f : Over(Nothing, f)[i] = f[i]
<1>1. Merged(Over(Nothing, f), Nothing, f)
    BY OverIs
<1> QED BY <1>1, NothingIs DEF Merged

-----------------------------------------------------------------------------
(***************************************************************************)
(* The types, and where a request is                                       *)
(***************************************************************************)

\* What each place of the program may rely on.
Where ==
    /\ pc \in {"idle", "begin", "plan", "write", "commit"}
    /\ pc = "idle" <=> request = None
    /\ request # None => /\ request.items \in Batches /\ request.dry \in BOOLEAN
                         /\ item \in 0 .. Len(request.items) + 1
    /\ InItem => item \in 1 .. Len(request.items)
    /\ pc = "plan" => Len(places) < Len(Tree.nodes) /\ written = 0
    /\ pc = "write" => Len(places) = Len(Tree.nodes)
    /\ pc = "commit" => item = Len(request.items) + 1
    /\ places \in Seq(DOMAIN planned) /\ DOMAIN planned = {places[n] : n \in DOMAIN places}
    /\ written \in 0 .. Len(places)

Counters ==
    /\ outer \in 0 .. Attempts /\ inner \in 0 .. Attempts
    /\ response \in [imported : Nat, errors : Nat]
    /\ sent \in 0 .. MaxRequests /\ faults \in 0 .. MaxFaults /\ others \in 0 .. MaxOthers

Catalogued ==
    /\ Catalogue(db) /\ Catalogue(snap) /\ Catalogue(work) /\ Catalogue(save)
    /\ \A i \in DOMAIN planned : planned[i].kind \in Kinds

Typed == Where /\ Counters /\ locked \in BOOLEAN /\ Catalogued

LEMMA BatchIs ==
    ASSUME NEW items \in Batches
    PROVE  /\ Len(items) \in Nat \ {0} /\ DOMAIN items = 1 .. Len(items)
           /\ \A i \in 1 .. Len(items) : IsTree(items[i].nodes) /\ Len(items[i].nodes) \in Nat \ {0}
<1>1. IsNonEmptySeq(items) /\ \A i \in DOMAIN items : IsTree(items[i].nodes)
    BY ConstantsAssumption, Zenon
<1>2. Len(items) \in Nat \ {0} /\ DOMAIN items = 1 .. Len(items)
    BY <1>1, Whole, Zenon
<1>3. ASSUME NEW i \in 1 .. Len(items)
      PROVE  IsTree(items[i].nodes) /\ Len(items[i].nodes) \in Nat \ {0}
  <2>1. IsTree(items[i].nodes)
    BY <1>1, <1>2
  <2> QED BY <2>1, Whole, Zenon DEF IsTree
<1> QED BY <1>2, <1>3, Zenon

\* The item in hand is a tree.
LEMMA TreeInHand ==
    ASSUME Where, InItem
    PROVE  /\ request # None /\ request.items \in Batches /\ request.dry \in BOOLEAN
           /\ item \in 1 .. Len(request.items) /\ Len(request.items) \in Nat \ {0}
           /\ IsTree(Tree.nodes) /\ Len(Tree.nodes) \in Nat \ {0}
<1>1. request # None /\ request.items \in Batches /\ request.dry \in BOOLEAN
    BY DEF Where, InItem
<1>2. item \in 1 .. Len(request.items)
    BY Zenon DEF Where
<1> QED BY <1>1, <1>2, BatchIs DEF Tree

\* A batch that is begun, or in which the next item is taken up, has a first node to plan.
LEMMA FreshItem ==
    ASSUME request' # None, request'.items \in Batches, request'.dry \in BOOLEAN,
           item' \in 1 .. Len(request'.items) + 1,
           pc' = IF item' = Len(request'.items) + 1 THEN "commit" ELSE "plan",
           NewItem
    PROVE  Where'
<1>1. places' = <<>> /\ DOMAIN planned' = {} /\ written' = 0
    BY NothingIs DEF NewItem
<1>2. Len(request'.items) \in Nat \ {0}
    BY BatchIs
<1>3. ASSUME pc' = "plan"
      PROVE  0 < Len(request'.items[item'].nodes) /\ item' \in 1 .. Len(request'.items)
  <2>1. item' \in 1 .. Len(request'.items)
    BY <1>2, <1>3
  <2> QED BY <2>1, BatchIs
<1> QED BY <1>1, <1>2, <1>3 DEF Where, InItem, Tree

LEMMA NextItemWhere ==
    ASSUME Where, InItem, NextItem, request' = request
    PROVE  Where'
<1>1. /\ request # None /\ request.items \in Batches /\ request.dry \in BOOLEAN
      /\ item \in 1 .. Len(request.items) /\ Len(request.items) \in Nat \ {0}
    BY TreeInHand
<1>2. /\ item' \in 1 .. Len(request'.items) + 1
      /\ pc' = IF item' = Len(request'.items) + 1 THEN "commit" ELSE "plan"
      /\ NewItem
    BY <1>1 DEF NextItem
<1> QED BY <1>1, <1>2, FreshItem

LEMMA EndWhere ==
    ASSUME EndRequest
    PROVE  Where'
BY NothingIs DEF EndRequest, NewItem, Where, InItem

LEMMA RetryWhere ==
    ASSUME Where, Busy, RetryTransaction
    PROVE  Where'
BY DEF RetryTransaction, Where, InItem, Busy, plan

LEMMA PlanWhere ==
    ASSUME Where, PlanNode
    PROVE  Where'
<1>1. /\ pc = "plan" /\ InItem /\ UNCHANGED <<request, item, written>>
      /\ pc' = IF Depth = Len(Tree.nodes) THEN "write" ELSE "plan"
    BY DEF PlanNode, InItem
<1>2. PICK id, row : /\ places' = Append(places, id)
                     /\ planned' = With(planned, id, row)
    BY DEF PlanNode, With
<1>3. /\ Len(Tree.nodes) \in Nat \ {0} /\ item \in 1 .. Len(request.items)
    BY <1>1, TreeInHand
<1>4. /\ places \in Seq(DOMAIN planned) /\ DOMAIN planned = {places[n] : n \in DOMAIN places}
      /\ Len(places) < Len(Tree.nodes) /\ written = 0
    BY <1>1 DEF Where
<1>5. DOMAIN planned' = {id} \cup DOMAIN planned
    BY <1>2, OneMore DEF Grown
<1>6. /\ places' \in Seq(DOMAIN planned \cup {id}) /\ Len(places') = Len(places) + 1
      /\ DOMAIN places' = 1 .. Len(places) + 1
      /\ \A n \in 1 .. Len(places) : places'[n] = places[n]
      /\ places'[Len(places) + 1] = id
    BY <1>2, <1>4, Appended
<1>7. Len(places) \in Nat /\ DOMAIN places = 1 .. Len(places)
    BY <1>4, Elements
<1>8. DOMAIN planned' = {places'[n] : n \in DOMAIN places'}
    BY <1>4, <1>5, <1>6, <1>7
<1>9. places' \in Seq(DOMAIN planned')
    BY <1>5, <1>6, Wider
<1>10. Tree' = Tree
    BY <1>1 DEF Tree
<1>11. pc' \in {"plan", "write"} /\ Depth = Len(places')
    BY <1>1, <1>6 DEF Depth
<1>12. /\ pc' = "plan" => Len(places') < Len(Tree.nodes)
       /\ pc' = "write" => Len(places') = Len(Tree.nodes)
    BY <1>1, <1>3, <1>4, <1>6, <1>7, <1>11
<1>13. written' \in 0 .. Len(places') /\ written' = 0
    BY <1>1, <1>4, <1>6, <1>7
<1> QED BY <1>1, <1>8, <1>9, <1>10, <1>11, <1>12, <1>13 DEF Where, InItem

LEMMA InitWhere == Init => Where
BY NothingIs DEF Init, Where, InItem

\* Every step leads to a place whose facts hold.
LEMMA WhereKept ==
    ASSUME Where, [Next]_vars
    PROVE  Where'
<1> USE DEF Where, InItem, Tree, plan, tx, bounds
<1>1. CASE \E items \in Batches, dry \in BOOLEAN : Receive(items, dry)
  <2>1. PICK items \in Batches, dry \in BOOLEAN : Receive(items, dry)
    BY <1>1
  <2>2. [items |-> items, dry |-> dry] # None
    BY ConstantsAssumption
  <2>3. Len(items) \in Nat
    BY BatchIs
  <2> QED BY <2>1, <2>2, <2>3 DEF Receive
<1>2. CASE Begin
  <2>1. /\ request # None /\ request.items \in Batches /\ request.dry \in BOOLEAN
        /\ UNCHANGED request
    BY <1>2 DEF Begin
  <2>2. Len(request.items) \in Nat \ {0}
    BY <2>1, BatchIs
  <2>3. /\ item' \in 1 .. Len(request'.items) + 1 /\ NewItem
        /\ pc' = IF item' = Len(request'.items) + 1 THEN "commit" ELSE "plan"
    BY <1>2, <2>1, <2>2 DEF Begin
  <2> HIDE DEF Where
  <2> QED BY <2>1, <2>3, FreshItem
<1>3. CASE RefuseInvalid \/ RefusePlan \/ Preview \/ KeepItem \/ WriteFails
  <2>1. InItem /\ NextItem /\ request' = request
    BY <1>3 DEF RefuseInvalid, RefusePlan, Preview, KeepItem, WriteFails, Writing
  <2> HIDE DEF Where, InItem
  <2> QED BY <2>1, NextItemWhere
<1>4. CASE PlanNode
  <2> HIDE DEF Where
  <2> QED BY <1>4, PlanWhere
<1>5. CASE WriteNode
  <2>1. /\ UNCHANGED <<pc, request, item, places, planned>>
        /\ written < Len(places) /\ written' = written + 1 /\ pc = "write"
    BY <1>5 DEF WriteNode, Writing
  <2>2. Len(places) \in Nat
    BY Elements
  <2>3. written' \in 0 .. Len(places)
    BY <2>1, <2>2
  <2> QED BY <2>1, <2>3
<1>6. CASE RetryItem \/ OtherWrites
  <2>1. UNCHANGED <<pc, request, item, places, planned, written>>
    BY <1>6 DEF RetryItem, OtherWrites
  <2> QED BY <2>1
<1>7. CASE WriteBusy \/ CommitBusy \/ Commit \/ Abort \/ Crash
  <2>1. (RetryTransaction /\ Busy) \/ EndRequest
    BY <1>7 DEF WriteBusy, CommitBusy, Commit, Abort, Crash, Writing, GiveUp, Busy
  <2> HIDE DEF Where
  <2> QED BY <2>1, RetryWhere, EndWhere
<1>8. CASE UNCHANGED vars
    BY <1>8 DEF vars
<1> HIDE DEF Where
<1> QED BY <1>1, <1>2, <1>3, <1>4, <1>5, <1>6, <1>7, <1>8 DEF Next, Step

LEMMA InitCounters == Init => Counters /\ locked \in BOOLEAN
<1>1. Init => locked \in BOOLEAN
    BY Zenon DEF Init
<1>2. Init => Counters
    BY ConstantsAssumption DEF Init, Counters
<1> QED BY <1>1, <1>2, Zenon

LEMMA CountersKept ==
    ASSUME Counters, [Next]_vars
    PROVE  Counters'
<1>0. /\ outer \in 0 .. Attempts /\ inner \in 0 .. Attempts
      /\ response \in [imported : Nat, errors : Nat]
      /\ sent \in 0 .. MaxRequests /\ faults \in 0 .. MaxFaults /\ others \in 0 .. MaxOthers
      /\ Attempts \in Nat \ {0} /\ MaxRequests \in Nat /\ MaxFaults \in Nat /\ MaxOthers \in Nat
    BY ConstantsAssumption DEF Counters
<1>a. /\ [response EXCEPT !.imported = @ + 1] \in [imported : Nat, errors : Nat]
      /\ [response EXCEPT !.errors = @ + 1] \in [imported : Nat, errors : Nat]
    BY <1>0
<1> USE <1>0 DEF plan, tx, bounds, NextItem, NewItem, EndRequest
<1>1. CASE \E items \in Batches, dry \in BOOLEAN : Receive(items, dry)
    BY <1>1 DEF Receive, Counters
<1>2. CASE Begin \/ RefuseInvalid \/ PlanNode \/ RefusePlan
  <2>1. CASE Begin
    BY <2>1 DEF Begin, Counters
  <2>2. CASE RefuseInvalid \/ RefusePlan
    <3>1. response' \in [imported : Nat, errors : Nat]
        BY <1>a, <2>2, Zenon DEF RefuseInvalid, RefusePlan, CountError
    <3>2. UNCHANGED <<outer, sent, faults, others>> /\ inner' = Attempts
        BY <2>2, Zenon DEF RefuseInvalid, RefusePlan
    <3> QED BY <3>1, <3>2 DEF Counters
  <2>3. CASE PlanNode
    BY <2>3 DEF PlanNode, Counters
  <2> QED BY <1>2, <2>1, <2>2, <2>3
<1>3. CASE Preview \/ WriteNode \/ KeepItem
  <2>1. CASE Preview \/ KeepItem
    <3>1. response' \in [imported : Nat, errors : Nat]
        BY <1>a, <2>1, Zenon DEF Preview, KeepItem
    <3>2. UNCHANGED <<outer, sent, faults, others>> /\ inner' = Attempts
        BY <2>1, Zenon DEF Preview, KeepItem
    <3> QED BY <3>1, <3>2 DEF Counters
  <2>2. CASE WriteNode
    <3>1. UNCHANGED <<outer, inner, response, sent, faults, others>>
        BY <2>2, Zenon DEF WriteNode
    <3> QED BY <3>1 DEF Counters
  <2> QED BY <1>3, <2>1, <2>2
<1>4. CASE WriteFails
  <2>1. response' \in [imported : Nat, errors : Nat]
      BY <1>a, <1>4, Zenon DEF WriteFails, CountError
  <2>2. UNCHANGED <<outer, sent, others>> /\ inner' = Attempts
      BY <1>4, Zenon DEF WriteFails
  <2>3. UNCHANGED faults \/ (faults < MaxFaults /\ faults' = faults + 1)
      BY <1>4, Zenon DEF WriteFails
  <2> QED BY <2>1, <2>2, <2>3 DEF Counters
<1>5. CASE RetryItem
    BY <1>5 DEF RetryItem, BusyFault, Counters
<1>6. CASE WriteBusy
    BY <1>6 DEF WriteBusy, BusyFault, RetryTransaction, GiveUp, Counters
<1>7. CASE Commit
    BY <1>7 DEF Commit, Counters
<1>8. CASE CommitBusy
    BY <1>8 DEF CommitBusy, RetryTransaction, GiveUp, Counters
<1>9. CASE Abort \/ Crash
    BY <1>9 DEF Abort, Crash, Counters
<1>10. CASE OtherWrites
    BY <1>10 DEF OtherWrites, Counters
<1>11. CASE UNCHANGED vars
    BY <1>11 DEF vars, Counters
<1> QED BY <1>1, <1>2, <1>3, <1>4, <1>5, <1>6, <1>7, <1>8, <1>9, <1>10, <1>11 DEF Next, Step

LEMMA LockedKept ==
    ASSUME locked \in BOOLEAN, [Next]_vars
    PROVE  locked' \in BOOLEAN
<1> USE DEF tx, bounds, EndRequest
<1>1. CASE \E items \in Batches, dry \in BOOLEAN : Receive(items, dry)
    BY <1>1, Zenon DEF Receive
<1>2. CASE Begin \/ RefuseInvalid \/ PlanNode \/ RefusePlan \/ Preview \/ WriteNode \/ KeepItem \/ RetryItem
    BY <1>2, Zenon DEF Begin, RefuseInvalid, PlanNode, RefusePlan, Preview, WriteNode, KeepItem, RetryItem
<1>3. CASE WriteFails
  <2>1. (snap = db) \in BOOLEAN /\ CanWrite \in BOOLEAN
    BY Zenon DEF CanWrite
  <2> QED BY <1>3, <2>1, Zenon DEF WriteFails
<1>4. CASE WriteBusy \/ Commit \/ CommitBusy \/ Abort \/ Crash \/ OtherWrites
    BY <1>4, Zenon DEF WriteBusy, Commit, CommitBusy, Abort, Crash, OtherWrites, RetryTransaction, GiveUp
<1>5. CASE UNCHANGED vars
    BY <1>5, Zenon DEF vars
<1> QED BY <1>1, <1>2, <1>3, <1>4, <1>5, Zenon DEF Next, Step

\* A catalogue with one row more, or without some of them.
LEMMA WrittenIsCatalogue ==
    ASSUME NEW d, NEW id, NEW row, Catalogue(d), row.kind \in Kinds
    PROVE  Catalogue([lib |-> "named", rows |-> With(d.rows, id, row)])
<1> DEFINE e == [lib |-> "named", rows |-> With(d.rows, id, row)]
<1>1. e.rows = With(d.rows, id, row) /\ e \in [lib : {"none", "named", "renamed"}, rows : {e.rows}]
    OBVIOUS
<1>2. Grown(e.rows, d.rows, id, row)
    BY <1>1, OneMore
<1>3. ASSUME NEW i \in DOMAIN e.rows
      PROVE  e.rows[i].kind \in Kinds
  <2> HIDE DEF e
  <2> QED BY <1>2, <1>3 DEF Catalogue, Grown
<1> HIDE DEF e
<1>4. Catalogue(e)
    BY <1>1, <1>2, <1>3 DEF Catalogue, Grown
<1> QED BY <1>4 DEF e

\* What OtherWrites makes of the catalogue.
Reduced(before, after) ==
    \/ /\ after.lib = before.lib /\ DOMAIN after.rows \subseteq DOMAIN before.rows
       /\ DOMAIN after.rows # DOMAIN before.rows
       /\ \A i \in DOMAIN after.rows : after.rows[i] = before.rows[i]
    \/ before.lib = "named" /\ after.lib = "renamed" /\ after.rows = before.rows

LEMMA OthersReduce ==
    ASSUME Catalogue(db), OtherWrites
    PROVE  Catalogue(db') /\ Reduced(db, db')
<1>1. /\ db \in [lib : {"none", "named", "renamed"}, rows : {db.rows}]
      /\ IsFunction(db.rows) /\ \A i \in DOMAIN db.rows : db.rows[i].kind \in Kinds
    BY DEF Catalogue
<1>2. CASE \E i \in DOMAIN db.rows :
             db' = [db EXCEPT !.rows = [j \in DOMAIN @ \ Below(@, i) |-> @[j]]]
  <2>1. PICK i \in DOMAIN db.rows :
             db' = [db EXCEPT !.rows = [j \in DOMAIN db.rows \ Below(db.rows, i) |-> db.rows[j]]]
    BY <1>2
  <2>2. PICK gone : gone = Below(db.rows, i)
    OBVIOUS
  <2>3. i \in gone
    BY <2>2 DEF Below
  <2>4. /\ db' \in [lib : {"none", "named", "renamed"}, rows : {db'.rows}] /\ db'.lib = db.lib
        /\ db'.rows = [j \in DOMAIN db.rows \ gone |-> db.rows[j]]
    BY <1>1, <2>1, <2>2
  <2> QED BY <1>1, <2>3, <2>4 DEF Catalogue, IsFunction, Reduced
<1>3. CASE db.lib = "named" /\ db' = [db EXCEPT !.lib = "renamed"]
    BY <1>1, <1>3 DEF Catalogue, Reduced
<1> QED BY <1>2, <1>3 DEF OtherWrites

LEMMA InitCatalogued == Init => Catalogued
BY CataloguesAssumption, NothingIs DEF Init, Catalogued

LEMMA PlannedRow ==
    ASSUME Where, PlanNode
    PROVE  \E id : /\ Plannable(id) /\ places' = Append(places, id)
                   /\ planned' = With(planned, id, RowFor(Tree.nodes[Depth], ParentOf(Depth), id))
BY DEF PlanNode, With

LEMMA DepthIsNode ==
    ASSUME Where, pc = "plan"
    PROVE  /\ Depth \in DOMAIN Tree.nodes /\ Depth \in 1 .. Len(Tree.nodes) /\ Depth = Len(places) + 1
           /\ Len(places) \in Nat /\ DOMAIN places = 1 .. Len(places) /\ IsTree(Tree.nodes)
<1>1. IsTree(Tree.nodes) /\ Len(Tree.nodes) \in Nat \ {0}
    BY TreeInHand DEF InItem
<1>2. Len(places) < Len(Tree.nodes) /\ places \in Seq(DOMAIN planned)
    BY DEF Where
<1>3. Len(places) \in Nat /\ DOMAIN places = 1 .. Len(places)
    BY <1>2, Elements
<1>4. DOMAIN Tree.nodes = 1 .. Len(Tree.nodes)
    BY <1>1, Whole DEF IsTree
<1> QED BY <1>1, <1>2, <1>3, <1>4 DEF Depth

LEMMA CataloguedKept ==
    ASSUME Where, Catalogued, [Next]_vars
    PROVE  Catalogued'
<1> USE DEF Catalogued, plan, tx
<1>1. CASE \E items \in Batches, dry \in BOOLEAN : Receive(items, dry)
    BY <1>1 DEF Receive
<1>2. CASE Begin
    BY <1>2, NothingIs DEF Begin, NewItem
<1>3. CASE RefuseInvalid \/ RefusePlan \/ Preview \/ KeepItem \/ WriteFails
    BY <1>3, NothingIs DEF RefuseInvalid, RefusePlan, Preview, KeepItem, WriteFails, NextItem, NewItem
<1>4. CASE PlanNode
  <2>1. PICK id : planned' = With(planned, id, RowFor(Tree.nodes[Depth], ParentOf(Depth), id))
    BY <1>4, PlannedRow
  <2>2. PICK row : row = RowFor(Tree.nodes[Depth], ParentOf(Depth), id)
    OBVIOUS
  <2>3. row.kind = Tree.nodes[Depth].kind
    BY <2>2 DEF RowFor
  <2>4. row.kind \in Kinds
    BY <1>4, <2>3, DepthIsNode, TreeNodes DEF PlanNode
  <2>5. planned' = With(planned, id, row)
    BY <2>1, <2>2
  <2>7. Grown(planned', planned, id, row)
    BY <2>5, OneMore
  <2>6. UNCHANGED <<db, snap, work, save>>
    BY <1>4 DEF PlanNode
  <2> QED BY <2>4, <2>6, <2>7 DEF Grown
<1>5. CASE WriteNode
  <2>1. PICK id : /\ id = places[written + 1]
                  /\ work' = [lib |-> "named", rows |-> With(work.rows, id, planned[id])]
    BY <1>5 DEF WriteNode, With
  <2>2. written + 1 \in 1 .. Len(places) /\ places \in Seq(DOMAIN planned)
    BY <1>5, Elements DEF Where, WriteNode, Writing
  <2>3. planned[id].kind \in Kinds
    BY <2>1, <2>2, Elements
  <2>4. Catalogue(work')
    BY <2>1, <2>3, WrittenIsCatalogue
  <2> QED BY <1>5, <2>4 DEF WriteNode
<1>6. CASE RetryItem
    BY <1>6 DEF RetryItem
<1>7. CASE WriteBusy \/ CommitBusy
    BY <1>7, NothingIs DEF WriteBusy, CommitBusy, RetryTransaction, GiveUp, EndRequest, NewItem
<1>8. CASE Commit
  <2>1. db' = work \/ db' = db
    BY <1>8 DEF Commit
  <2> QED BY <1>8, <2>1, NothingIs DEF Commit, EndRequest, NewItem
<1>9. CASE Abort \/ Crash
    BY <1>9, NothingIs DEF Abort, Crash, EndRequest, NewItem
<1>10. CASE OtherWrites
  <2>1. Catalogue(db')
    BY <1>10, OthersReduce
  <2> QED BY <1>10, <2>1 DEF OtherWrites
<1>11. CASE UNCHANGED vars
    BY <1>11 DEF vars
<1> QED BY <1>1, <1>2, <1>3, <1>4, <1>5, <1>6, <1>7, <1>8, <1>9, <1>10, <1>11 DEF Next, Step

LEMMA InitTyped == Init => Typed
BY InitWhere, InitCounters, InitCatalogued, Zenon DEF Typed

LEMMA TypedKept == Typed /\ [Next]_vars => Typed'
BY WhereKept, CountersKept, LockedKept, CataloguedKept, Zenon DEF Typed

LEMMA TypedHolds == Spec => []Typed
BY InitTyped, TypedKept, PTL DEF Spec

LEMMA TypedIsTypeOK == Typed => TypeOK
<1> SUFFICES ASSUME Typed
             PROVE  TypeOK
    OBVIOUS
<1>1. Where /\ Counters /\ locked \in BOOLEAN /\ Catalogued
    BY Zenon DEF Typed
<1>2. ASSUME InItem
      PROVE  Len(places) <= Len(Tree.nodes)
  <2>1. Len(Tree.nodes) \in Nat
    BY <1>1, <1>2, TreeInHand
  <2> QED BY <1>1, <1>2, <2>1, Elements DEF Where, InItem
<1>3. Catalogue(db) /\ Catalogue(snap) /\ Catalogue(work) /\ Catalogue(save)
    BY <1>1, Zenon DEF Catalogued
<1>4. /\ pc \in {"idle", "begin", "plan", "write", "commit"}
      /\ pc = "idle" <=> request = None
      /\ request # None => /\ request.items \in Batches /\ request.dry \in BOOLEAN
                           /\ item \in 0 .. Len(request.items) + 1
      /\ written \in 0 .. Len(places)
    BY <1>1, Zenon DEF Where
<1>5. pc \in {"plan", "write"} =>
        /\ item \in 1 .. Len(request.items)
        /\ Len(places) <= Len(Tree.nodes) /\ DOMAIN planned = {places[n] : n \in DOMAIN places}
    BY <1>1, <1>2, Zenon DEF Where, InItem
<1>6. /\ outer \in 0 .. Attempts /\ inner \in 0 .. Attempts
      /\ sent \in 0 .. MaxRequests /\ faults \in 0 .. MaxFaults /\ others \in 0 .. MaxOthers
    BY <1>1, Zenon DEF Counters
<1> QED BY <1>1, <1>3, <1>4, <1>5, <1>6, Zenon DEF TypeOK

\* Every variable has its type: a request that is worked on has an item, and what
\* is planned of it is at the places that the plan has chosen.
THEOREM TypeCorrect == Spec => []TypeOK
BY TypedHolds, TypedIsTypeOK, PTL

-----------------------------------------------------------------------------
(***************************************************************************)
(* The transaction                                                         *)
(***************************************************************************)

InTransaction == pc \in {"plan", "write", "commit"}

\* While it may still be told that its snapshot is outdated, the transaction has
\* written nothing; when it has written, nobody else has since it began.
Isolated ==
    /\ locked => InTransaction /\ db = snap
    /\ InTransaction /\ ~locked => work = snap /\ save = snap
    /\ pc # "write" => save = work
    /\ InTransaction /\ request.dry => ~locked
    /\ InTransaction /\ ~request.dry => preview = Nothing

LEMMA InitIsolated == Init => Isolated
BY Zenon DEF Init, Isolated, InTransaction

LEMMA IsolatedKept ==
    ASSUME Where, Isolated, [Next]_vars
    PROVE  Isolated'
<1> USE DEF Isolated, InTransaction, plan, tx, bounds
<1>0. pc \in {"idle", "begin", "plan", "write", "commit"}
    BY DEF Where
<1>1. CASE \E items \in Batches, dry \in BOOLEAN : Receive(items, dry)
    BY <1>1 DEF Receive
<1>2. CASE Begin
    BY <1>2 DEF Begin
<1>3. CASE RefuseInvalid \/ RefusePlan
    BY <1>3 DEF RefuseInvalid, RefusePlan, NextItem
<1>4. CASE Preview
    BY <1>4 DEF Preview, NextItem
<1>5. CASE KeepItem
    BY <1>5 DEF KeepItem, NextItem
<1>6. CASE PlanNode
    BY <1>6 DEF PlanNode
<1>7. CASE WriteNode
    BY <1>7 DEF WriteNode, Writing, CanWrite
<1>8. CASE WriteFails
  <2>1. /\ pc = "write" /\ ~request.dry /\ pc' \in {"plan", "commit"}
        /\ UNCHANGED <<db, snap, save, request, preview>> /\ work' = save
        /\ locked' \in {locked, CanWrite}
    BY <1>8 DEF WriteFails, Writing, NextItem
  <2>2. locked' => db = snap
    BY <2>1 DEF CanWrite
  <2>3. ~locked' => ~locked
    BY <2>1 DEF CanWrite
  <2> QED BY <2>1, <2>2, <2>3
<1>9. CASE RetryItem
    BY <1>9 DEF RetryItem
<1>10. CASE WriteBusy
    BY <1>10 DEF WriteBusy, Writing, RetryTransaction, GiveUp, EndRequest
<1>11. CASE CommitBusy
    BY <1>11 DEF CommitBusy, RetryTransaction, GiveUp, EndRequest
<1>12. CASE Commit \/ Abort \/ Crash
    BY <1>12 DEF Commit, Abort, Crash, EndRequest
<1>13. CASE OtherWrites
    BY <1>13 DEF OtherWrites
<1>14. CASE UNCHANGED vars
    BY <1>14 DEF vars
<1> QED BY <1>1, <1>2, <1>3, <1>4, <1>5, <1>6, <1>7, <1>8, <1>9, <1>10, <1>11, <1>12, <1>13, <1>14
        DEF Next, Step

-----------------------------------------------------------------------------
(***************************************************************************)
(* The plan of an item, and what has been written of it                    *)
(***************************************************************************)

\* A batch that is not a dry run has an item in hand.
Placing == InItem /\ ~request.dry

ParentAt(tree, at, n) == IF tree.nodes[n].up = 0 THEN tree.parent ELSE at[tree.nodes[n].up]

\* The row planned for node n is the node's, and continues the one there was.
NodeAt(tree, at, rows, before, n) ==
    LET node == tree.nodes[n]
        row  == rows[at[n]]
    IN  /\ node.id # None => at[n] = node.id
        /\ row.kind = node.kind /\ row.text = node.text
        /\ row.parent = ParentAt(tree, at, n)
        /\ at[n] \in DOMAIN before =>
             /\ before[at[n]].kind = node.kind /\ before[at[n]].parent = ParentAt(tree, at, n)
             /\ row.prov = Over(node.prov, before[at[n]].prov)
        /\ at[n] \notin DOMAIN before => row.prov = node.prov

Injective(s) == \A m, n \in DOMAIN s : s[m] = s[n] => m = n

PlannedWell ==
    Placing => /\ \A n \in DOMAIN places : NodeAt(Tree, places, planned, save.rows, n)
               /\ Injective(places)

\* What the transaction has made of the savepoint, when the first so many nodes
\* have been written.
WrittenTo(at, rows, n, before, after) ==
    /\ DOMAIN after.rows = DOMAIN before.rows \cup {at[k] : k \in 1 .. n}
    /\ \A k \in 1 .. n : after.rows[at[k]] = rows[at[k]]
    /\ \A i \in DOMAIN before.rows \ {at[k] : k \in 1 .. n} : after.rows[i] = before.rows[i]
    /\ IF n > 0 THEN after.lib = "named" ELSE after = before

WrittenInOrder == Placing => WrittenTo(places, planned, written, save, work)

\* What the plan looks at, without earlier items of a dry run.
LEMMA SeenHere ==
    ASSUME preview = Nothing
    PROVE  /\ DOMAIN Seen = DOMAIN planned \cup DOMAIN work.rows
           /\ \A i : i \in DOMAIN planned => Seen[i] = planned[i]
           /\ \A i : i \in DOMAIN work.rows /\ i \notin DOMAIN planned => Seen[i] = work.rows[i]
<1>1. PICK rows : rows = Over(preview, work.rows)
    OBVIOUS
<1>2. DOMAIN rows = DOMAIN work.rows /\ \A i \in DOMAIN work.rows : rows[i] = work.rows[i]
    BY <1>1, OverNothing
<1>3. Seen = Over(planned, rows)
    BY <1>1 DEF Seen
<1>4. Merged(Seen, planned, rows)
    BY <1>3, OverIs
<1> QED BY <1>2, <1>4 DEF Merged

Hit(rows, node, parent, i) == i \in DOMAIN rows /\ InScope(rows[i], node.kind, parent) /\ Shares(rows[i].prov, node.prov)

LEMMA ProviderMatches ==
    ASSUME NEW node, NEW parent, NEW i, preview = Nothing
    PROVE  i \in MatchesByProvider(node, parent) <=> Hit(work.rows, node, parent, i) \/ Hit(planned, node, parent, i)
BY NothingIs DEF MatchesByProvider, Hit

LEMMA FoundHere ==
    ASSUME NEW node, NEW parent, NEW i, preview = Nothing
    PROVE  Found(node, parent, i) = work.rows[i]
BY NothingIs DEF Found, Known

\* The row that a node is planned to be is its own, or the only one known by its providers.
LEMMA Plans ==
    ASSUME preview = Nothing, NEW id, Plannable(id),
           NEW node, node = Tree.nodes[Depth], NEW parent, parent = ParentOf(Depth)
    PROVE  /\ id \notin DOMAIN planned
           /\ node.id # None => id = node.id
           /\ id \in DOMAIN work.rows => InScope(work.rows[id], node.kind, parent)
           /\ Matches(node, parent) = {} => id = IdOf(node, parent)
           /\ Matches(node, parent) # {} => Matches(node, parent) = {id}
<1>1. Resolves(node, parent, id) /\ id \notin DOMAIN planned
    BY DEF Plannable, Known
<1>2. PICK found, own : found = Matches(node, parent) /\ own = IdOf(node, parent)
    OBVIOUS
<1>3. /\ own \in DOMAIN Seen => InScope(Seen[own], node.kind, parent)
      /\ found = {} => id = own
      /\ found # {} => found = {id} /\ (node.id # None => id = node.id)
    BY <1>1, <1>2 DEF Resolves, Known
<1>4. node.id # None => own = node.id
    BY <1>2 DEF IdOf
<1>5. ASSUME id \in DOMAIN work.rows
      PROVE  InScope(work.rows[id], node.kind, parent)
  <2>1. id \in DOMAIN Seen /\ Seen[id] = work.rows[id]
    BY <1>1, <1>5, SeenHere
  <2>2. CASE id = own
    BY <1>3, <2>1, <2>2
  <2>3. CASE id # own
    <3>1. found = {id}
      BY <1>3, <2>3
    <3>2. id \in MatchesByProvider(node, parent)
      BY <1>2, <2>3, <3>1 DEF Matches
    <3>3. Hit(work.rows, node, parent, id) \/ Hit(planned, node, parent, id)
      BY <3>2, ProviderMatches
    <3> QED BY <1>1, <3>3 DEF Hit
  <2> QED BY <2>2, <2>3
<1> QED BY <1>1, <1>2, <1>3, <1>4, <1>5

LEMMA PlannedRowIs ==
    ASSUME preview = Nothing, NEW id, NEW node, NEW parent, NEW row,
           id \notin DOMAIN planned, row = RowFor(node, parent, id)
    PROVE  /\ row.kind = node.kind /\ row.text = node.text /\ row.parent = parent
           /\ id \in DOMAIN work.rows => row.prov = Over(node.prov, work.rows[id].prov)
           /\ id \notin DOMAIN work.rows => row.prov = node.prov
<1>1. id \in DOMAIN Seen <=> id \in DOMAIN work.rows
    BY SeenHere
<1>2. Found(node, parent, id) = work.rows[id]
    BY FoundHere
<1> QED BY <1>1, <1>2 DEF RowFor, Known

LEMMA NodeStays ==
    ASSUME NEW tree, NEW at, NEW more, NEW rows, NEW rows2, NEW before, NEW n, NEW id, NEW row, NEW N \in Nat,
           n \in 1 .. N, tree.nodes[n].up = 0 \/ tree.nodes[n].up \in 1 .. n - 1,
           \A k \in 1 .. N : more[k] = at[k],
           Grown(rows2, rows, id, row), id \notin DOMAIN rows, at[n] \in DOMAIN rows,
           NodeAt(tree, at, rows, before, n)
    PROVE  NodeAt(tree, more, rows2, before, n)
<1>1. more[n] = at[n] /\ rows2[at[n]] = rows[at[n]]
    BY DEF Grown
<1>2. ParentAt(tree, more, n) = ParentAt(tree, at, n)
  <2>1. CASE tree.nodes[n].up = 0
    BY <2>1 DEF ParentAt
  <2>2. CASE tree.nodes[n].up \in 1 .. n - 1
    <3>1. more[tree.nodes[n].up] = at[tree.nodes[n].up]
      BY <2>2
    <3> QED BY <2>2, <3>1 DEF ParentAt
  <2> QED BY <2>1, <2>2
<1> QED BY <1>1, <1>2 DEF NodeAt

LEMMA PlanPlaces ==
    ASSUME Where, Isolated, PlannedWell, PlanNode
    PROVE  PlannedWell'
<1> SUFFICES ASSUME Placing'
             PROVE  /\ \A n \in DOMAIN places' : NodeAt(Tree, places, planned, save.rows, n)'
                    /\ Injective(places')
    BY DEF PlannedWell
<1>1. pc = "plan" /\ UNCHANGED <<request, item, save, work, preview>>
    BY DEF PlanNode, tx
<1>2. Placing /\ Tree' = Tree
    BY <1>1 DEF Placing, InItem, Tree
<1>3. preview = Nothing /\ save = work
    BY <1>1, <1>2 DEF Isolated, InTransaction, Placing
<1>4. PICK id : /\ Plannable(id) /\ places' = Append(places, id)
                /\ planned' = With(planned, id, RowFor(Tree.nodes[Depth], ParentOf(Depth), id))
    BY PlannedRow
<1>5. PICK node, parent, row : /\ node = Tree.nodes[Depth] /\ parent = ParentOf(Depth)
                               /\ row = RowFor(node, parent, id)
    OBVIOUS
<1>6. PICK N : N = Len(places)
    OBVIOUS
<1>7. /\ N \in Nat /\ DOMAIN places = 1 .. N /\ Depth = N + 1 /\ Depth \in DOMAIN Tree.nodes
      /\ IsTree(Tree.nodes)
    BY <1>1, <1>6, DepthIsNode
<1>8. /\ DOMAIN places' = 1 .. N + 1 /\ places'[N + 1] = id
      /\ \A n \in 1 .. N : places'[n] = places[n]
    BY <1>4, <1>6, Appended DEF Where
<1>9. Grown(planned', planned, id, row)
  <2>1. planned' = With(planned, id, row)
    BY <1>4, <1>5
  <2> QED BY <2>1, OneMore
<1>10. /\ id \notin DOMAIN planned
       /\ node.id # None => id = node.id
       /\ id \in DOMAIN work.rows => InScope(work.rows[id], node.kind, parent)
    BY <1>3, <1>4, <1>5, Plans
<1>11. /\ row.kind = node.kind /\ row.text = node.text /\ row.parent = parent
       /\ id \in DOMAIN work.rows => row.prov = Over(node.prov, work.rows[id].prov)
       /\ id \notin DOMAIN work.rows => row.prov = node.prov
    BY <1>3, <1>5, <1>10, PlannedRowIs
<1>12. \A n \in 1 .. N : places[n] \in DOMAIN planned
    BY <1>6, Elements DEF Where
<1>13. ASSUME NEW n \in 1 .. N
       PROVE  NodeAt(Tree, places', planned', save.rows, n)
  <2>1. n \in DOMAIN Tree.nodes
    BY <1>7, TreeNodes
  <2>2. Tree.nodes[n].up = 0 \/ Tree.nodes[n].up \in 1 .. n - 1
    BY <1>7, <2>1, TreeNodes
  <2>3. NodeAt(Tree, places, planned, save.rows, n)
    BY <1>2, <1>7 DEF PlannedWell
  <2> QED BY <1>7, <1>8, <1>9, <1>10, <1>12, <2>2, <2>3, NodeStays
<1>14. NodeAt(Tree, places', planned', save.rows, N + 1)
  <2>1. planned'[id] = row
    BY <1>9 DEF Grown
  <2>2. node.up = 0 \/ node.up \in 1 .. N
    BY <1>5, <1>7, TreeNodes
  <2>3. ParentAt(Tree, places', N + 1) = parent
    <3>1. parent = IF node.up = 0 THEN Tree.parent ELSE places[node.up]
      BY <1>5 DEF ParentOf
    <3>2. node = Tree.nodes[N + 1]
      BY <1>5, <1>7
    <3> QED BY <1>8, <2>2, <3>1, <3>2 DEF ParentAt
  <2>4. node = Tree.nodes[N + 1]
    BY <1>5, <1>7
  <2> QED BY <1>3, <1>8, <1>10, <1>11, <2>1, <2>3, <2>4 DEF NodeAt, InScope
<1>15. Injective(places')
  <2>1. Injective(places)
    BY <1>2 DEF PlannedWell
  <2> SUFFICES ASSUME NEW m \in 1 .. N + 1, NEW n \in 1 .. N + 1, places'[m] = places'[n]
               PROVE  m = n
    BY <1>8 DEF Injective
  <2>2. CASE m \in 1 .. N /\ n \in 1 .. N
    BY <1>7, <1>8, <2>1, <2>2 DEF Injective
  <2>3. CASE m = N + 1 \/ n = N + 1
    BY <1>7, <1>8, <1>10, <1>12, <2>3
  <2> QED BY <1>7, <2>2, <2>3
<1>16. ASSUME NEW n \in DOMAIN places'
       PROVE  NodeAt(Tree, places', planned', save.rows, n)
  <2>1. n \in 1 .. N \/ n = N + 1
    BY <1>7, <1>8
  <2> QED BY <1>13, <1>14, <2>1
<1> QED BY <1>1, <1>2, <1>15, <1>16

Drafted == PlannedWell /\ WrittenInOrder

\* An item that is taken up is not planned yet.
LEMMA FreshDraft ==
    ASSUME NewItem, save' = work'
    PROVE  Drafted'
<1>1. places' = <<>> /\ written' = 0 /\ DOMAIN places' = {}
    BY DEF NewItem
<1>2. PlannedWell'
    BY <1>1 DEF PlannedWell, Injective
<1>3. {places'[k] : k \in 1 .. written'} = {}
    BY <1>1
<1>4. WrittenInOrder'
    BY <1>1, <1>3 DEF WrittenInOrder, WrittenTo
<1> QED BY <1>2, <1>4 DEF Drafted

LEMMA NoDraft ==
    ASSUME pc' \notin {"plan", "write"}
    PROVE  Drafted'
BY DEF Drafted, PlannedWell, WrittenInOrder, Placing, InItem

LEMMA SameDraft ==
    ASSUME Drafted, InItem, UNCHANGED <<request, item, places, planned, written, work, save>>
    PROVE  Drafted'
BY DEF Drafted, PlannedWell, WrittenInOrder, Placing, InItem, Tree, NodeAt, ParentAt, WrittenTo, Injective

\* One node more is written.
LEMMA OneMoreWritten ==
    ASSUME NEW at, NEW rows, NEW n \in Nat, NEW before, NEW after, NEW later, NEW id, NEW d, NEW N \in Nat,
           WrittenTo(at, rows, n, before, after),
           n < N, \A k, m \in 1 .. N : at[k] = at[m] => k = m,
           id = at[n + 1], Grown(d, after.rows, id, rows[id]),
           later = [lib |-> "named", rows |-> d]
    PROVE  WrittenTo(at, rows, n + 1, before, later)
<1>1. later.rows = d /\ later.lib = "named"
    OBVIOUS
<1>2. {at[k] : k \in 1 .. n + 1} = {at[k] : k \in 1 .. n} \cup {id}
  <2>1. 1 .. n + 1 = 1 .. n \cup {n + 1}
    OBVIOUS
  <2> QED BY <2>1
<1>3. DOMAIN d = DOMAIN before.rows \cup {at[k] : k \in 1 .. n + 1}
    BY <1>2 DEF WrittenTo, Grown
<1>4. ASSUME NEW k \in 1 .. n + 1
      PROVE  d[at[k]] = rows[at[k]]
  <2>1. CASE k = n + 1
    BY <2>1 DEF Grown
  <2>2. CASE k \in 1 .. n
    <3>1. at[k] # id
      BY <2>2
    <3>2. at[k] \in DOMAIN after.rows /\ after.rows[at[k]] = rows[at[k]]
      BY <2>2 DEF WrittenTo
    <3> QED BY <3>1, <3>2 DEF Grown
  <2> QED BY <2>1, <2>2
<1>5. ASSUME NEW i \in DOMAIN before.rows \ {at[k] : k \in 1 .. n + 1}
      PROVE  d[i] = before.rows[i]
  <2>1. i # id /\ i \in DOMAIN before.rows \ {at[k] : k \in 1 .. n}
    BY <1>2
  <2>2. i \in DOMAIN after.rows /\ after.rows[i] = before.rows[i]
    BY <2>1 DEF WrittenTo
  <2> QED BY <2>1, <2>2 DEF Grown
<1> QED BY <1>1, <1>3, <1>4, <1>5 DEF WrittenTo

LEMMA DraftedKept ==
    ASSUME Where, Isolated, Isolated', Drafted, [Next]_vars
    PROVE  Drafted'
<1> USE DEF plan, tx, bounds
<1>0. pc \in {"idle", "begin", "plan", "write", "commit"}
    BY DEF Where
<1>1. CASE \E items \in Batches, dry \in BOOLEAN : Receive(items, dry)
    BY <1>1, NoDraft DEF Receive
<1>2. CASE Begin
    BY <1>2, FreshDraft DEF Begin
<1>3. CASE RefuseInvalid \/ RefusePlan \/ Preview \/ KeepItem \/ WriteFails
  <2>1. NewItem /\ pc' # "write"
    BY <1>3 DEF RefuseInvalid, RefusePlan, Preview, KeepItem, WriteFails, NextItem
  <2>2. save' = work'
    BY <2>1 DEF Isolated
  <2> QED BY <2>1, <2>2, FreshDraft
<1>4. CASE PlanNode
  <2>1. PlannedWell'
    BY <1>4, PlanPlaces DEF Drafted
  <2>2. pc = "plan" /\ UNCHANGED <<written, request, item, save, work>>
    BY <1>4 DEF PlanNode
  <2>3. written' = 0 /\ save' = work'
    BY <2>2 DEF Isolated, Where
  <2>4. {places'[k] : k \in 1 .. written'} = {}
    BY <2>3
  <2>5. WrittenInOrder'
    BY <2>3, <2>4 DEF WrittenInOrder, WrittenTo
  <2> QED BY <2>1, <2>5 DEF Drafted
<1>5. CASE WriteNode
  <2>1. PICK id : /\ id = places[written + 1]
                  /\ work' = [lib |-> "named", rows |-> With(work.rows, id, planned[id])]
    BY <1>5 DEF WriteNode, With
  <2>2. /\ UNCHANGED <<pc, request, item, places, planned, save>> /\ written' = written + 1
        /\ pc = "write" /\ ~request.dry /\ written < Len(places)
    BY <1>5 DEF WriteNode, Writing
  <2>3. Placing /\ Tree' = Tree
    BY <2>2 DEF Placing, InItem, Tree
  <2>4. PICK N \in Nat : N = Len(places) /\ DOMAIN places = 1 .. N /\ written \in 0 .. N
    BY Elements DEF Where
  <2>5. PlannedWell'
    BY <2>2, <2>3 DEF Drafted, PlannedWell
  <2>6. PICK d : d = With(work.rows, id, planned[id])
    OBVIOUS
  <2>7. Grown(d, work.rows, id, planned[id]) /\ work' = [lib |-> "named", rows |-> d]
    BY <2>1, <2>6, OneMore
  <2>8. \A k, m \in 1 .. N : places[k] = places[m] => k = m
    BY <2>3, <2>4 DEF Drafted, PlannedWell, Injective
  <2>9. WrittenTo(places, planned, written, save, work)
    BY <2>3 DEF Drafted, WrittenInOrder
  <2>10. written \in Nat /\ written < N
    BY <2>2, <2>4
  <2>11. WrittenTo(places, planned, written + 1, save, work')
    BY <2>1, <2>4, <2>7, <2>8, <2>9, <2>10, OneMoreWritten
  <2> QED BY <2>2, <2>5, <2>11 DEF Drafted, WrittenInOrder
<1>6. CASE RetryItem
    BY <1>6, SameDraft DEF RetryItem, Writing, InItem
<1>7. CASE WriteBusy \/ CommitBusy \/ Commit \/ Abort \/ Crash
  <2>1. pc' \in {"begin", "idle"}
    BY <1>7 DEF WriteBusy, CommitBusy, Commit, Abort, Crash, RetryTransaction, GiveUp, EndRequest
  <2> QED BY <2>1, NoDraft
<1>8. CASE OtherWrites
  <2>1. UNCHANGED <<pc, request, item, places, planned, written>>
        /\ (pc # "idle" => UNCHANGED <<work, save>>)
    BY <1>8 DEF OtherWrites
  <2> QED BY <1>0, <2>1, NoDraft, SameDraft DEF InItem
<1>9. CASE UNCHANGED vars
    BY <1>0, <1>9, NoDraft, SameDraft DEF vars, InItem
<1> QED BY <1>1, <1>2, <1>3, <1>4, <1>5, <1>6, <1>7, <1>8, <1>9 DEF Next, Step

LEMMA InitDrafted == Init => Drafted
BY DEF Init, Drafted, PlannedWell, WrittenInOrder, Placing, InItem

-----------------------------------------------------------------------------
(***************************************************************************)
(* An import takes effect as ImportLedger says                             *)
(***************************************************************************)

Draft == IF pc = "write" THEN save ELSE work

\* What the ledger sees of a step that does not change it.
Unseen == UNCHANGED <<db, request, snap, Draft, item, response.imported, answer>>

LEMMA UnseenStutters == Unseen => UNCHANGED Ledger!lvars
BY DEF Unseen, Draft, Ledger!lvars

LEMMA SameOver ==
    ASSUME NEW f, NEW g
    PROVE  Ledger!Over(f, g) = Over(f, g)
BY DEF Over, Ledger!Over

\* An item of which every node is written is placed.
LEMMA WrittenIsPlaced ==
    ASSUME NEW tree, NEW at, NEW rows, NEW before, NEW after, NEW N \in Nat \ {0},
           DOMAIN tree.nodes = 1 .. N, at \in [1 .. N -> DOMAIN rows],
           \A n \in 1 .. N : NodeAt(tree, at, rows, before.rows, n),
           Injective(at), WrittenTo(at, rows, N, before, after)
    PROVE  Ledger!Placed(tree, before, after)
<1>1. /\ DOMAIN after.rows = DOMAIN before.rows \cup {at[k] : k \in 1 .. N}
      /\ \A k \in 1 .. N : after.rows[at[k]] = rows[at[k]]
      /\ \A i \in DOMAIN before.rows \ {at[k] : k \in 1 .. N} : after.rows[i] = before.rows[i]
      /\ after.lib = "named"
    BY DEF WrittenTo
<1>2. at \in [DOMAIN tree.nodes -> DOMAIN after.rows]
  <2>1. \A k \in 1 .. N : at[k] \in DOMAIN after.rows
    BY <1>1
  <2> QED BY <2>1
<1>3. \A m, n \in DOMAIN tree.nodes : at[m] = at[n] => m = n
    BY DEF Injective
<1>4. ASSUME NEW n \in DOMAIN tree.nodes
      PROVE  LET node == tree.nodes[n]
                 row  == after.rows[at[n]]
             IN  /\ node.id # None => at[n] = node.id
                 /\ row.kind = node.kind /\ row.text = node.text
                 /\ row.parent = IF node.up = 0 THEN tree.parent ELSE at[node.up]
                 /\ IF at[n] \in DOMAIN before.rows
                    THEN LET old == before.rows[at[n]] IN
                         /\ old.kind = row.kind /\ old.parent = row.parent
                         /\ row.prov = Ledger!Over(node.prov, old.prov)
                    ELSE row.prov = node.prov
  <2>1. NodeAt(tree, at, rows, before.rows, n) /\ after.rows[at[n]] = rows[at[n]]
    BY <1>1
  <2>2. Ledger!Over(tree.nodes[n].prov, before.rows[at[n]].prov) = Over(tree.nodes[n].prov, before.rows[at[n]].prov)
    BY SameOver
  <2> QED BY <2>1, <2>2 DEF NodeAt, ParentAt
<1>5. Ledger!PlacedAt(tree, at, before, after)
    BY <1>1, <1>3, <1>4 DEF Ledger!PlacedAt
<1> QED BY <1>2, <1>5 DEF Ledger!Placed

LEMMA KeepRefines ==
    ASSUME Where, Counters, Isolated, Isolated', Drafted, KeepItem
    PROVE  Ledger!Next
<1>1. /\ pc = "write" /\ ~request.dry /\ written = Len(places) /\ save' = work
      /\ response' = [response EXCEPT !.imported = @ + 1] /\ NextItem
      /\ UNCHANGED <<db, request, snap, work, answer>>
    BY DEF KeepItem
<1>2. /\ request # None /\ item \in 1 .. Len(request.items) /\ InItem
      /\ IsTree(Tree.nodes) /\ Len(Tree.nodes) \in Nat \ {0}
    BY <1>1, TreeInHand DEF InItem
<1>3. PICK N \in Nat \ {0} : N = Len(Tree.nodes) /\ N = Len(places) /\ DOMAIN Tree.nodes = 1 .. N
    BY <1>1, <1>2, Whole DEF IsTree, Where
<1>4. places \in [1 .. N -> DOMAIN planned] /\ DOMAIN places = 1 .. N
    BY <1>3, Elements DEF Where
<1>5. Placing
    BY <1>1, <1>2 DEF Placing
<1>6. /\ \A n \in 1 .. N : NodeAt(Tree, places, planned, save.rows, n)
      /\ Injective(places) /\ WrittenTo(places, planned, N, save, work)
    BY <1>1, <1>3, <1>4, <1>5 DEF Drafted, PlannedWell, WrittenInOrder
<1>7. Ledger!Placed(Tree, save, work)
    BY <1>3, <1>4, <1>6, WrittenIsPlaced
<1>8. item' = item + 1 /\ response'.imported = response.imported + 1 /\ pc' # "write"
    BY <1>1 DEF NextItem, Counters
<1>9. Ledger!Placed(request.items[item], save, work')
    BY <1>1, <1>7 DEF Tree
<1>10. Ledger!Take
    BY <1>1, <1>2, <1>8, <1>9 DEF Ledger!Take, Ledger!Pending
<1> QED BY <1>10 DEF Ledger!Next

LEMMA PreviewRefines ==
    ASSUME Where, Counters, Isolated, Preview
    PROVE  Ledger!Next
<1>1. /\ pc = "write" /\ request.dry /\ pc' # "write"
      /\ item' = item + 1 /\ response'.imported = response.imported + 1
      /\ UNCHANGED <<db, request, snap, work, save, locked, answer>>
    BY DEF Preview, NextItem, Counters
<1>2. request # None /\ item \in 1 .. Len(request.items)
    BY <1>1, TreeInHand DEF InItem
<1>3. save = work
    BY <1>1 DEF Isolated, InTransaction
<1>4. Ledger!Take
    BY <1>1, <1>2, <1>3 DEF Ledger!Take, Ledger!Pending
<1> QED BY <1>4 DEF Ledger!Next

LEMMA RefuseRefines ==
    ASSUME Where, Counters, Isolated, RefuseInvalid \/ RefusePlan \/ WriteFails
    PROVE  Ledger!Next
<1>1. /\ InItem /\ pc' # "write" /\ item' = item + 1
      /\ CountError /\ UNCHANGED <<db, request, snap, answer>>
      /\ work' = Draft
    BY DEF RefuseInvalid, RefusePlan, WriteFails, Writing, InItem, NextItem, Draft
<1>2. response'.imported = response.imported
    BY <1>1 DEF CountError, Counters
<1>3. request # None /\ item \in 1 .. Len(request.items)
    BY <1>1, TreeInHand
<1>4. Ledger!Refuse
    BY <1>1, <1>2, <1>3 DEF Ledger!Refuse, Ledger!Pending, Draft
<1> QED BY <1>4 DEF Ledger!Next

LEMMA ReceiveRefines ==
    ASSUME Where, NEW items \in Batches, NEW dry \in BOOLEAN, Receive(items, dry)
    PROVE  Ledger!Next
<1>1. /\ request = None /\ request' = [items |-> items, dry |-> dry] /\ answer' = None /\ item' = 0
      /\ pc = "idle" /\ pc' = "begin" /\ UNCHANGED <<db, snap, work, save, response>>
    BY DEF Where, Receive, tx
<1>2. Ledger!Receive
    BY <1>1 DEF Ledger!Receive
<1> QED BY <1>2 DEF Ledger!Next

LEMMA BeginRefines ==
    ASSUME Where, Begin
    PROVE  Ledger!Next
<1>1. Ledger!Begin
    BY DEF Where, Begin, Ledger!Begin
<1> QED BY <1>1 DEF Ledger!Next

LEMMA CommitRefines ==
    ASSUME Where, Isolated, Commit
    PROVE  Ledger!Next
<1>1. /\ pc = "commit" /\ db' = IF locked THEN work ELSE db
      /\ answer' \in {response.imported, None} /\ EndRequest
    BY DEF Commit
<1>2. request # None /\ item = Len(request.items) + 1
    BY <1>1 DEF Where
<1>3. locked => db = snap
    BY DEF Isolated
<1>4. ~locked => work = snap
    BY <1>1 DEF Isolated, InTransaction
<1>5. db' = (IF work = snap THEN db ELSE work) /\ (work # snap => db = snap)
    BY <1>1, <1>3, <1>4
<1>6. Ledger!Commit
    BY <1>1, <1>2, <1>5 DEF Ledger!Commit, EndRequest
<1> QED BY <1>6 DEF Ledger!Next

\* The request comes to nothing.
LEMMA AbandonRefines ==
    ASSUME Where, Busy, EndRequest, answer' \in {Failed, None}, UNCHANGED db
    PROVE  Ledger!Next
<1>1. Ledger!Abandon
    BY DEF Where, Busy, EndRequest, Ledger!Abandon
<1> QED BY <1>1 DEF Ledger!Next

LEMMA RetryIsUnseen ==
    ASSUME Isolated, pc = "commit" \/ (pc = "write" /\ ~locked), RetryTransaction, UNCHANGED db
    PROVE  Unseen
BY DEF RetryTransaction, Unseen, Draft, Isolated, InTransaction

LEMMA PlanIsUnseen ==
    ASSUME Isolated, PlanNode
    PROVE  Unseen
BY DEF PlanNode, Unseen, Draft, Isolated, InTransaction, tx

LEMMA WriteIsUnseen ==
    ASSUME WriteNode \/ RetryItem
    PROVE  Unseen
BY DEF WriteNode, RetryItem, Writing, Unseen, Draft, tx

LEMMA ElsewhereRefines ==
    ASSUME Where, Isolated, Catalogued, OtherWrites
    PROVE  Ledger!Next
<1>1. Reduced(db, db')
    BY OthersReduce DEF Catalogued
<1>2. /\ db' # db /\ DOMAIN db'.rows \subseteq DOMAIN db.rows
      /\ \A i \in DOMAIN db'.rows : db'.rows[i] = db.rows[i]
    BY <1>1 DEF Reduced
<1>3. /\ UNCHANGED <<pc, request, item, response, answer>>
      /\ IF pc = "idle" THEN snap' = db' /\ work' = db' /\ save' = db'
                        ELSE UNCHANGED <<snap, work, save>>
    BY DEF OtherWrites
<1>4. pc = "idle" <=> request = None
    BY DEF Where
<1>5. Ledger!Elsewhere
    BY <1>2, <1>3, <1>4 DEF Ledger!Elsewhere
<1> QED BY <1>5 DEF Ledger!Next

LEMMA InitRefines == Init => Ledger!Init
BY DEF Init, Ledger!Init

LEMMA NextRefines ==
    Typed /\ Isolated /\ Isolated' /\ Drafted /\ [Next]_vars => [Ledger!Next]_(Ledger!lvars)
<1> SUFFICES ASSUME Typed, Isolated, Isolated', Drafted, [Next]_vars
             PROVE  Ledger!Next \/ UNCHANGED Ledger!lvars
    OBVIOUS
<1>0. Where /\ Counters /\ Catalogued
    BY Zenon DEF Typed
<1>1. CASE \E items \in Batches, dry \in BOOLEAN : Receive(items, dry)
    BY <1>0, <1>1, ReceiveRefines
<1>2. CASE Begin
    BY <1>0, <1>2, BeginRefines
<1>3. CASE RefuseInvalid \/ RefusePlan \/ WriteFails
    BY <1>0, <1>3, RefuseRefines
<1>4. CASE Preview
    BY <1>0, <1>4, PreviewRefines
<1>5. CASE KeepItem
    BY <1>0, <1>5, KeepRefines
<1>6. CASE PlanNode \/ WriteNode \/ RetryItem
    BY <1>6, PlanIsUnseen, WriteIsUnseen, UnseenStutters
<1>7. CASE WriteBusy \/ CommitBusy
  <2>1. /\ pc = "commit" \/ (pc = "write" /\ ~locked)
        /\ UNCHANGED db
        /\ RetryTransaction \/ GiveUp
    BY <1>7 DEF WriteBusy, CommitBusy, Writing
  <2>2. CASE RetryTransaction
    BY <2>1, <2>2, RetryIsUnseen, UnseenStutters
  <2>3. CASE GiveUp
    <3>1. Busy /\ EndRequest /\ answer' \in {Failed, None}
      BY <2>1, <2>3 DEF GiveUp, Busy
    <3> QED BY <1>0, <2>1, <3>1, AbandonRefines
  <2> QED BY <2>1, <2>2, <2>3
<1>8. CASE Commit
    BY <1>0, <1>8, CommitRefines
<1>9. CASE Abort \/ Crash
  <2>1. Busy /\ EndRequest /\ answer' \in {Failed, None} /\ UNCHANGED db
    BY <1>9 DEF Abort, Crash, Busy
  <2> QED BY <1>0, <2>1, AbandonRefines
<1>10. CASE OtherWrites
    BY <1>0, <1>10, ElsewhereRefines
<1>11. CASE UNCHANGED vars
    BY <1>11, UnseenStutters DEF vars, tx, Unseen, Draft
<1> QED BY <1>1, <1>2, <1>3, <1>4, <1>5, <1>6, <1>7, <1>8, <1>9, <1>10, <1>11 DEF Next, Step

\* What the transaction can rely on and what it has made.
Transacted == Typed /\ Isolated /\ Drafted

LEMMA TransactedHolds == Spec => []Transacted
<1>1. Init => Transacted
    BY InitTyped, InitIsolated, InitDrafted, Zenon DEF Transacted
<1>2. Transacted /\ [Next]_vars => Transacted'
  <2> SUFFICES ASSUME Transacted, [Next]_vars
               PROVE  Transacted'
      OBVIOUS
  <2>1. Where /\ Typed /\ Isolated /\ Drafted
    BY Zenon DEF Transacted, Typed
  <2>2. Typed'
    BY <2>1, TypedKept
  <2>3. Isolated'
    BY <2>1, IsolatedKept
  <2>4. Drafted'
    BY <2>1, <2>3, DraftedKept
  <2> QED BY <2>2, <2>3, <2>4, Zenon DEF Transacted
<1> QED BY <1>1, <1>2, PTL DEF Spec

\* An import takes effect at once, as its savepoints have made it, item by item as a
\* whole or not at all, in spite of statements that fail, retries, crashes and the
\* writes of others; and the answer counts the items that took effect.
THEOREM Refinement == Spec => ImplementsLedger
<1>1. Transacted /\ Transacted' /\ [Next]_vars => [Ledger!Next]_(Ledger!lvars)
    BY NextRefines, Zenon DEF Transacted
<1> QED BY <1>1, InitRefines, TransactedHolds, PTL DEF Spec, ImplementsLedger, Ledger!Spec

-----------------------------------------------------------------------------
(***************************************************************************)
(* Rows of one place and kind are known by different providers             *)
(***************************************************************************)

LEMMA SharesBack ==
    ASSUME NEW p, NEW q, Shares(p, q)
    PROVE  Shares(q, p)
BY DEF Shares

LEMMA ApartBack ==
    ASSUME NEW row, NEW other, Apart(row, other)
    PROVE  Apart(other, row)
BY SharesBack DEF Apart, InScope

\* A planned row shares nothing with a row of its place that the node does not match,
\* if the row it continues does not.
LEMMA RowApart ==
    ASSUME NEW node, NEW parent, NEW row, NEW other, NEW old,
           row.kind = node.kind, row.parent = parent,
           \/ row.prov = node.prov
           \/ /\ row.prov = Over(node.prov, old.prov)
              /\ InScope(old, node.kind, parent) /\ Apart(old, other),
           ~(InScope(other, node.kind, parent) /\ Shares(other.prov, node.prov))
    PROVE  Apart(row, other)
<1> SUFFICES ASSUME InScope(row, other.kind, other.parent), Shares(row.prov, other.prov)
             PROVE  FALSE
    BY DEF Apart
<1>1. node.kind = other.kind /\ parent = other.parent
    BY DEF InScope
<1>2. ~Shares(other.prov, node.prov)
    BY <1>1 DEF InScope
<1>3. PICK k : k \in DOMAIN row.prov /\ k \in DOMAIN other.prov /\ row.prov[k] = other.prov[k]
    BY DEF Shares
<1>4. CASE row.prov = node.prov
    BY <1>2, <1>3, <1>4 DEF Shares
<1>5. CASE /\ row.prov = Over(node.prov, old.prov)
           /\ InScope(old, node.kind, parent) /\ Apart(old, other)
  <2>1. Merged(row.prov, node.prov, old.prov)
    BY <1>5, OverIs
  <2>2. CASE k \in DOMAIN node.prov
    <3>1. row.prov[k] = node.prov[k]
      BY <2>1, <2>2 DEF Merged
    <3> QED BY <1>2, <1>3, <2>2, <3>1 DEF Shares
  <2>3. CASE k \notin DOMAIN node.prov
    <3>1. k \in DOMAIN old.prov /\ row.prov[k] = old.prov[k]
      BY <1>3, <2>1, <2>3 DEF Merged
    <3>2. Shares(old.prov, other.prov)
      BY <1>3, <3>1 DEF Shares
    <3>3. InScope(old, other.kind, other.parent)
      BY <1>1, <1>5
    <3> QED BY <1>5, <3>2, <3>3 DEF Apart
  <2> QED BY <2>2, <2>3
<1> QED BY <1>4, <1>5

\* What is planned may be written in any order: each planned row is apart from the
\* others, written or planned.
PlannedApart ==
    Placing => \A i, j : i \in DOMAIN planned /\ i # j =>
        /\ j \in DOMAIN planned => Apart(planned[i], planned[j])
        /\ j \in DOMAIN work.rows => Apart(planned[i], work.rows[j])

Separate ==
    /\ Unambiguous(db.rows) /\ Unambiguous(work.rows) /\ Unambiguous(save.rows)
    /\ PlannedApart

LEMMA NewRowApart ==
    ASSUME Where, Isolated, Separate, Placing, pc = "plan",
           NEW id, Plannable(id), NEW row, row = RowFor(Tree.nodes[Depth], ParentOf(Depth), id),
           NEW j, j # id, NEW other,
           (j \in DOMAIN work.rows /\ other = work.rows[j]) \/ (j \in DOMAIN planned /\ other = planned[j])
    PROVE  Apart(row, other)
<1>1. PICK node, parent : node = Tree.nodes[Depth] /\ parent = ParentOf(Depth) /\ row = RowFor(node, parent, id)
    OBVIOUS
<1>2. preview = Nothing
    BY DEF Isolated, InTransaction, Placing
<1>3. /\ id \notin DOMAIN planned
      /\ id \in DOMAIN work.rows => InScope(work.rows[id], node.kind, parent)
      /\ Matches(node, parent) # {} => Matches(node, parent) = {id}
    BY <1>1, <1>2, Plans
<1>4. /\ row.kind = node.kind /\ row.parent = parent
      /\ id \in DOMAIN work.rows => row.prov = Over(node.prov, work.rows[id].prov)
      /\ id \notin DOMAIN work.rows => row.prov = node.prov
    BY <1>1, <1>2, <1>3, PlannedRowIs
<1>5. ~(InScope(other, node.kind, parent) /\ Shares(other.prov, node.prov))
  <2> SUFFICES ASSUME InScope(other, node.kind, parent), Shares(other.prov, node.prov)
               PROVE  FALSE
      OBVIOUS
  <2>1. Hit(work.rows, node, parent, j) \/ Hit(planned, node, parent, j)
    BY DEF Hit
  <2>2. j \in MatchesByProvider(node, parent)
    BY <1>2, <2>1, ProviderMatches
  <2>3. j \in Matches(node, parent)
    BY <2>2 DEF Matches
  <2> QED BY <1>3, <2>3
<1>6. ASSUME id \in DOMAIN work.rows
      PROVE  Apart(work.rows[id], other)
  <2>1. CASE j \in DOMAIN work.rows /\ other = work.rows[j]
    BY <1>6, <2>1 DEF Separate, Unambiguous
  <2>2. CASE j \in DOMAIN planned /\ other = planned[j]
    <3>1. Apart(planned[j], work.rows[id])
      BY <1>6, <2>2 DEF Separate, PlannedApart
    <3> QED BY <2>2, <3>1, ApartBack
  <2> QED BY <2>1, <2>2
<1>7. PICK old : old = work.rows[id]
    OBVIOUS
<1>8. \/ row.prov = node.prov
      \/ /\ row.prov = Over(node.prov, old.prov)
         /\ InScope(old, node.kind, parent) /\ Apart(old, other)
    BY <1>3, <1>4, <1>6, <1>7
<1> QED BY <1>4, <1>5, <1>8, RowApart

LEMMA PlanSeparates ==
    ASSUME Where, Isolated, Separate, PlanNode
    PROVE  Separate'
<1>1. pc = "plan" /\ UNCHANGED <<db, request, work, save>> /\ pc' \in {"plan", "write"}
    BY DEF PlanNode, tx
<1>2. ASSUME Placing', NEW i, NEW j, i \in DOMAIN planned', i # j
      PROVE  /\ j \in DOMAIN planned' => Apart(planned'[i], planned'[j])
             /\ j \in DOMAIN work.rows => Apart(planned'[i], work.rows[j])
  <2>1. Placing
    BY <1>1, <1>2 DEF Placing, InItem
  <2>2. PICK id : /\ Plannable(id)
                  /\ planned' = With(planned, id, RowFor(Tree.nodes[Depth], ParentOf(Depth), id))
    BY PlannedRow
  <2>3. PICK row : row = RowFor(Tree.nodes[Depth], ParentOf(Depth), id)
    OBVIOUS
  <2>4. Grown(planned', planned, id, row)
    <3>1. planned' = With(planned, id, row)
      BY <2>2, <2>3
    <3> QED BY <3>1, OneMore
  <2>5. ASSUME NEW m, m # id
        PROVE  /\ m \in DOMAIN work.rows => Apart(row, work.rows[m])
               /\ m \in DOMAIN planned => Apart(row, planned[m])
    BY <1>1, <2>1, <2>2, <2>3, <2>5, NewRowApart
  <2>6. CASE i = id
    BY <1>2, <2>4, <2>5, <2>6 DEF Grown
  <2>7. CASE i # id
    <3>1. i \in DOMAIN planned /\ planned'[i] = planned[i]
      BY <1>2, <2>4, <2>7 DEF Grown
    <3>2. j \in DOMAIN work.rows => Apart(planned[i], work.rows[j])
      BY <1>2, <2>1, <3>1 DEF Separate, PlannedApart
    <3>3. CASE j = id
      <4>1. Apart(row, planned[i])
        BY <2>5, <2>7, <3>1
      <4>2. Apart(planned[i], row)
        BY <4>1, ApartBack
      <4> QED BY <2>4, <3>1, <3>2, <3>3, <4>2 DEF Grown
    <3>4. CASE j # id
      <4>1. j \in DOMAIN planned => Apart(planned[i], planned[j])
        BY <1>2, <2>1, <3>1 DEF Separate, PlannedApart
      <4> QED BY <2>4, <3>1, <3>2, <3>4, <4>1 DEF Grown
    <3> QED BY <3>3, <3>4
  <2> QED BY <2>6, <2>7
<1>3. PlannedApart'
    BY <1>1, <1>2 DEF PlannedApart
<1> QED BY <1>1, <1>3 DEF Separate

LEMMA WriteSeparates ==
    ASSUME Where, Separate, WriteNode
    PROVE  Separate'
<1>1. /\ UNCHANGED <<db, pc, request, item, save, places, planned>> /\ pc = "write" /\ ~request.dry
      /\ written < Len(places)
    BY DEF WriteNode, Writing
<1>2. Placing
    BY <1>1 DEF Placing, InItem
<1>3. PICK id : /\ id = places[written + 1]
                /\ work' = [lib |-> "named", rows |-> With(work.rows, id, planned[id])]
    BY DEF WriteNode, With
<1>4. PICK rows : rows = With(work.rows, id, planned[id])
    OBVIOUS
<1>5. work'.rows = rows /\ Grown(rows, work.rows, id, planned[id])
    BY <1>3, <1>4, OneMore
<1>6. id \in DOMAIN planned
  <2>1. Len(places) \in Nat /\ \A n \in 1 .. Len(places) : places[n] \in DOMAIN planned
    BY Elements DEF Where
  <2>2. written + 1 \in 1 .. Len(places)
    BY <1>1, <2>1 DEF Where
  <2> QED BY <1>3, <2>1, <2>2
<1>7. \A i, j : i \in DOMAIN planned /\ i # j =>
        /\ j \in DOMAIN planned => Apart(planned[i], planned[j])
        /\ j \in DOMAIN work.rows => Apart(planned[i], work.rows[j])
    BY <1>2 DEF Separate, PlannedApart
<1>8. \A i, j \in DOMAIN work.rows : i # j => Apart(work.rows[i], work.rows[j])
    BY DEF Separate, Unambiguous
<1>9. ASSUME NEW i \in DOMAIN rows, NEW j \in DOMAIN rows, i # j
      PROVE  Apart(rows[i], rows[j])
  <2>1. CASE i = id
    <3>1. j \in DOMAIN work.rows /\ rows[j] = work.rows[j] /\ rows[i] = planned[i]
      BY <1>5, <1>9, <2>1 DEF Grown
    <3> QED BY <1>6, <1>7, <1>9, <2>1, <3>1
  <2>2. CASE j = id
    <3>1. i \in DOMAIN work.rows /\ rows[i] = work.rows[i] /\ rows[j] = planned[j]
      BY <1>5, <1>9, <2>2 DEF Grown
    <3>2. Apart(rows[j], rows[i])
      BY <1>6, <1>7, <1>9, <2>2, <3>1
    <3> QED BY <3>2, ApartBack
  <2>3. CASE i # id /\ j # id
    <3>1. /\ i \in DOMAIN work.rows /\ rows[i] = work.rows[i]
          /\ j \in DOMAIN work.rows /\ rows[j] = work.rows[j]
      BY <1>5, <1>9, <2>3 DEF Grown
    <3> QED BY <1>8, <1>9, <3>1
  <2> QED BY <2>1, <2>2, <2>3
<1>10. Unambiguous(rows)
    BY <1>9 DEF Unambiguous
<1>11. ASSUME NEW i, NEW j, i \in DOMAIN planned, i # j, j \in DOMAIN rows
       PROVE  Apart(planned[i], rows[j])
  <2>1. CASE j = id
    BY <1>5, <1>6, <1>7, <1>11, <2>1 DEF Grown
  <2>2. CASE j # id
    BY <1>5, <1>7, <1>11, <2>2 DEF Grown
  <2> QED BY <2>1, <2>2
<1>12. PlannedApart'
    BY <1>1, <1>5, <1>7, <1>11 DEF PlannedApart
<1> QED BY <1>1, <1>5, <1>10, <1>12 DEF Separate

LEMMA ReducedIsUnambiguous ==
    ASSUME NEW before, NEW after, Reduced(before, after), Unambiguous(before.rows)
    PROVE  Unambiguous(after.rows)
BY DEF Reduced, Unambiguous

LEMMA InitSeparate == Init => Separate
BY CataloguesAssumption DEF Init, Separate, PlannedApart, Placing, InItem

LEMMA SeparateKept ==
    ASSUME Where, Catalogued, Isolated, Separate, [Next]_vars
    PROVE  Separate'
<1> USE DEF plan, tx, bounds, Placing, InItem
<1>0. pc \in {"idle", "begin", "plan", "write", "commit"}
    BY DEF Where
<1>1. CASE \E items \in Batches, dry \in BOOLEAN : Receive(items, dry)
    BY <1>1 DEF Receive, Separate, PlannedApart
<1>2. CASE Begin
    BY <1>2, NothingIs DEF Begin, NewItem, Separate, PlannedApart
<1>3. CASE RefuseInvalid \/ RefusePlan \/ Preview \/ KeepItem \/ WriteFails
  <2>1. DOMAIN planned' = {} /\ UNCHANGED db /\ work' \in {work, save} /\ save' \in {work, save}
    BY <1>3, NothingIs DEF RefuseInvalid, RefusePlan, Preview, KeepItem, WriteFails, NextItem, NewItem
  <2> QED BY <2>1 DEF Separate, PlannedApart
<1>4. CASE PlanNode
    BY <1>4, PlanSeparates
<1>5. CASE WriteNode
    BY <1>5, WriteSeparates
<1>6. CASE RetryItem
    BY <1>6 DEF RetryItem, Separate, PlannedApart
<1>7. CASE WriteBusy \/ CommitBusy \/ Commit \/ Abort \/ Crash
  <2>1. pc' \in {"begin", "idle"} /\ db' \in {db, work} /\ work' \in {work, db'} /\ save' \in {save, db'}
    BY <1>7 DEF WriteBusy, CommitBusy, Commit, Abort, Crash, RetryTransaction, GiveUp, EndRequest
  <2> QED BY <2>1 DEF Separate, PlannedApart
<1>8. CASE OtherWrites
  <2>1. Reduced(db, db')
    BY <1>8, OthersReduce DEF Catalogued
  <2>2. Unambiguous(db'.rows)
    BY <2>1, ReducedIsUnambiguous DEF Separate
  <2>3. /\ UNCHANGED <<pc, request, planned>>
        /\ (pc = "idle" /\ work' = db' /\ save' = db') \/ UNCHANGED <<work, save>>
    BY <1>8 DEF OtherWrites
  <2> QED BY <2>2, <2>3 DEF Separate, PlannedApart
<1>9. CASE UNCHANGED vars
    BY <1>9 DEF vars, Separate, PlannedApart
<1> QED BY <1>1, <1>2, <1>3, <1>4, <1>5, <1>6, <1>7, <1>8, <1>9 DEF Next, Step

LEMMA SeparateHolds == Spec => []Separate
<1>1. Transacted /\ Separate /\ [Next]_vars => Separate'
    BY SeparateKept, Zenon DEF Transacted, Typed
<1> QED BY <1>1, InitSeparate, TransactedHolds, PTL DEF Spec

\* Two rows of one place and kind never have a provider's id in common, whatever is
\* imported over whatever, also not in a transaction that is under way: each batch
\* finds at most one row for what its providers name.
THEOREM ProvidersAreUnique == Spec => []UniqueProviders
<1>1. Separate => UniqueProviders
    BY Zenon DEF Separate, UniqueProviders
<1> QED BY <1>1, SeparateHolds, PTL

-----------------------------------------------------------------------------
(***************************************************************************)
(* What a batch that was imported without an error leaves                  *)
(***************************************************************************)

Includes(prov, part) == \A x \in DOMAIN part : x \in DOMAIN prov /\ prov[x] = part[x]

\* Node n of the tree is the row at[n], as the import writes it; and the next import
\* will find it there, by its providers or because of its id.
NodeKept(tree, at, rows, n) ==
    LET node == tree.nodes[n]
        row  == rows[at[n]]
    IN  /\ at[n] \in DOMAIN rows
        /\ row = [kind |-> node.kind, parent |-> ParentAt(tree, at, n), text |-> node.text,
                  prov |-> row.prov]
        /\ IsFunction(row.prov) /\ Includes(row.prov, node.prov)
        /\ DOMAIN node.prov = {} => at[n] = IdOf(node, ParentAt(tree, at, n))

Kept(tree, at, rows) == \A n \in DOMAIN tree.nodes : NodeKept(tree, at, rows, n)

\* The catalogue holds each item of the batch.
Holds(items, d) ==
    /\ d.lib = "named"
    /\ \A k \in DOMAIN items : \E at : Kept(items[k], at, d.rows)

LEMMA KeptStays ==
    ASSUME NEW tree, NEW at, NEW more, NEW rows, NEW rows2, NEW n,
           more[n] = at[n], ParentAt(tree, more, n) = ParentAt(tree, at, n),
           at[n] \in DOMAIN rows2, rows2[at[n]] = rows[at[n]], NodeKept(tree, at, rows, n)
    PROVE  NodeKept(tree, more, rows2, n)
BY DEF NodeKept

\* A row of an item that is not a dry run.
LEMMA RowForIs ==
    ASSUME preview = Nothing, NEW id, NEW node, NEW parent, NEW row, IsFunction(node.prov),
           id \notin DOMAIN planned, row = RowFor(node, parent, id)
    PROVE  /\ row = [kind |-> node.kind, parent |-> parent, text |-> node.text, prov |-> row.prov]
           /\ IsFunction(row.prov) /\ Includes(row.prov, node.prov)
<1>1. row = [kind |-> node.kind, parent |-> parent, text |-> node.text, prov |-> row.prov]
    BY DEF RowFor
<1>2. row.prov = node.prov \/ row.prov = Over(node.prov, work.rows[id].prov)
    BY PlannedRowIs
<1>3. CASE row.prov = node.prov
    BY <1>1, <1>3 DEF Includes
<1>4. CASE row.prov = Over(node.prov, work.rows[id].prov)
  <2>1. Merged(row.prov, node.prov, work.rows[id].prov)
    BY <1>4, OverIs
  <2> QED BY <1>1, <2>1 DEF Merged, Includes
<1> QED BY <1>2, <1>3, <1>4

\* Without providers it is the id that counts.
LEMMA IdWithoutProviders ==
    ASSUME preview = Nothing, NEW id, Plannable(id),
           NEW node, node = Tree.nodes[Depth], NEW parent, parent = ParentOf(Depth), DOMAIN node.prov = {}
    PROVE  id = IdOf(node, parent)
<1>1. /\ Matches(node, parent) = {} => id = IdOf(node, parent)
      /\ Matches(node, parent) # {} => Matches(node, parent) = {id}
    BY Plans
<1>2. CASE Matches(node, parent) = {}
    BY <1>1, <1>2
<1>3. CASE Matches(node, parent) # {}
  <2>1. id \in MatchesByProvider(node, parent) \/ id = IdOf(node, parent)
    BY <1>1, <1>3 DEF Matches
  <2>2. id \notin MatchesByProvider(node, parent)
    BY ProviderMatches DEF Hit, Shares
  <2> QED BY <2>1, <2>2
<1> QED BY <1>2, <1>3

\* What is planned is what is to be found afterwards.
PlannedKept == Placing => \A n \in DOMAIN places : NodeKept(Tree, places, planned, n)

LEMMA PlanKeeps ==
    ASSUME Where, Isolated, PlannedKept, PlanNode
    PROVE  PlannedKept'
<1> SUFFICES ASSUME Placing', NEW m \in DOMAIN places'
             PROVE  NodeKept(Tree', places', planned', m)
    BY DEF PlannedKept
<1>1. pc = "plan" /\ UNCHANGED <<request, item, save, work, preview>>
    BY DEF PlanNode, tx
<1>2. Placing /\ Tree' = Tree
    BY <1>1 DEF Placing, InItem, Tree
<1>3. preview = Nothing
    BY <1>1, <1>2 DEF Isolated, InTransaction, Placing
<1>4. PICK id : /\ Plannable(id) /\ places' = Append(places, id)
                /\ planned' = With(planned, id, RowFor(Tree.nodes[Depth], ParentOf(Depth), id))
    BY PlannedRow
<1>5. PICK node, parent, row : /\ node = Tree.nodes[Depth] /\ parent = ParentOf(Depth)
                               /\ row = RowFor(node, parent, id)
    OBVIOUS
<1>6. PICK N : N = Len(places)
    OBVIOUS
<1>7. /\ N \in Nat /\ DOMAIN places = 1 .. N /\ Depth = N + 1 /\ Depth \in DOMAIN Tree.nodes
      /\ IsTree(Tree.nodes)
    BY <1>1, <1>6, DepthIsNode
<1>8. /\ DOMAIN places' = 1 .. N + 1 /\ places'[N + 1] = id
      /\ \A n \in 1 .. N : places'[n] = places[n]
    BY <1>4, <1>6, Appended DEF Where
<1>9. Grown(planned', planned, id, row)
  <2>1. planned' = With(planned, id, row)
    BY <1>4, <1>5
  <2> QED BY <2>1, OneMore
<1>10. id \notin DOMAIN planned
    BY <1>3, <1>4, <1>5, Plans
<1>11. \A n \in 1 .. N : places[n] \in DOMAIN planned
    BY <1>6, Elements DEF Where
<1>12. ASSUME NEW n \in 1 .. N + 1
       PROVE  ParentAt(Tree, places', n) = ParentAt(Tree, places, n)
  <2>1. Tree.nodes[n].up = 0 \/ Tree.nodes[n].up \in 1 .. n - 1
    BY <1>7, TreeNodes
  <2>2. Tree.nodes[n].up = 0 \/ Tree.nodes[n].up \in 1 .. N
    BY <1>7, <2>1
  <2> QED BY <1>8, <2>2 DEF ParentAt
<1>13. CASE m \in 1 .. N
  <2>1. NodeKept(Tree, places, planned, m)
    BY <1>2, <1>7, <1>13 DEF PlannedKept
  <2>2. places'[m] = places[m] /\ ParentAt(Tree, places', m) = ParentAt(Tree, places, m)
    BY <1>7, <1>8, <1>12, <1>13
  <2>3. places[m] \in DOMAIN planned' /\ planned'[places[m]] = planned[places[m]]
    BY <1>9, <1>10, <1>11, <1>13 DEF Grown
  <2> QED BY <1>2, <2>1, <2>2, <2>3, KeptStays
<1>14. CASE m = N + 1
  <2>1. ParentAt(Tree, places', m) = parent /\ Tree.nodes[m] = node
    BY <1>5, <1>7, <1>12, <1>14 DEF ParentAt, ParentOf
  <2>2. places'[m] \in DOMAIN planned' /\ planned'[places'[m]] = row /\ places'[m] = id
    BY <1>8, <1>9, <1>14 DEF Grown
  <2>3. IsFunction(node.prov)
    BY <1>5, <1>7, Zenon DEF IsTree
  <2>4. /\ row = [kind |-> node.kind, parent |-> parent, text |-> node.text, prov |-> row.prov]
        /\ IsFunction(row.prov) /\ Includes(row.prov, node.prov)
    BY <1>3, <1>5, <1>10, <2>3, RowForIs
  <2>5. DOMAIN node.prov = {} => id = IdOf(node, parent)
    BY <1>3, <1>4, <1>5, IdWithoutProviders
  <2> QED BY <1>2, <2>1, <2>2, <2>4, <2>5 DEF NodeKept
<1> QED BY <1>7, <1>8, <1>13, <1>14

LEMMA PlannedKeptKept ==
    ASSUME Where, Isolated, PlannedKept, [Next]_vars
    PROVE  PlannedKept'
<1> USE DEF plan, tx, bounds
<1>0. pc \in {"idle", "begin", "plan", "write", "commit"}
    BY DEF Where
<1>1. CASE PlanNode
    BY <1>1, PlanKeeps
<1>2. CASE NewItem
  <2>1. DOMAIN places' = {}
    BY <1>2 DEF NewItem
  <2> QED BY <2>1 DEF PlannedKept
<1>3. CASE pc' \notin {"plan", "write"}
    BY <1>3 DEF PlannedKept, Placing, InItem
<1>4. CASE InItem /\ UNCHANGED <<request, item, places, planned>>
    BY <1>4 DEF PlannedKept, Placing, Tree, NodeKept, ParentAt
<1>5. CASE \E items \in Batches, dry \in BOOLEAN : Receive(items, dry)
    BY <1>3, <1>5 DEF Receive
<1>6. CASE Begin \/ RefuseInvalid \/ RefusePlan \/ Preview \/ KeepItem \/ WriteFails
    BY <1>2, <1>6 DEF Begin, RefuseInvalid, RefusePlan, Preview, KeepItem, WriteFails, NextItem
<1>7. CASE WriteNode \/ RetryItem
    BY <1>4, <1>7 DEF WriteNode, RetryItem, Writing, InItem
<1>8. CASE WriteBusy \/ CommitBusy \/ Commit \/ Abort \/ Crash
    BY <1>3, <1>8 DEF WriteBusy, CommitBusy, Commit, Abort, Crash, RetryTransaction, GiveUp, EndRequest
<1>9. CASE OtherWrites \/ UNCHANGED vars
  <2>1. UNCHANGED <<pc, request, item, places, planned>>
    BY <1>9 DEF OtherWrites, vars
  <2> QED BY <1>3, <1>4, <2>1 DEF InItem
<1> QED BY <1>1, <1>5, <1>6, <1>7, <1>8, <1>9 DEF Next, Step

-----------------------------------------------------------------------------
(***************************************************************************)
(* The first import                                                        *)
(***************************************************************************)

ElementsOf(s) == {s[m] : m \in DOMAIN s}
Touched == ElementsOf(touched)

Flawless == InTransaction /\ ~request.dry /\ response.errors = 0

\* An item is made: its rows are in place, and written by this transaction.
ItemMade(tree, at, rows, ids) ==
    \A n \in DOMAIN tree.nodes : at[n] \in ids /\ NodeKept(tree, at, rows, n)

\* As long as no item has failed and no row was written twice, each item so far is as
\* it was planned.
Making ==
    Flawless =>
        /\ \E S : touched \in Seq(S)
        /\ Distinct(touched) =>
             /\ \A k \in 1 .. item - 1 :
                  \E at : ItemMade(request.items[k], at, work.rows, Touched)
             /\ pc = "write" => \A n \in 1 .. written : places[n] \in Touched
             /\ item > 1 \/ (pc = "write" /\ written > 0) => locked /\ work.lib = "named"

LEMMA DistinctBefore ==
    ASSUME NEW S, NEW s \in Seq(S), NEW id, NEW t, t = Append(s, id), Distinct(t)
    PROVE  Distinct(s) /\ id \notin ElementsOf(s) /\ ElementsOf(t) = ElementsOf(s) \cup {id}
<1>1. PICK N \in Nat : N = Len(s) /\ DOMAIN s = 1 .. N
    BY Elements
<1>2. DOMAIN t = 1 .. N + 1 /\ t[N + 1] = id /\ \A n \in 1 .. N : t[n] = s[n]
    BY <1>1, Appended
<1>3. \A i, j \in 1 .. N + 1 : t[i] = t[j] => i = j
    BY <1>2 DEF Distinct
<1>4. Distinct(s)
    BY <1>1, <1>2, <1>3 DEF Distinct
<1>5. id \notin ElementsOf(s)
  <2> SUFFICES ASSUME NEW m \in 1 .. N, s[m] = id
               PROVE  FALSE
      BY <1>1 DEF ElementsOf
  <2>1. t[m] = t[N + 1] /\ m # N + 1
    BY <1>1, <1>2
  <2> QED BY <1>1, <1>3, <2>1
<1>6. ElementsOf(t) = ElementsOf(s) \cup {id}
    BY <1>1, <1>2 DEF ElementsOf
<1> QED BY <1>4, <1>5, <1>6

\* A row that is written leaves the others as they are.
LEMMA MadeStays ==
    ASSUME NEW tree, NEW at, NEW rows, NEW rows2, NEW ids, NEW ids2, NEW id, NEW row,
           ItemMade(tree, at, rows, ids), Grown(rows2, rows, id, row), id \notin ids, ids \subseteq ids2
    PROVE  ItemMade(tree, at, rows2, ids2)
<1> SUFFICES ASSUME NEW n \in DOMAIN tree.nodes
             PROVE  at[n] \in ids2 /\ NodeKept(tree, at, rows2, n)
    BY DEF ItemMade
<1>1. at[n] \in ids /\ NodeKept(tree, at, rows, n)
    BY DEF ItemMade
<1>2. at[n] \in DOMAIN rows2 /\ rows2[at[n]] = rows[at[n]]
    BY <1>1 DEF NodeKept, Grown
<1> QED BY <1>1, <1>2, KeptStays

LEMMA WriteMakes ==
    ASSUME Where, Making, WriteNode
    PROVE  Making'
<1> SUFFICES ASSUME Flawless'
             PROVE  Making'
    BY DEF Making
<1>1. /\ UNCHANGED <<pc, request, item, places, planned, response>> /\ pc = "write"
      /\ written' = written + 1 /\ locked' = TRUE
    BY DEF WriteNode, Writing
<1>2. Flawless
    BY <1>1 DEF Flawless, InTransaction
<1>3. PICK id : /\ id = places[written + 1] /\ touched' = Append(touched, id)
                /\ work' = [lib |-> "named", rows |-> With(work.rows, id, planned[id])]
    BY DEF WriteNode, With
<1>4. PICK S : touched \in Seq(S)
    BY <1>2 DEF Making
<1>5. touched' \in Seq(S \cup {id})
    BY <1>3, <1>4, Appended
<1>6. ASSUME Distinct(touched')
      PROVE  /\ \A k \in 1 .. item - 1 :
                  \E at : ItemMade(request.items[k], at, work'.rows, Touched')
             /\ \A n \in 1 .. written + 1 : places[n] \in Touched'
  <2>1. Distinct(touched) /\ id \notin Touched /\ Touched' = Touched \cup {id}
    <3>1. PICK s, t : s = touched /\ t = touched'
      OBVIOUS
    <3>2. s \in Seq(S) /\ t = Append(s, id) /\ Distinct(t)
      BY <1>3, <1>4, <1>6, <3>1
    <3>3. Distinct(s) /\ id \notin ElementsOf(s) /\ ElementsOf(t) = ElementsOf(s) \cup {id}
      BY <3>2, DistinctBefore
    <3>4. Touched = ElementsOf(s) /\ Touched' = ElementsOf(t)
      BY <3>1 DEF Touched
    <3> QED BY <3>1, <3>3, <3>4
  <2>2. PICK rows : rows = With(work.rows, id, planned[id])
    OBVIOUS
  <2>3. work'.rows = rows /\ Grown(rows, work.rows, id, planned[id])
    BY <1>3, <2>2, OneMore
  <2>4. ASSUME NEW k \in 1 .. item - 1
        PROVE  \E at : ItemMade(request.items[k], at, work'.rows, Touched')
    <3>1. PICK at : ItemMade(request.items[k], at, work.rows, Touched)
      BY <1>2, <2>1 DEF Making
    <3>2. ItemMade(request.items[k], at, rows, Touched')
      BY <2>1, <2>3, <3>1, MadeStays
    <3> QED BY <2>3, <3>2
  <2>5. \A n \in 1 .. written : places[n] \in Touched
    BY <1>1, <1>2, <2>1 DEF Making
  <2>6. ASSUME NEW n \in 1 .. written + 1
        PROVE  places[n] \in Touched'
    <3>1. n \in 1 .. written \/ n = written + 1
      BY DEF Where
    <3> QED BY <1>3, <2>1, <2>5, <3>1
  <2> QED BY <2>4, <2>6
<1>7. work'.lib = "named" /\ locked'
    BY <1>1, <1>3
<1> QED BY <1>1, <1>5, <1>6, <1>7 DEF Making

LEMMA KeepMakes ==
    ASSUME Where, Counters, Drafted, PlannedKept, Making, KeepItem
    PROVE  Making'
<1> SUFFICES ASSUME Flawless'
             PROVE  Making'
    BY DEF Making
<1>1. /\ pc = "write" /\ ~request.dry /\ written = Len(places) /\ item' = item + 1 /\ pc' # "write"
      /\ response' = [response EXCEPT !.imported = @ + 1]
      /\ UNCHANGED <<request, work, locked, touched>>
    BY DEF KeepItem, NextItem
<1>2. Flawless /\ InItem /\ Placing
    BY <1>1 DEF Flawless, InTransaction, InItem, Placing, Counters
<1>3. item \in 1 .. Len(request.items) /\ IsTree(Tree.nodes) /\ Len(Tree.nodes) \in Nat \ {0}
      /\ Len(request.items) \in Nat
    BY <1>2, TreeInHand
<1>4. PICK N \in Nat \ {0} : N = Len(Tree.nodes) /\ N = Len(places) /\ DOMAIN Tree.nodes = 1 .. N
    BY <1>1, <1>3, Whole DEF IsTree, Where
<1>5. DOMAIN places = 1 .. N
    BY <1>4, Elements DEF Where
<1>6. WrittenTo(places, planned, N, save, work)
    BY <1>1, <1>2, <1>4 DEF Drafted, WrittenInOrder
<1>7. ASSUME Distinct(touched)
      PROVE  \A k \in 1 .. item : \E at : ItemMade(request.items[k], at, work.rows, Touched)
  <2>1. ASSUME NEW n \in 1 .. N
        PROVE  places[n] \in Touched /\ NodeKept(Tree, places, work.rows, n)
    <3>1. places[n] \in Touched
      BY <1>1, <1>2, <1>4, <1>7 DEF Making
    <3>2. NodeKept(Tree, places, planned, n)
      BY <1>2, <1>5 DEF PlannedKept
    <3>3. places[n] \in DOMAIN work.rows /\ work.rows[places[n]] = planned[places[n]]
      BY <1>6 DEF WrittenTo
    <3> QED BY <3>1, <3>2, <3>3, KeptStays
  <2>2. ItemMade(request.items[item], places, work.rows, Touched)
    BY <1>4, <2>1 DEF ItemMade, Tree
  <2>3. ASSUME NEW k \in 1 .. item
        PROVE  \E at : ItemMade(request.items[k], at, work.rows, Touched)
    <3>1. CASE k = item
      BY <2>2, <3>1
    <3>2. CASE k # item
      <4>1. k \in 1 .. item - 1
        BY <1>3, <3>2
      <4> QED BY <1>2, <1>7, <4>1 DEF Making
    <3> QED BY <3>1, <3>2
  <2> QED BY <2>3
<1>8. Distinct(touched) => locked /\ work.lib = "named"
    BY <1>1, <1>2, <1>4 DEF Making
<1>9. item' - 1 = item /\ Touched' = Touched
    BY <1>1, <1>3 DEF Touched
<1>10. \E S : touched \in Seq(S)
    BY <1>2 DEF Making
<1> QED BY <1>1, <1>7, <1>8, <1>9, <1>10 DEF Making


LEMMA MakingKept ==
    ASSUME Where, Counters, Isolated, Drafted, PlannedKept, Making, [Next]_vars
    PROVE  Making'
<1> USE DEF plan, tx, bounds
<1>1. CASE pc' \in {"idle", "begin"}
    BY <1>1 DEF Making, Flawless, InTransaction
<1>2. CASE Begin
  <2>1. item' = 1 /\ touched' = <<>> /\ written' = 0
    BY <1>2 DEF Begin, NewItem
  <2>2. touched' \in Seq({}) /\ 1 .. item' - 1 = {} /\ 1 .. written' = {}
    BY <2>1
  <2> QED BY <2>1, <2>2 DEF Making
<1>3. CASE RefuseInvalid \/ RefusePlan \/ WriteFails
  <2>1. CountError
    BY <1>3 DEF RefuseInvalid, RefusePlan, WriteFails
  <2>2. response'.errors # 0
    BY <2>1 DEF CountError, Counters
  <2> QED BY <2>2 DEF Making, Flawless
<1>4. CASE Preview
    BY <1>4 DEF Preview, Making, Flawless
<1>5. CASE WriteNode
    BY <1>5, WriteMakes
<1>6. CASE KeepItem
    BY <1>6, KeepMakes
<1>7. CASE PlanNode
  <2>1. /\ pc = "plan" /\ UNCHANGED <<request, item, work, locked, response, touched, written>>
        /\ written = 0
    BY <1>7 DEF PlanNode, Where
  <2>2. Flawless' => Flawless
    BY <2>1 DEF Flawless, InTransaction
  <2>3. Touched' = Touched /\ 1 .. written' = {}
    BY <2>1 DEF Touched
  <2> QED BY <2>1, <2>2, <2>3 DEF Making
<1>8. CASE InTransaction /\ UNCHANGED <<pc, request, item, work, locked, response, touched, places, written>>
  <2>1. Touched' = Touched /\ (Flawless' <=> Flawless)
    BY <1>8 DEF Touched, Flawless, InTransaction
  <2> QED BY <1>8, <2>1 DEF Making
<1>9. CASE UNCHANGED vars
  <2>1. pc' \in {"idle", "begin"} \/ InTransaction
    BY <1>9 DEF vars, Where, InTransaction
  <2> QED BY <1>1, <1>8, <1>9, <2>1 DEF vars
<1>10. CASE \E items \in Batches, dry \in BOOLEAN : Receive(items, dry)
    BY <1>1, <1>10 DEF Receive
<1>11. CASE RetryItem
    BY <1>8, <1>11 DEF RetryItem, Writing, InTransaction
<1>12. CASE WriteBusy \/ CommitBusy \/ Commit \/ Abort \/ Crash
    BY <1>1, <1>12 DEF WriteBusy, CommitBusy, Commit, Abort, Crash, RetryTransaction, GiveUp, EndRequest
<1>13. CASE OtherWrites
  <2>1. /\ UNCHANGED <<pc, request, item, locked, response, touched, places, written>>
        /\ pc # "idle" => work' = work
        /\ pc' \in {"idle", "begin"} \/ InTransaction
    BY <1>13 DEF OtherWrites, Where, InTransaction
  <2> QED BY <1>1, <1>8, <2>1 DEF InTransaction
<1> QED BY <1>2, <1>3, <1>4, <1>5, <1>6, <1>7, <1>9, <1>10, <1>11, <1>12, <1>13 DEF Next, Step

\* What was imported last without an error is in the catalogue.
LastHolds == last # None => last.items \in Batches /\ Holds(last.items, db)

LEMMA CommitHolds ==
    ASSUME Where, Isolated, Making, LastHolds, Commit
    PROVE  LastHolds'
<1>1. /\ pc = "commit" /\ db' = IF locked THEN work ELSE db
      /\ last' = IF response.errors = 0 /\ Distinct(touched) /\ ~request.dry
                 THEN [items |-> request.items, db |-> db']
                 ELSE IF db' = db THEN last ELSE None
    BY DEF Commit
<1>2. CASE response.errors = 0 /\ Distinct(touched) /\ ~request.dry
  <2>1. request.items \in Batches /\ item = Len(request.items) + 1
    BY <1>1 DEF Where
  <2>2. Len(request.items) \in Nat \ {0} /\ DOMAIN request.items = 1 .. Len(request.items)
    BY <2>1, BatchIs
  <2>3. Flawless
    BY <1>1, <1>2 DEF Flawless, InTransaction
  <2>4. item > 1 /\ item - 1 = Len(request.items)
    BY <2>1, <2>2
  <2>5. locked /\ work.lib = "named"
    BY <1>2, <2>3, <2>4 DEF Making
  <2>6. \A k \in 1 .. Len(request.items) : \E at : ItemMade(request.items[k], at, work.rows, Touched)
    BY <1>2, <2>3, <2>4 DEF Making
  <2>7. ASSUME NEW k \in DOMAIN request.items
        PROVE  \E at : Kept(request.items[k], at, work.rows)
    <3>1. PICK at : ItemMade(request.items[k], at, work.rows, Touched)
      BY <2>2, <2>6
    <3>2. Kept(request.items[k], at, work.rows)
      BY <3>1 DEF ItemMade, Kept
    <3> QED BY <3>2
  <2>8. Holds(request.items, work)
    BY <2>5, <2>7 DEF Holds
  <2>9. db' = work /\ last'.items = request.items
    BY <1>1, <1>2, <2>5
  <2> QED BY <2>1, <2>8, <2>9 DEF LastHolds
<1>3. CASE ~(response.errors = 0 /\ Distinct(touched) /\ ~request.dry)
    BY <1>1, <1>3 DEF LastHolds
<1> QED BY <1>2, <1>3

LEMMA LastHoldsKept ==
    ASSUME Where, Isolated, Making, LastHolds, [Next]_vars
    PROVE  LastHolds'
<1>1. CASE Commit
    BY <1>1, CommitHolds
<1>2. CASE last' = None
    BY <1>2 DEF LastHolds
<1>3. CASE UNCHANGED <<db, last>>
    BY <1>3 DEF LastHolds
<1>4. CASE (\E items \in Batches, dry \in BOOLEAN : Receive(items, dry)) \/ Begin
    BY <1>3, <1>4 DEF Receive, Begin
<1>5. CASE RefuseInvalid \/ PlanNode \/ RefusePlan \/ Preview \/ WriteNode \/ KeepItem \/ WriteFails
    BY <1>3, <1>5 DEF RefuseInvalid, PlanNode, RefusePlan, Preview, WriteNode, KeepItem, WriteFails
<1>6. CASE RetryItem \/ WriteBusy \/ CommitBusy \/ Abort \/ Crash \/ UNCHANGED vars
    BY <1>3, <1>6 DEF RetryItem, WriteBusy, CommitBusy, Abort, Crash, vars
<1>7. CASE OtherWrites
    BY <1>2, <1>7 DEF OtherWrites
<1> QED BY <1>1, <1>4, <1>5, <1>6, <1>7 DEF Next, Step


-----------------------------------------------------------------------------
(***************************************************************************)
(* Importing it once more                                                  *)
(***************************************************************************)

Repeats == InTransaction /\ last # None /\ request.items = last.items

\* What is planned of the item is what the rows are already.
AsBefore(at, rows) ==
    /\ Kept(Tree, at, rows)
    /\ \A n \in DOMAIN places : places[n] = at[n] /\ planned[at[n]] = rows[at[n]]

Repeating ==
    Repeats => work = db /\ save = db /\ (Placing => \E at : AsBefore(at, db.rows))

LEMMA SameFunction ==
    ASSUME NEW f, NEW g, IsFunction(f), IsFunction(g), DOMAIN f = DOMAIN g,
           \A x \in DOMAIN f : f[x] = g[x]
    PROVE  f = g
BY DEF IsFunction

\* What is there already is not changed when it is merged in again.
LEMMA OverItself ==
    ASSUME NEW prov, NEW part, IsFunction(prov), Includes(prov, part)
    PROVE  Over(part, prov) = prov
<1>1. PICK h : h = Over(part, prov)
    OBVIOUS
<1>2. Merged(h, part, prov)
    BY <1>1, OverIs
<1>3. DOMAIN h = DOMAIN prov
    BY <1>2 DEF Merged, Includes
<1>4. ASSUME NEW x \in DOMAIN h
      PROVE  h[x] = prov[x]
    BY <1>2, <1>3 DEF Merged, Includes
<1> QED BY <1>1, <1>2, <1>3, <1>4, SameFunction DEF Merged

LEMMA WithItself ==
    ASSUME NEW rows, NEW id \in DOMAIN rows, IsFunction(rows)
    PROVE  With(rows, id, rows[id]) = rows
<1>1. PICK h : h = With(rows, id, rows[id])
    OBVIOUS
<1>2. Grown(h, rows, id, rows[id])
    BY <1>1, OneMore
<1>3. DOMAIN h = DOMAIN rows /\ \A x \in DOMAIN h : h[x] = rows[x]
    BY <1>2 DEF Grown
<1> QED BY <1>1, <1>2, <1>3, SameFunction DEF Grown

\* The node is found where the batch has left it.
LEMMA FoundAgain ==
    ASSUME preview = Nothing, NEW id, Plannable(id),
           NEW node, node = Tree.nodes[Depth], NEW parent, parent = ParentOf(Depth),
           NEW at, NodeKept(Tree, at, work.rows, Depth), parent = ParentAt(Tree, at, Depth)
    PROVE  id = at[Depth]
<1>1. PICK old, row : old = at[Depth] /\ row = work.rows[old]
    OBVIOUS
<1>2. /\ old \in DOMAIN work.rows /\ row.kind = node.kind /\ row.parent = parent
      /\ Includes(row.prov, node.prov)
      /\ DOMAIN node.prov = {} => old = IdOf(node, parent)
    BY <1>1 DEF NodeKept
<1>3. CASE DOMAIN node.prov = {}
    BY <1>1, <1>2, <1>3, IdWithoutProviders
<1>4. CASE DOMAIN node.prov # {}
  <2>1. Shares(row.prov, node.prov)
    BY <1>2, <1>4 DEF Includes, Shares
  <2>2. Hit(work.rows, node, parent, old)
    BY <1>1, <1>2, <2>1 DEF Hit, InScope
  <2>3. old \in MatchesByProvider(node, parent)
    BY <2>2, ProviderMatches
  <2>4. old \in Matches(node, parent)
    BY <2>3 DEF Matches
  <2>5. Matches(node, parent) # {} => Matches(node, parent) = {id}
    BY Plans
  <2> QED BY <1>1, <2>4, <2>5
<1> QED BY <1>3, <1>4

\* And it is planned as it is.
LEMMA PlannedAgain ==
    ASSUME preview = Nothing, NEW id, id \notin DOMAIN planned,
           NEW node, IsFunction(node.prov), NEW parent, NEW row, row = RowFor(node, parent, id),
           NEW old, old = work.rows[id], id \in DOMAIN work.rows,
           old = [kind |-> node.kind, parent |-> parent, text |-> node.text, prov |-> old.prov],
           IsFunction(old.prov), Includes(old.prov, node.prov)
    PROVE  row = old
<1>1. row = [kind |-> node.kind, parent |-> parent, text |-> node.text, prov |-> row.prov]
    BY RowForIs
<1>2. row.prov = Over(node.prov, work.rows[id].prov)
    BY PlannedRowIs
<1>3. row.prov = old.prov
    BY <1>2, OverItself
<1> QED BY <1>1, <1>3


LEMMA PlanRepeats ==
    ASSUME Where, Isolated, Repeating, PlanNode
    PROVE  Repeating'
<1> SUFFICES ASSUME Repeats', Placing'
             PROVE  \E at : AsBefore(at, db.rows)'
  <2>1. UNCHANGED <<db, work, save, request, last>> /\ pc = "plan" /\ pc' \in {"plan", "write"}
    BY DEF PlanNode, tx
  <2>2. Repeats' => Repeats
    BY <2>1 DEF Repeats, InTransaction
  <2> QED BY <2>1, <2>2 DEF Repeating
<1>1. /\ pc = "plan" /\ UNCHANGED <<db, request, item, last, work, save, preview>>
    BY DEF PlanNode, tx, bounds
<1>2. Placing /\ Repeats /\ Tree' = Tree
    BY <1>1 DEF Placing, InItem, Tree, Repeats, InTransaction
<1>3. preview = Nothing /\ work = db
    BY <1>1, <1>2 DEF Isolated, InTransaction, Placing, Repeating
<1>4. PICK at : AsBefore(at, db.rows)
    BY <1>2 DEF Repeating
<1>5. PICK id : /\ Plannable(id) /\ places' = Append(places, id)
                /\ planned' = With(planned, id, RowFor(Tree.nodes[Depth], ParentOf(Depth), id))
    BY PlannedRow
<1>6. PICK node, parent, row, old : /\ node = Tree.nodes[Depth] /\ parent = ParentOf(Depth)
                                    /\ row = RowFor(node, parent, id) /\ old = work.rows[id]
    OBVIOUS
<1>7. PICK N : N = Len(places)
    OBVIOUS
<1>8. /\ N \in Nat /\ DOMAIN places = 1 .. N /\ Depth = N + 1 /\ Depth \in DOMAIN Tree.nodes
      /\ IsTree(Tree.nodes)
    BY <1>1, <1>7, DepthIsNode
<1>9. /\ DOMAIN places' = 1 .. N + 1 /\ places'[N + 1] = id
      /\ \A n \in 1 .. N : places'[n] = places[n]
    BY <1>5, <1>7, Appended DEF Where
<1>10. Grown(planned', planned, id, row)
  <2>1. planned' = With(planned, id, row)
    BY <1>5, <1>6
  <2> QED BY <2>1, OneMore
<1>11. id \notin DOMAIN planned
    BY <1>3, <1>5, <1>6, Plans
<1>12. \A n \in 1 .. N : places[n] \in DOMAIN planned /\ places[n] = at[n] /\ planned[at[n]] = db.rows[at[n]]
    BY <1>4, <1>7, <1>8, Elements DEF Where, AsBefore
<1>13. parent = ParentAt(Tree, at, Depth)
  <2>1. node.up = 0 \/ node.up \in 1 .. N
    BY <1>6, <1>8, TreeNodes
  <2>2. parent = IF node.up = 0 THEN Tree.parent ELSE places[node.up]
    BY <1>6 DEF ParentOf
  <2> QED BY <1>6, <1>12, <2>1, <2>2 DEF ParentAt
<1>14. NodeKept(Tree, at, work.rows, Depth)
    BY <1>3, <1>4, <1>8 DEF AsBefore, Kept
<1>15. id = at[Depth]
    BY <1>3, <1>5, <1>6, <1>13, <1>14, FoundAgain
<1>16. /\ id \in DOMAIN work.rows
       /\ old = [kind |-> node.kind, parent |-> parent, text |-> node.text, prov |-> old.prov]
       /\ IsFunction(old.prov) /\ Includes(old.prov, node.prov)
    BY <1>6, <1>13, <1>14, <1>15 DEF NodeKept
<1>17. IsFunction(node.prov)
    BY <1>6, <1>8, Zenon DEF IsTree
<1>18. row = old
    BY <1>3, <1>6, <1>11, <1>16, <1>17, PlannedAgain
<1>19. ASSUME NEW n \in 1 .. N + 1
       PROVE  places'[n] = at[n] /\ planned'[at[n]] = db.rows[at[n]]
  <2>1. CASE n = N + 1
    BY <1>3, <1>6, <1>8, <1>9, <1>10, <1>15, <1>18, <2>1 DEF Grown
  <2>2. CASE n \in 1 .. N
    BY <1>9, <1>10, <1>11, <1>12, <2>2 DEF Grown
  <2> QED BY <1>8, <2>1, <2>2
<1>20. AsBefore(at, db.rows)'
    BY <1>1, <1>2, <1>4, <1>9, <1>19 DEF AsBefore
<1> QED BY <1>20

LEMMA WriteRepeats ==
    ASSUME Where, Catalogued, LastHolds, Repeating, WriteNode
    PROVE  Repeating'
<1> SUFFICES ASSUME Repeats'
             PROVE  Repeating'
    BY DEF Repeating
<1>1. /\ pc = "write" /\ ~request.dry /\ written < Len(places)
      /\ UNCHANGED <<db, pc, request, item, last, save, places, planned>>
    BY DEF WriteNode, Writing, bounds
<1>2. Placing /\ Repeats /\ Tree' = Tree
    BY <1>1 DEF Placing, InItem, Tree, Repeats, InTransaction
<1>3. PICK at : AsBefore(at, db.rows)
    BY <1>2 DEF Repeating
<1>4. PICK N \in Nat : N = Len(places) /\ DOMAIN places = 1 .. N /\ N = Len(Tree.nodes) /\ DOMAIN Tree.nodes = 1 .. N
  <2>1. IsTree(Tree.nodes) /\ Len(places) = Len(Tree.nodes)
    BY <1>1, TreeInHand DEF Where, InItem
  <2> QED BY <2>1, Elements, Whole DEF Where, IsTree
<1>5. PICK id, m : /\ m = written + 1 /\ id = places[m]
                   /\ work' = [lib |-> "named", rows |-> With(work.rows, id, planned[id])]
    BY DEF WriteNode, With
<1>6. m \in 1 .. N
    BY <1>1, <1>4, <1>5 DEF Where
<1>7. id = at[m] /\ planned[id] = db.rows[id] /\ id \in DOMAIN db.rows
    BY <1>3, <1>4, <1>5, <1>6 DEF AsBefore, Kept, NodeKept
<1>8. work = db /\ save = db
    BY <1>2 DEF Repeating
<1>9. db.lib = "named"
    BY <1>2 DEF LastHolds, Holds, Repeats
<1>10. db = [lib |-> db.lib, rows |-> db.rows] /\ IsFunction(db.rows)
  <2>1. Catalogue(db)
    BY DEF Catalogued
  <2> QED BY <2>1 DEF Catalogue
<1>11. With(db.rows, id, db.rows[id]) = db.rows
    BY <1>7, <1>10, WithItself
<1>12. work' = db
    BY <1>5, <1>7, <1>8, <1>9, <1>10, <1>11
<1>13. AsBefore(at, db.rows)'
    BY <1>1, <1>2, <1>3 DEF AsBefore
<1> QED BY <1>1, <1>8, <1>12, <1>13 DEF Repeating

\* An item that is taken up is where the batch has left it.
LEMMA NextRepeats ==
    ASSUME Where, LastHolds, Where', UNCHANGED <<db, request, last>>, NewItem, work' = db, save' = db
    PROVE  Repeating'
<1> SUFFICES ASSUME Repeats', Placing'
             PROVE  \E at : AsBefore(at, db.rows)'
    BY DEF Repeating
<1>1. places' = <<>> /\ DOMAIN places' = {}
    BY DEF NewItem
<1>2. item' \in 1 .. Len(request.items) /\ last # None /\ request.items = last.items
    BY DEF Where, Placing, Repeats
<1>3. last.items \in Batches /\ Holds(last.items, db)
    BY <1>2 DEF LastHolds
<1>4. item' \in DOMAIN request.items
    BY <1>2, <1>3, BatchIs
<1>5. PICK at : Kept(request.items[item'], at, db.rows)
    BY <1>2, <1>3, <1>4 DEF Holds
<1>6. AsBefore(at, db.rows)'
    BY <1>1, <1>5 DEF AsBefore, Tree
<1> QED BY <1>6

LEMMA RepeatingKept ==
    ASSUME Where, Catalogued, Isolated, LastHolds, Repeating, [Next]_vars
    PROVE  Repeating'
<1> USE DEF plan, tx, bounds
<1>0. Where' /\ pc \in {"idle", "begin", "plan", "write", "commit"}
    BY WhereKept DEF Where
<1>1. CASE pc' \in {"idle", "begin"} \/ last' = None
    BY <1>1 DEF Repeating, Repeats, InTransaction
<1>2. CASE Begin
  <2>1. UNCHANGED <<db, request, last>> /\ NewItem /\ work' = db /\ save' = db
    BY <1>2 DEF Begin
  <2> QED BY <1>0, <2>1, NextRepeats
<1>3. CASE RefuseInvalid \/ RefusePlan \/ Preview \/ KeepItem \/ WriteFails
  <2>1. /\ UNCHANGED <<db, request, last>> /\ NewItem /\ InTransaction
        /\ work' \in {work, save} /\ save' \in {work, save}
    BY <1>3 DEF RefuseInvalid, RefusePlan, Preview, KeepItem, WriteFails, Writing, NextItem, InTransaction
  <2>2. CASE Repeats
    <3>1. work' = db /\ save' = db
      BY <2>1, <2>2 DEF Repeating
    <3> QED BY <1>0, <2>1, <3>1, NextRepeats
  <2>3. CASE ~Repeats
    BY <2>1, <2>3 DEF Repeating, Repeats
  <2> QED BY <2>2, <2>3
<1>4. CASE PlanNode
    BY <1>4, PlanRepeats
<1>5. CASE WriteNode
    BY <1>5, WriteRepeats
<1>6. CASE InTransaction /\ UNCHANGED <<pc, db, request, item, last, work, save, places, planned>>
  <2>1. Repeats' = Repeats /\ Placing' = Placing /\ \A at : AsBefore(at, db.rows)' <=> AsBefore(at, db.rows)
    BY <1>6 DEF Repeats, InTransaction, Placing, InItem, AsBefore, Tree
  <2> QED BY <1>6, <2>1 DEF Repeating
<1>7. CASE \E items \in Batches, dry \in BOOLEAN : Receive(items, dry)
    BY <1>1, <1>7 DEF Receive
<1>8. CASE RetryItem
    BY <1>6, <1>8 DEF RetryItem, Writing, InTransaction
<1>9. CASE WriteBusy \/ CommitBusy \/ Commit \/ Abort \/ Crash
    BY <1>1, <1>9 DEF WriteBusy, CommitBusy, Commit, Abort, Crash, RetryTransaction, GiveUp, EndRequest
<1>10. CASE OtherWrites
    BY <1>1, <1>10 DEF OtherWrites
<1>11. CASE UNCHANGED vars
  <2>1. pc' \in {"idle", "begin"} \/ InTransaction
    BY <1>0, <1>11 DEF vars, InTransaction
  <2> QED BY <1>1, <1>6, <1>11, <2>1 DEF vars
<1> QED BY <1>2, <1>3, <1>4, <1>5, <1>7, <1>8, <1>9, <1>10, <1>11 DEF Next, Step


\* What is promised for a batch that is imported once more.
Repeatable == PlannedKept /\ Making /\ LastHolds /\ Repeating

LEMMA RepeatableHolds == Spec => []Repeatable
<1>1. Init => Repeatable
  <2> SUFFICES ASSUME Init
               PROVE  Repeatable
      OBVIOUS
  <2>1. pc = "idle" /\ last = None
    BY DEF Init
  <2>2. PlannedKept
    BY <2>1 DEF PlannedKept, Placing, InItem
  <2>3. Making
    BY <2>1 DEF Making, Flawless, InTransaction
  <2>4. LastHolds
    BY <2>1 DEF LastHolds
  <2>5. Repeating
    BY <2>1 DEF Repeating, Repeats
  <2> QED BY <2>2, <2>3, <2>4, <2>5, Zenon DEF Repeatable
<1>2. Transacted /\ Repeatable /\ [Next]_vars => Repeatable'
  <2> SUFFICES ASSUME Transacted, Repeatable, [Next]_vars
               PROVE  Repeatable'
      OBVIOUS
  <2>1. Where /\ Counters /\ Catalogued /\ Isolated /\ Drafted
    BY Zenon DEF Transacted, Typed
  <2>2. PlannedKept /\ Making /\ LastHolds /\ Repeating
    BY Zenon DEF Repeatable
  <2>3. PlannedKept'
    BY <2>1, <2>2, PlannedKeptKept
  <2>4. Making'
    BY <2>1, <2>2, MakingKept
  <2>5. LastHolds'
    BY <2>1, <2>2, LastHoldsKept
  <2>6. Repeating'
    BY <2>1, <2>2, RepeatingKept
  <2> QED BY <2>3, <2>4, <2>5, <2>6, Zenon DEF Repeatable
<1> QED BY <1>1, <1>2, TransactedHolds, PTL DEF Spec

\* Only a commit and the others change the catalogue.
LEMMA RepeatStep ==
    ASSUME Counters, Repeating, [Next]_vars,
           last # None, request # None, request.items = last.items, others' = others
    PROVE  db' = db
<1> USE DEF plan, tx, bounds
<1>1. CASE (\E items \in Batches, dry \in BOOLEAN : Receive(items, dry)) \/ Begin
    BY <1>1 DEF Receive, Begin
<1>2. CASE RefuseInvalid \/ PlanNode \/ RefusePlan \/ Preview \/ WriteNode \/ KeepItem \/ WriteFails
    BY <1>2 DEF RefuseInvalid, PlanNode, RefusePlan, Preview, WriteNode, KeepItem, WriteFails
<1>3. CASE RetryItem \/ WriteBusy \/ CommitBusy \/ Abort \/ Crash \/ UNCHANGED vars
    BY <1>3 DEF RetryItem, WriteBusy, CommitBusy, Abort, Crash, vars
<1>4. CASE Commit
  <2>1. pc = "commit" /\ db' \in {work, db}
    BY <1>4 DEF Commit
  <2>2. work = db
    BY <2>1 DEF Repeating, Repeats, InTransaction
  <2> QED BY <2>1, <2>2
<1>5. CASE OtherWrites
  <2>1. others' = others + 1 /\ others \in Nat
    BY <1>5, ConstantsAssumption DEF OtherWrites, Counters
  <2> QED BY <2>1
<1> QED BY <1>1, <1>2, <1>3, <1>4, <1>5 DEF Next, Step

\* Importing once more what was imported without an error changes nothing: each node
\* is found where the first import has left it, by its providers or by the id that is
\* made from where it is, and what is planned and written is what is there.
THEOREM RepeatsChangeNothing == Spec => RepeatChangesNothing
<1>1. Transacted /\ Repeatable /\ [Next]_vars
        => [last # None /\ request # None /\ request.items = last.items /\ others' = others
              => db' = db]_vars
  <2> SUFFICES ASSUME Transacted, Repeatable, [Next]_vars,
                      last # None, request # None, request.items = last.items, others' = others
               PROVE  db' = db
      OBVIOUS
  <2>1. Counters /\ Repeating
    BY Zenon DEF Transacted, Typed, Repeatable
  <2> QED BY <2>1, RepeatStep
<1> QED BY <1>1, TransactedHolds, RepeatableHolds, PTL DEF Spec, RepeatChangesNothing
==============================================================================
