----------------------------- MODULE XiaoyaImport -----------------------------
(***************************************************************************)
(* scripts/tools/xiaoya_import.py: a program that is started again and     *)
(* again, reads directories of a site, keeps what it has built in an       *)
(* append-only file and how far it has come in a state file, and pushes    *)
(* what is new to the server in batches.  It may die at any point; the     *)
(* machine stays up.                                                       *)
(*                                                                         *)
(* A directory holds one item, or many (a loose directory).  A signature   *)
(* is modelled by the version of the directory it was computed from, and   *)
(* what is built and pushed under a signature by that signature.           *)
(***************************************************************************)
EXTENDS Naturals, Sequences, FiniteSets, SequencesExt

CONSTANTS
    Dirs,           \* directories of one category
    Items,          \* Items[d]: the items directory d holds
    FlushEvery,     \* --flush-every
    MaxBatch,       \* most items in one request
    MaxVersion,     \* bound: changes of a directory on the site
    MaxRuns,        \* bound: starts of the program
    MaxFaults,      \* bound: deaths, items and batches that fail, failed saves
    None

AllItems == UNION {Items[d] : d \in Dirs}

ASSUME ConstantsAssumption ==
    /\ IsFiniteSet(Dirs)
    /\ \A d \in Dirs : IsFiniteSet(Items[d]) /\ Items[d] # {}
    /\ \A d, e \in Dirs : d # e => Items[d] \cap Items[e] = {}
    /\ FlushEvery \in Nat \ {0} /\ MaxBatch \in Nat \ {0}
    /\ MaxVersion \in Nat /\ MaxRuns \in Nat /\ MaxFaults \in Nat
    /\ None \notin Nat

Versions == 0 .. MaxVersion
Loose    == {d \in Dirs : Cardinality(Items[d]) > 1}

\* A record of state.json; a row of items/<category>.jsonl, with the items that
\* could be built; an item to push, with the row it is from.
Record == [status : {"done", "failed"}, sig : Versions, pushed : Versions \cup {None}]
Row    == [dir : Dirs, sig : Versions, items : SUBSET AllItems]
Entry  == [dir : Dirs, sig : Versions, item : AllItems]

VARIABLES
    site,       \* version of each directory on the site
    listed,     \* version of each directory in the cached listings
    mem, disk,  \* state.json as the program holds it and as it is stored
    stored,     \* the row load_items finds for each directory
    fragment,   \* the items file ends in the middle of a line
    phase,      \* what the program is doing
    goal,       \* its command: "build", "run", "push" or "reset"
    todo,       \* directories still to build, with their signatures
    rows,       \* rows built and not yet appended
    built,      \* rows built in this run
    pending,    \* directories processed since the last flush
    queue,      \* items still to push
    batch,      \* items the server has accepted and that are not yet recorded
    server,     \* signature of each item the server has
    damaged,    \* history: directories whose newest row a crash has cost
    unsaved,    \* history: a save has failed since the last that succeeded
    runs, faults    \* the bounds

outside  == <<site, listed>>
state    == <<mem, disk>>
store    == <<stored, fragment>>
build    == <<todo, rows, built, pending>>
push     == <<queue, batch>>
history  == <<damaged, unsaved>>
bounds   == <<runs, faults>>
vars     == <<outside, state, store, phase, goal, build, push, server, history, bounds>>

-----------------------------------------------------------------------------
Nothing == [d \in Dirs |-> None]

Init ==
    /\ site = [d \in Dirs |-> 0] /\ listed = Nothing
    /\ mem = Nothing /\ disk = Nothing
    /\ stored = Nothing /\ fragment = FALSE
    /\ phase = "idle" /\ goal = None
    /\ todo = Nothing /\ rows = <<>> /\ built = Nothing /\ pending = 0
    /\ queue = <<>> /\ batch = <<>>
    /\ server = [i \in AllItems |-> None]
    /\ damaged = {} /\ unsaved = FALSE
    /\ runs = 0 /\ faults = 0

Fault == faults < MaxFaults /\ faults' = faults + 1 /\ UNCHANGED runs

\* The program is not running: what it held in memory is gone.
Ended ==
    /\ phase' = "idle" /\ goal' = None
    /\ mem' = Nothing
    /\ todo' = Nothing /\ rows' = <<>> /\ built' = Nothing /\ pending' = 0
    /\ queue' = <<>> /\ batch' = <<>>

(***************************************************************************)
(* Start: the state is loaded, and the site is searched                    *)
(***************************************************************************)

\* Somebody changes a directory on the site.
Change(d) ==
    /\ site[d] < MaxVersion
    /\ site' = [site EXCEPT ![d] = @ + 1]
    /\ UNCHANGED <<listed, state, store, phase, goal, build, push, server, history, bounds>>

Start(command) ==
    /\ phase = "idle" /\ runs < MaxRuns
    /\ goal' = command
    /\ runs' = runs + 1 /\ UNCHANGED faults

Same(d, sig) == disk[d] # None /\ disk[d].status = "done" /\ disk[d].sig = sig

\* fetch_dir: a listing comes from the cache while that is fresh.
Listing(d, cached) == IF d \in cached THEN listed[d] ELSE site[d]

\* Directories are found by their listings and classified; --limit or a listing
\* that fails hides some.
Discover(found, cached) ==
    /\ cached \subseteq {d \in found : listed[d] # None}
    /\ listed' = [d \in Dirs |-> IF d \in found THEN Listing(d, cached) ELSE listed[d]]

\* Those are built whose signature has changed; --full builds all, --since-days may
\* put off any that is known.
Select(found, full, late) ==
    /\ late \subseteq {d \in found : disk[d] # None}
    /\ todo' = [d \in Dirs |-> IF d \in found \ late /\ (full \/ ~Same(d, listed'[d]))
                               THEN listed'[d] ELSE None]

\* cmd_build and cmd_run.
StartBuild ==
    /\ \E command \in {"build", "run"} : Start(command)
    /\ mem' = disk
    /\ \E found \in SUBSET Dirs, full \in BOOLEAN :
         \E cached, late \in SUBSET found :
             Discover(found, cached) /\ Select(found, full, late)
    /\ phase' = "build"
    /\ UNCHANGED <<site, disk, store, rows, built, pending, push, server, history>>

(***************************************************************************)
(* build_category                                                          *)
(***************************************************************************)

\* The state is stored after every FlushEvery directories.
FlushDue(n) ==
    IF n >= FlushEvery THEN pending' = 0 /\ phase' = "append"
                       ELSE pending' = n /\ UNCHANGED phase

Update(d, status) ==
    [status |-> status, sig |-> todo[d],
     pushed |-> IF status = "done" /\ mem[d] # None THEN mem[d].pushed ELSE None]

\* build_entry_item: an item whose files cannot be read is left out.
BuildRow(d, missing) == [dir |-> d, sig |-> todo[d], items |-> Items[d] \ missing]

\* A directory with no item left has failed.
Build(d, missing) ==
    LET row == BuildRow(d, missing) IN
    /\ phase = "build" /\ todo[d] # None
    /\ IF missing = {} THEN UNCHANGED bounds ELSE Fault
    /\ IF missing = Items[d]
       THEN /\ mem' = [mem EXCEPT ![d] = Update(d, "failed")]
            /\ UNCHANGED <<rows, built>>
       ELSE /\ mem' = [mem EXCEPT ![d] = Update(d, "done")]
            /\ rows' = Append(rows, row)
            /\ built' = [built EXCEPT ![d] = row]
    /\ todo' = [todo EXCEPT ![d] = None]
    /\ FlushDue(pending + 1)
    /\ UNCHANGED <<outside, disk, store, goal, push, server, history>>

\* A directory that failed with the same signature is left alone, unless
\* --retry-failed is given; it does not count for the next flush.
SkipFailed(d) ==
    /\ phase = "build" /\ todo[d] # None
    /\ mem[d] # None /\ mem[d].status = "failed" /\ mem[d].sig = todo[d]
    /\ todo' = [todo EXCEPT ![d] = None]
    /\ UNCHANGED <<outside, state, store, phase, goal, rows, built, pending, push, server,
                   history, bounds>>

\* After the last directory what is left is stored.
BuildEnds ==
    /\ phase = "build" /\ todo = Nothing
    /\ phase' = "last" /\ pending' = 0
    /\ UNCHANGED <<outside, state, store, goal, todo, rows, built, push, server, history,
                   bounds>>

\* Mutant: the first row of a directory wins.
LoadFirst(new) ==
    stored' = IF stored[new.dir] = None THEN [stored EXCEPT ![new.dir] = new] ELSE stored

\* load_items: the last row of a directory wins.
LoadLast(new) == stored' = [stored EXCEPT ![new.dir] = new]

\* append_items, one line.  After a fragment it becomes part of a line that
\* nobody can read.
AppendRow ==
    /\ phase \in {"append", "last"} /\ rows # <<>>
    /\ LET new == Head(rows) IN
       IF fragment
       THEN damaged' = damaged \cup {new.dir} /\ UNCHANGED stored
       ELSE LoadLast(new) /\ damaged' = damaged \ {new.dir}
    /\ fragment' = FALSE
    /\ rows' = Tail(rows)
    /\ UNCHANGED <<outside, state, phase, goal, todo, built, pending, push, server, unsaved,
                   bounds>>

\* Store.save: the new state replaces the old one; if that and overwriting fail,
\* it is reported, and the program goes on.
Saved(new) ==
    \/ disk' = new /\ unsaved' = FALSE /\ UNCHANGED bounds
    \/ UNCHANGED disk /\ unsaved' = TRUE /\ Fault

\* Mutant: the state is saved before the rows are appended.
SaveEarly ==
    /\ phase \in {"append", "last"}
    /\ Saved(mem)
    /\ phase' = IF rows # <<>> THEN phase ELSE IF phase = "append" THEN "build"
                ELSE IF goal = "run" THEN "collect" ELSE "end"
    /\ UNCHANGED <<outside, mem, store, goal, build, push, server, damaged>>

\* The rows are all appended; then the state is saved.
Save ==
    /\ phase \in {"append", "last"} /\ rows = <<>>
    /\ Saved(mem)
    /\ phase' = IF phase = "append" THEN "build"
                ELSE IF goal = "run" THEN "collect" ELSE "end"
    /\ UNCHANGED <<outside, mem, store, goal, build, push, server, damaged>>

(***************************************************************************)
(* What is to be pushed                                                    *)
(***************************************************************************)

\* Rows are queued item by item.
ToPush(source, dirs) ==
    \E order \in SetToSeqs(dirs) :
        queue' = FlattenSeq([k \in 1 .. Len(order) |->
                    LET row == source[order[k]] IN
                    [n \in 1 .. Cardinality(row.items) |->
                        [dir |-> row.dir, sig |-> row.sig, item |-> SetToSeq(row.items)[n]]]])

Unpushed(records, d) ==
    records[d] # None /\ records[d].status = "done" /\ records[d].pushed # records[d].sig

\* cmd_run: what was built now, and what was built before under the recorded
\* signature and not pushed; with --push-all every row there is.  --compact
\* rewrites the file and so removes a fragment.
Collect(all, compact) ==
    LET source == IF all THEN stored ELSE
                  [d \in Dirs |-> IF built[d] # None THEN built[d] ELSE
                                  IF Unpushed(mem, d) /\ stored[d] # None
                                     /\ stored[d].sig = mem[d].sig
                                  THEN stored[d] ELSE None]
    IN
    /\ phase = "collect"
    /\ ToPush(source, {d \in Dirs : source[d] # None})
    /\ fragment' = (fragment /\ ~compact)
    /\ phase' = "push"
    /\ UNCHANGED <<outside, state, stored, goal, build, batch, server, history, bounds>>

\* cmd_push: the rows found for the directories that are not recorded as pushed, or
\* with --push-all for all that are built.
StartPush(all) ==
    /\ Start("push")
    /\ mem' = disk
    /\ ToPush(stored, {d \in Dirs : /\ stored[d] # None
                                    /\ disk[d] # None /\ disk[d].status = "done"
                                    /\ all \/ Unpushed(disk, d)})
    /\ phase' = IF queue' = <<>> THEN "end" ELSE "push"
    /\ UNCHANGED <<outside, disk, store, build, batch, server, history>>

(***************************************************************************)
(* push_rows: the batches follow each other                                *)
(***************************************************************************)

Sent(n) == SubSeq(queue, 1, n)
Applied(sent) ==
    server' = [i \in AllItems |->
        IF \E e \in sent : e.item = i THEN (CHOOSE e \in sent : e.item = i).sig ELSE server[i]]

\* Size in bytes and in nodes may end a batch before it has MaxBatch items.
Batch(n) == phase = "push" /\ n \in 1 .. MaxBatch /\ n <= Len(queue)

PostAccepted(n) ==
    /\ Batch(n)
    /\ Applied(ToSet(Sent(n)))
    /\ batch' = Sent(n) /\ queue' = SubSeq(queue, n + 1, Len(queue))
    /\ phase' = "mark"
    /\ UNCHANGED <<outside, state, store, goal, build, history, bounds>>

\* Mutant: a batch of which the server has taken a part is taken for accepted.
PostPartlyMarked(n) ==
    /\ Batch(n)
    /\ \E sent \in SUBSET ToSet(Sent(n)) : sent # ToSet(Sent(n)) /\ Applied(sent)
    /\ Fault
    /\ batch' = Sent(n) /\ queue' = SubSeq(queue, n + 1, Len(queue))
    /\ phase' = "mark"
    /\ UNCHANGED <<outside, state, store, goal, build, history>>

\* The server refuses the batch or reports errors for some of its items.
PostRefused(n) ==
    /\ Batch(n)
    /\ \E sent \in SUBSET ToSet(Sent(n)) : sent # ToSet(Sent(n)) /\ Applied(sent)
    /\ Fault
    /\ queue' = SubSeq(queue, n + 1, Len(queue))
    /\ UNCHANGED <<outside, state, store, phase, goal, build, batch, history>>

\* No answer arrives, which ends the program; the server may have taken the batch.
PostLost(n) ==
    /\ Batch(n)
    /\ \E sent \in SUBSET ToSet(Sent(n)) : Applied(sent)
    /\ Fault
    /\ Ended
    /\ UNCHANGED <<outside, disk, store, history>>

\* done: a directory counts as pushed when an item of it was.
Mark ==
    /\ phase = "mark"
    /\ mem' = [d \in Dirs |->
            IF mem[d] # None /\ \E e \in ToSet(batch) : e.dir = d
            THEN [mem[d] EXCEPT !.pushed = (CHOOSE e \in ToSet(batch) : e.dir = d).sig]
            ELSE mem[d]]
    /\ Saved(mem')
    /\ phase' = "push" /\ batch' = <<>>
    /\ UNCHANGED <<outside, store, goal, build, queue, server, damaged>>

\* The state is saved once more after the last batch.
PushEnds ==
    /\ phase = "push" /\ queue = <<>>
    /\ Saved(mem)
    /\ Ended
    /\ UNCHANGED <<outside, store, server, damaged>>

\* The program ends without another save.
Finish ==
    /\ phase = "end"
    /\ Ended
    /\ UNCHANGED <<outside, disk, store, server, history, bounds>>

(***************************************************************************)
(* cmd_reset, and death                                                    *)
(***************************************************************************)

\* The rows are removed before the records.
ResetRemove ==
    /\ Start("reset")
    /\ mem' = Nothing
    /\ stored' = Nothing /\ fragment' = FALSE
    /\ damaged' = {d \in Dirs : disk[d] # None}
    /\ phase' = "reset"
    /\ UNCHANGED <<outside, disk, build, push, server, unsaved>>

ResetSave ==
    /\ phase = "reset"
    /\ Saved(mem)
    /\ damaged' = IF unsaved' THEN damaged ELSE {}
    /\ Ended
    /\ UNCHANGED <<outside, store, server>>

\* The process dies, or Ctrl+C ends it; a row may be cut off.
Die ==
    /\ phase # "idle"
    /\ Fault
    /\ Ended
    /\ fragment' \in {fragment, fragment \/ (rows # <<>> /\ phase \in {"append", "last"})}
    /\ UNCHANGED <<outside, disk, stored, server, history>>

\* It dies while it overwrites a state it could not replace, and the next start
\* cannot read what is left.
DieOverwriting ==
    /\ \/ phase \in {"append", "last"} /\ rows = <<>>
       \/ phase \in {"mark", "reset"}
       \/ phase = "push" /\ queue = <<>>
    /\ Fault
    /\ Ended
    /\ disk' = Nothing /\ unsaved' = FALSE
    /\ UNCHANGED <<outside, store, server, damaged>>

-----------------------------------------------------------------------------
Next ==
    \/ \E d \in Dirs : Change(d) \/ SkipFailed(d)
    \/ \E d \in Dirs : \E missing \in SUBSET Items[d] : Build(d, missing)
    \/ StartBuild \/ BuildEnds \/ AppendRow \/ Save
    \/ \E all, compact \in BOOLEAN : Collect(all, compact)
    \/ \E all \in BOOLEAN : StartPush(all)
    \/ \E n \in 1 .. MaxBatch : PostAccepted(n) \/ PostRefused(n) \/ PostLost(n)
    \/ Mark \/ PushEnds \/ Finish
    \/ ResetRemove \/ ResetSave
    \/ Die \/ DieOverwriting

Spec == Init /\ [][Next]_vars
-----------------------------------------------------------------------------
Phases == {"idle", "build", "append", "last", "collect", "push", "mark", "reset", "end"}

\* Every variable has its type.
TypeOK ==
    /\ site \in [Dirs -> Versions] /\ listed \in [Dirs -> Versions \cup {None}]
    /\ mem \in [Dirs -> Record \cup {None}] /\ disk \in [Dirs -> Record \cup {None}]
    /\ stored \in [Dirs -> Row \cup {None}] /\ fragment \in BOOLEAN
    /\ phase \in Phases /\ goal \in {"build", "run", "push", "reset", None}
    /\ todo \in [Dirs -> Versions \cup {None}] /\ built \in [Dirs -> Row \cup {None}]
    /\ rows \in Seq(Row) /\ pending \in 0 .. FlushEvery - 1
    /\ queue \in Seq(Entry) /\ batch \in Seq(Entry)
    /\ server \in [AllItems -> Versions \cup {None}]
    /\ damaged \subseteq Dirs /\ unsaved \in BOOLEAN
    /\ runs \in 0 .. MaxRuns /\ faults \in 0 .. MaxFaults

\* What the state file records as built can be loaded and is no older than the
\* record, whatever crashes came before, unless a torn line or a reset that was cut
\* off has cost the row: a directory recorded as built is not built again.
ResumeSafe ==
    \A d \in Dirs \ damaged :
        disk[d] # None /\ disk[d].status = "done" =>
            stored[d] # None /\ stored[d].sig >= disk[d].sig

\* A crash costs at most the work of FlushEvery directories, as long as saves
\* succeed: only so many records differ from the ones on disk.
BoundedLoss ==
    ~unsaved /\ phase \in {"build", "append", "last"} =>
        Cardinality({d \in Dirs : mem[d] # disk[d]}) <= FlushEvery

\* After a crash the work goes on from what the two files hold.
ResumesWhereItWas == ResumeSafe /\ BoundedLoss

\* A directory is on the server, item by item and no older, as it is recorded.
Served(d) ==
    \A rec \in {mem[d], disk[d]} :
        rec # None /\ rec.pushed # None =>
            \A i \in (IF stored[d] = None THEN {} ELSE stored[d].items) :
                server[i] # None /\ server[i] >= rec.pushed

\* A directory with one item that is recorded as pushed is on the server, in that
\* version or a later one: no death between a batch and its record, no partial
\* failure and no repeated push makes the tool skip what the server lacks.  (With its
\* row lost, --push-all would send an older one.)
PushedServed == \A d \in Dirs \ (Loose \cup damaged) : Served(d)

\* docs/XIAOYA_IMPORT.md: what was built and not pushed successfully is pushed the
\* next time.  So what a run leaves recorded as pushed is on the
\* server.
PushedIsOnServer == phase = "idle" => \A d \in Dirs \ damaged : Served(d)

\* No push replaces an item by an older version, unless its row was lost.
NeverOlder ==
    [][\A d \in Dirs \ damaged : \A i \in Items[d] :
        server[i] # None => server'[i] >= server[i]]_vars
=============================================================================
