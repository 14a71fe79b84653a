------------------------------- MODULE Catalog -------------------------------
(***************************************************************************)
(* The tables that the administration, the importer and the players write, *)
(* and the snapshots that are taken of them and restored:                  *)
(* internal/api/admin, internal/database/virtual.go, internal/transfer.    *)
(*                                                                         *)
(* No foreign key protects the tables.  Some handlers look on the handle   *)
(* for reading and insert later on the one for writing; others do all in   *)
(* one transaction, and are one step.  `sources' stands for the images and *)
(* subtitles of items too, and genres for studios and persons.             *)
(***************************************************************************)
EXTENDS AccessPolicy, Sequences

CONSTANTS
    NewIds,     \* the ids that are made up, in this order
    Names,      \* names of libraries and users
    Ratings,    \* ratings that an update may write
    Genres,     \* ids of the rows of genres, made from their names
    ImportIds,  \* ids that imports may name
    Shapes,     \* the items that are created: [kind, rating, hidden, genres]
    Policies,   \* the stored policies of the users
    Starts,     \* the databases there may be at the start
    MaxOps,     \* bound: operations
    MaxExported,    \* bound: operations before and during an export
    MaxJobs,    \* bound: handlers between two statements
    MaxRows,    \* the rows of a snapshot of 256 MiB, the most that is read
    Broken

VARIABLES
    db,         \* [libs, items, sources, users, progress]
    jobs,       \* the handlers between two statements, with what they know
    made,       \* how many ids have been made up
    export,     \* the transaction that reads, or None
    file,       \* the snapshot: None, Broken or what it holds
    target,     \* the database that snapshots are restored into
    late,       \* history: references whose target was gone when they were written
    removed,    \* history: the rows of genres that were deleted
    ops         \* bound

vars == <<db, jobs, made, export, file, target, late, removed, ops>>
transfers == <<export, file, target>>

-----------------------------------------------------------------------------
(***************************************************************************)
(* Tables                                                                  *)
(***************************************************************************)
Add(f, k, v)  == [i \in DOMAIN f \cup {k} |-> IF i = k THEN v ELSE f[i]]
Drop(f, S)    == [i \in DOMAIN f \ S |-> f[i]]
Empty == LET Nothing == Drop([i \in {} |-> None], {})
         IN  [libs |-> Nothing, items |-> Nothing, sources |-> Nothing, users |-> Nothing,
              progress |-> {}]

IsVirtual(row) == row.kind \in VirtualTypes
GenreRow == [lib |-> None, parent |-> None, kind |-> "genre", hidden |-> FALSE, genres |-> {},
             rating |-> [word |-> "", written |-> "plain"]]

\* What refers to what: a parent is one in the same library.
RefsOfItem(i, row) ==
    (IF IsVirtual(row) THEN {} ELSE {<<"library", i, row.lib>>})
    \cup (IF row.parent = None THEN {} ELSE {<<"parent", i, row.parent>>})
RefsOfProgress(p) == {<<"user", p, p.user>>, <<"item", p, p.item>>}

ItemRefs(d)     == UNION {RefsOfItem(i, d.items[i]) : i \in DOMAIN d.items}
SourceRefs(d)   == {<<"source", s, d.sources[s]>> : s \in DOMAIN d.sources}
ProgressRefs(d) == UNION {RefsOfProgress(p) : p \in d.progress}

Refs(d) == ItemRefs(d) \cup SourceRefs(d) \cup ProgressRefs(d)

Hits(d, ref) == CASE ref[1] = "library" -> ref[3] \in DOMAIN d.libs
                  [] ref[1] = "user"    -> ref[3] \in DOMAIN d.users
                  [] ref[1] = "parent"  -> /\ ref[3] \in DOMAIN d.items
                                           /\ d.items[ref[3]].lib = d.items[ref[2]].lib
                  [] OTHER              -> ref[3] \in DOMAIN d.items

Dangling(d) == {ref \in Refs(d) : ~Hits(d, ref)}

-----------------------------------------------------------------------------
(***************************************************************************)
(* What the constants may be                                               *)
(***************************************************************************)
ASSUME BoundsAssumption ==
    /\ MaxOps \in Nat /\ MaxJobs \in Nat /\ MaxRows \in Nat
    /\ MaxExported \in 0 .. MaxOps

MadeUp == {NewIds[n] : n \in 1 .. Len(NewIds)}

\* An id that is made up is nobody else's.
ASSUME IdsAssumption ==
    /\ NewIds \in Seq(MadeUp)
    /\ \A m, n \in 1 .. Len(NewIds) : NewIds[m] = NewIds[n] => m = n
    /\ None \notin MadeUp \cup Genres \cup ImportIds
    /\ MadeUp \cap (Genres \cup ImportIds) = {}
    /\ \A d \in Starts : MadeUp \cap DOMAIN d.items = {}
    /\ \A name \in Names : <<"library", name>> # None

ASSUME ShapesAssumption ==
    \A shape \in Shapes : shape.genres \subseteq Genres /\ IsFiniteSet(shape.genres)

\* The Emby handler that creates users takes an empty name, too.
UserNames == Names \cup {""}

Columns == {"lib", "parent", "kind", "rating", "hidden", "genres"}

IsTables(d) == d = [libs |-> d.libs, items |-> d.items, sources |-> d.sources,
                    users |-> d.users, progress |-> d.progress]

LibsFit(libs) ==
    /\ None \notin DOMAIN libs
    /\ \A l \in DOMAIN libs : libs[l] \in Names
    /\ \A l, m \in DOMAIN libs : libs[l] = libs[m] => l = m

ItemsFit(items) ==
    /\ IsFiniteSet(DOMAIN items) /\ None \notin DOMAIN items
    /\ \A i \in DOMAIN items : DOMAIN items[i] = Columns /\ items[i].genres \subseteq Genres

UsersFit(users) ==
    /\ \A u \in DOMAIN users : /\ DOMAIN users[u] = {"name", "hash"}
                               /\ users[u].name \in UserNames /\ users[u].hash \in BOOLEAN
    /\ \A u, v \in DOMAIN users : users[u].name = users[v].name => u = v

\* Tables with rows of their type, whose names are unique.
WellFormed(d) == IsTables(d) /\ LibsFit(d.libs) /\ ItemsFit(d.items) /\ UsersFit(d.users)

\* A parent stands higher than its children, unless the reference was late.
IsRank(rank, d, lates) ==
    \A i \in DOMAIN d.items :
        LET parent == d.items[i].parent
        IN  parent \in DOMAIN d.items /\ <<"parent", i, parent>> \notin lates
                => rank[parent] < rank[i]

\* What is loose at the start is late; the rest is in order.
ASSUME StartsAssumption ==
    \A d \in Starts :
        /\ WellFormed(d)
        /\ \A i \in DOMAIN d.items : d.items[i].genres \subseteq DOMAIN d.items
        /\ \E rank \in [DOMAIN d.items -> 0 .. Cardinality(DOMAIN d.items)] :
               IsRank(rank, d, Dangling(d))

-----------------------------------------------------------------------------
Init ==
    /\ db \in Starts
    /\ jobs = {} /\ made = 0 /\ ops = 0
    /\ export = None /\ file = None /\ target = Empty
    /\ late = Dangling(db) /\ removed = {}

\* The rows that a step adds to what there is are late if their target is gone.
Recorded(refs) == late' = {ref \in late \cup {r \in refs : ~Hits(db', r)} : ref \in Refs(db')}

Write(refs) == Recorded(refs) /\ UNCHANGED transfers
IsSnapshot  == file # None /\ file # Broken
\* Nothing more is done once there is a snapshot, which it could not change.
Count ==
    /\ ops < (IF file = None THEN MaxOps ELSE MaxExported) /\ ~IsSnapshot
    /\ ops' = ops + 1

FreshId == NewIds[made + 1]
MakeId  == made < Len(NewIds) /\ made' = made + 1

Enter(job)     == Cardinality(jobs) < MaxJobs /\ jobs' = jobs \cup {job}
Leave(job)     == jobs' = jobs \ {job}
Becomes(j, j2) == jobs' = (jobs \ {j}) \cup {j2}

NoWrite == UNCHANGED <<db, late, removed, transfers>>

(***************************************************************************)
(* createItem                                                              *)
(***************************************************************************)
RowOf(shape, lib, parent) ==
    [lib |-> lib, parent |-> parent, kind |-> shape.kind, rating |-> shape.rating,
     hidden |-> shape.hidden, genres |-> shape.genres]

ParentFits(lib, parent) ==
    parent # None => parent \in DOMAIN db.items /\ db.items[parent].lib = lib

CreateItemLook(lib, parent, shape) ==
    /\ lib \in DOMAIN db.libs /\ ParentFits(lib, parent)
    /\ Count /\ MakeId
    /\ Enter([op |-> "item", id |-> FreshId, row |-> RowOf(shape, lib, parent),
              todo |-> shape.genres, missing |-> None])
    /\ NoWrite

\* EnsureVirtualItem looks for the row of a genre ...
EnsureLook(j) ==
    /\ j.op = "item" /\ j.missing = None
    /\ \E g \in j.todo :
        IF g \in DOMAIN db.items THEN Becomes(j, [j EXCEPT !.todo = @ \ {g}])
                                 ELSE Becomes(j, [j EXCEPT !.missing = g])
    /\ NoWrite /\ UNCHANGED <<made, ops>>

\* ... and makes it, unless somebody else was faster: then the request fails.
EnsureMake(j) ==
    /\ j.op = "item" /\ j.missing # None
    /\ IF j.missing \in DOMAIN db.items
       THEN Leave(j) /\ NoWrite
       ELSE /\ db' = [db EXCEPT !.items = Add(@, j.missing, GenreRow)]
            /\ Becomes(j, [j EXCEPT !.todo = @ \ {j.missing}, !.missing = None])
            /\ Write({})
            /\ UNCHANGED removed
    /\ UNCHANGED <<made, ops>>

\* Mutant: the item is inserted before the rows of its genres.
CreateItemEarly(j) ==
    /\ j.op = "item" /\ j.missing = None /\ j.id \notin DOMAIN db.items
    /\ db' = [db EXCEPT !.items = Add(@, j.id, j.row)]
    /\ IF j.todo = {} THEN Leave(j) ELSE UNCHANGED jobs
    /\ Write(RefsOfItem(j.id, j.row))
    /\ UNCHANGED <<made, removed, ops>>

CreateItem(j) ==
    /\ j.op = "item" /\ j.todo = {}
    /\ db' = [db EXCEPT !.items = Add(@, j.id, j.row)]
    /\ Leave(j)
    /\ Write(RefsOfItem(j.id, j.row))
    /\ UNCHANGED <<made, removed, ops>>

(***************************************************************************)
(* Other handlers of items                                                 *)
(***************************************************************************)

\* Of the columns that can be updated two decide who sees the item.  (An
\* update that changes neither is left out.)
UpdateItem(i, hidden, rating) ==
    /\ i \in DOMAIN db.items
    /\ db.items[i].hidden # hidden \/ db.items[i].rating # rating
    /\ Count
    /\ db' = [db EXCEPT !.items[i].hidden = hidden, !.items[i].rating = rating]
    /\ Write({})
    /\ UNCHANGED <<jobs, made, removed>>

\* The ids that are found by going down from i.
Subtree(items, i) == Below(items, {i})

WithoutItems(d, gone) ==
    [d EXCEPT !.items    = Drop(@, gone),
              !.sources  = Drop(@, {s \in DOMAIN @ : @[s] \in gone}),
              !.progress = {p \in @ : p.item \notin gone}]

\* Mutant: only the children go with the item.
DeleteItemShallow(i) ==
    /\ i \in DOMAIN db.items
    /\ Count
    /\ db' = WithoutItems(db, {i} \cup {c \in DOMAIN db.items : db.items[c].parent = i})
    /\ UNCHANGED removed
    /\ Write({})
    /\ UNCHANGED <<jobs, made>>

\* The rows of genres are items as well.
DeleteItem(i) ==
    /\ i \in DOMAIN db.items
    /\ Count
    /\ db' = WithoutItems(db, Subtree(db.items, i))
    /\ removed' = removed \cup (Subtree(db.items, i) \cap Genres)
    /\ Write({})
    /\ UNCHANGED <<jobs, made>>

AddSourceLook(i) ==
    /\ i \in DOMAIN db.items
    /\ Count /\ MakeId
    /\ Enter([op |-> "source", id |-> FreshId, item |-> i])
    /\ NoWrite

AddSource(j) ==
    /\ j.op = "source"
    /\ db' = [db EXCEPT !.sources = Add(@, j.id, j.item)]
    /\ Leave(j)
    /\ Write({<<"source", j.id, j.item>>})
    /\ UNCHANGED <<made, removed, ops>>

DeleteSource(s) ==
    /\ s \in DOMAIN db.sources
    /\ Count
    /\ db' = [db EXCEPT !.sources = Drop(@, {s})]
    /\ Write({})
    /\ UNCHANGED <<jobs, made, removed>>

(***************************************************************************)
(* One item of a batch import: BatchImport has the details                 *)
(***************************************************************************)
LibsNamed(name) == {l \in DOMAIN db.libs : db.libs[l] = name}

ImportFits(kind, lib, parent) ==
    IF parent = None THEN kind \notin {"season", "episode"}
    ELSE /\ ParentFits(lib, parent)
         /\ <<kind, db.items[parent].kind>> \in {<<"season", "series">>, <<"episode", "season">>}

\* With the library, the rows of genres and the item, whose sources are replaced.
WithImported(d, lib, name, id, row) ==
    LET rows == [g \in row.genres |-> GenreRow]
    IN  [d EXCEPT !.libs    = Add(@, lib, name),
                  !.items   = Add([i \in DOMAIN @ \cup DOMAIN rows |->
                                      IF i \in DOMAIN @ THEN @[i] ELSE rows[i]], id, row),
                  !.sources = Add(Drop(@, {s \in DOMAIN @ : @[s] = id}), <<"source", id>>, id)]

ImportItem(name, id, parent, shape) ==
    LET lib   == IF LibsNamed(name) = {} THEN <<"library", name>>
                 ELSE CHOOSE l \in LibsNamed(name) : TRUE
        row   == RowOf(shape, lib, parent)
        known == id \in DOMAIN db.items
    IN
    /\ LibsNamed(name) = {} => lib \notin DOMAIN db.libs
    /\ ImportFits(shape.kind, lib, parent) /\ parent # id
    /\ known => /\ db.items[id].lib = lib /\ db.items[id].parent = parent
                /\ db.items[id].kind = shape.kind
    /\ Count
    /\ db' = WithImported(db, lib, name, id, row)
    /\ Write(RefsOfItem(id, row))
    /\ UNCHANGED <<jobs, made, removed>>

(***************************************************************************)
(* Libraries                                                               *)
(***************************************************************************)

NameTaken(name, lib) == LibsNamed(name) \ {lib} # {}

CreateLibrary(name) ==
    /\ Count /\ MakeId
    /\ ~NameTaken(name, FreshId)
    /\ db' = [db EXCEPT !.libs = Add(@, FreshId, name)]
    /\ Write({})
    /\ UNCHANGED <<jobs, removed>>

RenameLibrary(lib, name) ==
    /\ lib \in DOMAIN db.libs /\ db.libs[lib] # name
    /\ ~NameTaken(name, lib)
    /\ Count
    /\ db' = [db EXCEPT !.libs[lib] = name]
    /\ Write({})
    /\ UNCHANGED <<jobs, made, removed>>

\* Only an empty one.
DeleteLibrary(lib) ==
    /\ lib \in DOMAIN db.libs
    /\ \A i \in DOMAIN db.items : db.items[i].lib # lib
    /\ Count
    /\ db' = [db EXCEPT !.libs = Drop(@, {lib})]
    /\ Write({})
    /\ UNCHANGED <<jobs, made, removed>>

(***************************************************************************)
(* Users and their progress                                                *)
(***************************************************************************)
UsersNamed(name) == {u \in DOMAIN db.users : db.users[u].name = name}
NewUser(name, hash) == [name |-> name, hash |-> hash]

\* The administrator's: checked and inserted in one transaction.
CreateUser(name) ==
    /\ UsersNamed(name) = {}
    /\ Count /\ MakeId
    /\ db' = [db EXCEPT !.users = Add(@, FreshId, NewUser(name, TRUE))]
    /\ Write({})
    /\ UNCHANGED <<jobs, removed>>

\* The Emby one: the user has no password yet.
CreateUserCoreLook(name) ==
    /\ UsersNamed(name) = {}
    /\ Count /\ MakeId
    /\ Enter([op |-> "user", id |-> FreshId, name |-> name])
    /\ NoWrite

\* The index on names refuses a second one.
CreateUserCore(j) ==
    /\ j.op = "user"
    /\ Leave(j)
    /\ IF UsersNamed(j.name) # {} THEN NoWrite
       ELSE /\ db' = [db EXCEPT !.users = Add(@, j.id, NewUser(j.name, FALSE))]
            /\ Write({})
            /\ UNCHANGED removed
    /\ UNCHANGED <<made, ops>>

\* A new password, or none any more.
SetPassword(u, hash) ==
    /\ u \in DOMAIN db.users /\ db.users[u].hash # hash
    /\ Count
    /\ db' = [db EXCEPT !.users[u].hash = hash]
    /\ Write({})
    /\ UNCHANGED <<jobs, made, removed>>

DeleteUser(u) ==
    /\ u \in DOMAIN db.users
    /\ Count
    /\ db' = [db EXCEPT !.users = Drop(@, {u}), !.progress = {p \in @ : p.user # u}]
    /\ Write({})
    /\ UNCHANGED <<jobs, made, removed>>

Put(p) ==
    /\ db' = [db EXCEPT !.progress = @ \cup {p}]
    /\ Write(RefsOfProgress(p))

\* A report looks for its user and its item, and writes later.
ReportLook(u, i) ==
    /\ u \in DOMAIN db.users /\ i \in DOMAIN db.items
    /\ Count
    /\ Enter([op |-> "report", user |-> u, item |-> i])
    /\ NoWrite /\ UNCHANGED made

Report(j) ==
    /\ j.op = "report"
    /\ Put([user |-> j.user, item |-> j.item])
    /\ Leave(j)
    /\ UNCHANGED <<made, removed, ops>>

\* Marking as played or as a favourite looks for neither.
Mark(u, i) ==
    /\ Count
    /\ Put([user |-> u, item |-> i])
    /\ UNCHANGED <<jobs, made, removed>>

\* The database fails, or the program ends.
JobFails(j) == Leave(j) /\ NoWrite /\ UNCHANGED <<made, ops>>

(***************************************************************************)
(* fakemby export: a transaction that reads table after table              *)
(***************************************************************************)
Tables == <<"libs", "items", "sources", "users", "progress">>
Idle == UNCHANGED <<db, jobs, made, late, removed, ops>>

\* The file is created first, and stays if the rest fails.
ExportBegin ==
    /\ export = None /\ file = None /\ ops <= MaxExported
    /\ export' = [read |-> 0, at |-> Empty, got |-> Empty, late |-> {}]
    /\ file' = Broken
    /\ Idle /\ UNCHANGED target

\* Mutant: every table is read as it is by then.
ReadTableLive ==
    /\ export # None /\ export.read < Len(Tables)
    /\ LET t == Tables[export.read + 1] IN
         export' = [export EXCEPT !.read = @ + 1, !.at = IF @ = Empty THEN db ELSE @,
                                  !.late = late, !.got[t] = db[t]]
    /\ Idle /\ UNCHANGED <<file, target>>

\* The transaction sees what there was at its first read.
ReadTable ==
    /\ export # None /\ export.read < Len(Tables)
    /\ LET t     == Tables[export.read + 1]
           first == export.read = 0
           at    == IF first THEN db ELSE export.at
       IN  export' = [export EXCEPT !.read = @ + 1, !.at = at, !.got[t] = at[t],
                                    !.late = IF first THEN late ELSE @]
    /\ Idle /\ UNCHANGED <<file, target>>

ExportEnd ==
    /\ export # None /\ export.read = Len(Tables)
    /\ file' = [data |-> export.got, late |-> export.late, whole |-> export.got = export.at]
    /\ export' = None
    /\ Idle /\ UNCHANGED target

ExportFails ==
    /\ export # None
    /\ export' = None
    /\ Idle /\ UNCHANGED <<file, target>>

(***************************************************************************)
(* fakemby import                                                          *)
(***************************************************************************)
HasPath(items, i) ==
    LET Placed(c) == items[c].parent \in DOMAIN items => items[items[c].parent].lib = items[c].lib
    IN  i \in Rising(items, {c \in DOMAIN items : Placed(c)})

\* Ids are never empty nor doubled, and positions never negative, in a database
\* that the program has written.
Validate(d) ==
    /\ \A u \in DOMAIN d.users : d.users[u].name # "" /\ d.users[u].hash
    /\ \A u, v \in DOMAIN d.users : d.users[u].name = d.users[v].name => u = v
    /\ \A i \in DOMAIN d.items : IsVirtual(d.items[i]) \/ d.items[i].lib \in DOMAIN d.libs
    /\ \A i \in DOMAIN d.items : HasPath(d.items, i)
    /\ \A s \in DOMAIN d.sources : d.sources[s] \in DOMAIN d.items
    /\ \A p \in d.progress : p.item \in DOMAIN d.items /\ p.user \in DOMAIN d.users

\* No more than 256 MiB are read.  Export has no such limit.
RowsOf(d) == Cardinality(DOMAIN d.libs) + Cardinality(DOMAIN d.items)
             + Cardinality(DOMAIN d.sources) + Cardinality(DOMAIN d.users)
             + Cardinality(d.progress)
Fits(d) == RowsOf(d) <= MaxRows

\* One transaction: into an empty database, all or nothing.
Restore ==
    /\ IsSnapshot /\ Fits(file.data) /\ Validate(file.data)
    /\ target = Empty
    /\ target' = file.data
    /\ Idle /\ UNCHANGED <<export, file>>

-----------------------------------------------------------------------------
Parents == {None} \cup DOMAIN db.items

Administrator ==
    \/ \E lib \in DOMAIN db.libs, parent \in Parents, shape \in Shapes :
            CreateItemLook(lib, parent, shape)
    \/ \E j \in jobs : EnsureLook(j) \/ EnsureMake(j) \/ CreateItem(j)
    \/ \E i \in DOMAIN db.items, hidden \in BOOLEAN :
            \E rating \in Ratings \cup {db.items[i].rating} : UpdateItem(i, hidden, rating)
    \/ \E i \in DOMAIN db.items : DeleteItem(i) \/ AddSourceLook(i)
    \/ \E j \in jobs : AddSource(j)
    \/ \E s \in DOMAIN db.sources : DeleteSource(s)
    \/ \E name \in Names, id \in ImportIds, parent \in Parents, shape \in Shapes :
            ImportItem(name, id, parent, shape)
    \/ \E name \in Names : CreateLibrary(name)
    \/ \E lib \in DOMAIN db.libs, name \in Names : RenameLibrary(lib, name)
    \/ \E lib \in DOMAIN db.libs : DeleteLibrary(lib)

Accounts ==
    \/ \E name \in Names : CreateUser(name)
    \/ \E name \in UserNames : CreateUserCoreLook(name)
    \/ \E j \in jobs : CreateUserCore(j)
    \/ \E u \in DOMAIN db.users, hash \in BOOLEAN : SetPassword(u, hash)
    \/ \E u \in DOMAIN db.users : DeleteUser(u)

Players ==
    \/ \E u \in DOMAIN db.users, i \in DOMAIN db.items : ReportLook(u, i)
    \/ \E j \in jobs : Report(j)
    \/ \E u \in DOMAIN db.users, i \in DOMAIN db.items \cup ImportIds : Mark(u, i)

Transfer ==
    \/ ExportBegin \/ ReadTable \/ ExportEnd \/ ExportFails
    \/ Restore

Next ==
    \/ Administrator \/ Accounts \/ Players \/ Transfer
    \/ \E j \in jobs : JobFails(j)

Spec == Init /\ [][Next]_vars

-----------------------------------------------------------------------------
\* The types of the variables: tables, handlers and the history.
TypeOK ==
    /\ DOMAIN db = {"libs", "items", "sources", "users", "progress"}
    /\ \A l \in DOMAIN db.libs : db.libs[l] \in Names
    /\ \A i \in DOMAIN db.items : db.items[i].genres \subseteq Genres
    /\ \A u \in DOMAIN db.users : db.users[u].name \in UserNames /\ db.users[u].hash \in BOOLEAN
    /\ Cardinality(jobs) <= MaxJobs
    /\ made \in 0 .. Len(NewIds) /\ ops \in 0 .. MaxOps
    /\ late \subseteq Refs(db) /\ removed \subseteq Genres

\* Deleting takes along everything that refers to what is deleted: a
\* reference without a target was written after its target had gone, by a
\* handler that had looked before, or not at all.
NoLooseEnds == Dangling(db) \subseteq late

\* No two libraries have the same name, which the importer finds them by,
\* however creations, renamings and imports meet.
LibraryNamesUnique == \A l, m \in DOMAIN db.libs : db.libs[l] = db.libs[m] => l = m

\* The genres of an item can be opened (virtual.go:15): each has its row,
\* unless an administrator has deleted that.
GenresListed ==
    \A i \in DOMAIN db.items : db.items[i].genres \subseteq DOMAIN db.items \cup removed

\* The three above: what the tables promise each other.
CatalogueConsistent == NoLooseEnds /\ LibraryNamesUnique /\ GenresListed

\* A snapshot is the database of one instant of the export, whatever is
\* written meanwhile, and it is restored completely or not at all.
RestoredIsOneInstant == target # Empty => file.whole /\ target = file.data

\* All that is loose is late; and something is, or a late parent closes a circle.
LateLinks(d, lates) ==
    /\ Dangling(d) \subseteq lates
    /\ \/ Dangling(d) # {}
       \/ \E ref \in lates : ref[1] = "parent" /\ ~HasPath(d.items, ref[2])

\* A complete snapshot that is not too large is refused only for a user
\* without a password or without a name, or for references that were late in
\* the database.
RefusedForAReason ==
    IsSnapshot /\ ~Validate(file.data) =>
        \/ \E u \in DOMAIN file.data.users :
               ~file.data.users[u].hash \/ file.data.users[u].name = ""
        \/ LateLinks(file.data, file.late)

\* What a snapshot promises: the two above.
SnapshotSound == RestoredIsOneInstant /\ RefusedForAReason

\* What is exported can be restored (README.md:77, docs/ROADMAP.md:216).
Restorable == IsSnapshot => Fits(file.data) /\ Validate(file.data)

\* The three forms of the access rule agree on every row whose ancestors are
\* all there, unless a rating above it is written between white space that is
\* not a space: that one only Go can read, and the SQL is the stricter.  Rows
\* without all their ancestors the walk denies, and the SQL leaves to their
\* own columns.
Rooted(items) == {i \in DOMAIN items : HasPath(items, i)}

Tabbed(items) == {i \in DOMAIN items : items[i].rating.written = "tabbed"}

Normalized == {Normalize(stored) : stored \in Policies}

ScopeAgrees ==
    \A p \in Normalized :
        LET walked == VisibleIDs(p, db.items, DOMAIN db.libs)
            seen   == Scope(p, db.items, DOMAIN db.libs)
        IN  /\ walked \subseteq seen \cup Below(db.items, Tabbed(db.items))
            /\ seen \cap Rooted(db.items) \subseteq walked

\* What AllowsItem decides of a row, Scope decides as well, and denies more
\* only for what is above the row (policy.go:127).
RatingsReadAlike ==
    \A p \in Normalized :
        VisibleIDs(p, db.items, DOMAIN db.libs) \subseteq Scope(p, db.items, DOMAIN db.libs)

OnlyRemoves(d, e) ==
    /\ \A i \in DOMAIN d.items \cap DOMAIN e.items : d.items[i] = e.items[i]
    /\ DOMAIN e.libs \subseteq DOMAIN d.libs

Revealed(p, d, e) ==
    (Scope(p, e.items, DOMAIN e.libs) \cap DOMAIN d.items) \ Scope(p, d.items, DOMAIN d.libs)

\* Deleting items and libraries reveals no row to anybody: what is below a
\* hidden item goes with it or stays hidden (admin/items.go, deleteItem).
NothingRevealed ==
    [][db' # db /\ OnlyRemoves(db, db') => \A p \in Normalized : Revealed(p, db, db') = {}]_vars
=============================================================================
