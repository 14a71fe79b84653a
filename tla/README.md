# A TLA+ model of FakEmby

FakEmby is a media server in Go that speaks the Emby API: it keeps a catalogue,
users, tokens and play progress in SQLite, redirects players to the real media,
proxies images and pushes session events over WebSockets. One process serves
all requests; each request is a goroutine, and so are the readers and writers of
WebSocket connections, the ticker of the progress buffer and the token cleanup.
The hard part of the program is therefore what these goroutines do to shared
state (the session table, the hub, the image directory, the tables) in orders
nobody has written a test for, and what a crash or a failing database leaves.

This directory holds TLA+ modules of those parts, TLC configurations that check
them on small instances, and proofs for every instance. Paths below are
relative to `src/`.

    tlc -workers 2 -config MCPlaybackSessions.cfg MCPlaybackSessions
    tlapm PlaybackSessions_proofs.tla

## 1. Inventory

| Part | State it keeps | Operations | What is hard about it |
| --- | --- | --- | --- |
| Playback reports, `internal/api/emby/sessions.go` | `activeSessions` under `activeSessionsMu`; `play_progress`, `PlaybackActivity` | Playing, Progress, Stopped, list, stop, message | decisions on reads made before the lock; one transaction and one table that must agree; crashes before the answer; repeated Stopped |
| Progress store, `internal/repo/playback.go`, `ProgressBuffer` in `sessions.go` | `play_progress`; `pb.buffer` under `pb.mu` | set position, (un)mark played, favourite, buffer, flush, shutdown | read-then-write without transactions; flush against new entries; shutdown with retries |
| WebSocket hub, `internal/infra/ws/hub.go` | table of clients, their queues, two counters | Serve, Broadcast, sendTo, Close, writePump, readPump | full queues, shutdown against handshakes and broadcasts, two goroutines that end each other |
| Lock order, `sessions.go`, `operations.go`, `hub.go` | `activeSessionsMu`, the hub's mutex | reports, snapshots, stops, lists | deadlock; lists overtaking each other |
| Image cache, `internal/service/image.go` | the cache directory, a table of counted locks, `imageQuotaMu` | hit, fill, enforce quota, clean up | single fetch, lock reclamation, power failures, eviction against hits |
| Accounts, `internal/api/emby/{auth,token,users}.go`, `internal/service/auth.go`, `internal/infra/ratelimit`, `internal/api/admin/admin_users.go` | `users`, `tokens`, the cache of verified Basic credentials, the limiter | login, Basic branch, token middleware, logout, password, policy, delete, cleanup | stale cache entries, whole-row saves, check-then-create of tokens, counting guesses |
| Catalogue administration, `internal/api/admin/{items,admin_extra}.go` | items, sources, images, libraries | create, update, delete | check-then-create across statements |
| Batch import, `internal/api/admin/import.go` | the catalogue | plan and write trees of items | savepoints, two levels of retries, dry runs |
| xiaoya importer, `scripts/tools/xiaoya_import.py` | a state file, an append-only item store | scan, build, push, resume | crashes between two writes, batches of which one fails |
| Snapshots, `internal/transfer` | none | export, import into an empty database | is every reachable database restorable |
| Access policy, `internal/access` | none | normalise, item check, SQL scope | three formulations of one predicate |
| Path normalizer, `internal/api/emby/pathnormalize.go` | a cache all requests share | rewrite a path | the cache must not be visible |
| Signed addresses and sources, `internal/infra/{signer,source}`, `playback.go` | none | sign, verify, resolve | what is signed is what is verified |
| Media queries, search, DTOs | none | read | none that is stateful |
| Start and shutdown, `cmd/fakemby/main.go`, `internal/database` | database handles, the cleanup goroutine | start, stop | the order of the shutdown |

How they interact: every handler passes the token middleware (Accounts) and, for
media, the access policy; a report then enters the session section, commits one
transaction and, still inside it, broadcasts through the hub; a hub connection
that subscribes calls back into the session table for a snapshot; the progress
store and the reports write the same table; administrators delete users and
items under all of them. The hub, the server, the buffer and the database are
shut down in this order by `main`.

`PROJECT.json` lists the same parts with their status under `components`, and
under `hazards` each place in the code where one of these difficulties bites,
with the property that would catch it.

## 2. What is modelled

Each module is parameterised by its sets of actors and values and names its
bounds (`Max...`) in its CONSTANTS. Handlers are split where the code lets
others run: at a lock, a database statement, a file operation, a channel. What
happens between two such points is one action, with everything the handler does
there. A failing statement is an action of its own wherever the code has an
error path that differs from "nothing happened".

**PlaybackSessions** — `recordPlayback` and the endpoints around it.
`Begin` reads the user and `CheckItem` the item, before the lock; `Enter` takes
the lock, evicts and refuses; `Persist` and `PersistFails` are the transaction;
`Finish` is the table, the broadcast and the answer. `StopSession`, `Age`,
`UpdatePolicy`, `DeleteUser`, `DeleteItem` and `Crash` act in between. `promise` and `purged` are histories: what has been acknowledged, and
which rows an administrator has removed. The age of a session is kept in units
of which `Window` make the code's two minutes.

**ProgressLedger** is the abstract specification of the progress store: one
entry per user and item, operations that take effect at one instant, and the
plays counted by calls that have not answered yet, the only ones a crash may
lose. **ProgressStore** is the code: repository calls of two or three separate
statements (`Read`, then `Create` or `Update`, then `CountPlay`, any of which
may fail), reports, buffer, ticker, administrator's
flush and a shutdown with `FlushAttempts` attempts. It implements the ledger
under the mapping `Ledger` (a missing row is a blank entry; a play counts from
the statement that sets the flag). The mapping is checked as a PROPERTY.

**WsHub** — `Serve` in its steps (capacity check, handshake, registration,
greeting, reading, leaving, closing the queue, release), `writePump`, Broadcast,
`sendTo` and the three phases of `Close`. A queue is a bounded sequence; the
numbers of the events that were put into it and are not yet written are kept in
the history `owed`, to be compared with what the queue and the pump hold.

**SessionLocks** puts reports and hub together at the level of locks: every
handler and every reader is a short program of steps on `activeSessionsMu` (a
RWMutex whose waiting writer keeps later readers out) and on the hub's mutex,
and the part of the session table that is one user's, with the lists that are
copied from it and reach his clients. Reports enter and delete sessions and
announce the list; the sweep at the start of everybody's reports, refused ones
too, and the administrator's stop (`Sweep`, `Remove`) delete sessions and
announce nothing. `silent` and `overtaken` are histories: what was deleted so
since the last list was announced, and whose snapshot a report has overtaken.

**ImageCache** — hit, `keyedMutex.Lock` and `Unlock` in their steps, second look,
fetch, temporary file, sync, rename, enforcement and `CleanupExpiredCache`, with
power failures that tear what is not synced. The directory is a sequence, least
recently used first; the clean-up removes its oldest image, one in each step.

**Accounts** — one user seen from one address: login, Basic branch with its
cache, limiter, token middleware, logout (which takes the token from the request
a second time, so that a Basic logout is judged again), and the handlers that
change the row, as read and save where the code reads and saves. `right` and
`meant` are histories: whether a request's password has been the user's, and the
password last set on purpose.

**XiaoyaImport** — the import tool as a program that is started again and again.
`StartBuild` loads the state and selects directories by signature; `Build`
reads one; `AppendRow` and `Save` are the two files of a flush; `Collect` and
`StartPush` queue items, `PostAccepted`, `PostRefused` and `PostLost` are the
fates of a batch, and `Mark` records it. `ResetRemove` and `ResetSave` are the
two halves of a reset. `Die` may come at any point and cut a row off;
`DieOverwriting` is the fallback of `Store.save` that leaves no readable state.
A signature is the version of the directory it was taken from. `damaged` is a
history: the directories whose newest row a torn line or a reset that was cut
off has cost.

**ImportLedger** is the abstract specification of the batch import: each item of
a batch is taken whole or refused, the catalogue changes at one instant, the
answer counts the items taken, and a draft replaces only the catalogue it was
made from. **BatchImport** is the code: a deferred transaction with a savepoint
for each item (`planImportTree` node by node, then `writeImportTree` node by
node), the dry run that keeps its plans in a `preview`, failing statements,
locked tables, the two levels of retries (`Attempts`; the code has 3 of each,
the instance 2), timeouts, lost answers and crashes, and other handlers and
programs that delete rows or rename the library. It implements the ledger under
the mapping `Ledger`: while an item is written, what the savepoint holds counts.

**AccessPolicy** is `internal/access`: `Normalize` of a stored policy, with its
invalid, null and unknown values, and the three forms in which the code has the
access rule, the walk up the parents of one item (`CanAccessItem`), the same for
a list (`VisibleIDs`) and the recursive SQL (`Scope`). It has no variables. A
rating is stored as it is sent; it is modelled by the word that is left when it
is trimmed and put into upper case, and by how it is written, because Go trims
all white space (`GoReads`) and SQLite spaces only (`SQLReads`).
**Catalog** uses it. It is the tables that administrators, importers and players
write. No foreign keys protect them, and a handler that looks on the handle for
reading before it inserts on the one for writing is two steps: a job is begun
with what the look has found and ended, perhaps after others have written.
Handlers that do all in one transaction are one step. The export reads table by
table in one transaction, and a file it could not finish stays (`Broken`); the
restore refuses a file that is too large (`MaxRows` stands for the 256 MiB),
validates and writes into an empty database. `late` and `removed` are
histories: references written after their target had gone, beginning with those
that dangle at the start, and genres that an administrator deleted. A parent in
another library counts as none, as it does for `Validate`. `ImportFits` and
`WithImported` are the rules and the writes of one imported item; BatchImport has
the rest of that handler. The conditions on the constants say what a database is
that this program has written: rows with their columns, unique names, ids that
are made up are nobody else's, and no circle of parents but through a late one.

**Streaming** uses AccessPolicy too: `PlaybackInfo` with its choice of addresses
and the numbers of streams, `/stream`, `/original`, downloads and subtitles,
`playbackAuth` with `authorizeMediaRequest`, the signed redirect, and the
callback of the proxy in front of a source. Addresses and redirects that were
given out are kept in `issued` and `sent` and opened at any later moment; the
clock, the key (a random one is new after a restart), users, items and media
change under them; a user may at first be one who has to change the password.
Of `authorizeMediaRequest` the checks of `UserId`, `ParentId` and `SeriesId`
(`policy.go:34`, `policy.go:44`) are left out: no address that is given out
carries these parameters. Strings of which the signature is made are sequences of
characters: escaping is modelled by what it does.

**PathNormalizer** is the handler in front of the router: `Arrive`, `Load` and
`Store` are the three moments at which a request meets the cache that all of
them share. The router of gin behind it is external, and modelled as far as the
properties need it: it is exact about case and prefers a fixed segment. The
routes of the instance are a choice of the real ones, in the order in which gin
lists them.

## 3. What the runs check

| Run | Instance | What it shows |
| --- | --- | --- |
| `sessions` | 2 users, 1 item, 2 session ids, 2 handlers, 3 reports, 1 administrative act or crash | acknowledged progress survives crashes; sessions have rows; a viewing is counted once; clients are told of every live session; ids do not change owners; nobody's live session is swept by another; the stream limit holds in races |
| `progress_store` | 1 pair, 2 callers, 2 calls, 2 buffered positions, 1 crash, 2 shutdown attempts | the store implements the ledger; flushes drop nothing; a clean shutdown has written everything; buffered positions are written in the end and every shutdown ends (`BufferSettles`) |
| `ws_hub` | 1 connection, queue of 2, 3 events, 2 messages, 2 users | an open connection has no gap; it ends in order: queue closed after leaving, nothing after the farewell, the farewell written (`OrderlyEnd`); dead connections are released; Close ends every connection |
| `session_locks` | 2 handlers (reports and administrator's stops against requests of every kind), 1 connection, 1 session in 1 state | every job ends; a client's list lacks nothing that reports have entered, and holds at most what was deleted without an announcement since (`ListsUpToDate`) |
| `image_cache` | 2 images of different size, 3 requests, quota for one or the other, 1 power failure | one fetch per image, and locks are reclaimed (`LockExcludes`); whole images; quota at rest; least recently used goes first |
| `accounts` | 2 passwords, 2 requests, 1 saver, 3 tokens, threshold 1, a cache of 1 entry, 1 administrative act or 1 error, 1 login token at a time | Basic requests are let in only with a password of their time; tokens and guesses stay bounded |
| `accounts_lost` | 1 request, 2 administrative acts | **violated**: a saved policy brings an old password back |
| `xiaoya` | 2 directories with one item and a loose one with two, of which one changes; 3 starts, 1 fault, a flush after 2 directories | what is recorded as built can be loaded, and a death costs at most one flush (`ResumesWhereItWas`); a directory with one item that is recorded as pushed is on the server; no push brings an older version back |
| `batch_import` | 2 requests out of 6 batches of one to three items, 3 catalogues, 2 faults, 2 writes of others, 2 attempts | the import implements its ledger; no two rows become ambiguous for the next import; a repeated batch changes nothing; every request ends |
| `catalog` | 2 starts: a hidden series with a season and an episode in one of 2 libraries, and a season whose series was deleted; 3 operations, 2 handlers between statements, 7 policies, ratings in 4 spellings, an export of at most 9 rows and a restore | references, names of libraries and genres stay consistent; a snapshot is one instant and, if not too large, refused only for a user without a password or a name or for late references, one of which may close a circle of parents; the three forms of the access rule agree, the SQL being stricter below ratings it cannot read; deleting reveals nothing |
| `streaming` | 3 items whose ids run together unescaped, 3 configurations, a user with or without a password to change, 2 clients, 2 addresses, 1 redirect, 1 change, 1 restart, a clock of 2 with a TTL of 1 | signed addresses play as long as they should and no longer; signatures are recognised and never mistaken; streams and subtitles have addresses of their own |
| `paths` | 19 of the routes, 34 requests, 2 clients, 3 requests | whatever the cache holds, a request comes to the handler to which a router that ignores case would bring it, with its own parameters (`ReachesItsRoute` names the two exceptions) |

*Why these bounds are enough to be of interest.* Two actors suffice for every
race listed here, since each is between one step of one actor and the gap
between two steps of another; the third request of `image_cache` is the one that
comes while a lock object is handed from the first to the second, when its count
must not reach zero. A queue, a cache and a threshold of one or two make "full"
the normal case. One crash at every point covers all crashes that are followed
by good behaviour; two would only repeat the first. Three reports allow a start,
a repeated Stopped and a competitor. `Tokens` has one more value than there are
requests, so that one token too many exists. `accounts` also has a constraint
(`Small`: an administrative act or an error, not both, and one login token at a
time) and a view (`Relevant`) that leaves out what no later step and no property
of the run reads. `xiaoya` lets one directory change (`OneChange`) and exchanges
the two directories with one item: three starts are what it takes to lose a row,
to push what was built beside it and to push again.

The hub has one connection because its properties are about one connection, and
others touch it only through the hub: their number, `closed`, and the events
that Broadcast puts into its queue. `MCWsHubTwo.cfg` checks the invariants with
two that race for one place, without liveness. In `batch_import` two requests
are one that leaves something and one that meets it, and two faults exhaust
either level of retries. In `catalog` the third operation is the one between the
look and the write of the second, with the first to prepare what is there; the
starts have eight rows, so that a snapshot may be too large or not. In
`session_locks` one session in one state is there or not, which is what lists
can differ in, and the programs repeat without end. In
`streaming` the two clients are interchangeable (`SYMMETRY`): an address is
opened from where it was given out or from elsewhere. In `paths` the third
request finds what the first two, perhaps racing, have left in the cache.

Every property has a mutant in `PROJECT.json`: a definition of the model changed
as a plausible bug in the code would change it (a lock kept too short, a
comparison dropped, a sweep without a drop, a rename before the sync), under
which the same run must fail. The mutants are operators in the modules, marked
`Mutant:`; nothing else refers to them. The modules also have a type invariant
(`TypeOK`), to be added to a configuration by hand, and proved for the eight of
section 5.

`CHECK_DEADLOCK FALSE` is set where the system may really stop: after a clean
shutdown (`progress_store`, `ws_hub`) or when the bound on reports, requests,
operations or changes is used up (`sessions`, `xiaoya`, `batch_import`,
`catalog`, `streaming`, `paths`). The locks, the cache and the accounts are
checked for deadlock.

Seven configurations are for use by hand. `MCWsHubTwo.cfg` is described above; the
others each show a violation that section 6 explains: `MCWsHubCapacity.cfg`,
`MCWsHubDropped.cfg`, `MCXiaoyaImportSplit.cfg`, `MCCatalogRestorable.cfg`,
`MCCatalogRatings.cfg` and `MCPathNormalizerEveryRoute.cfg`.

## 4. Fairness

Safety is checked without fairness, liveness under `FairSpec`:

- ProgressStore: the ticker ticks and a shutdown that has begun runs on; strong
  fairness for the acquisition of `pb.mu`, because a Go mutex does not starve
  its waiters (starvation mode), and for the commit, because a transaction that
  is tried again and again does not fail for ever. Callers and administrators
  owe nothing.
- WsHub: weak fairness of the goroutines' own steps: the handshake has a limit
  of 5 s, reads end by `PongWait`, writes by `WriteWait`, and `Close` runs
  through. Peers and broadcasters owe nothing.
- SessionLocks: weak fairness of steps, strong fairness of acquiring either
  mutex. Nothing forces a new job to start.
- BatchImport: weak fairness of the handler's next step, which always exists
  because each statement either works or fails: SQLite waits for a lock no
  longer than its busy timeout. Which of the two happens is not assumed, so
  that the end of every request rests on the bounded retries alone.

## 5. What is proved

Eight modules, named after what they are about with `_proofs` behind it, hold
theorems that TLAPS checks, for all sets the assumptions admit, finite or not,
and for every bound. A theorem of the form `Spec => []P` rests on an invariant
that implies P and that every step preserves, mostly with a lemma for each
action; where a P is inductive by itself on top of the others it is one of its
conjuncts. Between them they state all safety properties of the runs `sessions`,
`progress_store`, `ws_hub`, `session_locks`, `image_cache`, `accounts`, `catalog`
and `batch_import`.

*PlaybackSessions.* The properties about the table follow from `Inside`: types,
`LockHeld` (whoever is past the lock is its holder, so there is one), and
`Admitted` (what the holder was admitted for — no foreign owner of its session
id, room under its stream limit — is still true, because nobody else adds a
session meanwhile). `Admitted` is what makes it inductive: `StreamLimitHeld` and
`OwnerStable` speak about `Finish`, whose guard no longer looks at the limit.
Durability needs `Durable` = `Inside`, `Committed` (the row of a handler past its
transaction holds its position, unless it was purged), `AckedDurable` and
`SessionBacked` together, because a crash or a deletion disturbs the latter two
through the first. `CountedOnce` and `ToldComplete` are inductive on top of
`Inside`. Proved: `TypeCorrect`, `OwnerNeverChanges`, `LimitHeld`,
`LiveSessionsStay`, `AcknowledgedIsDurable`, `SessionsAreBacked`,
`CountingInvariant`, `ClientsAreTold`, that is all seven properties of the run
and the types.

*Accounts.* `Typed` adds to the types what each stage of a request may rely on
(credentials until they are judged, a token from then on). `Right` says that a
password being judged that is the user's has been the user's, and so has that of
every request past its verification; it gives `BasicFresh`. `Guesses` counts the
requests past the limiter as failures to come; it gives `AttemptsBounded`.
`Made` counts the requests about to make a token as tokens; it gives
`BasicTokensBounded`. Proved: `TypeCorrect`, `BasicIsFresh`,
`AttemptsAreBounded`, `BasicTokensAreBounded`, that is all three properties of
the run and the types.

*ProgressStore.* `Typed` adds to the types what a call and the shutdown may rely
on: `CallsKnow` (a call past its first statement has its row, and nobody deletes
rows under it, so that an update hits one) and `ShutdownRuns`. It gives
`TypeCorrect` and is all that `Refinement` needs: each step is shown to be a step
of ProgressLedger under the mapping, or a stutter, the statements in pairs, one
that takes effect and one that does not show. `Buffering` adds `FlushWrites`: what
a flush has committed and not yet taken out is what the rows hold. It gives
`ShutdownDrains` and `NothingIsDropped`. `PlaysAreCounted` is about the gap between the
two statements of MarkAsPlayed.

*WsHub.* `HubInv` is of each connection by itself, for the hub only puts events
into queues and closes them. `Numbered` and `NoGapAt` say that the events in the queue,
with the one being written, are those that are owed, in increasing order and none
from the future; `FarewellLast` and `FarewellComes` that nothing follows the farewell,
and that one that got into the queue is there, written, or lost with a cut. The
lemmas on sequences are about appending and taking the first. Proved:
`TypeCorrect`, `NothingMissed`, `EndsInOrder`.

*SessionLocks.* `Located` says which locks a goroutine has at each place in its
program, in both directions, and what the RWMutex knows of it (a writer that
has claimed it, readers waiting for it, readers it waits for). `LocksExclude` is
then a comparison of places. `ListsStayUpToDate` rests on three facts together: a
client's list is up to date unless a report is about to replace it
(`ListsFit`); what that report has copied is the table, which it keeps locked
(`ReportsFit`); and a snapshot that waits to be queued is up to date, or a report
has overtaken it, as each does with all that wait (`SnapshotsFit`). `NoDeadlock` is a safety property: in each state in which somebody is at work one of those can take its next step;
that he does is fairness and stays with TLC.

*ImageCache.* `CacheInv` counts: the reference count of a lock object is the
number of requests that have it (`Counted`), and there are names enough for
temporary files (`NamesEnough`). One fetch at a time needs `NotCached`, that
nobody fetches what is there, which a rename preserves because it holds the
lock. `CacheWhole` rests on `OwnsTemp`: a temporary file has one owner, who
renames it only after it is synced. `EvictionByAge` needs `OrderInv`: what
enforceQuota scanned is in the order of the directory still, but for images that
were read or renamed since, whose requests wait for the quota lock. `QuotaAtRest` is about a
walk that may miss the file of another fill, and needs `QuotaInv`. What is
`Settled` is in the directory and not the temporary file of a request at work;
while no request that has filled is still to enforce (`Due`), what is settled is among
what the enforcement at work has before it, or within the quota, unless a crash has left
something; and the size counted with is never below that of what is before it. A
size is the number of the bytes of a set of files (`Content`), so that the facts
about finite sets apply to it. Proved: `TypeCorrect`, `OneFetch`, `CacheWhole`,
`EvictionByAge`, `QuotaHeld`.

*Catalog.* The rules that the program writes as recursive SQL or as a walk are
iterations in the model, as often as there are rows. `Rests` shows that an
iteration that never shrinks has come to rest by then, so that `Below` is the
smallest set with the children of its rows (`BelowIsLeast`) and `Rising` the
smallest fixed point of `Climbs` (`RisingIsLeast`). From the two follow
`ScopesAgree`, together with the comparison of the SQL and Go for one row
(`SameForOneRow`: the SQL allows what Go does but for a rating it cannot read), and `DeletingRevealsNothing`, because a row that stays keeps
its parent (`ParentsKept`). For the tables, `Sound` says that what dangles is
late, and that the rows have a rank at which each parent is above its children
unless it is late. `Follows` says what a step may do to the references, action
by action, and keeps `Sound` (`FollowsIsSound`); the rank of a new row is below
all others. The rank is what `Snapshots` needs: `Validate` follows each row to a
root, and without circles it comes there (`RanksGiveWays`). It is also where the
model was wrong before: a late reference may find a target again, in another
library or below its own row, so that a snapshot without anything dangling can be
refused; `LateLinks` says so now, and the second start of the run reaches it.
`Consistent` needs `JobFits` for the genres: what a handler has seen is there or
was deleted. `ExportInv` says that what has been read is of the tables at the
first read, which were sound. Proved: `TypeCorrect`, `Consistent`, `Snapshots`,
`ScopesAgree`, `DeletingRevealsNothing`.

*BatchImport.* `Typed` says where the handler is in its batch; `Isolated` that a
transaction which has not written may find its snapshot outdated and one which
has cannot, for nobody else has written since it began; `Drafted` that the rows
planned for an item are one for each node and are written in the order of the
plan. From these `Refinement` shows each step to be a step of ImportLedger under
the mapping or a stutter, the writes of an item together as the taking of it.
`ProvidersAreUnique` needs `Separate`: rows of one place and kind share no
provider's id in the catalogue, in the transaction, in its savepoint, and with what
is planned of the item (`PlannedApart`), so that it does not matter which of the
planned rows are written. `RepeatsChangeNothing` relates two requests. `PlannedKept` and
`Making` carry through the first that each node is to be found, by its providers
or else by the id made from where it is, where it has been put, so that `LastHolds`:
the catalogue holds (`Holds`) what was last imported without an error. `Repeating`
carries through the second that what is planned is what is there. Proved:
`TypeCorrect`, `Refinement`, `ProvidersAreUnique`, `RepeatsChangeNothing`, that is
all three safety properties of the run and the types.

The assumptions are those of the modules: that sets that are counted are finite,
bounds are naturals, and `None` is not a value of anything else
(`ConstantsAssumption`, `NoneIsNoRecord`); in BatchImport that a batch has items
and each item is a tree of nodes, as `importBatch` and `validateImportTree` see to,
and that the catalogue before the first import is as imports leave it: no two rows
of one place and kind share a provider's id (`CataloguesAssumption`); in Catalog what section 2 says of the
start and of ids (`BoundsAssumption`, `IdsAssumption`, `ShapesAssumption`,
`StartsAssumption`). Ids that are made up are random UUIDs in the code, where
that two are equal is not impossible but improbable. TLC evaluates the
assumptions in every run.

*Only model-checked:* XiaoyaImport, Streaming and PathNormalizer; liveness
everywhere, as the end of every request in `batch_import`, which
needs ENABLED and fairness and is beyond TLAPS as installed; and anything else
that needs induction over data, as what a recursive definition computes for
every input.

## 6. Where the code and its documentation disagree

Checked by the run `accounts_lost`:

- `OldPasswordRefused`. `setUserPolicy` and `setUserPassword` save the whole row
  they have read: a password changed in between comes back, against
  `internal/emby/review_fixes_test.go:126`.

Shown by a configuration of section 3 that is no run:

- `CapacityHeld` (`MCWsHubCapacity.cfg`). `hub.go:39` calls `MaxClients` a cap on
  all connections; `Serve` checks it before the handshake and registers after
  it, so overlapping handshakes all get in.
- `DroppedWhenFull` (`MCWsHubDropped.cfg`). `hub.go:161` explains `dropped` by
  full queues; messages that find their queue closed are counted too.
- `PushedIsOnServer` (`MCXiaoyaImportSplit.cfg`). `docs/XIAOYA_IMPORT.md:135`
  promises that what was not pushed successfully is pushed the next time;
  `push_rows` records a directory as pushed with the first of its batches that
  succeeds.
- `Restorable` (`MCCatalogRestorable.cfg`). What is exported is meant to be
  restored (`README.md:77`, `docs/ROADMAP.md:216`). `createUserCore` makes users
  without a password (`users.go:81`), a reset removes one (`users.go:117`), and
  `Validate` refuses a snapshot with such a user (`snapshot.go:119`). It also
  refuses one with a user without a name (`snapshot.go:114`), whom
  `createUserCore` makes as well (`users.go:61`), and the restore one of more than
  256 MiB (`snapshot.go:59`), which the export writes.
- `RatingsReadAlike` (`MCCatalogRatings.cfg`). `Scope` is said to deny more
  than `AllowsItem` only below inaccessible ancestors and without a library
  (`policy.go:127`), so of one row with a library both should say the same.
  Ratings are stored unchecked (`items.go:86`, `items.go:203`, `import.go:618`);
  one with a tab at its end is "PG" to Go (`policy.go:133`) and an unknown one to
  the SQL (`scope.go:114`), which denies the row under a maximum. It is the
  stricter one of the two that decides: no handler calls `AllowsItem` or
  `VisibleIDs`.
- `EveryRouteInAnyCase` (`MCPathNormalizerEveryRoute.cfg`). `pathnormalize.go:17-22`
  says that every registered route is served in any case. `original.:container`
  is compared as a fixed segment, so it is served only as it is registered; and a
  parameter that is, but for case, a fixed segment of another route, of whatever
  method, gets the spelling of that one: `GET /emby/Users/new` asks for the user
  "New". (For the same reason `GET /emby/Items/counts`, which the router alone
  gives to `:itemId`, comes to `Counts`, as a router that ignores case would have it.)

Read on the way, and where it matters followed by the model:

- *Importer.* Line 132 of its document says a crash loses nothing that was done.
  A row cut off by one glues itself to the next row appended (line 1204 of the
  script), and a reset removes the rows before the records; in both cases a
  directory stays recorded as built without a row. `ResumesWhereItWas`,
  `PushedServed` and `NeverOlder` hold for the others, and without that
  exception TLC finds counterexamples to all three. `Ctrl+C` saves nothing by
  itself (lines 18 and 1741 say so): it costs what any death does.
- *Reports.* `docs/API.md:252` says a progress report is written to memory and
  `docs/ARCHITECTURE.md:106` that it is flushed every 30 s, while reports commit
  before they answer (`AckedDurable` is the comment in the code).
  `BufferProgress` has no caller in the server.
- *Image cache.* A comment in `image.go:116` says the quota lock keeps a hit from
  racing an eviction; the look is made outside it.
- *Batch import.* A batch that names the same row twice does not repeat itself:
  `RepeatChangesNothing` is about batches that mean each row once
  (`docs/ROADMAP.md:215`). A library that was renamed makes each later import
  under its old name fail, because the stable id is taken.
- *Catalogue.* `EnsureVirtualItem` (`virtual.go:29`) says it is idempotent, but of
  two concurrent `createItem` with the same new genre one ends with an error.
  Rows whose parent is gone are visible to the SQL rule and denied by the walk
  (`ScopeAgrees` says so); `VisibleIDs` has no caller. `deleteUserCore` leaves
  the user's `PlaybackActivity`. Marking as played or favourite writes rows for
  items that do not exist. `updateUserPolicy` (`admin_extra.go:257`) does not
  run `access.Normalize` as `setUserPolicy` (`users.go:161`) does.
- *Playback.* The comment at `playback.go:62-68` says external players open the
  address by its signature. It has none when `ShouldSign` does not choose the
  source's URL, as with plain prefixes, or STRM sources under `sign_prefixes`,
  for which the path of the file is compared: `AddressesPlay` is about signed
  addresses. Ids with characters that an address cannot hold are put in as they
  are (`playback.go:296`); `Sendable` leaves them out. `/original` is said to
  behave as `/stream` does (`compat_msgo.go:60`), but only the latter is asked
  for `EnableMediaPlayback` (`policy.go:40`), which is why `AddressesEnd` speaks
  of `MayWatch` there. A redirect is recognised by the callback until it
  expires, whatever has become of the user. The parameters of a signed redirect
  replace those of the same name in the source's URL. `DefaultAudioStreamIndex`
  is always 1.
- *Paths.* `embyNamespaces` has no `ItemTypes`, so these routes get no prefix;
  `/embywebsocket` is served in one case only; a fixed route with a slash at its
  end may be taken for an item; the cache grows with
  every path that is asked for.

## 7. What is not modelled, and the plan

Not planned: reading and formatting (media queries, DTOs, compatibility
endpoints, statistics, web interface), configuration and logging, development
scripts. They change no state that anything else depends on. Of the xiaoya tool,
the contents of nfo files, links and listings are left out, with the permanent
cache of contents (a directory that has changed is built from files cached
before), `--no-cache`, `push --file` and a crash of the machine. Of playback, the
OpenList resolver (no caller) and the command that scans STRM files.

Planned, in this order:

1. Proofs: `Streaming` (`AddressesEnd`: nothing is served to a user who may not
   watch any more; `SignaturesSound`), then `PathNormalizer` (an entry of the cache
   is what a scan of any path with that key finds) and `XiaoyaImport`
   (`ResumesWhereItWas`).
2. **Shutdown**: ProgressStore, WsHub and the handlers composed in the order of
   `main`: what an answered request has written survives a clean stop.
3. **XiaoyaImport**, what is left: an abstract specification (each directory is
   new, built, pushed) refined by the program; several categories.
4. The partial policy update of the administration, the numeric edge of
   `token_expiry_days`, and as functions the image of a parent and the ranking of
   similar items.
