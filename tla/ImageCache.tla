------------------------------ MODULE ImageCache ------------------------------
(***************************************************************************)
(* The proxying image cache: getImageFromCache, keyedMutex, enforceQuota   *)
(* and CleanupExpiredCache of internal/service/image.go.                   *)
(*                                                                         *)
(* A request that misses takes the lock of its path from a table of        *)
(* reference-counted locks, looks again, fetches, writes a temporary file, *)
(* syncs it, renames it and brings the directory back under its quota.     *)
(* The directory is a sequence of files, the least recently written or     *)
(* touched first: modification times are taken to be distinct.  A          *)
(* temporary file has its full size from its creation on.                  *)
(***************************************************************************)
EXTENDS Naturals, Sequences, FiniteSets, SequencesExt

CONSTANTS
    Images,         \* cache paths: one per image, URL and dimensions
    Requests,       \* handler goroutines
    Size,           \* Size[i]: size of the image, as it is stored
    Quota,          \* maxCacheBytes; 0: no limit
    MaxCrashes,     \* bound: crashes
    None

ASSUME ConstantsAssumption ==
    /\ IsFiniteSet(Images) /\ IsFiniteSet(Requests)
    /\ Size \in [Images -> Nat \ {0}]
    /\ Quota \in Nat /\ MaxCrashes \in Nat
    /\ None \notin Images \cup Requests \cup Nat

\* CreateTemp picks a random name.  It is taken not to meet one that is in
\* the directory, that a scan has seen or that a request still works with:
\* these are enough for the requests and for what crashes have left.
Temps == 1 .. 2 * Cardinality(Requests) * (1 + MaxCrashes)

\* The file of an image, or a temporary file.
Names == ({"image"} \X Images) \cup ({"temp"} \X Temps)
File  == [name : Names, image : Images, data : {"written", "synced", "torn"}]

\* Identities of keyedLock objects: as many as there can be, and more.
Locks == 1 .. 2 * Cardinality(Requests)

Stages == {"idle", "touch", "ref", "wait", "recheck", "fetch", "create", "sync", "rename",
           "scan", "evict", "stat", "unlock", "unref"}

VARIABLES
    files,      \* the cache directory
    stage,      \* how far each request has come
    image,      \* the image each request wants
    tmp,        \* the temporary file each request has created, or None
    table,      \* imageInflight.locks: the lock object of each path, or None
    refs,       \* keyedLock.refs
    holder,     \* who has locked keyedLock.mu
    mine,       \* the lock object a request has got from the table
    quotaMu,    \* holder of imageQuotaMu
    scanned,    \* what enforceQuota has found and not yet looked at
    total,      \* and the size it counts with
    littered,   \* history: a crash came after the last enforcement
    crashes     \* bound

locks == <<table, refs, holder, mine>>
quota == <<quotaMu, scanned, total>>
vars  == <<files, stage, image, tmp, locks, quota, littered, crashes>>

-----------------------------------------------------------------------------
Named(n)   == {f \in ToSet(files) : f.name = n}
Exists(n)  == Named(n) # {}
Cached(i)  == Exists(<<"image", i>>)
Place(n)   == CHOOSE k \in DOMAIN files : files[k].name = n
Without(n) == IF Exists(n) THEN RemoveAt(files, Place(n)) ELSE files

\* The sum of the sizes: files have different names, and byte b of file n is <<n, b>>.
Content(fs) == UNION {{f.name} \X (1 .. Size[f.image]) : f \in fs}
Bytes(fs)   == Cardinality(Content(ToSet(fs)))

Goto(r, s) == stage' = [stage EXCEPT ![r] = s]

Init ==
    /\ files = <<>>
    /\ stage = [r \in Requests |-> "idle"]
    /\ image \in [Requests -> Images]
    /\ tmp = [r \in Requests |-> None]
    /\ table = [i \in Images |-> None]
    /\ refs = [l \in Locks |-> 0]
    /\ holder = [l \in Locks |-> None]
    /\ mine = [r \in Requests |-> None]
    /\ quotaMu = None /\ scanned = <<>> /\ total = 0
    /\ littered = FALSE
    /\ crashes = 0

(***************************************************************************)
(* The hit                                                                 *)
(***************************************************************************)

\* The path is looked up, before any lock is taken.
Lookup(r, i) ==
    /\ stage[r] = "idle"
    /\ image' = [image EXCEPT ![r] = i]
    /\ Goto(r, IF Cached(i) THEN "touch" ELSE "ref")
    /\ UNCHANGED <<files, tmp, locks, quota, littered, crashes>>

Touched(i) ==
    LET n == <<"image", i>> IN
    IF Exists(n) THEN Append(Without(n), files[Place(n)]) ELSE files

\* Mutant: the file is touched without the lock.
TouchUnlocked(r) ==
    /\ stage[r] = "touch"
    /\ files' = Touched(image[r])
    /\ Goto(r, "idle")
    /\ UNCHANGED <<image, tmp, locks, quota, littered, crashes>>

\* Chtimes under imageQuotaMu; its error (the file is gone) is ignored, and
\* the path is returned.
Touch(r) ==
    /\ stage[r] = "touch"
    /\ quotaMu = None
    /\ files' = Touched(image[r])
    /\ Goto(r, "idle")
    /\ UNCHANGED <<image, tmp, locks, quota, littered, crashes>>

(***************************************************************************)
(* keyedMutex                                                              *)
(***************************************************************************)

Unused(l) == refs[l] = 0 /\ \A i \in Images : table[i] # l

\* Lock: find or make the path's lock object and count oneself in.
Ref(r) ==
    /\ stage[r] = "ref"
    /\ LET i == image[r]
           l == IF table[i] # None THEN table[i] ELSE CHOOSE x \in Locks : Unused(x)
       IN /\ table' = [table EXCEPT ![i] = l]
          /\ refs' = [refs EXCEPT ![l] = @ + 1]
          /\ mine' = [mine EXCEPT ![r] = l]
    /\ Goto(r, "wait")
    /\ UNCHANGED <<files, image, tmp, holder, quota, littered, crashes>>

\* l.mu.Lock
Acquire(r) ==
    /\ stage[r] = "wait"
    /\ holder[mine[r]] = None
    /\ holder' = [holder EXCEPT ![mine[r]] = r]
    /\ Goto(r, "recheck")
    /\ UNCHANGED <<files, image, tmp, table, refs, mine, quota, littered, crashes>>

Unlock(r) ==
    /\ stage[r] = "unlock"
    /\ holder' = [holder EXCEPT ![mine[r]] = None]
    /\ Goto(r, "unref")
    /\ UNCHANGED <<files, image, tmp, table, refs, mine, quota, littered, crashes>>

\* Mutant: the entry is deleted whoever still waits for it.
UnrefAlways(r) ==
    /\ stage[r] = "unref"
    /\ refs' = [refs EXCEPT ![mine[r]] = @ - 1]
    /\ table' = [table EXCEPT ![image[r]] = None]
    /\ mine' = [mine EXCEPT ![r] = None]
    /\ Goto(r, "idle")
    /\ UNCHANGED <<files, image, tmp, holder, quota, littered, crashes>>

\* Count oneself out; the last one takes the object out of the table.
Unref(r) ==
    /\ stage[r] = "unref"
    /\ refs' = [refs EXCEPT ![mine[r]] = @ - 1]
    /\ table' = [table EXCEPT ![image[r]] =
                    IF refs'[mine[r]] = 0 /\ @ = mine[r] THEN None ELSE @]
    /\ mine' = [mine EXCEPT ![r] = None]
    /\ Goto(r, "idle")
    /\ UNCHANGED <<files, image, tmp, holder, quota, littered, crashes>>

(***************************************************************************)
(* The fill                                                                *)
(***************************************************************************)

\* Mutant: without the second look.
RecheckSkipped(r) ==
    /\ stage[r] = "recheck"
    /\ Goto(r, "fetch")
    /\ UNCHANGED <<files, image, tmp, locks, quota, littered, crashes>>

Recheck(r) ==
    /\ stage[r] = "recheck"
    /\ Goto(r, IF Cached(image[r]) THEN "unlock" ELSE "fetch")
    /\ UNCHANGED <<files, image, tmp, locks, quota, littered, crashes>>

\* GET, decode, resize.  Any of it may fail; an image that is larger than
\* the whole quota is refused.
Fetch(r) ==
    /\ stage[r] = "fetch"
    /\ Goto(r, IF Quota > 0 /\ Size[image[r]] > Quota THEN "unlock" ELSE "create")
    /\ UNCHANGED <<files, image, tmp, locks, quota, littered, crashes>>

\* An error returns: deferred, the temporary file is removed and the path
\* unlocked.
Fails(r) ==
    /\ stage[r] \in {"fetch", "create", "sync", "rename"}
    /\ files' = Without(<<"temp", tmp[r]>>)
    /\ tmp' = [tmp EXCEPT ![r] = None]
    /\ Goto(r, "unlock")
    /\ UNCHANGED <<image, locks, quota, littered, crashes>>

\* CreateTemp and Write.
Create(r) ==
    /\ stage[r] = "create"
    /\ LET n == CHOOSE n \in Temps :
                    /\ \A f \in ToSet(files) \cup ToSet(scanned) : f.name # <<"temp", n>>
                    /\ \A q \in Requests : tmp[q] # n
       IN /\ tmp' = [tmp EXCEPT ![r] = n]
          /\ files' = Append(files,
                [name |-> <<"temp", n>>, image |-> image[r], data |-> "written"])
    /\ Goto(r, "sync")
    /\ UNCHANGED <<image, locks, quota, littered, crashes>>

\* Mutant: without fsync.
SyncSkipped(r) ==
    /\ stage[r] = "sync"
    /\ Goto(r, "rename")
    /\ UNCHANGED <<files, image, tmp, locks, quota, littered, crashes>>

\* The file may have been evicted since; it is synced all the same.
Sync(r) ==
    /\ stage[r] = "sync"
    /\ files' = [n \in DOMAIN files |->
            IF files[n].name = <<"temp", tmp[r]>> THEN [files[n] EXCEPT !.data = "synced"]
                                             ELSE files[n]]
    /\ Goto(r, "rename")
    /\ UNCHANGED <<image, tmp, locks, quota, littered, crashes>>

\* Rename keeps the modification time.  It fails if the file was evicted.
Rename(r) ==
    /\ stage[r] = "rename"
    /\ IF Exists(<<"temp", tmp[r]>>)
       THEN /\ files' = [n \in DOMAIN Without(<<"image", image[r]>>) |->
                LET f == Without(<<"image", image[r]>>)[n] IN
                IF f.name = <<"temp", tmp[r]>>
                THEN [f EXCEPT !.name = <<"image", image[r]>>] ELSE f]
            /\ Goto(r, IF Quota > 0 THEN "scan" ELSE "stat")
       ELSE UNCHANGED files /\ Goto(r, "unlock")
    /\ tmp' = [tmp EXCEPT ![r] = None]
    /\ UNCHANGED <<image, locks, quota, littered, crashes>>

\* The last Stat decides between the path and an error; both unlock.
Stat(r) ==
    /\ stage[r] = "stat"
    /\ Goto(r, "unlock")
    /\ UNCHANGED <<files, image, tmp, locks, quota, littered, crashes>>

(***************************************************************************)
(* enforceQuota                                                            *)
(***************************************************************************)

\* The walk is one step, and it does not fail: a file that is created or
\* renamed while it goes on may be missed, but then its own request has the
\* enforcement still before it.
Scan(r) ==
    /\ stage[r] = "scan"
    /\ quotaMu = None
    /\ quotaMu' = r
    /\ scanned' = files
    /\ total' = Bytes(files)
    /\ littered' = FALSE
    /\ Goto(r, "evict")
    /\ UNCHANGED <<files, image, tmp, locks, crashes>>

\* Mutant: one removal is taken to be enough.
EvictOne(r) ==
    /\ stage[r] = "evict"
    /\ scanned # <<>> /\ total > Quota
    /\ files' = Without(Head(scanned).name)
    /\ total' = Quota
    /\ scanned' = Tail(scanned)
    /\ UNCHANGED <<stage, image, tmp, locks, quotaMu, littered, crashes>>

\* The oldest of the files found is removed, if it is still there.
Evict(r) ==
    /\ stage[r] = "evict"
    /\ scanned # <<>> /\ total > Quota
    /\ files' = Without(Head(scanned).name)
    /\ total' = IF Exists(Head(scanned).name) THEN total - Size[Head(scanned).image] ELSE total
    /\ scanned' = Tail(scanned)
    /\ UNCHANGED <<stage, image, tmp, locks, quotaMu, littered, crashes>>

Enforced(r) ==
    /\ stage[r] = "evict"
    /\ scanned = <<>> \/ total <= Quota
    /\ quotaMu' = None /\ scanned' = <<>> /\ total' = 0
    /\ Goto(r, "stat")
    /\ UNCHANGED <<files, image, tmp, locks, littered, crashes>>

IsImage(f) == f.name[1] = "image"

\* CleanupExpiredCache removes the images older than some age, one after the
\* other: the fills do not wait for its lock.
Cleanup ==
    /\ quotaMu = None
    /\ \E n \in DOMAIN files :
            /\ IsImage(files[n]) /\ \A m \in 1 .. n - 1 : ~IsImage(files[m])
            /\ files' = RemoveAt(files, n)
    /\ UNCHANGED <<stage, image, tmp, locks, quota, littered, crashes>>

\* The machine loses power and the server is started again: what was not
\* synced is torn, temporary files are left behind.
Crash ==
    /\ crashes < MaxCrashes
    /\ crashes' = crashes + 1
    /\ files' = [n \in DOMAIN files |->
            [files[n] EXCEPT !.data = IF @ = "written" THEN "torn" ELSE @]]
    /\ stage' = [r \in Requests |-> "idle"]
    /\ table' = [i \in Images |-> None]
    /\ refs' = [l \in Locks |-> 0]
    /\ holder' = [l \in Locks |-> None]
    /\ mine' = [r \in Requests |-> None]
    /\ quotaMu' = None /\ scanned' = <<>> /\ total' = 0
    /\ littered' = TRUE
    /\ tmp' = [r \in Requests |-> None]
    /\ UNCHANGED image

-----------------------------------------------------------------------------
Step(r) ==
    \/ Touch(r)
    \/ Ref(r) \/ Acquire(r) \/ Recheck(r)
    \/ Fetch(r) \/ Fails(r) \/ Create(r) \/ Sync(r) \/ Rename(r)
    \/ Scan(r) \/ Evict(r) \/ Enforced(r)
    \/ Stat(r) \/ Unlock(r) \/ Unref(r)

Next ==
    \/ \E r \in Requests : Step(r) \/ \E i \in Images : Lookup(r, i)
    \/ Cleanup
    \/ Crash

Spec == Init /\ [][Next]_vars

-----------------------------------------------------------------------------
TypeOK ==
    /\ files \in Seq(File)
    /\ \A m, n \in DOMAIN files : files[m].name = files[n].name => m = n
    /\ stage \in [Requests -> Stages]
    /\ image \in [Requests -> Images]
    /\ tmp \in [Requests -> Temps \cup {None}]
    /\ table \in [Images -> Locks \cup {None}]
    /\ refs \in [Locks -> 0 .. Cardinality(Requests)]
    /\ holder \in [Locks -> Requests \cup {None}]
    /\ mine \in [Requests -> Locks \cup {None}]
    /\ quotaMu \in Requests \cup {None}
    /\ scanned \in Seq(File) /\ total \in Nat
    /\ littered \in BOOLEAN
    /\ crashes \in 0 .. MaxCrashes

Filling == {"recheck", "fetch", "create", "sync", "rename", "scan", "evict", "stat", "unlock"}

\* An image is fetched by one request at a time, and not while it is in the
\* cache ("同一张图的并发抓取串行化（只抓一次）"): the lock of its path excludes,
\* although the lock object is made, deleted and made again, and the look
\* after it was obtained is enough.
FetchedOnce ==
    /\ \A r, q \in Requests :
            r # q /\ stage[r] \in Filling /\ stage[q] \in Filling => image[r] # image[q]
    /\ \A r \in Requests :
            stage[r] \in {"fetch", "create", "sync", "rename"} => ~Cached(image[r])

\* The table of locks holds only paths somebody is waiting for or filling
\* ("引用计数归零即回收，避免锁表无上界增长").
LocksReclaimed ==
    \A i \in Images : table[i] # None =>
        \E r \in Requests : mine[r] = table[i] /\ image[r] = i

\* The lock of a path does its work and is gone after it.
LockExcludes == FetchedOnce /\ LocksReclaimed

\* What is found at a cache path is the whole image, also after a power
\* failure at any point: it is synced before it gets its name.
WholeImages == \A n \in DOMAIN files : IsImage(files[n]) => files[n].data = "synced"

\* When no request is under way the directory is within its quota, however
\* fills and enforcements have overlapped; until the next enforcement a
\* crash may leave more.
QuotaAtRest ==
    (\A r \in Requests : stage[r] \in {"idle", "touch"}) /\ Quota > 0 /\ ~littered
        => Bytes(files) <= Quota

\* Eviction removes the least recently used file, by the times the files
\* have when it happens: what was touched since the directory was scanned is
\* not taken for old.  Only an image whose request is about to enforce the
\* quota itself may be older than the file that is removed.
OldestEvicted ==
    [][\A n \in DOMAIN files :
        (\E r \in Requests : Evict(r)) /\ files[n] \notin ToSet(files') =>
            \A m \in 1 .. n - 1 :
                \E q \in Requests : /\ stage[q] = "scan"
                                    /\ files[m].name = <<"image", image[q]>>]_vars
=============================================================================
