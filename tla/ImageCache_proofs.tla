-------------------------- MODULE ImageCache_proofs --------------------------
(***************************************************************************)
(* The image cache, proved for any images, requests, sizes, quota and      *)
(* number of crashes: the table of locks excludes and is emptied again,    *)
(* what is found at a cache path is the whole of that image, and the       *)
(* directory is within its quota again when the requests are done.         *)
(***************************************************************************)
EXTENDS ImageCache, FiniteSetTheorems, SequenceTheorems, TLAPS

(***************************************************************************)
(* The inductive invariant                                                 *)
(***************************************************************************)

Dir == ToSet(files)
R   == Cardinality(Requests)

Distinct(s)     == \A m, n \in DOMAIN s : s[m].name = s[n].name => m = n
Before(s, a, b) == \E m, n \in DOMAIN s : m < n /\ s[m].name = a /\ s[n].name = b

\* TypeOK without the size that enforceQuota counts with, which is of QuotaInv;
\* the bound of refs follows from Counted.
Typed ==
    /\ files \in Seq(File) /\ Distinct(files)
    /\ stage \in [Requests -> Stages]
    /\ image \in [Requests -> Images]
    /\ tmp \in [Requests -> Temps \cup {None}]
    /\ table \in [Images -> Locks \cup {None}]
    /\ refs \in [Locks -> Nat]
    /\ holder \in [Locks -> Requests \cup {None}]
    /\ mine \in [Requests -> Locks \cup {None}]
    /\ quotaMu \in Requests \cup {None}
    /\ scanned \in Seq(File)
    /\ littered \in BOOLEAN
    /\ crashes \in 0 .. MaxCrashes

Users(l) == {r \in Requests : mine[r] = l}

\* A request has its lock object from "ref" to "unref", and as long as it has
\* it, the object is the one in the table.
UsesTable(r) ==
    /\ mine[r] # None <=> stage[r] \in Filling \cup {"wait", "unref"}
    /\ mine[r] # None => table[image[r]] = mine[r]
    /\ stage[r] \in Filling => holder[mine[r]] = r

\* The table has an object for at most one path, and only while it is used.
TableUsed ==
    \A i, j \in Images : table[i] = table[j] => i = j \/ table[i] = None

Counted == \A l \in Locks : refs[l] = Cardinality(Users(l))

LocksInv == (\A r \in Requests : UsesTable(r)) /\ TableUsed /\ Counted /\ LocksReclaimed

Fetching(r) == stage[r] \in {"fetch", "create", "sync", "rename"}
NotCached == \A r \in Requests : Fetching(r) => ~Cached(image[r])

\* A temporary file has one owner; before the rename it is on the disk.
OwnsTemp(r) ==
    /\ tmp[r] # None <=> stage[r] \in {"sync", "rename"}
    /\ \A q \in Requests : q # r /\ tmp[r] # None => tmp[q] # tmp[r]
    /\ \A f \in Dir : tmp[r] # None /\ f.name = <<"temp", tmp[r]>> =>
            /\ f.image = image[r]
            /\ stage[r] = "rename" => f.data = "synced"

WholeImage(f) == IsImage(f) => f.name = <<"image", f.image>> /\ f.data = "synced"

\* The temporary names that crashes have left behind, and those that the
\* enforcement under way has seen.
TempsIn(S) == {n \in Temps : \E f \in S : f.name = <<"temp", n>>}
Owned      == {n \in Temps : \E r \in Requests : tmp[r] = n}
Left       == TempsIn(Dir) \ Owned
Seen       == TempsIn(ToSet(scanned))

NamesEnough ==
    /\ Cardinality(Left) <= R * crashes
    /\ Cardinality(Seen) <= R * (1 + crashes)

FilesInv ==
    /\ \A r \in Requests : OwnsTemp(r)
    /\ \A f \in Dir : WholeImage(f)
    /\ NamesEnough

CacheInv == Typed /\ LocksInv /\ NotCached /\ FilesInv

(***************************************************************************)
(* Files and directories                                                   *)
(***************************************************************************)

LEMMA Constants ==
    /\ IsFiniteSet(Requests) /\ R \in Nat /\ MaxCrashes \in Nat
    /\ \A n \in Temps : n \in Nat /\ n # None
    /\ \A r \in Requests : r # None
    /\ \A l \in Locks : l \in Nat /\ l # None
    /\ IsFiniteSet(Temps) /\ Cardinality(Temps) = 2 * R * (1 + MaxCrashes)
    /\ IsFiniteSet(Locks) /\ Cardinality(Locks) = 2 * R
<1>1. IsFiniteSet(Requests) /\ MaxCrashes \in Nat /\ None \notin Images \cup Requests \cup Nat
    BY ConstantsAssumption
<1>2. R \in Nat
    BY <1>1, FS_CardinalityType DEF R
<1> DEFINE t == 2 * R * (1 + MaxCrashes)
           l == 2 * R
<1>3. t \in Nat /\ l \in Nat
    BY <1>1, <1>2
<1>4. Temps = 1 .. t /\ Locks = 1 .. l
    BY DEF Temps, Locks, R
<1> HIDE DEF t, l
<1>5. /\ IsFiniteSet(1 .. t) /\ Cardinality(1 .. t) = t
      /\ IsFiniteSet(1 .. l) /\ Cardinality(1 .. l) = l
  <2>1. \A n \in Nat : IsFiniteSet(1 .. n) /\ Cardinality(1 .. n) = n
    <3> TAKE n \in Nat
    <3>1. IsFiniteSet(1 .. n) /\ Cardinality(1 .. n) = IF 1 > n THEN 0 ELSE n - 1 + 1
      BY FS_Interval
    <3> QED BY <3>1
  <2> QED BY <1>3, <2>1
<1>6. /\ \A n \in Temps : n \in Nat /\ n # None
      /\ \A n \in Locks : n \in Nat /\ n # None
    BY <1>1, <1>3, <1>4
<1> QED BY <1>1, <1>2, <1>4, <1>5, <1>6 DEF t, l

LEMMA Removed ==
    ASSUME NEW s \in Seq(File), Distinct(s), NEW k \in DOMAIN s
    PROVE  /\ RemoveAt(s, k) \in Seq(File) /\ Distinct(RemoveAt(s, k))
           /\ ToSet(RemoveAt(s, k)) = ToSet(s) \ {s[k]}
           /\ \A x, y : Before(RemoveAt(s, k), x, y) => Before(s, x, y)
<1> DEFINE n == Len(s)
           a == SubSeq(s, 1, k - 1)
           b == SubSeq(s, k + 1, n)
           t == RemoveAt(s, k)
<1>1. n \in Nat /\ k \in 1 .. n /\ DOMAIN s = 1 .. n
    OBVIOUS
<1>2. a \in Seq(File) /\ Len(a) = k - 1 /\ \A i \in 1 .. k - 1 : a[i] = s[i]
    BY <1>1
<1>3. b \in Seq(File) /\ Len(b) = n - k /\ \A i \in 1 .. n - k : b[i] = s[k + i]
    BY <1>1
<1>4. t = a \o b
    BY DEF RemoveAt
<1> HIDE DEF n, a, b, t
<1>5. t \in Seq(File) /\ DOMAIN t = 1 .. n - 1 /\ Len(t) = n - 1
  <2>0. a \in Seq(File) /\ b \in Seq(File)
    BY <1>2, <1>3
  <2>1. t \in Seq(File) /\ Len(t) = Len(a) + Len(b)
    BY <1>4, <2>0, ConcatProperties
  <2>2. Len(t) = n - 1
    BY <1>1, <1>2, <1>3, <2>1
  <2> QED BY <2>1, <2>2
<1>6. \A i \in 1 .. n - 1 : t[i] = IF i < k THEN s[i] ELSE s[i + 1]
  <2> TAKE i \in 1 .. n - 1
  <2>1. CASE i < k
    BY <1>1, <1>2, <1>3, <1>4, <2>1
  <2>2. CASE ~(i < k)
    <3>1. t[i] = b[i - (k - 1)]
      BY <1>1, <1>2, <1>3, <1>4, <2>2
    <3>2. i - (k - 1) \in 1 .. n - k /\ k + (i - (k - 1)) = i + 1
      BY <1>1, <2>2
    <3> QED BY <1>3, <2>2, <3>1, <3>2
  <2> QED BY <2>1, <2>2
<1> DEFINE from(i) == IF i < k THEN i ELSE i + 1
<1>7. \A i \in 1 .. n - 1 : from(i) \in 1 .. n /\ from(i) # k /\ t[i] = s[from(i)]
    BY <1>1, <1>6
<1>8. \A i, j \in 1 .. n - 1 : from(i) = from(j) => i = j
    BY <1>1
<1>9. Distinct(t)
  <2> HIDE DEF from
  <2> QED BY <1>1, <1>5, <1>7, <1>8 DEF Distinct
<1>10. ToSet(t) \subseteq ToSet(s) \ {s[k]}
  <2> SUFFICES ASSUME NEW i \in 1 .. n - 1 PROVE t[i] \in ToSet(s) /\ t[i] # s[k]
    BY <1>5 DEF ToSet
  <2> HIDE DEF from
  <2> QED BY <1>1, <1>7 DEF Distinct, ToSet
<1>11. ToSet(s) \ {s[k]} \subseteq ToSet(t)
  <2> SUFFICES ASSUME NEW i \in 1 .. n, i # k PROVE s[i] \in ToSet(t)
    BY <1>1 DEF ToSet
  <2>1. CASE i < k
    <3>1. i \in 1 .. n - 1 /\ t[i] = s[i]
      BY <1>1, <1>6, <2>1
    <3> QED BY <1>5, <3>1 DEF ToSet
  <2>2. CASE i > k
    <3>1. i - 1 \in 1 .. n - 1 /\ ~(i - 1 < k) /\ (i - 1) + 1 = i
      BY <1>1, <2>2
    <3>2. t[i - 1] = s[i]
      BY <1>6, <3>1
    <3> QED BY <1>5, <3>1, <3>2 DEF ToSet
  <2> QED BY <1>1, <2>1, <2>2
<1>12. ASSUME NEW x, NEW y, Before(t, x, y) PROVE Before(s, x, y)
  <2>1. PICK i, j \in 1 .. n - 1 : i < j /\ t[i].name = x /\ t[j].name = y
    BY <1>5, <1>12 DEF Before
  <2>2. from(i) \in 1 .. n /\ from(j) \in 1 .. n /\ from(i) < from(j)
    BY <1>1, <2>1
  <2> HIDE DEF from
  <2>3. s[from(i)].name = x /\ s[from(j)].name = y
    BY <1>7, <2>1
  <2> QED BY <1>1, <2>2, <2>3 DEF Before
<1> QED BY <1>5, <1>9, <1>10, <1>11, <1>12 DEF t

LEMMA Appended ==
    ASSUME NEW s \in Seq(File), Distinct(s), NEW f \in File, \A g \in ToSet(s) : g.name # f.name
    PROVE  /\ Append(s, f) \in Seq(File) /\ Distinct(Append(s, f))
           /\ ToSet(Append(s, f)) = ToSet(s) \cup {f}
           /\ \A x, y : Before(Append(s, f), x, y) => Before(s, x, y) \/ y = f.name
<1> DEFINE n == Len(s)
           t == Append(s, f)
<1>1. /\ n \in Nat /\ DOMAIN s = 1 .. n /\ DOMAIN t = 1 .. n + 1 /\ t \in Seq(File)
      /\ t[n + 1] = f /\ \A i \in 1 .. n : t[i] = s[i]
    OBVIOUS
<1> HIDE DEF n, t
<1>2. \A i \in 1 .. n : s[i] \in ToSet(s)
    BY <1>1 DEF ToSet
<1>3. 1 .. n + 1 = (1 .. n) \cup {n + 1}
    BY <1>1
<1>4. Distinct(t)
  <2> SUFFICES ASSUME NEW i \in 1 .. n + 1, NEW j \in 1 .. n + 1, t[i].name = t[j].name
               PROVE  i = j
    BY <1>1 DEF Distinct
  <2>1. CASE i \in 1 .. n /\ j \in 1 .. n
    BY <1>1, <2>1 DEF Distinct
  <2>2. CASE i = n + 1 /\ j \in 1 .. n
    BY <1>1, <1>2, <2>2
  <2>3. CASE j = n + 1 /\ i \in 1 .. n
    BY <1>1, <1>2, <2>3
  <2> QED BY <1>3, <2>1, <2>2, <2>3
<1>5. ToSet(t) = ToSet(s) \cup {f}
    BY <1>1, <1>3 DEF ToSet
<1>6. ASSUME NEW x, NEW y, Before(t, x, y) PROVE Before(s, x, y) \/ y = f.name
  <2>1. PICK i, j \in 1 .. n + 1 : i < j /\ t[i].name = x /\ t[j].name = y
    BY <1>1, <1>6 DEF Before
  <2>2. i \in 1 .. n
    BY <1>1, <2>1
  <2>3. CASE j = n + 1
    BY <1>1, <2>1, <2>3
  <2>4. CASE j \in 1 .. n
    BY <1>1, <2>1, <2>2, <2>4 DEF Before
  <2> QED BY <1>3, <2>3, <2>4
<1> QED BY <1>1, <1>4, <1>5, <1>6 DEF t

LEMMA Mapped ==
    ASSUME NEW s \in Seq(File), NEW t, t = [k \in DOMAIN s |-> t[k]],
           \A k \in DOMAIN s : t[k] \in File
    PROVE  t \in Seq(File) /\ DOMAIN t = DOMAIN s
<1>1. Len(s) \in Nat /\ DOMAIN s = 1 .. Len(s)
    OBVIOUS
<1> QED BY <1>1

LEMMA Fields ==
    /\ \A f \in File : /\ f.name \in Names /\ f.image \in Images
                       /\ f.data \in {"written", "synced", "torn"}
    /\ \A i \in Images : <<"image", i>> \in Names
    /\ \A n \in Temps : <<"temp", n>> \in Names
    /\ \A i, j : <<"image", i>> = <<"image", j>> => i = j
    /\ \A i, j : <<"temp", i>> = <<"temp", j>> => i = j
    /\ \A i, j : <<"temp", i>> # <<"image", j>>
    /\ \A f : IsImage(f) <=> f.name[1] = "image"
    /\ \A i : <<"image", i>>[1] = "image" /\ <<"temp", i>>[1] = "temp"
    /\ \A n \in Names : \/ \E i \in Images : n = <<"image", i>>
                        \/ \E i \in Temps : n = <<"temp", i>>
BY DEF File, Names, IsImage

\* A name is that of one file.
LEMMA DirFacts ==
    ASSUME files \in Seq(File), Distinct(files)
    PROVE  /\ \A f \in Dir : f \in File
           /\ \A f, g \in Dir : f.name = g.name => f = g
           /\ \A n : Exists(n) <=> \E f \in Dir : f.name = n
           /\ \A n : Exists(n) => /\ Place(n) \in DOMAIN files /\ files[Place(n)] \in Dir
                                  /\ files[Place(n)].name = n
           /\ \A k \in DOMAIN files : files[k] \in Dir
<1>1. \A k \in DOMAIN files : files[k] \in File /\ files[k] \in Dir
    BY DEF Dir, ToSet
<1>2. \A f \in Dir : \E k \in DOMAIN files : f = files[k]
    BY DEF Dir, ToSet
<1>3. \A n : Exists(n) <=> \E f \in Dir : f.name = n
    BY DEF Exists, Named, Dir
<1>4. ASSUME NEW n, Exists(n)
      PROVE  Place(n) \in DOMAIN files /\ files[Place(n)].name = n
  <2>1. \E k \in DOMAIN files : files[k].name = n
    BY <1>2, <1>3, <1>4
  <2> QED BY <2>1 DEF Place
<1> QED BY <1>1, <1>2, <1>3, <1>4 DEF Distinct

LEMMA WithoutFacts ==
    ASSUME files \in Seq(File), Distinct(files), NEW n
    PROVE  /\ Without(n) \in Seq(File) /\ Distinct(Without(n))
           /\ ToSet(Without(n)) = {f \in Dir : f.name # n}
           /\ \A x, y : Before(Without(n), x, y) => Before(files, x, y)
<1>1. CASE Exists(n)
  <2>1. Place(n) \in DOMAIN files /\ files[Place(n)].name = n /\ Without(n) = RemoveAt(files, Place(n))
    BY <1>1, DirFacts DEF Without
  <2>2. ToSet(Without(n)) = Dir \ {files[Place(n)]}
    BY <2>1, Removed DEF Dir
  <2> QED BY <2>1, <2>2, Removed, DirFacts
<1>2. CASE ~Exists(n)
    BY <1>2, DirFacts DEF Without, Dir
<1> QED BY <1>1, <1>2

LEMMA TouchedFacts ==
    ASSUME files \in Seq(File), Distinct(files), NEW i
    PROVE  /\ Touched(i) \in Seq(File) /\ Distinct(Touched(i))
           /\ ToSet(Touched(i)) = Dir
<1> DEFINE n == <<"image", i>>
           f == files[Place(n)]
<1> HIDE DEF n
<1>1. CASE Exists(n)
  <2>1. f \in File /\ f \in Dir /\ f.name = n
    BY <1>1, DirFacts
  <2>2. Touched(i) = Append(Without(n), f)
    BY <1>1 DEF Touched, n
  <2>3. /\ Without(n) \in Seq(File) /\ Distinct(Without(n))
        /\ \A g \in ToSet(Without(n)) : g.name # f.name
        /\ ToSet(Without(n)) = Dir \ {f}
    BY <2>1, WithoutFacts, DirFacts
  <2> DEFINE w == Without(n)
  <2> HIDE DEF f, w
  <2>4. Append(w, f) \in Seq(File) /\ Distinct(Append(w, f)) /\ ToSet(Append(w, f)) = ToSet(w) \cup {f}
    BY <2>1, <2>3, Appended DEF w
  <2>5. ToSet(w) \cup {f} = Dir
    BY <2>1, <2>3 DEF w
  <2> QED BY <2>2, <2>4, <2>5 DEF w
<1>2. CASE ~Exists(n)
    BY <1>2 DEF Touched, Dir, n
<1> QED BY <1>1, <1>2

(***************************************************************************)
(* The table of locks                                                      *)
(***************************************************************************)

LEMMA LockFacts ==
    ASSUME CacheInv, NEW r \in Requests
    PROVE  /\ UsesTable(r) /\ image[r] \in Images /\ mine[r] \in Locks \cup {None} /\ r # None
           /\ TableUsed /\ Counted /\ LocksReclaimed
           /\ \A l \in Locks : IsFiniteSet(Users(l)) /\ Users(l) \subseteq Requests
           /\ \A l \in Locks : refs[l] \in Nat /\ (refs[l] = 0 <=> Users(l) = {})
<1>1. \A l \in Locks : IsFiniteSet(Users(l)) /\ Users(l) \subseteq Requests
  <2> TAKE l \in Locks
  <2>1. Users(l) \in SUBSET Requests
    BY DEF Users
  <2> QED BY <2>1, Constants, FS_Subset
<1>2. Counted /\ \A l \in Locks : refs[l] \in Nat
    BY DEF CacheInv, LocksInv, Typed
<1>3. \A l \in Locks : refs[l] = 0 <=> Users(l) = {}
    BY <1>1, <1>2, FS_EmptySet DEF Counted
<1> QED BY <1>1, <1>2, <1>3, Constants DEF CacheInv, LocksInv, Typed

\* There is always an object to make: those in the table and those that are
\* counted are somebody's.
LEMMA ObjectFree ==
    ASSUME CacheInv, NEW r \in Requests
    PROVE  \E x \in Locks : Unused(x)
<1> DEFINE T == {mine[q] : q \in Requests}
<1>1. mine \in Surjection(Requests, T)
    BY DEF CacheInv, Typed, Surjection
<1>2. IsFiniteSet(T) /\ Cardinality(T) <= R
    BY <1>1, Constants, FS_Surjection DEF R
<1>3. R > 0
    BY Constants, FS_EmptySet DEF R
<1>4. ~(Locks \subseteq T)
  <2> SUFFICES ASSUME Locks \subseteq T PROVE FALSE
    OBVIOUS
  <2> HIDE DEF T
  <2>1. Cardinality(Locks) <= Cardinality(T)
    BY <1>2, FS_Subset
  <2>2. Cardinality(T) \in Nat
    BY <1>2, FS_CardinalityType
  <2> QED BY <1>2, <1>3, <2>1, <2>2, Constants
<1>5. PICK x \in Locks : x \notin T
    BY <1>4
<1>6. \A q \in Requests : mine[q] # x
    BY <1>5
<1>7. refs[x] = 0
    BY <1>6, LockFacts DEF Users
<1>8. \A i \in Images : table[i] # x
    BY <1>6, LockFacts, Constants DEF LocksReclaimed
<1> QED BY <1>7, <1>8 DEF Unused

\* A step that leaves the locks alone, and nobody's need of them.
LEMMA LocksStay ==
    ASSUME CacheInv, UNCHANGED locks,
           \A r \in Requests : mine[r] # None => image'[r] = image[r],
           \A r \in Requests :
                \/ stage'[r] = stage[r]
                \/ stage[r] \in Filling /\ stage'[r] \in Filling
                \/ {stage[r], stage'[r]} \cap (Filling \cup {"wait", "unref"}) = {}
    PROVE  LocksInv'
<1>1. table' = table /\ refs' = refs /\ holder' = holder /\ mine' = mine
    BY DEF locks
<1>2. ASSUME NEW r \in Requests PROVE UsesTable(r)'
  <2>1. /\ stage'[r] \in Filling \cup {"wait", "unref"} <=> stage[r] \in Filling \cup {"wait", "unref"}
        /\ stage'[r] \in Filling <=> stage[r] \in Filling
    OBVIOUS
  <2> QED BY <1>1, <2>1, LockFacts DEF UsesTable
<1>3. TableUsed' /\ Counted'
    BY <1>1 DEF CacheInv, LocksInv, TableUsed, Counted, Users
<1>4. LocksReclaimed'
    BY <1>1 DEF CacheInv, LocksInv, LocksReclaimed
<1> QED BY <1>2, <1>3, <1>4 DEF LocksInv

LEMMA RefLocks ==
    ASSUME CacheInv, NEW r \in Requests, Ref(r)
    PROVE  LocksInv' /\ table' \in [Images -> Locks \cup {None}] /\ refs' \in [Locks -> Nat]
           /\ mine' \in [Requests -> Locks \cup {None}]
<1>1. PICK i \in Images : i = image[r]
    BY LockFacts
<1> DEFINE l0 == IF table[i] # None THEN table[i] ELSE CHOOSE x \in Locks : Unused(x)
<1>2. /\ l0 \in Locks
      /\ table[i] # None => l0 = table[i]
      /\ table[i] = None => Unused(l0)
  <2>1. table[i] \in Locks \cup {None}
    BY DEF CacheInv, Typed
  <2>2. CASE table[i] = None
    <3>1. Unused(CHOOSE x \in Locks : Unused(x)) /\ (CHOOSE x \in Locks : Unused(x)) \in Locks
      BY ObjectFree
    <3> QED BY <2>2, <3>1
  <2> QED BY <2>1, <2>2
<1>3. PICK l \in Locks : l = l0
    BY <1>2
<1>4. /\ stage[r] = "ref" /\ stage' = [stage EXCEPT ![r] = "wait"]
      /\ table' = [table EXCEPT ![i] = l]
      /\ refs' = [refs EXCEPT ![l] = @ + 1]
      /\ mine' = [mine EXCEPT ![r] = l]
      /\ image' = image /\ holder' = holder
    BY <1>1, <1>3 DEF Ref, Goto
<1>5. /\ table[i] # None => l = table[i]
      /\ table[i] = None => refs[l] = 0 /\ \A j \in Images : table[j] # l
    BY <1>2, <1>3 DEF Unused
<1> HIDE DEF l0
<1>6. /\ table \in [Images -> Locks \cup {None}] /\ refs \in [Locks -> Nat]
      /\ mine \in [Requests -> Locks \cup {None}] /\ stage \in [Requests -> Stages]
      /\ l # None /\ None \notin Locks
    BY Constants DEF CacheInv, Typed
<1>7. mine[r] = None
    BY <1>4, LockFacts DEF UsesTable, Filling
<1>8. /\ mine'[r] = l /\ \A q \in Requests : q # r => mine'[q] = mine[q] /\ stage'[q] = stage[q]
      /\ stage'[r] = "wait"
      /\ table'[i] = l /\ \A j \in Images : j # i => table'[j] = table[j]
    BY <1>4, <1>6
<1>9. ASSUME NEW q \in Requests PROVE UsesTable(q)'
  <2>1. CASE q = r
    BY <1>1, <1>4, <1>6, <1>8, <2>1 DEF UsesTable, Filling
  <2>2. CASE q # r
    BY <1>1, <1>4, <1>5, <1>8, <2>2, LockFacts DEF UsesTable
  <2> QED BY <2>1, <2>2
<1>10. TableUsed'
    BY <1>5, <1>6, <1>8, LockFacts DEF TableUsed
<1>11. Counted'
  <2> SUFFICES ASSUME NEW k \in Locks PROVE refs'[k] = Cardinality(Users(k)')
    BY DEF Counted
  <2>1. CASE k = l
    <3>1. Users(k)' = Users(k) \cup {r} /\ r \notin Users(k)
      BY <1>6, <1>7, <1>8, <2>1 DEF Users
    <3>2. Cardinality(Users(k)') = Cardinality(Users(k)) + 1
      BY <3>1, LockFacts, FS_AddElement
    <3> QED BY <1>4, <1>6, <2>1, <3>2, LockFacts DEF Counted
  <2>2. CASE k # l
    <3>1. Users(k)' = Users(k)
      BY <1>6, <1>7, <1>8, <2>2 DEF Users
    <3> QED BY <1>4, <1>6, <2>2, <3>1, LockFacts DEF Counted
  <2> QED BY <2>1, <2>2
<1>12. LocksReclaimed'
  <2> SUFFICES ASSUME NEW j \in Images, table'[j] # None
               PROVE  \E q \in Requests : mine'[q] = table'[j] /\ image'[q] = j
    BY DEF LocksReclaimed
  <2>1. CASE j = i
    BY <1>1, <1>4, <1>8, <2>1
  <2>2. CASE j # i
    <3>1. PICK q \in Requests : mine[q] = table[j] /\ image[q] = j
      BY <1>8, <2>2, LockFacts DEF LocksReclaimed
    <3>2. q # r
      BY <1>1, <2>2, <3>1
    <3> QED BY <1>4, <1>8, <2>2, <3>1, <3>2
  <2> QED BY <2>1, <2>2
<1> QED BY <1>4, <1>6, <1>9, <1>10, <1>11, <1>12 DEF LocksInv

LEMMA AcquireLocks ==
    ASSUME CacheInv, NEW r \in Requests, Acquire(r)
    PROVE  LocksInv' /\ holder' \in [Locks -> Requests \cup {None}]
<1>1. /\ stage[r] = "wait" /\ stage' = [stage EXCEPT ![r] = "recheck"]
      /\ holder[mine[r]] = None /\ holder' = [holder EXCEPT ![mine[r]] = r]
      /\ UNCHANGED <<image, table, refs, mine>>
    BY DEF Acquire, Goto
<1>2. PICK l \in Locks : l = mine[r]
    BY <1>1, LockFacts DEF UsesTable
<1>3. /\ holder \in [Locks -> Requests \cup {None}] /\ stage \in [Requests -> Stages]
      /\ \A q \in Requests : mine[q] \in Locks \cup {None} /\ q # None
    BY Constants DEF CacheInv, Typed
<1>4. ASSUME NEW q \in Requests PROVE UsesTable(q)'
  <2>1. CASE q = r
    <3>1. stage'[r] = "recheck" /\ holder'[l] = r
      BY <1>1, <1>2, <1>3
    <3> QED BY <1>1, <1>2, <2>1, <3>1, LockFacts DEF UsesTable, Filling
  <2>2. CASE q # r
    <3>1. stage'[q] = stage[q] /\ (mine[q] # l => holder'[mine[q]] = holder[mine[q]])
      BY <1>1, <1>2, <1>3, <2>2
    <3>2. stage[q] \in Filling => mine[q] # l
      BY <1>1, <1>2, <1>3, LockFacts DEF UsesTable
    <3> QED BY <1>1, <3>1, <3>2, LockFacts DEF UsesTable
  <2> QED BY <2>1, <2>2
<1>5. TableUsed' /\ Counted' /\ LocksReclaimed'
    BY <1>1, LockFacts DEF TableUsed, Counted, Users, LocksReclaimed
<1> QED BY <1>1, <1>2, <1>3, <1>4, <1>5 DEF LocksInv

LEMMA UnlockLocks ==
    ASSUME CacheInv, NEW r \in Requests, Unlock(r)
    PROVE  LocksInv' /\ holder' \in [Locks -> Requests \cup {None}]
<1>1. /\ stage[r] = "unlock" /\ stage' = [stage EXCEPT ![r] = "unref"]
      /\ holder' = [holder EXCEPT ![mine[r]] = None]
      /\ UNCHANGED <<image, table, refs, mine>>
    BY DEF Unlock, Goto
<1>2. PICK l \in Locks : l = mine[r]
    BY <1>1, LockFacts DEF UsesTable, Filling
<1>3. /\ holder \in [Locks -> Requests \cup {None}] /\ stage \in [Requests -> Stages]
      /\ \A q \in Requests : mine[q] \in Locks \cup {None} /\ q # None
    BY Constants DEF CacheInv, Typed
<1>6. holder[l] = r
    BY <1>1, <1>2, LockFacts DEF UsesTable, Filling
<1>4. ASSUME NEW q \in Requests PROVE UsesTable(q)'
  <2>1. CASE q = r
    <3>1. stage'[r] = "unref"
      BY <1>1, <1>3
    <3> QED BY <1>1, <1>2, <2>1, <3>1, LockFacts DEF UsesTable, Filling
  <2>2. CASE q # r
    <3>1. stage'[q] = stage[q] /\ (mine[q] # l => holder'[mine[q]] = holder[mine[q]])
      BY <1>1, <1>2, <1>3, <2>2
    <3>2. stage[q] \in Filling => mine[q] # l
      BY <1>6, <2>2, LockFacts DEF UsesTable
    <3> QED BY <1>1, <3>1, <3>2, LockFacts DEF UsesTable
  <2> QED BY <2>1, <2>2
<1>5. TableUsed' /\ Counted' /\ LocksReclaimed'
    BY <1>1, LockFacts DEF TableUsed, Counted, Users, LocksReclaimed
<1> QED BY <1>1, <1>2, <1>3, <1>4, <1>5 DEF LocksInv

LEMMA UnrefLocks ==
    ASSUME CacheInv, NEW r \in Requests, Unref(r)
    PROVE  LocksInv' /\ table' \in [Images -> Locks \cup {None}] /\ refs' \in [Locks -> Nat]
           /\ mine' \in [Requests -> Locks \cup {None}]
<1>1. PICK i \in Images : i = image[r]
    BY LockFacts
<1>2. PICK l \in Locks : l = mine[r]
    BY LockFacts DEF Unref, UsesTable
<1>3. /\ stage[r] = "unref" /\ stage' = [stage EXCEPT ![r] = "idle"]
      /\ refs' = [refs EXCEPT ![l] = @ - 1]
      /\ table' = [table EXCEPT ![i] = IF refs'[l] = 0 /\ @ = l THEN None ELSE @]
      /\ mine' = [mine EXCEPT ![r] = None]
      /\ image' = image /\ holder' = holder
    BY <1>1, <1>2 DEF Unref, Goto
<1>4. /\ table \in [Images -> Locks \cup {None}] /\ refs \in [Locks -> Nat]
      /\ mine \in [Requests -> Locks \cup {None}] /\ stage \in [Requests -> Stages]
      /\ l # None /\ None \notin Locks
    BY Constants DEF CacheInv, Typed
<1>5. /\ mine'[r] = None /\ stage'[r] = "idle"
      /\ \A q \in Requests : q # r => mine'[q] = mine[q] /\ stage'[q] = stage[q]
      /\ \A j \in Images : j # i => table'[j] = table[j]
      /\ table[i] = l
    BY <1>1, <1>2, <1>3, <1>4, LockFacts DEF UsesTable
<1>6. /\ Users(l)' = Users(l) \ {r} /\ r \in Users(l)
      /\ \A k \in Locks : k # l => Users(k)' = Users(k)
    BY <1>2, <1>4, <1>5 DEF Users
<1>7. /\ refs'[l] = Cardinality(Users(l)') /\ refs'[l] \in Nat
      /\ refs'[l] = 0 => Users(l)' = {}
  <2>1. IsFiniteSet(Users(l)) /\ refs[l] = Cardinality(Users(l)) /\ refs[l] \in Nat
    BY LockFacts DEF Counted
  <2>2. Cardinality(Users(l) \ {r}) = Cardinality(Users(l)) - 1 /\ IsFiniteSet(Users(l) \ {r})
    BY <1>6, <2>1, FS_RemoveElement
  <2>3. refs'[l] = Cardinality(Users(l)')
    BY <1>3, <1>4, <1>6, <2>1, <2>2
  <2> QED BY <1>6, <2>2, <2>3, FS_CardinalityType, FS_EmptySet
<1>8. Counted'
  <2> SUFFICES ASSUME NEW k \in Locks PROVE refs'[k] = Cardinality(Users(k)')
    BY DEF Counted
  <2>1. CASE k = l
    BY <1>7, <2>1
  <2>2. CASE k # l
    BY <1>3, <1>4, <1>6, <2>2, LockFacts DEF Counted
  <2> QED BY <2>1, <2>2
<1>9. table'[i] = IF refs'[l] = 0 THEN None ELSE l
    BY <1>3, <1>4, <1>5
<1>10. refs'[l] = 0 => \A q \in Requests : q # r => mine[q] # l
    BY <1>6, <1>7 DEF Users
<1>11. ASSUME NEW q \in Requests PROVE UsesTable(q)'
  <2>1. CASE q = r
    BY <1>5, <2>1 DEF UsesTable, Filling
  <2>2. CASE q # r
    <3>1. mine[q] # None => table'[image[q]] = mine[q]
      BY <1>5, <1>9, <1>10, <2>2, LockFacts DEF UsesTable
    <3> QED BY <1>3, <1>5, <2>2, <3>1, LockFacts DEF UsesTable
  <2> QED BY <2>1, <2>2
<1>12. TableUsed'
    BY <1>5, <1>9, LockFacts DEF TableUsed
<1>13. LocksReclaimed'
  <2> SUFFICES ASSUME NEW j \in Images, table'[j] # None
               PROVE  \E q \in Requests : mine'[q] = table'[j] /\ image'[q] = j
    BY DEF LocksReclaimed
  <2>1. CASE j = i
    <3>1. refs'[l] # 0 /\ table'[i] = l
      BY <1>9, <2>1
    <3>2. PICK q \in Requests : q # r /\ mine[q] = l
      <4>1. Users(l)' # {}
        <5>1. Cardinality(Users(l)') # 0
          BY <1>7, <3>1
        <5> QED BY <5>1, FS_EmptySet
      <4> QED BY <1>6, <4>1 DEF Users
    <3>3. image[q] = i
      BY <1>4, <1>5, <3>2, LockFacts DEF UsesTable, TableUsed
    <3> QED BY <1>3, <1>5, <2>1, <3>1, <3>2, <3>3
  <2>2. CASE j # i
    <3>1. PICK q \in Requests : mine[q] = table[j] /\ image[q] = j
      BY <1>5, <2>2, LockFacts DEF LocksReclaimed
    <3>2. q # r
      BY <1>1, <2>2, <3>1
    <3> QED BY <1>3, <1>5, <2>2, <3>1, <3>2
  <2> QED BY <2>1, <2>2
<1>14. table' \in [Images -> Locks \cup {None}]
  <2>1. table'[i] \in Locks \cup {None}
    BY <1>9
  <2>2. table' = [table EXCEPT ![i] = table'[i]]
    BY <1>3, <1>4
  <2> QED BY <1>4, <2>1, <2>2
<1>15. refs' \in [Locks -> Nat]
    BY <1>3, <1>4, <1>7
<1> QED BY <1>3, <1>4, <1>8, <1>11, <1>12, <1>13, <1>14, <1>15 DEF LocksInv

LEMMA InitialLocks ==
    /\ Init => LocksInv
    /\ Crash => LocksInv'
<1>1. Cardinality({}) = 0 /\ \A r \in Requests : r # None
    BY FS_EmptySet, Constants
<1>2. ASSUME Init PROVE LocksInv
  <2>1. (\A r \in Requests : UsesTable(r)) /\ TableUsed /\ LocksReclaimed
    BY <1>2 DEF Init, UsesTable, TableUsed, LocksReclaimed, Filling
  <2>2. ASSUME NEW l \in Locks PROVE refs[l] = Cardinality(Users(l))
    <3>1. Users(l) = {} /\ refs[l] = 0
      BY <1>2, Constants DEF Init, Users
    <3> QED BY <1>1, <3>1
  <2> QED BY <2>1, <2>2 DEF LocksInv, Counted
<1>3. ASSUME Crash PROVE LocksInv'
  <2>0. /\ stage' = [r \in Requests |-> "idle"] /\ table' = [i \in Images |-> None]
        /\ refs' = [l \in Locks |-> 0] /\ mine' = [r \in Requests |-> None]
    BY <1>3 DEF Crash
  <2>1. (\A r \in Requests : UsesTable(r)') /\ TableUsed' /\ LocksReclaimed'
    BY <2>0 DEF UsesTable, TableUsed, LocksReclaimed, Filling
  <2>2. ASSUME NEW l \in Locks PROVE refs'[l] = Cardinality(Users(l)')
    <3>1. Users(l)' = {} /\ refs'[l] = 0
      BY <2>0, Constants DEF Users
    <3> QED BY <1>1, <3>1
  <2> QED BY <2>1, <2>2 DEF LocksInv, Counted
<1> QED BY <1>2, <1>3

\* Two requests that are filling are filling different images.
LEMMA FillingExcludes ==
    ASSUME CacheInv, NEW r \in Requests, NEW q \in Requests, r # q,
           stage[r] \in Filling, stage[q] \in Filling
    PROVE  image[r] # image[q]
BY LockFacts DEF UsesTable

(***************************************************************************)
(* There is always a free temporary name                                   *)
(***************************************************************************)

LEMMA Products ==
    ASSUME NEW a \in Nat, NEW b \in Nat, NEW c \in Nat, b <= c
    PROVE  /\ a * b \in Nat /\ a * c \in Nat /\ a * b <= a * c
           /\ a * (1 + b) = a + a * b
           /\ 2 * a * (1 + c) = 2 * a + 2 * (a * c)
<1>1. a * b \in Nat /\ a * c \in Nat
    OBVIOUS
<1>2. PICK d \in Nat : c = b + d
    BY c - b \in Nat /\ c = b + (c - b)
<1>3. a * c = a * b + a * d /\ a * d \in Nat
    BY <1>2
<1>4. a * (1 + b) = a + a * b
    OBVIOUS
<1>5. 2 * a * (1 + c) = 2 * a + 2 * (a * c)
    OBVIOUS
<1> QED BY <1>1, <1>3, <1>4, <1>5

LEMMA NamesBounds ==
    ASSUME CacheInv
    PROVE  /\ IsFiniteSet(Left) /\ IsFiniteSet(Seen) /\ IsFiniteSet(Owned)
           /\ Left \subseteq Temps /\ Seen \subseteq Temps /\ Owned \subseteq Temps
           /\ Cardinality(Left) \in Nat /\ Cardinality(Seen) \in Nat /\ Cardinality(Owned) \in Nat
           /\ Cardinality(Left) <= R * crashes /\ Cardinality(Seen) <= R * (1 + crashes)
           /\ Cardinality(Owned) <= R
           /\ (\E r \in Requests : tmp[r] = None) => Cardinality(Owned) <= R - 1
           /\ TempsIn(Dir) \subseteq Left \cup Owned
           /\ crashes \in Nat /\ crashes <= MaxCrashes
<1>1. Left \in SUBSET Temps /\ Seen \in SUBSET Temps /\ Owned \in SUBSET Temps
    BY DEF Left, Seen, Owned, TempsIn
<1>2. /\ IsFiniteSet(Left) /\ IsFiniteSet(Seen) /\ IsFiniteSet(Owned)
      /\ Cardinality(Left) \in Nat /\ Cardinality(Seen) \in Nat /\ Cardinality(Owned) \in Nat
    BY <1>1, Constants, FS_Subset, FS_CardinalityType
<1>3. Cardinality(Left) <= R * crashes /\ Cardinality(Seen) <= R * (1 + crashes)
    BY DEF CacheInv, FilesInv, NamesEnough
<1> DEFINE T == {tmp[q] : q \in Requests}
<1>4. tmp \in Surjection(Requests, T)
    BY DEF CacheInv, Typed, Surjection
<1>5. IsFiniteSet(T) /\ Cardinality(T) <= R /\ Cardinality(T) \in Nat
    BY <1>4, Constants, FS_Surjection, FS_CardinalityType DEF R
<1>6. Owned \in SUBSET T /\ Owned \in SUBSET (T \ {None})
    BY Constants DEF Owned
<1>7. (\E r \in Requests : tmp[r] = None) => None \in T
    OBVIOUS
<1> HIDE DEF T
<1>8. Cardinality(Owned) <= Cardinality(T)
    BY <1>5, <1>6, FS_Subset
<1>9. None \in T => Cardinality(Owned) <= Cardinality(T) - 1
  <2> SUFFICES ASSUME None \in T PROVE Cardinality(Owned) <= Cardinality(T) - 1
    OBVIOUS
  <2>1. IsFiniteSet(T \ {None}) /\ Cardinality(T \ {None}) = Cardinality(T) - 1
    BY <1>5, FS_RemoveElement
  <2>2. Cardinality(Owned) <= Cardinality(T \ {None})
    BY <1>6, <2>1, FS_Subset
  <2> QED BY <2>1, <2>2
<1>10. TempsIn(Dir) \subseteq Left \cup Owned
    BY DEF Left
<1>11. crashes \in Nat /\ crashes <= MaxCrashes
    BY Constants DEF CacheInv, Typed
<1>12. /\ Cardinality(Owned) <= R
       /\ (\E r \in Requests : tmp[r] = None) => Cardinality(Owned) <= R - 1
    BY <1>2, <1>5, <1>7, <1>8, <1>9, Constants
<1> QED BY <1>1, <1>2, <1>3, <1>10, <1>11, <1>12

LEMMA UnionBound ==
    ASSUME NEW S, NEW T, IsFiniteSet(S), IsFiniteSet(T)
    PROVE  /\ IsFiniteSet(S \cup T) /\ Cardinality(S \cup T) \in Nat
           /\ Cardinality(S) \in Nat /\ Cardinality(T) \in Nat
           /\ Cardinality(S \cup T) <= Cardinality(S) + Cardinality(T)
<1>1. IsFiniteSet(S \cup T) /\ IsFiniteSet(S \cap T)
    BY FS_Union, FS_Intersection
<1>2. Cardinality(S \cup T) = Cardinality(S) + Cardinality(T) - Cardinality(S \cap T)
    BY FS_Union
<1>3. /\ Cardinality(S \cap T) \in Nat /\ Cardinality(S) \in Nat /\ Cardinality(T) \in Nat
      /\ Cardinality(S \cup T) \in Nat
    BY <1>1, FS_CardinalityType
<1> QED BY <1>1, <1>2, <1>3

\* What crashes have left, what requests work with and what the enforcement
\* has seen are fewer names than there are.
LEMMA NameFree ==
    ASSUME CacheInv, NEW r \in Requests, tmp[r] = None
    PROVE  \E n \in Temps : /\ \A f \in ToSet(files) \cup ToSet(scanned) : f.name # <<"temp", n>>
                            /\ \A q \in Requests : tmp[q] # n
<1>1. /\ IsFiniteSet(Left \cup Owned)
      /\ Cardinality(Left \cup Owned) <= R * crashes + (R - 1)
  <2>1. Cardinality(Left \cup Owned) <= Cardinality(Left) + Cardinality(Owned)
        /\ IsFiniteSet(Left \cup Owned) /\ Cardinality(Left \cup Owned) \in Nat
    BY NamesBounds, UnionBound
  <2>2. Cardinality(Left) \in Nat /\ Cardinality(Owned) \in Nat
        /\ Cardinality(Left) <= R * crashes /\ Cardinality(Owned) <= R - 1
    BY NamesBounds
  <2>3. R * crashes \in Nat /\ R \in Nat
    BY NamesBounds, Products, Constants
  <2> QED BY <2>1, <2>2, <2>3
<1> DEFINE U == (Left \cup Owned) \cup Seen
<1>2. IsFiniteSet(U) /\ Cardinality(U) <= (R * crashes + (R - 1)) + R * (1 + crashes)
  <2>1. /\ IsFiniteSet(U) /\ Cardinality(U) <= Cardinality(Left \cup Owned) + Cardinality(Seen)
        /\ Cardinality(U) \in Nat /\ Cardinality(Left \cup Owned) \in Nat
        /\ Cardinality(Seen) \in Nat
    BY <1>1, NamesBounds, UnionBound
  <2>2. Cardinality(Seen) <= R * (1 + crashes)
    BY NamesBounds
  <2>3. R * crashes \in Nat /\ R * (1 + crashes) \in Nat /\ R \in Nat
    BY NamesBounds, Products, Constants
  <2> HIDE DEF U
  <2> QED BY <1>1, <2>1, <2>2, <2>3
<1>3. Cardinality(U) \in Nat
    BY <1>2, FS_CardinalityType
<1>4. Cardinality(U) < Cardinality(Temps)
  <2>1. /\ R * crashes <= R * MaxCrashes /\ R * (1 + crashes) = R + R * crashes
        /\ 2 * R * (1 + MaxCrashes) = 2 * R + 2 * (R * MaxCrashes)
        /\ R * crashes \in Nat /\ R * MaxCrashes \in Nat /\ R \in Nat
    BY NamesBounds, Constants, Products
  <2> HIDE DEF U
  <2> QED BY <1>2, <1>3, <2>1, Constants
<1>5. PICK n \in Temps : n \notin U
  <2>1. ~(Temps \subseteq U)
    <3> HIDE DEF U
    <3> SUFFICES ASSUME Temps \subseteq U PROVE FALSE
      OBVIOUS
    <3>1. Cardinality(Temps) <= Cardinality(U)
      BY <1>2, FS_Subset
    <3>2. Cardinality(Temps) \in Nat
      BY Constants, FS_CardinalityType
    <3> QED BY <1>3, <1>4, <3>1, <3>2
  <2> QED BY <2>1
<1>6. n \notin TempsIn(Dir) /\ n \notin Owned /\ n \notin Seen
    BY <1>5, NamesBounds
<1> QED BY <1>6 DEF TempsIn, Owned, Seen, Dir

(***************************************************************************)
(* The files                                                               *)
(***************************************************************************)

LEMMA Types ==
    ASSUME CacheInv
    PROVE  /\ files \in Seq(File) /\ Distinct(files)
           /\ stage \in [Requests -> Stages] /\ image \in [Requests -> Images]
           /\ tmp \in [Requests -> Temps \cup {None}]
           /\ table \in [Images -> Locks \cup {None}] /\ refs \in [Locks -> Nat]
           /\ holder \in [Locks -> Requests \cup {None}]
           /\ mine \in [Requests -> Locks \cup {None}]
           /\ quotaMu \in Requests \cup {None} /\ scanned \in Seq(File)
           /\ littered \in BOOLEAN /\ crashes \in 0 .. MaxCrashes
BY DEF CacheInv, Typed

LEMMA Staged ==
    ASSUME CacheInv, NEW r \in Requests, NEW s \in Stages, Goto(r, s)
    PROVE  /\ stage' \in [Requests -> Stages] /\ stage'[r] = s
           /\ \A q \in Requests : q # r => stage'[q] = stage[q]
BY Types DEF Goto

LEMMA FilesFacts ==
    ASSUME CacheInv
    PROVE  /\ \A r \in Requests : OwnsTemp(r) /\ tmp[r] \in Temps \cup {None}
           /\ \A f \in Dir : WholeImage(f) /\ f \in File
           /\ \A r \in Requests : Fetching(r) => ~Cached(image[r])
           /\ \A i : Cached(i) <=> \E f \in Dir : f.name = <<"image", i>>
           /\ NamesEnough
  <1>1. \A i : Cached(i) <=> \E f \in Dir : f.name = <<"image", i>>
    BY DEF Cached, Exists, Named, Dir
  <1> QED BY <1>1, Types, DirFacts DEF CacheInv, FilesInv, NotCached

LEMMA StillNotCached ==
    ASSUME CacheInv,
           \A f \in Dir' : IsImage(f) => \E g \in Dir : g.name = f.name,
           \A r \in Requests : Fetching(r)' =>
                image'[r] = image[r] /\ (Fetching(r) \/ ~Cached(image[r]))
    PROVE  NotCached'
<1> SUFFICES ASSUME NEW r \in Requests, Fetching(r)', Cached(image[r])' PROVE FALSE
    BY DEF NotCached
<1>1. PICK f \in Dir' : f.name = <<"image", image'[r]>>
    BY DEF Cached, Exists, Named, Dir
<1>2. IsImage(f)
    BY <1>1, Fields
<1>3. Cached(image[r])
    BY <1>1, <1>2, FilesFacts
<1> QED BY <1>3, FilesFacts

\* Fewer names are enough as well.
LEMMA StillEnough ==
    ASSUME CacheInv, crashes' = crashes, Left' \subseteq Left,
           Cardinality(Seen') <= R * (1 + crashes)
    PROVE  NamesEnough'
<1>1. Cardinality(Left') <= Cardinality(Left) /\ Cardinality(Left') \in Nat
    BY NamesBounds, FS_Subset, FS_CardinalityType
<1>2. R * crashes \in Nat /\ Cardinality(Left) \in Nat /\ Cardinality(Left) <= R * crashes
    BY NamesBounds, Constants, Products
<1> QED BY <1>1, <1>2 DEF NamesEnough, R

LEMMA SeenKept ==
    ASSUME CacheInv, Seen' \subseteq Seen
    PROVE  Cardinality(Seen') <= R * (1 + crashes)
<1>1. Cardinality(Seen') <= Cardinality(Seen) /\ Cardinality(Seen') \in Nat
    BY NamesBounds, FS_Subset, FS_CardinalityType
<1>2. /\ R * (1 + crashes) \in Nat /\ Cardinality(Seen) \in Nat
      /\ Cardinality(Seen) <= R * (1 + crashes)
    BY NamesBounds, Constants, Products
<1> QED BY <1>1, <1>2

\* A step that adds no file and changes no temporary file.
LEMMA FilesStay ==
    ASSUME CacheInv, Dir' \subseteq Dir, UNCHANGED <<tmp, crashes>>,
           Cardinality(Seen') <= R * (1 + crashes),
           \A r \in Requests : \/ stage'[r] = stage[r]
                               \/ {stage[r], stage'[r]} \cap {"sync", "rename"} = {},
           \A r \in Requests : image'[r] = image[r] \/ tmp[r] = None
    PROVE  FilesInv'
<1>1. ASSUME NEW r \in Requests PROVE OwnsTemp(r)'
  <2>1. tmp'[r] # None <=> stage'[r] \in {"sync", "rename"}
    BY FilesFacts DEF OwnsTemp
  <2>2. \A q \in Requests : q # r /\ tmp'[r] # None => tmp'[q] # tmp'[r]
    BY FilesFacts DEF OwnsTemp
  <2>3. ASSUME NEW f \in Dir', tmp'[r] # None, f.name = <<"temp", tmp'[r]>>
        PROVE  f.image = image'[r] /\ (stage'[r] = "rename" => f.data = "synced")
    BY <2>3, FilesFacts DEF OwnsTemp
  <2> QED BY <2>1, <2>2, <2>3 DEF OwnsTemp
<1>2. \A f \in Dir' : WholeImage(f)
    BY FilesFacts
<1>3. Left' \subseteq Left
  <2>1. TempsIn(Dir') \subseteq TempsIn(Dir)
    BY DEF TempsIn
  <2>2. Owned' = Owned
    BY DEF Owned
  <2> QED BY <2>1, <2>2 DEF Left, TempsIn
<1> QED BY <1>1, <1>2, <1>3, StillEnough DEF FilesInv

\* A step that ends the use of a temporary file.
LEMMA TempGone ==
    ASSUME CacheInv, NEW r \in Requests, NEW s \in Stages \ {"sync", "rename"}, Goto(r, s),
           tmp' = [tmp EXCEPT ![r] = None],
           \A f \in Dir' : /\ WholeImage(f)
                           /\ ~IsImage(f) => f \in Dir /\ f.name # <<"temp", tmp[r]>>,
           UNCHANGED <<image, scanned, crashes>>
    PROVE  FilesInv'
<1>1. /\ tmp'[r] = None /\ stage'[r] = s
      /\ \A q \in Requests : q # r => tmp'[q] = tmp[q] /\ stage'[q] = stage[q]
    BY Types, Staged
<1>2. ASSUME NEW q \in Requests PROVE OwnsTemp(q)'
  <2>1. CASE q = r
    BY <1>1, <2>1 DEF OwnsTemp
  <2>2. CASE q # r
    <3>1. tmp'[q] # None <=> stage'[q] \in {"sync", "rename"}
      BY <1>1, <2>2, FilesFacts DEF OwnsTemp
    <3>2. \A p \in Requests : p # q /\ tmp'[q] # None => tmp'[p] # tmp'[q]
      BY <1>1, <2>2, FilesFacts DEF OwnsTemp
    <3>3. ASSUME NEW f \in Dir', tmp'[q] # None, f.name = <<"temp", tmp'[q]>>
          PROVE  f.image = image'[q] /\ (stage'[q] = "rename" => f.data = "synced")
      <4>1. f \in Dir
        BY <3>3, Fields
      <4> QED BY <1>1, <2>2, <3>3, <4>1, FilesFacts DEF OwnsTemp
    <3> QED BY <3>1, <3>2, <3>3 DEF OwnsTemp
  <2> QED BY <2>1, <2>2
<1>3. Left' \subseteq Left
  <2> SUFFICES ASSUME NEW n \in Left' PROVE n \in Left
    OBVIOUS
  <2>1. n \in Temps /\ n \notin Owned' /\ \E f \in Dir' : f.name = <<"temp", n>>
    BY DEF Left, TempsIn
  <2>2. PICK f \in Dir' : f.name = <<"temp", n>>
    BY <2>1
  <2>3. f \in Dir /\ tmp[r] # n
    BY <2>2, Fields
  <2>4. n \notin Owned
    BY <1>1, <2>1, <2>3 DEF Owned
  <2> QED BY <2>1, <2>2, <2>3, <2>4 DEF Left, TempsIn
<1>4. Seen' \subseteq Seen
    BY DEF Seen, TempsIn
<1> QED BY <1>2, <1>3, <1>4, SeenKept, StillEnough DEF FilesInv

(***************************************************************************)
(* The steps                                                               *)
(***************************************************************************)

\* A request goes on, without its temporary file or the lock.
LEMMA QuietSteps ==
    ASSUME CacheInv, NEW r \in Requests, NEW s \in Stages, Goto(r, s),
           UNCHANGED <<tmp, locks, crashes>>,
           files' \in Seq(File), Distinct(files)', Dir' \subseteq Dir,
           {stage[r], s} \cap {"sync", "rename", "wait", "unref"} = {},
           stage[r] \in Filling <=> s \in Filling,
           s \in {"fetch", "create"} => stage[r] \in {"fetch", "create"} \/ ~Cached(image[r]),
           image' = image \/ (stage[r] = "idle" /\ \E i \in Images : image' = [image EXCEPT ![r] = i]),
           quotaMu' \in Requests \cup {None}, scanned' \in Seq(File), littered' \in BOOLEAN,
           Cardinality(Seen') <= R * (1 + crashes)
    PROVE  CacheInv'
<1>1. stage' \in [Requests -> Stages] /\ stage'[r] = s /\ \A q \in Requests : q # r => stage'[q] = stage[q]
    BY Staged
<1>2. /\ image' \in [Requests -> Images] /\ \A q \in Requests : q # r => image'[q] = image[q]
      /\ image'[r] = image[r] \/ stage[r] = "idle"
    BY Types
<1>3. Typed'
    BY <1>1, <1>2, Types DEF Typed, locks
<1>4. \A q \in Requests : stage[q] = "idle" => mine[q] = None /\ tmp[q] = None
    BY LockFacts, FilesFacts DEF UsesTable, OwnsTemp, Filling
<1>5. LocksInv'
  <2>1. \A q \in Requests : mine[q] # None => image'[q] = image[q]
    BY <1>2, <1>4
  <2>2. \A q \in Requests :
            \/ stage'[q] = stage[q]
            \/ stage[q] \in Filling /\ stage'[q] \in Filling
            \/ {stage[q], stage'[q]} \cap (Filling \cup {"wait", "unref"}) = {}
    BY <1>1
  <2> QED BY <2>1, <2>2, LocksStay
<1>6. NotCached'
  <2>1. \A q \in Requests : Fetching(q)' => image'[q] = image[q] /\ (Fetching(q) \/ ~Cached(image[q]))
    BY <1>1, <1>2 DEF Fetching, Filling
  <2> QED BY <2>1, StillNotCached
<1>7. FilesInv'
  <2>1. \A q \in Requests : \/ stage'[q] = stage[q]
                            \/ {stage[q], stage'[q]} \cap {"sync", "rename"} = {}
    BY <1>1
  <2>2. \A q \in Requests : image'[q] = image[q] \/ tmp[q] = None
    BY <1>2, <1>4
  <2> QED BY <2>1, <2>2, FilesStay
<1> QED BY <1>3, <1>5, <1>6, <1>7 DEF CacheInv

LEMMA DirSame == files' = files => Dir' = Dir /\ (Distinct(files)' <=> Distinct(files))
BY DEF Dir, Distinct, ToSet

LEMMA SeenSame == scanned' = scanned => Seen' = Seen
BY DEF Seen, TempsIn, ToSet

LEMMA LookupSteps ==
    ASSUME CacheInv, NEW r \in Requests, NEW i \in Images, Lookup(r, i) PROVE CacheInv'
<1>1. PICK s \in {"touch", "ref"} : Goto(r, s)
    BY DEF Lookup
<1>2. /\ stage[r] = "idle" /\ image' = [image EXCEPT ![r] = i]
      /\ UNCHANGED <<files, tmp, locks, quotaMu, scanned, littered, crashes>>
    BY DEF Lookup, quota
<1>3. s \in Stages /\ s \notin Filling /\ s \notin {"sync", "rename", "wait", "unref", "fetch", "create"}
    BY <1>1 DEF Stages, Filling
<1> QED BY <1>1, <1>2, <1>3, Types, DirSame, SeenSame, SeenKept, QuietSteps DEF Filling

LEMMA TouchSteps ==
    ASSUME CacheInv, NEW r \in Requests, Touch(r) PROVE CacheInv'
<1>1. /\ stage[r] = "touch" /\ files' = Touched(image[r]) /\ Goto(r, "idle")
      /\ UNCHANGED <<image, tmp, locks, quotaMu, scanned, littered, crashes>>
    BY DEF Touch, quota
<1>2. files' \in Seq(File) /\ Distinct(files)' /\ Dir' = Dir
    BY <1>1, Types, TouchedFacts DEF Dir
<1> QED BY <1>1, <1>2, Types, SeenSame, SeenKept, QuietSteps DEF Filling, Stages

LEMMA FillSteps ==
    ASSUME CacheInv, NEW r \in Requests, Recheck(r) \/ Fetch(r) \/ Stat(r) PROVE CacheInv'
<1>1. UNCHANGED <<files, image, tmp, locks, quotaMu, scanned, littered, crashes>>
    BY DEF Recheck, Fetch, Stat, quota
<1>2. CASE Recheck(r)
  <2>1. PICK s \in {"unlock", "fetch"} : s = IF Cached(image[r]) THEN "unlock" ELSE "fetch"
    OBVIOUS
  <2>2. Goto(r, s) /\ stage[r] = "recheck" /\ (s = "fetch" => ~Cached(image[r])) /\ s # "create"
    BY <1>2, <2>1 DEF Recheck
  <2> QED BY <1>1, <2>2, Types, DirSame, SeenSame, SeenKept, QuietSteps DEF Filling, Stages
<1>3. CASE Fetch(r)
  <2>1. PICK s \in {"unlock", "create"} : Goto(r, s)
    BY <1>3 DEF Fetch
  <2>2. stage[r] = "fetch"
    BY <1>3 DEF Fetch
  <2> QED BY <1>1, <2>1, <2>2, Types, DirSame, SeenSame, SeenKept, QuietSteps DEF Filling, Stages
<1>4. CASE Stat(r)
  <2>1. stage[r] = "stat" /\ Goto(r, "unlock")
    BY <1>4 DEF Stat
  <2> QED BY <1>1, <2>1, Types, DirSame, SeenSame, SeenKept, QuietSteps DEF Filling, Stages
<1> QED BY <1>2, <1>3, <1>4

\* What a scan sees is what crashes have left and what requests work with.
LEMMA ScanSteps ==
    ASSUME CacheInv, NEW r \in Requests, Scan(r) PROVE CacheInv'
<1>1. /\ stage[r] = "scan" /\ quotaMu' = r /\ scanned' = files /\ littered' = FALSE
      /\ Goto(r, "evict") /\ UNCHANGED <<files, image, tmp, locks, crashes>>
    BY DEF Scan
<1>2. Cardinality(Seen') <= R * (1 + crashes)
  <2>1. Seen' = TempsIn(Dir)
    BY <1>1 DEF Seen, TempsIn, Dir
  <2>2. Seen' \in SUBSET (Left \cup Owned)
    BY <2>1, NamesBounds
  <2>3. /\ IsFiniteSet(Left \cup Owned)
        /\ Cardinality(Left \cup Owned) <= Cardinality(Left) + Cardinality(Owned)
        /\ Cardinality(Left \cup Owned) \in Nat
    BY NamesBounds, UnionBound
  <2>4. Cardinality(Seen') <= Cardinality(Left \cup Owned) /\ Cardinality(Seen') \in Nat
    BY <2>2, <2>3, FS_Subset, FS_CardinalityType
  <2>5. /\ Cardinality(Left) <= R * crashes /\ Cardinality(Owned) <= R
        /\ Cardinality(Left) \in Nat /\ Cardinality(Owned) \in Nat
    BY NamesBounds
  <2>6. R * (1 + crashes) = R + R * crashes /\ R * crashes \in Nat /\ R \in Nat
    BY NamesBounds, Constants, Products
  <2> QED BY <2>3, <2>4, <2>5, <2>6
<1> QED BY <1>1, <1>2, Types, DirSame, QuietSteps DEF Filling, Stages

LEMMA EnforcedSteps ==
    ASSUME CacheInv, NEW r \in Requests, Enforced(r) PROVE CacheInv'
<1>1. /\ stage[r] = "evict" /\ quotaMu' = None /\ scanned' = <<>>
      /\ Goto(r, "stat") /\ UNCHANGED <<files, image, tmp, locks, littered, crashes>>
    BY DEF Enforced
<1>2. scanned' \in Seq(File) /\ Seen' = {}
    BY <1>1 DEF Seen, TempsIn, ToSet
<1>3. Seen' \subseteq Seen
    BY <1>2
<1> QED BY <1>1, <1>2, <1>3, Types, DirSame, SeenKept, QuietSteps DEF Filling, Stages

LEMMA EvictSteps ==
    ASSUME CacheInv, NEW r \in Requests, Evict(r) PROVE CacheInv'
<1>1. /\ stage[r] = "evict" /\ scanned # <<>> /\ files' = Without(Head(scanned).name)
      /\ scanned' = Tail(scanned) /\ UNCHANGED <<stage, image, tmp, locks, quotaMu, littered, crashes>>
    BY DEF Evict
<1>2. Goto(r, "evict")
    BY <1>1, Types DEF Goto
<1>3. files' \in Seq(File) /\ Distinct(files)' /\ Dir' \subseteq Dir
    BY <1>1, Types, WithoutFacts DEF Dir
<1>4. scanned' \in Seq(File) /\ Seen' \subseteq Seen
  <2>1. scanned' \in Seq(File) /\ Len(scanned) \in Nat
        /\ \A k \in DOMAIN scanned' : k + 1 \in DOMAIN scanned /\ scanned'[k] = scanned[k + 1]
    BY <1>1, Types
  <2>2. ToSet(scanned') \subseteq ToSet(scanned)
    BY <2>1 DEF ToSet
  <2> QED BY <2>1, <2>2 DEF Seen, TempsIn
<1> QED BY <1>1, <1>2, <1>3, <1>4, Types, SeenKept, QuietSteps DEF Filling, Stages

LEMMA KeyedSteps ==
    ASSUME CacheInv, NEW r \in Requests, Ref(r) \/ Acquire(r) \/ Unlock(r) \/ Unref(r) PROVE CacheInv'
<1>1. UNCHANGED <<files, image, tmp, quotaMu, scanned, littered, crashes>>
    BY DEF Ref, Acquire, Unlock, Unref, quota
<1>2. PICK s \in {"wait", "recheck", "unref", "idle"} :
            Goto(r, s) /\ {stage[r], s} \cap {"sync", "rename"} = {}
    BY DEF Ref, Acquire, Unlock, Unref
<1>3. /\ stage' \in [Requests -> Stages] /\ stage'[r] = s
      /\ \A q \in Requests : q # r => stage'[q] = stage[q]
    BY <1>2, Staged DEF Stages
<1>4. LocksInv'
    BY RefLocks, AcquireLocks, UnlockLocks, UnrefLocks
<1>5. Typed'
  <2>1. /\ table' \in [Images -> Locks \cup {None}] /\ refs' \in [Locks -> Nat]
        /\ holder' \in [Locks -> Requests \cup {None}] /\ mine' \in [Requests -> Locks \cup {None}]
    <3>1. CASE Ref(r)
      BY <3>1, Types, RefLocks DEF Ref
    <3>2. CASE Acquire(r)
      BY <3>2, Types, AcquireLocks DEF Acquire
    <3>3. CASE Unlock(r)
      BY <3>3, Types, UnlockLocks DEF Unlock
    <3>4. CASE Unref(r)
      BY <3>4, Types, UnrefLocks DEF Unref
    <3> QED BY <3>1, <3>2, <3>3, <3>4
  <2> QED BY <1>1, <1>3, <2>1, Types, DirSame DEF Typed
<1>6. NotCached'
  <2>1. \A q \in Requests : Fetching(q)' => image'[q] = image[q] /\ (Fetching(q) \/ ~Cached(image[q]))
    BY <1>1, <1>2, <1>3 DEF Fetching
  <2> QED BY <1>1, <2>1, DirSame, StillNotCached
<1>7. FilesInv'
  <2>1. \A q \in Requests : \/ stage'[q] = stage[q]
                            \/ {stage[q], stage'[q]} \cap {"sync", "rename"} = {}
    BY <1>2, <1>3
  <2> QED BY <1>1, <2>1, DirSame, SeenSame, SeenKept, FilesStay
<1> QED BY <1>4, <1>5, <1>6, <1>7 DEF CacheInv

\* The rest of the fill: the request keeps its lock, and nobody else moves.
LEMMA HoldsOn ==
    ASSUME CacheInv, NEW r \in Requests, NEW s \in Stages, Goto(r, s),
           stage[r] \in Filling, s \in Filling, UNCHANGED <<image, locks>>
    PROVE  LocksInv'
<1>1. stage'[r] = s /\ \A q \in Requests : q # r => stage'[q] = stage[q]
    BY Staged
<1>2. \A q \in Requests : \/ stage'[q] = stage[q]
                          \/ stage[q] \in Filling /\ stage'[q] \in Filling
                          \/ {stage[q], stage'[q]} \cap (Filling \cup {"wait", "unref"}) = {}
    BY <1>1
<1> QED BY <1>2, LocksStay

LEMMA FailsSteps ==
    ASSUME CacheInv, NEW r \in Requests, Fails(r) PROVE CacheInv'
<1>1. /\ Fetching(r) /\ files' = Without(<<"temp", tmp[r]>>) /\ tmp' = [tmp EXCEPT ![r] = None]
      /\ Goto(r, "unlock")
      /\ UNCHANGED <<image, locks, table, refs, holder, mine, quotaMu, scanned, littered, crashes>>
    BY DEF Fails, Fetching, quota, locks
<1>2. "unlock" \in Stages \ {"sync", "rename"} /\ "unlock" \in Filling /\ stage[r] \in Filling
    BY <1>1 DEF Stages, Filling, Fetching
<1>3. /\ files' \in Seq(File) /\ Distinct(files)'
      /\ Dir' = {f \in Dir : f.name # <<"temp", tmp[r]>>}
    BY <1>1, Types, WithoutFacts DEF Dir
<1>4. /\ stage' \in [Requests -> Stages] /\ stage'[r] = "unlock"
      /\ \A q \in Requests : q # r => stage'[q] = stage[q]
    BY <1>1, <1>2, Staged
<1>5. Typed'
    BY <1>1, <1>3, <1>4, Types DEF Typed
<1>6. LocksInv'
    BY <1>1, <1>2, HoldsOn
<1>7. NotCached'
  <2>1. \A q \in Requests : Fetching(q)' => image'[q] = image[q] /\ (Fetching(q) \/ ~Cached(image[q]))
    BY <1>1, <1>4 DEF Fetching
  <2>2. \A f \in Dir' : IsImage(f) => \E g \in Dir : g.name = f.name
    BY <1>3
  <2> QED BY <2>1, <2>2, StillNotCached
<1>8. FilesInv'
    BY <1>1, <1>2, <1>3, FilesFacts, TempGone
<1> QED BY <1>5, <1>6, <1>7, <1>8 DEF CacheInv

LEMMA Updated ==
    ASSUME NEW f \in File
    PROVE  /\ \A n \in Names :
                LET g == [f EXCEPT !.name = n]
                IN  g \in File /\ g.name = n /\ g.image = f.image /\ g.data = f.data
           /\ \A d \in {"written", "synced", "torn"} :
                LET g == [f EXCEPT !.data = d]
                IN  g \in File /\ g.name = f.name /\ g.image = f.image /\ g.data = d
BY DEF File

\* What the directory holds after a rename.
LEMMA RenamedFacts ==
    ASSUME CacheInv, NEW r \in Requests, stage[r] = "rename",
           files' = [n \in DOMAIN Without(<<"image", image[r]>>) |->
                LET f == Without(<<"image", image[r]>>)[n] IN
                IF f.name = <<"temp", tmp[r]>>
                THEN [f EXCEPT !.name = <<"image", image[r]>>] ELSE f]
    PROVE  /\ files' \in Seq(File) /\ Distinct(files)'
           /\ \A f \in Dir' :
                \/ f \in Dir /\ f.name # <<"temp", tmp[r]>>
                \/ f.name = <<"image", image[r]>> /\ f.image = image[r] /\ f.data = "synced"
           /\ \A f \in Dir : f.name \notin {<<"image", image[r]>>, <<"temp", tmp[r]>>} => f \in Dir'
           /\ \A x, y : Before(files', x, y) =>
                Before(files, x, y) \/ <<"image", image[r]>> \in {x, y}
<1>1. PICK i \in Images : i = image[r]
    BY Types
<1>2. PICK t \in Temps : t = tmp[r]
    BY FilesFacts DEF OwnsTemp
<1> DEFINE new  == <<"image", i>>
           old  == <<"temp", t>>
           W    == Without(new)
           F(n) == IF W[n].name = old THEN [W[n] EXCEPT !.name = new] ELSE W[n]
<1>3. /\ W \in Seq(File) /\ Distinct(W) /\ ToSet(W) = {f \in Dir : f.name # new}
      /\ \A x, y : Before(W, x, y) => Before(files, x, y)
    BY Types, WithoutFacts
<1>4. files' = [n \in DOMAIN W |-> F(n)]
    BY <1>1, <1>2
<1>5. new \in Names /\ new # old
    BY Fields
<1>6. \A f \in Dir : f.name = old => f.image = i /\ f.data = "synced"
    BY <1>1, <1>2, FilesFacts, Constants DEF OwnsTemp
<1> HIDE DEF new, old, W
<1>7. \A n \in DOMAIN W : W[n] \in File /\ W[n] \in Dir /\ W[n].name # new
    BY <1>3 DEF ToSet
<1>8. ASSUME NEW n \in DOMAIN W
      PROVE  /\ F(n) \in File
             /\ F(n).name = IF W[n].name = old THEN new ELSE W[n].name
             /\ \/ F(n) = W[n] /\ W[n].name # old
                \/ F(n).name = new /\ F(n).image = i /\ F(n).data = "synced"
  <2>1. CASE W[n].name # old
    BY <1>7, <2>1
  <2>2. CASE W[n].name = old
    <3>1. PICK f \in File : f = W[n]
      BY <1>7
    <3> DEFINE g == [f EXCEPT !.name = new]
    <3>2. g = F(n)
      BY <2>2, <3>1
    <3>0. g \in File /\ g.name = new /\ g.image = f.image /\ g.data = f.data
      BY <1>5, Updated
    <3> HIDE DEF g
    <3>3. g.image = i /\ g.data = "synced"
      BY <1>6, <1>7, <2>2, <3>0, <3>1
    <3> HIDE DEF F
    <3> QED BY <2>2, <3>0, <3>2, <3>3
  <2> QED BY <2>1, <2>2
<1> HIDE DEF F
<1>9. DOMAIN files' = DOMAIN W /\ \A n \in DOMAIN W : files'[n] = F(n)
    BY <1>4
<1>10. files' \in Seq(File)
    BY <1>3, <1>4, <1>8, Mapped
<1>11. Distinct(files)'
  <2> SUFFICES ASSUME NEW m \in DOMAIN W, NEW n \in DOMAIN W, files'[m].name = files'[n].name
               PROVE  m = n
    BY <1>9 DEF Distinct
  <2>0. F(m).name = F(n).name
    BY <1>9
  <2>1. W[m].name = W[n].name
    BY <1>7, <1>8, <2>0
  <2> QED BY <1>3, <2>1 DEF Distinct
<1>12. ASSUME NEW f \in Dir'
       PROVE  \/ f \in Dir /\ f.name # old
              \/ f.name = new /\ f.image = i /\ f.data = "synced"
  <2>1. PICK n \in DOMAIN W : f = F(n)
    BY <1>9 DEF Dir, ToSet
  <2> QED BY <1>7, <1>8, <2>1
<1>13. ASSUME NEW f \in Dir, f.name # new, f.name # old PROVE f \in Dir'
  <2>1. PICK n \in DOMAIN W : W[n] = f
    BY <1>3, <1>13 DEF ToSet
  <2>2. files'[n] = f
    BY <1>9, <1>13, <2>1 DEF F
  <2> QED BY <1>9, <2>2 DEF Dir, ToSet
<1>14. ASSUME NEW x, NEW y, Before(files', x, y), x # new, y # new PROVE Before(files, x, y)
  <2>1. PICK m \in DOMAIN W, n \in DOMAIN W : m < n /\ files'[m].name = x /\ files'[n].name = y
    BY <1>9, <1>14 DEF Before
  <2>0. F(m).name = x /\ F(n).name = y
    BY <1>9, <2>1
  <2>2. W[m].name = x /\ W[n].name = y
    BY <1>8, <1>14, <2>0
  <2>3. Before(W, x, y)
    BY <2>1, <2>2 DEF Before
  <2> QED BY <1>3, <2>3
<1> QED BY <1>1, <1>2, <1>10, <1>11, <1>12, <1>13, <1>14 DEF new, old

LEMMA RenameSteps ==
    ASSUME CacheInv, NEW r \in Requests, Rename(r) PROVE CacheInv'
<1>1. /\ stage[r] = "rename" /\ tmp' = [tmp EXCEPT ![r] = None]
      /\ UNCHANGED <<image, locks, table, refs, holder, mine, quotaMu, scanned, littered, crashes>>
    BY DEF Rename, quota, locks
<1>2. PICK s \in {"scan", "stat", "unlock"} : Goto(r, s)
    BY DEF Rename
<1>3. /\ s \in Stages \ {"sync", "rename"} /\ s \in Stages /\ s \in Filling /\ stage[r] \in Filling
      /\ s \notin {"fetch", "create", "sync", "rename"}
    BY <1>1, <1>2 DEF Stages, Filling
<1>4. /\ files' \in Seq(File) /\ Distinct(files)'
      /\ \A f \in Dir' :
            \/ f \in Dir /\ f.name # <<"temp", tmp[r]>>
            \/ f.name = <<"image", image[r]>> /\ f.image = image[r] /\ f.data = "synced"
  <2>1. CASE Exists(<<"temp", tmp[r]>>)
    BY <1>1, <2>1, RenamedFacts DEF Rename
  <2>2. CASE ~Exists(<<"temp", tmp[r]>>)
    <3>1. files' = files
      BY <2>2 DEF Rename
    <3> QED BY <2>2, <3>1, Types, DirFacts, DirSame
  <2> QED BY <2>1, <2>2
<1>5. /\ stage' \in [Requests -> Stages] /\ stage'[r] = s
      /\ \A q \in Requests : q # r => stage'[q] = stage[q]
    BY <1>2, <1>3, Staged
<1>6. Typed'
    BY <1>1, <1>4, <1>5, Types DEF Typed
<1>7. LocksInv'
    BY <1>1, <1>2, <1>3, HoldsOn
<1>8. NotCached'
  <2> SUFFICES ASSUME NEW q \in Requests, Fetching(q)', Cached(image[q])' PROVE FALSE
    BY DEF NotCached
  <2>1. q # r /\ Fetching(q) /\ stage[q] \in Filling
    BY <1>3, <1>5 DEF Fetching, Filling
  <2>2. PICK f \in Dir' : f.name = <<"image", image[q]>>
    BY <1>1 DEF Cached, Exists, Named, Dir
  <2>3. f \notin Dir
    BY <2>1, <2>2, FilesFacts
  <2>4. image[q] = image[r]
    BY <1>4, <2>2, <2>3, Fields
  <2> QED BY <1>3, <2>1, <2>4, FillingExcludes
<1>9. FilesInv'
  <2>1. ASSUME NEW f \in Dir'
        PROVE  WholeImage(f) /\ (~IsImage(f) => f \in Dir /\ f.name # <<"temp", tmp[r]>>)
    <3>1. CASE f \in Dir /\ f.name # <<"temp", tmp[r]>>
      BY <3>1, FilesFacts
    <3>2. CASE f.name = <<"image", image[r]>> /\ f.image = image[r] /\ f.data = "synced"
      BY <3>2, Fields DEF WholeImage
    <3> QED BY <1>4, <3>1, <3>2
  <2> QED BY <1>1, <1>2, <1>3, <2>1, TempGone
<1> QED BY <1>6, <1>7, <1>8, <1>9 DEF CacheInv

\* What a request has created: under a name that is nobody's.
LEMMA CreatedFacts ==
    ASSUME CacheInv, NEW r \in Requests, Create(r)
    PROVE  \E t \in Temps, g \in File :
                /\ \A f \in ToSet(files) \cup ToSet(scanned) : f.name # <<"temp", t>>
                /\ \A q \in Requests : tmp[q] # t
                /\ tmp' = [tmp EXCEPT ![r] = t]
                /\ g.name = <<"temp", t>> /\ g.image = image[r] /\ files' = Append(files, g)
<1>1. tmp[r] = None
    BY FilesFacts DEF Create, OwnsTemp
<1>2. PICK t \in Temps :
            /\ \A f \in ToSet(files) \cup ToSet(scanned) : f.name # <<"temp", t>>
            /\ \A q \in Requests : tmp[q] # t
            /\ tmp' = [tmp EXCEPT ![r] = t]
            /\ files' = Append(files,
                    [name |-> <<"temp", t>>, image |-> image[r], data |-> "written"])
  <2> DEFINE P(n) == /\ \A f \in ToSet(files) \cup ToSet(scanned) : f.name # <<"temp", n>>
                     /\ \A q \in Requests : tmp[q] # n
             t == CHOOSE n \in Temps : P(n)
  <2>1. \E n \in Temps : P(n)
    BY <1>1, NameFree
  <2>2. t \in Temps /\ P(t)
    <3> HIDE DEF P
    <3> QED BY <2>1
  <2>3. /\ tmp' = [tmp EXCEPT ![r] = t]
        /\ files' = Append(files,
                [name |-> <<"temp", t>>, image |-> image[r], data |-> "written"])
    BY DEF Create
  <2> HIDE DEF t
  <2> QED BY <2>2, <2>3
<1>3. PICK g \in File : /\ g.name = <<"temp", t>> /\ g.image = image[r]
                        /\ files' = Append(files, g)
  <2> DEFINE g == [name |-> <<"temp", t>>, image |-> image[r], data |-> "written"]
  <2>1. g \in File /\ g.name = <<"temp", t>> /\ g.image = image[r]
    BY Types, Fields DEF File
  <2>2. files' = Append(files, g)
    BY <1>2
  <2> HIDE DEF g
  <2> QED BY <2>1, <2>2
<1> QED BY <1>2, <1>3

LEMMA CreateSteps ==
    ASSUME CacheInv, NEW r \in Requests, Create(r) PROVE CacheInv'
<1>1. /\ stage[r] = "create" /\ Goto(r, "sync") /\ tmp[r] = None
      /\ UNCHANGED <<image, locks, table, refs, holder, mine, quotaMu, scanned, littered, crashes>>
    BY FilesFacts DEF Create, OwnsTemp, quota, locks
<1>2. PICK t \in Temps, g \in File :
            /\ \A f \in ToSet(files) \cup ToSet(scanned) : f.name # <<"temp", t>>
            /\ \A q \in Requests : tmp[q] # t
            /\ tmp' = [tmp EXCEPT ![r] = t]
            /\ g.name = <<"temp", t>> /\ g.image = image[r] /\ files' = Append(files, g)
    BY CreatedFacts
<1>3. g \in File /\ g.name = <<"temp", t>> /\ g.image = image[r] /\ files' = Append(files, g)
    BY <1>2
<1>4. files' \in Seq(File) /\ Distinct(files)' /\ Dir' = Dir \cup {g}
  <2>1. files \in Seq(File) /\ Distinct(files) /\ \A f \in ToSet(files) : f.name # g.name
    BY <1>2, <1>3, Types
  <2>2. /\ Append(files, g) \in Seq(File) /\ Distinct(Append(files, g))
        /\ ToSet(Append(files, g)) = ToSet(files) \cup {g}
    BY <2>1, Appended
  <2> QED BY <1>3, <2>2 DEF Dir, Distinct
<1>5. /\ stage' \in [Requests -> Stages] /\ stage'[r] = "sync"
      /\ \A q \in Requests : q # r => stage'[q] = stage[q]
    BY <1>1, Staged DEF Stages
<1>6. /\ tmp' \in [Requests -> Temps \cup {None}] /\ tmp'[r] = t
      /\ \A q \in Requests : q # r => tmp'[q] = tmp[q]
    BY <1>2, Types
<1>7. Typed'
    BY <1>1, <1>4, <1>5, <1>6, Types DEF Typed
<1>8. LocksInv'
    BY <1>1, HoldsOn DEF Filling, Stages
<1>9. NotCached'
  <2>1. \A q \in Requests : Fetching(q)' => image'[q] = image[q] /\ (Fetching(q) \/ ~Cached(image[q]))
    BY <1>1, <1>5 DEF Fetching
  <2>2. \A f \in Dir' : IsImage(f) => \E h \in Dir : h.name = f.name
    BY <1>3, <1>4, Fields
  <2> QED BY <2>1, <2>2, StillNotCached
<1>10. ASSUME NEW q \in Requests PROVE OwnsTemp(q)'
  <2>1. CASE q = r
    <3>1. \A f \in Dir' : f.name = <<"temp", t>> => f = g
      BY <1>2, <1>4 DEF Dir
    <3>2. \A p \in Requests : p # r => tmp'[p] # t
      BY <1>2, <1>6
    <3> QED BY <1>1, <1>3, <1>5, <1>6, <2>1, <3>1, <3>2, Constants DEF OwnsTemp
  <2>2. CASE q # r
    <3>1. \A p \in Requests : p # q /\ tmp'[q] # None => tmp'[p] # tmp'[q]
      BY <1>2, <1>6, <2>2, FilesFacts DEF OwnsTemp
    <3>2. ASSUME NEW f \in Dir', tmp'[q] # None, f.name = <<"temp", tmp'[q]>>
          PROVE  f.image = image'[q] /\ (stage'[q] = "rename" => f.data = "synced")
      <4>1. tmp[q] # t
        BY <1>2
      <4>2. f # g
        BY <1>3, <1>6, <2>2, <3>2, <4>1, Fields
      <4> QED BY <1>1, <1>4, <1>5, <1>6, <2>2, <3>2, <4>2, FilesFacts DEF OwnsTemp
    <3>3. tmp'[q] # None <=> stage'[q] \in {"sync", "rename"}
      BY <1>5, <1>6, <2>2, FilesFacts DEF OwnsTemp
    <3> QED BY <3>1, <3>2, <3>3 DEF OwnsTemp
  <2> QED BY <2>1, <2>2
<1>11. \A f \in Dir' : WholeImage(f)
    BY <1>3, <1>4, FilesFacts, Fields DEF WholeImage
<1>12. Left' \subseteq Left
  <2> SUFFICES ASSUME NEW n \in Left' PROVE n \in Left
    OBVIOUS
  <2>1. n \in Temps /\ n \notin Owned' /\ \E f \in Dir' : f.name = <<"temp", n>>
    BY DEF Left, TempsIn
  <2>2. n # t /\ n \notin Owned
    BY <1>1, <1>2, <1>6, <2>1, Constants DEF Owned
  <2>3. \E f \in Dir : f.name = <<"temp", n>>
    BY <1>3, <1>4, <2>1, <2>2, Fields
  <2> QED BY <2>1, <2>2, <2>3 DEF Left, TempsIn
<1>13. FilesInv'
    BY <1>1, <1>10, <1>11, <1>12, SeenSame, SeenKept, StillEnough DEF FilesInv
<1> QED BY <1>7, <1>8, <1>9, <1>13 DEF CacheInv

\* A step that only changes what is in the files.
LEMMA Rewritten ==
    ASSUME files \in Seq(File), Distinct(files),
           NEW D \in [File -> {"written", "synced", "torn"}],
           files' = [n \in DOMAIN files |-> [files[n] EXCEPT !.data = D[files[n]]]]
    PROVE  /\ files' \in Seq(File) /\ Distinct(files)'
           /\ \A g \in Dir' : \E f \in Dir :
                    g.name = f.name /\ g.image = f.image /\ g.data = D[f]
<1> DEFINE F(n) == [files[n] EXCEPT !.data = D[files[n]]]
<1>1. \A n \in DOMAIN files : files[n] \in File /\ files[n] \in Dir
    BY DEF Dir, ToSet
<1>2. ASSUME NEW n \in DOMAIN files
      PROVE  /\ F(n) \in File /\ F(n).name = files[n].name
             /\ F(n).image = files[n].image /\ F(n).data = D[files[n]]
  <2>1. PICK f \in File : f = files[n]
    BY <1>1
  <2>2. PICK d \in {"written", "synced", "torn"} : d = D[f]
    OBVIOUS
  <2> DEFINE g == [f EXCEPT !.data = d]
  <2>3. g \in File /\ g.name = f.name /\ g.image = f.image /\ g.data = d
    BY Updated
  <2>4. F(n) = g
    BY <2>1, <2>2
  <2> HIDE DEF F, g
  <2> QED BY <2>1, <2>2, <2>3, <2>4
<1>3. files' = [n \in DOMAIN files |-> F(n)]
    OBVIOUS
<1> HIDE DEF F
<1>4. DOMAIN files' = DOMAIN files /\ \A n \in DOMAIN files : files'[n] = F(n)
    BY <1>3
<1>5. files' \in Seq(File)
    BY <1>2, <1>3, Mapped
<1>6. Distinct(files)'
  <2> SUFFICES ASSUME NEW m \in DOMAIN files, NEW n \in DOMAIN files,
                      files'[m].name = files'[n].name
               PROVE  m = n
    BY <1>4 DEF Distinct
  <2>1. files[m].name = files[n].name
    BY <1>2, <1>4
  <2> QED BY <2>1 DEF Distinct
<1>7. ASSUME NEW g \in Dir'
      PROVE  \E f \in Dir : g.name = f.name /\ g.image = f.image /\ g.data = D[f]
  <2>1. PICK n \in DOMAIN files : g = F(n)
    BY <1>4 DEF Dir, ToSet
  <2> QED BY <1>1, <1>2, <2>1
<1> QED BY <1>5, <1>6, <1>7

LEMMA SyncSteps ==
    ASSUME CacheInv, NEW r \in Requests, Sync(r) PROVE CacheInv'
<1>1. /\ stage[r] = "sync" /\ Goto(r, "rename")
      /\ UNCHANGED <<image, tmp, locks, table, refs, holder, mine, quotaMu, scanned, littered, crashes>>
    BY DEF Sync, quota, locks
<1>2. PICK t \in Temps : t = tmp[r]
    BY <1>1, FilesFacts DEF OwnsTemp
<1> DEFINE D == [f \in File |-> IF f.name = <<"temp", t>> THEN "synced" ELSE f.data]
<1>3. D \in [File -> {"written", "synced", "torn"}]
    BY Fields
<1>4. files' = [n \in DOMAIN files |-> [files[n] EXCEPT !.data = D[files[n]]]]
  <2>1. \A f \in File : [f EXCEPT !.data = f.data] = f
    BY DEF File
  <2>2. ASSUME NEW n \in DOMAIN files
        PROVE  [files[n] EXCEPT !.data = D[files[n]]] =
                    IF files[n].name = <<"temp", t>> THEN [files[n] EXCEPT !.data = "synced"]
                                                     ELSE files[n]
    <3>1. files[n] \in File
      BY Types
    <3> QED BY <2>1, <3>1
  <2> HIDE DEF D
  <2> QED BY <1>2, <2>2 DEF Sync
<1>5. \A f \in File : D[f] = IF f.name = <<"temp", t>> THEN "synced" ELSE f.data
    OBVIOUS
<1> HIDE DEF D
<1>6. /\ files' \in Seq(File) /\ Distinct(files)'
      /\ \A g \in Dir' : \E f \in Dir : g.name = f.name /\ g.image = f.image /\ g.data = D[f]
    BY <1>3, <1>4, Types, Rewritten
<1>7. /\ stage' \in [Requests -> Stages] /\ stage'[r] = "rename"
      /\ \A q \in Requests : q # r => stage'[q] = stage[q]
    BY <1>1, Staged DEF Stages
<1>8. Typed'
    BY <1>1, <1>6, <1>7, Types DEF Typed
<1>9. LocksInv'
    BY <1>1, HoldsOn DEF Filling, Stages
<1>10. NotCached'
  <2>1. \A q \in Requests : Fetching(q)' => image'[q] = image[q] /\ (Fetching(q) \/ ~Cached(image[q]))
    BY <1>1, <1>7 DEF Fetching
  <2> QED BY <1>6, <2>1, StillNotCached
<1>11. ASSUME NEW q \in Requests PROVE OwnsTemp(q)'
  <2>1. ASSUME NEW g \in Dir', tmp[q] # None, g.name = <<"temp", tmp[q]>>
        PROVE  g.image = image[q] /\ (stage'[q] = "rename" => g.data = "synced")
    <3>1. PICK f \in Dir : g.name = f.name /\ g.image = f.image /\ g.data = D[f] /\ f \in File
      BY <1>6, FilesFacts
    <3>2. f.image = image[q] /\ (stage[q] = "rename" => f.data = "synced")
      BY <2>1, <3>1, FilesFacts DEF OwnsTemp
    <3> QED BY <1>2, <1>5, <1>7, <2>1, <3>1, <3>2
  <2>2. tmp[q] # None <=> stage'[q] \in {"sync", "rename"}
    BY <1>1, <1>7, FilesFacts DEF OwnsTemp
  <2>3. \A p \in Requests : p # q /\ tmp[q] # None => tmp[p] # tmp[q]
    BY FilesFacts DEF OwnsTemp
  <2> QED BY <1>1, <2>1, <2>2, <2>3 DEF OwnsTemp
<1>12. ASSUME NEW g \in Dir' PROVE WholeImage(g)
  <2>1. PICK f \in Dir : g.name = f.name /\ g.image = f.image /\ g.data = D[f] /\ f \in File
    BY <1>6, FilesFacts
  <2> QED BY <1>5, <2>1, FilesFacts DEF WholeImage, IsImage
<1>13. Left' \subseteq Left
    BY <1>1, <1>6 DEF Left, TempsIn, Owned
<1>14. FilesInv'
    BY <1>1, <1>11, <1>12, <1>13, SeenSame, SeenKept, StillEnough DEF FilesInv
<1> QED BY <1>8, <1>9, <1>10, <1>14 DEF CacheInv

LEMMA CleanupSteps ==
    ASSUME CacheInv, Cleanup PROVE CacheInv'
<1>1. UNCHANGED <<stage, image, tmp, locks, table, refs, holder, mine, quotaMu, scanned, littered, crashes>>
    BY DEF Cleanup, quota, locks
<1>2. PICK n \in DOMAIN files : files' = RemoveAt(files, n)
    BY DEF Cleanup
<1>3. files' \in Seq(File) /\ Distinct(files)' /\ Dir' \subseteq Dir
  <2>1. /\ RemoveAt(files, n) \in Seq(File) /\ Distinct(RemoveAt(files, n))
        /\ ToSet(RemoveAt(files, n)) \subseteq ToSet(files)
    BY Types, Removed
  <2> QED BY <1>2, <2>1 DEF Dir, Distinct
<1>4. Typed'
    BY <1>1, <1>3, Types DEF Typed
<1>5. LocksInv'
    BY <1>1, LocksStay
<1>6. NotCached'
  <2>1. \A q \in Requests : Fetching(q)' => image'[q] = image[q] /\ Fetching(q)
    BY <1>1 DEF Fetching
  <2> QED BY <1>3, <2>1, StillNotCached
<1>7. FilesInv'
    BY <1>1, <1>3, SeenSame, SeenKept, FilesStay
<1> QED BY <1>4, <1>5, <1>6, <1>7 DEF CacheInv

LEMMA CrashSteps ==
    ASSUME CacheInv, Crash PROVE CacheInv'
<1>1. /\ crashes < MaxCrashes /\ crashes' = crashes + 1
      /\ stage' = [r \in Requests |-> "idle"] /\ table' = [i \in Images |-> None]
      /\ refs' = [l \in Locks |-> 0] /\ holder' = [l \in Locks |-> None]
      /\ mine' = [r \in Requests |-> None] /\ tmp' = [r \in Requests |-> None]
      /\ quotaMu' = None /\ scanned' = <<>> /\ littered' = TRUE /\ image' = image
      /\ files' = [n \in DOMAIN files |->
            [files[n] EXCEPT !.data = IF @ = "written" THEN "torn" ELSE @]]
    BY DEF Crash
<1> DEFINE D == [f \in File |-> IF f.data = "written" THEN "torn" ELSE f.data]
<1>2. D \in [File -> {"written", "synced", "torn"}]
    BY Fields
<1>3. files' = [n \in DOMAIN files |-> [files[n] EXCEPT !.data = D[files[n]]]]
  <2>1. \A n \in DOMAIN files : files[n] \in File
    BY Types
  <2> QED BY <1>1, <2>1
<1>4. \A f \in File : f.data = "synced" => D[f] = "synced"
    OBVIOUS
<1> HIDE DEF D
<1>5. /\ files' \in Seq(File) /\ Distinct(files)'
      /\ \A g \in Dir' : \E f \in Dir : g.name = f.name /\ g.image = f.image /\ g.data = D[f]
    BY <1>2, <1>3, Types, Rewritten
<1>6. Typed'
  <2>1. crashes' \in 0 .. MaxCrashes
    BY <1>1, Types, Constants
  <2>2. stage' \in [Requests -> Stages]
    BY <1>1 DEF Stages
  <2> QED BY <1>1, <1>5, <2>1, <2>2, Types DEF Typed
<1>7. LocksInv'
    BY InitialLocks
<1>8. NotCached'
    BY <1>1 DEF NotCached, Fetching
<1>9. ASSUME NEW r \in Requests PROVE OwnsTemp(r)'
    BY <1>1 DEF OwnsTemp
<1>10. ASSUME NEW g \in Dir' PROVE WholeImage(g)
  <2>1. PICK f \in Dir : g.name = f.name /\ g.image = f.image /\ g.data = D[f] /\ f \in File
    BY <1>5, FilesFacts
  <2> QED BY <1>4, <2>1, FilesFacts DEF WholeImage, IsImage
<1>11. NamesEnough'
  <2>1. Left' \in SUBSET (Left \cup Owned)
    <3>1. TempsIn(Dir') \subseteq TempsIn(Dir)
      BY <1>5 DEF TempsIn
    <3>2. TempsIn(Dir') = TempsIn(Dir)' 
      BY DEF TempsIn
    <3> QED BY <3>1, <3>2, NamesBounds DEF Left
  <2>2. /\ IsFiniteSet(Left \cup Owned)
        /\ Cardinality(Left \cup Owned) <= Cardinality(Left) + Cardinality(Owned)
        /\ Cardinality(Left \cup Owned) \in Nat
    BY NamesBounds, UnionBound
  <2>3. Cardinality(Left') <= Cardinality(Left \cup Owned) /\ Cardinality(Left') \in Nat
    BY <2>1, <2>2, FS_Subset, FS_CardinalityType
  <2>4. /\ Cardinality(Left) <= R * crashes /\ Cardinality(Owned) <= R /\ crashes \in Nat
        /\ Cardinality(Left) \in Nat /\ Cardinality(Owned) \in Nat
    BY NamesBounds
  <2>5. R * (1 + crashes) = R + R * crashes /\ R * crashes \in Nat /\ R \in Nat
    BY <2>4, Constants, Products
  <2>6. Cardinality(Left') <= R * (1 + crashes)
    BY <2>2, <2>3, <2>4, <2>5
  <2>7. crashes' = 1 + crashes
    BY <1>1, <2>4
  <2>8. Cardinality(Seen') = 0
    <3>1. Seen' = {}
      BY <1>1 DEF Seen, TempsIn, ToSet
    <3> QED BY <3>1, FS_EmptySet
  <2>9. R * (1 + crashes') \in Nat
    BY <2>4, <2>5, <2>7, Constants
  <2> QED BY <2>6, <2>7, <2>8, <2>9 DEF NamesEnough, R
<1>12. FilesInv'
    BY <1>9, <1>10, <1>11 DEF FilesInv
<1> QED BY <1>6, <1>7, <1>8, <1>12 DEF CacheInv

LEMMA Stutters ==
    ASSUME CacheInv, UNCHANGED vars PROVE CacheInv'
<1>1. UNCHANGED <<files, stage, image, tmp, locks, table, refs, holder, mine, quotaMu, scanned,
                  littered, crashes>>
    BY DEF vars, locks, quota
<1>2. Typed'
    BY <1>1, Types, DirSame DEF Typed
<1>3. LocksInv'
    BY <1>1, LocksStay
<1>4. NotCached'
  <2>1. \A r \in Requests : Fetching(r)' => image'[r] = image[r] /\ Fetching(r)
    BY <1>1 DEF Fetching
  <2> QED BY <1>1, <2>1, DirSame, StillNotCached
<1>5. FilesInv'
    BY <1>1, DirSame, SeenSame, SeenKept, FilesStay
<1> QED BY <1>2, <1>3, <1>4, <1>5 DEF CacheInv

LEMMA Initially ==
    ASSUME Init PROVE CacheInv
<1>1. /\ files = <<>> /\ stage = [r \in Requests |-> "idle"] /\ image \in [Requests -> Images]
      /\ tmp = [r \in Requests |-> None] /\ table = [i \in Images |-> None]
      /\ refs = [l \in Locks |-> 0] /\ holder = [l \in Locks |-> None]
      /\ mine = [r \in Requests |-> None] /\ quotaMu = None /\ scanned = <<>>
      /\ littered = FALSE /\ crashes = 0
    BY DEF Init
<1>2. Dir = {}
    BY <1>1 DEF Dir, ToSet
<1>3. Typed
  <2>1. crashes \in 0 .. MaxCrashes
    BY <1>1, Constants
  <2>2. stage \in [Requests -> Stages]
    BY <1>1 DEF Stages
  <2>3. files \in Seq(File) /\ Distinct(files) /\ scanned \in Seq(File)
    BY <1>1 DEF Distinct
  <2> QED BY <1>1, <2>1, <2>2, <2>3 DEF Typed
<1>4. NotCached /\ \A r \in Requests : OwnsTemp(r)
    BY <1>1 DEF NotCached, Fetching, OwnsTemp
<1>5. NamesEnough
  <2>1. Left = {} /\ Seen = {}
    BY <1>1, <1>2 DEF Left, Seen, TempsIn, ToSet
  <2>2. R * crashes \in Nat /\ R * (1 + crashes) \in Nat
    BY <1>1, Constants
  <2> QED BY <2>1, <2>2, FS_EmptySet DEF NamesEnough
<1> QED BY <1>2, <1>3, <1>4, <1>5, InitialLocks DEF CacheInv, FilesInv

LEMMA CacheInvHolds == Spec => []CacheInv
<1>1. Init => CacheInv
    BY Initially
<1>2. CacheInv /\ [Next]_vars => CacheInv'
  <2> SUFFICES ASSUME CacheInv, [Next]_vars PROVE CacheInv'
    OBVIOUS
  <2>1. CASE Cleanup
    BY <2>1, CleanupSteps
  <2>2. CASE Crash
    BY <2>2, CrashSteps
  <2>3. CASE UNCHANGED vars
    BY <2>3, Stutters
  <2>4. ASSUME NEW r \in Requests, Step(r) PROVE CacheInv'
    <3>1. CASE Touch(r)
      BY <3>1, TouchSteps
    <3>2. CASE Ref(r) \/ Acquire(r) \/ Unlock(r) \/ Unref(r)
      BY <3>2, KeyedSteps
    <3>3. CASE Recheck(r) \/ Fetch(r) \/ Stat(r)
      BY <3>3, FillSteps
    <3>4. CASE Fails(r)
      BY <3>4, FailsSteps
    <3>5. CASE Create(r)
      BY <3>5, CreateSteps
    <3>6. CASE Sync(r)
      BY <3>6, SyncSteps
    <3>7. CASE Rename(r)
      BY <3>7, RenameSteps
    <3>8. CASE Scan(r)
      BY <3>8, ScanSteps
    <3>9. CASE Evict(r)
      BY <3>9, EvictSteps
    <3>10. CASE Enforced(r)
      BY <3>10, EnforcedSteps
    <3> QED BY <2>4, <3>1, <3>2, <3>3, <3>4, <3>5, <3>6, <3>7, <3>8, <3>9, <3>10 DEF Step
  <2>5. ASSUME NEW r \in Requests, NEW i \in Images, Lookup(r, i) PROVE CacheInv'
    BY <2>5, LookupSteps
  <2> QED BY <2>1, <2>2, <2>3, <2>4, <2>5 DEF Next
<1> QED BY <1>1, <1>2, PTL DEF Spec

(***************************************************************************)
(* Theorems                                                                *)
(***************************************************************************)

LEMMA RefsBounded == CacheInv => refs \in [Locks -> 0 .. R]
<1> SUFFICES ASSUME CacheInv, NEW l \in Locks PROVE refs[l] \in 0 .. R
  BY Types
<1>1. \E r \in Requests : TRUE
  <2>1. Cardinality(Locks) # 0
    BY Constants, FS_EmptySet
  <2>2. Requests # {}
    BY <2>1, Constants, FS_EmptySet DEF R
  <2> QED BY <2>2
<1>2. IsFiniteSet(Users(l)) /\ Users(l) \in SUBSET Requests /\ refs[l] = Cardinality(Users(l))
  BY <1>1, LockFacts DEF Counted
<1>3. Cardinality(Users(l)) <= R /\ Cardinality(Users(l)) \in Nat
  BY <1>2, Constants, FS_Subset, FS_CardinalityType DEF R
<1> QED BY <1>2, <1>3, Constants

\* The lock objects that keyedMutex makes, counts and deletes exclude: of the
\* requests past l.mu.Lock no two want the same image, what one of them is
\* fetching is not in the cache, and an object stays in the table only as
\* long as somebody counts himself in.
THEOREM OneFetch == Spec => []LockExcludes
<1>1. CacheInv => LockExcludes
  <2> SUFFICES ASSUME CacheInv PROVE FetchedOnce /\ LocksReclaimed
    BY DEF LockExcludes
  <2>1. \A r, q \in Requests :
            r # q /\ stage[r] \in Filling /\ stage[q] \in Filling => image[r] # image[q]
    BY FillingExcludes
  <2>2. \A r \in Requests : Fetching(r) => ~Cached(image[r])
    BY FilesFacts
  <2> QED BY <2>1, <2>2 DEF FetchedOnce, Fetching, CacheInv, LocksInv
<1> QED BY <1>1, CacheInvHolds, PTL

\* Whatever power failures, evictions and cleanups there are, a file under the
\* name of an image has been synced before it got that name.
THEOREM CacheWhole == Spec => []WholeImages
<1>1. CacheInv => WholeImages
  <2> SUFFICES ASSUME CacheInv, NEW n \in DOMAIN files, IsImage(files[n])
               PROVE  files[n].data = "synced"
    BY DEF WholeImages
  <2>1. files[n] \in Dir
    BY Types, DirFacts
  <2> QED BY <2>1, FilesFacts DEF WholeImage
<1> QED BY <1>1, CacheInvHolds, PTL

(***************************************************************************)
(* Eviction by age                                                         *)
(***************************************************************************)

\* a is the image of a request that has renamed it and waits for the mutex of
\* the quota.
Awaiting(a) == \E q \in Requests : stage[q] = "scan" /\ a = <<"image", image[q]>>

\* What is older than a file enforceQuota still has before it, is before it
\* there too.
SeenInOrder ==
    \A g \in ToSet(scanned), a \in Names :
        Before(files, a, g.name) => Before(scanned, a, g.name) \/ Awaiting(a)

OrderInv ==
    /\ \A q \in Requests : stage[q] = "evict" <=> quotaMu = q
    /\ \A q \in Requests : stage[q] \in {"scan", "evict"} => Quota > 0
    /\ quotaMu = None => scanned = <<>>
    /\ Distinct(scanned)
    /\ \A g \in ToSet(scanned) : IsImage(g) => Exists(g.name)
    /\ SeenInOrder

\* A request that waits for the mutex goes on waiting, and what is put before
\* a file that was seen is an image whose request waits.
LEMMA OrderStays ==
    ASSUME CacheInv, OrderInv, UNCHANGED <<quotaMu, scanned>>,
           \A q \in Requests : stage'[q] = "evict" <=> stage[q] = "evict",
           \A q \in Requests : stage[q] = "scan" => stage'[q] = "scan" /\ image'[q] = image[q],
           \A q \in Requests : stage'[q] = "scan" => stage[q] = "scan" \/ Quota > 0,
           \A g \in ToSet(scanned) : IsImage(g) /\ Exists(g.name) => Exists(g.name)',
           \A g \in ToSet(scanned), a \in Names :
                Before(files', a, g.name) => Before(files, a, g.name) \/ Awaiting(a)'
    PROVE  OrderInv'
<1>1. \A a : Awaiting(a) => Awaiting(a)'
    BY DEF Awaiting
<1>2. ToSet(scanned)' = ToSet(scanned)
    BY DEF ToSet
<1>3. \A a, b : Before(scanned, a, b)' <=> Before(scanned, a, b)
    BY DEF Before
<1>4. \A a, b : Before(files, a, b)' <=> Before(files', a, b)
    BY DEF Before
<1>5. SeenInOrder'
  <2> SUFFICES ASSUME NEW g \in ToSet(scanned), NEW a \in Names, Before(files, a, g.name)'
               PROVE  Before(scanned, a, g.name)' \/ Awaiting(a)'
    BY <1>2 DEF SeenInOrder
  <2> QED BY <1>1, <1>3, <1>4 DEF OrderInv, SeenInOrder
<1>6. /\ \A q \in Requests : stage'[q] = "evict" <=> quotaMu' = q
      /\ \A q \in Requests : stage'[q] \in {"scan", "evict"} => Quota > 0
      /\ quotaMu' = None => scanned' = <<>>
    BY DEF OrderInv
<1>7. Distinct(scanned)' /\ \A g \in ToSet(scanned)' : IsImage(g) => Exists(g.name)'
    BY <1>2 DEF OrderInv, Distinct
<1> QED BY <1>5, <1>6, <1>7 DEF OrderInv

LEMMA SameFiles ==
    ASSUME files' = files
    PROVE  /\ \A n : Exists(n)' <=> Exists(n)
           /\ \A a, b : Before(files', a, b) <=> Before(files, a, b)
BY DEF Exists, Named, Before, ToSet

LEMMA OrderAside ==
    ASSUME CacheInv, OrderInv, NEW r \in Requests,
           \/ \E i \in Images : Lookup(r, i)
           \/ Ref(r) \/ Acquire(r) \/ Unlock(r) \/ Unref(r) \/ Recheck(r) \/ Fetch(r) \/ Stat(r)
    PROVE  OrderInv'
<1>1. UNCHANGED <<files, quotaMu, scanned>>
    BY DEF Lookup, Ref, Acquire, Unlock, Unref, Recheck, Fetch, Stat, quota
<1>2. PICK s \in Stages \ {"scan", "evict"} : Goto(r, s) /\ stage[r] \notin {"scan", "evict"}
    BY DEF Lookup, Ref, Acquire, Unlock, Unref, Recheck, Fetch, Stat, Stages
<1>3. image' = image \/ \E i \in Images : image' = [image EXCEPT ![r] = i]
    BY DEF Lookup, Ref, Acquire, Unlock, Unref, Recheck, Fetch, Stat
<1>4. stage'[r] = s /\ \A q \in Requests : q # r => stage'[q] = stage[q] /\ image'[q] = image[q]
    BY <1>2, <1>3, Staged, Types
<1> QED BY <1>1, <1>2, <1>4, SameFiles, OrderStays

\* While the mutex is free nothing is seen.
LEMMA OrderFree ==
    ASSUME CacheInv, OrderInv, (\E r \in Requests : Touch(r)) \/ Cleanup
    PROVE  OrderInv'
<1>1. UNCHANGED <<quotaMu, scanned, image>> /\ quotaMu = None
    BY DEF Touch, Cleanup, quota
<1>2. ToSet(scanned) = {}
    BY <1>1 DEF OrderInv, ToSet
<1>3. \A q \in Requests : stage'[q] = stage[q] \/ (stage[q] = "touch" /\ stage'[q] = "idle")
  <2>1. CASE Cleanup
    BY <2>1 DEF Cleanup
  <2>2. ASSUME NEW r \in Requests, Touch(r)
        PROVE  \A q \in Requests : stage'[q] = stage[q] \/ (stage[q] = "touch" /\ stage'[q] = "idle")
    <3>1. Goto(r, "idle") /\ stage[r] = "touch"
      BY <2>2 DEF Touch
    <3> QED BY <3>1, Staged DEF Stages
  <2> QED BY <2>1, <2>2
<1> QED BY <1>1, <1>2, <1>3, OrderStays

LEMMA OrderFill ==
    ASSUME CacheInv, OrderInv, NEW r \in Requests, Fails(r) \/ Create(r) \/ Sync(r) \/ Rename(r)
    PROVE  OrderInv'
<1>1. UNCHANGED <<image, quotaMu, scanned>>
    BY DEF Fails, Create, Sync, Rename, quota
<1>2. PICK s \in {"unlock", "sync", "rename", "scan", "stat"} :
            Goto(r, s) /\ stage[r] \in {"fetch", "create", "sync", "rename"} /\ (s = "scan" => Quota > 0)
    BY DEF Fails, Create, Sync, Rename
<1>3. stage'[r] = s /\ \A q \in Requests : q # r => stage'[q] = stage[q]
    BY <1>2, Staged DEF Stages
<1>4. \A g \in ToSet(scanned) : g \in File /\ g.name \in Names
  <2>1. \A k \in DOMAIN scanned : scanned[k] \in File
    BY Types
  <2> QED BY <2>1, Fields DEF ToSet
<1> DEFINE Kept == \A g \in ToSet(scanned) : IsImage(g) /\ Exists(g.name) => Exists(g.name)'
           Order == \A g \in ToSet(scanned), a \in Names :
                        Before(files', a, g.name) => Before(files, a, g.name) \/ Awaiting(a)'
<1>5. \A n : Exists(n)' <=> \E f \in Dir' : f.name = n
    BY DEF Exists, Named, Dir
<1>6. CASE Fails(r)
  <2>1. files' = Without(<<"temp", tmp[r]>>)
    BY <1>6 DEF Fails
  <2>2. Dir' = {f \in Dir : f.name # <<"temp", tmp[r]>>}
    BY <2>1, Types, WithoutFacts DEF Dir
  <2>3. Kept
    BY <1>5, <2>2, Types, DirFacts, Fields
  <2>4. Order
    BY <2>1, Types, WithoutFacts
  <2> QED BY <1>1, <1>2, <1>3, <2>3, <2>4, OrderStays
<1>7. CASE files' = files
  <2>1. Kept /\ Order
    BY <1>7, SameFiles
  <2> QED BY <1>1, <1>2, <1>3, <2>1, OrderStays
<1>8. CASE Create(r)
  <2>1. PICK t \in Temps, h \in File :
            /\ \A f \in ToSet(files) \cup ToSet(scanned) : f.name # <<"temp", t>>
            /\ h.name = <<"temp", t>> /\ files' = Append(files, h)
    BY <1>8, CreatedFacts
  <2>2. \A f \in ToSet(files) : f.name # h.name
    BY <2>1
  <2>3. /\ ToSet(Append(files, h)) = ToSet(files) \cup {h}
        /\ \A x, y : Before(Append(files, h), x, y) => Before(files, x, y) \/ y = h.name
    BY <2>2, Types, Appended
  <2>4. Kept
    <3>1. Dir \subseteq Dir'
      BY <2>1, <2>3 DEF Dir
    <3> QED BY <1>5, <3>1, Types, DirFacts
  <2>5. Order
    BY <2>1, <2>3
  <2> QED BY <1>1, <1>2, <1>3, <2>4, <2>5, OrderStays
<1>9. CASE Sync(r)
  <2>1. DOMAIN files' = DOMAIN files /\ \A n \in DOMAIN files : files'[n].name = files[n].name
    <3>1. /\ DOMAIN files' = DOMAIN files
          /\ \A n \in DOMAIN files :
                files'[n] = files[n] \/ files'[n] = [files[n] EXCEPT !.data = "synced"]
      BY <1>9 DEF Sync
    <3>2. \A f \in File : [f EXCEPT !.data = "synced"].name = f.name
      BY DEF File
    <3>3. \A n \in DOMAIN files : files[n] \in File
      BY Types
    <3> QED BY <3>1, <3>2, <3>3
  <2>2. \A x, y : Before(files', x, y) => Before(files, x, y)
    BY <2>1 DEF Before
  <2>3. \A n : Exists(n) => Exists(n)'
    BY <2>1 DEF Exists, Named, ToSet
  <2> QED BY <1>1, <1>2, <1>3, <2>2, <2>3, OrderStays
<1>10. CASE Rename(r) /\ Exists(<<"temp", tmp[r]>>)
  <2>1. stage[r] = "rename" /\ ~Cached(image[r])
    BY <1>10, FilesFacts DEF Rename, Fetching
  <2>2. /\ \A f \in Dir : f.name \notin {<<"image", image[r]>>, <<"temp", tmp[r]>>} => f \in Dir'
        /\ \A x, y : Before(files', x, y) =>
                Before(files, x, y) \/ <<"image", image[r]>> \in {x, y}
    BY <1>10, <2>1, RenamedFacts DEF Rename
  <2>3. ASSUME NEW g \in ToSet(scanned) PROVE g.name # <<"image", image[r]>>
    BY <2>1, <2>3, Fields DEF OrderInv, Cached
  <2>4. Kept
    <3> SUFFICES ASSUME NEW g \in ToSet(scanned), IsImage(g), Exists(g.name) PROVE Exists(g.name)'
      OBVIOUS
    <3>1. PICK f \in Dir : f.name = g.name
      BY Types, DirFacts
    <3>2. f \in Dir'
      BY <2>2, <2>3, <3>1, Fields
    <3> QED BY <1>5, <3>1, <3>2
  <2>5. Order
    <3> SUFFICES ASSUME NEW g \in ToSet(scanned), NEW a \in Names, Before(files', a, g.name),
                        a = <<"image", image[r]>>
                 PROVE  Awaiting(a)'
      BY <2>2, <2>3
    <3>1. PICK q \in Requests : quotaMu = q
      <4>1. scanned # <<>>
        BY DEF ToSet
      <4> QED BY <4>1, Types DEF OrderInv
    <3>2. Quota > 0
      BY <3>1 DEF OrderInv
    <3>3. Goto(r, "scan")
      BY <1>10, <3>2 DEF Rename
    <3>4. stage'[r] = "scan"
      BY <3>3, Staged DEF Stages
    <3> QED BY <1>1, <3>4 DEF Awaiting
  <2> QED BY <1>1, <1>2, <1>3, <2>4, <2>5, OrderStays
<1> QED BY <1>6, <1>7, <1>8, <1>9, <1>10 DEF Rename

LEMMA OrderScan ==
    ASSUME CacheInv, OrderInv, NEW r \in Requests, Scan(r)
    PROVE  OrderInv'
<1>1. /\ stage[r] = "scan" /\ Goto(r, "evict") /\ quotaMu = None /\ quotaMu' = r
      /\ scanned' = files /\ files' = files /\ image' = image
    BY DEF Scan
<1>2. stage'[r] = "evict" /\ \A q \in Requests : q # r => stage'[q] = stage[q]
    BY <1>1, Staged DEF Stages
<1>3. \A q \in Requests : stage'[q] = "evict" <=> quotaMu' = q
    BY <1>1, <1>2, Constants DEF OrderInv
<1>4. \A q \in Requests : stage'[q] \in {"scan", "evict"} => Quota > 0
    BY <1>1, <1>2 DEF OrderInv
<1>5. quotaMu' # None
    BY <1>1, Constants
<1>6. Distinct(scanned)' /\ SeenInOrder'
    BY <1>1, Types DEF Distinct, SeenInOrder, Before
<1>7. \A g \in ToSet(scanned)' : IsImage(g) => Exists(g.name)'
    BY <1>1 DEF Exists, Named, ToSet
<1> QED BY <1>3, <1>4, <1>5, <1>6, <1>7 DEF OrderInv

\* The mutex is given back, by the enforcement or by a crash.
LEMMA OrderEnds ==
    ASSUME CacheInv, OrderInv, Crash \/ \E r \in Requests : Enforced(r)
    PROVE  OrderInv'
<1>1. quotaMu' = None /\ scanned' = <<>>
    BY DEF Crash, Enforced
<1>2. ToSet(scanned)' = {} /\ Distinct(scanned)' /\ SeenInOrder'
    BY <1>1 DEF ToSet, Distinct, SeenInOrder
<1>3. \A q \in Requests : stage'[q] # "evict" /\ (stage'[q] = "scan" => stage[q] = "scan")
  <2>1. CASE Crash
    BY <2>1 DEF Crash
  <2>2. ASSUME NEW r \in Requests, Enforced(r)
        PROVE  \A q \in Requests : stage'[q] # "evict" /\ (stage'[q] = "scan" => stage[q] = "scan")
    <3>1. Goto(r, "stat") /\ stage[r] = "evict"
      BY <2>2 DEF Enforced
    <3>2. stage'[r] = "stat" /\ \A q \in Requests : q # r => stage'[q] = stage[q]
      BY <3>1, Staged DEF Stages
    <3> QED BY <3>1, <3>2 DEF OrderInv
  <2> QED BY <2>1, <2>2
<1>4. \A q \in Requests : quotaMu' # q
    BY <1>1, Constants
<1> QED BY <1>1, <1>2, <1>3, <1>4 DEF OrderInv

LEMMA Popped ==
    ASSUME NEW s \in Seq(File), Distinct(s), s # <<>>
    PROVE  /\ Distinct(Tail(s)) /\ Head(s) \in ToSet(s)
           /\ \A g \in ToSet(Tail(s)) : g \in ToSet(s) /\ g.name # Head(s).name
           /\ \A x, y : Before(s, x, y) => y # Head(s).name
           /\ \A x, y : Before(s, x, y) /\ x # Head(s).name => Before(Tail(s), x, y)
<1> DEFINE t == Tail(s)
           h == Head(s)
           n == Len(s)
<1>1. /\ n \in Nat /\ DOMAIN s = 1 .. n /\ 1 \in 1 .. n /\ h = s[1]
      /\ DOMAIN t = 1 .. n - 1 /\ \A k \in 1 .. n - 1 : t[k] = s[k + 1]
    OBVIOUS
<1> HIDE DEF t, h, n
<1>2. \A k \in 1 .. n : s[k].name = h.name => k = 1
    BY <1>1 DEF Distinct
<1>3. Distinct(t)
  <2> SUFFICES ASSUME NEW i \in 1 .. n - 1, NEW j \in 1 .. n - 1, t[i].name = t[j].name
               PROVE  i = j
    BY <1>1 DEF Distinct
  <2>1. i + 1 \in 1 .. n /\ j + 1 \in 1 .. n /\ s[i + 1].name = s[j + 1].name
    BY <1>1
  <2>2. i + 1 = j + 1
    BY <1>1, <2>1 DEF Distinct
  <2> QED BY <2>2
<1>4. ASSUME NEW g \in ToSet(t) PROVE g \in ToSet(s) /\ g.name # h.name
  <2>1. PICK k \in 1 .. n - 1 : g = t[k]
    BY <1>1 DEF ToSet
  <2>2. k + 1 \in 1 .. n /\ g = s[k + 1] /\ k + 1 # 1
    BY <1>1, <2>1
  <2> QED BY <1>1, <1>2, <2>2 DEF ToSet
<1>5. ASSUME NEW x, NEW y, Before(s, x, y) PROVE y # h.name /\ (x # h.name => Before(t, x, y))
  <2>1. PICK i \in 1 .. n, j \in 1 .. n : i < j /\ s[i].name = x /\ s[j].name = y
    BY <1>1, <1>5 DEF Before
  <2>2. y # h.name
    BY <1>1, <1>2, <2>1
  <2>3. ASSUME x # h.name PROVE Before(t, x, y)
    <3>1. i # 1
      BY <1>1, <2>1, <2>3
    <3>2. i - 1 \in 1 .. n - 1 /\ j - 1 \in 1 .. n - 1 /\ i - 1 < j - 1
      BY <1>1, <2>1, <3>1
    <3>3. t[i - 1] = s[i] /\ t[j - 1] = s[j]
      BY <1>1, <3>2
    <3> QED BY <1>1, <2>1, <3>2, <3>3 DEF Before
  <2> QED BY <2>2, <2>3
<1>6. h \in ToSet(s)
    BY <1>1 DEF ToSet
<1> QED BY <1>3, <1>4, <1>5, <1>6 DEF t, h

LEMMA OrderEvict ==
    ASSUME CacheInv, OrderInv, NEW r \in Requests, Evict(r)
    PROVE  OrderInv'
<1>1. /\ scanned # <<>> /\ files' = Without(Head(scanned).name) /\ scanned' = Tail(scanned)
      /\ UNCHANGED <<stage, image, quotaMu>> /\ stage[r] = "evict"
    BY DEF Evict
<1> DEFINE h == Head(scanned)
<1>2. /\ Distinct(scanned)' /\ h \in ToSet(scanned)
      /\ \A g \in ToSet(scanned)' : g \in ToSet(scanned) /\ g.name # h.name
      /\ \A x, y : Before(scanned, x, y) => y # h.name
      /\ \A x, y : Before(scanned, x, y) /\ x # h.name => Before(scanned', x, y)
  <2>1. scanned \in Seq(File) /\ Distinct(scanned)
    BY Types DEF OrderInv
  <2>2. /\ Distinct(Tail(scanned)) /\ Head(scanned) \in ToSet(scanned)
        /\ \A g \in ToSet(Tail(scanned)) : g \in ToSet(scanned) /\ g.name # Head(scanned).name
        /\ \A x, y : Before(scanned, x, y) => y # Head(scanned).name
        /\ \A x, y : Before(scanned, x, y) /\ x # Head(scanned).name => Before(Tail(scanned), x, y)
    BY <1>1, <2>1, Popped
  <2> QED BY <1>1, <2>2 DEF Distinct
<1>3. /\ Dir' = {f \in Dir : f.name # h.name}
      /\ \A x, y : Before(files', x, y) => Before(files, x, y)
    BY <1>1, Types, WithoutFacts DEF Dir
<1> HIDE DEF h
<1>4. \A n : Exists(n)' <=> \E f \in Dir' : f.name = n
    BY DEF Exists, Named, Dir
<1>5. \A g \in ToSet(scanned)' : IsImage(g) => Exists(g.name)'
    BY <1>2, <1>3, <1>4, Types, DirFacts DEF OrderInv
<1>6. SeenInOrder'
  <2> SUFFICES ASSUME NEW g \in ToSet(scanned)', NEW a \in Names, Before(files', a, g.name)
               PROVE  Before(scanned', a, g.name) \/ Awaiting(a)'
    BY DEF SeenInOrder, Before
  <2>1. a # h.name
    <3>1. files' \in Seq(File)
      BY <1>1, Types, WithoutFacts
    <3>2. \E f \in Dir' : f.name = a
      BY <3>1 DEF Before, Dir, ToSet
    <3> QED BY <1>3, <3>2
  <2>2. Before(scanned, a, g.name) \/ Awaiting(a)
    BY <1>2, <1>3 DEF OrderInv, SeenInOrder
  <2>3. Awaiting(a) => Awaiting(a)'
    BY <1>1 DEF Awaiting
  <2> QED BY <1>2, <2>1, <2>2, <2>3
<1>7. quotaMu = r
    BY <1>1 DEF OrderInv
<1> QED BY <1>1, <1>2, <1>5, <1>6, <1>7, Constants DEF OrderInv

LEMMA OrderInvHolds == Spec => []OrderInv
<1>1. Init => OrderInv
  <2> SUFFICES ASSUME Init PROVE OrderInv
    OBVIOUS
  <2>1. /\ stage = [r \in Requests |-> "idle"] /\ quotaMu = None /\ scanned = <<>>
    BY DEF Init
  <2>2. ToSet(scanned) = {} /\ Distinct(scanned) /\ SeenInOrder
    BY <2>1 DEF ToSet, Distinct, SeenInOrder
  <2>3. \A q \in Requests : stage[q] = "idle" /\ quotaMu # q
    BY <2>1, Constants
  <2> QED BY <2>1, <2>2, <2>3 DEF OrderInv
<1>2. CacheInv /\ OrderInv /\ [Next]_vars => OrderInv'
  <2> SUFFICES ASSUME CacheInv, OrderInv, [Next]_vars PROVE OrderInv'
    OBVIOUS
  <2>1. CASE Cleanup \/ \E r \in Requests : Touch(r)
    BY <2>1, OrderFree
  <2>2. CASE Crash \/ \E r \in Requests : Enforced(r)
    BY <2>2, OrderEnds
  <2>3. CASE UNCHANGED vars
    <3>1. UNCHANGED <<files, stage, image, quotaMu, scanned>>
      BY <2>3 DEF vars, quota
    <3> QED BY <3>1, SameFiles, OrderStays
  <2>4. ASSUME NEW r \in Requests, Step(r) PROVE OrderInv'
    <3>1. CASE Ref(r) \/ Acquire(r) \/ Unlock(r) \/ Unref(r) \/ Recheck(r) \/ Fetch(r) \/ Stat(r)
      BY <3>1, OrderAside
    <3>2. CASE Fails(r) \/ Create(r) \/ Sync(r) \/ Rename(r)
      BY <3>2, OrderFill
    <3>3. CASE Scan(r)
      BY <3>3, OrderScan
    <3>4. CASE Evict(r)
      BY <3>4, OrderEvict
    <3> QED BY <2>1, <2>2, <2>4, <3>1, <3>2, <3>3, <3>4 DEF Step
  <2>5. ASSUME NEW r \in Requests, NEW i \in Images, Lookup(r, i) PROVE OrderInv'
    BY <2>5, OrderAside
  <2> QED BY <2>1, <2>2, <2>3, <2>4, <2>5 DEF Next
<1> QED BY <1>1, <1>2, CacheInvHolds, PTL DEF Spec

\* enforceQuota decides by the times it read when it walked the directory and
\* removes later; as touching and cleaning up wait for its mutex and fills only
\* append, what it removes is still the oldest, except for images whose
\* requests are about to enforce the quota themselves.
THEOREM EvictionByAge == Spec => OldestEvicted
<1> DEFINE Rule == \A n \in DOMAIN files :
                    (\E r \in Requests : Evict(r)) /\ files[n] \notin ToSet(files') =>
                        \A m \in 1 .. n - 1 :
                            \E q \in Requests : /\ stage[q] = "scan"
                                                /\ files[m].name = <<"image", image[q]>>
<1>1. CacheInv /\ OrderInv => Rule
  <2> SUFFICES ASSUME CacheInv, OrderInv, NEW n \in DOMAIN files, NEW r \in Requests, Evict(r),
                      files[n] \notin ToSet(files'), NEW m \in 1 .. n - 1
               PROVE  Awaiting(files[m].name)
    BY DEF Awaiting
  <2>1. scanned # <<>> /\ files' = Without(Head(scanned).name)
    BY DEF Evict
  <2>2. files[n].name = Head(scanned).name
    BY <2>1, Types, WithoutFacts, DirFacts
  <2>3. m \in DOMAIN files /\ m < n /\ files[m].name \in Names
    <3>1. DOMAIN files = 1 .. Len(files) /\ Len(files) \in Nat
      BY Types
    <3>2. m \in DOMAIN files /\ m < n
      BY <3>1
    <3> QED BY <3>2, Types, Fields
  <2>4. Before(files, files[m].name, Head(scanned).name)
    BY <2>2, <2>3 DEF Before
  <2>5. /\ Head(scanned) \in ToSet(scanned)
        /\ ~Before(scanned, files[m].name, Head(scanned).name)
    BY <2>1, Types, Popped DEF OrderInv
  <2> QED BY <2>3, <2>4, <2>5 DEF OrderInv, SeenInOrder
<1>2. CacheInv /\ OrderInv /\ [Next]_vars => [Rule]_vars
    BY <1>1
<1> QED BY <1>2, CacheInvHolds, OrderInvHolds, PTL DEF Spec, OldestEvicted


(***************************************************************************)
(* The quota                                                               *)
(***************************************************************************)

Piece(f) == {f.name} \X (1 .. Size[f.image])

LEMMA PieceFacts ==
    ASSUME NEW f \in File
    PROVE  /\ IsFiniteSet(Piece(f)) /\ Cardinality(Piece(f)) = Size[f.image]
           /\ Size[f.image] \in Nat /\ \A c \in Piece(f) : c[1] = f.name
<1>1. PICK n \in Nat : n = Size[f.image]
    BY Fields, ConstantsAssumption
<1>2. IsFiniteSet(1 .. n) /\ Cardinality(1 .. n) = n
  <2>1. IsFiniteSet(1 .. n) /\ Cardinality(1 .. n) = IF 1 > n THEN 0 ELSE n - 1 + 1
    BY FS_Interval
  <2> QED BY <2>1
<1>3. IsFiniteSet({f.name}) /\ Cardinality({f.name}) = 1
    BY FS_Singleton
<1>4. /\ IsFiniteSet({f.name} \X (1 .. n))
      /\ Cardinality({f.name} \X (1 .. n)) = Cardinality({f.name}) * Cardinality(1 .. n)
    BY <1>2, <1>3, FS_Product
<1>5. Piece(f) = {f.name} \X (1 .. n)
    BY <1>1 DEF Piece
<1>6. Cardinality(Piece(f)) = n
    BY <1>2, <1>3, <1>4, <1>5
<1> QED BY <1>1, <1>4, <1>5, <1>6

LEMMA ContentIs ==
    ASSUME NEW S
    PROVE  Content(S) = UNION {Piece(f) : f \in S}
BY DEF Content, Piece

LEMMA ContentFinite ==
    ASSUME NEW s \in Seq(File)
    PROVE  IsFiniteSet(Content(ToSet(s))) /\ Bytes(s) = Cardinality(Content(ToSet(s))) /\ Bytes(s) \in Nat
<1> DEFINE n == Len(s)
           T == {Piece(f) : f \in ToSet(s)}
           P == [k \in 1 .. n |-> Piece(s[k])]
<1>1. n \in Nat /\ DOMAIN s = 1 .. n /\ \A k \in 1 .. n : s[k] \in File
    OBVIOUS
<1>2. IsFiniteSet(1 .. n)
    BY <1>1, FS_Interval
<1>3. P \in Surjection(1 .. n, T)
  <2>1. \A k \in 1 .. n : P[k] \in T
    BY <1>1 DEF ToSet
  <2>2. \A x \in T : \E k \in 1 .. n : P[k] = x
    BY <1>1 DEF ToSet
  <2> QED BY <2>1, <2>2 DEF Surjection
<1>4. IsFiniteSet(T)
    BY <1>2, <1>3, FS_Surjection
<1>5. \A x \in T : IsFiniteSet(x)
    BY <1>1, PieceFacts DEF ToSet
<1>6. IsFiniteSet(UNION T)
    BY <1>4, <1>5, FS_UNION
<1>7. IsFiniteSet(Content(ToSet(s))) /\ Bytes(s) = Cardinality(Content(ToSet(s)))
    BY <1>6, ContentIs DEF Bytes
<1> QED BY <1>7, FS_CardinalityType

\* Fewer files are fewer bytes.
LEMMA Lighter ==
    ASSUME NEW s \in Seq(File), NEW S, S \subseteq ToSet(s)
    PROVE  /\ IsFiniteSet(Content(S)) /\ Cardinality(Content(S)) \in Nat
           /\ Cardinality(Content(S)) <= Bytes(s)
<1>1. Content(S) \in SUBSET Content(ToSet(s))
    BY ContentIs
<1>2. IsFiniteSet(Content(ToSet(s))) /\ Bytes(s) = Cardinality(Content(ToSet(s)))
    BY ContentFinite
<1> QED BY <1>1, <1>2, FS_Subset, FS_CardinalityType

\* The first of the files is as large as what the others leave of the sum.
LEMMA HeadAndTail ==
    ASSUME NEW s \in Seq(File), Distinct(s), s # <<>>
    PROVE  /\ ToSet(s) = ToSet(Tail(s)) \cup {Head(s)} /\ Tail(s) \in Seq(File)
           /\ Bytes(s) = Bytes(Tail(s)) + Size[Head(s).image] /\ Size[Head(s).image] \in Nat
           /\ Bytes(Tail(s)) \in Nat
<1> DEFINE t == Tail(s)
           h == Head(s)
           n == Len(s)
<1>1. /\ n \in Nat /\ DOMAIN s = 1 .. n /\ 1 \in 1 .. n /\ h = s[1] /\ h \in File /\ t \in Seq(File)
      /\ DOMAIN t = 1 .. n - 1 /\ \A k \in 1 .. n - 1 : t[k] = s[k + 1]
    OBVIOUS
<1>2. \A g \in ToSet(t) : g \in ToSet(s) /\ g.name # h.name
    BY Popped
<1> HIDE DEF t, h, n
<1>3. ToSet(s) \subseteq ToSet(t) \cup {h}
  <2> SUFFICES ASSUME NEW k \in 1 .. n, k # 1 PROVE s[k] \in ToSet(t)
    BY <1>1 DEF ToSet
  <2>1. k - 1 \in 1 .. n - 1 /\ (k - 1) + 1 = k
    BY <1>1
  <2>2. t[k - 1] = s[k]
    BY <1>1, <2>1
  <2> QED BY <1>1, <2>1, <2>2 DEF ToSet
<1>4. h \in ToSet(s)
    BY <1>1 DEF ToSet
<1>5. ToSet(s) = ToSet(t) \cup {h}
    BY <1>2, <1>3, <1>4
<1>6. Content(ToSet(s)) = Content(ToSet(t)) \cup Piece(h)
    BY <1>5, ContentIs
<1>7. Content(ToSet(t)) \cap Piece(h) = {}
  <2> SUFFICES ASSUME NEW g \in ToSet(t), NEW c \in Piece(g), c \in Piece(h) PROVE FALSE
    BY ContentIs
  <2>1. g \in File
    BY <1>1 DEF ToSet
  <2> QED BY <1>1, <1>2, <2>1, PieceFacts
<1>8. /\ IsFiniteSet(Content(ToSet(t))) /\ Bytes(t) = Cardinality(Content(ToSet(t))) /\ Bytes(t) \in Nat
      /\ Bytes(s) = Cardinality(Content(ToSet(s)))
    BY <1>1, ContentFinite
<1>9. IsFiniteSet(Piece(h)) /\ Cardinality(Piece(h)) = Size[h.image] /\ Size[h.image] \in Nat
    BY <1>1, PieceFacts
<1>10. Cardinality(Content(ToSet(t)) \cup Piece(h)) =
            Cardinality(Content(ToSet(t))) + Cardinality(Piece(h)) - Cardinality({})
    BY <1>7, <1>8, <1>9, FS_Union
<1>11. Bytes(s) = Bytes(t) + Size[h.image]
    BY <1>6, <1>8, <1>9, <1>10, FS_EmptySet
<1> QED BY <1>1, <1>5, <1>8, <1>9, <1>11 DEF t, h


\* The files that are no request's temporary file, and whether one has put another
\* among them and has yet to enforce the quota.
Settled == {f \in Dir : \A r \in Requests : tmp[r] # None => f.name # <<"temp", tmp[r]>>}
Due     == \E r \in Requests : stage[r] = "scan"

\* Unless somebody is about to scan them, the settled files are among those that an
\* enforcement still has before it, or within the quota.
QuotaInv ==
    /\ total \in Nat /\ Bytes(scanned) <= total
    /\ ~Due /\ quotaMu # None => Settled \subseteq ToSet(scanned)
    /\ ~Due /\ quotaMu = None /\ Quota > 0 /\ ~littered => Cardinality(Content(Settled)) <= Quota

LEMMA SettledIs == Settled \subseteq ToSet(files)
BY DEF Settled, Dir

LEMMA QuotaStays ==
    ASSUME CacheInv, QuotaInv, Due => Due', Due' \/ Settled' \subseteq Settled,
           UNCHANGED <<quotaMu, scanned, total, littered>>
    PROVE  QuotaInv'
<1>1. Bytes(scanned)' = Bytes(scanned)
    BY DEF Bytes, Content, ToSet
<1>2. Content(Settled') = Content(Settled)'
    BY DEF Content
<1>3. ASSUME Settled' \subseteq Settled, Cardinality(Content(Settled)) <= Quota
      PROVE  Cardinality(Content(Settled')) <= Quota
  <2>1. Content(Settled') \in SUBSET Content(Settled)
    BY <1>3, ContentIs
  <2>2. IsFiniteSet(Content(Settled)) /\ Cardinality(Content(Settled)) \in Nat
    BY Types, SettledIs, Lighter
  <2>3. Cardinality(Content(Settled')) <= Cardinality(Content(Settled)) /\ Cardinality(Content(Settled')) \in Nat
    BY <2>1, <2>2, FS_Subset, FS_CardinalityType
  <2> QED BY <1>3, <2>2, <2>3, ConstantsAssumption
<1>4. ToSet(scanned)' = ToSet(scanned)
    BY DEF ToSet
<1> QED BY <1>1, <1>2, <1>3, <1>4 DEF QuotaInv

\* The steps that neither change what is settled nor make somebody enforce the quota.
LEMMA QuotaAside ==
    ASSUME CacheInv, QuotaInv, NEW r \in Requests,
           \/ \E i \in Images : Lookup(r, i)
           \/ Ref(r) \/ Acquire(r) \/ Unlock(r) \/ Unref(r) \/ Recheck(r) \/ Fetch(r) \/ Stat(r) \/ Touch(r)
    PROVE  QuotaInv'
<1>1. UNCHANGED <<tmp, quotaMu, scanned, total, littered>>
    BY DEF Lookup, Ref, Acquire, Unlock, Unref, Recheck, Fetch, Stat, Touch, quota
<1>2. PICK s \in Stages : Goto(r, s) /\ stage[r] # "scan"
    BY DEF Lookup, Ref, Acquire, Unlock, Unref, Recheck, Fetch, Stat, Touch, Stages
<1>3. Due => Due'
    BY <1>2, Staged DEF Due
<1>4. Dir' = Dir
  <2>1. CASE Touch(r)
    <3>1. files' = Touched(image[r])
      BY <2>1 DEF Touch
    <3>2. ToSet(Touched(image[r])) = Dir
      BY Types, TouchedFacts
    <3> QED BY <3>1, <3>2 DEF Dir
  <2>2. CASE ~Touch(r)
    <3>1. files' = files
      BY <2>2 DEF Lookup, Ref, Acquire, Unlock, Unref, Recheck, Fetch, Stat
    <3> QED BY <3>1, DirSame
  <2> QED BY <2>1, <2>2
<1>5. Settled' \subseteq Settled
    BY <1>1, <1>4 DEF Settled
<1> QED BY <1>1, <1>3, <1>5, QuotaStays

LEMMA QuotaCleanup ==
    ASSUME CacheInv, QuotaInv, Cleanup
    PROVE  QuotaInv'
<1>1. UNCHANGED <<stage, tmp, quotaMu, scanned, total, littered>>
    BY DEF Cleanup, quota
<1>2. PICK n \in DOMAIN files : files' = RemoveAt(files, n)
    BY DEF Cleanup
<1>3. ToSet(RemoveAt(files, n)) \subseteq ToSet(files)
    BY Types, Removed
<1>4. Settled' \subseteq Settled
    BY <1>1, <1>2, <1>3 DEF Settled, Dir
<1> QED BY <1>1, <1>4, QuotaStays DEF Due

\* What a request writes is its own until it is renamed, and then an enforcement is due.
LEMMA QuotaFill ==
    ASSUME CacheInv, OrderInv, QuotaInv, NEW r \in Requests, Fails(r) \/ Create(r) \/ Sync(r) \/ Rename(r)
    PROVE  QuotaInv'
<1>1. UNCHANGED <<image, quotaMu, scanned, total, littered>>
    BY DEF Fails, Create, Sync, Rename, quota
<1>2. PICK s \in {"unlock", "sync", "rename", "scan", "stat"} :
            Goto(r, s) /\ stage[r] \in {"fetch", "create", "sync", "rename"}
    BY DEF Fails, Create, Sync, Rename
<1>3. stage'[r] = s /\ \A q \in Requests : q # r => stage'[q] = stage[q]
    BY <1>2, Staged DEF Stages
<1>4. Due => Due'
    BY <1>2, <1>3 DEF Due
<1>5. CASE Fails(r)
  <2>1. files' = Without(<<"temp", tmp[r]>>) /\ tmp' = [tmp EXCEPT ![r] = None]
    BY <1>5 DEF Fails
  <2>2. Dir' = {f \in Dir : f.name # <<"temp", tmp[r]>>}
    BY <2>1, Types, WithoutFacts DEF Dir
  <2>3. \A q \in Requests : q # r => tmp'[q] = tmp[q]
    BY <2>1, Types
  <2>4. Settled' \subseteq Settled
    BY <2>2, <2>3 DEF Settled
  <2> QED BY <1>1, <1>4, <2>4, QuotaStays
<1>6. CASE Create(r)
  <2>1. PICK t \in Temps, h \in File :
            /\ \A f \in ToSet(files) \cup ToSet(scanned) : f.name # <<"temp", t>>
            /\ tmp' = [tmp EXCEPT ![r] = t]
            /\ h.name = <<"temp", t>> /\ files' = Append(files, h)
    BY <1>6, CreatedFacts
  <2>2. \A f \in ToSet(files) : f.name # h.name
    BY <2>1
  <2>3. ToSet(Append(files, h)) = ToSet(files) \cup {h}
    BY <2>2, Types, Appended
  <2>4. Dir' = Dir \cup {h}
    BY <2>1, <2>3 DEF Dir
  <2>5. tmp[r] = None /\ tmp'[r] = t /\ t # None /\ \A q \in Requests : q # r => tmp'[q] = tmp[q]
    BY <1>6, <2>1, Types, FilesFacts, Constants DEF Create, OwnsTemp
  <2>6. Settled' \subseteq Settled
    BY <2>1, <2>4, <2>5 DEF Settled
  <2> QED BY <1>1, <1>4, <2>6, QuotaStays
<1>7. CASE Sync(r)
  <2>1. /\ tmp' = tmp /\ tmp[r] # None /\ DOMAIN files' = DOMAIN files
        /\ \A n \in DOMAIN files :
             \/ files'[n] = files[n]
             \/ files[n].name = <<"temp", tmp[r]>> /\ files'[n] = [files[n] EXCEPT !.data = "synced"]
    BY <1>7, FilesFacts DEF Sync, OwnsTemp
  <2>2. \A f \in File : [f EXCEPT !.data = "synced"].name = f.name
    BY DEF File
  <2>3. ASSUME NEW f \in Settled'
        PROVE  f \in Settled
    <3>1. PICK n \in DOMAIN files : f = files'[n]
      BY <2>1 DEF Settled, Dir, ToSet
    <3>2. f.name # <<"temp", tmp[r]>>
      BY <2>1 DEF Settled
    <3>3. files[n] \in File
      BY Types
    <3>4. f = files[n]
      BY <2>1, <2>2, <3>1, <3>2, <3>3
    <3> QED BY <2>1, <3>4 DEF Settled, Dir, ToSet
  <2> QED BY <1>1, <1>4, <2>3, QuotaStays
<1>8. CASE Rename(r)
  <2>1. tmp' = [tmp EXCEPT ![r] = None] /\ \A q \in Requests : q # r => tmp'[q] = tmp[q]
    BY <1>8, Types DEF Rename
  <2>2. CASE ~Exists(<<"temp", tmp[r]>>)
    <3>1. files' = files
      BY <1>8, <2>2 DEF Rename
    <3>2. \A f \in Dir : f.name # <<"temp", tmp[r]>>
      BY <2>2, Types, DirFacts
    <3>3. Settled' \subseteq Settled
      BY <2>1, <3>1, <3>2, DirSame DEF Settled
    <3> QED BY <1>1, <1>4, <3>3, QuotaStays
  <2>3. CASE Exists(<<"temp", tmp[r]>>) /\ Quota > 0
    <3>1. Goto(r, "scan")
      BY <1>8, <2>3 DEF Rename
    <3>2. Due'
      BY <3>1, Staged DEF Due, Stages
    <3> QED BY <1>1, <1>4, <3>2, QuotaStays
  <2>4. CASE ~(Quota > 0)
    <3>1. quotaMu' = None
      BY <1>1, <2>4, Types DEF OrderInv
    <3>2. Bytes(scanned)' = Bytes(scanned)
      BY <1>1 DEF Bytes, Content, ToSet
    <3> QED BY <1>1, <2>4, <3>1, <3>2 DEF QuotaInv
  <2> QED BY <2>2, <2>3, <2>4
<1> QED BY <1>5, <1>6, <1>7, <1>8

LEMMA QuotaScan ==
    ASSUME CacheInv, NEW r \in Requests, Scan(r)
    PROVE  QuotaInv'
<1>1. files' = files /\ scanned' = files /\ total' = Bytes(files) /\ quotaMu' = r
    BY DEF Scan
<1>2. Bytes(scanned)' = Bytes(files) /\ ToSet(scanned)' = ToSet(files) /\ Dir' = ToSet(files)
    BY <1>1 DEF Bytes, Content, ToSet, Dir
<1>3. Bytes(files) \in Nat
    BY Types, ContentFinite
<1>4. Settled' \subseteq ToSet(files)
    BY <1>2 DEF Settled
<1> QED BY <1>1, <1>2, <1>3, <1>4, Constants DEF QuotaInv

\* What is removed is no longer counted, and what is counted may have been removed.
LEMMA QuotaEvict ==
    ASSUME CacheInv, OrderInv, QuotaInv, NEW r \in Requests, Evict(r)
    PROVE  QuotaInv'
<1>1. /\ stage[r] = "evict" /\ scanned # <<>> /\ total > Quota
      /\ files' = Without(Head(scanned).name) /\ scanned' = Tail(scanned)
      /\ total' = IF Exists(Head(scanned).name) THEN total - Size[Head(scanned).image] ELSE total
      /\ UNCHANGED <<stage, tmp, quotaMu, littered>>
    BY DEF Evict
<1>2. PICK h, t, n : h = Head(scanned) /\ t = Tail(scanned) /\ n = Size[h.image]
    OBVIOUS
<1>3. /\ ToSet(scanned) = ToSet(t) \cup {h} /\ n \in Nat
      /\ Bytes(scanned) = Bytes(t) + n /\ Bytes(t) \in Nat
    BY <1>1, <1>2, Types, HeadAndTail DEF OrderInv
<1>4. Bytes(scanned)' = Bytes(t) /\ ToSet(scanned)' = ToSet(t)
    BY <1>1, <1>2 DEF Bytes, Content, ToSet
<1>5. total \in Nat /\ Bytes(scanned) <= total /\ total' \in {total, total - n}
    BY <1>1, <1>2 DEF QuotaInv
<1>6. total' \in Nat /\ Bytes(t) <= total'
    BY <1>3, <1>5
<1>7. quotaMu' = r /\ r # None
    BY <1>1, Constants DEF OrderInv
<1>8. Dir' = {f \in Dir : f.name # h.name}
    BY <1>1, <1>2, Types, WithoutFacts DEF Dir
<1>9. ASSUME ~Due'
      PROVE  Settled' \subseteq ToSet(t)
  <2>1. ~Due
    BY <1>1, <1>9 DEF Due
  <2>2. Settled \subseteq ToSet(scanned)
    BY <1>1, <1>7, <2>1 DEF QuotaInv
  <2>3. \A f \in Settled' : f \in Settled /\ f # h
    BY <1>1, <1>8 DEF Settled
  <2> QED BY <1>3, <2>2, <2>3
<1> QED BY <1>4, <1>6, <1>7, <1>9 DEF QuotaInv

LEMMA NoBytes == Bytes(<<>>) = 0
<1>1. Content(ToSet(<<>>)) = {}
    BY DEF Content, ToSet
<1> QED BY <1>1, FS_EmptySet DEF Bytes

\* An enforcement ends when what it has before it is within the quota, or nothing.
LEMMA QuotaEnforced ==
    ASSUME CacheInv, OrderInv, QuotaInv, NEW r \in Requests, Enforced(r)
    PROVE  QuotaInv'
<1>1. /\ stage[r] = "evict" /\ (scanned = <<>> \/ total <= Quota)
      /\ quotaMu' = None /\ scanned' = <<>> /\ total' = 0
      /\ Goto(r, "stat") /\ UNCHANGED <<files, tmp, littered>>
    BY DEF Enforced
<1>2. Bytes(scanned)' = 0
  <2>1. Bytes(scanned)' = Bytes(<<>>)
    BY <1>1 DEF Bytes, Content, ToSet
  <2> QED BY <2>1, NoBytes
<1>3. Due => Due'
    BY <1>1, Staged DEF Due, Stages
<1>4. ASSUME ~Due
      PROVE  Cardinality(Content(Settled)) <= Quota
  <2>1. quotaMu # None
    BY <1>1, Constants DEF OrderInv
  <2>2. Settled \subseteq ToSet(scanned) /\ total \in Nat /\ Bytes(scanned) <= total
    BY <1>4, <2>1 DEF QuotaInv
  <2>3. Cardinality(Content(Settled)) <= Bytes(scanned) /\ Cardinality(Content(Settled)) \in Nat
    BY <2>2, Types, Lighter
  <2>4. Bytes(scanned) \in Nat /\ Quota \in Nat
    BY Types, ContentFinite, ConstantsAssumption
  <2>5. CASE scanned = <<>>
    <3>1. Bytes(scanned) = 0
      BY <2>5, NoBytes
    <3> QED BY <2>3, <2>4, <3>1
  <2>6. CASE total <= Quota
    BY <2>2, <2>3, <2>4, <2>6
  <2> QED BY <1>1, <2>5, <2>6
<1>5. Settled' = Settled /\ Content(Settled)' = Content(Settled')
    BY <1>1, DirSame DEF Settled, Content
<1> QED BY <1>1, <1>2, <1>3, <1>4, <1>5 DEF QuotaInv

LEMMA QuotaInvHolds == Spec => []QuotaInv
<1>1. Init => QuotaInv
  <2> SUFFICES ASSUME Init PROVE QuotaInv
    OBVIOUS
  <2>1. files = <<>> /\ scanned = <<>> /\ total = 0 /\ quotaMu = None
    BY DEF Init
  <2>2. Settled = {} /\ Content(Settled) = {}
    BY <2>1 DEF Settled, Dir, ToSet, Content
  <2>3. Cardinality(Content(Settled)) = 0 /\ Bytes(scanned) = 0
    BY <2>1, <2>2, NoBytes, FS_EmptySet
  <2>4. total \in Nat /\ Bytes(scanned) <= total
    BY <2>1, <2>3
  <2>5. Cardinality(Content(Settled)) <= Quota
    BY <2>3, ConstantsAssumption
  <2> QED BY <2>1, <2>4, <2>5 DEF QuotaInv
<1>2. CacheInv /\ OrderInv /\ QuotaInv /\ [Next]_vars => QuotaInv'
  <2> SUFFICES ASSUME CacheInv, OrderInv, QuotaInv, [Next]_vars PROVE QuotaInv'
    OBVIOUS
  <2>1. CASE Cleanup
    BY <2>1, QuotaCleanup
  <2>2. CASE Crash
    <3>1. quotaMu' = None /\ scanned' = <<>> /\ total' = 0 /\ littered' = TRUE
      BY <2>2 DEF Crash
    <3>2. Bytes(scanned)' = Bytes(<<>>)
      BY <3>1 DEF Bytes, Content, ToSet
    <3> QED BY <3>1, <3>2, NoBytes DEF QuotaInv
  <2>3. CASE UNCHANGED vars
    <3>1. UNCHANGED <<files, stage, tmp, quotaMu, scanned, total, littered>>
      BY <2>3 DEF vars, quota
    <3>2. Due' = Due /\ Settled' = Settled
      BY <3>1, DirSame DEF Due, Settled
    <3> QED BY <3>1, <3>2, QuotaStays
  <2>4. ASSUME NEW r \in Requests, Step(r) PROVE QuotaInv'
    <3>1. CASE Touch(r) \/ Ref(r) \/ Acquire(r) \/ Unlock(r) \/ Unref(r) \/ Recheck(r) \/ Fetch(r) \/ Stat(r)
      BY <3>1, QuotaAside
    <3>2. CASE Fails(r) \/ Create(r) \/ Sync(r) \/ Rename(r)
      BY <3>2, QuotaFill
    <3>3. CASE Scan(r)
      BY <3>3, QuotaScan
    <3>4. CASE Evict(r)
      BY <3>4, QuotaEvict
    <3>5. CASE Enforced(r)
      BY <3>5, QuotaEnforced
    <3> QED BY <2>4, <3>1, <3>2, <3>3, <3>4, <3>5 DEF Step
  <2>5. ASSUME NEW r \in Requests, NEW i \in Images, Lookup(r, i) PROVE QuotaInv'
    BY <2>5, QuotaAside
  <2> QED BY <2>1, <2>2, <2>3, <2>4, <2>5 DEF Next
<1> QED BY <1>1, <1>2, CacheInvHolds, OrderInvHolds, PTL DEF Spec

\* However fills, enforcements and cleanups overlap, and although a fill may be missed
\* by the walk of another, when all requests are done the directory is within its
\* quota, unless a crash has left something since the last enforcement.
THEOREM QuotaHeld == Spec => []QuotaAtRest
<1>1. CacheInv /\ OrderInv /\ QuotaInv => QuotaAtRest
  <2> SUFFICES ASSUME CacheInv, OrderInv, QuotaInv,
                      \A r \in Requests : stage[r] \in {"idle", "touch"}, Quota > 0, ~littered
               PROVE  Bytes(files) <= Quota
    BY DEF QuotaAtRest
  <2>1. ~Due
    BY DEF Due
  <2>2. quotaMu = None
    BY Types DEF OrderInv
  <2>3. \A r \in Requests : tmp[r] = None
    BY FilesFacts DEF OwnsTemp
  <2>4. Settled = ToSet(files)
    BY <2>3 DEF Settled, Dir
  <2> QED BY <2>1, <2>2, <2>4 DEF QuotaInv, Bytes
<1> QED BY <1>1, CacheInvHolds, OrderInvHolds, QuotaInvHolds, PTL

\* Every variable keeps its type and no two files have one name; the size that
\* enforceQuota counts with does not fall below what it has before it.
THEOREM TypeCorrect == Spec => []TypeOK
<1>1. CacheInv /\ QuotaInv => TypeOK
  <2> SUFFICES ASSUME CacheInv, QuotaInv PROVE TypeOK
    OBVIOUS
  <2>1. refs \in [Locks -> 0 .. Cardinality(Requests)]
    BY RefsBounded DEF R
  <2>2. total \in Nat
    BY DEF QuotaInv
  <2> QED BY <2>1, <2>2, Types DEF TypeOK, Distinct
<1> QED BY <1>1, CacheInvHolds, QuotaInvHolds, PTL
=============================================================================
