------------------------- MODULE SessionLocks_proofs -------------------------
(***************************************************************************)
(* The two locks around the session table and the hub, proved for any      *)
(* handlers, requests, connections and sessions: they exclude, their order *)
(* lets nobody wait for himself, and clients have up-to-date lists.        *)
(***************************************************************************)
EXTENDS SessionLocks, TLAPS

(***************************************************************************)
(* Where the programs hold which lock                                      *)
(***************************************************************************)

\* activeSessionsMu, for writing.
Holds(p) ==
    \/ job[p] = "report" /\ pc[p] \in 2 .. 10
    \/ job[p] = "foreign" /\ pc[p] \in 2 .. 7
    \/ job[p] \in {"refused", "stop"} /\ pc[p] \in {2, 3}
    \/ job[p] = "missed" /\ pc[p] = 2

\* activeSessionsMu, for reading.
Reads(p) ==
    \/ job[p] \in {"list", "message"} /\ pc[p] = 2
    \/ job[p] = "subscribe" /\ pc[p] \in {4, 5}

InHub(p) ==
    \/ job[p] = "report" /\ pc[p] \in {5, 8, 9}
    \/ job[p] = "foreign" /\ pc[p] \in {4, 6}
    \/ job[p] = "stop" /\ pc[p] = 5
    \/ job[p] = "message" /\ pc[p] = 4
    \/ job[p] \in {"hub", "subscribe"} /\ pc[p] = 2

(***************************************************************************)
(* The inductive invariant                                                 *)
(***************************************************************************)

WriterHolds(p) ==
    /\ Holds(p) => writer = p /\ readers = {}
    /\ writer = p => Holds(p) \/ At(p, "lock")

ReadersRead(p) ==
    /\ p \in readers <=> Reads(p)
    /\ p \in waiting => At(p, "rlock") /\ writer # None

Located(p) == WriterHolds(p) /\ ReadersRead(p) /\ (hubMu = p <=> InHub(p))

\* p has recorded its report and has not announced it.
Announcing(p) == job[p] = "report" /\ pc[p] \in 4 .. 8

\* A client's list is up to date unless a report is about to replace it.
ListsFit ==
    (\A p \in Procs : ~Announcing(p))
        => \A c \in Conns : ~listed[c].overtaken => UpToDate(listed[c].list)

\* The list a report is about to announce is the table, which it keeps locked.
ReportsFit ==
    \A p \in Procs : job[p] = "report" /\ pc[p] \in {7, 8} => taken[p] = table

\* A snapshot that has been copied is up to date unless it is overtaken, as
\* all are that still wait while a report is announced.
SnapshotsFit ==
    \A c \in Conns : job[c] = "subscribe" /\ pc[c] \in {5, 6} =>
        /\ c \notin overtaken => UpToDate(taken[c])
        /\ (\E p \in Procs : Announcing(p)) => c \in overtaken

ListInv == ListsFit /\ ReportsFit /\ SnapshotsFit

LockInv == TypeOK /\ (\A p \in Procs : Located(p)) /\ ListInv

\* The table is not written while it is copied, nor by two at once, and the
\* hub is not entered twice.
Exclusion ==
    \A p, q \in Procs : p # q =>
        ~(Holds(p) /\ (Holds(q) \/ Reads(q))) /\ ~(InHub(p) /\ InHub(q))

\* p can take its next step.
CanMove(p) ==
    /\ job[p] # None
    /\ At(p, "lock")  => writer = None \/ (writer = p /\ readers = {})
    /\ At(p, "rlock") => p \notin waiting
    /\ At(p, "hub")   => hubMu = None

\* Whenever somebody has something to do, somebody can do something.
NobodyDeadlocks == (\E p \in Procs : job[p] # None) => \E p \in Procs : CanMove(p)

(***************************************************************************)
(* The programs, step by step                                              *)
(***************************************************************************)

LEMMA Programs ==
    /\ Len(Program("report")) = 10 /\ Program("report")[1] = "lock"
    /\ Program("report")[2] = "sweep" /\ Program("report")[3] = "record"
    /\ Program("report")[4] = "hub" /\ Program("report")[5] = "unhub"
    /\ Program("report")[6] = "copy" /\ Program("report")[7] = "hub"
    /\ Program("report")[8] = "announce" /\ Program("report")[9] = "unhub"
    /\ Program("report")[10] = "unlock"
    /\ Len(Program("foreign")) = 7 /\ Program("foreign")[1] = "lock"
    /\ Program("foreign")[2] = "sweep" /\ Program("foreign")[3] = "hub"
    /\ Program("foreign")[4] = "unhub" /\ Program("foreign")[5] = "hub"
    /\ Program("foreign")[6] = "unhub" /\ Program("foreign")[7] = "unlock"
    /\ Len(Program("refused")) = 3 /\ Program("refused")[1] = "lock"
    /\ Program("refused")[2] = "sweep" /\ Program("refused")[3] = "unlock"
    /\ Len(Program("stop")) = 5 /\ Program("stop")[1] = "lock"
    /\ Program("stop")[2] = "remove" /\ Program("stop")[3] = "unlock"
    /\ Program("stop")[4] = "hub" /\ Program("stop")[5] = "unhub"
    /\ Len(Program("missed")) = 2 /\ Program("missed")[1] = "lock"
    /\ Program("missed")[2] = "unlock"
    /\ Len(Program("list")) = 2 /\ Program("list")[1] = "rlock"
    /\ Program("list")[2] = "runlock"
    /\ Len(Program("message")) = 4 /\ Program("message")[1] = "rlock"
    /\ Program("message")[2] = "runlock" /\ Program("message")[3] = "hub"
    /\ Program("message")[4] = "unhub"
    /\ Len(Program("hub")) = 2 /\ Program("hub")[1] = "hub"
    /\ Program("hub")[2] = "unhub"
    /\ Len(Program("subscribe")) = 6 /\ Program("subscribe")[1] = "hub"
    /\ Program("subscribe")[2] = "unhub" /\ Program("subscribe")[3] = "rlock"
    /\ Program("subscribe")[4] = "copy" /\ Program("subscribe")[5] = "runlock"
    /\ Program("subscribe")[6] = "reply"
BY DEF Program, ReportProgram, SubscribeProgram

LEMMA Lengths ==
    ASSUME NEW j \in Jobs PROVE Len(Program(j)) \in Nat
BY Programs DEF Jobs

LEMMA JobNames ==
    ASSUME TypeOK, NEW p \in Procs
    PROVE  /\ job[p] \in Jobs \cup {None} /\ None \notin Jobs
           /\ job[p] = "subscribe" => p \in Conns
           /\ pc[p] \in Nat
           /\ job[p] = None => pc[p] = 1
           /\ job[p] # None => pc[p] \in 1 .. Len(Program(job[p])) + 1
<1>1. /\ job[p] = None \/ (job[p] \in Jobs /\ job[p] \in JobsOf(p))
      /\ pc[p] \in 1 .. (IF job[p] = None THEN 1 ELSE Len(Program(job[p])) + 1)
    BY DEF TypeOK
<1>2. None \notin Jobs
    BY ConstantsAssumption
<1>3. job[p] # None => Len(Program(job[p])) \in Nat
    BY <1>1, Lengths
<1>4. job[p] = "subscribe" => p \in Conns
  <2> SUFFICES ASSUME job[p] = "subscribe", p \notin Conns PROVE FALSE
      OBVIOUS
  <2>1. p \in Handlers /\ job[p] \in Requests[p]
    BY <1>1, <1>2 DEF JobsOf, Procs, Jobs
  <2>2. Requests[p] \subseteq Jobs \ {"subscribe"}
    BY <2>1, ConstantsAssumption
  <2> QED BY <2>1, <2>2
<1> QED BY <1>1, <1>2, <1>3, <1>4

\* Where each step is taken.
AtTable(p) ==
    /\ At(p, "lock") <=> /\ job[p] \in {"report", "foreign", "refused", "stop", "missed"}
                         /\ pc[p] = 1
    /\ At(p, "sweep") <=> job[p] \in {"report", "foreign", "refused"} /\ pc[p] = 2
    /\ At(p, "remove") <=> job[p] = "stop" /\ pc[p] = 2
    /\ At(p, "record") <=> job[p] = "report" /\ pc[p] = 3
    /\ At(p, "announce") <=> job[p] = "report" /\ pc[p] = 8
    /\ At(p, "unlock") <=> \/ job[p] = "report" /\ pc[p] = 10
                           \/ job[p] = "foreign" /\ pc[p] = 7
                           \/ job[p] \in {"refused", "stop"} /\ pc[p] = 3
                           \/ job[p] = "missed" /\ pc[p] = 2
    /\ At(p, "rlock") <=> \/ job[p] \in {"list", "message"} /\ pc[p] = 1
                          \/ job[p] = "subscribe" /\ pc[p] = 3
    /\ At(p, "runlock") <=> \/ job[p] \in {"list", "message"} /\ pc[p] = 2
                            \/ job[p] = "subscribe" /\ pc[p] = 5
    /\ At(p, "copy") <=> \/ job[p] = "report" /\ pc[p] = 6
                         \/ job[p] = "subscribe" /\ pc[p] = 4
    /\ At(p, "reply") <=> job[p] = "subscribe" /\ pc[p] = 6
    /\ At(p, "hub") <=> \/ job[p] = "report" /\ pc[p] \in {4, 7}
                        \/ job[p] = "foreign" /\ pc[p] \in {3, 5}
                        \/ job[p] = "stop" /\ pc[p] = 4
                        \/ job[p] = "message" /\ pc[p] = 3
                        \/ job[p] \in {"hub", "subscribe"} /\ pc[p] = 1
    /\ At(p, "unhub") <=> \/ job[p] = "report" /\ pc[p] \in {5, 9}
                          \/ job[p] = "foreign" /\ pc[p] \in {4, 6}
                          \/ job[p] = "stop" /\ pc[p] = 5
                          \/ job[p] = "message" /\ pc[p] = 4
                          \/ job[p] \in {"hub", "subscribe"} /\ pc[p] = 2

LEMMA AtTableHolds ==
    ASSUME TypeOK, NEW p \in Procs PROVE AtTable(p)
<1>0. PICK n \in Nat : n = pc[p]
    BY JobNames
<1>1. CASE job[p] = None
    BY <1>1, JobNames DEF At, AtTable, Jobs
<1>2. CASE job[p] = "report"
  <2>1. n \in 1 .. 10 + 1
    BY <1>0, <1>2, JobNames, Programs DEF Jobs
  <2>2. n \in {1, 2, 3, 4, 5, 6, 7, 8, 9, 10, 11}
    BY <2>1
  <2>4. Len(Program("report")) = 10 /\ "report" # None
    BY Programs, JobNames DEF Jobs
  <2>3. \A x : At(p, x) <=> n <= 10 /\ Program("report")[n] = x
    BY <1>0, <1>2, <2>4 DEF At
  <2> QED BY <1>0, <1>2, <2>2, <2>3, Programs DEF AtTable
<1>3. CASE job[p] = "foreign"
  <2>1. n \in 1 .. 7 + 1
    BY <1>0, <1>3, JobNames, Programs DEF Jobs
  <2>2. n \in {1, 2, 3, 4, 5, 6, 7, 8}
    BY <2>1
  <2>3. \A x : At(p, x) <=> n <= 7 /\ Program("foreign")[n] = x
    BY <1>0, <1>3, JobNames, Programs DEF At, Jobs
  <2> QED BY <1>0, <1>3, <2>2, <2>3, Programs DEF AtTable
<1>4. CASE job[p] = "refused"
  <2>1. n \in 1 .. 3 + 1
    BY <1>0, <1>4, JobNames, Programs DEF Jobs
  <2>2. n \in {1, 2, 3, 4}
    BY <2>1
  <2>3. \A x : At(p, x) <=> n <= 3 /\ Program("refused")[n] = x
    BY <1>0, <1>4, JobNames, Programs DEF At, Jobs
  <2> QED BY <1>0, <1>4, <2>2, <2>3, Programs DEF AtTable
<1>5. CASE job[p] = "stop"
  <2>1. n \in 1 .. 5 + 1
    BY <1>0, <1>5, JobNames, Programs DEF Jobs
  <2>2. n \in {1, 2, 3, 4, 5, 6}
    BY <2>1
  <2>3. \A x : At(p, x) <=> n <= 5 /\ Program("stop")[n] = x
    BY <1>0, <1>5, JobNames, Programs DEF At, Jobs
  <2> QED BY <1>0, <1>5, <2>2, <2>3, Programs DEF AtTable
<1>6. CASE job[p] = "missed"
  <2>1. n \in 1 .. 2 + 1
    BY <1>0, <1>6, JobNames, Programs DEF Jobs
  <2>2. n \in {1, 2, 3}
    BY <2>1
  <2>3. \A x : At(p, x) <=> n <= 2 /\ Program("missed")[n] = x
    BY <1>0, <1>6, JobNames, Programs DEF At, Jobs
  <2> QED BY <1>0, <1>6, <2>2, <2>3, Programs DEF AtTable
<1>7. CASE job[p] = "list"
  <2>1. n \in 1 .. 2 + 1
    BY <1>0, <1>7, JobNames, Programs DEF Jobs
  <2>2. n \in {1, 2, 3}
    BY <2>1
  <2>3. \A x : At(p, x) <=> n <= 2 /\ Program("list")[n] = x
    BY <1>0, <1>7, JobNames, Programs DEF At, Jobs
  <2> QED BY <1>0, <1>7, <2>2, <2>3, Programs DEF AtTable
<1>8. CASE job[p] = "message"
  <2>1. n \in 1 .. 4 + 1
    BY <1>0, <1>8, JobNames, Programs DEF Jobs
  <2>2. n \in {1, 2, 3, 4, 5}
    BY <2>1
  <2>3. \A x : At(p, x) <=> n <= 4 /\ Program("message")[n] = x
    BY <1>0, <1>8, JobNames, Programs DEF At, Jobs
  <2> QED BY <1>0, <1>8, <2>2, <2>3, Programs DEF AtTable
<1>9. CASE job[p] = "hub"
  <2>1. n \in 1 .. 2 + 1
    BY <1>0, <1>9, JobNames, Programs DEF Jobs
  <2>2. n \in {1, 2, 3}
    BY <2>1
  <2>3. \A x : At(p, x) <=> n <= 2 /\ Program("hub")[n] = x
    BY <1>0, <1>9, JobNames, Programs DEF At, Jobs
  <2> QED BY <1>0, <1>9, <2>2, <2>3, Programs DEF AtTable
<1>10. CASE job[p] = "subscribe"
  <2>1. n \in 1 .. 6 + 1
    BY <1>0, <1>10, JobNames, Programs DEF Jobs
  <2>2. n \in {1, 2, 3, 4, 5, 6, 7}
    BY <2>1
  <2>3. \A x : At(p, x) <=> n <= 6 /\ Program("subscribe")[n] = x
    BY <1>0, <1>10, JobNames, Programs DEF At, Jobs
  <2> QED BY <1>0, <1>10, <2>2, <2>3, Programs DEF AtTable
<1> QED BY <1>1, <1>2, <1>3, <1>4, <1>5, <1>6, <1>7, <1>8, <1>9, <1>10, JobNames DEF Jobs

(***************************************************************************)
(* The invariant is inductive                                              *)
(***************************************************************************)

\* Who does not move is where he was.
LEMMA Stays ==
    ASSUME NEW q \in Procs, job'[q] = job[q], pc'[q] = pc[q]
    PROVE  /\ Holds(q)' <=> Holds(q)
           /\ Reads(q)' <=> Reads(q)
           /\ InHub(q)' <=> InHub(q)
           /\ \A x : At(q, x)' <=> At(q, x)
BY DEF Holds, Reads, InHub, At

LEMMA Moves ==
    ASSUME NEW P, Advance(P), NEW q \in Procs
    PROVE  pc'[q] = IF q \in P THEN pc[q] + 1 ELSE pc[q]
BY DEF Advance

\* What the places of the programs say about the locks.
LEMMA LocatedPlaces ==
    ASSUME LockInv, NEW q \in Procs
    PROVE  /\ AtTable(q) /\ pc[q] \in Nat /\ job[q] \in Jobs \cup {None} /\ None \notin Jobs
           /\ WriterHolds(q) /\ ReadersRead(q) /\ (hubMu = q <=> InHub(q))
           /\ q # None
BY AtTableHolds, JobNames, ConstantsAssumption DEF LockInv, Located

ListsTyped ==
    /\ table \in Tables /\ taken \in [Procs -> Tables] /\ listed \in [Conns -> Lists]
    /\ silent \subseteq Sessions /\ overtaken \subseteq Conns

LEMMA TypeFrom ==
    ASSUME job' \in [Procs -> Jobs \cup {None}], pc' \in [Procs -> Nat],
           \A p \in Procs : /\ job'[p] # None => job'[p] \in JobsOf(p)
                            /\ pc'[p] \in 1 .. (IF job'[p] = None THEN 1
                                                ELSE Len(Program(job'[p])) + 1),
           writer' \in Procs \cup {None}, readers' \subseteq Procs, waiting' \subseteq Procs,
           hubMu' \in Procs \cup {None}, ListsTyped',
           \A p \in Procs : Located(p)'
    PROVE  TypeOK'
<1> SUFFICES ASSUME NEW p \in Procs, job'[p] = None
             PROVE  p \notin readers' \cup waiting' \cup {writer', hubMu'}
    BY DEF TypeOK, ListsTyped
<1>1. ~Holds(p)' /\ ~Reads(p)' /\ ~InHub(p)'
    BY ConstantsAssumption DEF Holds, Reads, InHub, Jobs
<1>2. ~At(p, "lock")' /\ ~At(p, "rlock")'
    BY DEF At
<1> QED BY <1>1, <1>2 DEF Located, WriterHolds, ReadersRead

\* Whoever is at a step of his program can take it.
LEMMA AdvanceTyped ==
    ASSUME TypeOK, job' = job, NEW P, Advance(P), \A q \in P : \E x : At(q, x), NEW p \in Procs
    PROVE  /\ job'[p] # None => job'[p] \in JobsOf(p)
           /\ pc'[p] \in 1 .. (IF job'[p] = None THEN 1 ELSE Len(Program(job'[p])) + 1)
           /\ pc' \in [Procs -> Nat]
<1>5. pc' \in [Procs -> Nat]
    BY DEF Advance, TypeOK
<1>1. pc'[p] = IF p \in P THEN pc[p] + 1 ELSE pc[p]
    BY Moves
<1>2. pc[p] \in Nat /\ pc[p] \in 1 .. (IF job[p] = None THEN 1 ELSE Len(Program(job[p])) + 1)
      /\ (job[p] # None => job[p] \in JobsOf(p))
    BY JobNames DEF TypeOK
<1>3. CASE p \in P
  <2>1. job[p] # None /\ pc[p] <= Len(Program(job[p]))
    BY <1>3 DEF At
  <2>2. Len(Program(job[p])) \in Nat
    BY <1>2, <2>1, Lengths DEF JobsOf, Jobs
  <2> QED BY <1>1, <1>2, <1>3, <1>5, <2>1, <2>2
<1>4. CASE p \notin P
    BY <1>1, <1>2, <1>4, <1>5
<1> QED BY <1>3, <1>4

\* A step of p that leaves the lists alone and does not lead past a place
\* where the invariant says something of them.
LEMMA StillFit ==
    ASSUME ListInv, UNCHANGED lists,
           \A q \in Procs : /\ Announcing(q)' <=> Announcing(q)
                            /\ (job'[q] = "report" /\ pc'[q] \in {7, 8})
                                <=> (job[q] = "report" /\ pc[q] \in {7, 8})
                            /\ (job'[q] = "subscribe" /\ pc'[q] \in {5, 6})
                                <=> (job[q] = "subscribe" /\ pc[q] \in {5, 6})
    PROVE  ListInv'
<1>1. UNCHANGED <<table, taken, listed, silent, overtaken>> /\ Conns \subseteq Procs
    BY DEF lists, Procs
<1>2. \A list : UpToDate(list)' <=> UpToDate(list)
    BY <1>1 DEF UpToDate
<1>3. ListsFit'
    BY <1>1, <1>2 DEF ListInv, ListsFit
<1>4. ReportsFit'
    BY <1>1 DEF ListInv, ReportsFit
<1>5. SnapshotsFit'
    BY <1>1, <1>2 DEF ListInv, SnapshotsFit
<1> QED BY <1>3, <1>4, <1>5 DEF ListInv

LEMMA StartSteps ==
    ASSUME LockInv, NEW p \in Procs, NEW j, Start(p, j) \/ Finish(p)
    PROVE  LockInv'
<1>1. /\ \A q \in Procs : q # p => job'[q] = job[q] /\ pc'[q] = pc[q]
      /\ job'[p] \in JobsOf(p) \cup {None} /\ pc'[p] = 1
      /\ job' \in [Procs -> Jobs \cup {None}] /\ pc' \in [Procs -> Nat]
      /\ UNCHANGED <<writer, readers, waiting, hubMu, lists>>
  <2>1. JobsOf(p) \subseteq Jobs
    BY ConstantsAssumption DEF JobsOf, Jobs, Procs
  <2>2. job \in [Procs -> Jobs \cup {None}] /\ pc \in [Procs -> Nat]
    BY DEF LockInv, TypeOK
  <2>3. CASE Start(p, j)
    BY <2>1, <2>2, <2>3 DEF Start, locks
  <2>4. CASE Finish(p)
    BY <2>1, <2>2, <2>4 DEF Finish, locks
  <2> QED BY <2>3, <2>4
<1>2. job[p] = None \/ pc[p] > Len(Program(job[p]))
    BY DEF Start, Finish
<1>3. ~Holds(p) /\ ~Reads(p) /\ ~InHub(p) /\ ~At(p, "lock") /\ ~At(p, "rlock")
  <2>1. CASE job[p] = None
    BY <2>1, LocatedPlaces DEF Holds, Reads, InHub, At, Jobs
  <2>2. CASE job[p] # None
    <3>1. pc[p] \in Nat /\ pc[p] > Len(Program(job[p]))
      BY <1>2, <2>2, LocatedPlaces
    <3>2. ~At(p, "lock") /\ ~At(p, "rlock")
      <4>1. job[p] \in Jobs
        BY <2>2, LocatedPlaces
      <4>2. Len(Program(job[p])) \in Nat
        BY <4>1, Lengths
      <4> QED BY <3>1, <4>2 DEF At
    <3>6. /\ job[p] = "report" => pc[p] > 10
          /\ job[p] = "foreign" => pc[p] > 7
          /\ job[p] = "refused" => pc[p] > 3
          /\ job[p] = "stop" => pc[p] > 5
          /\ job[p] \in {"missed", "list", "hub"} => pc[p] > 2
          /\ job[p] = "message" => pc[p] > 4
          /\ job[p] = "subscribe" => pc[p] > 6
      BY <3>1, Programs
    <3>3. ~Holds(p)
      BY <3>1, <3>6 DEF Holds
    <3>4. ~Reads(p)
      BY <3>1, <3>6 DEF Reads
    <3>5. ~InHub(p)
      BY <3>1, <3>6 DEF InHub
    <3> QED BY <3>2, <3>3, <3>4, <3>5
  <2> QED BY <2>1, <2>2
<1>4. ~Holds(p)' /\ ~Reads(p)' /\ ~InHub(p)'
    BY <1>1 DEF Holds, Reads, InHub
<1>5. ASSUME NEW q \in Procs PROVE Located(q)'
  <2>1. CASE q = p
    BY <1>1, <1>3, <1>4, <2>1, LocatedPlaces DEF Located, WriterHolds, ReadersRead
  <2>2. CASE q # p
    BY <1>1, <2>2, LocatedPlaces, Stays DEF Located, WriterHolds, ReadersRead
  <2> QED BY <2>1, <2>2
<1>6. ASSUME NEW q \in Procs
      PROVE  /\ job'[q] # None => job'[q] \in JobsOf(q)
             /\ pc'[q] \in 1 .. (IF job'[q] = None THEN 1 ELSE Len(Program(job'[q])) + 1)
  <2>1. CASE q = p
    <3>1. job'[p] # None => Len(Program(job'[p])) \in Nat
      BY <1>1, Lengths
    <3> QED BY <1>1, <2>1, <3>1
  <2>2. CASE q # p
    BY <1>1, <2>2 DEF LockInv, TypeOK
  <2> QED BY <2>1, <2>2
<1>7. TypeOK'
  <2>1. ListsTyped'
    BY <1>1 DEF LockInv, TypeOK, ListsTyped, lists
  <2> QED BY <1>1, <1>5, <1>6, <2>1, TypeFrom DEF LockInv, TypeOK
<1>8. ListInv'
  <2>1. /\ ~(job[p] = "report" /\ pc[p] \in 4 .. 8)
        /\ ~(job[p] = "report" /\ pc[p] \in {7, 8})
    BY <1>3, LocatedPlaces DEF Holds
  <2>2. ~(job[p] = "subscribe" /\ pc[p] \in {5, 6})
    BY <1>2, Programs, LocatedPlaces DEF Jobs
  <2> QED BY <1>1, <2>1, <2>2, StillFit DEF LockInv, Announcing
<1> QED BY <1>5, <1>7, <1>8 DEF LockInv

\* The step of p leads to a state of the invariant, if it does so for the
\* locks and the lists.
LEMMA AdvanceSteps ==
    ASSUME LockInv, job' = job, NEW P, Advance(P), \A q \in P : \E x : At(q, x),
           writer' \in Procs \cup {None}, readers' \subseteq Procs, waiting' \subseteq Procs,
           hubMu' \in Procs \cup {None}, ListsTyped',
           \A q \in Procs : Located(q)',
           ListInv'
    PROVE  LockInv'
<1>1. TypeOK /\ job' \in [Procs -> Jobs \cup {None}] /\ pc' \in [Procs -> Nat]
    BY DEF LockInv, TypeOK, Advance
<1>2. \A p \in Procs : /\ job'[p] # None => job'[p] \in JobsOf(p)
                       /\ pc'[p] \in 1 .. (IF job'[p] = None THEN 1
                                           ELSE Len(Program(job'[p])) + 1)
    BY <1>1, AdvanceTyped
<1> QED BY <1>1, <1>2, TypeFrom DEF LockInv

LEMMA LocksTyped ==
    ASSUME LockInv
    PROVE  /\ writer \in Procs \cup {None} /\ readers \subseteq Procs /\ waiting \subseteq Procs
           /\ hubMu \in Procs \cup {None} /\ ListsTyped /\ ListInv
           /\ UNCHANGED lists => ListsTyped'
BY DEF LockInv, TypeOK, ListsTyped, lists

\* Where a step leaves p, as far as the lists go.
Aside(p) ==
    /\ job[p] = "report" => pc[p] \in {1, 2, 3, 9, 10, 11}
    /\ job[p] = "subscribe" => pc[p] \in {1, 2, 3, 4, 7}

LEMMA StepsAside ==
    ASSUME LockInv, UNCHANGED <<job, lists>>, NEW P,
           \A q \in Procs : q \notin P => pc'[q] = pc[q],
           \A q \in Procs : q \in P => Aside(q) /\ Aside(q)'
    PROVE  ListInv'
BY LocksTyped, StillFit DEF Aside, Announcing

LEMMA ClaimLockSteps ==
    ASSUME LockInv, NEW p \in Procs, ClaimLock(p) PROVE LockInv'
<1>1. /\ At(p, "lock") /\ writer = None /\ writer' = p
      /\ UNCHANGED <<job, pc, readers, waiting, hubMu, lists>>
    BY DEF ClaimLock
<1>2. ASSUME NEW q \in Procs PROVE Located(q)'
    BY <1>1, LocatedPlaces, Stays DEF Located, WriterHolds, ReadersRead
<1>3. TypeOK'
    BY <1>1, <1>2, LocksTyped, TypeFrom DEF LockInv, TypeOK
<1>4. ListInv'
    BY <1>1, LocksTyped, StillFit DEF Announcing
<1> QED BY <1>2, <1>3, <1>4 DEF LockInv

LEMMA LockSteps ==
    ASSUME LockInv, NEW p \in Procs, Lock(p) PROVE LockInv'
<1>1. /\ At(p, "lock") /\ writer = p /\ readers = {} /\ Advance({p})
      /\ UNCHANGED <<job, writer, readers, waiting, hubMu, lists>>
    BY DEF Lock, locks
<1>2. job[p] \in {"report", "foreign", "refused", "stop", "missed"} /\ pc[p] = 1
    BY <1>1, LocatedPlaces DEF AtTable
<1>3. pc'[p] = 2 /\ \A q \in Procs : q # p => pc'[q] = pc[q]
    BY <1>1, <1>2, Moves
<1>4. ASSUME NEW q \in Procs PROVE Located(q)'
  <2>1. CASE q = p
    <3>1. Holds(p)' /\ ~Reads(p)' /\ ~InHub(p)'
      BY <1>1, <1>2, <1>3 DEF Holds, Reads, InHub
    <3>2. ~Reads(p) /\ ~InHub(p) /\ ~At(p, "rlock")
      BY <1>2, LocatedPlaces DEF Reads, InHub, AtTable
    <3> QED BY <1>1, <2>1, <3>1, <3>2, LocatedPlaces DEF Located, WriterHolds, ReadersRead
  <2>2. CASE q # p
    BY <1>1, <1>3, <2>2, LocatedPlaces, Stays DEF Located, WriterHolds, ReadersRead
  <2> QED BY <2>1, <2>2
<1>5. ListInv'
    BY <1>1, <1>2, <1>3, StepsAside DEF Aside
<1> QED BY <1>1, <1>4, <1>5, LocksTyped, AdvanceSteps

LEMMA UnlockSteps ==
    ASSUME LockInv, NEW p \in Procs, Unlock(p) PROVE LockInv'
<1>1. /\ At(p, "unlock") /\ writer' = None /\ readers' = waiting /\ waiting' = {}
      /\ Advance(waiting \cup {p}) /\ UNCHANGED <<job, hubMu, lists>>
    BY DEF Unlock
<1>2. \/ job[p] = "report" /\ pc[p] = 10
      \/ job[p] = "foreign" /\ pc[p] = 7
      \/ job[p] \in {"refused", "stop"} /\ pc[p] = 3
      \/ job[p] = "missed" /\ pc[p] = 2
    BY <1>1, LocatedPlaces DEF AtTable
<1>3. \A q \in Procs : pc'[q] = IF q \in waiting \cup {p} THEN pc[q] + 1 ELSE pc[q]
    BY <1>1, Moves
<1>4. /\ Holds(p) /\ ~Reads(p) /\ ~InHub(p) /\ p \notin waiting
      /\ writer = p /\ readers = {}
  <2>1. Holds(p) /\ ~Reads(p) /\ ~InHub(p) /\ ~At(p, "rlock")
    BY <1>2, LocatedPlaces DEF Holds, Reads, InHub, AtTable
  <2> QED BY <2>1, LocatedPlaces DEF WriterHolds, ReadersRead
<1>5. ASSUME NEW q \in waiting
      PROVE  /\ q \in Procs /\ At(q, "rlock")
             /\ ~Holds(q)' /\ Reads(q)' /\ ~InHub(q)' /\ ~InHub(q)
             /\ Aside(q) /\ Aside(q)'
  <2>1. q \in Procs
    BY LocksTyped
  <2>2. At(q, "rlock") /\ pc'[q] = pc[q] + 1 /\ job' = job
    BY <1>1, <1>3, <2>1, LocatedPlaces DEF ReadersRead
  <2>3. \/ job[q] \in {"list", "message"} /\ pc[q] = 1
        \/ job[q] = "subscribe" /\ pc[q] = 3
    BY <2>1, <2>2, LocatedPlaces DEF AtTable
  <2> QED BY <2>1, <2>2, <2>3 DEF Holds, Reads, InHub, Aside
<1>6. ASSUME NEW q \in Procs PROVE Located(q)'
  <2>1. CASE q = p
    <3>1. ~Holds(p)' /\ ~Reads(p)' /\ ~InHub(p)'
      BY <1>1, <1>2, <1>3 DEF Holds, Reads, InHub
    <3> QED BY <1>1, <1>4, <2>1, <3>1, LocatedPlaces DEF Located, WriterHolds, ReadersRead
  <2>2. CASE q \in waiting
    BY <1>1, <1>5, <2>2, LocatedPlaces DEF Located, WriterHolds, ReadersRead
  <2>3. CASE q # p /\ q \notin waiting
    BY <1>1, <1>3, <1>4, <2>3, LocatedPlaces, Stays DEF Located, WriterHolds, ReadersRead
  <2> QED BY <2>1, <2>2, <2>3
<1>7. ListInv'
  <2>1. Aside(p) /\ Aside(p)'
    BY <1>1, <1>2, <1>3 DEF Aside
  <2> QED BY <1>1, <1>3, <1>5, <2>1, StepsAside
<1>8. \A q \in waiting \cup {p} : \E x : At(q, x)
    BY <1>1, <1>5
<1> QED BY <1>1, <1>6, <1>7, <1>8, LocksTyped, AdvanceSteps

LEMMA RLockSteps ==
    ASSUME LockInv, NEW p \in Procs, RLock(p) PROVE LockInv'
<1>1. /\ At(p, "rlock") /\ p \notin waiting
      /\ UNCHANGED <<job, writer, hubMu, lists>>
    BY DEF RLock
<1>2. \/ job[p] \in {"list", "message"} /\ pc[p] = 1
      \/ job[p] = "subscribe" /\ pc[p] = 3
    BY <1>1, LocatedPlaces DEF AtTable
<1>3. ~Holds(p) /\ ~Reads(p) /\ ~InHub(p)
    BY <1>2 DEF Holds, Reads, InHub
<1>4. CASE writer = None
  <2>1. readers' = readers \cup {p} /\ Advance({p}) /\ waiting' = waiting
    BY <1>4 DEF RLock
  <2>2. pc'[p] = pc[p] + 1 /\ \A q \in Procs : q # p => pc'[q] = pc[q]
    BY <2>1, Moves
  <2>3. ASSUME NEW q \in Procs PROVE Located(q)'
    <3>1. CASE q = p
      <4>1. ~Holds(p)' /\ Reads(p)' /\ ~InHub(p)'
        BY <1>1, <1>2, <2>2 DEF Holds, Reads, InHub
      <4> QED BY <1>1, <1>3, <1>4, <2>1, <3>1, <4>1, LocatedPlaces
              DEF Located, WriterHolds, ReadersRead
    <3>2. CASE q # p
      BY <1>1, <1>4, <2>1, <2>2, <3>2, LocatedPlaces, Stays DEF Located, WriterHolds, ReadersRead
    <3> QED BY <3>1, <3>2
  <2>4. ListInv'
    <3>1. Aside(p) /\ Aside(p)'
      BY <1>1, <1>2, <2>2 DEF Aside
    <3>2. /\ \A q \in Procs : q \notin {p} => pc'[q] = pc[q]
          /\ \A q \in Procs : q \in {p} => Aside(q) /\ Aside(q)'
      BY <2>2, <3>1
    <3>3. UNCHANGED <<job, lists>>
      BY <1>1
    <3> QED BY <3>2, <3>3, StepsAside
  <2> QED BY <1>1, <2>1, <2>3, <2>4, LocksTyped, AdvanceSteps
<1>5. CASE writer # None
  <2>1. waiting' = waiting \cup {p} /\ readers' = readers /\ pc' = pc
    BY <1>5 DEF RLock
  <2>2. ASSUME NEW q \in Procs PROVE Located(q)'
    BY <1>1, <1>3, <1>5, <2>1, LocatedPlaces, Stays DEF Located, WriterHolds, ReadersRead
  <2>3. TypeOK'
    BY <1>1, <2>1, <2>2, LocksTyped, TypeFrom DEF LockInv, TypeOK
  <2>4. ListInv'
    BY <1>1, <2>1, LocksTyped, StillFit DEF Announcing
  <2> QED BY <2>2, <2>3, <2>4 DEF LockInv
<1> QED BY <1>4, <1>5

LEMMA RUnlockSteps ==
    ASSUME LockInv, NEW p \in Procs, RUnlock(p) PROVE LockInv'
<1>1. /\ At(p, "runlock") /\ readers' = readers \ {p} /\ Advance({p})
      /\ UNCHANGED <<job, writer, waiting, hubMu, lists>>
    BY DEF RUnlock
<1>2. \/ job[p] \in {"list", "message"} /\ pc[p] = 2
      \/ job[p] = "subscribe" /\ pc[p] = 5
    BY <1>1, LocatedPlaces DEF AtTable
<1>3. pc'[p] = pc[p] + 1 /\ \A q \in Procs : q # p => pc'[q] = pc[q]
    BY <1>1, Moves
<1>4. ASSUME NEW q \in Procs PROVE Located(q)'
  <2>1. CASE q = p
    <3>1. ~Holds(p)' /\ ~Reads(p)' /\ ~InHub(p)'
      BY <1>1, <1>2, <1>3 DEF Holds, Reads, InHub
    <3>2. ~Holds(p) /\ ~InHub(p) /\ ~At(p, "rlock") /\ ~At(p, "lock")
      BY <1>2, LocatedPlaces DEF Holds, InHub, AtTable
    <3> QED BY <1>1, <2>1, <3>1, <3>2, LocatedPlaces DEF Located, WriterHolds, ReadersRead
  <2>2. CASE q # p
    BY <1>1, <1>3, <2>2, LocatedPlaces, Stays DEF Located, WriterHolds, ReadersRead
  <2> QED BY <2>1, <2>2
<1>5. ListInv'
    BY <1>1, <1>2, <1>3, LocksTyped, StillFit DEF Announcing
<1> QED BY <1>1, <1>4, <1>5, LocksTyped, AdvanceSteps

LEMMA HubSteps ==
    ASSUME LockInv, NEW p \in Procs, Hub(p) \/ Unhub(p) PROVE LockInv'
<1>1. /\ Advance({p}) /\ hubMu' \in {p, None}
      /\ UNCHANGED <<job, writer, readers, waiting, lists>>
    BY DEF Hub, Unhub
<1>2. pc'[p] = pc[p] + 1 /\ \A q \in Procs : q # p => pc'[q] = pc[q]
    BY <1>1, Moves
<1>3. ~At(p, "rlock") /\ ~At(p, "lock") /\ (\E x : At(p, x)) /\ (Holds(p)' <=> Holds(p))
      /\ ~Reads(p) /\ ~Reads(p)' /\ (InHub(p)' <=> hubMu' = p)
      /\ (hubMu = None \/ hubMu = p)
      /\ \/ job[p] = "report" /\ pc[p] \in {4, 5, 7, 9}
         \/ job[p] \in {"foreign", "stop", "message", "hub"}
         \/ job[p] = "subscribe" /\ pc[p] \in {1, 2}
  <2>1. CASE Hub(p)
    <3>1. At(p, "hub") /\ hubMu = None /\ hubMu' = p
      BY <2>1 DEF Hub
    <3>2. \/ job[p] = "report" /\ pc[p] \in {4, 7}
          \/ job[p] = "foreign" /\ pc[p] \in {3, 5}
          \/ job[p] = "stop" /\ pc[p] = 4
          \/ job[p] = "message" /\ pc[p] = 3
          \/ job[p] \in {"hub", "subscribe"} /\ pc[p] = 1
      BY <3>1, LocatedPlaces DEF AtTable
    <3>3. ~At(p, "rlock") /\ ~At(p, "lock")
      BY <3>2, LocatedPlaces DEF AtTable
    <3>4. InHub(p)' /\ ~Reads(p) /\ ~Reads(p)' /\ (Holds(p)' <=> Holds(p))
      BY <1>1, <1>2, <3>2 DEF InHub, Reads, Holds
    <3> QED BY <3>1, <3>2, <3>3, <3>4
  <2>2. CASE Unhub(p)
    <3>1. At(p, "unhub") /\ hubMu' = None
      BY <2>2 DEF Unhub
    <3>2. \/ job[p] = "report" /\ pc[p] \in {5, 9}
          \/ job[p] = "foreign" /\ pc[p] \in {4, 6}
          \/ job[p] = "stop" /\ pc[p] = 5
          \/ job[p] = "message" /\ pc[p] = 4
          \/ job[p] \in {"hub", "subscribe"} /\ pc[p] = 2
      BY <3>1, LocatedPlaces DEF AtTable
    <3>3. ~At(p, "rlock") /\ ~At(p, "lock")
      BY <3>2, LocatedPlaces DEF AtTable
    <3>4. ~InHub(p)' /\ InHub(p) /\ ~Reads(p) /\ ~Reads(p)' /\ (Holds(p)' <=> Holds(p))
      BY <1>1, <1>2, <3>2 DEF InHub, Reads, Holds
    <3>5. hubMu = p /\ p # None
      BY <3>4, LocatedPlaces
    <3> QED BY <3>1, <3>2, <3>3, <3>4, <3>5
  <2> QED BY <2>1, <2>2
<1>4. ASSUME NEW q \in Procs PROVE Located(q)'
  <2>1. CASE q = p
    BY <1>1, <1>3, <2>1, LocatedPlaces DEF Located, WriterHolds, ReadersRead
  <2>2. CASE q # p
    <3>1. hubMu' # q /\ hubMu # q /\ ~InHub(q)
      BY <1>1, <1>3, <2>2, LocatedPlaces
    <3> QED BY <1>1, <1>2, <2>2, <3>1, LocatedPlaces, Stays DEF Located, WriterHolds, ReadersRead
  <2> QED BY <2>1, <2>2
<1>5. ListInv'
    BY <1>1, <1>2, <1>3, LocksTyped, StillFit DEF Announcing
<1> QED BY <1>1, <1>3, <1>4, <1>5, LocksTyped, AdvanceSteps

(***************************************************************************)
(* The steps that deal with the lists                                      *)
(***************************************************************************)

\* They leave the locks alone.
LEMMA ListSteps ==
    ASSUME LockInv, NEW p \in Procs, Advance({p}), UNCHANGED <<job, locks>>,
           NEW x \in {"sweep", "remove", "record", "copy", "announce", "reply"}, At(p, x),
           ListsTyped', ListInv'
    PROVE  LockInv'
<1>1. UNCHANGED <<writer, readers, waiting, hubMu>>
    BY DEF locks
<1>2. pc'[p] = pc[p] + 1 /\ \A q \in Procs : q # p => pc'[q] = pc[q]
    BY Moves
<1>3. /\ ~At(p, "rlock") /\ ~At(p, "lock")
      /\ \/ job[p] = "report" /\ pc[p] \in {2, 3, 6, 8}
         \/ job[p] \in {"foreign", "refused", "stop"} /\ pc[p] = 2
         \/ job[p] = "subscribe" /\ pc[p] \in {4, 6}
    BY LocatedPlaces DEF AtTable
<1>4. (Holds(p)' <=> Holds(p)) /\ (Reads(p)' <=> Reads(p)) /\ (InHub(p)' <=> InHub(p))
    BY <1>2, <1>3 DEF Holds, Reads, InHub
<1>5. ASSUME NEW q \in Procs PROVE Located(q)'
  <2>1. CASE q = p
    BY <1>1, <1>3, <1>4, <2>1, LocatedPlaces DEF Located, WriterHolds, ReadersRead
  <2>2. CASE q # p
    BY <1>1, <1>2, <2>2, LocatedPlaces, Stays DEF Located, WriterHolds, ReadersRead
  <2> QED BY <2>1, <2>2
<1> QED BY <1>1, <1>5, LocksTyped, AdvanceSteps

\* Who writes is alone with the table: nobody announces, copies or is about
\* to release a copy.
LEMMA Alone ==
    ASSUME LockInv, NEW p \in Procs, Holds(p), NEW q \in Procs, q # p
    PROVE  /\ ~Announcing(q) /\ ~(job[q] = "report" /\ pc[q] \in {7, 8})
           /\ ~(job[q] = "subscribe" /\ pc[q] \in {4, 5})
<1>1. ~Holds(q) /\ ~Reads(q)
    BY LocatedPlaces DEF WriterHolds, ReadersRead
<1> QED BY <1>1, LocatedPlaces DEF Holds, Reads, Announcing

\* An up-to-date list stays one when sessions are deleted.
LEMMA DeleteKeeps ==
    ASSUME NEW gone, Delete(gone), NEW list, UpToDate(list) PROVE UpToDate(list)'
<1> SUFFICES ASSUME NEW s \in Sessions
             PROVE  list[s] = table'[s] \/ (table'[s] = None /\ s \in silent')
    BY DEF UpToDate
<1>1. table'[s] = (IF s \in gone THEN None ELSE table[s]) /\ silent' = silent \cup gone
    BY DEF Delete
<1> QED BY <1>1 DEF UpToDate

LEMMA DeleteSteps ==
    ASSUME LockInv, NEW p \in Procs, Sweep(p) \/ Remove(p) PROVE LockInv'
<1>1. PICK x \in {"sweep", "remove"} : At(p, x) /\ Advance({p})
    BY DEF Sweep, Remove
<1>2. PICK gone : gone \subseteq Present /\ Delete(gone)
    BY DEF Sweep, Remove
<1>3. UNCHANGED <<job, locks, taken, listed, overtaken>>
    BY DEF Sweep, Remove
<1>4. job[p] \in {"report", "foreign", "refused", "stop"} /\ pc[p] = 2
    BY <1>1, LocatedPlaces DEF AtTable
<1>5. Holds(p) /\ pc'[p] = 3 /\ \A q \in Procs : q # p => pc'[q] = pc[q]
    BY <1>1, <1>4, Moves DEF Holds
<1>6. ListsTyped'
  <2>1. table' \in Tables
    BY <1>2, LocksTyped DEF Delete, Tables, ListsTyped
  <2>2. silent' \subseteq Sessions
    BY <1>2, LocksTyped DEF Delete, Present, ListsTyped
  <2> QED BY <1>3, <2>1, <2>2, LocksTyped DEF ListsTyped
<1>7. \A q \in Procs : ~Announcing(q) /\ ~Announcing(q)'
    BY <1>3, <1>4, <1>5, Alone DEF Announcing
<1>8. \A list : UpToDate(list) => UpToDate(list)'
    BY <1>2, DeleteKeeps
<1>9. ListsFit'
    BY <1>3, <1>7, <1>8, LocksTyped DEF ListInv, ListsFit
<1>10. ReportsFit'
    BY <1>3, <1>4, <1>5, Alone DEF ReportsFit
<1>11. SnapshotsFit'
  <2> SUFFICES ASSUME NEW c \in Conns, job'[c] = "subscribe", pc'[c] \in {5, 6}, c \notin overtaken'
               PROVE  UpToDate(taken[c])'
    BY <1>3, <1>7 DEF SnapshotsFit
  <2>1. c \in Procs /\ c # p /\ pc[c] \in {5, 6} /\ job[c] = "subscribe"
    BY <1>3, <1>4, <1>5 DEF Procs
  <2>2. UpToDate(taken[c])
    BY <1>3, <2>1, LocksTyped DEF ListInv, SnapshotsFit
  <2> QED BY <1>2, <1>3, <2>2, DeleteKeeps DEF UpToDate
<1> QED BY <1>1, <1>3, <1>6, <1>9, <1>10, <1>11, ListSteps DEF ListInv

LEMMA RecordSteps ==
    ASSUME LockInv, NEW p \in Procs, Record(p) PROVE LockInv'
<1>1. /\ At(p, "record") /\ Advance({p})
      /\ overtaken' = overtaken \cup {c \in Conns : At(c, "reply")}
      /\ UNCHANGED <<job, locks, taken, listed>>
    BY DEF Record
<1>2. PICK s \in Sessions, state \in States \cup {None} :
            table' = [table EXCEPT ![s] = state] /\ silent' = silent \ {s}
    BY DEF Record
<1>3. job[p] = "report" /\ pc[p] = 3
    BY <1>1, LocatedPlaces DEF AtTable
<1>4. Holds(p) /\ pc'[p] = 4 /\ \A q \in Procs : q # p => pc'[q] = pc[q]
    BY <1>1, <1>3, Moves DEF Holds
<1>5. ListsTyped'
    BY <1>1, <1>2, LocksTyped DEF ListsTyped, Tables
<1>6. Announcing(p)'
    BY <1>1, <1>3, <1>4 DEF Announcing
<1>7. ListsFit'
    BY <1>6 DEF ListsFit
<1>8. ReportsFit'
    BY <1>1, <1>4, Alone DEF ReportsFit
<1>9. SnapshotsFit'
  <2> SUFFICES ASSUME NEW c \in Conns, job'[c] = "subscribe", pc'[c] \in {5, 6}
               PROVE  c \in overtaken'
    BY DEF SnapshotsFit
  <2>1. c \in Procs /\ c # p /\ pc[c] \in {5, 6} /\ job[c] = "subscribe"
    BY <1>1, <1>3, <1>4 DEF Procs
  <2>2. pc[c] = 6
    BY <1>4, <2>1, Alone
  <2> QED BY <1>1, <2>1, <2>2, LocatedPlaces DEF AtTable
<1> QED BY <1>1, <1>5, <1>7, <1>8, <1>9, ListSteps DEF ListInv

LEMMA CopySteps ==
    ASSUME LockInv, NEW p \in Procs, Copy(p) PROVE LockInv'
<1>1. /\ At(p, "copy") /\ Advance({p}) /\ taken' = [taken EXCEPT ![p] = table]
      /\ UNCHANGED <<job, locks, table, listed, silent, overtaken>>
    BY DEF Copy
<1>2. /\ pc'[p] = pc[p] + 1 /\ \A q \in Procs : q # p => pc'[q] = pc[q]
      /\ \/ job[p] = "report" /\ pc[p] = 6
         \/ job[p] = "subscribe" /\ pc[p] = 4
    BY <1>1, LocatedPlaces, Moves DEF AtTable
<1>3. ListsTyped' /\ taken'[p] = table /\ \A q \in Procs : q # p => taken'[q] = taken[q]
    BY <1>1, LocksTyped DEF ListsTyped
<1>4. \A q \in Procs : Announcing(q)' <=> Announcing(q)
    BY <1>1, <1>2 DEF Announcing
<1>5. \A list : UpToDate(list)' <=> UpToDate(list)
    BY <1>1 DEF UpToDate
<1>6. ListsFit'
    BY <1>1, <1>4, <1>5, LocksTyped DEF ListInv, ListsFit
<1>7. ReportsFit'
    BY <1>1, <1>2, <1>3, LocksTyped DEF ListInv, ReportsFit
<1>8. SnapshotsFit'
  <2> SUFFICES ASSUME NEW c \in Conns, job'[c] = "subscribe", pc'[c] \in {5, 6}
               PROVE  /\ c \notin overtaken' => UpToDate(taken[c])'
                      /\ (\E q \in Procs : Announcing(q)') => c \in overtaken'
    BY DEF SnapshotsFit
  <2>0. c \in Procs
    BY DEF Procs
  <2>1. CASE c = p
    <3>1. Reads(p)
      BY <1>1, <1>2, <2>1 DEF Reads
    <3>2. UpToDate(taken[c])'
      BY <1>1, <1>3, <2>1 DEF UpToDate
    <3>3. ASSUME NEW q \in Procs, Announcing(q)' PROVE FALSE
      <4>1. Holds(q)
        BY <1>4, <3>3 DEF Announcing, Holds
      <4> QED BY <3>1, <4>1, LocatedPlaces DEF WriterHolds, ReadersRead
    <3> QED BY <3>2, <3>3
  <2>2. CASE c # p
    <3>1. job[c] = "subscribe" /\ pc[c] \in {5, 6} /\ taken'[c] = taken[c]
      BY <1>1, <1>2, <1>3, <2>0, <2>2
    <3>2. c \notin overtaken => UpToDate(taken[c])
      BY <3>1, LocksTyped DEF ListInv, SnapshotsFit
    <3>3. (\E q \in Procs : Announcing(q)) => c \in overtaken
      BY <3>1, LocksTyped DEF ListInv, SnapshotsFit
    <3> QED BY <1>1, <1>4, <3>1, <3>2, <3>3 DEF UpToDate
  <2> QED BY <2>1, <2>2
<1> QED BY <1>1, <1>3, <1>6, <1>7, <1>8, ListSteps DEF ListInv

LEMMA AnnounceSteps ==
    ASSUME LockInv, NEW p \in Procs, Announce(p) PROVE LockInv'
<1>1. /\ At(p, "announce") /\ Advance({p})
      /\ listed' = [c \in Conns |-> [overtaken |-> FALSE, list |-> taken[p]]]
      /\ taken' = [taken EXCEPT ![p] = Empty] /\ silent' = {}
      /\ UNCHANGED <<job, locks, table, overtaken>>
    BY DEF Announce
<1>2. job[p] = "report" /\ pc[p] = 8
    BY <1>1, LocatedPlaces DEF AtTable
<1>3. Holds(p) /\ pc'[p] = 9 /\ \A q \in Procs : q # p => pc'[q] = pc[q]
    BY <1>1, <1>2, Moves DEF Holds
<1>4. taken[p] = table /\ Announcing(p)
    BY <1>2, LocksTyped DEF ListInv, ReportsFit, Announcing
<1>5. ListsTyped'
  <2>1. Empty \in Tables /\ taken[p] \in Tables
    BY LocksTyped DEF ListsTyped, Empty, Tables
  <2>2. [overtaken |-> FALSE, list |-> taken[p]] \in Lists
    BY <2>1 DEF Lists
  <2> QED BY <1>1, <2>1, <2>2, LocksTyped DEF ListsTyped
<1>6. ListsFit'
  <2> SUFFICES ASSUME NEW c \in Conns PROVE UpToDate(listed[c].list)'
    BY DEF ListsFit
  <2>1. listed'[c] = [overtaken |-> FALSE, list |-> table]
    BY <1>1, <1>4
  <2>2. listed'[c].list = table'
    BY <1>1, <2>1
  <2> QED BY <2>2 DEF UpToDate
<1>7. ReportsFit'
    BY <1>1, <1>3, Alone DEF ReportsFit
<1>8. \A c \in Conns : job'[c] = "subscribe" /\ pc'[c] \in {5, 6} => c \in overtaken'
  <2> SUFFICES ASSUME NEW c \in Conns, job'[c] = "subscribe", pc'[c] \in {5, 6}
               PROVE  c \in overtaken
    BY <1>1
  <2>1. c \in Procs /\ c # p /\ pc[c] \in {5, 6} /\ job[c] = "subscribe"
    BY <1>1, <1>2, <1>3 DEF Procs
  <2> QED BY <1>4, <2>1, LocksTyped DEF ListInv, SnapshotsFit
<1>9. SnapshotsFit'
    BY <1>8 DEF SnapshotsFit
<1> QED BY <1>1, <1>5, <1>6, <1>7, <1>9, ListSteps DEF ListInv

LEMMA ReplySteps ==
    ASSUME LockInv, NEW p \in Conns, Reply(p) PROVE LockInv'
<1>1. /\ p \in Procs /\ At(p, "reply") /\ Advance({p})
      /\ listed' = [listed EXCEPT ![p] = [overtaken |-> p \in overtaken, list |-> taken[p]]]
      /\ taken' = [taken EXCEPT ![p] = Empty] /\ overtaken' = overtaken \ {p}
      /\ UNCHANGED <<job, locks, table, silent>>
    BY DEF Reply, Procs
<1>2. /\ job[p] = "subscribe" /\ pc[p] = 6 /\ pc'[p] = 7
      /\ \A q \in Procs : q # p => pc'[q] = pc[q]
  <2>1. job[p] = "subscribe" /\ pc[p] = 6
    BY <1>1, LocatedPlaces DEF AtTable
  <2> QED BY <1>1, <2>1, Moves
<1>3. /\ ListsTyped'
      /\ \A q \in Procs : q # p => taken'[q] = taken[q]
      /\ \A c \in Conns : listed'[c] = IF c = p THEN [overtaken |-> p \in overtaken,
                                                      list |-> taken[p]]
                                       ELSE listed[c]
  <2>1. Empty \in Tables /\ taken[p] \in Tables /\ (p \in overtaken) \in BOOLEAN
    BY <1>1, LocksTyped DEF ListsTyped, Empty, Tables
  <2>2. [overtaken |-> p \in overtaken, list |-> taken[p]] \in Lists
    BY <2>1 DEF Lists
  <2> QED BY <1>1, <2>1, <2>2, LocksTyped DEF ListsTyped
<1>4. \A q \in Procs : Announcing(q)' <=> Announcing(q)
    BY <1>1, <1>2 DEF Announcing
<1>5. \A list : UpToDate(list)' <=> UpToDate(list)
    BY <1>1 DEF UpToDate
<1>6. ListsFit'
  <2> SUFFICES ASSUME \A q \in Procs : ~Announcing(q), NEW c \in Conns, ~listed'[c].overtaken
               PROVE  UpToDate(listed'[c].list)
    BY <1>1, <1>4 DEF ListsFit, UpToDate
  <2>1. CASE c = p
    <3> DEFINE late == p \in overtaken
    <3>1. listed'[c] = [overtaken |-> late, list |-> taken[p]]
      BY <1>3, <2>1
    <3> HIDE DEF late
    <3>3. listed'[c].overtaken = late /\ listed'[c].list = taken[p]
      BY <3>1
    <3>2. p \notin overtaken /\ listed'[c].list = taken[p]
      BY <3>3 DEF late
    <3> QED BY <1>2, <3>2, LocksTyped DEF ListInv, SnapshotsFit
  <2>2. CASE c # p
    <3>1. listed'[c] = listed[c]
      BY <1>3, <2>2
    <3> QED BY <3>1, LocksTyped DEF ListInv, ListsFit
  <2> QED BY <2>1, <2>2
<1>7. ReportsFit'
    BY <1>1, <1>2, <1>3, LocksTyped DEF ListInv, ReportsFit
<1>8. SnapshotsFit'
  <2> SUFFICES ASSUME NEW c \in Conns, job'[c] = "subscribe", pc'[c] \in {5, 6}
               PROVE  /\ c \notin overtaken' => UpToDate(taken[c])'
                      /\ (\E q \in Procs : Announcing(q)') => c \in overtaken'
    BY DEF SnapshotsFit
  <2>1. c \in Procs /\ c # p
    BY <1>2 DEF Procs
  <2>2. job[c] = "subscribe" /\ pc[c] \in {5, 6} /\ taken'[c] = taken[c]
    BY <1>1, <1>2, <1>3, <2>1
  <2>3. c \notin overtaken => UpToDate(taken[c])
    BY <2>2, LocksTyped DEF ListInv, SnapshotsFit
  <2>4. (\E q \in Procs : Announcing(q)) => c \in overtaken
    BY <2>2, LocksTyped DEF ListInv, SnapshotsFit
  <2> QED BY <1>1, <1>4, <2>1, <2>2, <2>3, <2>4 DEF UpToDate
<1> QED BY <1>1, <1>3, <1>6, <1>7, <1>8, ListSteps DEF ListInv

LEMMA InitLockInv == Init => LockInv
<1> SUFFICES ASSUME Init PROVE LockInv
    OBVIOUS
<1>1. \A p \in Procs : job[p] = None /\ pc[p] = 1 /\ p # None /\ None \notin Jobs
    BY ConstantsAssumption DEF Init
<1>2. TypeOK
  <2>0. Empty \in Tables
    BY DEF Empty, Tables
  <2>1. [overtaken |-> FALSE, list |-> Empty] \in Lists
    BY <2>0 DEF Lists
  <2>2. ListsTyped
    BY <2>0, <2>1 DEF Init, ListsTyped
  <2>3. \A p \in Procs : p \notin readers \cup waiting \cup {writer, hubMu}
    BY <1>1 DEF Init
  <2>4. /\ job \in [Procs -> Jobs \cup {None}] /\ pc \in [Procs -> Nat]
        /\ writer \in Procs \cup {None} /\ hubMu \in Procs \cup {None}
        /\ readers \subseteq Procs /\ waiting \subseteq Procs
    BY DEF Init
  <2> QED BY <1>1, <2>2, <2>3, <2>4 DEF TypeOK, ListsTyped
<1>3. ASSUME NEW p \in Procs PROVE Located(p)
  <2>1. ~Holds(p) /\ ~Reads(p) /\ ~InHub(p)
    BY <1>1 DEF Holds, Reads, InHub, Jobs
  <2> QED BY <1>1, <2>1 DEF Init, Located, WriterHolds, ReadersRead
<1>4. ListInv
  <2>1. \A c \in Conns : listed[c] = [overtaken |-> FALSE, list |-> Empty]
    BY DEF Init
  <2>2. \A c \in Conns : listed[c].list = table
    BY <2>1 DEF Init
  <2>3. ListsFit
    BY <2>2 DEF ListsFit, UpToDate
  <2>4. ReportsFit /\ SnapshotsFit
    BY <1>1 DEF ReportsFit, SnapshotsFit, Procs, Jobs
  <2> QED BY <2>3, <2>4 DEF ListInv
<1> QED BY <1>2, <1>3, <1>4 DEF LockInv

LEMMA LockInvHolds == Spec => []LockInv
<1>1. LockInv /\ [Next]_vars => LockInv'
  <2> SUFFICES ASSUME LockInv, [Next]_vars PROVE LockInv'
    OBVIOUS
  <2>1. ASSUME NEW p \in Procs, Step(p) PROVE LockInv'
    BY <2>1, ClaimLockSteps, LockSteps, UnlockSteps, RLockSteps, RUnlockSteps, HubSteps,
       DeleteSteps, RecordSteps, CopySteps, AnnounceSteps, ReplySteps, StartSteps DEF Step
  <2>2. ASSUME NEW p \in Procs, NEW j, Start(p, j) PROVE LockInv'
    BY <2>2, StartSteps
  <2>3. CASE UNCHANGED vars
    <3>1. TypeOK'
      BY <2>3 DEF LockInv, vars, TypeOK
    <3>3. UNCHANGED lists
      BY <2>3 DEF vars, lists
    <3>4. ListInv'
      BY <2>3, <3>3, LocksTyped, StillFit DEF Announcing, vars
    <3>2. ASSUME NEW p \in Procs PROVE Located(p)'
      BY <2>3, LocatedPlaces, Stays DEF vars, Located, WriterHolds, ReadersRead
    <3> QED BY <3>1, <3>2, <3>4 DEF LockInv
  <2> QED BY <2>1, <2>2, <2>3 DEF Next
<1> QED BY <1>1, InitLockInv, PTL DEF Spec

(***************************************************************************)
(* The theorems                                                            *)
(***************************************************************************)

\* The variables keep their types; whoever does nothing holds no lock.
THEOREM TypeCorrect == Spec => []TypeOK
<1>1. LockInv => TypeOK
    BY DEF LockInv
<1> QED BY <1>1, LockInvHolds, PTL

\* The locks do what they are there for, although readers are let in by the
\* writer that leaves: recordPlayback changes the table while nobody copies
\* or changes it, and one goroutine at a time is in the hub.
THEOREM LocksExclude == Spec => []Exclusion
<1>1. LockInv => Exclusion
  <2> SUFFICES ASSUME LockInv, NEW p \in Procs, NEW q \in Procs, p # q
               PROVE  ~(Holds(p) /\ (Holds(q) \/ Reads(q))) /\ ~(InHub(p) /\ InHub(q))
    BY DEF Exclusion
  <2> QED BY LocatedPlaces DEF WriterHolds, ReadersRead
<1> QED BY <1>1, LockInvHolds, PTL

\* While the table is not being written, every client's list is what its user's
\* reports made of the table, but for sessions that were deleted without an
\* announcement since, however many requests sweep, delete and announce, unless
\* a snapshot that a report has overtaken came last.
THEOREM ListsStayUpToDate == Spec => []ListsUpToDate
<1>1. LockInv => ListsUpToDate
  <2> SUFFICES ASSUME LockInv, \A p \in Procs : ~Writing(p) PROVE \A p \in Procs : ~Announcing(p)
    BY LocksTyped DEF ListsUpToDate, ListInv, ListsFit
  <2>1. ASSUME NEW p \in Procs, Announcing(p) PROVE FALSE
    <3>1. Holds(p) /\ ~At(p, "lock")
      BY <2>1, LocatedPlaces DEF Holds, AtTable, Announcing
    <3> QED BY <3>1, LocatedPlaces DEF Writing, WriterHolds
  <2> QED BY <2>1
<1> QED BY <1>1, LockInvHolds, PTL

\* There is no deadlock ("否则自死锁"), with any number of reports,
\* subscriptions and hub operations: whoever is in the hub waits for nothing,
\* nor does a reader; and who has claimed the table waits for them only.
THEOREM NoDeadlock == Spec => []NobodyDeadlocks
<1>1. LockInv => NobodyDeadlocks
  <2> SUFFICES ASSUME LockInv, NEW p \in Procs, job[p] # None PROVE \E q \in Procs : CanMove(q)
    BY DEF NobodyDeadlocks
  <2>1. CASE hubMu # None
    <3>1. PICK q \in Procs : q = hubMu
      BY <2>1, LocksTyped
    <3>2. InHub(q)
      BY <3>1, LocatedPlaces
    <3>3. job[q] # None /\ ~At(q, "lock") /\ ~At(q, "rlock") /\ ~At(q, "hub")
      BY <3>2, LocatedPlaces DEF InHub, AtTable, Jobs
    <3> QED BY <3>3 DEF CanMove
  <2>2. CASE hubMu = None /\ readers # {}
    <3>1. PICK q \in Procs : q \in readers
      BY <2>2, LocksTyped
    <3>2. Reads(q)
      BY <3>1, LocatedPlaces DEF ReadersRead
    <3>3. job[q] # None /\ ~At(q, "lock") /\ ~At(q, "rlock") /\ ~At(q, "hub")
      BY <3>2, LocatedPlaces DEF Reads, AtTable, Jobs
    <3> QED BY <3>3 DEF CanMove
  <2>3. CASE hubMu = None /\ readers = {} /\ writer # None
    <3>1. PICK q \in Procs : q = writer
      BY <2>3, LocksTyped
    <3>2. Holds(q) \/ At(q, "lock")
      BY <3>1, LocatedPlaces DEF WriterHolds
    <3>3. job[q] # None /\ ~At(q, "rlock")
      BY <3>2, LocatedPlaces DEF Holds, AtTable, Jobs
    <3> QED BY <2>3, <3>1, <3>3 DEF CanMove
  <2>4. CASE hubMu = None /\ readers = {} /\ writer = None
    <3>1. p \notin waiting
      BY <2>4, LocatedPlaces DEF ReadersRead
    <3> QED BY <2>4, <3>1 DEF CanMove
  <2> QED BY <2>1, <2>2, <2>3, <2>4
<1> QED BY <1>1, LockInvHolds, PTL

=============================================================================
