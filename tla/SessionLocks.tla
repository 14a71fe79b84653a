----------------------------- MODULE SessionLocks -----------------------------
(***************************************************************************)
(* The locks around the session table and the WebSocket hub, and what they *)
(* make of the session lists that the clients of one user are sent:        *)
(* internal/api/emby/sessions.go and operations.go, internal/infra/ws.     *)
(*                                                                         *)
(* Every handler, and every readPump, is a program of steps on two locks:  *)
(* activeSessionsMu, a sync.RWMutex, and the hub's mutex.  A report keeps  *)
(* the first while it takes the second; a subscription takes the second,   *)
(* then, through the snapshot callback, the first.  What else happens in   *)
(* the sections is the matter of PlaybackSessions and WsHub.               *)
(***************************************************************************)
EXTENDS Naturals, Sequences

CONSTANTS
    Handlers,       \* goroutines of HTTP requests, of anybody
    Requests,       \* Requests[h]: the requests that h may serve
    Conns,          \* connections of one user: each has one readPump
    Sessions,       \* the play sessions of that user
    States,         \* what a report may say of one
    None

Procs == Handlers \cup Conns

\* sessionsOfLocked: the part of activeSessions that is the user's.
Tables == [Sessions -> States \cup {None}]
Empty == [s \in Sessions |-> None]

(***************************************************************************)
(* The programs                                                            *)
(***************************************************************************)

\* Mutant: the list is broadcast after the section.
ReportAnnouncingLate ==
    <<"lock", "sweep", "record", "hub", "unhub", "copy", "unlock", "hub", "announce", "unhub">>

\* recordPlayback: UserDataChanged, then Sessions, inside the locked section.
ReportProgram ==
    <<"lock", "sweep", "record", "hub", "unhub", "copy", "hub", "announce", "unhub", "unlock">>

\* Mutant: the snapshot callback runs under the hub's mutex.
SubscribeInsideHub == <<"hub", "rlock", "copy", "runlock", "unhub", "reply">>

\* handleMessage, sendSnapshot, websocketSnapshot, userSessions.
SubscribeProgram == <<"hub", "unhub", "rlock", "copy", "runlock", "reply">>

\* "foreign": a report of another user; it sweeps everybody's sessions.
\* "refused": 403, 429 or 500 after the sweep.
\* "missed": a stop of a session that is not there.
Program(job) ==
    CASE job = "report"    -> ReportProgram
      [] job = "foreign"   -> <<"lock", "sweep", "hub", "unhub", "hub", "unhub", "unlock">>
      [] job = "refused"   -> <<"lock", "sweep", "unlock">>
      [] job = "stop"      -> <<"lock", "remove", "unlock", "hub", "unhub">>
      [] job = "missed"    -> <<"lock", "unlock">>
      [] job = "list"      -> <<"rlock", "runlock">>             \* getSessions
      [] job = "message"   -> <<"rlock", "runlock", "hub", "unhub">>
      [] job = "hub"       -> <<"hub", "unhub">>  \* Serve, Close, other broadcasts
      [] job = "subscribe" -> SubscribeProgram

Jobs == {"report", "foreign", "refused", "stop", "missed", "list", "message", "hub", "subscribe"}

JobsOf(p) == IF p \in Conns THEN {"subscribe", "hub"} ELSE Requests[p]

ASSUME ConstantsAssumption ==
    /\ Handlers \cap Conns = {} /\ None \notin Procs \cup Jobs \cup States
    /\ Requests \in [Handlers -> SUBSET (Jobs \ {"subscribe"})]

Lists == [overtaken : BOOLEAN, list : Tables]

VARIABLES
    job,        \* job[p]: what p is doing, or None
    pc,         \* pc[p]: the next step of its program
    writer,     \* activeSessionsMu: the writer that holds it or waits for the
                \* readers to leave (it keeps new readers out)
    readers,    \* the readers inside
    waiting,    \* the readers kept out by the writer
    hubMu,      \* holder of Hub.mu
    table,      \* activeSessions, as far as the user's sessions go
    taken,      \* taken[p]: the list that p has copied and not sent yet
    listed,     \* listed[c]: the session list c was sent last, and how
    silent,     \* history: sessions removed since the last list was announced
    overtaken   \* history: connections whose snapshot was copied before a
                \* report and is not queued yet

vars == <<job, pc, writer, readers, waiting, hubMu, table, taken, listed, silent, overtaken>>

locks == <<writer, readers, waiting, hubMu>>
lists == <<table, taken, listed, silent, overtaken>>

At(p, step) ==
    /\ job[p] # None
    /\ pc[p] <= Len(Program(job[p]))
    /\ Program(job[p])[pc[p]] = step

Advance(P) == pc' = [p \in Procs |-> IF p \in P THEN pc[p] + 1 ELSE pc[p]]

Init ==
    /\ job = [p \in Procs |-> None]
    /\ pc = [p \in Procs |-> 1]
    /\ writer = None /\ readers = {} /\ waiting = {}
    /\ hubMu = None
    /\ table = Empty
    /\ taken = [p \in Procs |-> Empty]
    /\ listed = [c \in Conns |-> [overtaken |-> FALSE, list |-> Empty]]
    /\ silent = {} /\ overtaken = {}

Start(p, j) ==
    /\ job[p] = None
    /\ j \in JobsOf(p)
    /\ job' = [job EXCEPT ![p] = j]
    /\ pc' = [pc EXCEPT ![p] = 1]
    /\ UNCHANGED <<locks, lists>>

Finish(p) ==
    /\ job[p] # None
    /\ pc[p] > Len(Program(job[p]))
    /\ job' = [job EXCEPT ![p] = None]
    /\ pc' = [pc EXCEPT ![p] = 1]
    /\ UNCHANGED <<locks, lists>>

(***************************************************************************)
(* activeSessionsMu                                                        *)
(***************************************************************************)

\* Lock, first part: one writer at a time; it keeps new readers out.
ClaimLock(p) ==
    /\ At(p, "lock")
    /\ writer = None
    /\ writer' = p
    /\ UNCHANGED <<job, pc, readers, waiting, hubMu, lists>>

\* Lock, second part: the readers inside have left.
Lock(p) ==
    /\ At(p, "lock")
    /\ writer = p
    /\ readers = {}
    /\ Advance({p})
    /\ UNCHANGED <<job, locks, lists>>

\* Unlock lets all readers in that have been waiting, before another writer.
Unlock(p) ==
    /\ At(p, "unlock")
    /\ writer' = None
    /\ readers' = waiting
    /\ waiting' = {}
    /\ Advance(waiting \cup {p})
    /\ UNCHANGED <<job, hubMu, lists>>

RLock(p) ==
    /\ At(p, "rlock")
    /\ p \notin waiting
    /\ IF writer = None
       THEN readers' = readers \cup {p} /\ Advance({p}) /\ UNCHANGED waiting
       ELSE waiting' = waiting \cup {p} /\ UNCHANGED <<readers, pc>>
    /\ UNCHANGED <<job, writer, hubMu, lists>>

RUnlock(p) ==
    /\ At(p, "runlock")
    /\ readers' = readers \ {p}
    /\ Advance({p})
    /\ UNCHANGED <<job, writer, waiting, hubMu, lists>>

(***************************************************************************)
(* Hub.mu                                                                  *)
(***************************************************************************)

Hub(p) ==
    /\ At(p, "hub")
    /\ hubMu = None
    /\ hubMu' = p
    /\ Advance({p})
    /\ UNCHANGED <<job, writer, readers, waiting, lists>>

Unhub(p) ==
    /\ At(p, "unhub")
    /\ hubMu' = None
    /\ Advance({p})
    /\ UNCHANGED <<job, writer, readers, waiting, lists>>

(***************************************************************************)
(* The session table and the lists made of it                              *)
(***************************************************************************)

\* These sessions are deleted, and nobody is sent a list.
Delete(gone) ==
    /\ table' = [s \in Sessions |-> IF s \in gone THEN None ELSE table[s]]
    /\ silent' = silent \cup gone

Present == {s \in Sessions : table[s] # None}

\* Every report first drops the sessions, anybody's, not heard of for long.
Sweep(p) ==
    /\ At(p, "sweep")
    /\ \E gone \in SUBSET Present : Delete(gone)
    /\ Advance({p})
    /\ UNCHANGED <<job, locks, taken, listed, overtaken>>

\* stopSession deletes one session; it may be another user's.
Remove(p) ==
    /\ At(p, "remove")
    /\ \E gone \in {{}} \cup {{s} : s \in Present} : Delete(gone)
    /\ Advance({p})
    /\ UNCHANGED <<job, locks, taken, listed, overtaken>>

\* A report enters its session, or deletes it when playing has stopped.
Record(p) ==
    /\ At(p, "record")
    /\ \E s \in Sessions, state \in States \cup {None} :
            table' = [table EXCEPT ![s] = state] /\ silent' = silent \ {s}
    /\ overtaken' = overtaken \cup {c \in Conns : At(c, "reply")}
    /\ Advance({p})
    /\ UNCHANGED <<job, locks, taken, listed>>

\* sessionsOfLocked, for a report under the write lock, for a subscription
\* under the read lock.
Copy(p) ==
    /\ At(p, "copy")
    /\ taken' = [taken EXCEPT ![p] = table]
    /\ Advance({p})
    /\ UNCHANGED <<job, locks, table, listed, silent, overtaken>>

\* The Sessions broadcast reaches every connection of the user.
Announce(p) ==
    /\ At(p, "announce")
    /\ listed' = [c \in Conns |-> [overtaken |-> FALSE, list |-> taken[p]]]
    /\ taken' = [taken EXCEPT ![p] = Empty]
    /\ silent' = {}
    /\ Advance({p})
    /\ UNCHANGED <<job, locks, table, overtaken>>

\* The snapshot is queued without any lock, perhaps after a newer list.
Reply(c) ==
    /\ At(c, "reply")
    /\ listed' = [listed EXCEPT ![c] =
                    [overtaken |-> c \in overtaken, list |-> taken[c]]]
    /\ taken' = [taken EXCEPT ![c] = Empty]
    /\ overtaken' = overtaken \ {c}
    /\ Advance({c})
    /\ UNCHANGED <<job, locks, table, silent>>

-----------------------------------------------------------------------------
Step(p) ==
    \/ ClaimLock(p) \/ Lock(p) \/ Unlock(p)
    \/ RLock(p) \/ RUnlock(p)
    \/ Hub(p) \/ Unhub(p)
    \/ Sweep(p) \/ Remove(p) \/ Record(p)
    \/ Copy(p) \/ Announce(p)
    \/ p \in Conns /\ Reply(p)
    \/ Finish(p)

Next == \E p \in Procs : Step(p) \/ \E j \in Jobs : Start(p, j)

Spec == Init /\ [][Next]_vars

\* Goroutines run, and Go's mutexes do not starve those who wait for them.
Fairness == /\ \A p \in Handlers : SF_vars(ClaimLock(p))
            /\ \A p \in Procs : SF_vars(Hub(p)) /\ WF_vars(Step(p))

FairSpec == Spec /\ Fairness

-----------------------------------------------------------------------------
TypeOK ==
    /\ job \in [Procs -> Jobs \cup {None}] /\ pc \in [Procs -> Nat]
    /\ \A p \in Procs : /\ job[p] # None => job[p] \in JobsOf(p)
                        /\ pc[p] \in 1 .. (IF job[p] = None THEN 1
                                           ELSE Len(Program(job[p])) + 1)
    /\ writer \in Procs \cup {None}
    /\ readers \subseteq Procs /\ waiting \subseteq Procs
    /\ hubMu \in Procs \cup {None}
    /\ \A p \in Procs : job[p] = None =>
            p \notin readers \cup waiting \cup {writer, hubMu}
    /\ table \in Tables /\ taken \in [Procs -> Tables]
    /\ listed \in [Conns -> Lists]
    /\ silent \subseteq Sessions /\ overtaken \subseteq Conns

\* The writer is inside: past its "lock" step.
Writing(p) == writer = p /\ ~At(p, "lock")

\* The list says of every session what the table says, except that it may
\* still hold one that was deleted since the last list was announced.
UpToDate(list) ==
    \A s \in Sessions : list[s] = table[s] \/ (table[s] = None /\ s \in silent)

\* While the table is not being written, every client has an up-to-date list:
\* what its user's reports entered or deleted, and the other deletions until
\* the last of them.  A session swept by anybody's report that is refused, or
\* is another user's, or stopped by the administrator, stays on the list until
\* the next report of the user.  One thing only can take a client further
\* back: a snapshot copied before a report and queued after it.
ListsUpToDate ==
    (\A p \in Procs : ~Writing(p))
        => \A c \in Conns : ~listed[c].overtaken => UpToDate(listed[c].list)

\* Every request and every subscription is answered: no combination of
\* reports, subscriptions, stops and hub operations waits for itself ("否则自
\* 死锁", the deadlock that sessionsOfLocked exists to avoid), and waiting
\* readers and writers let each other in.
EveryJobEnds == \A p \in Procs : job[p] # None ~> job[p] = None
=============================================================================
