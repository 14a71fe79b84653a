-------------------------- MODULE PlaybackSessions --------------------------
(***************************************************************************)
(* Playback reporting of the Emby API: internal/api/emby/sessions.go.      *)
(*                                                                         *)
(* Every report (Playing, Playing/Progress, Playing/Stopped) is one        *)
(* handler goroutine.  It reads the user and the item outside any lock,    *)
(* then enters the section guarded by activeSessionsMu, in which it evicts *)
(* expired sessions, checks ownership and the stream limit, commits one    *)
(* database transaction, updates the session table, broadcasts and         *)
(* answers.  Administrators stop sessions, change policies and delete      *)
(* users and items meanwhile; the process may crash at any point.          *)
(*                                                                         *)
(* The age of a session is the time since its LastActivityDate, in units   *)
(* of which Window make the two minutes after which recordPlayback evicts  *)
(* it.  The date is kept in whole seconds (RFC 3339): an age is rounded up *)
(* to its unit, and a session may go up to a second early.                 *)
(***************************************************************************)
EXTENDS Naturals, FiniteSets

CONSTANTS
    Users, Items, Sids,     \* user ids, item ids, session ids
    Requests,               \* handler goroutines that may be in flight
    Positions,              \* the PositionTicks a client reports
    Runtime,                \* Runtime[i]: RuntimeTicks of item i, 0 if unknown
    Policies,               \* the user policies an administrator may store
    Window,                 \* largest age at which a session is not expired
    MaxReports,             \* bound: reports begun
    MaxAdminOps,            \* bound: administrative operations and crashes
    None

Keys    == Users \X Items
Policy  == [play : BOOLEAN, max : Nat, deny : SUBSET Items]
Row     == [pos : Positions, played : BOOLEAN, count : Nat]
Session == [user : Users, item : Items, pos : Positions, age : 0 .. Window + 1]
Report  == [user : Users, item : Items, sid : Sids, pos : Positions,
            stopped : BOOLEAN, policy : Policies]
View    == [sid : Sids, item : Items, pos : Positions]

ASSUME ConstantsAssumption ==
    /\ IsFiniteSet(Sids)
    /\ Positions \subseteq Nat
    /\ Runtime \in [Items -> Nat]
    /\ Policies \subseteq Policy
    /\ Window \in Nat /\ MaxReports \in Nat /\ MaxAdminOps \in Nat
    /\ None \notin Policies \cup Requests \cup Row \cup Session \cup Report

VARIABLES
    policy,     \* users table: policy[u], None when the row is gone
    items,      \* media_items table: the items that exist
    rows,       \* play_progress table, by <<user, item>>
    activity,   \* playback_activity: the pairs with a recorded activity
    sessions,   \* activeSessions
    lock,       \* holder of activeSessionsMu
    stage,      \* how far each handler has come
    req,        \* what each handler holds in its local variables
    told,       \* the session list last broadcast to each user
    promise,    \* history: positions an acknowledgement allows in the row
    purged,     \* history: pairs whose row an administrator has deleted
    reports, adminOps   \* the two bounds

db    == <<policy, items, rows, activity>>
vars  == <<policy, items, rows, activity, sessions, lock, stage, req, told,
           promise, purged, reports, adminOps>>

Key(r) == <<req[r].user, req[r].item>>

-----------------------------------------------------------------------------
(* Pure parts of the handler.                                              *)

\* stopped && RuntimeTicks > 0 && PositionTicks >= RuntimeTicks*9/10
Completes(i, pos) == Runtime[i] > 0 /\ pos >= (Runtime[i] * 9) \div 10

\* INSERT ... ON CONFLICT(user_id, item_id) DO UPDATE position_ticks: an
\* existing row keeps its other columns.
Upserted(row, pos) ==
    IF row = None THEN [pos |-> pos, played |-> FALSE, count |-> 0]
                  ELSE [row EXCEPT !.pos = pos]

\* Mutant: without the WHERE is_played = false.
CountedAlways(row) == [pos |-> row.pos, played |-> TRUE, count |-> row.count + 1]

\* UPDATE ... SET is_played, play_count + 1 WHERE is_played = false
CountedPlay(row) ==
    IF row.played THEN row
                  ELSE [pos |-> row.pos, played |-> TRUE, count |-> row.count + 1]

\* The play_progress row after the report's transaction.
Written(row, p) ==
    IF p.stopped /\ Completes(p.item, p.pos)
    THEN CountedPlay(Upserted(row, p.pos))
    ELSE Upserted(row, p.pos)

\* Mutant: evicts a session that is exactly at the limit.
ExpiredEarly(s) == sessions[s] # None /\ sessions[s].age >= Window

\* now.Sub(last) > 2*time.Minute
Expired(s) == sessions[s] # None /\ sessions[s].age > Window

\* The table after the eviction loop at the head of the locked section.
Unexpired == [s \in Sids |-> IF Expired(s) THEN None ELSE sessions[s]]

OwnedIn(table, u) == {s \in Sids : table[s] # None /\ table[s].user = u}

\* Mutant: the session id is taken over from whoever uses it.
NoConflict(table, p) == FALSE

\* 403: the session id is in use by somebody else.
Conflict(table, p) == table[p.sid] # None /\ table[p.sid].user # p.user

\* Mutant: off by one.
OverLimitByOne(table, p) ==
    /\ ~p.stopped
    /\ p.policy.max > 0
    /\ Cardinality(OwnedIn(table, p.user) \ {p.sid}) > p.policy.max

\* 429: the user's other sessions already fill the limit (0 is unlimited).
OverLimit(table, p) ==
    /\ ~p.stopped
    /\ p.policy.max > 0
    /\ Cardinality(OwnedIn(table, p.user) \ {p.sid}) >= p.policy.max

\* activeSessions after an accepted report.
Recorded(table, p) ==
    [table EXCEPT ![p.sid] =
        IF p.stopped THEN None
        ELSE [user |-> p.user, item |-> p.item, pos |-> p.pos, age |-> 0]]

\* sessionsOfLocked
SessionsOf(table, u) ==
    {[sid |-> s, item |-> table[s].item, pos |-> table[s].pos] :
        s \in OwnedIn(table, u)}

\* Mutant: the list is taken before the table is updated.
AnnouncedEarly(table, p) == SessionsOf(table, p.user)

\* The Sessions event the report sends to its user.
Announced(table, p) == SessionsOf(Recorded(table, p), p.user)

-----------------------------------------------------------------------------
Init ==
    /\ policy \in [Users -> Policies]
    /\ items = Items
    /\ rows = [k \in Keys |-> None]
    /\ activity = {}
    /\ sessions = [s \in Sids |-> None]
    /\ lock = None
    /\ stage = [r \in Requests |-> "idle"]
    /\ req = [r \in Requests |-> None]
    /\ told = [u \in Users |-> {}]
    /\ promise = [k \in Keys |-> {}]
    /\ purged = {}
    /\ reports = 0
    /\ adminOps = 0

(***************************************************************************)
(* recordPlayback                                                          *)
(***************************************************************************)

\* A well-formed report arrives and the handler reads the user's row, which
\* must exist and allow playback (otherwise 403, and nothing changes).
Begin(r, p) ==
    /\ reports < MaxReports
    /\ stage[r] = "idle"
    /\ policy[p.user] # None /\ policy[p.user].play
    /\ p.policy = policy[p.user]
    /\ stage' = [stage EXCEPT ![r] = "user_read"]
    /\ req' = [req EXCEPT ![r] = p]
    /\ reports' = reports + 1
    /\ UNCHANGED <<db, sessions, lock, told, promise, purged, adminOps>>

Answer(r) ==
    /\ stage' = [stage EXCEPT ![r] = "idle"]
    /\ req' = [req EXCEPT ![r] = None]

\* The item is read and checked against the policy read before: 404 or 403
\* end the request, otherwise it goes on to the lock.
CheckItem(r) ==
    /\ stage[r] = "user_read"
    /\ IF req[r].item \in items \ req[r].policy.deny
       THEN stage' = [stage EXCEPT ![r] = "checked"] /\ UNCHANGED req
       ELSE Answer(r)
    /\ UNCHANGED <<db, sessions, lock, told, promise, purged, reports, adminOps>>

\* Lock, evict the expired sessions, check ownership and the stream limit.
\* A refusal (403, 429) releases the lock; the evictions stay.
Enter(r) ==
    /\ stage[r] = "checked"
    /\ lock = None
    /\ sessions' = Unexpired
    /\ IF Conflict(Unexpired, req[r]) \/ OverLimit(Unexpired, req[r])
       THEN Answer(r) /\ UNCHANGED lock
       ELSE /\ lock' = r
            /\ stage' = [stage EXCEPT ![r] = "admitted"]
            /\ UNCHANGED req
    /\ UNCHANGED <<db, told, promise, purged, reports, adminOps>>

\* Mutant: the report is acknowledged from memory, to be written later.
PersistLater(r) ==
    /\ stage[r] = "admitted"
    /\ stage' = [stage EXCEPT ![r] = "persisted"]
    /\ UNCHANGED <<db, sessions, lock, req, told, promise, purged, reports, adminOps>>

\* The transaction commits.
Persist(r) ==
    /\ stage[r] = "admitted"
    /\ rows' = [rows EXCEPT ![Key(r)] = Written(@, req[r])]
    /\ activity' = IF req[r].stopped THEN activity \cup {Key(r)} ELSE activity
    /\ stage' = [stage EXCEPT ![r] = "persisted"]
    /\ UNCHANGED <<policy, items, sessions, lock, req, told, promise, purged,
                   reports, adminOps>>

\* Mutant: the error of the transaction is ignored.
PersistErrorIgnored(r) == PersistLater(r)

\* The transaction fails: 500, the lock is released, no session is touched.
PersistFails(r) ==
    /\ stage[r] = "admitted"
    /\ Answer(r)
    /\ lock' = None
    /\ UNCHANGED <<db, sessions, told, promise, purged, reports, adminOps>>

\* Update the session table, broadcast the user's sessions and acknowledge.
Finish(r) ==
    /\ stage[r] = "persisted"
    /\ sessions' = Recorded(sessions, req[r])
    /\ told' = [told EXCEPT ![req[r].user] = Announced(sessions, req[r])]
    /\ promise' = [promise EXCEPT ![Key(r)] =
                        IF rows[Key(r)] = None /\ Key(r) \in purged
                        THEN {} ELSE {req[r].pos}]
    /\ lock' = None
    /\ Answer(r)
    /\ UNCHANGED <<db, purged, reports, adminOps>>

(***************************************************************************)
(* Everything else that touches the same state                             *)
(***************************************************************************)

\* stopSession: the administrator removes a session (its owner is sent a
\* Playstate command, not a new session list).
StopSession(s) ==
    /\ lock = None
    /\ sessions[s] # None
    /\ sessions' = [sessions EXCEPT ![s] = None]
    /\ UNCHANGED <<db, lock, stage, req, told, promise, purged, reports, adminOps>>

\* Time passes for every session.  The locked section lasts far less than a
\* unit of age, so no unit elapses inside it.
Age ==
    /\ lock = None
    /\ \E s \in Sids : sessions[s] # None /\ ~Expired(s)
    /\ sessions' = [s \in Sids |->
            IF sessions[s] = None \/ Expired(s) THEN sessions[s]
            ELSE [sessions[s] EXCEPT !.age = @ + 1]]
    /\ UNCHANGED <<db, lock, stage, req, told, promise, purged, reports, adminOps>>

AdminOp == adminOps < MaxAdminOps /\ adminOps' = adminOps + 1

UpdatePolicy(u, pol) ==
    /\ AdminOp
    /\ policy[u] # None /\ policy[u] # pol
    /\ policy' = [policy EXCEPT ![u] = pol]
    /\ UNCHANGED <<items, rows, activity, sessions, lock, stage, req, told,
                   promise, purged, reports>>

\* The rows of the pairs in K are deleted.
Purge(K) ==
    /\ rows' = [k \in Keys |-> IF k \in K THEN None ELSE rows[k]]
    /\ promise' = [k \in Keys |-> IF k \in K THEN {} ELSE promise[k]]
    /\ purged' = purged \cup K

\* DELETE /api/admin/users/:id removes tokens, progress and activity;
\* DELETE /emby/Users/:id leaves the activity (keep).
DeleteUser(u, keep) ==
    /\ AdminOp
    /\ policy[u] # None
    /\ policy' = [policy EXCEPT ![u] = None]
    /\ Purge({u} \X Items)
    /\ activity' = IF keep THEN activity ELSE activity \ ({u} \X Items)
    /\ UNCHANGED <<items, sessions, lock, stage, req, told, reports>>

DeleteItem(i) ==
    /\ AdminOp
    /\ i \in items
    /\ items' = items \ {i}
    /\ Purge(Users \X {i})
    /\ activity' = activity \ (Users \X {i})
    /\ UNCHANGED <<policy, sessions, lock, stage, req, told, reports>>

\* The process dies and restarts: the database is what was committed, the
\* session table and the handlers are gone, clients start from an empty list.
\* A committed report that was not yet acknowledged may be found in the row.
Crash ==
    /\ AdminOp
    /\ sessions' = [s \in Sids |-> None]
    /\ lock' = None
    /\ stage' = [r \in Requests |-> "idle"]
    /\ req' = [r \in Requests |-> None]
    /\ told' = [u \in Users |-> {}]
    /\ promise' = [k \in Keys |->
            IF promise[k] = {} THEN {}
            ELSE promise[k] \cup
                 {req[r].pos : r \in {q \in Requests :
                                        stage[q] = "persisted" /\ Key(q) = k}}]
    /\ UNCHANGED <<db, purged, reports>>

-----------------------------------------------------------------------------
Handle(r) == CheckItem(r) \/ Enter(r) \/ Persist(r) \/ PersistFails(r) \/ Finish(r)

Admin ==
    \/ \E s \in Sids : StopSession(s)
    \/ \E u \in Users, pol \in Policies : UpdatePolicy(u, pol)
    \/ \E u \in Users, keep \in BOOLEAN : DeleteUser(u, keep)
    \/ \E i \in Items : DeleteItem(i)

Next ==
    \/ \E r \in Requests, p \in Report : Begin(r, p)
    \/ \E r \in Requests : Handle(r)
    \/ Admin
    \/ Age
    \/ Crash

Spec == Init /\ [][Next]_vars

-----------------------------------------------------------------------------
TypeOK ==
    /\ policy \in [Users -> Policies \cup {None}]
    /\ items \subseteq Items
    /\ rows \in [Keys -> Row \cup {None}]
    /\ activity \subseteq Keys
    /\ sessions \in [Sids -> Session \cup {None}]
    /\ lock \in Requests \cup {None}
    /\ stage \in [Requests -> {"idle", "user_read", "checked", "admitted", "persisted"}]
    /\ req \in [Requests -> Report \cup {None}]
    /\ \A r \in Requests : stage[r] # "idle" => req[r] \in Report
    /\ told \in [Users -> SUBSET View]
    /\ promise \in [Keys -> SUBSET Positions]
    /\ purged \subseteq Keys
    /\ reports \in 0 .. MaxReports
    /\ adminOps \in 0 .. MaxAdminOps

(***************************************************************************)
(* Safety                                                                  *)
(***************************************************************************)

\* What recordPlayback acknowledged is in the database, whatever crashes
\* follow ("Acknowledge only after durable persistence; abrupt termination
\* cannot lose acknowledged HTTP progress"): the row holds the acknowledged
\* position, one committed just before a crash, or the one the report now
\* inside the locked section has committed.
AckedDurable ==
    \A k \in Keys : promise[k] # {} =>
        /\ rows[k] # None
        /\ \/ rows[k].pos \in promise[k]
           \/ \E r \in Requests : /\ stage[r] = "persisted"
                                  /\ Key(r) = k
                                  /\ rows[k].pos = req[r].pos

\* A session in memory always has its progress row: a report whose
\* transaction failed leaves no session behind.  Only an administrator's
\* deletion separates the two.
SessionBacked ==
    \A s \in Sids : sessions[s] # None =>
        LET k == <<sessions[s].user, sessions[s].item>> IN
        rows[k] # None \/ k \in purged

\* However often Stopped is repeated for a finished item (clients retry it),
\* the viewing is counted once.
CountedOnce ==
    \A k \in Keys : rows[k] # None =>
        rows[k].count = IF rows[k].played THEN 1 ELSE 0

\* A client that follows the Sessions broadcasts never misses a live session
\* of its user: it may still list one that was evicted or stopped by an
\* administrator, but each current one is listed with its current item and
\* position, because the broadcast is made before the lock is released.
ToldComplete == \A u \in Users : SessionsOf(sessions, u) \subseteq told[u]

\* A session id never passes from one user to another while the session is
\* in the table, even when two users send the same PlaySessionId at once.
OwnerStable ==
    [][\A s \in Sids : sessions[s] # None /\ sessions'[s] # None
            => sessions'[s].user = sessions[s].user]_vars

\* A session that has reported within the window leaves the table only by an
\* administrator's stop, a restart, or its own user's Stopped report: never
\* because somebody else's report swept the table.
NoLiveSessionSwept ==
    [][\A s \in Sids :
        sessions[s] # None /\ sessions'[s] = None /\ sessions[s].age <= Window
        => \/ StopSession(s)
           \/ Crash
           \/ \E r \in Requests : /\ Finish(r)
                                  /\ req[r].stopped /\ req[r].sid = s
                                  /\ req[r].user = sessions[s].user]_vars

\* Whatever reports race, the user of an accepted one has no more sessions
\* than the limit the request read.
StreamLimitHeld ==
    [][\A r \in Requests :
        Finish(r) /\ ~req[r].stopped /\ req[r].policy.max > 0
        => Cardinality(OwnedIn(sessions', req[r].user)) <= req[r].policy.max]_vars
=============================================================================
