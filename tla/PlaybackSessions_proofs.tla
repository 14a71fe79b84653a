----------------------- MODULE PlaybackSessions_proofs -----------------------
(***************************************************************************)
(* The invariants and action properties of PlaybackSessions, proved for    *)
(* any users, items, session ids, handlers, policies and bounds.           *)
(***************************************************************************)
EXTENDS PlaybackSessions, FiniteSetTheorems, TLAPS

(***************************************************************************)
(* Facts about the helpers                                                 *)
(***************************************************************************)

\* None is not a row, a session, a report or a handler.
LEMMA NoneIsNothing ==
    None \notin Row /\ None \notin Session /\ None \notin Report /\ None \notin Requests
BY ConstantsAssumption

\* The transaction of a report produces a row with the reported position.
LEMMA WrittenRow ==
    ASSUME NEW row \in Row \cup {None}, NEW p \in Report
    PROVE  Written(row, p) \in Row /\ Written(row, p).pos = p.pos
<1>1. Upserted(row, p.pos) \in Row /\ Upserted(row, p.pos).pos = p.pos
    BY DEF Upserted, Row, Report
<1>2. ASSUME NEW w \in Row
      PROVE  CountedPlay(w) \in Row /\ CountedPlay(w).pos = w.pos
    BY DEF CountedPlay, Row
<1> QED BY <1>1, <1>2 DEF Written

LEMMA UnexpiredTable ==
    ASSUME sessions \in [Sids -> Session \cup {None}]
    PROVE  Unexpired \in [Sids -> Session \cup {None}]
BY DEF Unexpired

LEMMA RecordedTable ==
    ASSUME NEW table \in [Sids -> Session \cup {None}], NEW p \in Report
    PROVE  Recorded(table, p) \in [Sids -> Session \cup {None}]
BY ConstantsAssumption DEF Recorded, Session, Report

LEMMA SessionsOfTable ==
    ASSUME NEW table \in [Sids -> Session \cup {None}], NEW u
    PROVE  SessionsOf(table, u) \subseteq View
BY DEF SessionsOf, OwnedIn, View, Session

(***************************************************************************)
(* Type correctness                                                        *)
(***************************************************************************)

LEMMA InitTypeOK == Init => TypeOK
BY ConstantsAssumption DEF Init, TypeOK, Keys

LEMMA NextTypeOK == TypeOK /\ [Next]_vars => TypeOK'
<1> SUFFICES ASSUME TypeOK, [Next]_vars PROVE TypeOK'
    OBVIOUS
<1>1. ASSUME NEW r \in Requests, NEW p \in Report, Begin(r, p) PROVE TypeOK'
    BY <1>1, ConstantsAssumption DEF Begin, TypeOK, db
<1>2. ASSUME NEW r \in Requests, CheckItem(r) PROVE TypeOK'
    BY <1>2 DEF CheckItem, Answer, TypeOK, db
<1>3. ASSUME NEW r \in Requests, Enter(r) PROVE TypeOK'
    BY <1>3, UnexpiredTable DEF Enter, Answer, TypeOK, db
<1>4. ASSUME NEW r \in Requests, Persist(r) PROVE TypeOK'
  <2>1. Key(r) \in Keys /\ req[r] \in Report
    BY <1>4 DEF Persist, TypeOK, Key, Keys, Report
  <2>2. rows' \in [Keys -> Row \cup {None}]
    BY <1>4, <2>1, WrittenRow DEF Persist, TypeOK
  <2> QED BY <1>4, <2>1, <2>2 DEF Persist, TypeOK
<1>5. ASSUME NEW r \in Requests, PersistFails(r) PROVE TypeOK'
    BY <1>5 DEF PersistFails, Answer, TypeOK, db
<1>6. ASSUME NEW r \in Requests, Finish(r) PROVE TypeOK'
  <2>1. req[r] \in Report /\ req[r].user \in Users /\ req[r].pos \in Positions
    BY <1>6 DEF Finish, TypeOK, Report
  <2>2. Recorded(sessions, req[r]) \in [Sids -> Session \cup {None}]
    BY <2>1, RecordedTable DEF TypeOK
  <2>3. Announced(sessions, req[r]) \subseteq View
    BY <2>2, SessionsOfTable DEF Announced
  <2>4. told' \in [Users -> SUBSET View]
    BY <1>6, <2>1, <2>3 DEF Finish, TypeOK
  <2>5. promise' \in [Keys -> SUBSET Positions]
    BY <1>6, <2>1 DEF Finish, TypeOK
  <2> QED BY <1>6, <2>2, <2>4, <2>5 DEF Finish, Answer, TypeOK, db
<1>7. ASSUME NEW s \in Sids, StopSession(s) PROVE TypeOK'
    BY <1>7 DEF StopSession, TypeOK, db
<1>8. ASSUME Age PROVE TypeOK'
  <2>1. sessions' \in [Sids -> Session \cup {None}]
    BY <1>8, ConstantsAssumption DEF Age, Expired, TypeOK, Session
  <2> QED BY <1>8, <2>1 DEF Age, TypeOK, db
<1>9. ASSUME NEW u \in Users, NEW pol \in Policies, UpdatePolicy(u, pol) PROVE TypeOK'
    BY <1>9, ConstantsAssumption DEF UpdatePolicy, AdminOp, TypeOK
<1>10. ASSUME NEW u \in Users, NEW keep \in BOOLEAN, DeleteUser(u, keep) PROVE TypeOK'
    BY <1>10, ConstantsAssumption DEF DeleteUser, Purge, AdminOp, TypeOK, Keys
<1>11. ASSUME NEW i \in Items, DeleteItem(i) PROVE TypeOK'
    BY <1>11, ConstantsAssumption DEF DeleteItem, Purge, AdminOp, TypeOK, Keys
<1>12. ASSUME Crash PROVE TypeOK'
  <2>1. promise' \in [Keys -> SUBSET Positions]
    BY <1>12 DEF Crash, TypeOK, Report
  <2> QED BY <1>12, <2>1, ConstantsAssumption DEF Crash, AdminOp, TypeOK, db
<1>13. CASE UNCHANGED vars
    BY <1>13 DEF vars, TypeOK
<1> QED
    BY <1>1, <1>2, <1>3, <1>4, <1>5, <1>6, <1>7, <1>8, <1>9, <1>10, <1>11, <1>12, <1>13
    DEF Next, Handle, Admin

\* Every variable keeps its type: a session id maps to at most one session,
\* a handler past its first read holds a report.
THEOREM TypeCorrect == Spec => []TypeOK
BY InitTypeOK, NextTypeOK, PTL DEF Spec

(***************************************************************************)
(* The locked section                                                      *)
(***************************************************************************)

\* Exactly the handler that holds activeSessionsMu is past the checks.
LockHeld ==
    \A r \in Requests : lock = r <=> stage[r] \in {"admitted", "persisted"}

LEMMA InitLockHeld == Init => LockHeld
BY ConstantsAssumption DEF Init, LockHeld

LEMMA NextLockHeld == TypeOK /\ LockHeld /\ [Next]_vars => LockHeld'
<1> SUFFICES ASSUME TypeOK, LockHeld, [Next]_vars PROVE LockHeld'
    OBVIOUS
<1> USE DEF TypeOK, LockHeld
<1>1. ASSUME NEW r \in Requests, NEW p \in Report, Begin(r, p) PROVE LockHeld'
    BY <1>1 DEF Begin
<1>2. ASSUME NEW r \in Requests, CheckItem(r) PROVE LockHeld'
    BY <1>2 DEF CheckItem, Answer
<1>3. ASSUME NEW r \in Requests, Enter(r) PROVE LockHeld'
    BY <1>3, NoneIsNothing DEF Enter, Answer
<1>4. ASSUME NEW r \in Requests, Persist(r) PROVE LockHeld'
    BY <1>4 DEF Persist
<1>5. ASSUME NEW r \in Requests, PersistFails(r) PROVE LockHeld'
    BY <1>5, NoneIsNothing DEF PersistFails, Answer
<1>6. ASSUME NEW r \in Requests, Finish(r) PROVE LockHeld'
    BY <1>6, NoneIsNothing DEF Finish, Answer
<1>7. ASSUME NEW s \in Sids, StopSession(s) PROVE LockHeld'
    BY <1>7 DEF StopSession
<1>8. ASSUME Age PROVE LockHeld'
    BY <1>8 DEF Age
<1>9. ASSUME NEW u \in Users, NEW pol \in Policies, UpdatePolicy(u, pol) PROVE LockHeld'
    BY <1>9 DEF UpdatePolicy
<1>10. ASSUME NEW u \in Users, NEW keep \in BOOLEAN, DeleteUser(u, keep) PROVE LockHeld'
    BY <1>10 DEF DeleteUser
<1>11. ASSUME NEW i \in Items, DeleteItem(i) PROVE LockHeld'
    BY <1>11 DEF DeleteItem
<1>12. ASSUME Crash PROVE LockHeld'
    BY <1>12, NoneIsNothing DEF Crash
<1>13. CASE UNCHANGED vars
    BY <1>13 DEF vars
<1> QED
    BY <1>1, <1>2, <1>3, <1>4, <1>5, <1>6, <1>7, <1>8, <1>9, <1>10, <1>11, <1>12, <1>13
    DEF Next, Handle, Admin

\* While a handler is between its checks and its answer, what it checked
\* still holds: nobody else changes the session table.
Admitted ==
    \A r \in Requests : stage[r] \in {"admitted", "persisted"} =>
        ~Conflict(sessions, req[r]) /\ ~OverLimit(sessions, req[r])

LEMMA NextAdmitted == TypeOK /\ LockHeld /\ Admitted /\ [Next]_vars => Admitted'
<1> SUFFICES ASSUME TypeOK, LockHeld, Admitted, [Next]_vars,
                    NEW q \in Requests, stage'[q] \in {"admitted", "persisted"}
             PROVE  ~Conflict(sessions', req'[q]) /\ ~OverLimit(sessions', req'[q])
    BY DEF Admitted
<1> DEFINE Goal == ~Conflict(sessions', req'[q]) /\ ~OverLimit(sessions', req'[q])
\* Every step but Enter leaves q's report and, while q is inside, the table.
<1>a. ASSUME sessions' = sessions, req'[q] = req[q],
             stage[q] \in {"admitted", "persisted"}
      PROVE  Goal
    BY <1>a DEF Admitted
<1>b. lock = None => stage[q] \notin {"admitted", "persisted"}
    BY NoneIsNothing DEF LockHeld
<1>1. ASSUME NEW r \in Requests, NEW p \in Report, Begin(r, p) PROVE Goal
    BY <1>1, <1>a DEF Begin, TypeOK
<1>2. ASSUME NEW r \in Requests, CheckItem(r) PROVE Goal
    BY <1>2, <1>a DEF CheckItem, Answer, TypeOK
<1>3. ASSUME NEW r \in Requests, Enter(r) PROVE Goal
  <2>1. q = r
    BY <1>3, <1>b DEF Enter, Answer, TypeOK
  <2>2. sessions' = Unexpired /\ req' = req
    BY <1>3, <2>1 DEF Enter, Answer, TypeOK
  <2>3. ~Conflict(Unexpired, req[r]) /\ ~OverLimit(Unexpired, req[r])
    BY <1>3, <2>1 DEF Enter, Answer, TypeOK
  <2> QED BY <2>1, <2>2, <2>3
<1>4. ASSUME NEW r \in Requests, Persist(r) PROVE Goal
    BY <1>4, <1>a DEF Persist, TypeOK
<1>5. ASSUME NEW r \in Requests, PersistFails(r) PROVE Goal
    BY <1>5, <1>a DEF PersistFails, Answer, TypeOK
<1>6. ASSUME NEW r \in Requests, Finish(r) PROVE Goal
    BY <1>6 DEF Finish, Answer, TypeOK, LockHeld
<1>7. ASSUME NEW s \in Sids, StopSession(s) PROVE Goal
    BY <1>7, <1>b DEF StopSession
<1>8. ASSUME Age PROVE Goal
    BY <1>8, <1>b DEF Age
<1>9. ASSUME NEW u \in Users, NEW pol \in Policies, UpdatePolicy(u, pol) PROVE Goal
    BY <1>9, <1>a DEF UpdatePolicy
<1>10. ASSUME NEW u \in Users, NEW keep \in BOOLEAN, DeleteUser(u, keep) PROVE Goal
    BY <1>10, <1>a DEF DeleteUser
<1>11. ASSUME NEW i \in Items, DeleteItem(i) PROVE Goal
    BY <1>11, <1>a DEF DeleteItem
<1>12. ASSUME Crash PROVE Goal
    BY <1>12 DEF Crash
<1>13. CASE UNCHANGED vars
    BY <1>13, <1>a DEF vars
<1> QED
    BY <1>1, <1>2, <1>3, <1>4, <1>5, <1>6, <1>7, <1>8, <1>9, <1>10, <1>11, <1>12, <1>13
    DEF Next, Handle, Admin

\* The lock's holder and what it may rely on, as one invariant.
Inside == TypeOK /\ LockHeld /\ Admitted

THEOREM InsideInvariant == Spec => []Inside
<1>1. Init => Inside
    BY InitTypeOK, InitLockHeld DEF Inside, Init, Admitted
<1>2. Inside /\ [Next]_vars => Inside'
    BY NextTypeOK, NextLockHeld, NextAdmitted DEF Inside
<1> QED BY <1>1, <1>2, PTL DEF Spec

(***************************************************************************)
(* Action properties                                                       *)
(***************************************************************************)

\* An accepted report finds the session id free or its own.
LEMMA FinishKeepsOwner ==
    ASSUME Inside, NEW r \in Requests, Finish(r), NEW s \in Sids,
           sessions[s] # None, sessions'[s] # None
    PROVE  sessions'[s].user = sessions[s].user
<1>1. req[r] \in Report /\ ~Conflict(sessions, req[r])
    BY DEF Inside, TypeOK, Admitted, Finish
<1>2. sessions' = Recorded(sessions, req[r])
    BY DEF Finish
<1>3. CASE s = req[r].sid
    BY <1>1, <1>2, <1>3 DEF Recorded, Conflict, Inside, TypeOK
<1>4. CASE s # req[r].sid
    BY <1>2, <1>4 DEF Recorded, Inside, TypeOK
<1> QED BY <1>3, <1>4

LEMMA StepKeepsOwner ==
    ASSUME Inside, [Next]_vars, NEW s \in Sids, sessions[s] # None, sessions'[s] # None
    PROVE  sessions'[s].user = sessions[s].user
<1>1. ASSUME NEW r \in Requests, Handle(r) PROVE sessions'[s].user = sessions[s].user
    BY <1>1, FinishKeepsOwner
    DEF Handle, CheckItem, Enter, Persist, PersistFails, Unexpired
<1>2. CASE Admin
    BY <1>2 DEF Admin, StopSession, UpdatePolicy, DeleteUser, DeleteItem, Inside, TypeOK
<1>3. CASE Age
    BY <1>3 DEF Age, Inside, TypeOK, Session
<1>4. CASE Crash
    BY <1>4 DEF Crash
<1>5. CASE UNCHANGED vars
    BY <1>5 DEF vars
<1>6. ASSUME NEW r \in Requests, NEW p \in Report, Begin(r, p)
      PROVE  sessions'[s].user = sessions[s].user
    BY <1>6 DEF Begin
<1> QED BY <1>1, <1>2, <1>3, <1>4, <1>5, <1>6 DEF Next

\* Whatever reports race for a session id, it never passes from one user to
\* another while it is in the table.
THEOREM OwnerNeverChanges == Spec => OwnerStable
<1>1. Inside /\ [Next]_vars =>
        [\A s \in Sids : sessions[s] # None /\ sessions'[s] # None
            => sessions'[s].user = sessions[s].user]_vars
    BY StepKeepsOwner
<1> QED BY <1>1, InsideInvariant, PTL DEF Spec, OwnerStable

\* The other sessions of a user, one more, stay within the limit.
LEMMA OneMoreSession ==
    ASSUME Inside, NEW p \in Report, ~p.stopped, p.policy.max > 0,
           ~OverLimit(sessions, p)
    PROVE  Cardinality(OwnedIn(Recorded(sessions, p), p.user)) <= p.policy.max
<1> DEFINE Others == OwnedIn(sessions, p.user) \ {p.sid}
<1>1. IsFiniteSet(Others) /\ Cardinality(Others) \in Nat
  <2>1. Others \subseteq Sids
    BY DEF OwnedIn
  <2> QED BY <2>1, ConstantsAssumption, FS_Subset, FS_CardinalityType
<1>2. p.policy.max \in Nat /\ Cardinality(Others) < p.policy.max
  <2>1. p.policy.max \in Nat
    BY ConstantsAssumption DEF Report, Policy
  <2>2. ~(Cardinality(Others) >= p.policy.max)
    BY DEF OverLimit
  <2> QED BY <1>1, <2>1, <2>2
<1>3. OwnedIn(Recorded(sessions, p), p.user) \subseteq Others \cup {p.sid}
    BY DEF OwnedIn, Recorded, Inside, TypeOK
<1>4. /\ IsFiniteSet(Others \cup {p.sid})
      /\ Cardinality(Others \cup {p.sid}) = Cardinality(Others) + 1
  <2>1. p.sid \notin Others
    OBVIOUS
  <2> QED BY <1>1, <2>1, FS_AddElement
<1>5. /\ Cardinality(OwnedIn(Recorded(sessions, p), p.user))
            <= Cardinality(Others \cup {p.sid})
      /\ Cardinality(OwnedIn(Recorded(sessions, p), p.user)) \in Nat
    BY <1>3, <1>4, FS_Subset, FS_CardinalityType
<1> HIDE DEF Others
<1> QED BY <1>1, <1>2, <1>4, <1>5

\* Whatever reports race, an accepted one leaves its user within the limit
\* it was checked against.
THEOREM LimitHeld == Spec => StreamLimitHeld
<1>1. Inside /\ [Next]_vars =>
        [\A r \in Requests :
            Finish(r) /\ ~req[r].stopped /\ req[r].policy.max > 0
            => Cardinality(OwnedIn(sessions', req[r].user)) <= req[r].policy.max]_vars
  <2> SUFFICES ASSUME Inside, NEW r \in Requests, Finish(r),
                      ~req[r].stopped, req[r].policy.max > 0
               PROVE  Cardinality(OwnedIn(sessions', req[r].user)) <= req[r].policy.max
    OBVIOUS
  <2>1. req[r] \in Report /\ ~OverLimit(sessions, req[r])
    BY DEF Inside, TypeOK, Admitted, Finish
  <2>2. sessions' = Recorded(sessions, req[r])
    BY DEF Finish
  <2> QED BY <2>1, <2>2, OneMoreSession
<1> QED BY <1>1, InsideInvariant, PTL DEF Spec, StreamLimitHeld

\* A session within its window disappears only by an administrator's stop, a
\* restart or its own user's Stopped report.
THEOREM LiveSessionsStay == Spec => NoLiveSessionSwept
<1> DEFINE Justified(s) ==
        \/ StopSession(s)
        \/ Crash
        \/ \E r \in Requests : /\ Finish(r)
                               /\ req[r].stopped /\ req[r].sid = s
                               /\ req[r].user = sessions[s].user
<1>1. Inside /\ [Next]_vars =>
        [\A s \in Sids :
            sessions[s] # None /\ sessions'[s] = None /\ sessions[s].age <= Window
            => Justified(s)]_vars
  <2> SUFFICES ASSUME Inside, Next, NEW s \in Sids, sessions[s] # None,
                      sessions'[s] = None, sessions[s].age <= Window
               PROVE  Justified(s)
    OBVIOUS
  <2>1. sessions[s].age \in Nat /\ Window \in Nat
    BY ConstantsAssumption DEF Inside, TypeOK, Session
  <2>2. ASSUME NEW r \in Requests, Enter(r) PROVE FALSE
    BY <2>1, <2>2 DEF Enter, Unexpired, Expired
  <2>3. ASSUME NEW r \in Requests, Finish(r) PROVE Justified(s)
    <3>1. req[r] \in Report /\ ~Conflict(sessions, req[r])
      BY <2>3 DEF Inside, TypeOK, Admitted, Finish
    <3>2. req[r].sid = s
      BY <2>3 DEF Finish, Recorded, Inside, TypeOK
    <3>3. req[r].stopped
      BY <2>3, <3>1, <3>2, NoneIsNothing, ConstantsAssumption
      DEF Finish, Recorded, Inside, TypeOK, Session, Report
    <3>4. req[r].user = sessions[s].user
      BY <3>1, <3>2 DEF Conflict
    <3> QED BY <2>3, <3>2, <3>3, <3>4
  <2>4. ASSUME NEW t \in Sids, StopSession(t) PROVE Justified(s)
    BY <2>4 DEF StopSession, Inside, TypeOK
  <2>5. CASE Age
    <3>1. sessions[s] \in Session /\ ~Expired(s)
      BY <2>1 DEF Inside, TypeOK, Expired
    <3>2. sessions'[s] = [sessions[s] EXCEPT !.age = @ + 1]
      BY <2>5, <3>1, NoneIsNothing DEF Age
    <3>3. sessions'[s] \in Session
      BY <2>1, <3>1, <3>2 DEF Session
    <3> QED BY <3>3, NoneIsNothing
  <2>6. CASE sessions' = sessions
    BY <2>6
  <2> HIDE DEF Justified
  <2>7. CASE Crash
    BY <2>7 DEF Justified
  <2> QED
    BY <2>2, <2>3, <2>4, <2>5, <2>6, <2>7
    DEF Next, Handle, Admin, Begin, CheckItem, Persist, PersistFails, UpdatePolicy,
        DeleteUser, DeleteItem
<1> QED BY <1>1, InsideInvariant, PTL DEF Spec, NoLiveSessionSwept

(***************************************************************************)
(* The database behind the acknowledgements                                *)
(***************************************************************************)

\* While a handler waits for its answer, the row holds what its transaction
\* has written, unless an administrator has deleted it.
Committed ==
    \A r \in Requests : stage[r] = "persisted" =>
        \/ rows[Key(r)] # None /\ rows[Key(r)].pos = req[r].pos
        \/ rows[Key(r)] = None /\ Key(r) \in purged

Durable == Inside /\ Committed /\ AckedDurable /\ SessionBacked

LEMMA KeyInKeys ==
    ASSUME TypeOK, NEW r \in Requests, stage[r] # "idle"
    PROVE  req[r] \in Report /\ Key(r) \in Keys
BY DEF TypeOK, Key, Keys, Report

\* Two handlers are never both inside.
LEMMA OneInside ==
    ASSUME LockHeld, NEW q \in Requests, NEW r \in Requests,
           stage[q] \in {"admitted", "persisted"}, stage[r] \in {"admitted", "persisted"}
    PROVE  q = r
BY DEF LockHeld

LEMMA NextCommitted == Inside /\ Committed /\ [Next]_vars => Committed'
<1> SUFFICES ASSUME Inside, Committed, [Next]_vars,
                    NEW q \in Requests, stage'[q] = "persisted"
             PROVE  (\/ rows[Key(q)] # None /\ rows[Key(q)].pos = req[q].pos
                     \/ rows[Key(q)] = None /\ Key(q) \in purged)'
    BY DEF Committed
<1> DEFINE Goal == (\/ rows[Key(q)] # None /\ rows[Key(q)].pos = req[q].pos
                    \/ rows[Key(q)] = None /\ Key(q) \in purged)'
<1>a. ASSUME req'[q] = req[q], stage[q] = "persisted", rows' = rows, purged' = purged
      PROVE  Goal
    BY <1>a DEF Committed, Key
\* Rows that go are recorded in purged.
<1>b. ASSUME NEW K, req' = req, stage[q] = "persisted", Purge(K)
      PROVE  Goal
  <2>1. Key(q) \in Keys /\ Key(q)' = Key(q)
    BY <1>b, KeyInKeys DEF Inside, Key
  <2> QED BY <1>b, <2>1 DEF Purge, Committed
<1>1. ASSUME NEW r \in Requests, NEW p \in Report, Begin(r, p) PROVE Goal
    BY <1>1, <1>a DEF Begin, Inside, TypeOK, db
<1>2. ASSUME NEW r \in Requests, CheckItem(r) PROVE Goal
    BY <1>2, <1>a DEF CheckItem, Answer, Inside, TypeOK, db
<1>3. ASSUME NEW r \in Requests, Enter(r) PROVE Goal
    BY <1>3, <1>a DEF Enter, Answer, Inside, TypeOK, db
<1>4. ASSUME NEW r \in Requests, Persist(r) PROVE Goal
  <2>1. q = r
    BY <1>4, OneInside DEF Persist, Inside, TypeOK
  <2>2. Key(r) \in Keys /\ req[r] \in Report /\ Key(r)' = Key(r) /\ req' = req
    BY <1>4, KeyInKeys DEF Persist, Inside, TypeOK, Key
  <2>3. rows'[Key(r)] = Written(rows[Key(r)], req[r]) /\ rows[Key(r)] \in Row \cup {None}
    BY <1>4, <2>2 DEF Persist, Inside, TypeOK
  <2> QED BY <2>1, <2>2, <2>3, WrittenRow, NoneIsNothing
<1>5. ASSUME NEW r \in Requests, PersistFails(r) PROVE Goal
    BY <1>5, <1>a DEF PersistFails, Answer, Inside, TypeOK, db
<1>6. ASSUME NEW r \in Requests, Finish(r) PROVE Goal
    BY <1>6, <1>a DEF Finish, Answer, Inside, TypeOK, db
<1>7. ASSUME NEW s \in Sids, StopSession(s) PROVE Goal
    BY <1>7, <1>a DEF StopSession, db
<1>8. ASSUME Age PROVE Goal
    BY <1>8, <1>a DEF Age, db
<1>9. ASSUME NEW u \in Users, NEW pol \in Policies, UpdatePolicy(u, pol) PROVE Goal
    BY <1>9, <1>a DEF UpdatePolicy
<1>10. ASSUME NEW u \in Users, NEW keep \in BOOLEAN, DeleteUser(u, keep) PROVE Goal
    BY <1>10, <1>b DEF DeleteUser
<1>11. ASSUME NEW i \in Items, DeleteItem(i) PROVE Goal
    BY <1>11, <1>b DEF DeleteItem
<1>12. ASSUME Crash PROVE Goal
    BY <1>12 DEF Crash
<1>13. CASE UNCHANGED vars
    BY <1>13, <1>a DEF vars
<1> QED
    BY <1>1, <1>2, <1>3, <1>4, <1>5, <1>6, <1>7, <1>8, <1>9, <1>10, <1>11, <1>12, <1>13
    DEF Next, Handle, Admin

\* AckedDurable for one pair.
Kept(k) ==
    promise[k] # {} =>
        /\ rows[k] # None
        /\ \/ rows[k].pos \in promise[k]
           \/ \E r \in Requests : /\ stage[r] = "persisted"
                                  /\ Key(r) = k
                                  /\ rows[k].pos = req[r].pos

LEMMA NextAckedDurable ==
    Inside /\ Committed /\ AckedDurable /\ [Next]_vars => AckedDurable'
<1> SUFFICES ASSUME Inside, Committed, AckedDurable, [Next]_vars, NEW k \in Keys
             PROVE  Kept(k)'
    BY DEF AckedDurable, Kept, Key
<1>0. Kept(k)
    BY DEF AckedDurable, Kept
<1> USE DEF Kept, Key
\* A step that keeps the row, the promise and every committed report.
<1>a. ASSUME rows' = rows, promise' = promise,
             \A r \in Requests : stage[r] = "persisted" =>
                stage'[r] = "persisted" /\ req'[r] = req[r]
      PROVE  Kept(k)'
    BY <1>a, <1>0
<1>b. ASSUME NEW K, Purge(K), stage' = stage, req' = req
      PROVE  Kept(k)'
  <2>1. CASE k \in K
    BY <1>b, <2>1 DEF Purge
  <2>2. CASE k \notin K
    BY <1>b, <2>2, <1>0 DEF Purge
  <2> QED BY <2>1, <2>2
<1>1. ASSUME NEW r \in Requests, NEW p \in Report, Begin(r, p) PROVE Kept(k)'
    BY <1>1, <1>a DEF Begin, Inside, TypeOK, db
<1>2. ASSUME NEW r \in Requests, CheckItem(r) PROVE Kept(k)'
    BY <1>2, <1>a DEF CheckItem, Answer, Inside, TypeOK, db
<1>3. ASSUME NEW r \in Requests, Enter(r) PROVE Kept(k)'
    BY <1>3, <1>a DEF Enter, Answer, Inside, TypeOK, db
<1>4. ASSUME NEW r \in Requests, Persist(r) PROVE Kept(k)'
  <2>1. Key(r) \in Keys /\ req[r] \in Report
    BY <1>4, KeyInKeys DEF Persist, Inside, TypeOK
  <2>2. req' = req /\ promise' = promise /\ stage' = [stage EXCEPT ![r] = "persisted"]
    BY <1>4 DEF Persist
  <2>3. CASE k = Key(r)
    <3>1. rows'[k] = Written(rows[k], req[r]) /\ rows[k] \in Row \cup {None}
      BY <1>4, <2>1, <2>3 DEF Persist, Inside, TypeOK
    <3>2. rows'[k] # None /\ rows'[k].pos = req[r].pos
      BY <3>1, <2>1, WrittenRow, NoneIsNothing
    <3>3. stage'[r] = "persisted"
      BY <2>2 DEF Inside, TypeOK
    <3> QED BY <2>2, <2>3, <3>2, <3>3
  <2>4. CASE k # Key(r)
    <3>1. rows'[k] = rows[k]
      BY <1>4, <2>4 DEF Persist, Inside, TypeOK
    <3>2. \A q \in Requests : stage[q] = "persisted" => stage'[q] = "persisted"
      BY <2>2 DEF Inside, TypeOK
    <3> QED BY <1>0, <2>2, <3>1, <3>2
  <2> QED BY <2>3, <2>4
<1>5. ASSUME NEW r \in Requests, PersistFails(r) PROVE Kept(k)'
    BY <1>5, <1>a DEF PersistFails, Answer, Inside, TypeOK, db
<1>6. ASSUME NEW r \in Requests, Finish(r) PROVE Kept(k)'
  <2>1. rows' = rows /\ stage[r] = "persisted"
    BY <1>6 DEF Finish, db
  <2>2. CASE k = Key(r)
    <3>1. promise'[k] = IF rows[k] = None /\ k \in purged THEN {} ELSE {req[r].pos}
      BY <1>6, <2>2 DEF Finish, Inside, TypeOK
    <3> QED BY <2>1, <2>2, <3>1 DEF Committed
  <2>3. CASE k # Key(r)
    <3>1. promise'[k] = promise[k]
      BY <1>6, <2>3 DEF Finish, Inside, TypeOK
    <3>2. \A q \in Requests : ~(stage[q] = "persisted" /\ Key(q) = k)
      BY <2>1, <2>3, OneInside DEF Inside
    <3> QED BY <1>0, <2>1, <3>1, <3>2
  <2> QED BY <2>2, <2>3
<1>7. ASSUME NEW s \in Sids, StopSession(s) PROVE Kept(k)'
    BY <1>7, <1>a DEF StopSession, db
<1>8. ASSUME Age PROVE Kept(k)'
    BY <1>8, <1>a DEF Age, db
<1>9. ASSUME NEW u \in Users, NEW pol \in Policies, UpdatePolicy(u, pol) PROVE Kept(k)'
    BY <1>9, <1>a DEF UpdatePolicy
<1>10. ASSUME NEW u \in Users, NEW keep \in BOOLEAN, DeleteUser(u, keep) PROVE Kept(k)'
    BY <1>10, <1>b DEF DeleteUser
<1>11. ASSUME NEW i \in Items, DeleteItem(i) PROVE Kept(k)'
    BY <1>11, <1>b DEF DeleteItem
<1>12. ASSUME Crash PROVE Kept(k)'
  <2>1. rows' = rows
    BY <1>12 DEF Crash, db
  <2>2. promise'[k] = IF promise[k] = {} THEN {}
                      ELSE promise[k] \cup
                           {req[r].pos : r \in {q \in Requests :
                                stage[q] = "persisted" /\ Key(q) = k}}
    BY <1>12 DEF Crash
  <2> QED BY <1>0, <2>1, <2>2
<1>13. CASE UNCHANGED vars
    BY <1>13, <1>a DEF vars
<1> QED
    BY <1>1, <1>2, <1>3, <1>4, <1>5, <1>6, <1>7, <1>8, <1>9, <1>10, <1>11, <1>12, <1>13
    DEF Next, Handle, Admin

\* A row is never taken away without being recorded as purged.
LEMMA RowsStay ==
    ASSUME Inside, [Next]_vars, NEW k \in Keys, rows[k] # None \/ k \in purged
    PROVE  rows'[k] # None \/ k \in purged'
<1>a. ASSUME NEW K, Purge(K) PROVE rows'[k] # None \/ k \in purged'
    BY <1>a DEF Purge
<1>1. ASSUME NEW r \in Requests, Persist(r) PROVE rows'[k] # None \/ k \in purged'
  <2>1. Key(r) \in Keys /\ req[r] \in Report
    BY <1>1, KeyInKeys DEF Persist, Inside, TypeOK
  <2>2. rows[k] \in Row \cup {None} /\ purged' = purged
    BY <1>1 DEF Persist, Inside, TypeOK
  <2>3. rows'[k] = IF k = Key(r) THEN Written(rows[k], req[r]) ELSE rows[k]
    BY <1>1, <2>1 DEF Persist, Inside, TypeOK
  <2>4. Written(rows[k], req[r]) # None
    BY <2>1, <2>2, WrittenRow, NoneIsNothing
  <2> QED BY <2>2, <2>3, <2>4
<1>2. CASE rows' = rows /\ purged' = purged
    BY <1>2
<1> QED
    BY <1>a, <1>1, <1>2
    DEF Next, Handle, Admin, Begin, CheckItem, Enter, PersistFails, Finish, StopSession,
        Age, UpdatePolicy, DeleteUser, DeleteItem, Crash, db, vars

\* A session is only ever started by the report whose row is committed.
LEMMA SessionsFrom ==
    ASSUME Inside, [Next]_vars, NEW s \in Sids, sessions'[s] # None
    PROVE  \/ /\ sessions[s] # None
              /\ sessions'[s].user = sessions[s].user
              /\ sessions'[s].item = sessions[s].item
           \/ \E r \in Requests :
                /\ stage[r] = "persisted"
                /\ sessions'[s].user = req[r].user /\ sessions'[s].item = req[r].item
<1> DEFINE Goal ==
        \/ /\ sessions[s] # None
           /\ sessions'[s].user = sessions[s].user
           /\ sessions'[s].item = sessions[s].item
        \/ \E r \in Requests :
             /\ stage[r] = "persisted"
             /\ sessions'[s].user = req[r].user /\ sessions'[s].item = req[r].item
<1>1. ASSUME NEW r \in Requests, Enter(r) PROVE Goal
    BY <1>1 DEF Enter, Unexpired
<1>2. ASSUME NEW r \in Requests, Finish(r) PROVE Goal
  <2>1. req[r] \in Report
    BY <1>2 DEF Finish, Inside, TypeOK
  <2>2. CASE s = req[r].sid
    BY <1>2, <2>1, <2>2 DEF Finish, Recorded, Inside, TypeOK
  <2>3. CASE s # req[r].sid
    BY <1>2, <2>3 DEF Finish, Recorded, Inside, TypeOK
  <2> QED BY <2>2, <2>3
<1>3. ASSUME NEW t \in Sids, StopSession(t) PROVE Goal
    BY <1>3 DEF StopSession, Inside, TypeOK
<1>4. CASE Age
  <2>1. CASE sessions[s] = None \/ Expired(s)
    BY <1>4, <2>1 DEF Age
  <2>2. CASE ~(sessions[s] = None \/ Expired(s))
    <3>1. sessions'[s] = [sessions[s] EXCEPT !.age = @ + 1]
      BY <1>4, <2>2 DEF Age
    <3>2. sessions[s] \in Session
      BY <2>2 DEF Inside, TypeOK
    <3> QED BY <2>2, <3>1, <3>2 DEF Session
  <2> QED BY <2>1, <2>2
<1>5. CASE Crash
    BY <1>5 DEF Crash
<1>6. CASE sessions' = sessions
    BY <1>6
<1> HIDE DEF Goal
<1> QED
    BY <1>1, <1>2, <1>3, <1>4, <1>5, <1>6
    DEF Next, Handle, Admin, Begin, CheckItem, Persist, PersistFails, UpdatePolicy,
        DeleteUser, DeleteItem, vars, Goal

LEMMA NextSessionBacked ==
    Inside /\ Committed /\ SessionBacked /\ [Next]_vars => SessionBacked'
<1> SUFFICES ASSUME Inside, Committed, SessionBacked, [Next]_vars,
                    NEW s \in Sids, sessions'[s] # None
             PROVE  LET k == <<sessions'[s].user, sessions'[s].item>> IN
                    rows'[k] # None \/ k \in purged'
    BY DEF SessionBacked
<1> DEFINE k == <<sessions'[s].user, sessions'[s].item>>
<1>1. k \in Keys
  <2>1. sessions'[s] \in Session
    BY NextTypeOK DEF Inside, TypeOK
  <2> QED BY <2>1 DEF Session, Keys
<1>2. rows[k] # None \/ k \in purged
    BY SessionsFrom DEF SessionBacked, Committed, Key
<1> HIDE DEF k
<1>3. rows'[k] # None \/ k \in purged'
    BY <1>1, <1>2, RowsStay
<1> QED BY <1>3 DEF k

THEOREM DurableInvariant == Spec => []Durable
<1>1. Init => Durable
    BY InitTypeOK, InitLockHeld
    DEF Durable, Inside, Committed, AckedDurable, SessionBacked, Init, Admitted
<1>2. Durable /\ [Next]_vars => Durable'
  <2>1. Inside /\ [Next]_vars => Inside'
    BY NextTypeOK, NextLockHeld, NextAdmitted DEF Inside
  <2> QED BY <2>1, NextCommitted, NextAckedDurable, NextSessionBacked DEF Durable
<1> QED BY <1>1, <1>2, PTL DEF Spec

\* What was acknowledged is in the database, whatever crashes follow.
THEOREM AcknowledgedIsDurable == Spec => []AckedDurable
<1>1. Durable => AckedDurable
    BY DEF Durable
<1> QED BY <1>1, DurableInvariant, PTL

\* A session in memory has its row in the database.
THEOREM SessionsAreBacked == Spec => []SessionBacked
<1>1. Durable => SessionBacked
    BY DEF Durable
<1> QED BY <1>1, DurableInvariant, PTL

(***************************************************************************)
(* Counting                                                                *)
(***************************************************************************)

CountFits(row) == row.count = IF row.played THEN 1 ELSE 0

\* A report's transaction counts a play with the flag, and only then.
LEMMA WrittenFits ==
    ASSUME NEW row \in Row \cup {None}, NEW p \in Report, row # None => CountFits(row)
    PROVE  CountFits(Written(row, p))
<1>1. Upserted(row, p.pos) \in Row /\ CountFits(Upserted(row, p.pos))
    BY NoneIsNothing DEF Upserted, CountFits, Row, Report
<1>2. ASSUME NEW w \in Row, CountFits(w) PROVE CountFits(CountedPlay(w))
    BY <1>2 DEF CountedPlay, CountFits, Row
<1> QED BY <1>1, <1>2 DEF Written

\* However often Stopped is repeated, a viewing is counted once.
THEOREM CountingInvariant == Spec => []CountedOnce
<1>1. Init => CountedOnce
    BY DEF Init, CountedOnce
<1>2. Inside /\ CountedOnce /\ [Next]_vars => CountedOnce'
  <2> SUFFICES ASSUME Inside, CountedOnce, [Next]_vars, NEW k \in Keys, rows'[k] # None
               PROVE  CountFits(rows'[k])
    BY DEF CountedOnce, CountFits
  <2>0. rows[k] # None => CountFits(rows[k])
    BY DEF CountedOnce, CountFits
  <2>1. ASSUME NEW r \in Requests, Persist(r) PROVE CountFits(rows'[k])
    <3>1. Key(r) \in Keys /\ req[r] \in Report
      BY <2>1, KeyInKeys DEF Persist, Inside, TypeOK
    <3>2. rows[k] \in Row \cup {None}
      BY DEF Inside, TypeOK
    <3>3. rows'[k] = IF k = Key(r) THEN Written(rows[k], req[r]) ELSE rows[k]
      BY <2>1, <3>1 DEF Persist, Inside, TypeOK
    <3> QED BY <2>0, <3>1, <3>2, <3>3, WrittenFits
  <2>2. ASSUME NEW K, Purge(K) PROVE CountFits(rows'[k])
    BY <2>0, <2>2 DEF Purge
  <2>3. CASE rows' = rows
    BY <2>0, <2>3
  <2> QED
    BY <2>1, <2>2, <2>3
    DEF Next, Handle, Admin, Begin, CheckItem, Enter, PersistFails, Finish, StopSession,
        Age, UpdatePolicy, DeleteUser, DeleteItem, Crash, db, vars
<1> QED BY <1>1, <1>2, InsideInvariant, PTL DEF Spec

(***************************************************************************)
(* Broadcasts                                                              *)
(***************************************************************************)

\* Removing or ageing sessions only shrinks what a user's list must show.
LEMMA FewerSessions ==
    ASSUME NEW old, NEW new, NEW u,
           \A s \in Sids : new[s] # None =>
                /\ old[s] # None
                /\ new[s].user = old[s].user
                /\ new[s].item = old[s].item
                /\ new[s].pos = old[s].pos
    PROVE  SessionsOf(new, u) \subseteq SessionsOf(old, u)
BY DEF SessionsOf, OwnedIn

\* A client that follows the broadcasts misses no live session of its user.
THEOREM ClientsAreTold == Spec => []ToldComplete
<1>1. Init => ToldComplete
    BY DEF Init, ToldComplete, SessionsOf, OwnedIn
<1>2. Inside /\ ToldComplete /\ [Next]_vars => ToldComplete'
  <2> SUFFICES ASSUME Inside, ToldComplete, [Next]_vars, NEW u \in Users
               PROVE  SessionsOf(sessions', u) \subseteq told'[u]
    BY DEF ToldComplete
  <2>0. SessionsOf(sessions, u) \subseteq told[u]
    BY DEF ToldComplete
  <2> DEFINE Goal == SessionsOf(sessions', u) \subseteq told'[u]
  <2>1. ASSUME NEW r \in Requests, Enter(r) PROVE Goal
    <3>1. SessionsOf(Unexpired, u) \subseteq SessionsOf(sessions, u)
      BY FewerSessions DEF Unexpired
    <3>2. sessions' = Unexpired /\ told' = told
      BY <2>1 DEF Enter
    <3> QED BY <2>0, <3>1, <3>2
  <2>2. ASSUME NEW r \in Requests, Finish(r) PROVE Goal
    <3>1. /\ req[r] \in Report
          /\ sessions' = Recorded(sessions, req[r])
          /\ told' = [told EXCEPT ![req[r].user] = Announced(sessions, req[r])]
      BY <2>2 DEF Finish, Inside, TypeOK
    <3>2. CASE u = req[r].user
      <4>1. told'[u] = SessionsOf(sessions', u)
        BY <3>1, <3>2 DEF Announced, Inside, TypeOK
      <4> QED BY <4>1
    <3>3. CASE u # req[r].user
      <4>1. told'[u] = told[u]
        BY <3>1, <3>3 DEF Inside, TypeOK
      <4>2. OwnedIn(sessions', u) \subseteq OwnedIn(sessions, u)
        BY <3>1, <3>3 DEF OwnedIn, Recorded, Inside, TypeOK, Report
      <4>3. \A s \in OwnedIn(sessions', u) : sessions'[s] = sessions[s]
        BY <3>1, <3>3 DEF OwnedIn, Recorded, Inside, TypeOK, Report
      <4>4. SessionsOf(sessions', u) \subseteq SessionsOf(sessions, u)
        BY <4>2, <4>3 DEF SessionsOf
      <4> QED BY <2>0, <4>1, <4>4
    <3> QED BY <3>2, <3>3
  <2>3. ASSUME NEW t \in Sids, StopSession(t) PROVE Goal
    <3>1. \A s \in Sids : sessions'[s] # None => sessions'[s] = sessions[s]
      BY <2>3 DEF StopSession, Inside, TypeOK
    <3>2. SessionsOf(sessions', u) \subseteq SessionsOf(sessions, u)
      BY <3>1, FewerSessions
    <3> QED BY <2>0, <2>3, <3>2 DEF StopSession
  <2>4. CASE Age
    <3>1. \A s \in Sids : sessions'[s] # None =>
                /\ sessions[s] # None
                /\ sessions'[s].user = sessions[s].user
                /\ sessions'[s].item = sessions[s].item
                /\ sessions'[s].pos = sessions[s].pos
      <4> SUFFICES ASSUME NEW s \in Sids, sessions'[s] # None
                   PROVE  /\ sessions[s] # None
                          /\ sessions'[s].user = sessions[s].user
                          /\ sessions'[s].item = sessions[s].item
                          /\ sessions'[s].pos = sessions[s].pos
        OBVIOUS
      <4>1. CASE sessions[s] = None \/ Expired(s)
        BY <2>4, <4>1 DEF Age
      <4>2. CASE ~(sessions[s] = None \/ Expired(s))
        <5>1. sessions'[s] = [sessions[s] EXCEPT !.age = @ + 1]
          BY <2>4, <4>2 DEF Age
        <5>2. sessions[s] \in Session
          BY <4>2 DEF Inside, TypeOK
        <5> QED BY <4>2, <5>1, <5>2 DEF Session
      <4> QED BY <4>1, <4>2
    <3>2. SessionsOf(sessions', u) \subseteq SessionsOf(sessions, u)
      BY <3>1, FewerSessions
    <3> QED BY <2>0, <2>4, <3>2 DEF Age
  <2>5. CASE Crash
    BY <2>5 DEF Crash, SessionsOf, OwnedIn
  <2>6. CASE sessions' = sessions /\ told' = told
    BY <2>0, <2>6
  <2> HIDE DEF Goal
  <2> QED
    BY <2>1, <2>2, <2>3, <2>4, <2>5, <2>6
    DEF Next, Handle, Admin, Begin, CheckItem, Persist, PersistFails, UpdatePolicy,
        DeleteUser, DeleteItem, vars, Goal
<1> QED BY <1>1, <1>2, InsideInvariant, PTL DEF Spec
=============================================================================
