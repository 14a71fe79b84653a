--------------------------- MODULE Accounts_proofs ---------------------------
(***************************************************************************)
(* The invariants of Accounts, proved for any passwords, requests, token   *)
(* values, thresholds and bounds.                                          *)
(***************************************************************************)
EXTENDS Accounts, FiniteSetTheorems, TLAPS

(***************************************************************************)
(* Type correctness                                                        *)
(***************************************************************************)

\* A request has its credentials until they are judged, and a token to go on
\* with from then; one that is idle has neither.
StageOK ==
    \A r \in Requests :
        /\ stage[r] = "idle" => kind[r] = None /\ pw[r] = None
        /\ stage[r] \in {"cache", "reread", "verify", "failed", "store"}
                => kind[r] \in Kinds /\ pw[r] \in Passwords
        /\ stage[r] \in {"accepted", "find", "generate"} => kind[r] \in Kinds
        /\ stage[r] \in {"check", "user", "admitted", "revoke"} => tok[r] \in Tokens

Typed == TypeOK /\ StageOK

\* Making room leaves less than the limit, and invents no entry.
LEMMA RoomMade ==
    ASSUME NEW c \in [Passwords -> {"none", "fresh", "stale"}]
    PROVE  /\ MakeRoom(c) \in [Passwords -> {"none", "fresh", "stale"}]
           /\ Cardinality(Keys(MakeRoom(c))) < MaxKeys
<1>1. ASSUME NEW ages PROVE Keep(c, ages) \in [Passwords -> {"none", "fresh", "stale"}]
    BY DEF Keep
<1>2. Keys(Keep(c, {})) = {}
    BY DEF Keys, Keep
<1>3. Cardinality(Keys(Keep(c, {}))) < MaxKeys
    BY <1>2, FS_EmptySet, ConstantsAssumption
<1> QED BY <1>1, <1>3 DEF MakeRoom

\* One more entry fits after that.
LEMMA StoreFits ==
    ASSUME NEW c \in [Passwords -> {"none", "fresh", "stale"}], NEW p \in Passwords,
           Cardinality(Keys(c)) < MaxKeys
    PROVE  Cardinality(Keys([c EXCEPT ![p] = "fresh"])) <= MaxKeys
<1> DEFINE d == [c EXCEPT ![p] = "fresh"]
<1>1. Keys(d) = Keys(c) \cup {p}
    BY DEF Keys
<1>2. IsFiniteSet(Keys(c)) /\ Cardinality(Keys(c)) \in Nat
  <2>1. Keys(c) \subseteq Passwords
    BY DEF Keys
  <2> QED BY <2>1, ConstantsAssumption, FS_Subset, FS_CardinalityType
<1>3. \/ Cardinality(Keys(c) \cup {p}) = Cardinality(Keys(c))
      \/ Cardinality(Keys(c) \cup {p}) = Cardinality(Keys(c)) + 1
    BY <1>2, FS_AddElement
<1> HIDE DEF d
<1>4. Cardinality(Keys(d)) <= MaxKeys
    BY <1>1, <1>2, <1>3, ConstantsAssumption
<1> QED BY <1>4 DEF d

\* Fewer entries still fit.
LEMMA FewerKeys ==
    ASSUME NEW c, NEW d, Keys(d) \subseteq Keys(c), Cardinality(Keys(c)) <= MaxKeys
    PROVE  Cardinality(Keys(d)) <= MaxKeys
<1>1. Keys(c) \subseteq Passwords
    BY DEF Keys
<1>2. IsFiniteSet(Keys(c))
    BY <1>1, ConstantsAssumption, FS_Subset
<1>3. /\ Cardinality(Keys(d)) <= Cardinality(Keys(c))
      /\ Cardinality(Keys(d)) \in Nat /\ Cardinality(Keys(c)) \in Nat
    BY <1>2, FS_Subset, FS_CardinalityType
<1> QED BY <1>3, ConstantsAssumption

LEMMA InitTyped == Init => Typed
<1> SUFFICES ASSUME Init PROVE Typed
    OBVIOUS
<1>1. Keys(cache) = {}
    BY DEF Keys, Init
<1>2. Cardinality(Keys(cache)) <= MaxKeys
    BY <1>1, FS_EmptySet, ConstantsAssumption
<1>3. user \in Row /\ user.pw \in Passwords
  <2>1. PICK p \in Passwords, m \in BOOLEAN : user = [pw |-> p, must |-> m, disabled |-> FALSE]
    BY DEF Init
  <2> QED BY <2>1 DEF Row
<1>4. meant \in Passwords
    BY <1>3 DEF Init
<1>5. TypeOK
  <2>1. window \in BOOLEAN /\ right \in [Requests -> BOOLEAN] /\ usable \in [Requests -> BOOLEAN]
    BY DEF Init
  <2>2. count \in Nat /\ ops \in 0 .. MaxOps /\ errors \in 0 .. MaxErrors
    BY ConstantsAssumption DEF Init
  <2>3. stage \in [Requests -> Stages] /\ cache \in [Passwords -> {"none", "fresh", "stale"}]
    BY DEF Init, Stages
  <2>4. /\ tokens \in [Tokens -> Token \cup {None}]
        /\ kind \in [Requests -> Kinds \cup {None}]
        /\ pw \in [Requests -> Passwords \cup {None}]
        /\ tok \in [Requests -> Tokens \cup {None}]
        /\ draft \in [Savers -> Draft \cup {None}]
    BY DEF Init
  <2> QED BY <1>2, <1>3, <1>4, <2>1, <2>2, <2>3, <2>4 DEF TypeOK
<1>6. StageOK
    BY DEF Init, StageOK
<1> QED BY <1>5, <1>6 DEF Typed

\* The cache keeps its limit.
LEMMA NextCache ==
    ASSUME Typed, [Next]_vars
    PROVE  /\ cache' \in [Passwords -> {"none", "fresh", "stale"}]
           /\ Cardinality(Keys(cache')) <= MaxKeys
<1> DEFINE Goal == /\ cache' \in [Passwords -> {"none", "fresh", "stale"}]
                   /\ Cardinality(Keys(cache')) <= MaxKeys
<1>0. /\ cache \in [Passwords -> {"none", "fresh", "stale"}]
      /\ Cardinality(Keys(cache)) <= MaxKeys
    BY DEF Typed, TypeOK
<1>1. CASE UNCHANGED cache
    BY <1>0, <1>1
<1>2. ASSUME NEW r \in Requests, LookUp(r) PROVE Goal
  <2>1. /\ Keys(cache') \subseteq Keys(cache)
        /\ cache' \in [Passwords -> {"none", "fresh", "stale"}]
    BY <1>0, <1>2 DEF LookUp, Keys
  <2> QED BY <1>0, <2>1, FewerKeys
<1>3. ASSUME NEW r \in Requests, Store(r) PROVE Goal
  <2>1. pw[r] \in Passwords /\ cache' = [MakeRoom(cache) EXCEPT ![pw[r]] = "fresh"]
    BY <1>3 DEF Store, Typed, StageOK
  <2>2. /\ MakeRoom(cache) \in [Passwords -> {"none", "fresh", "stale"}]
        /\ Cardinality(Keys(MakeRoom(cache))) < MaxKeys
    BY <1>0, RoomMade
  <2> QED BY <2>1, <2>2, StoreFits
<1>4. ASSUME NEW p \in Passwords, CacheExpires(p) PROVE Goal
  <2>1. /\ Keys(cache') \subseteq Keys(cache)
        /\ cache' \in [Passwords -> {"none", "fresh", "stale"}]
    BY <1>0, <1>4 DEF CacheExpires, Keys
  <2> QED BY <1>0, <2>1, FewerKeys
<1> HIDE DEF Goal
<1> QED
    BY <1>1, <1>2, <1>3, <1>4
    DEF Next, Client, Admin, Time, Begin, Present, Reread, Verify, Fail, Accept, Find,
        Generate, CheckToken, Admit, Finish, Revoke, Refused, EditPassword, EditPolicy, ReadRow,
        Save, ChangePassword, DeleteUser, CleanTokens, TokenExpires, WindowEnds, vars, Goal

LEMMA NextStageOK == Typed /\ [Next]_vars => StageOK'
<1> SUFFICES ASSUME Typed, [Next]_vars PROVE StageOK'
    OBVIOUS
<1> USE ConstantsAssumption DEF Typed, TypeOK, StageOK, Stages, local
<1>1. ASSUME NEW r \in Requests, NEW k \in Kinds, NEW p \in Passwords, Begin(r, k, p)
      PROVE  StageOK'
    BY <1>1 DEF Begin, Brings, Kinds, Goto, Forget
<1>2. ASSUME NEW r \in Requests, NEW t \in Tokens, Present(r, t)
      PROVE  StageOK'
    BY <1>2 DEF Present, Goto
<1>3. ASSUME NEW r \in Requests, LookUp(r)
      PROVE  StageOK'
    BY <1>3 DEF LookUp, Goto
<1>4. ASSUME NEW r \in Requests, Reread(r)
      PROVE  StageOK'
    BY <1>4 DEF Reread, Goto
<1>5. ASSUME NEW r \in Requests, Verify(r)
      PROVE  StageOK'
    BY <1>5 DEF Verify, Goto
<1>6. ASSUME NEW r \in Requests, Fail(r)
      PROVE  StageOK'
    BY <1>6 DEF Fail, RecordFailure, Answer, Goto
<1>7. ASSUME NEW r \in Requests, Store(r)
      PROVE  StageOK'
    BY <1>7 DEF Store, Goto
<1>8. ASSUME NEW r \in Requests, Accept(r)
      PROVE  StageOK'
    BY <1>8 DEF Accept, Reset, Answer, Goto
<1>9. ASSUME NEW r \in Requests, Find(r)
      PROVE  StageOK'
    BY <1>9 DEF Find, Reusable, WithToken, Goto
<1>10. ASSUME NEW r \in Requests, Generate(r)
      PROVE  StageOK'
    BY <1>10 DEF Generate, WithToken, Answer, Goto, Token
<1>11. ASSUME NEW r \in Requests, CheckToken(r)
      PROVE  StageOK'
    BY <1>11 DEF CheckToken, Answer, Goto
<1>12. ASSUME NEW r \in Requests, Admit(r)
      PROVE  StageOK'
    BY <1>12 DEF Admit, Answer, Goto
<1>13. ASSUME NEW r \in Requests, Finish(r) \/ Revoke(r)
      PROVE  StageOK'
    BY <1>13 DEF Finish, Revoke, Answer, Goto
<1>14. ASSUME NEW r \in Requests, Refused(r)
      PROVE  StageOK'
    BY <1>14 DEF Refused, Answer, Goto
<1>15. ASSUME NEW a \in Savers, NEW p \in Passwords \cup {None}, EditPassword(a, p)
      PROVE  StageOK'
    BY <1>15 DEF EditPassword, ReadRow, Op, Draft, Row
<1>16. ASSUME NEW a \in Savers, NEW d \in BOOLEAN, EditPolicy(a, d)
      PROVE  StageOK'
    BY <1>16 DEF EditPolicy, ReadRow, Op, Draft, Row
<1>17. ASSUME NEW a \in Savers, Save(a)
      PROVE  StageOK'
    BY <1>17 DEF Save, Write, Draft, Row
<1>18. ASSUME NEW p \in Passwords, ChangePassword(p)
      PROVE  StageOK'
    BY <1>18 DEF ChangePassword, Op, Write, Row
<1>19. ASSUME DeleteUser
      PROVE  StageOK'
    BY <1>19 DEF DeleteUser, Op, Write
<1>20. ASSUME CleanTokens
      PROVE  StageOK'
    BY <1>20 DEF CleanTokens
<1>21. ASSUME NEW p \in Passwords, CacheExpires(p)
      PROVE  StageOK'
    BY <1>21 DEF CacheExpires
<1>22. ASSUME NEW t \in Tokens, TokenExpires(t)
      PROVE  StageOK'
    BY <1>22 DEF TokenExpires, Token
<1>23. ASSUME WindowEnds
      PROVE  StageOK'
    BY <1>23 DEF WindowEnds
<1>24. ASSUME UNCHANGED vars
      PROVE  StageOK'
    BY <1>24 DEF vars
<1> QED
    BY <1>1, <1>2, <1>3, <1>4, <1>5, <1>6, <1>7, <1>8, <1>9, <1>10, <1>11, <1>12, <1>13,
       <1>14, <1>15, <1>16, <1>17, <1>18, <1>19, <1>20, <1>21, <1>22, <1>23, <1>24
    DEF Next, Client, Admin, Time

\* An answered request has variables of the right types.
LEMMA AnswerTyped ==
    ASSUME Typed, NEW r \in Requests, Answer(r)
    PROVE  /\ stage' \in [Requests -> Stages]
           /\ kind' \in [Requests -> Kinds \cup {None}]
           /\ pw' \in [Requests -> Passwords \cup {None}]
           /\ usable' \in [Requests -> BOOLEAN]
           /\ tok' \in [Requests -> Tokens \cup {None}]
           /\ right' \in [Requests -> BOOLEAN]
BY DEF Answer, Goto, Typed, TypeOK, Stages

\* Whether a row may be used is a truth value.
LEMMA UsableBoolean == \A row : Usable(row) \in BOOLEAN
BY DEF Usable

LEMMA NextTypeOK == Typed /\ [Next]_vars => TypeOK'
<1> SUFFICES ASSUME Typed, [Next]_vars PROVE TypeOK'
    OBVIOUS
<1> USE NextCache, UsableBoolean, ConstantsAssumption DEF Typed, TypeOK, Stages, local, limiter
<1>1. ASSUME NEW r \in Requests, NEW k \in Kinds, NEW p \in Passwords, Begin(r, k, p)
      PROVE  TypeOK'
    BY <1>1 DEF Begin, Goto, Forget
<1>2. ASSUME NEW r \in Requests, NEW t \in Tokens, Present(r, t)
      PROVE  TypeOK'
    BY <1>2 DEF Present, Goto
<1>3. ASSUME NEW r \in Requests, LookUp(r)
      PROVE  TypeOK'
    BY <1>3 DEF LookUp, Goto
<1>4. ASSUME NEW r \in Requests, Reread(r)
      PROVE  TypeOK'
    BY <1>4 DEF Reread, Goto
<1>5. ASSUME NEW r \in Requests, Verify(r)
      PROVE  TypeOK'
    BY <1>5 DEF Verify, Goto
<1>6. ASSUME NEW r \in Requests, Fail(r)
      PROVE  TypeOK'
    BY <1>6 DEF Fail, RecordFailure, Answer, Goto
<1>7. ASSUME NEW r \in Requests, Store(r)
      PROVE  TypeOK'
    BY <1>7 DEF Store, Goto
<1>8. ASSUME NEW r \in Requests, Accept(r)
      PROVE  TypeOK'
  <2>1. CASE usable[r]
    <3>0. Reset
      BY <1>8, <2>1 DEF Accept
    <3>1. count' \in Nat /\ window' \in BOOLEAN
      BY <3>0, Zenon DEF Reset
    <3>2. usable' \in [Requests -> BOOLEAN] /\ pw' \in [Requests -> Passwords \cup {None}]
      BY <1>8, <2>1 DEF Accept
    <3> QED BY <1>8, <2>1, <3>1, <3>2 DEF Accept, Goto
  <2>2. CASE ~(usable[r])
    BY <1>8, <2>2, AnswerTyped DEF Accept
  <2> QED BY <2>1, <2>2
<1>9. ASSUME NEW r \in Requests, Find(r)
      PROVE  TypeOK'
    BY <1>9 DEF Find, Reusable, WithToken, Goto
<1>10. ASSUME NEW r \in Requests, Generate(r)
      PROVE  TypeOK'
  <2>1. PICK t \in Tokens :
            /\ tokens' = [tokens EXCEPT ![t] = [basic |-> kind[r] # "login", fresh |-> TRUE]]
            /\ IF kind[r] = "login"
               THEN Answer(r)
               ELSE /\ Goto(r, WithToken(r)) /\ tok' = [tok EXCEPT ![r] = t]
                    /\ UNCHANGED <<kind, pw, usable, right>>
    BY <1>10 DEF Generate
  <2>2. tokens' \in [Tokens -> Token \cup {None}]
    <3>1. (kind[r] # "login") \in BOOLEAN
      OBVIOUS
    <3> QED BY <2>1, <3>1 DEF Token
  <2>3. CASE kind[r] # "login"
    BY <1>10, <2>1, <2>2, <2>3 DEF Generate, WithToken, Goto
  <2>4. CASE kind[r] = "login"
    BY <1>10, <2>1, <2>2, <2>4, AnswerTyped DEF Generate
  <2> QED BY <2>3, <2>4
<1>11. ASSUME NEW r \in Requests, CheckToken(r)
      PROVE  TypeOK'
  <2>1. CASE tokens[tok[r]] # None /\ tokens[tok[r]].fresh
    BY <1>11, <2>1 DEF CheckToken, Goto
  <2>2. CASE ~(tokens[tok[r]] # None /\ tokens[tok[r]].fresh)
    <3>1. tokens' \in [Tokens -> Token \cup {None}]
      BY <1>11, <2>2 DEF CheckToken
    <3> QED BY <1>11, <2>2, <3>1, AnswerTyped DEF CheckToken
  <2> QED BY <2>1, <2>2
<1>12. ASSUME NEW r \in Requests, Admit(r)
      PROVE  TypeOK'
  <2>1. CASE user # None /\ Usable(user)
    BY <1>12, <2>1 DEF Admit, Goto
  <2>2. CASE ~(user # None /\ Usable(user))
    BY <1>12, <2>2, AnswerTyped DEF Admit
  <2> QED BY <2>1, <2>2
<1>13. ASSUME NEW r \in Requests, Finish(r) \/ Revoke(r)
      PROVE  TypeOK'
    BY <1>13 DEF Finish, Revoke, Answer, Goto
<1>14. ASSUME NEW r \in Requests, Refused(r)
      PROVE  TypeOK'
  <2>0. errors' \in 0 .. MaxErrors
    BY <1>14 DEF Refused
  <2>1. CASE Answer(r)
    BY <1>14, <2>0, <2>1, AnswerTyped DEF Refused
  <2>2. CASE UNCHANGED <<local, right>>
    BY <1>14, <2>0, <2>2 DEF Refused, Goto, Answer
  <2> QED BY <1>14, <2>1, <2>2 DEF Refused
<1>15. ASSUME NEW a \in Savers, NEW p \in Passwords \cup {None}, EditPassword(a, p)
      PROVE  TypeOK'
    BY <1>15 DEF EditPassword, ReadRow, Op, Draft, Row
<1>16. ASSUME NEW a \in Savers, NEW d \in BOOLEAN, EditPolicy(a, d)
      PROVE  TypeOK'
    BY <1>16 DEF EditPolicy, ReadRow, Op, Draft, Row
<1>17. ASSUME NEW a \in Savers, Save(a)
      PROVE  TypeOK'
    BY <1>17 DEF Save, Write, Draft, Row
<1>18. ASSUME NEW p \in Passwords, ChangePassword(p)
      PROVE  TypeOK'
  <2>1. user \in Row /\ user' = [user EXCEPT !.pw = p, !.must = FALSE]
    BY <1>18 DEF ChangePassword, Write
  <2>2. user' \in Row
    BY <2>1 DEF Row
  <2>3. right' \in [Requests -> BOOLEAN]
    BY <1>18 DEF ChangePassword, Write
  <2> QED BY <1>18, <2>2, <2>3 DEF ChangePassword, Op
<1>19. ASSUME DeleteUser
      PROVE  TypeOK'
    BY <1>19 DEF DeleteUser, Op, Write
<1>20. ASSUME CleanTokens
      PROVE  TypeOK'
    BY <1>20 DEF CleanTokens
<1>21. ASSUME NEW p \in Passwords, CacheExpires(p)
      PROVE  TypeOK'
    BY <1>21 DEF CacheExpires
<1>22. ASSUME NEW t \in Tokens, TokenExpires(t)
      PROVE  TypeOK'
  <2>1. tokens[t] \in Token /\ tokens' = [tokens EXCEPT ![t].fresh = FALSE]
    BY <1>22 DEF TokenExpires
  <2>2. tokens' \in [Tokens -> Token \cup {None}]
    BY <2>1 DEF Token
  <2> QED BY <1>22, <2>2 DEF TokenExpires
<1>23. ASSUME WindowEnds
      PROVE  TypeOK'
    BY <1>23 DEF WindowEnds
<1>24. ASSUME UNCHANGED vars
      PROVE  TypeOK'
    BY <1>24 DEF vars
<1> QED
    BY <1>1, <1>2, <1>3, <1>4, <1>5, <1>6, <1>7, <1>8, <1>9, <1>10, <1>11, <1>12, <1>13,
       <1>14, <1>15, <1>16, <1>17, <1>18, <1>19, <1>20, <1>21, <1>22, <1>23, <1>24
    DEF Next, Client, Admin, Time

LEMMA NextTyped == Typed /\ [Next]_vars => Typed'
BY NextStageOK, NextTypeOK DEF Typed

THEOREM TypedInvariant == Spec => []Typed
BY InitTyped, NextTyped, PTL DEF Spec

\* Every variable keeps its type; the cache of verified credentials never
\* outgrows its limit.
THEOREM TypeCorrect == Spec => []TypeOK
<1>1. Typed => TypeOK
    BY DEF Typed
<1> QED BY <1>1, TypedInvariant, PTL

(***************************************************************************)
(* Fresh credentials                                                       *)
(***************************************************************************)

\* A password being judged that is the user's now has been the user's; so has
\* that of every Basic request past its verification.
Right ==
    \A r \in Requests :
        /\ stage[r] \in {"cache", "reread", "verify"} /\ pw[r] = PasswordOf(user) => right[r]
        /\ kind[r] = "basic" /\ stage[r] \notin {"idle", "cache", "reread", "verify", "failed"}
                => right[r]

LEMMA NextRight == Typed /\ Right /\ [Next]_vars => Right'
<1> SUFFICES ASSUME Typed, Right, [Next]_vars, NEW q \in Requests
             PROVE  /\ stage'[q] \in {"cache", "reread", "verify"} /\ pw'[q] = PasswordOf(user)' => right'[q]
                    /\ kind'[q] = "basic"
                       /\ stage'[q] \notin {"idle", "cache", "reread", "verify", "failed"}
                            => right'[q]
    BY DEF Right
<1> DEFINE Goal ==
        /\ stage'[q] \in {"cache", "reread", "verify"} /\ pw'[q] = PasswordOf(user)' => right'[q]
        /\ kind'[q] = "basic"
           /\ stage'[q] \notin {"idle", "cache", "reread", "verify", "failed"}
                => right'[q]
<1>0. /\ stage \in [Requests -> Stages] /\ kind \in [Requests -> Kinds \cup {None}]
      /\ pw \in [Requests -> Passwords \cup {None}] /\ right \in [Requests -> BOOLEAN]
    BY DEF Typed, TypeOK
<1>b. /\ stage[q] \in {"cache", "reread", "verify"} /\ pw[q] = PasswordOf(user) => right[q]
      /\ kind[q] = "basic" /\ stage[q] \notin {"idle", "cache", "reread", "verify", "failed"}
            => right[q]
    BY DEF Right
\* A step that keeps the row and what q knows.
<1>a. ASSUME user' = user, right'[q] = right[q], kind'[q] = kind[q],
             \/ stage'[q] = stage[q] /\ pw'[q] = pw[q]
             \/ /\ stage[q] \notin {"idle", "cache", "reread", "verify", "failed"}
                /\ stage'[q] \notin {"cache", "reread", "verify"}
             \/ /\ stage[q] \in {"cache", "reread", "verify"}
                /\ stage'[q] \in {"reread", "verify"}
                /\ pw'[q] = pw[q]
             \/ stage'[q] \in {"idle", "failed"}
      PROVE  Goal
    BY <1>a, <1>b DEF PasswordOf
\* A step that answers.
<1>c. ASSUME NEW r \in Requests, Answer(r), user' = user PROVE Goal
  <2>1. CASE q = r
    BY <1>c, <1>0, <2>1, ConstantsAssumption DEF Answer, Goto
  <2>2. CASE q # r
    BY <1>a, <1>c, <1>0, <2>2 DEF Answer, Goto
  <2> QED BY <2>1, <2>2
\* A step that writes the row.
<1>d. ASSUME NEW row, Write(row), UNCHANGED <<pw, kind, stage>> PROVE Goal
  <2>1. right'[q] = (right[q] \/ (stage[q] \in {"cache", "reread", "verify"} /\ pw[q] = PasswordOf(row)))
    BY <1>d DEF Write
  <2>2. PasswordOf(user)' = PasswordOf(row)
    BY <1>d DEF Write, PasswordOf
  <2> QED BY <1>b, <1>d, <2>1, <2>2
<1>1. ASSUME NEW r \in Requests, NEW k \in Kinds, NEW p \in Passwords, Begin(r, k, p)
      PROVE  Goal
  <2>1. CASE q = r
    <3>1. pw'[q] = p /\ right'[q] = (p = PasswordOf(user)) /\ user' = user
      BY <1>1, <1>0, <2>1 DEF Begin
    <3>2. stage'[q] \in {"cache", "verify"}
      BY <1>1, <1>0, <2>1 DEF Begin, Goto
    <3> QED BY <3>1, <3>2 DEF PasswordOf
  <2>2. CASE q # r
    BY <1>1, <1>a, <1>0, <2>2 DEF Begin, Goto
  <2> QED BY <2>1, <2>2
<1>2. ASSUME NEW r \in Requests, NEW t \in Tokens, Present(r, t) PROVE Goal
  <2>1. CASE q = r
    <3>1. kind'[q] = None /\ stage'[q] = "check"
      BY <1>2, <1>0, <2>1 DEF Present, Goto, Typed, StageOK
    <3> QED BY <3>1, ConstantsAssumption
  <2>2. CASE q # r
    BY <1>2, <1>a, <1>0, <2>2 DEF Present, Goto
  <2> QED BY <2>1, <2>2
<1>3. ASSUME NEW r \in Requests, LookUp(r) PROVE Goal
    BY <1>3, <1>a, <1>0 DEF LookUp, Goto, local
<1>4. ASSUME NEW r \in Requests, Reread(r) PROVE Goal
  <2>1. CASE q = r /\ user # None /\ user.pw = pw[r]
    <3>1. stage[q] \in {"cache", "reread", "verify"}
      BY <1>4, <2>1 DEF Reread
    <3>2. right[q]
      BY <2>1, <3>1, <1>b, ConstantsAssumption DEF PasswordOf
    <3> QED BY <1>4, <3>2 DEF Reread
  <2>2. CASE ~(q = r /\ user # None /\ user.pw = pw[r])
    BY <1>4, <1>a, <1>0, <2>2 DEF Reread, Goto
  <2> QED BY <2>1, <2>2
<1>5. ASSUME NEW r \in Requests, Verify(r) PROVE Goal
  <2>1. CASE q = r /\ user # None /\ user.pw = pw[r]
    <3>1. stage[q] \in {"cache", "reread", "verify"}
      BY <1>5, <2>1 DEF Verify
    <3>2. right[q]
      BY <2>1, <3>1, <1>b, ConstantsAssumption DEF PasswordOf
    <3> QED BY <1>5, <3>2 DEF Verify
  <2>2. CASE ~(q = r /\ user # None /\ user.pw = pw[r])
    BY <1>5, <1>a, <1>0, <2>2 DEF Verify, Goto
  <2> QED BY <2>1, <2>2
<1>6. ASSUME NEW r \in Requests, Fail(r) PROVE Goal
    BY <1>6, <1>c DEF Fail
<1>7. ASSUME NEW r \in Requests, Store(r) PROVE Goal
    BY <1>7, <1>a, <1>0 DEF Store, Goto, local
<1>8. ASSUME NEW r \in Requests, Accept(r) PROVE Goal
  <2>2. CASE usable[r]
    <3>1. stage[r] = "accepted" /\ UNCHANGED <<user, kind, right>>
      BY <1>8, <2>2 DEF Accept
    <3>2. Goto(r, "generate") \/ Goto(r, "find")
      BY <1>8, <2>2 DEF Accept
    <3>3. CASE q = r
      <4>1. stage'[q] \in {"generate", "find"} /\ stage[q] = "accepted"
        BY <1>0, <3>1, <3>2, <3>3 DEF Goto
      <4> QED BY <1>b, <3>1, <4>1
    <3>4. CASE q # r
      BY <1>8, <1>a, <1>0, <2>2, <3>4 DEF Accept, Goto
    <3> QED BY <3>3, <3>4
  <2>3. CASE ~usable[r]
    BY <1>8, <1>c, <2>3 DEF Accept
  <2> QED BY <2>2, <2>3
<1>9. ASSUME NEW r \in Requests, Find(r) PROVE Goal
  <2>1. stage[r] = "find" /\ UNCHANGED <<user, kind, pw, right>>
    BY <1>9 DEF Find
  <2>2. Goto(r, "generate") \/ Goto(r, "check") \/ Goto(r, "revoke")
    BY <1>9 DEF Find, WithToken
  <2> QED BY <1>a, <1>0, <2>1, <2>2 DEF Goto
<1>10. ASSUME NEW r \in Requests, Generate(r) PROVE Goal
  <2>1. stage[r] = "generate" /\ user' = user
    BY <1>10 DEF Generate
  <2>2. \/ Answer(r)
        \/ (Goto(r, "check") \/ Goto(r, "revoke")) /\ UNCHANGED <<kind, pw, right>>
    BY <1>10 DEF Generate, WithToken
  <2>3. CASE Answer(r)
    BY <1>c, <2>1, <2>3
  <2>4. CASE (Goto(r, "check") \/ Goto(r, "revoke")) /\ UNCHANGED <<kind, pw, right>>
    BY <1>a, <1>0, <2>1, <2>4 DEF Goto
  <2> QED BY <2>2, <2>3, <2>4
<1>11. ASSUME NEW r \in Requests, CheckToken(r) PROVE Goal
  <2>1. stage[r] = "check" /\ user' = user
    BY <1>11 DEF CheckToken
  <2>2. Answer(r) \/ (Goto(r, "user") /\ UNCHANGED <<local, right>>)
    BY <1>11 DEF CheckToken
  <2>3. CASE Answer(r)
    BY <1>c, <2>1, <2>3
  <2>4. CASE Goto(r, "user") /\ UNCHANGED <<local, right>>
    BY <1>a, <1>0, <2>1, <2>4 DEF Goto, local
  <2> QED BY <2>2, <2>3, <2>4
<1>12. ASSUME NEW r \in Requests, Admit(r) PROVE Goal
  <2>1. stage[r] = "user" /\ user' = user
    BY <1>12 DEF Admit
  <2>2. Answer(r) \/ (Goto(r, "admitted") /\ UNCHANGED <<local, right>>)
    BY <1>12 DEF Admit
  <2>3. CASE Answer(r)
    BY <1>c, <2>1, <2>3
  <2>4. CASE Goto(r, "admitted") /\ UNCHANGED <<local, right>>
    BY <1>a, <1>0, <2>1, <2>4 DEF Goto, local
  <2> QED BY <2>2, <2>3, <2>4
<1>13. ASSUME NEW r \in Requests, Finish(r) \/ Revoke(r) PROVE Goal
    BY <1>13, <1>c DEF Finish, Revoke
<1>14. ASSUME NEW r \in Requests, Refused(r) PROVE Goal
  <2>1. CASE Answer(r)
    BY <1>c, <1>14, <2>1 DEF Refused
  <2>2. CASE UNCHANGED <<local, right>> /\ Goto(r, "generate") /\ stage[r] = "find"
    BY <1>a, <1>0, <1>14, <2>2 DEF Refused, Goto, local
  <2>3. CASE /\ UNCHANGED <<local, right>>
             /\ \/ stage[r] = "reread" /\ Goto(r, "verify")
                \/ Goto(r, "failed")
    BY <1>a, <1>0, <1>14, <2>3 DEF Refused, Goto, local
  <2> QED BY <1>14, <2>1, <2>2, <2>3 DEF Refused
<1>15. CASE Admin
  <2>1. CASE UNCHANGED <<user, pw, kind, stage, right>>
    BY <1>a, <2>1
  <2>2. ASSUME NEW row, Write(row), UNCHANGED <<stage, local>> PROVE Goal
    BY <1>d, <2>2 DEF local
  <2> QED BY <1>15, <2>1, <2>2
          DEF Admin, EditPassword, EditPolicy, ReadRow, Save, ChangePassword, DeleteUser, local
<1>16. CASE Time
    BY <1>16, <1>a DEF Time, CleanTokens, CacheExpires, TokenExpires, WindowEnds, local
<1>17. CASE UNCHANGED vars
    BY <1>17, <1>a DEF vars, local
<1>18. ASSUME NEW r \in Requests, Client(r) PROVE Goal
  <2> HIDE DEF Goal
  <2> QED
    BY <1>18, <1>1, <1>2, <1>3, <1>4, <1>5, <1>6, <1>7, <1>8, <1>9, <1>10, <1>11, <1>12,
       <1>13, <1>14
    DEF Client
<1> QED BY <1>15, <1>16, <1>17, <1>18 DEF Next

\* A Basic request is let in only with a password that has been the user's
\* since the request began, whatever is cached and whoever changes the
\* password meanwhile.
THEOREM BasicIsFresh == Spec => []BasicFresh
<1>1. Init => Right
    BY DEF Init, Right
<1>2. Typed /\ Right /\ [Next]_vars => Right'
    BY NextRight
<1>3. Right => BasicFresh
    BY DEF Right, BasicFresh
<1> QED BY <1>1, <1>2, <1>3, TypedInvariant, PTL DEF Spec

(***************************************************************************)
(* Counting requests and tokens                                            *)
(***************************************************************************)

LEMMA FiniteRequests ==
    ASSUME NEW S, S \subseteq Requests
    PROVE  /\ IsFiniteSet(S) /\ Cardinality(S) \in Nat /\ Cardinality(Requests) \in Nat
           /\ Cardinality(S) <= Cardinality(Requests)
BY ConstantsAssumption, FS_Subset, FS_CardinalityType

\* A subset is not larger.
LEMMA SmallerSet ==
    ASSUME NEW S, NEW T, IsFiniteSet(T), S \subseteq T
    PROVE  /\ Cardinality(S) \in Nat /\ Cardinality(T) \in Nat
           /\ Cardinality(S) <= Cardinality(T)
BY FS_Subset, FS_CardinalityType

\* Without one of its members a set is smaller by one.
LEMMA OneLess ==
    ASSUME NEW S, NEW T, NEW x \in T, IsFiniteSet(T), S \subseteq T \ {x}
    PROVE  /\ Cardinality(S) \in Nat /\ Cardinality(T) \in Nat
           /\ Cardinality(S) + 1 <= Cardinality(T)
<1>1. IsFiniteSet(T \ {x}) /\ Cardinality(T \ {x}) = Cardinality(T) - 1
    BY FS_RemoveElement
<1>2. /\ Cardinality(S) \in Nat /\ Cardinality(T \ {x}) \in Nat
      /\ Cardinality(S) <= Cardinality(T \ {x})
    BY <1>1, SmallerSet
<1>3. Cardinality(T) \in Nat
    BY FS_CardinalityType
<1> QED BY <1>1, <1>2, <1>3

\* With one more member it is larger by at most one.
LEMMA OneMore ==
    ASSUME NEW S, NEW T, NEW x, IsFiniteSet(S), T \subseteq S \cup {x}
    PROVE  /\ Cardinality(S) \in Nat /\ Cardinality(T) \in Nat
           /\ Cardinality(T) <= Cardinality(S) + 1
<1>1. /\ IsFiniteSet(S \cup {x})
      /\ \/ Cardinality(S \cup {x}) = Cardinality(S)
         \/ Cardinality(S \cup {x}) = Cardinality(S) + 1
    BY FS_AddElement
<1>2. /\ Cardinality(T) \in Nat /\ Cardinality(S \cup {x}) \in Nat
      /\ Cardinality(T) <= Cardinality(S \cup {x})
    BY <1>1, SmallerSet
<1>3. Cardinality(S) \in Nat
    BY FS_CardinalityType
<1> QED BY <1>1, <1>2, <1>3

(***************************************************************************)
(* The limiter                                                             *)
(***************************************************************************)

\* The requests that have passed the limiter and may still fail.
Guessing == {r \in Requests : stage[r] \in {"cache", "reread", "verify", "failed"}}

\* From the threshold on, every failure is paid for by one of them.
Guesses ==
    MaxAttempts > 0 /\ window /\ count >= MaxAttempts =>
        count + Cardinality(Guessing) <= MaxAttempts - 1 + Cardinality(Requests)

LEMMA NextGuesses == Typed /\ Guesses /\ [Next]_vars => Guesses'
<1> SUFFICES ASSUME Typed, Guesses, [Next]_vars,
                    MaxAttempts > 0, window', count' >= MaxAttempts
             PROVE  count' + Cardinality(Guessing') <= MaxAttempts - 1 + Cardinality(Requests)
    BY DEF Guesses
<1> DEFINE Goal ==
        count' + Cardinality(Guessing') <= MaxAttempts - 1 + Cardinality(Requests)
<1>0. /\ count \in Nat /\ count' \in Nat /\ MaxAttempts \in Nat
      /\ stage \in [Requests -> Stages]
    BY NextTyped, ConstantsAssumption DEF Typed, TypeOK
<1>f. /\ Guessing \subseteq Requests /\ Guessing' \subseteq Requests
      /\ IsFiniteSet(Guessing) /\ Cardinality(Guessing) \in Nat
      /\ Cardinality(Guessing') \in Nat /\ Cardinality(Requests) \in Nat
      /\ Cardinality(Guessing) <= Cardinality(Requests)
  <2>1. Guessing \subseteq Requests /\ Guessing' \subseteq Requests
    BY DEF Guessing
  <2> QED BY <2>1, FiniteRequests
\* A step that does not touch the limiter and lets nobody past it.
<1>a. ASSUME count' = count, window' = window, Guessing' \subseteq Guessing PROVE Goal
  <2>1. Cardinality(Guessing') <= Cardinality(Guessing)
    BY <1>a, <1>f, SmallerSet
  <2>2. count + Cardinality(Guessing) <= MaxAttempts - 1 + Cardinality(Requests)
    BY <1>a DEF Guesses
  <2> QED BY <1>a, <1>0, <1>f, <2>1, <2>2
<1>1. ASSUME NEW r \in Requests, NEW k \in Kinds, NEW p \in Passwords, Begin(r, k, p)
      PROVE  Goal
  <2>1. window' = window /\ count' = (IF window THEN count ELSE 0) /\ ~Locked
    BY <1>1 DEF Begin, Forget
  <2> QED BY <1>0, <2>1 DEF Locked
<1>2. ASSUME NEW r \in Requests, Fail(r) PROVE Goal
  <2>1. /\ count' = IF window THEN count + 1 ELSE 1
        /\ stage[r] = "failed" /\ stage' = [stage EXCEPT ![r] = "idle"]
    BY <1>2, <1>0 DEF Fail, RecordFailure, Answer, Goto
  <2>2. r \in Guessing /\ Guessing' \subseteq Guessing \ {r}
    BY <2>1, <1>0 DEF Guessing
  <2>3. Cardinality(Guessing') + 1 <= Cardinality(Guessing)
    BY <2>2, <1>f, OneLess
  <2>4. CASE window /\ count >= MaxAttempts
    <3>1. count + Cardinality(Guessing) <= MaxAttempts - 1 + Cardinality(Requests)
      BY <2>4 DEF Guesses
    <3> QED BY <2>1, <2>3, <2>4, <3>1, <1>0, <1>f
  <2>5. CASE window /\ ~(count >= MaxAttempts)
    BY <2>1, <2>3, <2>5, <1>0, <1>f
  <2>6. CASE ~window
    BY <2>1, <2>3, <2>6, <1>0, <1>f
  <2> QED BY <2>4, <2>5, <2>6
<1>3. ASSUME NEW r \in Requests, Accept(r) PROVE Goal
  <2>1. CASE usable[r]
    BY <1>3, <2>1, <1>0 DEF Accept, Reset
  <2>2. CASE ~usable[r]
    BY <1>3, <2>2, <1>0, <1>a DEF Accept, Answer, Goto, Guessing, limiter
  <2> QED BY <2>1, <2>2
<1>4. CASE WindowEnds
    BY <1>4 DEF WindowEnds
\* The other steps of a request: it goes on, is answered, or is elsewhere.
<1>5. ASSUME NEW r \in Requests, NEW s,
             UNCHANGED limiter, stage' = [stage EXCEPT ![r] = s],
             \/ s \notin {"cache", "reread", "verify", "failed"}
             \/ stage[r] \in {"cache", "reread", "verify", "failed"}
      PROVE  Goal
  <2>1. Guessing' \subseteq Guessing
    BY <1>5, <1>0 DEF Guessing
  <2> QED BY <1>5, <1>a, <2>1 DEF limiter
<1>6. CASE UNCHANGED limiter /\ UNCHANGED stage
    BY <1>6, <1>a DEF limiter, Guessing
<1>7. ASSUME NEW r \in Requests, Client(r) PROVE Goal
  <2> HIDE DEF Goal
  <2>1. ASSUME NEW t \in Tokens, Present(r, t) PROVE Goal
    BY <2>1, <1>5 DEF Present, Goto
  <2>2. CASE LookUp(r) \/ Reread(r) \/ Verify(r) \/ Store(r)
    BY <2>2, <1>5 DEF LookUp, Reread, Verify, Store, Goto
  <2>3. CASE Find(r) \/ Generate(r)
    BY <2>3, <1>5 DEF Find, Generate, WithToken, Answer, Goto
  <2>4. CASE CheckToken(r) \/ Admit(r)
    BY <2>4, <1>5 DEF CheckToken, Admit, Answer, Goto
  <2>5. CASE Finish(r) \/ Revoke(r)
    BY <2>5, <1>5 DEF Finish, Revoke, Answer, Goto
  <2>6. CASE Refused(r)
    BY <2>6, <1>5 DEF Refused, Answer, Goto
  <2> QED BY <1>1, <1>2, <1>3, <1>7, <2>1, <2>2, <2>3, <2>4, <2>5, <2>6 DEF Client
<1>8. CASE Admin
    BY <1>8, <1>6 DEF Admin, EditPassword, EditPolicy, ReadRow, Save, ChangePassword, DeleteUser
<1>9. CASE Time
    BY <1>9, <1>4, <1>6 DEF Time, CleanTokens, CacheExpires, TokenExpires
<1>10. CASE UNCHANGED vars
    BY <1>10, <1>6 DEF vars
<1> QED BY <1>7, <1>8, <1>9, <1>10 DEF Next

\* Past the threshold only the requests that were already let through add to
\* the failures of a window.
THEOREM AttemptsAreBounded == Spec => []AttemptsBounded
<1>1. Init => Guesses
    BY DEF Init, Guesses
<1>2. Typed /\ Guesses /\ [Next]_vars => Guesses'
    BY NextGuesses
<1>3. Typed /\ Guesses => AttemptsBounded
  <2> SUFFICES ASSUME Typed, Guesses, MaxAttempts > 0, window
               PROVE  count <= MaxAttempts - 1 + Cardinality(Requests)
    BY DEF AttemptsBounded
  <2>1. count \in Nat /\ MaxAttempts \in Nat
    BY ConstantsAssumption DEF Typed, TypeOK
  <2>2. Cardinality(Guessing) \in Nat /\ Cardinality(Requests) \in Nat
    BY FiniteRequests DEF Guessing
  <2> QED BY <2>1, <2>2 DEF Guesses
<1> QED BY <1>1, <1>2, <1>3, TypedInvariant, PTL DEF Spec

(***************************************************************************)
(* The tokens of Basic requests                                            *)
(***************************************************************************)

\* The requests that have found no token and are about to make one.
Making == {r \in Requests : stage[r] = "generate" /\ kind[r] # "login"}

\* A token in the table and a request about to make one weigh the same.
Made == Cardinality(Basic) + Cardinality(Making) <= Cardinality(Requests) + errors

LEMMA NextMade == Typed /\ Made /\ [Next]_vars => Made'
<1> SUFFICES ASSUME Typed, Made, [Next]_vars
             PROVE  Cardinality(Basic') + Cardinality(Making') <= Cardinality(Requests) + errors'
    BY DEF Made
<1> DEFINE Goal ==
        Cardinality(Basic') + Cardinality(Making') <= Cardinality(Requests) + errors'
<1>0. /\ errors \in Nat /\ stage \in [Requests -> Stages]
      /\ kind \in [Requests -> Kinds \cup {None}]
      /\ tokens \in [Tokens -> Token \cup {None}]
    BY ConstantsAssumption DEF Typed, TypeOK
<1>m. Cardinality(Basic) + Cardinality(Making) <= Cardinality(Requests) + errors
    BY DEF Made
<1>f. /\ IsFiniteSet(Making) /\ Cardinality(Making) \in Nat /\ Cardinality(Requests) \in Nat
      /\ Cardinality(Making') \in Nat /\ Cardinality(Making') <= Cardinality(Requests)
  <2>1. Making \subseteq Requests /\ Making' \subseteq Requests
    BY DEF Making
  <2> QED BY <2>1, FiniteRequests
<1>g. /\ IsFiniteSet(Basic) /\ Cardinality(Basic) \in Nat /\ Cardinality(Basic') \in Nat
  <2>1. Basic \subseteq Tokens /\ Basic' \subseteq Tokens
    BY DEF Basic
  <2> QED BY <2>1, ConstantsAssumption, FS_Subset, FS_CardinalityType
\* A step that makes no token and lets nobody make one.
<1>a. ASSUME errors' = errors \/ errors' = errors + 1,
             Basic' \subseteq Basic, Making' \subseteq Making
      PROVE  Goal
  <2>1. Cardinality(Basic') <= Cardinality(Basic)
    BY <1>a, <1>g, SmallerSet
  <2>2. Cardinality(Making') <= Cardinality(Making)
    BY <1>a, <1>f, SmallerSet
  <2> QED BY <1>a, <1>0, <1>m, <1>f, <1>g, <2>1, <2>2
<1>b. ASSUME UNCHANGED tokens PROVE Basic' = Basic
    BY <1>b DEF Basic
<1>c. ASSUME UNCHANGED <<stage, kind>> PROVE Making' = Making
    BY <1>c DEF Making
\* A step of a request that does not go on to make a token.
<1>d. ASSUME NEW r \in Requests, NEW s, stage' = [stage EXCEPT ![r] = s], s # "generate",
             \A q \in Requests : q # r => kind'[q] = kind[q]
      PROVE  Making' \subseteq Making
    BY <1>d, <1>0 DEF Making
<1>e. ASSUME NEW r \in Requests, Answer(r) PROVE Making' \subseteq Making
    BY <1>e, <1>0, <1>d DEF Answer, Goto
<1>1. ASSUME NEW r \in Requests, NEW k \in Kinds, NEW p \in Passwords, Begin(r, k, p)
      PROVE  Goal
  <2>0. /\ Goto(r, "verify") \/ Goto(r, "cache")
        /\ \A q \in Requests : q # r => kind'[q] = kind[q]
    BY <1>1, <1>0 DEF Begin
  <2>1. Making' \subseteq Making
    BY <2>0, <1>d DEF Goto
  <2> QED BY <1>1, <1>a, <1>b, <2>1 DEF Begin
<1>2. ASSUME NEW r \in Requests, NEW t \in Tokens, Present(r, t) PROVE Goal
  <2>1. Making' \subseteq Making
    BY <1>2, <1>d DEF Present, Goto
  <2> QED BY <1>2, <1>a, <1>b, <2>1 DEF Present
<1>3. ASSUME NEW r \in Requests, LookUp(r) \/ Reread(r) \/ Verify(r) \/ Store(r) PROVE Goal
  <2>1. Making' \subseteq Making
    BY <1>3, <1>d DEF LookUp, Reread, Verify, Store, Goto, local
  <2>2. UNCHANGED <<tokens, errors>>
    BY <1>3 DEF LookUp, Reread, Verify, Store
  <2> QED BY <1>a, <1>b, <2>1, <2>2
<1>4. ASSUME NEW r \in Requests, Fail(r) PROVE Goal
    BY <1>4, <1>a, <1>b, <1>e DEF Fail
<1>5. ASSUME NEW r \in Requests, Accept(r) PROVE Goal
  <2>1. UNCHANGED <<tokens, errors>>
    BY <1>5 DEF Accept
  <2>2. CASE usable[r]
    <3>1. /\ kind' = kind
          /\ stage' = [stage EXCEPT ![r] = IF kind[r] = "login" THEN "generate" ELSE "find"]
      BY <1>5, <2>2 DEF Accept, Goto
    <3>2. Making' \subseteq Making
      BY <3>1, <1>0 DEF Making
    <3> QED BY <1>a, <1>b, <2>1, <3>2
  <2>3. CASE ~usable[r]
    BY <1>5, <1>a, <1>b, <1>e, <2>1, <2>3 DEF Accept
  <2> QED BY <2>2, <2>3
<1>6. ASSUME NEW r \in Requests, Find(r) PROVE Goal
  <2>1. UNCHANGED <<tokens, errors, kind>>
    BY <1>6 DEF Find
  <2>2. CASE Reusable = {}
    <3>1. Basic = {}
      BY <1>0, <2>2 DEF Basic, Reusable, Token
    <3>2. Cardinality(Basic') = 0
      BY <1>b, <2>1, <3>1, FS_EmptySet
    <3> QED BY <1>0, <1>f, <2>1, <3>2
  <2>3. CASE Reusable # {}
    <3>1. Making' \subseteq Making
      BY <1>6, <1>d, <2>1, <2>3 DEF Find, WithToken, Goto
    <3> QED BY <1>a, <1>b, <2>1, <3>1
  <2> QED BY <2>2, <2>3
<1>7. ASSUME NEW r \in Requests, Generate(r) PROVE Goal
  <2>1. PICK t \in Tokens :
            /\ tokens' = [tokens EXCEPT ![t] = [basic |-> kind[r] # "login", fresh |-> TRUE]]
            /\ IF kind[r] = "login"
               THEN Answer(r)
               ELSE /\ Goto(r, WithToken(r)) /\ tok' = [tok EXCEPT ![r] = t]
                    /\ UNCHANGED <<kind, pw, usable, right>>
    BY <1>7 DEF Generate
  <2>2. stage[r] = "generate" /\ errors' = errors
    BY <1>7 DEF Generate
  <2>3. CASE kind[r] # "login"
    <3>1. Basic' \subseteq Basic \cup {t}
      BY <1>0, <2>1 DEF Basic
    <3>2. r \in Making /\ Making' \subseteq Making \ {r}
      BY <1>0, <2>1, <2>2, <2>3 DEF Making, WithToken, Goto
    <3>3. Cardinality(Basic') <= Cardinality(Basic) + 1
      BY <1>g, <3>1, OneMore
    <3>4. Cardinality(Making') + 1 <= Cardinality(Making)
      BY <1>f, <3>2, OneLess
    <3> QED BY <1>0, <1>m, <1>f, <1>g, <2>2, <3>3, <3>4
  <2>4. CASE kind[r] = "login"
    <3>1. Basic' \subseteq Basic
      BY <1>0, <2>1, <2>4 DEF Basic
    <3>2. Making' \subseteq Making
      BY <1>e, <2>1, <2>4
    <3> QED BY <1>a, <2>2, <3>1, <3>2
  <2> QED BY <2>3, <2>4
<1>8. ASSUME NEW r \in Requests, CheckToken(r) PROVE Goal
  <2>1. Basic' \subseteq Basic
    BY <1>8, <1>0 DEF CheckToken, Basic
  <2>2. CASE Answer(r)
    BY <1>8, <1>a, <1>e, <2>1, <2>2 DEF CheckToken
  <2>3. CASE Goto(r, "user") /\ UNCHANGED local
    <3>1. Making' \subseteq Making
      BY <1>d, <2>3 DEF Goto, local
    <3> QED BY <1>8, <1>a, <2>1, <3>1 DEF CheckToken
  <2> QED BY <1>8, <2>2, <2>3 DEF CheckToken
<1>9. ASSUME NEW r \in Requests, Admit(r) PROVE Goal
  <2>1. UNCHANGED <<tokens, errors>>
    BY <1>9 DEF Admit
  <2>2. CASE Answer(r)
    BY <1>a, <1>b, <1>e, <2>1, <2>2
  <2>3. CASE Goto(r, "admitted") /\ UNCHANGED local
    <3>1. Making' \subseteq Making
      BY <1>d, <2>3 DEF Goto, local
    <3> QED BY <1>a, <1>b, <2>1, <3>1
  <2> QED BY <1>9, <2>2, <2>3 DEF Admit
<1>10. ASSUME NEW r \in Requests, Finish(r) \/ Revoke(r) PROVE Goal
  <2>1. Basic' \subseteq Basic
    BY <1>10, <1>0, NoneIsNoRecord DEF Finish, Revoke, Basic
  <2> QED BY <1>10, <1>a, <1>e, <2>1 DEF Finish, Revoke
<1>11. ASSUME NEW r \in Requests, Refused(r) PROVE Goal
  <2>1. UNCHANGED tokens /\ errors' = errors + 1
    BY <1>11 DEF Refused
  <2>2. CASE Answer(r)
    BY <1>a, <1>b, <1>e, <2>1, <2>2
  <2>3. CASE UNCHANGED local /\ (Goto(r, "verify") \/ Goto(r, "failed"))
    <3>1. Making' \subseteq Making
      BY <1>d, <2>3 DEF Goto, local
    <3> QED BY <1>a, <1>b, <2>1, <3>1
  <2>4. CASE UNCHANGED local /\ Goto(r, "generate")
    <3>1. Making' \subseteq Making \cup {r}
      BY <1>0, <2>4 DEF Making, Goto, local
    <3>2. Cardinality(Making') <= Cardinality(Making) + 1
      BY <1>f, <3>1, OneMore
    <3> QED BY <1>0, <1>m, <1>b, <1>f, <1>g, <2>1, <3>2
  <2> QED BY <1>11, <2>2, <2>3, <2>4 DEF Refused
<1>12. ASSUME NEW r \in Requests, Client(r) PROVE Goal
  <2> HIDE DEF Goal
  <2> QED BY <1>12, <1>1, <1>2, <1>3, <1>4, <1>5, <1>6, <1>7, <1>8, <1>9, <1>10, <1>11 DEF Client
<1>13. CASE Admin
  <2>1. Basic' \subseteq Basic
    BY <1>13, <1>0
    DEF Admin, EditPassword, EditPolicy, ReadRow, Save, ChangePassword, DeleteUser, Basic
  <2>2. UNCHANGED <<stage, kind, errors>>
    BY <1>13 DEF Admin, EditPassword, EditPolicy, ReadRow, Save, ChangePassword, DeleteUser, local
  <2> QED BY <1>a, <1>c, <2>1, <2>2
<1>14. CASE Time
  <2>1. Basic' \subseteq Basic
    <3>1. CASE CleanTokens
      BY <3>1, <1>0 DEF CleanTokens, Basic
    <3>2. ASSUME NEW t \in Tokens, TokenExpires(t) PROVE Basic' \subseteq Basic
      <4>1. tokens[t] \in Token /\ tokens' = [tokens EXCEPT ![t].fresh = FALSE]
        BY <3>2, <1>0 DEF TokenExpires
      <4>2. ~tokens'[t].fresh
        BY <4>1, <1>0 DEF Token
      <4>3. \A q \in Tokens : q # t => tokens'[q] = tokens[q]
        BY <4>1, <1>0
      <4> QED BY <4>2, <4>3 DEF Basic
    <3>3. CASE UNCHANGED tokens
      BY <1>b, <3>3
    <3> QED BY <1>14, <3>1, <3>2, <3>3 DEF Time, CacheExpires, WindowEnds
  <2>2. UNCHANGED <<stage, kind, errors>>
    BY <1>14 DEF Time, CleanTokens, CacheExpires, TokenExpires, WindowEnds, local
  <2> QED BY <1>a, <1>c, <2>1, <2>2
<1>15. CASE UNCHANGED vars
    BY <1>15, <1>a, <1>b, <1>c DEF vars, local
<1> QED BY <1>12, <1>13, <1>14, <1>15 DEF Next

\* There are never more valid Basic tokens than concurrent requests and failed
\* lookups.
THEOREM BasicTokensAreBounded == Spec => []BasicTokensBounded
<1>1. Init => Made
  <2> SUFFICES ASSUME Init PROVE Made
    OBVIOUS
  <2>1. Basic = {} /\ Making = {}
    BY DEF Init, Basic, Making
  <2>2. errors = 0 /\ Cardinality(Requests) \in Nat
    BY FS_CardinalityType, ConstantsAssumption DEF Init
  <2> QED BY <2>1, <2>2, FS_EmptySet DEF Made
<1>2. Typed /\ Made /\ [Next]_vars => Made'
    BY NextMade
<1>3. Typed /\ Made => BasicTokensBounded
  <2> SUFFICES ASSUME Typed, Made
               PROVE  Cardinality(Basic) <= Cardinality(Requests) + errors
    BY DEF BasicTokensBounded
  <2>1. Cardinality(Making) \in Nat /\ Cardinality(Requests) \in Nat
    BY FiniteRequests DEF Making
  <2>2. Cardinality(Basic) \in Nat
    BY ConstantsAssumption, FS_Subset, FS_CardinalityType DEF Basic
  <2>3. errors \in Nat
    BY ConstantsAssumption DEF Typed, TypeOK
  <2> QED BY <2>1, <2>2, <2>3 DEF Made
<1> QED BY <1>1, <1>2, <1>3, TypedInvariant, PTL DEF Spec
==============================================================================
