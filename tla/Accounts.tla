------------------------------- MODULE Accounts -------------------------------
(***************************************************************************)
(* Signing in: the login handler, the token middleware with its HTTP Basic *)
(* branch, the cache of verified credentials, the limiter of failed        *)
(* attempts and the handlers that change a user's row: auth.go, token.go   *)
(* and users.go of internal/api/emby, internal/service/auth.go,            *)
(* internal/infra/ratelimit and internal/api/admin/admin_users.go.         *)
(*                                                                         *)
(* One user, seen from one address: cache entries and limiter counts of    *)
(* others have other keys.  A password hash is modelled by the password it *)
(* was made from (a second hash of the same password differs, which costs  *)
(* one more verification and nothing else), so that the hash a cache entry *)
(* keeps is that of its own password.  None is the empty hash, which no    *)
(* password matches.                                                       *)
(***************************************************************************)
EXTENDS Naturals, FiniteSets

CONSTANTS
    Passwords,
    Requests,       \* handler goroutines of clients
    Savers,         \* handler goroutines that save a whole user row
    Tokens,         \* bound: token values
    MaxAttempts,    \* login_max_attempts; 0 disables the limiter
    MaxKeys,        \* basicVerifyMaxKeys
    MaxOps,         \* bound: administrative operations begun
    MaxErrors,      \* bound: database errors
    None

ASSUME ConstantsAssumption ==
    /\ IsFiniteSet(Requests) /\ IsFiniteSet(Tokens) /\ IsFiniteSet(Passwords)
    /\ MaxAttempts \in Nat /\ MaxKeys \in Nat \ {0}
    /\ MaxOps \in Nat /\ MaxErrors \in Nat
    /\ None \notin Passwords \cup Tokens \cup {"basic", "login", "logout"}

Row   == [pw : Passwords \cup {None}, must : BOOLEAN, disabled : BOOLEAN]
Token == [basic : BOOLEAN, fresh : BOOLEAN]
Draft == [row : Row, sets : BOOLEAN]

Stages == {"idle", "cache", "reread", "verify", "failed", "store", "accepted",
           "find", "generate", "check", "user", "admitted", "revoke"}

\* How a request comes by its token: Basic credentials, a login, or a logout
\* that brought Basic credentials and has them judged again.
Kinds == {"basic", "login", "logout"}

ASSUME NoneIsNoRecord == None \notin Row \cup Token \cup Draft

VARIABLES
    user,       \* the user's row, None when it is deleted
    tokens,     \* tokens table: device and age of each token, None when absent
    cache,      \* basicVerifyCache: age of the entry of each password
    count,      \* entry.count of the limiter
    window,     \* whether the limiter's window is still open
    stage,      \* how far each request has come
    kind,       \* the kind of a request that brings credentials
    pw,         \* the password a request brings
    usable,     \* whether the row a request has verified may be used
    tok,        \* the token a request goes on with
    draft,      \* the row each saver has read and edited
    right,      \* history: whether its password has been the user's since a request began
    meant,      \* history: the password last set on purpose
    ops, errors \* the two bounds

limiter == <<count, window>>
local   == <<kind, pw, usable, tok>>
vars    == <<user, tokens, cache, limiter, stage, local, draft, right, meant, ops, errors>>

-----------------------------------------------------------------------------
Usable(row) == ~row.must /\ ~row.disabled

Goto(r, s) == stage' = [stage EXCEPT ![r] = s]

\* The request is answered and its variables are gone.
Answer(r) ==
    /\ Goto(r, "idle")
    /\ kind' = [kind EXCEPT ![r] = None]
    /\ pw' = [pw EXCEPT ![r] = None]
    /\ usable' = [usable EXCEPT ![r] = FALSE]
    /\ tok' = [tok EXCEPT ![r] = None]
    /\ right' = [right EXCEPT ![r] = FALSE]

PasswordOf(row) == IF row = None THEN None ELSE row.pw

\* The user's row is written.
Write(row) ==
    /\ user' = row
    /\ right' = [r \in Requests |->
            \/ right[r]
            \/ /\ stage[r] \in {"cache", "reread", "verify"}
               /\ pw[r] = PasswordOf(row)]

Init ==
    /\ user \in {[pw |-> p, must |-> m, disabled |-> FALSE] : p \in Passwords, m \in BOOLEAN}
    /\ tokens = [t \in Tokens |-> None]
    /\ cache = [p \in Passwords |-> "none"]
    /\ count = 0 /\ window = FALSE
    /\ stage = [r \in Requests |-> "idle"]
    /\ kind = [r \in Requests |-> None]
    /\ pw = [r \in Requests |-> None]
    /\ usable = [r \in Requests |-> FALSE]
    /\ tok = [r \in Requests |-> None]
    /\ draft = [a \in Savers |-> None]
    /\ right = [r \in Requests |-> FALSE]
    /\ meant = user.pw
    /\ ops = 0 /\ errors = 0

(***************************************************************************)
(* The limiter                                                             *)
(***************************************************************************)

\* Mutant: off by one.
LockedLate == MaxAttempts > 0 /\ window /\ count > MaxAttempts

\* IsLocked
Locked == MaxAttempts > 0 /\ window /\ count >= MaxAttempts

\* IsLocked forgets a count whose window is over.
Forget ==
    /\ count' = IF window THEN count ELSE 0
    /\ UNCHANGED window

\* RecordFailure
RecordFailure ==
    /\ count' = IF MaxAttempts = 0 THEN 0 ELSE IF window THEN count + 1 ELSE 1
    /\ window' = (MaxAttempts > 0)

\* Reset
Reset == count' = 0 /\ window' = FALSE

(***************************************************************************)
(* authenticateByName and the Basic branch of getTokenFromRequest          *)
(***************************************************************************)

\* The credentials of a request that arrives; logout takes the token from the
\* request a second time, the Basic branch included.
Brings(r, k, p) ==
    \/ /\ stage[r] = "idle"
       /\ k \in {"basic", "login"}
    \/ /\ stage[r] = "admitted" /\ kind[r] = "basic"
       /\ k = "logout" /\ p = pw[r]

\* The limiter is asked first: 429 when it has locked.
Begin(r, k, p) ==
    /\ Brings(r, k, p)
    /\ ~Locked
    /\ Goto(r, IF k = "login" THEN "verify" ELSE "cache")
    /\ kind' = [kind EXCEPT ![r] = k]
    /\ pw' = [pw EXCEPT ![r] = p]
    /\ tok' = [tok EXCEPT ![r] = None]
    /\ right' = [right EXCEPT ![r] = (p = PasswordOf(user))]
    /\ Forget
    /\ UNCHANGED <<user, tokens, cache, usable, draft, meant, ops, errors>>

\* verifyBasicCredentials looks for an entry; one that has expired is deleted.
LookUp(r) ==
    /\ stage[r] = "cache"
    /\ Goto(r, IF cache[pw[r]] = "fresh" THEN "reread" ELSE "verify")
    /\ cache' = [cache EXCEPT ![pw[r]] = IF @ = "fresh" THEN @ ELSE "none"]
    /\ UNCHANGED <<user, tokens, limiter, local, draft, right, meant, ops, errors>>

\* Mutant: the hash is not compared.
RereadTrusting(r) ==
    /\ stage[r] = "reread"
    /\ IF user # None
       THEN Goto(r, "accepted") /\ usable' = [usable EXCEPT ![r] = Usable(user)]
       ELSE Goto(r, "verify") /\ UNCHANGED usable
    /\ UNCHANGED <<user, tokens, cache, limiter, kind, pw, tok, draft, right, meant, ops, errors>>

\* A hit: the user is read again and the hash compared with the entry's.
Reread(r) ==
    /\ stage[r] = "reread"
    /\ IF user # None /\ user.pw = pw[r]
       THEN Goto(r, "accepted") /\ usable' = [usable EXCEPT ![r] = Usable(user)]
       ELSE Goto(r, "verify") /\ UNCHANGED usable
    /\ UNCHANGED <<user, tokens, cache, limiter, kind, pw, tok, draft, right, meant, ops, errors>>

\* VerifyPassword
Verify(r) ==
    /\ stage[r] = "verify"
    /\ IF user # None /\ user.pw = pw[r]
       THEN /\ Goto(r, IF kind[r] = "login" THEN "accepted" ELSE "store")
            /\ usable' = [usable EXCEPT ![r] = Usable(user)]
       ELSE Goto(r, "failed") /\ UNCHANGED usable
    /\ UNCHANGED <<user, tokens, cache, limiter, kind, pw, tok, draft, right, meant, ops, errors>>

\* 401, counted.
Fail(r) ==
    /\ stage[r] = "failed"
    /\ RecordFailure
    /\ Answer(r)
    /\ UNCHANGED <<user, tokens, cache, draft, meant, ops, errors>>

Keep(c, ages) == [p \in Passwords |-> IF c[p] \in ages THEN c[p] ELSE "none"]
Keys(c)       == {p \in Passwords : c[p] # "none"}

\* A full cache is swept, and dropped when that was not enough.
MakeRoom(c) ==
    IF Cardinality(Keys(c)) < MaxKeys THEN c
    ELSE IF Cardinality(Keys(Keep(c, {"fresh"}))) < MaxKeys THEN Keep(c, {"fresh"})
    ELSE Keep(c, {})

Store(r) ==
    /\ stage[r] = "store"
    /\ cache' = [MakeRoom(cache) EXCEPT ![pw[r]] = "fresh"]
    /\ Goto(r, "accepted")
    /\ UNCHANGED <<user, tokens, limiter, local, draft, right, meant, ops, errors>>

\* The account may have to change its password, or be disabled: 403 or 401,
\* and the count stays.  Otherwise the count is forgotten, and the request
\* goes on as the user's.
Accept(r) ==
    /\ stage[r] = "accepted"
    /\ IF usable[r]
       THEN /\ Reset
            /\ Goto(r, IF kind[r] = "login" THEN "generate" ELSE "find")
            /\ usable' = [usable EXCEPT ![r] = FALSE]
            /\ pw' = [pw EXCEPT ![r] = IF kind[r] = "basic" THEN @ ELSE None]
            /\ UNCHANGED <<kind, tok, right>>
       ELSE Answer(r) /\ UNCHANGED limiter
    /\ UNCHANGED <<user, tokens, cache, draft, meant, ops, errors>>

Reusable == {t \in Tokens : tokens[t] = [basic |-> TRUE, fresh |-> TRUE]}

\* Mutant: every request makes a token.
FindNever(r) ==
    /\ stage[r] = "find"
    /\ Goto(r, "generate")
    /\ UNCHANGED <<user, tokens, cache, limiter, local, draft, right, meant, ops, errors>>

\* What a request does with the token it has found or made.
WithToken(r) == IF kind[r] = "logout" THEN "revoke" ELSE "check"

\* FindValidToken
Find(r) ==
    /\ stage[r] = "find"
    /\ IF Reusable = {}
       THEN Goto(r, "generate") /\ UNCHANGED tok
       ELSE \E t \in Reusable : Goto(r, WithToken(r)) /\ tok' = [tok EXCEPT ![r] = t]
    /\ UNCHANGED <<user, tokens, cache, limiter, kind, pw, usable, draft, right, meant, ops, errors>>

\* GenerateToken: a value that is not in use.  The login answers with it, a
\* Basic request goes on with it.
Generate(r) ==
    /\ stage[r] = "generate"
    /\ \E t \in Tokens :
        /\ tokens[t] = None /\ \A q \in Requests : tok[q] # t
        /\ tokens' = [tokens EXCEPT ![t] = [basic |-> kind[r] # "login", fresh |-> TRUE]]
        /\ IF kind[r] = "login"
           THEN Answer(r)
           ELSE /\ Goto(r, WithToken(r)) /\ tok' = [tok EXCEPT ![r] = t]
                /\ UNCHANGED <<kind, pw, usable, right>>
    /\ UNCHANGED <<user, cache, limiter, draft, meant, ops, errors>>

(***************************************************************************)
(* AuthTokenMiddleware                                                     *)
(***************************************************************************)

\* A request that brings a token.
Present(r, t) ==
    /\ stage[r] = "idle"
    /\ tokens[t] # None
    /\ tok' = [tok EXCEPT ![r] = t]
    /\ Goto(r, "check")
    /\ UNCHANGED <<user, tokens, cache, limiter, kind, pw, usable, draft, right, meant, ops, errors>>

\* VerifyToken: a token that has expired is deleted; 401 for it and for one
\* that is not there any more.
CheckToken(r) ==
    /\ stage[r] = "check"
    /\ LET t == tokens[tok[r]] IN
       IF t # None /\ t.fresh
       THEN Goto(r, "user") /\ UNCHANGED <<tokens, local, right>>
       ELSE Answer(r) /\ tokens' = [tokens EXCEPT ![tok[r]] = None]
    /\ UNCHANGED <<user, cache, limiter, draft, meant, ops, errors>>

\* The user is read once more: 401, 403, or the request is let in.
Admit(r) ==
    /\ stage[r] = "user"
    /\ IF user # None /\ Usable(user)
       THEN Goto(r, "admitted") /\ UNCHANGED <<local, right>>
       ELSE Answer(r)
    /\ UNCHANGED <<user, tokens, cache, limiter, draft, meant, ops, errors>>

\* The handler proper, or a logout that the limiter refuses.
Finish(r) ==
    /\ stage[r] = "admitted"
    /\ Answer(r)
    /\ UNCHANGED <<user, tokens, cache, limiter, draft, meant, ops, errors>>

\* logout: RevokeToken of the token it has taken from the request.
Revoke(r) ==
    /\ \/ stage[r] = "revoke"
       \/ stage[r] = "admitted" /\ kind[r] = None
    /\ tokens' = [tokens EXCEPT ![tok[r]] = None]
    /\ Answer(r)
    /\ UNCHANGED <<user, cache, limiter, draft, meant, ops, errors>>

\* The database refuses: a verification counts as failed, a token that cannot
\* be looked for is made, the rest ends the request.
Refused(r) ==
    /\ errors < MaxErrors
    /\ errors' = errors + 1
    /\ \/ stage[r] = "reread" /\ Goto(r, "verify") /\ UNCHANGED <<local, right>>
       \/ stage[r] = "verify" /\ Goto(r, "failed") /\ UNCHANGED <<local, right>>
       \/ stage[r] = "find" /\ Goto(r, "generate") /\ UNCHANGED <<local, right>>
       \/ stage[r] \in {"generate", "check", "user", "revoke"} /\ Answer(r)
    /\ UNCHANGED <<user, tokens, cache, limiter, draft, meant, ops>>

(***************************************************************************)
(* Administration                                                          *)
(***************************************************************************)
Op == ops < MaxOps /\ ops' = ops + 1

\* setUserPassword and setUserPolicy read the row and edit their copy.
ReadRow(a, sets, row) ==
    /\ Op
    /\ draft[a] = None
    /\ user # None
    /\ draft' = [draft EXCEPT ![a] = [row |-> row, sets |-> sets]]
    /\ UNCHANGED <<user, tokens, cache, limiter, stage, local, right, meant, errors>>

EditPassword(a, p) == user # None /\ ReadRow(a, TRUE, [user EXCEPT !.pw = p])
EditPolicy(a, d)   == user # None /\ ReadRow(a, FALSE, [user EXCEPT !.disabled = d])

\* Save writes every column, and inserts the row when it is gone.
Save(a) ==
    /\ draft[a] # None
    /\ Write(draft[a].row)
    /\ meant' = IF draft[a].sets THEN draft[a].row.pw ELSE meant
    /\ draft' = [draft EXCEPT ![a] = None]
    /\ UNCHANGED <<tokens, cache, limiter, stage, local, ops, errors>>

\* changeUserPassword: one UPDATE of the two columns.
ChangePassword(p) ==
    /\ Op
    /\ user # None
    /\ Write([user EXCEPT !.pw = p, !.must = FALSE])
    /\ meant' = p
    /\ UNCHANGED <<tokens, cache, limiter, stage, local, draft, errors>>

\* deleteUser, deleteUserCore: the tokens and the row, in one transaction.
DeleteUser ==
    /\ Op
    /\ user # None
    /\ Write(None)
    /\ tokens' = [t \in Tokens |-> None]
    /\ UNCHANGED <<cache, limiter, stage, local, draft, meant, errors>>

\* cleanExpiredTokens
CleanTokens ==
    /\ \E t \in Tokens : tokens[t] # None /\ ~tokens[t].fresh
    /\ tokens' = [t \in Tokens |->
            IF tokens[t] # None /\ tokens[t].fresh THEN tokens[t] ELSE None]
    /\ UNCHANGED <<user, cache, limiter, stage, local, draft, right, meant, ops, errors>>

\* Time passes: a cache entry, a token, the limiter's window.
CacheExpires(p) ==
    /\ cache[p] = "fresh"
    /\ cache' = [cache EXCEPT ![p] = "stale"]
    /\ UNCHANGED <<user, tokens, limiter, stage, local, draft, right, meant, ops, errors>>

TokenExpires(t) ==
    /\ tokens[t] # None /\ tokens[t].fresh
    /\ tokens' = [tokens EXCEPT ![t].fresh = FALSE]
    /\ UNCHANGED <<user, cache, limiter, stage, local, draft, right, meant, ops, errors>>

WindowEnds ==
    /\ window
    /\ window' = FALSE
    /\ UNCHANGED <<user, tokens, cache, count, stage, local, draft, right, meant, ops, errors>>

-----------------------------------------------------------------------------
Client(r) ==
    \/ \E k \in Kinds, p \in Passwords : Begin(r, k, p)
    \/ \E t \in Tokens : Present(r, t)
    \/ LookUp(r) \/ Reread(r) \/ Verify(r) \/ Fail(r) \/ Store(r) \/ Accept(r)
    \/ Find(r) \/ Generate(r) \/ CheckToken(r) \/ Admit(r)
    \/ Finish(r) \/ Revoke(r) \/ Refused(r)

Admin ==
    \/ \E a \in Savers, p \in Passwords \cup {None} : EditPassword(a, p)
    \/ \E a \in Savers, d \in BOOLEAN : EditPolicy(a, d)
    \/ \E a \in Savers : Save(a)
    \/ \E p \in Passwords : ChangePassword(p)
    \/ DeleteUser

Time ==
    \/ CleanTokens
    \/ \E p \in Passwords : CacheExpires(p)
    \/ \E t \in Tokens : TokenExpires(t)
    \/ WindowEnds

Next == (\E r \in Requests : Client(r)) \/ Admin \/ Time

Spec == Init /\ [][Next]_vars

-----------------------------------------------------------------------------
TypeOK ==
    /\ user \in Row \cup {None}
    /\ tokens \in [Tokens -> Token \cup {None}]
    /\ cache \in [Passwords -> {"none", "fresh", "stale"}]
    /\ Cardinality(Keys(cache)) <= MaxKeys
    /\ count \in Nat /\ window \in BOOLEAN
    /\ stage \in [Requests -> Stages]
    /\ kind \in [Requests -> Kinds \cup {None}]
    /\ pw \in [Requests -> Passwords \cup {None}]
    /\ usable \in [Requests -> BOOLEAN]
    /\ tok \in [Requests -> Tokens \cup {None}]
    /\ draft \in [Savers -> Draft \cup {None}]
    /\ right \in [Requests -> BOOLEAN]
    /\ meant \in Passwords \cup {None}
    /\ ops \in 0 .. MaxOps /\ errors \in 0 .. MaxErrors

\* A request is let in on Basic credentials only with a password the user
\* has had at some time since the request began, although the password may
\* have been verified by another request, up to 30 s before ("命中时仍回读
\* 用户并比对 PasswordHash —— 改密后旧凭据立刻失效").
BasicFresh ==
    \A r \in Requests : stage[r] = "admitted" /\ kind[r] = "basic" => right[r]

Basic == {t \in Tokens : tokens[t] # None /\ tokens[t].basic /\ tokens[t].fresh}

\* A client that sends Basic credentials with every request does not make a
\* token with every request: there are never more valid ones than requests
\* that looked for one at the same time, and lookups that failed.
BasicTokensBounded == Cardinality(Basic) <= Cardinality(Requests) + errors

\* Past the threshold only those requests add to the failures that had been
\* let through before it was reached: so many guesses fit into a window.
AttemptsBounded ==
    MaxAttempts > 0 /\ window => count <= MaxAttempts - 1 + Cardinality(Requests)

\* A password that was changed is not accepted any more ("改密后旧 Basic 凭据
\* 必须立刻失效"): only the password last set on purpose is.
OldPasswordRefused ==
    [][\A r \in Requests : stage[r] \in {"reread", "verify"}
            /\ stage'[r] \in {"store", "accepted"} => pw[r] = meant]_vars
=============================================================================
