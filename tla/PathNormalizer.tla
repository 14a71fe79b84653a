--------------------------- MODULE PathNormalizer ---------------------------
(***************************************************************************)
(* The handler in front of the router that puts the prefix /emby and the   *)
(* spelling of the registered routes on the paths of requests, with a      *)
(* cache that all requests share:                                          *)
(* internal/api/emby/pathnormalize.go.                                     *)
(*                                                                         *)
(* A path has segments and perhaps a slash at its end.  The router of gin, *)
(* behind the handler, is external: it matches with case and prefers a     *)
(* fixed segment to a parameter.  It never looks at RawPath, which is      *)
(* rewritten the same way and left out here.                               *)
(***************************************************************************)
EXTENDS Naturals, Sequences, FiniteSets

CONSTANTS
    Routes,      \* as router.Routes() lists them: [method, path, handler]
    Params,      \* segments of routes that are a parameter
    Endings,     \* by segment with a parameter at its end: what fits there
    Lower,       \* words in other than lower case, with their lower case
    embyNamespaces,
    Requests,    \* [method, path]
    Clients,
    None,
    MaxRequests  \* bound

VARIABLES
    cache,   \* by path in lower case: a pattern, or None if there is none
    at,      \* by client: "idle", "load" or "scan"
    request, \* by client: the request it has made last
    cand,    \* by client: its path with the prefix
    answer,  \* by client: the path that the router gets, None before
    made     \* bound

vars == <<cache, at, request, cand, answer, made>>

-----------------------------------------------------------------------------
ToLower(word)    == IF word \in DOMAIN Lower THEN Lower[word] ELSE word
LowerSegs(segs)  == [i \in DOMAIN segs |-> ToLower(segs[i])]
LowerPath(path)  == [segs |-> LowerSegs(path.segs), slash |-> path.slash]
Path(segs)       == [segs |-> segs, slash |-> FALSE]

IsPattern(k)  == \E i \in DOMAIN Routes[k].path.segs :
                    Routes[k].path.segs[i] \in Params \cup DOMAIN Endings
UnderEmby(p)  == Len(p.segs) > 0 /\ p.segs[1] = "emby" /\ (Len(p.segs) > 1 \/ p.slash)

First(S) == CHOOSE k \in S : \A j \in S : k <= j

\* NewEmbyPathNormalizer: of routes that differ in case the first one counts.
exact    == {k \in DOMAIN Routes : UnderEmby(Routes[k].path) /\ ~IsPattern(k)}
patterns == {k \in DOMAIN Routes : UnderEmby(Routes[k].path) /\ IsPattern(k)}

\* A segment that only ends in a parameter counts as a fixed one.
match(k, req) ==
    LET segs == Routes[k].path.segs IN
    /\ Len(req) = Len(segs)
    /\ \A i \in DOMAIN segs : segs[i] \in Params \/ ToLower(segs[i]) = req[i]

\* The fixed segments from the route, the others as they came, if they did.
rebuild(k, segs) ==
    LET fixed == Routes[k].path.segs
    IN  Path([i \in DOMAIN fixed |-> IF fixed[i] \notin Params THEN fixed[i]
                                    ELSE IF i \in DOMAIN segs THEN segs[i] ELSE ""])

scan(path) ==
    LET hits == {k \in patterns : match(k, LowerSegs(path.segs))}
    IN  IF hits = {} THEN None ELSE First(hits)

-----------------------------------------------------------------------------
(***************************************************************************)
(* normalize, before the cache is asked                                    *)
(***************************************************************************)
Aliases == {<<"socket">>, <<"embysocket">>, <<"emby", "embywebsocket">>, <<"emby", "embysocket">>}
WebSocket == <<"embywebsocket">>

\* The path is left as it is, or is another name of the WebSocket's.
Decided(path) ==
    LET low == LowerSegs(path.segs) IN
    \/ low \in Aliases \cup {WebSocket, <<>>}
    \/ low[1] \notin embyNamespaces \cup {"emby"}

Direct(path) == IF LowerSegs(path.segs) \in Aliases THEN Path(WebSocket) ELSE path

Candidate(path) ==
    IF ToLower(path.segs[1]) # "emby" THEN [path EXCEPT !.segs = <<"emby">> \o @]
    ELSE IF Len(path.segs) = 1 THEN [segs |-> <<"emby">>, slash |-> TRUE]
    ELSE path

SameSpelling(path) == {k \in exact : LowerPath(Routes[k].path) = LowerPath(path)}

\* With a pattern, or the lack of one, the path is settled.
Settled(k, path) == IF k = None THEN path ELSE rebuild(k, path.segs)

-----------------------------------------------------------------------------
Init ==
    /\ cache = <<>>
    /\ at = [c \in Clients |-> "idle"]
    /\ request = [c \in Clients |-> None] /\ cand = [c \in Clients |-> None]
    /\ answer = [c \in Clients |-> None]
    /\ made = 0

Arrive(c, r) ==
    /\ at[c] = "idle" /\ made < MaxRequests
    /\ made' = made + 1
    /\ request' = [request EXCEPT ![c] = r]
    /\ LET path == r.path
           with == IF Decided(path) THEN Direct(path) ELSE Candidate(path)
           same == IF Decided(path) THEN {} ELSE SameSpelling(with)
       IN  /\ cand' = [cand EXCEPT ![c] = with]
           /\ IF Decided(path) \/ same # {}
              THEN /\ answer' = [answer EXCEPT ![c] =
                                    IF same # {} THEN Routes[First(same)].path ELSE with]
                   /\ UNCHANGED at
              ELSE /\ at' = [at EXCEPT ![c] = "load"]
                   /\ answer' = [answer EXCEPT ![c] = None]
    /\ UNCHANGED cache

Done(c, k) ==
    /\ at' = [at EXCEPT ![c] = "idle"]
    /\ answer' = [answer EXCEPT ![c] = Settled(k, cand[c])]

Load(c) ==
    /\ at[c] = "load"
    /\ LET key == LowerPath(cand[c]) IN
       IF key \in DOMAIN cache THEN Done(c, cache[key])
       ELSE at' = [at EXCEPT ![c] = "scan"] /\ UNCHANGED answer
    /\ UNCHANGED <<cache, request, cand, made>>

\* Mutant: what is found for a path is taken to hold for the one above it, too.
RememberedShort(path, k) ==
    LET above == SubSeq(LowerSegs(path.segs), 1, Len(path.segs) - 1)
    IN  [p \in DOMAIN cache \cup {LowerPath(path), Path(above)} |->
            IF p \in DOMAIN cache THEN cache[p] ELSE k]

Remembered(path, k) ==
    [p \in DOMAIN cache \cup {LowerPath(path)} |-> IF p = LowerPath(path) THEN k ELSE cache[p]]

Store(c) ==
    /\ at[c] = "scan"
    /\ cache' = Remembered(cand[c], scan(cand[c]))
    /\ Done(c, scan(cand[c]))
    /\ UNCHANGED <<request, cand, made>>

Next ==
    \E c \in Clients : (\E r \in Requests : Arrive(c, r)) \/ Load(c) \/ Store(c)

Spec == Init /\ [][Next]_vars

-----------------------------------------------------------------------------
(***************************************************************************)
(* The router                                                              *)
(***************************************************************************)
Fits(segment, text) ==
    IF segment \in Params THEN text # ""
    ELSE IF segment \in DOMAIN Endings THEN text \in Endings[segment] ELSE segment = text

Rank(segment) == IF segment \in Params THEN 2 ELSE IF segment \in DOMAIN Endings THEN 1 ELSE 0

Fitting(method, path) ==
    {k \in DOMAIN Routes :
        LET route == Routes[k] IN
        /\ route.method = method /\ route.path.slash = path.slash
        /\ Len(route.path.segs) = Len(path.segs)
        /\ \A i \in DOMAIN path.segs : Fits(route.path.segs[i], path.segs[i])}

\* At the first segment where two of them differ in rank the fixed one wins.
Before(j, k) ==
    LET a == Routes[j].path.segs
        b == Routes[k].path.segs
    IN  \A i \in DOMAIN a : (\A h \in 1 .. i - 1 : Rank(a[h]) = Rank(b[h])) => Rank(a[i]) <= Rank(b[i])

MostSpecific(fit) == IF fit = {} THEN None ELSE CHOOSE k \in fit : \A j \in fit : Before(k, j)

Served(method, path) == MostSpecific(Fitting(method, path))

Args(k, segs) == [i \in {i \in DOMAIN segs : Routes[k].path.segs[i] \in Params} |-> segs[i]]

-----------------------------------------------------------------------------
(***************************************************************************)
(* Properties                                                              *)
(***************************************************************************)
TypeOK ==
    /\ at \in [Clients -> {"idle", "load", "scan"}]
    /\ \A c \in Clients : request[c] \in Requests \cup {None}
    /\ \A p \in DOMAIN cache : cache[p] \in patterns \cup {None}

Answered == {c \in Clients : answer[c] # None}

Prefixed(path) ==
    IF Len(path.segs) > 0 /\ ToLower(path.segs[1]) \in embyNamespaces
    THEN [path EXCEPT !.segs = <<"emby">> \o @] ELSE path

\* A router that did not look at case would give a request, with the prefix, to
\* this route.
FitsAnyCase(segment, text) ==
    \/ Fits(segment, text) \/ Fits(segment, ToLower(text))
    \/ segment \notin DOMAIN Endings /\ ToLower(segment) = ToLower(text)

FittingAnyCase(method, path) ==
    {k \in DOMAIN Routes :
        LET route == Routes[k] IN
        /\ route.method = method /\ route.path.slash = path.slash
        /\ Len(route.path.segs) = Len(path.segs)
        /\ \A i \in DOMAIN path.segs : FitsAnyCase(route.path.segs[i], path.segs[i])}

MeantBy(r) ==
    LET path == Prefixed(r.path)
    IN  IF UnderEmby(LowerPath(path)) THEN MostSpecific(FittingAnyCase(r.method, path)) ELSE None

WholeSegments(k) == \A i \in DOMAIN Routes[k].path.segs : Routes[k].path.segs[i] \notin DOMAIN Endings

\* No parameter of the route is, but for case, a fixed segment of another route,
\* whatever that one's method.
Unmistakable(k, path) ==
    \A j \in exact \cup patterns : match(j, LowerSegs(path.segs)) =>
        \A i \in DOMAIN path.segs :
            Routes[k].path.segs[i] \in Params => Routes[j].path.segs[i] \in Params

Reaches(c, k) ==
    LET now == Served(request[c].method, answer[c])
    IN  /\ now # None
        /\ Routes[now].handler = Routes[k].handler
        /\ Args(now, answer[c].segs) = Args(k, Prefixed(request[c].path).segs)

\* Whatever was asked before and whoever asks at the same time, a request comes
\* to the handler to which a router that ignores case would bring it, with its
\* own spelling of the parameters.  Not so for routes with a segment that only
\* ends in a parameter, nor for a parameter that is, but for case, a fixed
\* segment of another route.
ReachesItsRoute ==
    \A c \in Answered :
        LET k    == MeantBy(request[c])
            path == Prefixed(request[c].path)
        IN  k # None /\ WholeSegments(k) /\ Unmistakable(k, path) => Reaches(c, k)

\* What the comment at the top of pathnormalize.go says of all of them.
EveryRouteInAnyCase ==
    \A c \in Answered : LET k == MeantBy(request[c]) IN k # None => Reaches(c, k)

\* The answer is the one that an empty cache gives; paths that are not of Emby,
\* and those that no route answers, only get the prefix.
CacheUnobservable ==
    \A c \in Answered :
        LET path == request[c].path IN
        answer[c] = IF Decided(path) THEN Direct(path)
                    ELSE LET with == Candidate(path) IN
                         IF SameSpelling(with) # {} THEN Routes[First(SameSpelling(with))].path
                         ELSE Settled(scan(with), with)

\* A request comes where it belongs, whatever the cache holds: the two above.
ComesWhereItBelongs == ReachesItsRoute /\ CacheUnobservable
=============================================================================
