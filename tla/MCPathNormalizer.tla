-------------------------- MODULE MCPathNormalizer --------------------------
(* A choice of the real routes, in the order in which gin lists them: fixed   *)
(* ones beside parameters, routes that are registered in two spellings and    *)
(* for several methods, and the two kinds of segments that carry a parameter. *)
EXTENDS PathNormalizer, TLC

Symmetric == Permutations(Clients)

P(segs) == [segs |-> segs, slash |-> FALSE]
S(segs) == [segs |-> segs, slash |-> TRUE]
Route(method, path, handler) == [method |-> method, path |-> path, handler |-> handler]
Req(method, path) == [method |-> method, path |-> path]

MCRoutes == <<
    Route("GET", S(<<"emby">>), "ping"),
    Route("GET", P(<<"emby">>), "ping"),
    Route("GET", P(<<"emby", "Items", "Counts">>), "counts"),
    Route("GET", P(<<"emby", "Items", ":itemId">>), "item"),
    Route("GET", P(<<"emby", "Users", ":userId", "Items", "Latest">>), "latest"),
    Route("GET", P(<<"emby", "Users", ":userId", "Items", ":itemId">>), "userItem"),
    Route("GET", P(<<"emby", "Users", ":userId">>), "user"),
    Route("GET", P(<<"emby", "Videos", ":itemId", "original.:container">>), "stream"),
    Route("GET", P(<<"emby", "Videos", ":itemId", "original">>), "stream"),
    Route("GET", P(<<"emby", "items", "counts">>), "counts"),
    Route("GET", P(<<"emby", "users", ":userId", "items", "latest">>), "latest"),
    Route("GET", P(<<"emby", "users", ":userId", "items", ":itemId">>), "userItem"),
    Route("GET", P(<<"emby", "embysocket">>), "socket"),
    Route("GET", P(<<"embywebsocket">>), "socket"),
    Route("GET", P(<<"admin", "app.js">>), "web"),
    Route("POST", P(<<"emby", "Items", ":itemId", "PlaybackInfo">>), "info"),
    Route("POST", P(<<"emby", "Users", "New">>), "create"),
    Route("POST", P(<<"emby", "items", ":itemId", "playbackinfo">>), "info"),
    Route("DELETE", P(<<"emby", "Users", ":userId">>), "delete") >>

MCLower == "EMBY" :> "emby" @@ "Items" :> "items" @@ "ITEMS" :> "items" @@ "Counts" :> "counts"
        @@ "Users" :> "users" @@ "Latest" :> "latest" @@ "Videos" :> "videos" @@ "New" :> "new"
        @@ "X1" :> "x1" @@ "ORIGINAL.mp4" :> "original.mp4" @@ "Socket" :> "socket"
        @@ "EmbySocket" :> "embysocket" @@ "PlaybackInfo" :> "playbackinfo"
        @@ "original.:container" :> "original.:container" @@ ":itemId" :> ":itemid" @@ ":userId" :> ":userid"

MCRequests ==
    {Req("GET", p) : p \in {
        P(<<"emby", "Items", "Counts">>), P(<<"ITEMS", "counts">>), S(<<"emby", "Items", "counts">>),
        P(<<"emby", "Items", "counts">>),
        P(<<"emby", "Items", "X1">>), P(<<"emby", "items", "x1">>), P(<<"Items", "X1">>),
        P(<<"emby", "Users", "X1", "Items", "Latest">>), P(<<"users", "X1", "items", "latest">>),
        P(<<"emby", "Users", "X1", "Items", "latest">>),
        P(<<"emby", "Users", "X1", "Items", "x1">>), P(<<"EMBY", "users", "x1", "ITEMS", "X1">>),
        P(<<"emby", "Users", "new">>), P(<<"emby", "users">>), P(<<"emby", "Items">>),
        P(<<"emby", "Videos", "X1", "original">>), P(<<"videos", "X1", "original">>),
        P(<<"emby", "Videos", "X1", "original.mp4">>), P(<<"videos", "X1", "ORIGINAL.mp4">>),
        P(<<"EMBY">>), S(<<"emby">>), P(<<"Socket">>), P(<<"emby", "EmbySocket">>), P(<<"embywebsocket">>),
        P(<<"admin", "app.js">>), P(<<>>)}}
    \cup {Req("POST", p) : p \in {
        P(<<"emby", "Users", "New">>), P(<<"emby", "Users", "new">>), P(<<"users", "new">>),
        P(<<"users", "X1">>), P(<<"emby", "Items", "x1", "playbackinfo">>), P(<<"items", "X1", "PlaybackInfo">>)}}
    \cup {Req("DELETE", p) : p \in {P(<<"users", "X1">>), P(<<"emby", "Users", "new">>)}}

MCEndings == "original.:container" :> {"original.mp4"}
=============================================================================
