------------------------------ MODULE Streaming ------------------------------
(***************************************************************************)
(* The addresses that PlaybackInfo gives out, what becomes of them when    *)
(* they are opened, and the redirects that follow:                         *)
(* internal/api/emby/playback.go, internal/infra/signer, infra/source.     *)
(*                                                                         *)
(* Addresses and redirects leave the server with a signature and come back *)
(* later, from players that have nothing else, when users, items, sources, *)
(* the time or the key may have changed.  Strings are sequences of         *)
(* characters, of which "%" and "|" matter; "%" also stands for the other  *)
(* characters that an address cannot hold as they are.                     *)
(***************************************************************************)
EXTENDS AccessPolicy, Sequences

CONSTANTS
    Library,    \* the library of all items
    Addresses,  \* network addresses of clients
    Confs,      \* the configurations: [key, mode, plain, sign, bindIP]
    Tables,     \* the tables at the start: [users, rows, media]
    Policies,   \* the stored policies that may be saved
    Editions,   \* what an import may put in the place of an item's media
    Files,      \* the content of the STRM files: a URL, or None
    TTL,        \* how long a signature lasts
    Random,     \* the word for a key that is made at every start
    MaxTime, MaxStarts, MaxChanges, MaxIssued, MaxSent   \* bounds

VARIABLES
    conf,       \* the configuration
    clock,
    starts,     \* how often the program has been started
    users,      \* users' rows: [policy, mustChange]
    rows,       \* items' rows, as in AccessPolicy
    media,      \* by item: [video, audio, sources, subtitles]
    issued,     \* addresses that players have, with the moment they are from
    sent,       \* redirects that players follow, with the client they went to
    changes     \* bound

vars == <<conf, clock, starts, users, rows, media, issued, sent, changes>>

-----------------------------------------------------------------------------
(***************************************************************************)
(* Configuration                                                           *)
(***************************************************************************)

\* EnsureSignKey: without a key of its own the program makes one at each start.
Key == IF conf.key = Random THEN <<"random", starts>> ELSE <<conf.key>>

\* Whole segments are compared, and no part of a host.
URLPrefixMatches(url, prefix) ==
    /\ url.origin = prefix.origin
    /\ Len(prefix.path) <= Len(url.path)
    /\ SubSeq(url.path, 1, Len(prefix.path)) = prefix.path

ShouldSign(url) ==
    /\ conf.mode # "plain"
    /\ \A prefix \in conf.plain : ~URLPrefixMatches(url, prefix)
    /\ conf.sign = {} \/ \E prefix \in conf.sign : URLPrefixMatches(url, prefix)

signedClientIP(ip) == IF conf.bindIP THEN ip ELSE None

-----------------------------------------------------------------------------
(***************************************************************************)
(* Signatures                                                              *)
(***************************************************************************)
Concat(parts) ==
    LET To[n \in 0 .. Len(parts)] == IF n = 0 THEN <<>> ELSE To[n - 1] \o parts[n]
    IN  To[Len(parts)]

\* Mutant: the sign that starts an escape is not escaped itself.
EscapeBarOnly(s) == Concat([i \in DOMAIN s |-> IF s[i] = "|" THEN <<"%", "7", "C">> ELSE <<s[i]>>])

Escape(s) == Concat([i \in DOMAIN s |-> CASE s[i] = "%" -> <<"%", "2", "5">>
                                          [] s[i] = "|" -> <<"%", "7", "C">>
                                          [] OTHER      -> <<s[i]>>])

Payload(item, source, user, ip) ==
    [type |-> <<"video">>, item |-> item, source |-> source, user |-> user, index |-> <<>>, ip |-> ip]

String(p) ==
    Escape(p.type) \o <<"|">> \o Escape(p.item) \o <<"|">> \o Escape(p.source) \o <<"|">>
    \o Escape(p.user) \o <<"|">> \o Escape(p.index)
    \o (IF p.ip = None THEN <<>> ELSE <<"|", "i", "p", "=", p.ip>>)

sign(text, exp) == [key |-> Key, text |-> text, exp |-> exp]
Sign(p)         == [exp |-> clock + TTL, sig |-> sign(String(p), clock + TTL)]

\* Mutant: the last second is not counted any more.
VerifyRawEarly(text, exp, sig) == clock < exp /\ sig = sign(text, exp)

VerifyRaw(text, exp, sig) == clock <= exp /\ sig = sign(text, exp)

-----------------------------------------------------------------------------
(***************************************************************************)
(* Who may ask                                                             *)
(***************************************************************************)
PolicyOf(u) == Normalize(users[u].policy)

\* The path of "original" is none of those that ask for permission to play.
AsksToPlay(kind) == kind # "original"

\* Mutant: the item is not looked at, the signature having named it.
authorizeMediaRequestOnce(kind, u, item) ==
    LET p == PolicyOf(u) IN
    /\ p # Invalid /\ ~p.isdisabled /\ ~users[u].mustChange
    /\ AsksToPlay(kind) => p.enablemediaplayback

authorizeMediaRequest(kind, u, item) ==
    LET p == PolicyOf(u) IN
    /\ p # Invalid /\ ~p.isdisabled /\ ~users[u].mustChange
    /\ AsksToPlay(kind) => p.enablemediaplayback
    /\ item \in DOMAIN rows => CanAccessItem(p, item, rows, {Library})

Authorized(kind, u, item) == u \in DOMAIN users /\ authorizeMediaRequest(kind, u, item)

-----------------------------------------------------------------------------
(***************************************************************************)
(* Redirects                                                               *)
(***************************************************************************)
Answer(code) == [code |-> code, to |-> None]

Resolve(source) == IF source.protocol = "strm" THEN Files[source.url] ELSE source.url

\* Our parameters are set over those that the URL has of the same name.
Ours == {"item_id", "source_id", "uid", "type", "exp", "sig"}
Signed(url) == [url EXCEPT !.query = @ \ Ours]

redirectSource(u, item, source, ip) ==
    LET raw == Resolve(source)
        s   == Sign(Payload(item, source.id, u, signedClientIP(ip)))
    IN  CASE raw = None -> Answer(502)
          [] raw # None /\ ShouldSign(raw) ->
                [code |-> 302, to |-> [url |-> Signed(raw), item |-> item, source |-> source.id,
                                       user |-> u, exp |-> s.exp, sig |-> s.sig]]
          [] OTHER -> [code |-> 302, to |-> [url |-> raw, item |-> item, source |-> source.id,
                                             user |-> u, exp |-> None, sig |-> None]]

SourcesOf(item) == IF item \in DOMAIN media THEN media[item].sources ELSE <<>>

\* The source that is asked for, or the first one.
Selected(item, id) ==
    {k \in DOMAIN SourcesOf(item) : IF id = None THEN k = 1 ELSE SourcesOf(item)[k].id = id}

streamVideo(u, item, id, ip) ==
    IF item \notin DOMAIN rows \/ Selected(item, id) = {} THEN Answer(404)
    ELSE redirectSource(u, item, SourcesOf(item)[CHOOSE k \in Selected(item, id) : TRUE], ip)

-----------------------------------------------------------------------------
(***************************************************************************)
(* Addresses                                                               *)
(***************************************************************************)
AddressOf(u, item, source, ip) ==
    LET s == Sign(Payload(item, source.id, u, signedClientIP(ip)))
    IN  IF ShouldSign(source.url)
        THEN [item |-> item, source |-> source.id, user |-> u, exp |-> s.exp, sig |-> s.sig]
        ELSE [item |-> item, source |-> source.id, user |-> None, exp |-> None, sig |-> None]

\* Ids are put into the address as they are, so one that would have to be
\* escaped arrives as another one.
Arrives(id) == IF \E k \in DOMAIN id : id[k] = "%" THEN None ELSE id

\* What a player gets that has nothing but the address.
Open(kind, address, ip) ==
    LET item   == Arrives(address.item)
        source == Arrives(address.source)
    IN  CASE address.sig = None -> Answer(401)
          [] item = None \/ source = None -> Answer(401)
          [] OTHER ->
                IF ~VerifyRaw(String(Payload(item, source, address.user, signedClientIP(ip))),
                              address.exp, address.sig)
                   \/ address.user \notin DOMAIN users
                THEN Answer(401)
                ELSE IF ~authorizeMediaRequest(kind, address.user, item) THEN Answer(403)
                ELSE streamVideo(address.user, item, source, ip)

\* The callback of a reverse proxy, with the parameters of the redirect or
\* with the text that was signed.
verifySignedURL(to, ip) ==
    VerifyRaw(String(Payload(to.item, to.source, to.user, signedClientIP(ip))), to.exp, to.sig)
verifyRawPayload(to) ==
    ~conf.bindIP /\ VerifyRaw(String(Payload(to.item, to.source, to.user, None)), to.exp, to.sig)

-----------------------------------------------------------------------------
(***************************************************************************)
(* The streams of an item: video, audio, then subtitles                    *)
(***************************************************************************)
MediaStreamBaseIndex(m) == (IF m.video THEN 1 ELSE 0) + (IF m.audio THEN 1 ELSE 0)

MediaStreams(m) ==
    LET video == IF m.video THEN <<[type |-> "Video", index |-> 0]>> ELSE <<>>
        audio == IF m.audio THEN <<[type |-> "Audio", index |-> Len(video)]>> ELSE <<>>
        base  == MediaStreamBaseIndex(m)
    IN  video \o audio
        \o [k \in DOMAIN m.subtitles |-> [type |-> "Subtitle", index |-> base + k - 1]]

\* Mutant: the position in the table is taken for the index.
streamSubtitleByPosition(m, index) ==
    {m.subtitles[k] : k \in {k \in DOMAIN m.subtitles : k - 1 = index}}

streamSubtitle(m, index) ==
    {m.subtitles[k] : k \in {k \in DOMAIN m.subtitles : MediaStreamBaseIndex(m) + k - 1 = index}}

-----------------------------------------------------------------------------
Init ==
    /\ conf \in Confs
    /\ \E t \in Tables : users = t.users /\ rows = t.rows /\ media = t.media
    /\ clock = 0 /\ starts = 0 /\ changes = 0
    /\ issued = {} /\ sent = {}

\* getPlaybackInfo, for a user with a token: one address for each source.
PlaybackInfo(u, item, ip) ==
    /\ Authorized("info", u, item) /\ item \in DOMAIN rows
    /\ issued' = issued \cup
            {[address |-> AddressOf(u, item, SourcesOf(item)[k], ip), by |-> u, ip |-> ip, key |-> Key] :
                k \in DOMAIN SourcesOf(item)}
    /\ Cardinality(issued') <= MaxIssued
    /\ UNCHANGED <<conf, clock, starts, users, rows, media, sent, changes>>

Follow(answer, ip) ==
    /\ answer.code = 302
    /\ sent' = sent \cup {[to |-> answer.to, ip |-> ip, key |-> Key]}
    /\ Cardinality(sent') <= MaxSent
    /\ UNCHANGED <<conf, clock, starts, users, rows, media, issued, changes>>

\* A player opens the address it was given.
OpenAddress(kind, x) == Follow(Open(kind, x.address, x.ip), x.ip)

\* A client with a token plays or downloads.
Play(u, item, id, ip)  == Authorized("stream", u, item) /\ Follow(streamVideo(u, item, id, ip), ip)
Download(u, item, ip)  ==
    /\ Authorized("download", u, item) /\ SourcesOf(item) # <<>>
    /\ Follow(redirectSource(u, item, SourcesOf(item)[1], ip), ip)

-----------------------------------------------------------------------------
Change ==
    /\ changes < MaxChanges /\ changes' = changes + 1
    /\ UNCHANGED <<conf, clock, starts, issued, sent>>

SetPolicy(u, stored) ==
    /\ users' = [users EXCEPT ![u].policy = stored]
    /\ Change /\ UNCHANGED <<rows, media>>

\* The password that the program came with need not be changed any more.
SetPassword(u) ==
    /\ users[u].mustChange
    /\ users' = [users EXCEPT ![u].mustChange = FALSE]
    /\ Change /\ UNCHANGED <<rows, media>>

DeleteUser(u) ==
    /\ users' = [v \in DOMAIN users \ {u} |-> users[v]]
    /\ Change /\ UNCHANGED <<rows, media>>

HideItem(item) ==
    /\ ~rows[item].hidden
    /\ rows' = [rows EXCEPT ![item].hidden = TRUE]
    /\ Change /\ UNCHANGED <<users, media>>

DeleteItem(item) ==
    /\ rows'  = [i \in DOMAIN rows \ {item} |-> rows[i]]
    /\ media' = [i \in DOMAIN media \ {item} |-> media[i]]
    /\ Change /\ UNCHANGED users

\* A batch import replaces sources and subtitles; the ids of sources are
\* made of the item's and of their position.
ReplaceMedia(item, edition) ==
    /\ media[item] # edition[item]
    /\ media' = [media EXCEPT ![item] = edition[item]]
    /\ Change /\ UNCHANGED <<users, rows>>

Tick ==
    /\ clock < MaxTime
    /\ clock' = clock + 1
    /\ UNCHANGED <<conf, starts, users, rows, media, issued, sent, changes>>

Restart ==
    /\ starts < MaxStarts
    /\ starts' = starts + 1
    /\ UNCHANGED <<conf, clock, users, rows, media, issued, sent, changes>>

Next ==
    \/ \E u \in DOMAIN users, item \in DOMAIN rows, ip \in Addresses :
            \/ PlaybackInfo(u, item, ip)
            \/ \E k \in DOMAIN SourcesOf(item) : Play(u, item, SourcesOf(item)[k].id, ip)
            \/ Play(u, item, None, ip)
            \/ Download(u, item, ip)
    \/ \E kind \in {"stream", "original"}, x \in issued : OpenAddress(kind, x)
    \/ \E u \in DOMAIN users :
            SetPassword(u) \/ DeleteUser(u) \/ \E stored \in Policies : SetPolicy(u, stored)
    \/ \E item \in DOMAIN rows :
            HideItem(item) \/ DeleteItem(item) \/ \E edition \in Editions : ReplaceMedia(item, edition)
    \/ Tick \/ Restart

Spec == Init /\ [][Next]_vars

-----------------------------------------------------------------------------
(***************************************************************************)
(* Properties                                                              *)
(***************************************************************************)
\* The types of the variables.
TypeOK ==
    /\ conf \in Confs
    /\ clock \in 0 .. MaxTime /\ starts \in 0 .. MaxStarts /\ changes \in 0 .. MaxChanges
    /\ DOMAIN media \subseteq DOMAIN rows
    /\ Cardinality(issued) <= MaxIssued /\ Cardinality(sent) <= MaxSent
    /\ \A x \in issued : x.by \in UNION {DOMAIN t.users : t \in Tables} /\ x.ip \in Addresses
    /\ \A r \in sent : r.ip \in Addresses /\ (r.to.sig = None <=> r.to.exp = None)

ValidSince(x, exp) == x.key = Key /\ clock <= exp
MayWatch(u, item) ==
    /\ u \in DOMAIN users /\ ~users[u].mustChange
    /\ item \in DOMAIN rows => item \in Scope(PolicyOf(u), rows, {Library})
MayPlay(u, item) == MayWatch(u, item) /\ IsPlaybackAllowed(PolicyOf(u))
Sendable(a) == Arrives(a.item) # None /\ Arrives(a.source) # None

\* A signed address plays, from where it was asked for, the present URL of
\* its source, for as long as the signature lasts, the key is the same and
\* the user may still see and play the item.
AddressesPlay ==
    \A x \in issued :
        LET a    == x.address
            now  == Open("stream", a, x.ip)
            there == IF a.item \in DOMAIN rows THEN Selected(a.item, a.source) ELSE {}
        IN  /\ a.sig # None /\ Sendable(a) /\ ValidSince(x, a.exp) /\ MayPlay(a.user, a.item) =>
                 IF there = {} THEN now.code = 404
                 ELSE LET url == Resolve(SourcesOf(a.item)[CHOOSE k \in there : TRUE])
                      IN  IF url = None THEN now.code = 502
                          ELSE now.code = 302 /\ now.to.url \in {url, Signed(url)}

\* It plays no longer than that, not for a user who was deleted or lost the
\* right to, and with bind_ip from nowhere else, whatever happened since.
AddressesEnd ==
    \A x \in issued, ip \in Addresses, kind \in {"stream", "original"} :
        Open(kind, x.address, ip).code = 302 =>
            /\ ValidSince(x, x.address.exp)
            /\ IF kind = "stream" THEN MayPlay(x.by, x.address.item) ELSE MayWatch(x.by, x.address.item)
            /\ conf.bindIP => ip = x.ip

\* A signed redirect is recognised when the proxy in front of the source asks,
\* for the client it went to, until it expires; by its text only without bind_ip.
RedirectsVerify ==
    \A r \in sent : r.to.sig # None =>
        /\ verifySignedURL(r.to, r.ip) <=> ValidSince(r, r.to.exp)
        /\ verifyRawPayload(r.to) <=> ValidSince(r, r.to.exp) /\ ~conf.bindIP

\* What is signed is never the same for different sources, items or users.
PayloadsDistinct ==
    \A x, y \in issued :
        LET a == x.address  b == y.address IN
        a.sig # None /\ b.sig # None =>
            (a.sig.text = b.sig.text => a.item = b.item /\ a.source = b.source /\ a.user = b.user)

SignaturesSound == RedirectsVerify /\ PayloadsDistinct

\* Every stream that PlaybackInfo lists has an index of its own, and the index
\* of a subtitle leads to that subtitle, whatever streams the item has.
StreamsAddressable ==
    \A item \in DOMAIN media :
        LET m       == media[item]
            streams == MediaStreams(m)
            before  == Len(streams) - Len(m.subtitles)
        IN  /\ \A j, k \in DOMAIN streams : streams[j].index = streams[k].index => j = k
            /\ \A k \in DOMAIN m.subtitles :
                    streamSubtitle(m, streams[before + k].index) = {m.subtitles[k]}
=============================================================================
