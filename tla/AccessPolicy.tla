----------------------------- MODULE AccessPolicy -----------------------------
(***************************************************************************)
(* What a user may see: internal/access.  The rule exists three times:     *)
(* as SQL in Scope, which every list and every single access goes through, *)
(* as AllowsItem for one row, and as the walk to the ancestors in          *)
(* VisibleIDs.  `items' is a function from ids to rows and `libs' the set  *)
(* of libraries; a row has lib, parent, kind, rating and hidden.  Kinds are *)
(* checked before they are stored, ratings are not: a rating has the word   *)
(* it is when the white space around it is taken away and its letters are   *)
(* raised, and how it is written: "plain", "lower", between spaces          *)
(* ("spaced"), or between other white space ("tabbed").                     *)
(***************************************************************************)
EXTENDS Naturals, FiniteSets

CONSTANTS None, Null, Bad, Invalid

\* Levels of Emby, not ages.
ratingLevels ==
    [r \in {"G", "TV-Y", "TV-G", "TV-Y7", "TV-Y7-FV", "PG", "TV-PG", "PG-13", "TV-14", "R", "TV-MA", "NC-17"} |->
        CASE r \in {"G", "TV-Y", "TV-G"} -> 1
          [] r \in {"TV-Y7", "TV-Y7-FV"} -> 3
          [] r \in {"PG", "TV-PG"}       -> 5
          [] r = "PG-13" -> 7
          [] r = "TV-14" -> 8
          [] r \in {"R", "TV-MA"} -> 9
          [] r = "NC-17" -> 10]

NotRated == {"", "NR", "UNRATED", "NOT RATED"}

\* strings.ToUpper(strings.TrimSpace(rating)).  (Of other letters Go makes an S
\* or an I, which no word of these tables has.)
GoReads(rating, words) == rating.word \in words

\* UPPER(TRIM(rating)): SQLite takes away spaces only.
SQLReads(rating, words) == rating.written # "tabbed" /\ rating.word \in words

Sounds == {"music", "audio", "musicalbum", "musicartist", "musicvideo"}
Rest   == {"folder", "boxset", "other"}

\* The kinds of rows that a word of BlockUnratedItems stands for.
unratedTypes ==
    [word \in {"all", "movie", "series", "season", "episode", "trailer", "music", "audio",
               "musicvideo", "video", "book", "game", "channel", "livetv", "other"} |->
        CASE word = "all"    -> {"movie", "series", "season", "episode", "trailer", "video", "book",
                                 "game", "channel", "livetv", "program"} \cup Sounds \cup Rest
          [] word = "series" -> {"series", "season", "episode"}
          [] word = "music"  -> Sounds
          [] word = "livetv" -> {"livetv", "program"}
          [] word = "other"  -> Rest
          [] OTHER -> {word}]

VirtualTypes == {"genre", "studio", "person"}

-----------------------------------------------------------------------------
(***************************************************************************)
(* Normalize.  The stored policy is a sequence of fields with key and      *)
(* value, as the JSON object has them, or Bad if it is no object.  Keys    *)
(* are compared without case.  A value of the wrong type, or negative, is   *)
(* Bad; other keys are ignored.                                            *)
(***************************************************************************)
Lists    == {"enabledfolders", "blockedmediafolders", "blockunrateditems"}
Nullable == Lists \cup {"maxparentalrating"}

Default == [isdisabled |-> FALSE, ishidden |-> FALSE, ishiddenremotely |-> FALSE,
            enableallfolders |-> TRUE, enablemediaplayback |-> TRUE,
            enabledfolders |-> {}, blockedmediafolders |-> {}, blockunrateditems |-> {},
            maxparentalrating |-> None, simultaneousstreamlimit |-> 0]

\* An entry of a list must not be blank, nor an unknown word where words are meant.
Acceptable(key, value) ==
    /\ value # Bad
    /\ value = Null => key \in Nullable
    /\ key \in Lists /\ value # Null => "" \notin value
    /\ key = "blockunrateditems" /\ value # Null => value \subseteq DOMAIN unratedTypes

\* Broken JSON, a key that is there twice, or a value that will not do.
Malformed(stored) ==
    \/ stored = Bad
    \/ \E i, j \in DOMAIN stored : i # j /\ stored[i].key = stored[j].key
    \/ \E i \in DOMAIN stored :
          stored[i].key \in DOMAIN Default /\ ~Acceptable(stored[i].key, stored[i].value)

Normalize(stored) ==
    IF Malformed(stored) THEN Invalid
    ELSE [key \in DOMAIN Default |->
            IF \E i \in DOMAIN stored : stored[i].key = key /\ stored[i].value # Null
            THEN (CHOOSE f \in {stored[i] : i \in DOMAIN stored} : f.key = key).value
            ELSE Default[key]]

IsPlaybackAllowed(p) == p # Invalid /\ ~p.isdisabled /\ p.enablemediaplayback

blockedTypes(p) == UNION {unratedTypes[word] : word \in p.blockunrateditems}

-----------------------------------------------------------------------------
(***************************************************************************)
(* One row, in Go                                                          *)
(***************************************************************************)
AllowsLibrary(p, lib) ==
    /\ ~p.isdisabled /\ lib # None
    /\ lib \notin p.blockedmediafolders
    /\ p.enableallfolders \/ lib \in p.enabledfolders

AllowsItem(p, item) ==
    /\ ~item.hidden
    /\ AllowsLibrary(p, item.lib)
    /\ IF GoReads(item.rating, DOMAIN ratingLevels)
       THEN p.maxparentalrating = None \/ ratingLevels[item.rating.word] <= p.maxparentalrating
       ELSE /\ GoReads(item.rating, NotRated) \/ p.maxparentalrating = None
            /\ item.kind \notin blockedTypes(p)

(***************************************************************************)
(* One row, in SQL                                                         *)
(***************************************************************************)
libraryPredicate(p, lib) ==
    /\ ~p.enableallfolders => lib \in p.enabledfolders
    /\ lib \notin p.blockedmediafolders

permitted(p) == {r \in DOMAIN ratingLevels :
                    p.maxparentalrating = None \/ ratingLevels[r] <= p.maxparentalrating}

\* Mutant: the condition on kinds is put to every row, not only to unrated ones.
itemPredicateAnyRating(p, item, libs) ==
    /\ ~item.hidden
    /\ item.lib \in libs
    /\ libraryPredicate(p, item.lib)
    /\ p.maxparentalrating # None => SQLReads(item.rating, permitted(p) \cup NotRated)
    /\ item.kind \notin blockedTypes(p)

itemPredicate(p, item, libs) ==
    /\ ~item.hidden
    /\ item.lib \in libs
    /\ libraryPredicate(p, item.lib)
    /\ p.maxparentalrating # None => SQLReads(item.rating, permitted(p) \cup NotRated)
    /\ blockedTypes(p) # {} => \/ SQLReads(item.rating, DOMAIN ratingLevels)
                               \/ item.kind \notin blockedTypes(p)

(***************************************************************************)
(* All rows                                                                *)
(***************************************************************************)

\* The rows S, and whatever is below them.
Below(items, S) ==
    LET Down[n \in 0 .. Cardinality(DOMAIN items)] ==
            IF n = 0 THEN S
            ELSE LET above == Down[n - 1]
                 IN  above \cup {i \in DOMAIN items : items[i].parent \in above}
    IN  Down[Cardinality(DOMAIN items)]

\* The rows from which one comes to a root, all the way through rows of S.
Rising(items, S) ==
    LET Up[n \in 0 .. Cardinality(DOMAIN items)] ==
            IF n = 0 THEN {}
            ELSE LET above == Up[n - 1] \cup {None}
                 IN  {i \in S : items[i].parent \in above}
    IN  Up[Cardinality(DOMAIN items)]

\* The recursive query.
Denied(p, items, libs) == Below(items, {i \in DOMAIN items : ~itemPredicate(p, items[i], libs)})

Scope(p, items, libs) ==
    IF p = Invalid \/ p.isdisabled THEN {} ELSE DOMAIN items \ Denied(p, items, libs)

\* The walk to the ancestors: a row that is missing, or met again, denies.
VisibleIDs(p, items, libs) ==
    IF p = Invalid THEN {}
    ELSE Rising(items, {i \in DOMAIN items : items[i].lib \in libs /\ AllowsItem(p, items[i])})

CanAccessLibrary(p, lib, libs) ==
    p # Invalid /\ ~p.isdisabled /\ lib \in libs /\ libraryPredicate(p, lib)

\* Rows of genres, studios and persons are open to everybody who asks by id.
CanAccessItem(p, id, items, libs) ==
    \/ id \in DOMAIN items /\ items[id].kind \in VirtualTypes
    \/ id \in Scope(p, items, libs)
    \/ CanAccessLibrary(p, id, libs)
=============================================================================
