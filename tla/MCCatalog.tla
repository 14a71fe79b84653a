------------------------------ MODULE MCCatalog ------------------------------
(* A hidden series with a season and an episode, and a library beside it;  *)
(* or a season alone, whose parent was deleted before it was inserted.     *)
EXTENDS Catalog, TLC

CONSTANTS n1, n2, n3, l1, l2, u1, g1, s1, s2, s3, m1

F(key, value) == [key |-> key, value |-> value]

MCNewIds == <<n1, n2, n3>>
MCNames  == {"A", "B"}
MCGenres == {g1}
MCImportIds == {m1}

Shape(kind, rating, hidden, genres) ==
    [kind |-> kind, rating |-> rating, hidden |-> hidden, genres |-> genres]
As(word, written) == [word |-> word, written |-> written]
Plain(word) == As(word, "plain")

MCShapes  == {Shape("movie", As("R", "lower"), FALSE, {g1}),
              Shape("episode", As("", "spaced"), FALSE, {})}
MCRatings == {As("PG", "tabbed")}

MCPolicies ==
    { <<>>,
      << F("enableallfolders", FALSE), F("enabledfolders", {l1}) >>,
      << F("maxparentalrating", 5) >>,
      << F("maxparentalrating", 9), F("blockunrateditems", {"series"}) >>,
      << F("blockunrateditems", {"all"}), F("blockedmediafolders", {l2}) >>,
      << F("maxparentalrating", Null), F("isdisabled", TRUE) >>,
      << F("blockunrateditems", {"films"}) >> }

Row(lib, parent, shape) == RowOf(shape, lib, parent)

MCStarts ==
    { [libs     |-> l1 :> "A" @@ l2 :> "B",
       items    |-> s1 :> Row(l1, None, Shape("series", Plain("PG-13"), TRUE, {}))
                 @@ s2 :> Row(l1, s1, Shape("season", Plain(""), FALSE, {}))
                 @@ s3 :> Row(l1, s2, Shape("episode", Plain("PG"), FALSE, {})),
       sources  |-> <<"source", s3>> :> s3,
       users    |-> u1 :> NewUser("A", TRUE),
       progress |-> {[user |-> u1, item |-> s3]}],
      [libs     |-> l1 :> "A",
       items    |-> s1 :> Row(l1, m1, Shape("season", Plain(""), FALSE, {})),
       sources  |-> Drop([s \in {} |-> None], {}),
       users    |-> u1 :> NewUser("A", TRUE),
       progress |-> {}] }
=============================================================================
