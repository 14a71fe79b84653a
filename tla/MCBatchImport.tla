---------------------------- MODULE MCBatchImport ----------------------------
(* One explicit Id, two provider values, batches that meet each other.     *)
EXTENDS BatchImport, TLC

CONSTANTS A, B

Node(id, kind, up, prov, name, text) ==
    [id |-> id, kind |-> kind, up |-> up, prov |-> prov, name |-> name, text |-> text,
     bad |-> text = "bad"]
Item(parent, nodes) == [parent |-> parent, nodes |-> nodes]

P1 == "tmdb" :> 1
P2 == "tmdb" :> 2
Q  == "imdb" :> 1

\* A series with a season of two episodes, of which one is known elsewhere.
Show == Item(None, << Node(None, "Series",  0, P1, "show", "v1"),
                      Node(None, "Season",  1, Nothing, "1", "v1"),
                      Node(None, "Episode", 2, Nothing, "1", "v1"),
                      Node(None, "Episode", 2, P1, "2", "v1") >>)
\* The same with an Id, and more of it known.
ShowById == Item(None, << Node(A, "Series", 0, P1 @@ Q, "show", "v2"),
                          Node(None, "Season", 1, Nothing, "1", "v2") >>)
BadShow  == Item(None, << Node(A, "Series", 0, Q, "show", "v3"),
                          Node(None, "Season", 1, Nothing, "1", "v3"),
                          Node(None, "Season", 1, Nothing, "1", "v3") >>)
Movie(id, prov, text) == Item(None, << Node(id, "Movie", 0, prov, "film", text) >>)
Orphan == Item(A, << Node(None, "Season", 0, Nothing, "2", "v4") >>)

MCBatches == { << Show >>,
               << ShowById, Orphan >>,
               << BadShow, Movie(None, P1, "v1") >>,
               << Movie(A, P2, "v2"), Movie(B, P1, "v3") >>,
               << Movie(A, P1, "v4"), Movie(None, P1 @@ Q, "v5") >>,
               << Movie(B, Q, "v6"), Movie(B, P2, "bad"), Movie(None, Nothing, "v7") >> }

MCCatalogues ==
    { [lib |-> "none", rows |-> Nothing],
      [lib |-> "named", rows |-> A :> [kind |-> "Movie", parent |-> None, prov |-> P1, text |-> "v0"]],
      [lib |-> "named", rows |-> A :> [kind |-> "Series", parent |-> None, prov |-> P1, text |-> "v0"]] }
=============================================================================
