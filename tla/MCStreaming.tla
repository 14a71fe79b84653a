----------------------------- MODULE MCStreaming -----------------------------
(* Two items whose ids, with those of their sources, run together when they *)
(* are not escaped, one of them with an id that does not fit into addresses. *)
EXTENDS Streaming, TLC

CONSTANTS lib, ip1, ip2, k1

Clients == Permutations({ip1, ip2})

F(key, value) == [key |-> key, value |-> value]
URL(origin, path, query) == [origin |-> origin, path |-> path, query |-> query]

MCPolicies == { << F("enablemediaplayback", FALSE) >>, << F("isdisabled", Bad) >> }

i1 == <<"a">>
i2 == <<"a", "|", "b">>
i3 == <<"a", "%", "7", "C", "b">>
alice == <<"u">>

Source(id, url, protocol) == [id |-> id, url |-> url, protocol |-> protocol]
Cdn(n)  == URL("cdn", <<"films", n>>, {"exp", "part"})
Home(n) == URL("home", <<"films2", n>>, {})

File(name) == URL("file", <<name>>, {})
MCFiles == File("film.strm") :> Cdn("three") @@ File("empty.strm") :> None

Media(video, audio, sources, subtitles) ==
    [video |-> video, audio |-> audio, sources |-> sources, subtitles |-> subtitles]
Before == i1 :> Media(TRUE, TRUE, << Source(<<"b", "|", "c">>, Cdn("one"), "Http"),
                                     Source(<<"d">>, Home("one"), "Http") >>, <<"en", "zh">>)
       @@ i2 :> Media(FALSE, TRUE, << Source(<<"c">>, Cdn("two"), "Http") >>, <<"en", "de">>)
       @@ i3 :> Media(FALSE, FALSE, << Source(<<"c">>, Cdn("two"), "Http") >>, <<"fr">>)
After  == i1 :> Media(TRUE, FALSE, << Source(<<"b", "|", "c">>, Home("new"), "Http") >>, <<"zh", "en">>)
       @@ i2 :> Media(TRUE, TRUE, << Source(<<"c">>, File("film.strm"), "strm"), Source(<<"d">>, File("empty.strm"), "strm") >>, <<>>)
       @@ i3 :> Media(FALSE, FALSE, <<>>, <<"fr">>)
MCEditions == {After}

Row == [lib |-> lib, parent |-> None, kind |-> "movie", hidden |-> FALSE,
        rating |-> [word |-> "", written |-> "plain"]]
MCTables == { [users |-> alice :> [policy |-> <<>>, mustChange |-> due],
               rows  |-> [i \in {i1, i2, i3} |-> Row], media |-> Before] : due \in BOOLEAN }

Prefix(origin, path) == [origin |-> origin, path |-> path]
MCConfs ==
    { [key |-> Random, mode |-> "signed", plain |-> {Prefix("home", <<>>)}, sign |-> {}, bindIP |-> TRUE],
      [key |-> k1, mode |-> "signed", plain |-> {Prefix("home", <<"films">>)},
       sign |-> {Prefix("cdn", <<"films">>), Prefix("home", <<>>)}, bindIP |-> FALSE],
      [key |-> k1, mode |-> "plain", plain |-> {}, sign |-> {}, bindIP |-> FALSE] }
=============================================================================
