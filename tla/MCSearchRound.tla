----------------------------- MODULE MCSearchRound -----------------------------
(* SearchRound on a small instance: three queries for two subquestions, pages    *)
(* that several of them find, a text copied from a page of an earlier round, one *)
(* that nearly is, and a page without a snippet.                                 *)
EXTENDS SearchRound, TLC
CONSTANTS tavily, brave, s1, s2

TwoProviders == <<tavily, brave>>
OneProvider  == <<tavily>>
ThreeQueries == <<s1, s2, s2>>
TwoSubquestions == <<s1, s2>>
ThreeHits == << <<[url |-> "u1", full |-> FALSE], [url |-> "u2", full |-> TRUE]>>,
                <<[url |-> "u1-mobile", full |-> TRUE], [url |-> "mail", full |-> FALSE]>>,
                <<>> >>
PageOf == [u1 |-> "P1", u2 |-> "P2", mail |-> None] @@ ("u1-mobile" :> "P1")
Scores == [P0 |-> 90, P1 |-> 80, P2 |-> 40]
Texts  == [P0 |-> "agency", P1 |-> "agency", P2 |-> "edited"]
Snippets == [P0 |-> "s0", P1 |-> None, P2 |-> "s2"]
Titles == [P0 |-> "t0", P1 |-> "t1", P2 |-> "t2"]
NearTexts == {<<"agency", "edited">>, <<"edited", "agency">>}
OneDocument == << [page |-> "P0", subqs |-> {s1}, queries |-> {}, text |-> "agency",
                   hash |-> "agency", selected |-> TRUE, origin |-> 1, indexed |-> TRUE] >>
==============================================================================
