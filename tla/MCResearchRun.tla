----------------------------- MODULE MCResearchRun -----------------------------
(* ResearchRun on a small ledger: an agency text and its copy, an authority, and *)
(* a page that states another value.                                             *)
EXTENDS ResearchRun

Pages == << [site |-> "news-a", origin |-> 1, score |-> 60, primary |-> FALSE, date |-> 1],
            [site |-> "news-b", origin |-> 2, score |-> 60, primary |-> FALSE, date |-> 1],
            [site |-> "official", origin |-> 3, score |-> 65, primary |-> TRUE, date |-> 2] >>

Number(n) == [kind |-> "number", values |-> {n}, unit |-> None, step |-> 1]

Claim(doc, value, quote, speaker, stale) ==
    [doc |-> doc, entity |-> [name |-> IF doc = 3 THEN <<"law">> ELSE <<"law", "tr">>,
                               words |-> IF doc = 3 THEN {"law"} ELSE {"law", "tr"}],
     period |-> [years |-> <<2025>>, text |-> "2025"],
     attribute |-> IF doc = 3 THEN {"notification", "threshold"} ELSE {"notification", "threshold", "annual"},
     words |-> IF value = None THEN {} ELSE {value},
     quantities |-> IF value = None THEN {} ELSE {Number(value)},
     scope |-> None, speaker |-> speaker, quote |-> quote, stale |-> stale, timely |-> FALSE]

ThreeClaims == << Claim(1, 100, "q", None, FALSE), Claim(2, 100, "q", None, FALSE),
                  Claim(3, 120, None, None, FALSE) >>

(* A claim without a figure joins two that state different ones.                *)
Merging == << Claim(1, None, "q", None, FALSE), Claim(2, 100, "q2", None, FALSE),
              Claim(3, 120, None, None, FALSE) >>

AllSimilar == [c \in ClaimId |-> [d \in ClaimId |-> 90]]

(* The copy keeps the words of its original, the authority has its own.          *)
OwnWords == [c \in ClaimId |-> [d \in ClaimId |-> IF c # d /\ 3 \in {c, d} THEN 50 ELSE 90]]

OneSubject == [c \in ClaimId |-> IF c = 3 THEN {<<1, 1>>, <<2, 0>>} ELSE {<<1, 1>>}]

(* Two subquestions that have all the facets they may, and one whose missing    *)
(* facet the model may name.                                                     *)
SomePlans == {<<[text |-> "t1", must |-> FALSE, facets |-> <<"f">>],
                [text |-> "t2", must |-> TRUE, facets |-> <<"f", "g">>],
                [text |-> "t1", must |-> TRUE, facets |-> <<"g", "h", "g">>]>>,
              <<[text |-> "t3", must |-> FALSE, facets |-> <<"f">>]>>}
==============================================================================
