--------------------------- MODULE MCEvidenceRound ---------------------------
(* EvidenceRound on three pages: an authority, a newspaper and a blog named after *)
(* the law in question.                                                          *)
EXTENDS EvidenceRound

Page(listed, overview, published) ==
    [listed |-> listed, own |-> FALSE, overview |-> overview, pastDecision |-> FALSE,
     published |-> published, overlap |-> 10]
ThreePages ==
    << Page({"suffix1"}, FALSE, 2500), Page({"tier2"}, FALSE, 2950),
       [Page({"marker", "skill1"}, FALSE, None) EXCEPT !.own = TRUE] >>

Said(quote, rule, observed) ==
    [quote |-> quote, injected |-> FALSE, rule |-> rule, mutable |-> FALSE, sensitive |-> FALSE,
     restricted |-> FALSE, conditions |-> FALSE, observed |-> observed, expires |-> None, penalty |-> FALSE]
TheirSayings ==
    << <<Said("verbatim", TRUE, None), [Said("near", FALSE, 2950) EXCEPT !.restricted = TRUE]>>,
       <<Said("other", FALSE, None), [Said("verbatim", FALSE, 2950) EXCEPT !.expires = 2960, !.mutable = TRUE]>>,
       <<Said("verbatim", TRUE, 2950)>> >>

TwoJudgements == {[relevance |-> 60, nudge |-> 30, primary |-> TRUE], [relevance |-> 5, nudge |-> -30, primary |-> FALSE]}
Tiers == <<100, 65, 30>>
Parts == [authority |-> 35, primary |-> 25, recency |-> 15, relevance |-> 25]
==============================================================================
