----------------------------- MODULE EvidenceRound -----------------------------
(* From the pages of a round to the claims of the ledger: the model judges the   *)
(* pages in batches, the rules score them, the model extracts claims page by     *)
(* page, and each claim needs a verbatim quote, an explicit verdict of its       *)
(* source, an applicable date and, in regulatory research, legal authority.      *)
EXTENDS Integers, Sequences, FiniteSets, SequencesExt

CONSTANTS
    Pages,       \* selected pages by id: listed (the lists of DomainTiers its host is
                 \* on), own (its host is named after an entity of the question),
                 \* overview, pastDecision, published, overlap
    Sayings,     \* per page, what a model may extract from it
    Judgements,  \* what a model may say of a page: relevance, nudge, primary
    TierScore,   \* domain_tiers.yaml tier_scores, in percent, as the scores below
    Weights,     \* settings.scoring.weights: authority, primary, recency, relevance
    BatchSize,   \* EVALUATION_BATCH
    Domain,      \* of the question: "legal", "compliance" or "other"
    Profile,     \* whether a profile is asked for
    SelfPrimary, \* domain_tiers.yaml self_primary_for_own_claims
    Start, End,  \* the time scope of the question, days or None
    Today,       \* as_of, a day
    None

Days   == Int \cup {None}
Saying == [quote : {"verbatim", "near", "other"}, injected : BOOLEAN, rule : BOOLEAN,
           mutable : BOOLEAN, sensitive : BOOLEAN, restricted : BOOLEAN, conditions : BOOLEAN,
           observed : Days, expires : Days, penalty : BOOLEAN]

(* ScoringWeights: shares in percent that make up the score.                     *)
Part == 0..100
ScoringWeights ==
    /\ Weights \in [authority : Part, primary : Part, recency : Part, relevance : Part]
    /\ Weights.authority + Weights.primary + Weights.recency + Weights.relevance = 100

ASSUME EvidenceAssumption ==
    /\ ScoringWeights
    /\ BatchSize \in Nat \ {0} /\ Profile \in BOOLEAN /\ SelfPrimary \in BOOLEAN
    /\ Domain \in {"legal", "compliance", "other"}
    /\ {Start, End} \subseteq Days /\ Today \in Int /\ None \notin Int
    /\ Pages \in Seq(ToSet(Pages)) /\ \A page \in ToSet(Pages) : page.published \in Days
    /\ Sayings \in [DOMAIN Pages -> Seq(Saying)]

MaxNudge == 10   \* _MAX_NUDGE
TierGap == 5     \* _TIER_GAP
MinRelevance == 15
Tries == 2       \* attempts at a verdict

VARIABLES
    stage,      \* the node: "judging", "reading", "admitting", then "admitted"
    waiting,    \* batches of pages the model has not judged yet
    judgement,  \* per page, what the model said of it, or None
    score,      \* per page, document.score, or None
    reader,     \* per page, the coroutine extract(): pc, accepted, pending, tries
    extracted,  \* pages with document.extracted
    admitted,   \* how many of the answers of gather() have been entered
    claims,     \* state.claims, in the order of their ids
    verdicts    \* history: per page and accepted claim, the verdicts that counted

vars == <<stage, waiting, judgement, score, reader, extracted, admitted, claims, verdicts>>

PageId == DOMAIN Pages

(* An accepted claim: verified or not, and how it stands to the time asked about.*)
VerificationStatus == {"pending", "supported", "unsupported", "unavailable"}
Freshnesses == {"not_time_sensitive", "undated", "historical", "current", None}
ClaimType == [page : PageId, saying : Nat, status : VerificationStatus, sensitive : BOOLEAN,
              freshness : Freshnesses, stale : BOOLEAN]

Batches == {{d \in PageId : (d - 1) \div BatchSize = b} : b \in 0..((Len(Pages) - 1) \div BatchSize)}

Init ==
    /\ stage = "judging" /\ waiting = Batches
    /\ judgement = [d \in PageId |-> None] /\ score = [d \in PageId |-> None]
    /\ reader = [d \in PageId |-> [pc |-> "ready", accepted |-> <<>>, pending |-> {}, tries |-> 0]]
    /\ extracted = {} /\ admitted = 0 /\ claims = <<>> /\ verdicts = [d \in PageId |-> <<>>]

-----------------------------------------------------------------------------
(* score_source: the model moves the authority of a page inside its tier only,   *)
(* and may call it primary unless it is of the lowest tier.                      *)
Clamp(low, x, high) == IF x < low THEN low ELSE IF x > high THEN high ELSE x

(* The hosts config lists as low come first; a skill may add to the upper tiers. *)
Tier(page) ==
    IF "marker" \in page.listed THEN 3
    ELSE IF page.listed \cap {"tier1", "skill1", "suffix1"} # {} THEN 1
    ELSE IF page.listed # {} THEN 2 ELSE 3

Authority(page, nudge) ==
    LET ceiling == IF Tier(page) = 1 THEN 100 ELSE TierScore[Tier(page) - 1] - TierGap
    IN Clamp(0, TierScore[Tier(page)] + Clamp(-MaxNudge, nudge, MaxNudge), ceiling)

(* Except in a legal question, which a site named after the law does not settle. *)
OwnSite(page) == SelfPrimary /\ page.own /\ (Domain # "legal" \/ Profile)
RulePrimary(page) == Tier(page) = 1 \/ OwnSite(page)

(* recency_score, by days.                                                       *)
Recency(published) ==
    IF published = None THEN 40
    ELSE IF End # None /\ published > End THEN 50
    ELSE IF Start # None /\ published < Start THEN 20
    ELSE LET age == Today - published
         IN IF age < 0 THEN 60 ELSE IF age <= 90 THEN 100
            ELSE IF age <= 365 THEN 80 ELSE IF age <= 730 THEN 60 ELSE 30

IsPrimary(page, judged) == RulePrimary(page) \/ (judged # None /\ judged.primary /\ Tier(page) <= 2)

(* Without a judgement the overlap of the texts stands for the relevance.        *)
ScoreSource(page, judged) ==
    LET authority == Authority(page, IF judged = None THEN 0 ELSE judged.nudge)
        primary == IsPrimary(page, judged)
        relevance == Clamp(0, IF judged = None THEN page.overlap ELSE judged.relevance, 100)
    IN [authority |-> authority, primary |-> primary, relevance |-> relevance,
        judged |-> judged # None,
        total |-> (Weights.authority * authority + Weights.primary * (IF primary THEN 100 ELSE 0)
                   + Weights.recency * Recency(page.published) + Weights.relevance * relevance) \div 100]

(* judge(): an answer may leave pages of the batch out; a failure leaves out all.*)
JudgeBatch(batch) ==
    /\ stage = "judging" /\ batch \in waiting
    /\ \E said \in [batch -> Judgements \cup {None}] :
          judgement' = [d \in PageId |-> IF d \in batch THEN said[d] ELSE judgement[d]]
    /\ waiting' = waiting \ {batch}
    /\ UNCHANGED <<stage, score, reader, extracted, admitted, claims, verdicts>>

EvaluateSources ==
    /\ stage = "judging" /\ waiting = {}
    /\ score' = [d \in PageId |-> ScoreSource(Pages[d], judgement[d])]
    /\ stage' = "reading"
    /\ UNCHANGED <<waiting, judgement, reader, extracted, admitted, claims, verdicts>>

-----------------------------------------------------------------------------
(* verify_quote: the words of the page, or nearly so with every numeral intact.  *)
QuoteFound(saying) == saying.quote \in {"verbatim", "near"}
Admissible(saying) == ~saying.injected /\ QuoteFound(saying)

(* assess_claim_freshness: a value's own date wins over that of its page.        *)
Observed(d, saying) == IF saying.observed # None THEN saying.observed ELSE Pages[d].published
Target == IF End # None /\ End < Today THEN End ELSE Today
From == IF Start # None THEN Start ELSE Target - 365
Freshness(d, saying, sensitive) ==
    LET observed == Observed(d, saying)
        expired == saying.expires # None /\ saying.expires < Target
    IN IF ~sensitive THEN "not_time_sensitive"
       ELSE IF observed = None THEN "undated"
       ELSE IF observed < From \/ observed > Target \/ expired THEN "historical" ELSE "current"

(* legal_evidence_gap: a rule needs a primary source that is no overview.        *)
Regulatory == Domain \in {"legal", "compliance"} /\ ~Profile
LegalGap(d, saying, sensitive) ==
    /\ Regulatory /\ (sensitive \/ saying.rule)
    /\ ~score[d].primary \/ Pages[d].overview \/ (Pages[d].pastDecision /\ saying.penalty)

Claim(d, i) ==
    [page |-> d, saying |-> i, status |-> "pending", sensitive |-> Sayings[d][i].sensitive,
     freshness |-> None, stale |-> FALSE]

\* Mutant: the date is assessed before the verdict's own view of it is taken.
Judged_AssessedFirst(claim, verdict) ==
    LET d == claim.page saying == Sayings[d][claim.saying]
        sensitive == claim.sensitive \/ verdict.sensitive \/ saying.mutable
        fresh == Freshness(d, saying, claim.sensitive \/ saying.mutable)
        scoped == saying.conditions \/ ~saying.restricted
    IN [claim EXCEPT
          !.status = IF verdict.supported /\ verdict.complete /\ scoped /\ ~LegalGap(d, saying, sensitive)
                     THEN "supported" ELSE "unsupported",
          !.sensitive = sensitive, !.freshness = fresh,
          !.stale = fresh \notin {"not_time_sensitive", "current"}]
(* The verdict on one claim: support, complete conditions, the restrictions its  *)
(* page puts on the same provision, its date and its legal authority.            *)
Judged(claim, verdict) ==
    LET d == claim.page saying == Sayings[d][claim.saying]
        sensitive == claim.sensitive \/ verdict.sensitive \/ saying.mutable
        fresh == Freshness(d, saying, sensitive)
        scoped == saying.conditions \/ ~saying.restricted
    IN [claim EXCEPT
          !.status = IF verdict.supported /\ verdict.complete /\ scoped /\ ~LegalGap(d, saying, sensitive)
                     THEN "supported" ELSE "unsupported",
          !.sensitive = sensitive, !.freshness = fresh,
          !.stale = fresh \notin {"not_time_sensitive", "current"}]

-----------------------------------------------------------------------------
(* extract_claims: pages that are relevant enough are read side by side.  A page *)
(* the model fails on stays unread, and adds nothing.  Of the claims it returns, *)
(* in any order, those with words of the page stay.                              *)
ToRead == {d \in PageId : d \notin extracted /\ score[d].relevance >= MinRelevance}
Lists(S) == {s \in UNION {[1..n -> S] : n \in 0..Cardinality(S)} : IsInjective(s)}

Extract(d) ==
    /\ stage = "reading" /\ d \in ToRead /\ reader[d].pc = "ready"
    /\ \/ /\ reader' = [reader EXCEPT ![d].pc = "done"]
          /\ UNCHANGED <<extracted, verdicts>>
       \/ \E kept \in Lists({i \in DOMAIN Sayings[d] : Admissible(Sayings[d][i])}) :
             /\ reader' = [reader EXCEPT ![d] = [pc |-> "validating", tries |-> 0, pending |-> DOMAIN kept,
                               accepted |-> [i \in DOMAIN kept |-> Claim(d, kept[i])]]]
             /\ verdicts' = [verdicts EXCEPT ![d] = [i \in DOMAIN kept |-> <<>>]]
             /\ extracted' = extracted \cup {d}
    /\ UNCHANGED <<stage, waiting, judgement, score, admitted, claims>>

(* validate_claims: a verdict counts when the answer names its claim once.       *)
Verdicts == [supported : BOOLEAN, complete : BOOLEAN, sensitive : BOOLEAN]
Validate(d) ==
    /\ stage = "reading" /\ reader[d].pc = "validating"
    /\ reader[d].pending # {} /\ reader[d].tries < Tries
    /\ \E counted \in SUBSET reader[d].pending : \E verdict \in [counted -> Verdicts] :
          /\ reader' = [reader EXCEPT ![d].pending = @ \ counted, ![d].tries = @ + 1,
                ![d].accepted = [i \in DOMAIN @ |-> IF i \in counted THEN Judged(@[i], verdict[i]) ELSE @[i]]]
          /\ verdicts' = [verdicts EXCEPT ![d] =
                [i \in DOMAIN @ |-> IF i \in counted THEN Append(@[i], verdict[i]) ELSE @[i]]]
    /\ UNCHANGED <<stage, waiting, judgement, score, extracted, admitted, claims>>

Unavailable(accepted, pending) ==
    [i \in DOMAIN accepted |-> IF i \in pending THEN [accepted[i] EXCEPT !.status = "unavailable"] ELSE accepted[i]]

\* Mutant: claims are numbered as their pages come in.
Finish_NumbersClaims(d) ==
    /\ stage = "reading" /\ reader[d].pc = "validating"
    /\ reader[d].pending = {} \/ reader[d].tries = Tries
    /\ reader' = [reader EXCEPT ![d].pc = "done", ![d].accepted = <<>>, ![d].pending = {}]
    /\ claims' = claims \o Unavailable(reader[d].accepted, reader[d].pending)
    /\ UNCHANGED <<stage, waiting, judgement, score, extracted, admitted, verdicts>>
Finish(d) ==
    /\ stage = "reading" /\ reader[d].pc = "validating"
    /\ reader[d].pending = {} \/ reader[d].tries = Tries
    /\ reader' = [reader EXCEPT ![d].pc = "done", ![d].pending = {},
                                ![d].accepted = Unavailable(@, reader[d].pending)]
    /\ UNCHANGED <<stage, waiting, judgement, score, extracted, admitted, claims, verdicts>>

(* gather() returns the claims of the pages in the order of the pages, and they  *)
(* are numbered in that order, page by page, with nothing else under way.        *)
Gathered ==
    /\ stage = "reading" /\ \A d \in PageId : reader[d].pc = "done" \/ (reader[d].pc = "ready" /\ d \notin ToRead)
    /\ stage' = "admitting"
    /\ UNCHANGED <<waiting, judgement, score, reader, extracted, admitted, claims, verdicts>>
AdmitClaims ==
    /\ stage = "admitting" /\ admitted < Len(Pages)
    /\ claims' = claims \o reader[admitted + 1].accepted
    /\ admitted' = admitted + 1
    /\ UNCHANGED <<stage, waiting, judgement, score, reader, extracted, verdicts>>
AllAdmitted ==
    /\ stage = "admitting" /\ admitted = Len(Pages)
    /\ stage' = "admitted"
    /\ UNCHANGED <<waiting, judgement, score, reader, extracted, admitted, claims, verdicts>>

Next ==
    \/ \E batch \in waiting : JudgeBatch(batch)
    \/ EvaluateSources
    \/ \E d \in PageId : Extract(d) \/ Validate(d) \/ Finish(d)
    \/ Gathered \/ AdmitClaims \/ AllAdmitted
    \/ stage = "admitted" /\ UNCHANGED vars

Spec == Init /\ [][Next]_vars

-----------------------------------------------------------------------------
(* What may answer the question: a claim counts as supported only after exactly  *)
(* one verdict on it, affirmative and complete, for words of its page; a rule    *)
(* only from a page that its domain makes primary or that a judge calls so       *)
(* outside the lowest tier; and whoever finds it sensitive to time, its model,   *)
(* its words or its verdict, it is in date or held back.                         *)
InDate(d, saying) ==
    LET seen == Observed(d, saying) IN
    seen # None /\ From <= seen /\ seen <= Target /\ (saying.expires = None \/ saying.expires >= Target)
Answers(d, claim, verdict) ==
    LET page == Pages[d] saying == Sayings[d][claim.saying] IN
    /\ claim.page = d /\ Admissible(saying)
    /\ verdict.supported /\ verdict.complete
    /\ \/ ~(saying.sensitive \/ saying.mutable \/ verdict.sensitive)
       \/ claim.stale \/ InDate(d, saying)
    /\ Regulatory /\ saying.rule => Tier(page) <= 2 \/ (page.own /\ Domain = "compliance")
OnlyAdmissibleCounts ==
    \A n \in DOMAIN claims :
        claims[n].status = "supported" =>
            \E d \in PageId : \E i \in DOMAIN reader[d].accepted :
                /\ claims[n] = reader[d].accepted[i]
                /\ Len(verdicts[d][i]) = 1 /\ Answers(d, claims[n], verdicts[d][i][1])

(* The ids of the claims do not depend on which page was read first: they follow *)
(* the pages, and within a page its answer.  Only pages that were read           *)
(* contribute, nothing they were granted is lost, and nothing is left undecided. *)
Place(n, d, i) == i \in DOMAIN reader[d].accepted /\ claims[n] = reader[d].accepted[i]
OrderOfAnswersIrrelevant ==
    /\ \A m, n \in DOMAIN claims : m < n =>
          \/ claims[m].page < claims[n].page
          \/ /\ claims[m].page = claims[n].page
             /\ \E i, j \in DOMAIN reader[claims[m].page].accepted :
                   i < j /\ Place(m, claims[m].page, i) /\ Place(n, claims[n].page, j)
    /\ \A n \in DOMAIN claims : claims[n].page \in extracted /\ claims[n].status # "pending"
    /\ stage = "admitted" => \A d \in PageId : \A i \in DOMAIN reader[d].accepted :
                                 \E n \in DOMAIN claims : Place(n, d, i)
=============================================================================
