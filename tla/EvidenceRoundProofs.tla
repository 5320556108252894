------------------------- MODULE EvidenceRoundProofs -------------------------
(* What the admission of evidence promises for any pages, any claims a model may *)
(* extract from them, any judgements and any verdicts, in any order.             *)
EXTENDS EvidenceRound, SequenceTheorems, TLAPS

Reader      == [pc : {"ready", "validating", "done"}, accepted : Seq(ClaimType),
                pending : SUBSET Nat, tries : Nat]

EvidenceTypeOK ==
    /\ stage \in {"judging", "reading", "admitting", "admitted"}
    /\ reader \in [PageId -> Reader]
    /\ verdicts \in [PageId -> Seq(Seq(Verdicts))]
    /\ admitted \in 0..Len(Pages)
    /\ claims \in Seq(ClaimType)
    /\ extracted \subseteq PageId

(* What makes a page primary, in the scores the readers go by.                   *)
PrimaryEarned ==
    stage # "judging" => \A d \in PageId :
        score[d].primary => Tier(Pages[d]) <= 2 \/ (Pages[d].own /\ (Domain # "legal" \/ Profile))

(* An accepted claim is decided by one verdict, waits for one, or never got one. *)
Decided(d, i) ==
    LET claim == reader[d].accepted[i] IN
    \/ /\ i \in reader[d].pending /\ claim.status = "pending" /\ verdicts[d][i] = <<>>
       /\ claim.sensitive = Sayings[d][claim.saying].sensitive
    \/ /\ i \notin reader[d].pending /\ Len(verdicts[d][i]) = 1
       /\ claim.status \in {"supported", "unsupported"}
       /\ claim.status = "supported" => Answers(d, claim, verdicts[d][i][1])
    \/ /\ i \notin reader[d].pending /\ claim.status = "unavailable"

AnswerKept(d) ==
    /\ DOMAIN verdicts[d] = DOMAIN reader[d].accepted
    /\ reader[d].pending \subseteq DOMAIN reader[d].accepted
    /\ \A i \in DOMAIN reader[d].accepted :
         /\ reader[d].accepted[i].page = d
         /\ reader[d].accepted[i].saying \in DOMAIN Sayings[d]
         /\ Admissible(Sayings[d][reader[d].accepted[i].saying])
         /\ Decided(d, i)
    /\ reader[d].accepted # <<>> => d \in extracted /\ stage # "judging"
    /\ reader[d].pc = "ready" => reader[d].accepted = <<>>
    /\ reader[d].pc # "validating" => reader[d].pending = {}

ReadersOver == stage \in {"admitting", "admitted"} => \A d \in PageId : reader[d].pc # "validating"

AnswersInv == EvidenceTypeOK /\ PrimaryEarned /\ ReadersOver /\ \A d \in PageId : AnswerKept(d)

(* The ledger is the answers of the pages that were entered so far, in order.    *)
LedgerInv ==
    /\ stage \notin {"admitting", "admitted"} => claims = <<>> /\ admitted = 0
    /\ stage = "admitted" => admitted = Len(Pages)
    /\ \A n \in DOMAIN claims : \E d \in 1..admitted : \E i \in DOMAIN reader[d].accepted : Place(n, d, i)
    /\ \A m, n \in DOMAIN claims : m < n =>
          \/ claims[m].page < claims[n].page
          \/ /\ claims[m].page = claims[n].page
             /\ \E i, j \in DOMAIN reader[claims[m].page].accepted :
                   i < j /\ Place(m, claims[m].page, i) /\ Place(n, claims[n].page, j)
    /\ \A d \in 1..admitted : \A i \in DOMAIN reader[d].accepted : \E n \in DOMAIN claims : Place(n, d, i)

-----------------------------------------------------------------------------
(* A claim stays decided as long as it, its verdict and its wait for one do.      *)
LEMMA DecidedKept ==
  ASSUME NEW d \in PageId, NEW i, Decided(d, i),
         reader'[d].accepted[i] = reader[d].accepted[i], verdicts'[d][i] = verdicts[d][i],
         i \in reader'[d].pending <=> i \in reader[d].pending
  PROVE  Decided(d, i)'
<1> DEFINE claim == reader[d].accepted[i]
           given == verdicts[d][i]
<1>1. claim' = claim /\ given' = given
  OBVIOUS
<1>2. Answers(d, claim, given[1])' <=> Answers(d, claim, given[1])
  BY <1>1 DEF Answers, Admissible, InDate, Regulatory
<1> QED BY <1>1, <1>2 DEF Decided

LEMMA PagesTyped ==
  /\ PageId = 1..Len(Pages) /\ Len(Pages) \in Nat
  /\ \A d \in PageId : /\ Pages[d].published \in Days
                       /\ Sayings[d] \in Seq(Saying)
                       /\ DOMAIN Sayings[d] \subseteq Nat
                       /\ \A i \in DOMAIN Sayings[d] : Sayings[d][i] \in Saying
<1>1. PageId = 1..Len(Pages) /\ Len(Pages) \in Nat
  BY EvidenceAssumption, LenProperties DEF PageId
<1>2. \A d \in PageId : Pages[d].published \in Days
  BY EvidenceAssumption DEF PageId, ToSet
<1>3. \A d \in PageId : Sayings[d] \in Seq(Saying)
  BY EvidenceAssumption DEF PageId
<1> QED BY <1>1, <1>2, <1>3, ElementOfSeq, LenProperties

LEMMA TierRange == \A page : Tier(page) \in 1..3
BY DEF Tier

LEMMA DatesTyped ==
  /\ Target \in Int /\ From \in Int
  /\ \A d \in PageId : \A i \in DOMAIN Sayings[d] : Observed(d, Sayings[d][i]) \in Days
<1>1. Target \in Int
  BY EvidenceAssumption DEF Target, Days
<1>2. From \in Int
  BY <1>1, EvidenceAssumption DEF From, Days
<1>3. \A d \in PageId : \A i \in DOMAIN Sayings[d] : Observed(d, Sayings[d][i]) \in Days
  BY PagesTyped DEF Observed, Saying
<1> QED BY <1>1, <1>2, <1>3

(* A date that is assessed as current lies in the time the question is about.    *)
LEMMA CurrentIsInDate ==
  ASSUME NEW d \in PageId, NEW i \in DOMAIN Sayings[d], NEW sensitive \in BOOLEAN
  PROVE  /\ Freshness(d, Sayings[d][i], sensitive) \in Freshnesses
         /\ Freshness(d, Sayings[d][i], sensitive) = "not_time_sensitive" => ~sensitive
         /\ Freshness(d, Sayings[d][i], sensitive) = "current" => InDate(d, Sayings[d][i])
<1> DEFINE saying == Sayings[d][i]
           seen   == Observed(d, saying)
<1>1. seen \in Days /\ saying.expires \in Days /\ Target \in Int /\ From \in Int
  BY DatesTyped, PagesTyped DEF Saying
<1>2. Freshness(d, saying, sensitive) \in Freshnesses
  BY DEF Freshness, Freshnesses
<1>3. Freshness(d, saying, sensitive) = "not_time_sensitive" => ~sensitive
  BY DEF Freshness
<1>4. ASSUME Freshness(d, saying, sensitive) = "current"
      PROVE  InDate(d, saying)
  <2>1. /\ seen # None /\ ~(seen < From) /\ ~(seen > Target)
        /\ ~(saying.expires # None /\ saying.expires < Target)
    BY <1>4 DEF Freshness
  <2> HIDE DEF seen
  <2>2. From <= seen /\ seen <= Target /\ (saying.expires = None \/ saying.expires >= Target)
    BY <1>1, <2>1 DEF Days
  <2> QED BY <2>1, <2>2 DEF InDate, seen
<1> QED BY <1>2, <1>3, <1>4

(* A rule has a primary page: its domain's, or one outside the lowest tier.       *)
LEMMA RuleHasAuthority ==
  ASSUME PrimaryEarned, stage # "judging", NEW d \in PageId, NEW i \in DOMAIN Sayings[d],
         NEW sensitive, ~LegalGap(d, Sayings[d][i], sensitive)
  PROVE  Regulatory /\ Sayings[d][i].rule =>
            Tier(Pages[d]) <= 2 \/ (Pages[d].own /\ Domain = "compliance")
<1>1. SUFFICES ASSUME Regulatory, Sayings[d][i].rule
               PROVE  Tier(Pages[d]) <= 2 \/ (Pages[d].own /\ Domain = "compliance")
  OBVIOUS
<1>2. score[d].primary
  BY <1>1 DEF LegalGap
<1>3. Tier(Pages[d]) <= 2 \/ (Pages[d].own /\ (Domain # "legal" \/ Profile))
  BY <1>2 DEF PrimaryEarned
<1>4. ~Profile /\ Domain \in {"legal", "compliance"}
  BY <1>1 DEF Regulatory
<1> QED BY <1>3, <1>4

LEMMA JudgedAnswers ==
  ASSUME PrimaryEarned, stage # "judging", NEW d \in PageId,
         NEW claim \in ClaimType, claim.page = d, claim.saying \in DOMAIN Sayings[d],
         Admissible(Sayings[d][claim.saying]),
         claim.sensitive = Sayings[d][claim.saying].sensitive,
         NEW verdict \in Verdicts
  PROVE  LET judged == Judged(claim, verdict) IN
         /\ judged \in ClaimType /\ judged.page = d /\ judged.saying = claim.saying
         /\ judged.status \in {"supported", "unsupported"}
         /\ judged.status = "supported" => Answers(d, judged, verdict)
<1> DEFINE saying == Sayings[d][claim.saying]
           sensitive == claim.sensitive \/ verdict.sensitive \/ saying.mutable
           fresh == Freshness(d, saying, sensitive)
           scoped == saying.conditions \/ ~saying.restricted
           good == verdict.supported /\ verdict.complete /\ scoped /\ ~LegalGap(d, saying, sensitive)
           judged == Judged(claim, verdict)
<1>0. saying \in Saying
  BY PagesTyped
<1>1. sensitive \in BOOLEAN
  OBVIOUS
<1> HIDE DEF sensitive
<1>2. /\ fresh \in Freshnesses
      /\ fresh = "not_time_sensitive" => ~sensitive
      /\ fresh = "current" => InDate(d, saying)
  BY <1>1, CurrentIsInDate
<1>3. judged = [claim EXCEPT !.status = IF good THEN "supported" ELSE "unsupported",
                             !.sensitive = sensitive, !.freshness = fresh,
                             !.stale = fresh \notin {"not_time_sensitive", "current"}]
  BY DEF Judged, sensitive
<1> HIDE DEF fresh, good, judged, saying
<1>4. /\ judged \in ClaimType /\ judged.page = d /\ judged.saying = claim.saying
      /\ judged.status = (IF good THEN "supported" ELSE "unsupported")
      /\ judged.stale = (fresh \notin {"not_time_sensitive", "current"})
  BY <1>1, <1>2, <1>3 DEF ClaimType, VerificationStatus
<1>5. ASSUME good
      PROVE  Answers(d, judged, verdict)
  <2>1. verdict.supported /\ verdict.complete /\ ~LegalGap(d, saying, sensitive)
    BY <1>5 DEF good
  <2>2. \/ ~(saying.sensitive \/ saying.mutable \/ verdict.sensitive)
        \/ judged.stale \/ InDate(d, saying)
    <3>1. CASE ~sensitive
      BY <3>1 DEF sensitive, saying
    <3>2. CASE fresh = "current"
      BY <1>2, <3>2
    <3>3. CASE sensitive /\ fresh # "current"
      <4>1. fresh \notin {"not_time_sensitive", "current"}
        BY <1>2, <3>3
      <4> QED BY <1>4, <4>1
    <3> QED BY <3>1, <3>2, <3>3
  <2>3. Regulatory /\ saying.rule => Tier(Pages[d]) <= 2 \/ (Pages[d].own /\ Domain = "compliance")
    BY <2>1, RuleHasAuthority DEF saying
  <2>4. Admissible(saying)
    BY DEF saying
  <2> QED BY <1>4, <2>1, <2>2, <2>3, <2>4 DEF Answers, saying
<1>6. judged.status \in {"supported", "unsupported"} /\ (judged.status = "supported" => good)
  BY <1>4
<1> QED BY <1>4, <1>5, <1>6 DEF judged

(* What a score calls primary.                                                    *)
LEMMA ScoresEarned ==
  ASSUME EvaluateSources
  PROVE  PrimaryEarned'
<1>1. SUFFICES ASSUME NEW d \in PageId, score'[d].primary
               PROVE  Tier(Pages[d]) <= 2 \/ (Pages[d].own /\ (Domain # "legal" \/ Profile))
  BY DEF PrimaryEarned, PageId, Tier
<1>2. score'[d] = ScoreSource(Pages[d], judgement[d])
  BY DEF EvaluateSources
<1>3. score'[d].primary = IsPrimary(Pages[d], judgement[d])
  BY <1>2 DEF ScoreSource
<1>4. Tier(Pages[d]) <= 2 \/ OwnSite(Pages[d])
  <2>1. Tier(Pages[d]) = 1 \/ OwnSite(Pages[d]) \/ Tier(Pages[d]) <= 2
    BY <1>1, <1>3 DEF IsPrimary, RulePrimary
  <2>2. Tier(Pages[d]) = 1 => Tier(Pages[d]) <= 2
    OBVIOUS
  <2> QED BY <2>1, <2>2
<1> QED BY <1>4 DEF OwnSite

-----------------------------------------------------------------------------
LEMMA AnswersInit == Init => AnswersInv /\ LedgerInv
<1> SUFFICES ASSUME Init PROVE AnswersInv /\ LedgerInv
  OBVIOUS
<1>1. EvidenceTypeOK
  BY PagesTyped, EmptySeq DEF Init, EvidenceTypeOK, Reader
<1>2. \A d \in PageId : AnswerKept(d)
  BY EmptySeq DEF Init, AnswerKept
<1>3. PrimaryEarned /\ ReadersOver
  BY DEF Init, PrimaryEarned, ReadersOver
<1>4. LedgerInv
  BY DEF Init, LedgerInv
<1> QED BY <1>1, <1>2, <1>3, <1>4 DEF AnswersInv

(* A reader's step leaves the other pages and the scores alone.                   *)
LEMMA OthersKept ==
  ASSUME NEW d \in PageId, NEW e \in PageId \ {d}, AnswerKept(e),
         reader'[e] = reader[e], verdicts'[e] = verdicts[e],
         e \in extracted => e \in extracted', stage # "judging" => stage' # "judging"
  PROVE  AnswerKept(e)'
<1>1. \A i \in DOMAIN reader[e].accepted : Decided(e, i)'
  BY DecidedKept DEF AnswerKept
<1> QED BY <1>1 DEF AnswerKept

LEMMA ReaderStep ==
  ASSUME AnswersInv, NEW d \in PageId, EvidenceTypeOK', AnswerKept(d)', extracted \subseteq extracted',
         \A e \in PageId \ {d} : reader'[e] = reader[e] /\ verdicts'[e] = verdicts[e],
         stage = "reading", UNCHANGED <<stage, score>>
  PROVE  AnswersInv'
<1>1. \A e \in PageId : AnswerKept(e)'
  BY OthersKept DEF AnswersInv
<1>2. PrimaryEarned' /\ ReadersOver'
  BY DEF AnswersInv, PrimaryEarned, ReadersOver
<1> QED BY <1>1, <1>2 DEF AnswersInv, PageId

LEMMA ExtractKeeps ==
  ASSUME AnswersInv, NEW d \in PageId, Extract(d)
  PROVE  AnswersInv'
<1>0. /\ reader[d].pc = "ready" /\ reader[d].accepted = <<>> /\ reader[d].pending = {}
      /\ reader[d] \in Reader /\ stage = "reading"
      /\ reader \in [PageId -> Reader] /\ verdicts \in [PageId -> Seq(Seq(Verdicts))]
      /\ UNCHANGED <<stage, waiting, judgement, score, admitted, claims>>
  BY DEF Extract, AnswersInv, AnswerKept, EvidenceTypeOK
<1>2. CASE reader' = [reader EXCEPT ![d].pc = "done"] /\ UNCHANGED <<extracted, verdicts>>
  <2>1. EvidenceTypeOK'
    BY <1>0, <1>2 DEF AnswersInv, EvidenceTypeOK, Reader
  <2>2. reader'[d] = [reader[d] EXCEPT !.pc = "done"] /\ \A e \in PageId \ {d} : reader'[e] = reader[e]
    BY <1>0, <1>2
  <2>3. reader'[d].accepted = <<>> /\ reader'[d].pending = {} /\ reader'[d].pc = "done"
    BY <1>0, <2>2 DEF Reader
  <2>4. AnswerKept(d)'
    BY <1>0, <1>2, <2>3, EmptySeq DEF AnswersInv, AnswerKept
  <2> QED BY <1>0, <1>2, <2>1, <2>2, <2>4, ReaderStep
<1>3. CASE ~(reader' = [reader EXCEPT ![d].pc = "done"] /\ UNCHANGED <<extracted, verdicts>>)
  <2> DEFINE good == {i \in DOMAIN Sayings[d] : Admissible(Sayings[d][i])}
  <2>1. PICK kept \in Lists(good) :
          /\ reader' = [reader EXCEPT ![d] = [pc |-> "validating", tries |-> 0, pending |-> DOMAIN kept,
                               accepted |-> [i \in DOMAIN kept |-> Claim(d, kept[i])]]]
          /\ verdicts' = [verdicts EXCEPT ![d] = [i \in DOMAIN kept |-> <<>>]]
          /\ extracted' = extracted \cup {d}
    BY <1>3 DEF Extract
  <2>2. PICK n \in Nat : kept \in [1..n -> good]
    <3>1. PICK n \in 0..Cardinality(good) : kept \in [1..n -> good]
      BY <2>1 DEF Lists
    <3> QED BY <3>1
  <2>3. /\ DOMAIN kept = 1..n
        /\ \A i \in 1..n : /\ kept[i] \in DOMAIN Sayings[d] /\ kept[i] \in Nat
                           /\ Admissible(Sayings[d][kept[i]])
    BY <2>2, PagesTyped
  <2> HIDE DEF good
  <2> DEFINE accepted == [i \in DOMAIN kept |-> Claim(d, kept[i])]
             none     == [i \in DOMAIN kept |-> <<>>]
  <2>4. \A i \in 1..n : Claim(d, kept[i]) \in ClaimType
    BY <2>3, PagesTyped DEF Claim, ClaimType, VerificationStatus, Freshnesses, Saying
  <2>5. accepted \in Seq(ClaimType) /\ none \in Seq(Seq(Verdicts)) /\ DOMAIN accepted = 1..n /\ DOMAIN none = 1..n
    BY <2>2, <2>3, <2>4, IsASeq, EmptySeq
  <2>6. \A i \in 1..n : accepted[i] = Claim(d, kept[i]) /\ none[i] = <<>>
    BY <2>3
  <2>7. /\ reader' = [reader EXCEPT ![d] = [pc |-> "validating", tries |-> 0, pending |-> 1..n, accepted |-> accepted]]
        /\ verdicts' = [verdicts EXCEPT ![d] = none]
    BY <2>1, <2>3
  <2> HIDE DEF accepted, none
  <2>8. [pc |-> "validating", tries |-> 0, pending |-> 1..n, accepted |-> accepted] \in Reader
    BY <2>2, <2>5 DEF Reader
  <2>9. EvidenceTypeOK'
    BY <1>0, <2>1, <2>5, <2>7, <2>8 DEF AnswersInv, EvidenceTypeOK
  <2>10. /\ reader'[d].pc = "validating" /\ reader'[d].pending = 1..n /\ reader'[d].accepted = accepted
         /\ verdicts'[d] = none
         /\ \A e \in PageId \ {d} : reader'[e] = reader[e] /\ verdicts'[e] = verdicts[e]
    BY <1>0, <2>7
  <2>11. ASSUME NEW i \in 1..n
         PROVE  /\ accepted[i].page = d /\ accepted[i].saying = kept[i] /\ accepted[i].status = "pending"
                /\ accepted[i].sensitive = Sayings[d][kept[i]].sensitive
    <3>1. accepted[i] = Claim(d, kept[i])
      BY <2>6
    <3>2. /\ Claim(d, kept[i]).page = d /\ Claim(d, kept[i]).saying = kept[i]
          /\ Claim(d, kept[i]).status = "pending"
      BY DEF Claim
    <3>3. Claim(d, kept[i]).sensitive = Sayings[d][kept[i]].sensitive
      BY Zenon DEF Claim
    <3> QED BY <3>1, <3>2, <3>3
  <2>12. \A i \in 1..n : Decided(d, i)'
    BY <2>6, <2>10, <2>11 DEF Decided
  <2>13. AnswerKept(d)'
    <3>1. \A i \in 1..n : /\ accepted[i].page = d /\ accepted[i].saying \in DOMAIN Sayings[d]
                          /\ Admissible(Sayings[d][accepted[i].saying])
      BY <2>3, <2>11
    <3>2. d \in extracted' /\ stage' # "judging"
      BY <1>0, <2>1
    <3> QED BY <2>5, <2>10, <2>12, <3>1, <3>2 DEF AnswerKept
  <2> QED BY <1>0, <2>1, <2>9, <2>10, <2>13, ReaderStep
<1> QED BY <1>2, <1>3

LEMMA ValidateKeeps ==
  ASSUME AnswersInv, NEW d \in PageId, Validate(d)
  PROVE  AnswersInv'
<1> DEFINE old == reader[d].accepted
<1>0. /\ reader[d].pc = "validating" /\ reader[d] \in Reader /\ stage = "reading"
      /\ old \in Seq(ClaimType) /\ DOMAIN old = 1..Len(old) /\ Len(old) \in Nat
      /\ \A i \in DOMAIN old : old[i] \in ClaimType
      /\ reader \in [PageId -> Reader] /\ verdicts \in [PageId -> Seq(Seq(Verdicts))]
      /\ verdicts[d] \in Seq(Seq(Verdicts)) /\ DOMAIN verdicts[d] = DOMAIN old
      /\ UNCHANGED <<stage, waiting, judgement, score, extracted, admitted, claims>>
      /\ PrimaryEarned
  <2>1. /\ reader[d].pc = "validating" /\ reader[d] \in Reader /\ stage = "reading"
        /\ reader \in [PageId -> Reader] /\ verdicts \in [PageId -> Seq(Seq(Verdicts))]
        /\ UNCHANGED <<stage, waiting, judgement, score, extracted, admitted, claims>>
        /\ PrimaryEarned /\ DOMAIN verdicts[d] = DOMAIN old
    BY DEF Validate, AnswersInv, AnswerKept, EvidenceTypeOK
  <2>2. old \in Seq(ClaimType) /\ verdicts[d] \in Seq(Seq(Verdicts))
    BY <2>1 DEF Reader
  <2> QED BY <2>1, <2>2, LenProperties, ElementOfSeq
<1>1. PICK counted \in SUBSET reader[d].pending : \E verdict \in [counted -> Verdicts] :
         /\ reader' = [reader EXCEPT ![d].pending = @ \ counted, ![d].tries = @ + 1,
                ![d].accepted = [i \in DOMAIN @ |-> IF i \in counted THEN Judged(@[i], verdict[i]) ELSE @[i]]]
         /\ verdicts' = [verdicts EXCEPT ![d] =
                [i \in DOMAIN @ |-> IF i \in counted THEN Append(@[i], verdict[i]) ELSE @[i]]]
  BY DEF Validate
<1>15. PICK verdict \in [counted -> Verdicts] :
         /\ reader' = [reader EXCEPT ![d].pending = @ \ counted, ![d].tries = @ + 1,
                ![d].accepted = [i \in DOMAIN @ |-> IF i \in counted THEN Judged(@[i], verdict[i]) ELSE @[i]]]
         /\ verdicts' = [verdicts EXCEPT ![d] =
                [i \in DOMAIN @ |-> IF i \in counted THEN Append(@[i], verdict[i]) ELSE @[i]]]
  BY <1>1
<1> DEFINE new   == [i \in DOMAIN old |-> IF i \in counted THEN Judged(old[i], verdict[i]) ELSE old[i]]
           heard == [i \in DOMAIN old |-> IF i \in counted THEN Append(verdicts[d][i], verdict[i]) ELSE verdicts[d][i]]
<1>2. \A i \in DOMAIN old : /\ old[i].page = d /\ old[i].saying \in DOMAIN Sayings[d]
                            /\ Admissible(Sayings[d][old[i].saying])
                            /\ Decided(d, i)
  BY DEF AnswersInv, AnswerKept
<1>3. reader[d].pending \subseteq DOMAIN old /\ counted \subseteq DOMAIN old
  BY DEF AnswersInv, AnswerKept
<1>4. ASSUME NEW i \in counted
      PROVE  /\ verdict[i] \in Verdicts /\ verdicts[d][i] = <<>>
             /\ Judged(old[i], verdict[i]) \in ClaimType
             /\ Judged(old[i], verdict[i]).page = d
             /\ Judged(old[i], verdict[i]).saying = old[i].saying
             /\ Judged(old[i], verdict[i]).status \in {"supported", "unsupported"}
             /\ Judged(old[i], verdict[i]).status = "supported" => Answers(d, Judged(old[i], verdict[i]), verdict[i])
  <2>1. i \in DOMAIN old /\ verdict[i] \in Verdicts
    BY <1>3, <1>15
  <2>2. verdicts[d][i] = <<>> /\ old[i].sensitive = Sayings[d][old[i].saying].sensitive
    BY <1>2, <2>1 DEF Decided
  <2> HIDE DEF old
  <2>3. old[i] \in ClaimType /\ old[i].page = d /\ old[i].saying \in DOMAIN Sayings[d]
        /\ Admissible(Sayings[d][old[i].saying]) /\ stage # "judging"
    BY <1>0, <1>2, <2>1
  <2> QED BY <1>0, <2>1, <2>2, <2>3, JudgedAnswers
<1> HIDE DEF old
<1>5. \A i \in DOMAIN old : new[i] \in ClaimType /\ heard[i] \in Seq(Verdicts)
  <2> TAKE i \in DOMAIN old
  <2>1. verdicts[d][i] \in Seq(Verdicts)
    BY <1>0, ElementOfSeq, LenProperties
  <2> QED BY <1>0, <1>4, <2>1, AppendProperties
<1>6. new \in Seq(ClaimType) /\ heard \in Seq(Seq(Verdicts)) /\ DOMAIN new = DOMAIN old /\ DOMAIN heard = DOMAIN old
  BY <1>0, <1>5, IsASeq
<1>7. /\ reader' = [reader EXCEPT ![d] = [reader[d] EXCEPT !.pending = @ \ counted, !.tries = @ + 1, !.accepted = new]]
      /\ verdicts' = [verdicts EXCEPT ![d] = heard]
  BY <1>0, <1>15 DEF old, Reader
<1>8. \A i \in DOMAIN old :
          IF i \in counted THEN new[i] = Judged(old[i], verdict[i]) /\ heard[i] = Append(verdicts[d][i], verdict[i])
                           ELSE new[i] = old[i] /\ heard[i] = verdicts[d][i]
  OBVIOUS
<1> HIDE DEF new, heard
<1>9. [reader[d] EXCEPT !.pending = @ \ counted, !.tries = @ + 1, !.accepted = new] \in Reader
  <2>1. reader[d].pending \ counted \in SUBSET Nat /\ reader[d].tries + 1 \in Nat
    BY <1>0 DEF Reader
  <2> QED BY <1>0, <1>6, <2>1 DEF Reader
<1>10. EvidenceTypeOK'
  BY <1>0, <1>6, <1>7, <1>9 DEF AnswersInv, EvidenceTypeOK
<1>11. /\ reader'[d].pc = "validating" /\ reader'[d].pending = reader[d].pending \ counted
       /\ reader'[d].accepted = new /\ verdicts'[d] = heard
       /\ \A e \in PageId \ {d} : reader'[e] = reader[e] /\ verdicts'[e] = verdicts[e]
  BY <1>0, <1>7 DEF Reader
<1>12. ASSUME NEW i \in DOMAIN old
       PROVE  new[i].page = d /\ new[i].saying = old[i].saying /\ Decided(d, i)'
  <2>1. CASE i \in counted
    <3>1. heard[i] = <<verdict[i]>> /\ new[i] = Judged(old[i], verdict[i])
      BY <1>4, <1>8, <2>1
    <3>2. Len(heard[i]) = 1 /\ heard[i][1] = verdict[i]
      BY <3>1
    <3>3. i \notin reader'[d].pending
      BY <1>11, <2>1
    <3>4. new[i].status = "supported" => Answers(d, new[i], verdict[i])
      BY <1>4, <2>1, <3>1
    <3>5. Decided(d, i)'
      BY <1>4, <1>11, <2>1, <3>1, <3>2, <3>3, <3>4 DEF Decided
    <3> QED BY <1>4, <2>1, <3>1, <3>5
  <2>2. CASE i \notin counted
    <3>1. new[i] = old[i] /\ heard[i] = verdicts[d][i]
      BY <1>8, <2>2
    <3>2. i \in reader'[d].pending <=> i \in reader[d].pending
      BY <1>11, <2>2
    <3>3. Decided(d, i)'
      BY <1>2, <1>11, <3>1, <3>2, DecidedKept DEF old
    <3> QED BY <1>2, <3>1, <3>3
  <2> QED BY <2>1, <2>2
<1>13. AnswerKept(d)'
  <2>1. reader'[d].accepted # <<>> => d \in extracted' /\ stage' # "judging"
    <3>1. reader'[d].accepted # <<>> => old # <<>>
      BY <1>0, <1>6, <1>11, EmptySeq, LenProperties
    <3> QED BY <1>0, <3>1 DEF old, AnswersInv, AnswerKept
  <2> QED BY <1>2, <1>3, <1>6, <1>11, <1>12, <2>1 DEF AnswerKept
<1> QED BY <1>0, <1>10, <1>11, <1>13, ReaderStep

(* A claim without a verdict after the last try is unavailable.                   *)
LEMMA FinishKeeps ==
  ASSUME AnswersInv, NEW d \in PageId, Finish(d)
  PROVE  AnswersInv'
<1> DEFINE old == reader[d].accepted
           new == Unavailable(old, reader[d].pending)
<1>0. /\ reader[d].pc = "validating" /\ reader[d] \in Reader /\ stage = "reading"
      /\ reader \in [PageId -> Reader] /\ DOMAIN verdicts[d] = DOMAIN old
      /\ reader' = [reader EXCEPT ![d] = [reader[d] EXCEPT !.pc = "done", !.pending = {}, !.accepted = new]]
      /\ UNCHANGED <<stage, waiting, judgement, score, extracted, admitted, claims, verdicts>>
      /\ \A i \in DOMAIN old : /\ old[i].page = d /\ old[i].saying \in DOMAIN Sayings[d]
                               /\ Admissible(Sayings[d][old[i].saying]) /\ Decided(d, i)
  BY DEF Finish, AnswersInv, AnswerKept, EvidenceTypeOK, Reader
<1>1. old \in Seq(ClaimType) /\ DOMAIN old = 1..Len(old) /\ Len(old) \in Nat /\ \A i \in DOMAIN old : old[i] \in ClaimType
  <2>1. old \in Seq(ClaimType)
    BY <1>0 DEF Reader
  <2> QED BY <2>1, LenProperties, ElementOfSeq
<1>2. /\ DOMAIN new = DOMAIN old
      /\ \A i \in DOMAIN old : new[i] = IF i \in reader[d].pending THEN [old[i] EXCEPT !.status = "unavailable"] ELSE old[i]
  BY DEF Unavailable
<1>3. \A i \in DOMAIN old : [old[i] EXCEPT !.status = "unavailable"] \in ClaimType
  BY <1>1 DEF ClaimType, VerificationStatus
<1>4. new \in Seq(ClaimType)
  <2> new = [i \in DOMAIN old |-> IF i \in reader[d].pending THEN [old[i] EXCEPT !.status = "unavailable"] ELSE old[i]]
    BY DEF Unavailable
  <2> QED BY <1>1, <1>3, IsASeq
<1> HIDE DEF old, new
<1>5. /\ reader'[d].pc = "done" /\ reader'[d].pending = {} /\ reader'[d].accepted = new
      /\ \A e \in PageId \ {d} : reader'[e] = reader[e]
  BY <1>0 DEF Reader
<1>6. EvidenceTypeOK'
  <2>1. [reader[d] EXCEPT !.pc = "done", !.pending = {}, !.accepted = new] \in Reader
    BY <1>0, <1>4 DEF Reader
  <2> QED BY <1>0, <2>1 DEF AnswersInv, EvidenceTypeOK
<1>7. ASSUME NEW i \in DOMAIN old
      PROVE  /\ new[i].page = d /\ new[i].saying = old[i].saying /\ Decided(d, i)'
  <2>1. CASE i \in reader[d].pending
    <3>1. new[i] = [old[i] EXCEPT !.status = "unavailable"]
      BY <1>2, <2>1
    <3>2. new[i].page = old[i].page /\ new[i].saying = old[i].saying /\ new[i].status = "unavailable"
      BY <1>1, <3>1 DEF ClaimType
    <3> QED BY <1>0, <1>5, <3>2 DEF Decided
  <2>2. CASE i \notin reader[d].pending
    <3>1. new[i] = old[i]
      BY <1>2, <2>2
    <3>2. Decided(d, i)'
      <4>1. verdicts'[d][i] = verdicts[d][i] /\ reader'[d].accepted[i] = reader[d].accepted[i]
        BY <1>0, <1>5, <3>1 DEF old
      <4>2. i \in reader'[d].pending <=> i \in reader[d].pending
        BY <1>5, <2>2
      <4> QED BY <1>0, <4>1, <4>2, DecidedKept
    <3> QED BY <1>0, <3>1, <3>2
  <2> QED BY <2>1, <2>2
<1>8. AnswerKept(d)'
  <2>1. reader'[d].accepted # <<>> => d \in extracted' /\ stage' # "judging"
    <3>1. reader'[d].accepted # <<>> => old # <<>>
      BY <1>1, <1>2, <1>4, <1>5, EmptySeq, LenProperties
    <3> QED BY <1>0, <3>1 DEF old, AnswersInv, AnswerKept
  <2> QED BY <1>0, <1>2, <1>5, <1>7, <2>1 DEF AnswerKept
<1> QED BY <1>0, <1>5, <1>6, <1>8, ReaderStep

LEMMA AnswersStep == AnswersInv /\ [Next]_vars => AnswersInv'
<1> SUFFICES ASSUME AnswersInv, [Next]_vars PROVE AnswersInv'
  OBVIOUS
<1>1. ASSUME UNCHANGED <<reader, verdicts, extracted>>, stage # "judging" => stage' # "judging",
             EvidenceTypeOK', PrimaryEarned', ReadersOver'
      PROVE  AnswersInv'
  <2>1. \A d \in PageId : AnswerKept(d)'
    <3> SUFFICES ASSUME NEW d \in PageId PROVE AnswerKept(d)'
      OBVIOUS
    <3>1. AnswerKept(d) /\ reader'[d] = reader[d] /\ verdicts'[d] = verdicts[d] /\ extracted' = extracted
      BY <1>1 DEF AnswersInv
    <3>2. \A i \in DOMAIN reader[d].accepted : Decided(d, i)'
      BY <3>1, DecidedKept DEF AnswerKept
    <3> QED BY <1>1, <3>1, <3>2 DEF AnswerKept
  <2> QED BY <1>1, <2>1 DEF AnswersInv, PageId
<1>2. CASE \E batch \in waiting : JudgeBatch(batch)
  BY <1>1, <1>2 DEF JudgeBatch, AnswersInv, EvidenceTypeOK, PrimaryEarned, ReadersOver
<1>3. CASE EvaluateSources
  BY <1>1, <1>3, ScoresEarned DEF EvaluateSources, AnswersInv, EvidenceTypeOK, ReadersOver
<1>4. CASE Gathered
  BY <1>1, <1>4 DEF Gathered, AnswersInv, EvidenceTypeOK, PrimaryEarned, ReadersOver
<1>5. CASE AdmitClaims
  <2>1. /\ stage = "admitting" /\ admitted < Len(Pages) /\ admitted' = admitted + 1
        /\ claims' = claims \o reader[admitted + 1].accepted
        /\ UNCHANGED <<stage, waiting, judgement, score, reader, extracted, verdicts>>
    BY <1>5 DEF AdmitClaims
  <2>2. admitted + 1 \in PageId /\ admitted' \in 0..Len(Pages)
    BY <2>1, PagesTyped DEF AnswersInv, EvidenceTypeOK
  <2>3. claims' \in Seq(ClaimType)
    BY <2>1, <2>2, ConcatProperties DEF AnswersInv, EvidenceTypeOK, Reader
  <2> QED BY <1>1, <2>1, <2>2, <2>3 DEF AnswersInv, EvidenceTypeOK, PrimaryEarned, ReadersOver
<1>6. CASE AllAdmitted
  BY <1>1, <1>6 DEF AllAdmitted, AnswersInv, EvidenceTypeOK, PrimaryEarned, ReadersOver
<1>7. CASE UNCHANGED vars
  BY <1>1, <1>7 DEF vars, AnswersInv, EvidenceTypeOK, PrimaryEarned, ReadersOver
<1> QED BY <1>2, <1>3, <1>4, <1>5, <1>6, <1>7, ExtractKeeps, ValidateKeeps, FinishKeeps DEF Next

-----------------------------------------------------------------------------
LEMMA AdmitKeepsLedger ==
  ASSUME AnswersInv, LedgerInv, AdmitClaims
  PROVE  LedgerInv'
<1> DEFINE e   == admitted + 1
           acc == reader[e].accepted
           L   == Len(claims)
           At(n, d, i) == i \in DOMAIN reader[d].accepted /\ claims'[n] = reader[d].accepted[i]
<1>1. /\ stage = "admitting" /\ admitted < Len(Pages) /\ admitted' = e
      /\ claims' = claims \o acc /\ stage' = stage /\ reader' = reader
  BY DEF AdmitClaims
<1>2. e \in PageId /\ admitted \in Nat /\ 1..admitted' = 1..admitted \cup {e} /\ 1..admitted \subseteq PageId
  BY <1>1, PagesTyped DEF AnswersInv, EvidenceTypeOK
<1>3. acc \in Seq(ClaimType) /\ claims \in Seq(ClaimType)
  BY <1>2 DEF AnswersInv, EvidenceTypeOK, Reader
<1>4. /\ DOMAIN claims = 1..L /\ L \in Nat /\ DOMAIN acc = 1..Len(acc) /\ Len(acc) \in Nat
      /\ DOMAIN claims' = 1..(L + Len(acc))
      /\ \A n \in DOMAIN claims : claims'[n] = claims[n]
      /\ \A i \in DOMAIN acc : claims'[L + i] = acc[i]
  <2>1. /\ DOMAIN claims = 1..L /\ L \in Nat /\ DOMAIN acc = 1..Len(acc) /\ Len(acc) \in Nat
        /\ claims \o acc \in Seq(ClaimType) /\ Len(claims \o acc) = L + Len(acc)
        /\ \A n \in 1..(L + Len(acc)) : (claims \o acc)[n] = IF n <= L THEN claims[n] ELSE acc[n - L]
    BY <1>3, LenProperties, ConcatProperties
  <2>2. DOMAIN (claims \o acc) = 1..(L + Len(acc))
    BY <2>1, LenProperties
  <2>3. ASSUME NEW i \in DOMAIN acc
        PROVE  (claims \o acc)[L + i] = acc[i]
    <3>1. L + i \in 1..(L + Len(acc)) /\ ~(L + i <= L) /\ L + i - L = i
      BY <2>1
    <3> QED BY <2>1, <3>1
  <2>4. ASSUME NEW n \in DOMAIN claims
        PROVE  (claims \o acc)[n] = claims[n]
    BY <2>1
  <2> HIDE DEF L, acc
  <2> QED BY <1>1, <2>1, <2>2, <2>3, <2>4
<1>5. \A d \in PageId : \A i \in DOMAIN reader[d].accepted : reader[d].accepted[i].page = d
  BY DEF AnswersInv, AnswerKept
<1> HIDE DEF acc, L
<1>6. \A n \in DOMAIN claims' : n \in DOMAIN claims \/ (n - L \in DOMAIN acc /\ n = L + (n - L))
  BY <1>4
<1>7. \A n \in DOMAIN claims : n \in DOMAIN claims'
  BY <1>4
<1>8. \A n \in DOMAIN claims, d \in PageId : \A i : Place(n, d, i) => At(n, d, i)
  BY <1>1, <1>4 DEF Place
<1>9. ASSUME NEW n \in DOMAIN claims'
      PROVE  \E d \in 1..admitted' : \E i \in DOMAIN reader[d].accepted : At(n, d, i)
  <2>1. CASE n \in DOMAIN claims
    BY <1>1, <1>2, <1>8, <2>1 DEF LedgerInv
  <2>2. CASE n \notin DOMAIN claims
    <3>1. n - L \in DOMAIN acc /\ claims'[n] = acc[n - L]
      BY <1>4, <1>6, <2>2
    <3> QED BY <1>1, <1>2, <3>1 DEF Place, acc
  <2> QED BY <2>1, <2>2
<1>10. ASSUME NEW d \in 1..admitted', NEW i \in DOMAIN reader[d].accepted
       PROVE  \E n \in DOMAIN claims' : At(n, d, i)
  <2>1. CASE d = e
    <3>1. i \in DOMAIN acc
      BY <2>1 DEF acc
    <3>2. L + i \in DOMAIN claims'
      BY <1>4, <3>1
    <3>3. claims'[L + i] = acc[i]
      BY <1>4, <3>1
    <3> QED BY <2>1, <3>1, <3>2, <3>3 DEF acc
  <2>2. CASE d # e
    <3>1. PICK n \in DOMAIN claims : Place(n, d, i)
      BY <1>1, <1>2, <2>2 DEF LedgerInv
    <3> QED BY <1>2, <1>7, <1>8, <3>1
  <2> QED BY <2>1, <2>2
<1>11. ASSUME NEW m \in DOMAIN claims', NEW n \in DOMAIN claims', m < n
       PROVE  \/ claims'[m].page < claims'[n].page
              \/ /\ claims'[m].page = claims'[n].page
                 /\ \E i, j \in DOMAIN reader[claims'[m].page].accepted :
                       i < j /\ At(m, claims'[m].page, i) /\ At(n, claims'[n].page, j)
  <2>1. CASE n \in DOMAIN claims
    <3>1. m \in DOMAIN claims
      BY <1>4, <1>11, <2>1
    <3>2. claims'[m] = claims[m] /\ claims'[n] = claims[n]
      BY <1>4, <2>1, <3>1
    <3>3. PICK d \in 1..admitted : \E i \in DOMAIN reader[d].accepted : Place(m, d, i)
      BY <3>1 DEF LedgerInv
    <3>4. claims[m].page \in PageId
      BY <1>2, <1>5, <3>3 DEF Place
    <3>5. CASE claims[m].page < claims[n].page
      BY <3>2, <3>5
    <3>6. CASE /\ claims[m].page = claims[n].page
               /\ \E i, j \in DOMAIN reader[claims[m].page].accepted :
                     i < j /\ Place(m, claims[m].page, i) /\ Place(n, claims[n].page, j)
      BY <1>1, <1>8, <2>1, <3>1, <3>2, <3>4, <3>6
    <3> QED BY <1>11, <2>1, <3>1, <3>5, <3>6 DEF LedgerInv
  <2>2. CASE n \notin DOMAIN claims
    <3>1. n - L \in DOMAIN acc /\ claims'[n] = acc[n - L] /\ claims'[n].page = e
      BY <1>2, <1>4, <1>5, <1>6, <2>2 DEF acc
    <3>2. CASE m \in DOMAIN claims
      <4>1. PICK d \in 1..admitted : \E i \in DOMAIN reader[d].accepted : Place(m, d, i)
        BY <3>2 DEF LedgerInv
      <4>2. claims'[m].page = d
        BY <1>2, <1>4, <1>5, <3>2, <4>1 DEF Place
      <4> QED BY <1>2, <3>1, <4>2
    <3>3. CASE m \notin DOMAIN claims
      <4>1. m - L \in DOMAIN acc /\ claims'[m] = acc[m - L] /\ claims'[m].page = e
        BY <1>2, <1>4, <1>5, <1>6, <3>3 DEF acc
      <4>2. m - L < n - L
        BY <1>4, <1>11
      <4>3. At(m, e, m - L) /\ At(n, e, n - L)
        BY <3>1, <4>1 DEF acc
      <4> QED BY <1>1, <3>1, <4>1, <4>2, <4>3 DEF acc
    <3> QED BY <3>2, <3>3
  <2> QED BY <2>1, <2>2
<1>12. /\ \A n \in DOMAIN claims' : \E d \in 1..admitted' : \E i \in DOMAIN reader'[d].accepted : Place(n, d, i)'
       /\ \A d \in 1..admitted' : \A i \in DOMAIN reader'[d].accepted : \E n \in DOMAIN claims' : Place(n, d, i)'
  BY <1>1, <1>9, <1>10 DEF Place
<1>13. /\ stage' \notin {"admitting", "admitted"} => claims' = <<>> /\ admitted' = 0
       /\ stage' = "admitted" => admitted' = Len(Pages)
  BY <1>1
<1>14. (\A m, n \in DOMAIN claims : m < n =>
          \/ claims[m].page < claims[n].page
          \/ /\ claims[m].page = claims[n].page
             /\ \E i, j \in DOMAIN reader[claims[m].page].accepted :
                   i < j /\ Place(m, claims[m].page, i) /\ Place(n, claims[n].page, j))'
  <2>1. reader' = reader
    BY <1>1
  <2>2. ASSUME NEW m \in DOMAIN claims', NEW n \in DOMAIN claims', m < n
        PROVE  \/ claims'[m].page < claims'[n].page
               \/ /\ claims'[m].page = claims'[n].page
                  /\ \E i, j \in DOMAIN reader'[claims'[m].page].accepted :
                        /\ i < j
                        /\ i \in DOMAIN reader'[claims'[m].page].accepted
                        /\ claims'[m] = reader'[claims'[m].page].accepted[i]
                        /\ j \in DOMAIN reader'[claims'[n].page].accepted
                        /\ claims'[n] = reader'[claims'[n].page].accepted[j]
    BY <1>11, <2>1, <2>2
  <2> QED BY <2>2 DEF Place
<1> QED BY <1>12, <1>13, <1>14 DEF LedgerInv

LEMMA LedgerStep == AnswersInv /\ LedgerInv /\ [Next]_vars => LedgerInv'
<1> SUFFICES ASSUME AnswersInv, LedgerInv, [Next]_vars PROVE LedgerInv'
  OBVIOUS
<1>1. CASE AdmitClaims
  BY <1>1, AdmitKeepsLedger
<1>2. CASE AllAdmitted \/ UNCHANGED vars
  BY <1>2 DEF AllAdmitted, vars, LedgerInv, Place
<1>3. ASSUME stage \in {"judging", "reading"}, UNCHANGED <<claims, admitted>>, stage' # "admitted"
      PROVE  LedgerInv'
  BY <1>3, EmptySeq DEF LedgerInv
<1>4. CASE \/ \E batch \in waiting : JudgeBatch(batch)
           \/ EvaluateSources \/ Gathered
           \/ \E d \in PageId : Extract(d) \/ Validate(d) \/ Finish(d)
  BY <1>3, <1>4 DEF JudgeBatch, EvaluateSources, Gathered, Extract, Validate, Finish
<1> QED BY <1>1, <1>2, <1>4 DEF Next

THEOREM EvidenceInductive == Spec => [](AnswersInv /\ LedgerInv)
BY AnswersInit, AnswersStep, LedgerStep, PTL DEF Spec

(* OnlyAdmissibleCounts, for any pages, claims, judgements and verdicts: what the   *)
(* ledger counts as supported was decided by exactly one affirmative, complete      *)
(* verdict, on words of its page, with a date and an authority the question allows. *)
THEOREM OnlyAdmissibleCountsHolds == Spec => []OnlyAdmissibleCounts
<1>1. AnswersInv /\ LedgerInv => OnlyAdmissibleCounts
  <2> SUFFICES ASSUME AnswersInv, LedgerInv, NEW n \in DOMAIN claims, claims[n].status = "supported"
               PROVE  \E d \in PageId : \E i \in DOMAIN reader[d].accepted :
                         /\ claims[n] = reader[d].accepted[i]
                         /\ Len(verdicts[d][i]) = 1 /\ Answers(d, claims[n], verdicts[d][i][1])
    BY DEF OnlyAdmissibleCounts
  <2>1. PICK d \in 1..admitted : \E i \in DOMAIN reader[d].accepted : Place(n, d, i)
    BY DEF LedgerInv
  <2>4. PICK i \in DOMAIN reader[d].accepted : Place(n, d, i)
    BY <2>1
  <2>2. d \in PageId
    BY PagesTyped DEF AnswersInv, EvidenceTypeOK
  <2>3. Decided(d, i) /\ claims[n] = reader[d].accepted[i]
    BY <2>2, <2>4 DEF AnswersInv, AnswerKept, Place
  <2> QED BY <2>2, <2>3 DEF Decided
<1> QED BY <1>1, EvidenceInductive, PTL

(* OrderOfAnswersIrrelevant: whichever page was read first and however the verdicts *)
(* came in, the ledger is the answers of the pages one after the other.             *)
THEOREM OrderOfAnswersIrrelevantHolds == Spec => []OrderOfAnswersIrrelevant
<1>1. AnswersInv /\ LedgerInv => OrderOfAnswersIrrelevant
  <2> SUFFICES ASSUME AnswersInv, LedgerInv PROVE OrderOfAnswersIrrelevant
    OBVIOUS
  <2>1. ASSUME NEW n \in DOMAIN claims
        PROVE  claims[n].page \in extracted /\ claims[n].status # "pending"
    <3>1. PICK d \in 1..admitted : \E i \in DOMAIN reader[d].accepted : Place(n, d, i)
      BY DEF LedgerInv
    <3>2. PICK i \in DOMAIN reader[d].accepted : Place(n, d, i)
      BY <3>1
    <3>3. d \in PageId
      BY PagesTyped DEF AnswersInv, EvidenceTypeOK
    <3>4. /\ claims[n] = reader[d].accepted[i] /\ AnswerKept(d)
          /\ stage \in {"admitting", "admitted"}
      BY <2>1, <3>2, <3>3 DEF AnswersInv, LedgerInv, Place
    <3>5. reader[d].pending = {}
      BY <3>3, <3>4 DEF AnswersInv, ReadersOver, AnswerKept
    <3>6. claims[n].status # "pending"
      BY <3>2, <3>4, <3>5 DEF AnswerKept, Decided
    <3>7. reader[d].accepted # <<>>
      BY <3>2, EmptySeq
    <3> QED BY <3>2, <3>4, <3>6, <3>7 DEF AnswerKept
  <2>2. stage = "admitted" => \A d \in PageId : d \in 1..admitted
    BY PagesTyped DEF LedgerInv
  <2> QED BY <2>1, <2>2 DEF LedgerInv, OrderOfAnswersIrrelevant
<1> QED BY <1>1, EvidenceInductive, PTL
=============================================================================
