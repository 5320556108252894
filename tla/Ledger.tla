-------------------------------- MODULE Ledger --------------------------------
(* The claim ledger of a run and the rules that read it: which claims corroborate *)
(* one another, how many independent origins back a finding, which findings may   *)
(* contradict, when a facet is sufficient and when research stops.  Claims are    *)
(* numbered in the order of extraction; what they say is in Catalog.              *)
EXTENDS Quantities, Sequences, SequencesExt

CONSTANTS
    Catalog,          \* the claims the pages can yield; an entity has its name, letter
                      \* by letter, and its words, an attribute is a set of words, a value
                      \* what it says (words) and the quantities it or else the text states
    Docs,             \* site, first origin, score (percent) and primacy of a page
    Sim,              \* cosine of the embeddings of two claims, in percent
    Overlap,          \* share of the words of two claims they have in common, in percent
    SimThreshold,     \* settings.dedup.claim_similarity_threshold
    LexicalThreshold, \* settings.dedup.claim_lexical_fallback_threshold
    Tolerance,        \* settings.contradiction.numeric_relative_tolerance, in percent
    DateDays,         \* settings.contradiction.date_granularity_days
    MinSharedQuotes,  \* settings.dedup.syndication_min_shared_quotes
    MinOrigins,       \* settings.scoring.min_independent_origins
    PrimaryScore,     \* settings.scoring.primary_source_min_score
    Stagnation,       \* settings.budget.stagnation_threshold
    MaxIterations,    \* settings.budget.max_iterations
    MaxSearches,      \* settings.budget.max_searches
    None

ClaimId == DOMAIN Catalog

(* What the settings may be set to (config/schema.py); shares are in percent.     *)
DedupSettings ==
    SimThreshold \in 0..100 /\ LexicalThreshold \in 0..100 /\ MinSharedQuotes \in 1..10
ScoringSettings == PrimaryScore \in 0..100 /\ MinOrigins \in 1..5
ContradictionSettings == Tolerance \in 0..100 /\ DateDays \in 0..366
BudgetSettings == MaxIterations \in 1..10 /\ MaxSearches \in 1..200 /\ Stagnation \in 1..5

ASSUME LedgerAssumption ==
    /\ Catalog \in Seq(ToSet(Catalog)) /\ Docs \in Seq(ToSet(Docs))
    /\ \A d \in DOMAIN Docs : Docs[d].origin \in Nat
    /\ \A c \in ClaimId : Catalog[c].doc \in DOMAIN Docs
    /\ \A c, d \in ClaimId : Sim[c][d] = Sim[d][c] /\ Overlap[c][d] = Overlap[d][c]
    /\ DedupSettings /\ ScoringSettings /\ ContradictionSettings /\ BudgetSettings

-----------------------------------------------------------------------------
(* values_conflict: both state a quantity and the two are not the same, but for  *)
(* 2% or rounding.                                                               *)
SameValue == [relative |-> 2, points |-> 50, days |-> 31]
ValuesConflict(c, d) ==
    /\ Catalog[c].quantities # {} /\ Catalog[d].quantities # {}
    /\ \A q \in Catalog[c].quantities : ~MatchesAny(q, Catalog[d].quantities, SameValue)

(* Entities are compared by their words, a word standing for all of its stem, or *)
(* by their names without blanks and endings: letters that no name parts are one. *)
EntitiesEquivalent(a, b) ==
    /\ a # None /\ b # None
    /\ a.name = b.name \/ (a.words # {} /\ a.words = b.words)
EntityContains(a, b) ==
    /\ a # None /\ b # None
    /\ \/ Cardinality(a.words) = 1 /\ a.words \subseteq b.words
       \/ Cardinality(b.words) = 1 /\ b.words \subseteq a.words
EntitiesCompatible(a, b) ==
    \/ a = None \/ b = None
    \/ IsPrefix(a.name, b.name) \/ IsPrefix(b.name, a.name) \/ EntitiesEquivalent(a, b)

(* The claims of a round are compared by their embeddings or, when those cannot  *)
(* be had, by their words.  Each has its own threshold.                          *)
Measures == {[of |-> Sim, least |-> SimThreshold], [of |-> Overlap, least |-> LexicalThreshold]}

(* Two claims may report one finding: same subquestion, compatible entities, the *)
(* same conditions and dates, both in or both out of date, no other value, and   *)
(* alike enough, the more so when one of them names no entity.                   *)
MayJoin(subq, measure, c, anchor) ==
    LET x == Catalog[c]
        y == Catalog[anchor]
        stricter == Min({100, measure.least + 4})
    IN
    /\ subq[c] = subq[anchor]
    /\ EntitiesCompatible(x.entity, y.entity)
    /\ x.scope = y.scope /\ x.stale = y.stale
    /\ ~ValuesConflict(c, anchor)
    /\ measure.of[c][anchor] >= IF None \in {x.entity, y.entity} THEN stricter ELSE measure.least
    /\ measure.of[c][anchor] > 0

(* A finding is known by the first claim of its cluster, the one the others are  *)
(* compared with; findings are in the order they were made.                      *)
Older(clusters, j, k) ==
    LET made(x) == IF x \in DOMAIN clusters THEN {clusters[x].since} ELSE {}
    IN IF made(j) = made(k) THEN j < k
       ELSE made(k) = {} \/ \E r \in made(j), q \in made(k) : r < q

(* cluster_claims takes the new claims in the order of their ids: each joins the *)
(* most similar finding it may join, the older one on a tie, or founds its own.  *)
Fitting(subq, measure, clusters, new, home, c) ==
    {k \in (DOMAIN clusters) \cup {b \in new : b < c /\ home[b] = b} : MayJoin(subq, measure, c, k)}
Best(measure, clusters, fit, c) ==
    LET score(k) == measure.of[c][k]
    IN {k \in fit : \A j \in fit \ {k} : score(k) > score(j) \/ (score(k) = score(j) /\ Older(clusters, k, j))}
Homes(subq, measure, clusters, new) ==
    {home \in [new -> (DOMAIN clusters) \cup new] :
        \A c \in new : LET fit == Fitting(subq, measure, clusters, new, home, c)
                       IN home[c] \in IF fit = {} THEN {c} ELSE Best(measure, clusters, fit, c)}

Joined(clusters, home, round) ==
    [k \in (DOMAIN clusters) \cup {c \in DOMAIN home : home[c] = c} |->
        LET joining == {c \in DOMAIN home : home[c] = k}
        IN IF k \in DOMAIN clusters THEN [clusters[k] EXCEPT !.claims = @ \cup joining]
           ELSE [claims |-> joining, contested |-> FALSE, since |-> round]]
ClusterClaims(subq, clusters, new, round) ==
    {Joined(clusters, home, round) : home \in UNION {Homes(subq, m, clusters, new) : m \in Measures}}

-----------------------------------------------------------------------------
(* Of a union-find, what is joined with x, directly or through others: nothing   *)
(* that could be parted from it without parting two that are joined.             *)
Group(x, elements, joined) ==
    {y \in elements : \A P \in SUBSET elements :
        x \in P /\ y \notin P => \E a \in P, b \in elements \ P : <<a, b>> \in joined}

\* Mutant: copies keep their origins.
MergeOrigins_Never(origin, claims) == origin
(* merge_syndicated_origins: origins that share enough verbatim quotes become    *)
(* the smallest of them.                                                         *)
MergeOrigins(origin, claims) ==
    LET quotes(o) == {Catalog[c].quote : c \in {d \in claims : origin[Catalog[d].doc] = o}} \ {None}
        origins == {origin[d] : d \in DOMAIN origin}
        copies == {p \in origins \X origins :
                      Cardinality(quotes(p[1]) \cap quotes(p[2])) >= MinSharedQuotes}
    IN [d \in DOMAIN origin |-> Min(Group(origin[d], origins, copies))]

(* independent_origin_keys: claims of one text or one publisher are one voice,   *)
(* that of the first speaker one of them attributes something to, if any.  Of    *)
(* the claims of one origin the first is the one extracted first.                *)
OneVoice(origin, members) ==
    {p \in members \X members :
        LET x == Catalog[p[1]] y == Catalog[p[2]]
        IN Docs[x.doc].site = Docs[y.doc].site \/ origin[x.doc] = origin[y.doc]}
Speaks(c) == Catalog[c].speaker # None
Earlier(origin, c, d) ==
    LET o == origin[Catalog[c].doc] p == origin[Catalog[d].doc] IN o < p \/ (o = p /\ c < d)
Voices(origin, members) ==
    LET joined == OneVoice(origin, members)
        group == [c \in members |-> Group(c, members, joined)]
        silent == {group[c] : c \in {d \in members : ~\E e \in group[d] : Speaks(e)}}
        first == {c \in members : Speaks(c) /\ ~\E e \in group[c] : Speaks(e) /\ Earlier(origin, e, c)}
    IN Cardinality(silent) + Cardinality({Catalog[c].speaker : c \in first})

Members(clusters, K) == UNION {clusters[k].claims : k \in K}

ClustersOf(subq, clusters, s) == {k \in DOMAIN clusters : subq[k] = s}

-----------------------------------------------------------------------------
(* Overlap of two sets of words: of all of them, or of the shorter description.  *)
Jaccard(a, b) == 100 * Cardinality(a \cap b) >= 60 * Cardinality(a \cup b)
Details(a, b) ==
    LET shorter == Min({Cardinality(a), Cardinality(b)})
    IN shorter >= 2 /\ 100 * Cardinality(a \cap b) >= 75 * shorter

(* A period has its wording and the years it names.                              *)
PeriodsDiffer(p, q) ==
    /\ p # None /\ q # None
    /\ \/ p.years # <<>> /\ q.years # <<>> /\ p.years # q.years
       \/ p.years = <<>> /\ q.years = <<>> /\ p.text # q.text

SameEntity(x, y) ==
    \/ EntitiesEquivalent(x.entity, y.entity)
    \/ x.period # None /\ x.period = y.period /\ EntityContains(x.entity, y.entity)

SameAttribute(a, b) == a # {} /\ b # {} /\ (Jaccard(a, b) \/ Details(a, b))

(* Values further apart than the tolerance, or one a quantity and one not.       *)
Apart == [relative |-> Tolerance, points |-> 10 * Tolerance, days |-> DateDays]
ValuesDiffer(x, y) ==
    /\ x.words # {} /\ y.words # {}
    /\ IF x.quantities # {} /\ y.quantities # {}
       THEN \A q \in x.quantities : ~MatchesAny(q, y.quantities, Apart)
       ELSE \/ x.quantities \cup y.quantities # {}
            \/ 2 * Cardinality(x.words \cap y.words) < Cardinality(x.words \cup y.words)

(* contradiction_candidates: the same property of the same entity in the same    *)
(* period with another value, not judged before.                                 *)
Candidates(clusters, judged) ==
    {p \in (DOMAIN clusters) \X (DOMAIN clusters) :
        LET x == Catalog[p[1]] y == Catalog[p[2]] IN
        /\ Older(clusters, p[1], p[2]) /\ {p[1], p[2]} \notin judged
        /\ SameEntity(x, y) /\ ~PeriodsDiffer(x.period, y.period)
        /\ SameAttribute(x.attribute, y.attribute) /\ ValuesDiffer(x, y)}

Score(clusters, k) == Max({Docs[Catalog[c].doc].score : c \in clusters[k].claims})
HasPrimary(clusters, k) == \E c \in clusters[k].claims : Docs[Catalog[c].doc].primary

(* A preferred side counts only when a primary source of its own backs it, that  *)
(* outranks the other side or is not older.                                      *)
Backed(clusters, k, other) ==
    LET newest(j) == {Docs[Catalog[c].doc].date : c \in clusters[j].claims} IN
    /\ HasPrimary(clusters, k)
    /\ \/ Score(clusters, k) >= Score(clusters, other)
       \/ \E d \in newest(k) : \A e \in newest(other) : d >= e

-----------------------------------------------------------------------------
(* In what follows st is the research state: the plan, the subquestion and the   *)
(* facet each claim was filed under, the claims whose source supports them, and  *)
(* the findings, origins and contradictions made of them.                        *)

(* assess_facets.  A contradiction blocks until it is resolved or followed up.   *)
Settled(contradictions) ==
    UNION {{x.left, x.right} : x \in {y \in contradictions : y.resolved \/ y.followed}}

FacetsOf(st, k) == {st.facet[c] : c \in st.clusters[k].claims} \ {0}
Relevant(st, s, f) ==
    {k \in ClustersOf(st.subq, st.clusters, s) :
        /\ ~Catalog[k].stale
        /\ f \in FacetsOf(st, k) \/ (FacetsOf(st, k) = {} /\ Len(st.plan[s].facets) = 1)}

FacetStatus(st, s, f) ==
    LET relevant == Relevant(st, s, f)
        filed == {c \in st.supported : st.subq[c] = s /\ st.facet[c] = f}
        awaitsFreshness == /\ \E c \in filed : Catalog[c].stale
                           /\ ~\E c \in filed : Catalog[c].timely /\ ~Catalog[c].stale
        contested == \E k \in relevant \ Settled(st.contradictions) : st.clusters[k].contested
        strong == \E k \in relevant : HasPrimary(st.clusters, k) /\ Score(st.clusters, k) >= PrimaryScore
        independent == Voices(st.origin, Members(st.clusters, relevant)) >= MinOrigins
    IN CASE awaitsFreshness -> "open"
         [] contested /\ ~awaitsFreshness -> "contested"
         [] (strong \/ independent) /\ ~awaitsFreshness /\ ~contested -> "sufficient"
         [] OTHER -> "open"

AssessFacets(st) ==
    [st EXCEPT !.plan = [s \in DOMAIN st.plan |-> [st.plan[s] EXCEPT !.facets =
        [f \in DOMAIN st.plan[s].facets |-> FacetStatus(st, s, f)]]]]

IsOpen(q) == q.status \in {"pending", "searching"}

(* Findings and independent origins of each subquestion; their growth over a     *)
(* round is its gain.                                                            *)
ProgressSnapshot(st) ==
    [s \in DOMAIN st.plan |->
        LET own == ClustersOf(st.subq, st.clusters, s)
        IN Cardinality(own) + Voices(st.origin, Members(st.clusters, own))]

UpdateProgress(q, gain) ==
    CASE ~IsOpen(q) -> q
      [] IsOpen(q) /\ (\A f \in DOMAIN q.facets : q.facets[f] = "sufficient") ->
           [q EXCEPT !.status = "sufficient", !.idle = 0]
      [] OTHER -> IF gain > 0 THEN [q EXCEPT !.status = "searching", !.idle = 0]
                  ELSE [q EXCEPT !.status = IF q.idle + 1 >= Stagnation THEN "exhausted" ELSE "searching",
                                 !.idle = @ + 1]

\* Mutant: one round more than allowed.
Decide_OneMore(plan, iteration, searches, overtime) ==
    IF \A s \in DOMAIN plan : plan[s].status = "sufficient" THEN "sufficient"
    ELSE IF iteration > MaxIterations THEN "max_iterations"
    ELSE "continue"
(* decide(): success before the limits, the limits before "nothing left open".   *)
Decide(plan, iteration, searches, overtime) ==
    LET musts == {s \in DOMAIN plan : plan[s].must}
        required == IF musts = {} THEN DOMAIN plan ELSE musts
        answered == required # {} /\ \A s \in required : plan[s].status = "sufficient"
    IN IF answered THEN "sufficient"
       ELSE IF iteration >= MaxIterations THEN "max_iterations"
       ELSE IF searches >= MaxSearches \/ overtime THEN "budget"
       ELSE IF ~\E s \in DOMAIN plan : IsOpen(plan[s]) THEN "no_progress"
       ELSE "continue"
=============================================================================
