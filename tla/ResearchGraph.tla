---------------------------- MODULE ResearchGraph -----------------------------
(* The nodes of the research graph as relations on the research state: what each *)
(* node may turn the state of a checkpoint into.  The answers of the model, the  *)
(* pages that are found and what they say are choices; what the code makes of    *)
(* them is not.  A round of searches is modelled in detail in SearchRound, the   *)
(* report and its gate in ReportGate.                                            *)
EXTENDS Ledger

CONSTANTS
    Plans,             \* answers of the planner: sequences of [text, must, facets]
    AnswerTypes,       \* answer types a model may find in the question
    AsksForAction,     \* the question has one of _ACTION_WORDS
    MaxSubquestions,   \* settings.plan.max_subquestions
    MaxFacets,         \* settings.plan.max_facets_per_subquestion
    PerFirstRound,     \* settings.budget.queries_per_subquestion_first_round
    PerGap,            \* settings.budget.queries_per_gap_followup_round
    PerFollowup,       \* settings.budget.max_queries_per_followup_round
    About,             \* <<subquestion, facet>> pairs a claim may be filed under
    TimeLimited        \* a wall clock or cost limit is set

(* The size of a plan and the width of the rounds (config/schema.py).             *)
PlanSettings == MaxSubquestions \in 1..12 /\ MaxFacets \in 1..10
RoundSettings ==
    /\ PerFirstRound \in 1..5 /\ PerGap \in 1..3 /\ PerFollowup \in 1..20
    /\ TimeLimited \in BOOLEAN

ASSUME GraphAssumption ==
    /\ PlanSettings /\ RoundSettings /\ AsksForAction \in BOOLEAN
    /\ DOMAIN About = ClaimId /\ \A c \in ClaimId : About[c] # {}
    /\ \A answer \in Plans : answer \in Seq([text : {q.text : q \in ToSet(answer)}, must : BOOLEAN,
                                            facets : Seq(UNION {ToSet(q.facets) : q \in ToSet(answer)})])

Nodes == <<"intake_guard", "analyze_query", "plan", "check_plan",
           "generate_queries", "search", "process_results", "evaluate_sources",
           "extract_claims", "cluster_and_corroborate", "detect_contradictions",
           "assess_coverage",
           "synthesize", "verify_citations", "review_evidence", "output_gate", "END">>

Index(node) == CHOOSE i \in DOMAIN Nodes : Nodes[i] = node
Following(node) == Nodes[Index(node) + 1]

InitialState ==
    [node |-> "intake_guard", answer |-> None, plan |-> <<>>, iteration |-> 0, searches |-> 0,
     planned |-> 0, snapshot |-> <<>>, documents |-> {}, selected |-> {},
     subq |-> [c \in ClaimId |-> 0], facet |-> [c \in ClaimId |-> 0], supported |-> {},
     clusters |-> <<>>, origin |-> [d \in DOMAIN Docs |-> Docs[d].origin],
     contradictions |-> {}, stop |-> None, gate |-> None]

(* What a state may hold.                                                        *)
SubQuestionStatus == {"pending", "searching", "sufficient", "exhausted"}
Facets     == {"open", "sufficient", "contested"}
Question   == [must : BOOLEAN, facets : Seq(Facets), idle : Nat, status : SubQuestionStatus]
Conflict   == [n : Nat, left : ClaimId, right : ClaimId, subq : Nat, resolved : BOOLEAN, followed : BOOLEAN]
Finding    == [claims : SUBSET ClaimId, contested : BOOLEAN, since : Nat]

-----------------------------------------------------------------------------
(* analyze_query: the type of answer is the model's finding, or without it what  *)
(* the words of the question say.                                                *)
HeuristicAnswer == IF AsksForAction THEN "action_plan" ELSE "overview"
AnalyzeQuery(st) == {[st EXCEPT !.answer = a] : a \in AnswerTypes \cup {HeuristicAnswer}}

(* normalise_plan: required questions first, no question twice, at least one     *)
(* required, and a facet for each.                                               *)
SubQuestion(must, facets) ==
    [must |-> must, facets |-> [f \in 1..facets |-> "open"], status |-> "pending", idle |-> 0]

Kept(answer) ==
    LET ahead(i, j) == (answer[i].must /\ ~answer[j].must) \/ (answer[i].must = answer[j].must /\ i < j)
        new == {i \in DOMAIN answer : /\ answer[i].text # None
                                      /\ ~\E j \in DOMAIN answer : ahead(j, i) /\ answer[j].text = answer[i].text}
    IN {kept \in [1..Min({Cardinality(new), MaxSubquestions}) -> new] :
           \A n \in DOMAIN kept : {kept[m] : m \in 1..(n - 1)} = {i \in new : ahead(i, kept[n])}}

NormalisePlan(answer, kept) ==
    LET facets(q) == Max({1, Min({Cardinality(ToSet(q.facets) \ {None}), MaxFacets})})
        required == {n \in DOMAIN kept : answer[kept[n]].must}
    IN [n \in DOMAIN kept |-> SubQuestion(n \in required \/ (n = 1 /\ required = {}), facets(answer[kept[n]]))]

(* A plan that cannot be had or is empty: the question itself is the plan, with  *)
(* the obligations of its actions as a second facet.                             *)
FallbackPlan(st) == <<SubQuestion(TRUE, IF st.answer = "action_plan" THEN 2 ELSE 1)>>
Plan(st) ==
    LET normal == UNION {{NormalisePlan(a, kept) : kept \in Kept(a)} : a \in Plans}
    IN {[st EXCEPT !.plan = p] : p \in (normal \ {<<>>}) \cup {FallbackPlan(st)}}

-----------------------------------------------------------------------------
SearchesLeft(searches) == Max({0, MaxSearches - searches})
OpenOnes(st) == {s \in DOMAIN st.plan : IsOpen(st.plan[s])}
Target(s, facet, conflict) == [subq |-> s, facet |-> facet, conflict |-> conflict]

(* The queries of a round when a[t] of them are for t, and how many they are.    *)
Queries(a) == UNION {{t} \X (1..a[t]) : t \in DOMAIN a}
Total(a) == Cardinality(Queries(a))

(* The width of a round cuts what its targets want, conflicts first, then the    *)
(* missing facets in the order of the plan.                                      *)
Wants(t) == IF t.conflict # 0 THEN 1 ELSE PerGap
Ahead(t, u) ==
    \/ t.conflict # 0 /\ u.conflict = 0
    \/ (t.conflict # 0) = (u.conflict # 0)
       /\ \/ t.conflict < u.conflict
          \/ t.conflict = u.conflict /\ (t.subq < u.subq \/ (t.subq = u.subq /\ t.facet < u.facet))
Wanted(targets, t) == [u \in {v \in targets : Ahead(v, t)} |-> Wants(u)]
Trimmed(targets, cap) ==
    LET taken(t) == Total(Wanted(targets, t))
    IN [t \in {u \in targets : taken(u) < cap} |-> Min({Wants(t), cap - taken(t)})]

(* The conflicts not followed up and the facets that are missing.                *)
FollowupTargets(st) ==
    LET open == OpenOnes(st)
        conflicts == {x \in st.contradictions : ~x.resolved /\ ~x.followed /\ x.subq \in open}
        missing(s) == {f \in DOMAIN st.plan[s].facets : st.plan[s].facets[f] # "sufficient"}
    IN {Target(x.subq, 0, x.n) : x \in conflicts} \cup UNION {{Target(s, f, 0) : f \in missing(s)} : s \in open}

(* plan_targets, with the number of queries each may have: every open            *)
(* subquestion in the first round, what is left to follow up in the later ones.  *)
PlanTargets(st) ==
    LET open == OpenOnes(st)
        left == SearchesLeft(st.searches)
    IN IF open = {} \/ left = 0 THEN <<>>
       ELSE IF st.iteration = 1
       THEN [t \in {Target(s, 0, 0) : s \in open} |-> Max({1, Min({PerFirstRound, left \div Cardinality(open)})})]
       ELSE Trimmed(FollowupTargets(st), Min({PerFollowup, left}))

(* A round opens: some of the wanted queries are new enough to be asked.  A      *)
(* subquestion none of whose gaps got a query is exhausted.                      *)
Asked(st, admitted) ==
    LET asked == {t \in DOMAIN admitted : admitted[t] > 0}
        has(s) == \E t \in asked : t.subq = s
        gaps(s) == {t \in DOMAIN admitted : t.subq = s /\ t.facet # 0}
        dry(s) == gaps(s) # {} /\ gaps(s) \cap asked = {}
    IN [st EXCEPT
          !.planned = Total(admitted),
          !.plan = [s \in DOMAIN st.plan |-> [st.plan[s] EXCEPT !.status =
              IF dry(s) THEN "exhausted" ELSE IF has(s) THEN "searching" ELSE @]],
          !.contradictions = {[x EXCEPT !.followed = @ \/ \E t \in asked : t.conflict = x.n] : x \in st.contradictions}]

GenerateQueries(st) ==
    LET opened == [st EXCEPT !.iteration = @ + 1, !.snapshot = ProgressSnapshot(st), !.planned = 0]
        quota == PlanTargets(opened)
    IN {Asked(opened, admitted) :
           admitted \in {a \in [DOMAIN quota -> 0..Max({PerFirstRound, PerGap})] :
                            \A t \in DOMAIN quota : a[t] <= quota[t]}}

(* Each planned query is charged while the budget lasts, and once more when it   *)
(* is broadened.                                                                 *)
Charges(st) == LET left == SearchesLeft(st.searches)
               IN Min({left, st.planned})..Min({left, 2 * st.planned})
Search(st) == {[st EXCEPT !.searches = @ + n] : n \in Charges(st)}

(* New pages of the round are chosen once; one chosen earlier is not read again. *)
ProcessResults(st) ==
    {[st EXCEPT !.selected = new, !.documents = @ \cup new, !.planned = 0] :
        new \in IF st.planned = 0 THEN {{}} ELSE SUBSET (DOMAIN Docs \ st.documents)}

-----------------------------------------------------------------------------
(* extract_claims: any of the claims of the pages of the round, each filed under *)
(* a subquestion of the plan and one of its facets, or none; and the verdict on  *)
(* whether its source supports it.                                               *)
Filed(st, c) == {<<p[1], IF p[2] \in DOMAIN st.plan[p[1]].facets THEN p[2] ELSE 0>> :
                    p \in {q \in About[c] : q[1] \in DOMAIN st.plan}}

Extracted(st, filing, valid) ==
    LET claims == DOMAIN filing
    IN [st EXCEPT !.subq = [c \in ClaimId |-> IF c \in claims THEN filing[c][1] ELSE st.subq[c]],
                  !.facet = [c \in ClaimId |-> IF c \in claims THEN filing[c][2] ELSE st.facet[c]],
                  !.supported = @ \cup valid,
                  !.selected = {}]

Filings(st, claims) == {g \in [claims -> UNION {Filed(st, c) : c \in claims}] : \A c \in claims : g[c] \in Filed(st, c)}
ExtractClaims(st) ==
    LET fresh == {c \in ClaimId : Catalog[c].doc \in st.selected /\ st.subq[c] = 0 /\ Filed(st, c) # {}}
        filings == UNION {Filings(st, claims) : claims \in SUBSET fresh}
    IN UNION {{Extracted(st, filing, valid) : valid \in SUBSET DOMAIN filing} : filing \in filings}

Clustered(st) == Members(st.clusters, DOMAIN st.clusters)

ClusterAndCorroborate(st) ==
    LET new == st.supported \ Clustered(st)
        extracted == {c \in ClaimId : st.subq[c] # 0}
    IN IF new = {} THEN {st}
       ELSE {[st EXCEPT !.origin = MergeOrigins(@, extracted), !.clusters = grown] :
                grown \in ClusterClaims(st.subq, st.clusters, new, st.iteration)}

(* A candidate the judge calls a conflict, or that nobody judges, makes both     *)
(* findings contested; a side the evidence backs resolves it.                    *)
Verdicts(st, pair) ==
    {"no_conflict", "conflict"} \cup
    (IF Backed(st.clusters, pair[1], pair[2]) \/ Backed(st.clusters, pair[2], pair[1])
     THEN {"preferred"} ELSE {})

(* The n-th contradiction of the run, its pairs in the order of the findings.    *)
Ordinal(st, pairs, pair) ==
    Cardinality(st.contradictions) + 1 +
    Cardinality({p \in pairs : \/ Older(st.clusters, p[1], pair[1])
                               \/ p[1] = pair[1] /\ Older(st.clusters, p[2], pair[2])})
Contradiction(st, pairs, pair, verdict) ==
    [n |-> Ordinal(st, pairs, pair), left |-> pair[1], right |-> pair[2], subq |-> st.subq[pair[1]],
     resolved |-> verdict # "conflict", followed |-> FALSE]

Judged(st, pairs, verdict) ==
    LET contested == {p \in pairs : verdict[p] # "no_conflict"}
    IN [st EXCEPT
          !.clusters = [k \in DOMAIN st.clusters |->
              [st.clusters[k] EXCEPT !.contested = @ \/ \E p \in contested : k \in {p[1], p[2]}]],
          !.contradictions = @ \cup {Contradiction(st, pairs, p, verdict[p]) : p \in pairs}]

DetectContradictions(st) ==
    LET pairs == Candidates(st.clusters, {{x.left, x.right} : x \in st.contradictions})
    IN {Judged(st, pairs, verdict) :
           verdict \in {v \in [pairs -> {"no_conflict", "conflict", "preferred"}] :
                           \A p \in pairs : v[p] \in Verdicts(st, p)}}

-----------------------------------------------------------------------------
(* assess_coverage: the model may name missing facets of open subquestions; the  *)
(* statuses, the progress and the decision to stop are the code's.               *)
WithFacets(st, named) ==
    AssessFacets([st EXCEPT !.plan = [s \in DOMAIN st.plan |->
        [st.plan[s] EXCEPT !.facets = @ \o [i \in 1..named[s] |-> "open"]]]])

Progressed(st, gain) ==
    [st EXCEPT !.plan = [s \in DOMAIN st.plan |-> UpdateProgress(st.plan[s], gain[s])]]

Routed(st, overtime) ==
    LET reason == Decide(st.plan, st.iteration, st.searches, overtime)
    IN IF reason = "continue" THEN [st EXCEPT !.node = "generate_queries"]
       ELSE [st EXCEPT !.node = "synthesize", !.stop = IF DOMAIN st.clusters = {} THEN "no_evidence" ELSE reason]

Namings(st) ==
    {named \in [DOMAIN st.plan -> 0..MaxFacets] :
        \A s \in DOMAIN named :
            named[s] # 0 => IsOpen(st.plan[s]) /\ Len(st.plan[s].facets) + named[s] <= MaxFacets}
Gain(st) == LET now == ProgressSnapshot(st) IN [s \in DOMAIN st.plan |-> now[s] - st.snapshot[s]]
AssessCoverage(st) ==
    LET routings(s2) == {Routed(s2, overtime) : overtime \in IF TimeLimited THEN BOOLEAN ELSE {FALSE}}
    IN UNION {routings(Progressed(WithFacets(AssessFacets(st), named), Gain(st))) : named \in Namings(st)}

(* What the report says and what its gate makes of it is ReportGate.              *)
OutputGate(st) == {[st EXCEPT !.gate = v] : v \in {"pass", "pass_with_warnings", "fail"}}

(* What a node does to the state; the other nodes do not touch what is modelled. *)
After(st) ==
    CASE st.node = "analyze_query" -> AnalyzeQuery(st)
      [] st.node = "plan" -> Plan(st)
      [] st.node = "generate_queries" -> GenerateQueries(st)
      [] st.node = "search" -> Search(st)
      [] st.node = "process_results" -> ProcessResults(st)
      [] st.node = "extract_claims" -> ExtractClaims(st)
      [] st.node = "cluster_and_corroborate" -> ClusterAndCorroborate(st)
      [] st.node = "detect_contradictions" -> DetectContradictions(st)
      [] st.node = "assess_coverage" -> AssessCoverage(st)
      [] st.node = "output_gate" -> OutputGate(st)
      [] OTHER -> {st}

(* build_graph: the nodes run in their order, but for the loop of the rounds.    *)
Outcomes(st) ==
    {IF st.node = "assess_coverage" THEN next ELSE [next EXCEPT !.node = Following(st.node)] :
        next \in After(st)}

(* recursion_limit, and how far a graph that started at its first node has come. *)
RecursionLimit == 4 + 8 * MaxIterations + 4 + 5
StepsTaken(st) ==
    LET rounds == IF st.node \in {"intake_guard", "analyze_query", "plan", "check_plan"} THEN 0
                  ELSE IF Index(st.node) <= Index("generate_queries") THEN st.iteration
                  ELSE st.iteration - 1
    IN Index(st.node) - 1 + 8 * rounds
=============================================================================
