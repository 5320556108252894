-------------------------- MODULE ResearchRunProofs --------------------------
(* What the research of a run promises for any plan, any pages and claims, any   *)
(* budget and any number of crashes: its checkpoint never goes back, its graph   *)
(* stays below the limit of steps, a crash costs at most the searches of one     *)
(* round, and a facet is sufficient only for evidence.                           *)
EXTENDS ResearchRun, FiniteSetTheorems, SequenceTheorems, WellFoundedInduction, TLAPS

Fields == {"node", "answer", "plan", "iteration", "searches", "planned", "snapshot", "documents",
           "selected", "subq", "facet", "supported", "clusters", "origin", "contradictions", "stop", "gate"}

Width == Max({MaxSubquestions * PerFirstRound, PerFollowup})

NodeNames == {Nodes[i] : i \in 1..17}

Typed(st) ==
    /\ DOMAIN st = Fields
    /\ st.iteration \in Nat /\ st.searches \in Nat
    /\ st.planned \in 0..Width
    /\ st.plan \in Seq(Question) /\ Len(st.plan) <= MaxSubquestions
    /\ st.contradictions \subseteq Conflict /\ IsFiniteSet(st.contradictions)
    /\ DOMAIN st.clusters \subseteq ClaimId /\ st.clusters \in [DOMAIN st.clusters -> Finding]
    /\ st.subq \in [ClaimId -> Nat] /\ st.facet \in [ClaimId -> Nat]
    /\ st.supported \subseteq ClaimId
    /\ st.origin \in [DOMAIN Docs -> Nat]

(* Where in the rounds a node can find the run.                                  *)
First == {"intake_guard", "analyze_query", "plan", "check_plan"}
Last4 == {"synthesize", "verify_citations", "review_evidence", "output_gate", "END"}
RoundOK(st) ==
    /\ st.node \in First => st.iteration = 0
    /\ st.node = "generate_queries" => st.iteration < MaxIterations
    /\ st.node \notin First \cup {"generate_queries"} => st.iteration \in 1..MaxIterations

(* A finding is made of supported claims on one subquestion, all in date or none;*)
(* texts that are copies of each other, as far as the findings show, have one    *)
(* origin.                                                                       *)
QuotesOf(claims, d) == {Catalog[c].quote : c \in {a \in claims : Catalog[a].doc = d}} \ {None}
Shared(st, d, e) == Cardinality(QuotesOf(Clustered(st), d) \cap QuotesOf(Clustered(st), e))
LedgerOK(st) ==
    /\ \A k \in DOMAIN st.clusters :
          /\ k \in st.clusters[k].claims /\ st.clusters[k].claims \subseteq st.supported
          /\ \A c \in st.clusters[k].claims : st.subq[c] = st.subq[k] /\ Catalog[c].stale = Catalog[k].stale
    /\ \A c \in st.supported : st.subq[c] # 0
    /\ \A d, e \in DOMAIN Docs :
          Docs[d].origin = Docs[e].origin \/ Shared(st, d, e) >= MinSharedQuotes => st.origin[d] = st.origin[e]
AllGrouped(st) == st.supported \subseteq Clustered(st)

Earned(st) ==
    st.node = "synthesize" => \A s \in DOMAIN st.plan :
        "sufficient" \in ToSet(st.plan[s].facets) =>
            \/ \E c \in Evidence(st, s) : Docs[Catalog[c].doc].primary
            \/ \E c, d \in Evidence(st, s) :
                  /\ Docs[Catalog[c].doc].site # Docs[Catalog[d].doc].site
                  /\ ~OneText(st, Catalog[c].doc, Catalog[d].doc)
                  /\ Catalog[c].speaker = None \/ Catalog[c].speaker # Catalog[d].speaker

StateInv(st) ==
    /\ st.node \in NodeNames /\ Typed(st) /\ RoundOK(st) /\ LedgerOK(st)
    /\ st.node # "cluster_and_corroborate" => AllGrouped(st)
    /\ MinOrigins >= 2 => Earned(st)

(* Rounds whose searches are made and counted.                                   *)
Rounds(st) == IF st.node = "search" THEN st.iteration - 1 ELSE st.iteration
Follows(x, st) ==
    /\ Rounds(x) <= Rounds(st)
    /\ Rounds(st) = Rounds(x) => st.searches = x.searches
    /\ Rounds(st) = Rounds(x) + 1 => st.searches - x.searches <= RoundWidth
    /\ x.node \in Last4 => st.node \in Last4 /\ Rounds(st) = Rounds(x)

(* The checkpoints of a worker, from the last one written to its own state, are  *)
(* one step apart.                                                               *)
Base == IF saved = {} THEN {InitialState} ELSE saved
InTransaction == IF writing[lease] = {} THEN 0 ELSE 1
ChainOK ==
    LET st == worker.st n == Len(worker.unsaved) at == StepsTaken(st) IN
    /\ StateInv(st) /\ worker.meter \in {0, st.searches}
    /\ worker.unsaved \in Seq(ToSet(worker.unsaved)) /\ n <= MaxUnsaved + 1
    /\ \A i \in 1..n : /\ StateInv(worker.unsaved[i]) /\ Follows(worker.unsaved[i], st)
                       /\ StepsTaken(worker.unsaved[i]) = at - (n - i)
    /\ \A x \in writing[lease] : Follows(x, st) /\ StepsTaken(x) = at - n
    /\ \A x \in saved : StepsTaken(x) = at - n - InTransaction
    /\ saved = {} => at - n - InTransaction = -1
    /\ \A x \in Base : Follows(x, st)

OneCheckpoint(S) == \A x, y \in S : StateInv(x) /\ x = y
RunTyped ==
    /\ lease \in Attempts /\ billed \in Nat /\ OneCheckpoint(saved)
    /\ outcome \in {"open", "failed", "succeeded", "succeeded_with_warnings"}
    /\ DOMAIN writing = Attempts
    /\ \A a \in Attempts : /\ OneCheckpoint(writing[a])
                           /\ writing[a] # {} => a = lease /\ worker.phase = "working"
    /\ DOMAIN worker = {"phase", "st", "meter", "unsaved"}
    /\ \/ worker = Dispatched /\ outcome = "open" /\ (lease = 1 => saved = {})
       \/ worker = Dead
       \/ worker.phase = "working" /\ outcome = "open" /\ ChainOK

(* What crashes have lost so far, of a worker less than a round of nodes ahead   *)
(* of the checkpoint of its run.                                                 *)
Accounts ==
    outcome = "open" /\ MaxUnsaved <= 5 =>
       CASE worker.phase = "working" -> billed - worker.st.searches <= (lease - 1) * RoundWidth
         [] worker.phase = "dispatched" -> \A x \in Base : billed - x.searches <= (lease - 1) * RoundWidth
         [] OTHER -> \A x \in Base : billed - x.searches <= lease * RoundWidth

RunInv == RunTyped /\ Accounts

-----------------------------------------------------------------------------
LEMMA MaxOfTwo == ASSUME NEW a \in Int, NEW b \in Int
                  PROVE  Max({a, b}) = IF a >= b THEN a ELSE b
BY DEF Max
LEMMA MinOfTwo == ASSUME NEW a \in Int, NEW b \in Int
                  PROVE  Min({a, b}) = IF a <= b THEN a ELSE b
BY DEF Min

(* What the proofs use of the ranges of the settings: every limit is a number.   *)
LEMMA NumbersOfSettings ==
    /\ MinSharedQuotes \in Nat \ {0} /\ MinOrigins \in Nat \ {0} /\ Stagnation \in Nat \ {0}
    /\ MaxIterations \in Nat \ {0} /\ MaxSearches \in Nat
    /\ MaxSubquestions \in Nat \ {0} /\ MaxFacets \in Nat \ {0}
    /\ PerFirstRound \in Nat \ {0} /\ PerGap \in Nat \ {0} /\ PerFollowup \in Nat \ {0}
<1>1. MinSharedQuotes \in Nat \ {0} /\ MinOrigins \in Nat \ {0}
  BY LedgerAssumption DEF DedupSettings, ScoringSettings
<1>2. MaxIterations \in Nat \ {0} /\ MaxSearches \in Nat /\ Stagnation \in Nat \ {0}
  BY LedgerAssumption DEF BudgetSettings
<1>3. /\ MaxSubquestions \in Nat \ {0} /\ MaxFacets \in Nat \ {0}
      /\ PerFirstRound \in Nat \ {0} /\ PerGap \in Nat \ {0} /\ PerFollowup \in Nat \ {0}
  BY GraphAssumption DEF PlanSettings, RoundSettings
<1> QED BY <1>1, <1>2, <1>3

LEMMA LeftNat == ASSUME NEW n \in Nat PROVE SearchesLeft(n) \in Nat
<1>1. MaxSearches - n \in Int /\ 0 \in Int
  BY NumbersOfSettings
<1> QED BY <1>1, MaxOfTwo DEF SearchesLeft

LEMMA WidthNat == /\ Width \in Nat /\ MaxSubquestions * PerFirstRound \in Nat
                  /\ Width >= MaxSubquestions * PerFirstRound /\ Width >= PerFollowup
                  /\ RoundWidth = 2 * Width
<1>1. MaxSubquestions * PerFirstRound \in Nat /\ PerFollowup \in Nat
  BY NumbersOfSettings
<1> QED BY <1>1, MaxOfTwo DEF Width, RoundWidth

LEMMA NodeAt == \A i \in 1..17 : Index(Nodes[i]) = i
<1>1. DOMAIN Nodes = 1..17
  BY DEF Nodes
<1>2. \A i, j \in 1..17 : Nodes[i] = Nodes[j] => i = j
  BY DEF Nodes
<1> SUFFICES ASSUME NEW i \in 1..17 PROVE Index(Nodes[i]) = i
  OBVIOUS
<1> QED BY <1>1, <1>2 DEF Index

LEMMA NodeNumbers ==
  /\ Index("intake_guard") = 1 /\ Index("analyze_query") = 2 /\ Index("plan") = 3
  /\ Index("check_plan") = 4 /\ Index("generate_queries") = 5 /\ Index("search") = 6
  /\ Index("process_results") = 7 /\ Index("evaluate_sources") = 8 /\ Index("extract_claims") = 9
  /\ Index("cluster_and_corroborate") = 10 /\ Index("detect_contradictions") = 11
  /\ Index("assess_coverage") = 12 /\ Index("synthesize") = 13 /\ Index("verify_citations") = 14
  /\ Index("review_evidence") = 15 /\ Index("output_gate") = 16 /\ Index("END") = 17
BY NodeAt DEF Nodes

LEMMA NodesInOrder ==
  /\ Following("intake_guard") = "analyze_query" /\ Following("analyze_query") = "plan"
  /\ Following("plan") = "check_plan" /\ Following("check_plan") = "generate_queries"
  /\ Following("generate_queries") = "search" /\ Following("search") = "process_results"
  /\ Following("process_results") = "evaluate_sources" /\ Following("evaluate_sources") = "extract_claims"
  /\ Following("extract_claims") = "cluster_and_corroborate"
  /\ Following("cluster_and_corroborate") = "detect_contradictions"
  /\ Following("detect_contradictions") = "assess_coverage"
  /\ Following("synthesize") = "verify_citations" /\ Following("verify_citations") = "review_evidence"
  /\ Following("review_evidence") = "output_gate" /\ Following("output_gate") = "END"
BY NodeNumbers DEF Following, Nodes

-----------------------------------------------------------------------------
(* How a node moves the run along, and what it may cost.                         *)
Moves(st, next) ==
    \/ /\ st.node = "generate_queries" /\ next.node = "search" /\ next.iteration = st.iteration + 1
    \/ /\ st.node = "assess_coverage" /\ next.iteration = st.iteration
       /\ next.node = "synthesize" \/ (next.node = "generate_queries" /\ st.iteration < MaxIterations)
    \/ /\ st.node \notin {"generate_queries", "assess_coverage", "END"}
       /\ next.node = Following(st.node) /\ next.iteration = st.iteration
Charged(st, next) ==
    IF st.node = "search" THEN next.searches - st.searches \in 0..RoundWidth
    ELSE next.searches = st.searches

LEMMA NamesListed ==
  NodeNames = First \cup {"generate_queries", "search", "process_results", "evaluate_sources",
                          "extract_claims", "cluster_and_corroborate", "detect_contradictions",
                          "assess_coverage"} \cup Last4
<1>1. /\ Nodes[1] = "intake_guard" /\ Nodes[2] = "analyze_query" /\ Nodes[3] = "plan"
      /\ Nodes[4] = "check_plan" /\ Nodes[5] = "generate_queries" /\ Nodes[6] = "search"
      /\ Nodes[7] = "process_results" /\ Nodes[8] = "evaluate_sources" /\ Nodes[9] = "extract_claims"
      /\ Nodes[10] = "cluster_and_corroborate" /\ Nodes[11] = "detect_contradictions"
      /\ Nodes[12] = "assess_coverage" /\ Nodes[13] = "synthesize" /\ Nodes[14] = "verify_citations"
      /\ Nodes[15] = "review_evidence" /\ Nodes[16] = "output_gate" /\ Nodes[17] = "END"
  BY DEF Nodes
<1>2. 1..17 = {1, 2, 3, 4, 5, 6, 7, 8, 9, 10, 11, 12, 13, 14, 15, 16, 17}
  OBVIOUS
<1> QED BY <1>1, <1>2 DEF NodeNames, First, Last4

LEMMA StepsByNode ==
  ASSUME NEW st, st.node \in NodeNames, st.iteration \in Nat
  PROVE  StepsTaken(st) =
           CASE st.node = "intake_guard" -> 0 [] st.node = "analyze_query" -> 1
             [] st.node = "plan" -> 2 [] st.node = "check_plan" -> 3
             [] st.node = "generate_queries" -> 4 + 8 * st.iteration
             [] OTHER -> Index(st.node) - 9 + 8 * st.iteration
<1>1. st.node \in First \/ st.node = "generate_queries" => Index(st.node) \in 1..5
  BY NodeNumbers DEF First
<1>2. st.node \notin First \cup {"generate_queries"} => Index(st.node) \in 6..17
  BY NamesListed, NodeNumbers DEF Last4
<1> QED BY <1>1, <1>2, NodeNumbers DEF StepsTaken, First

LEMMA OneStepOn ==
  ASSUME NEW st, NEW next, st.node \in NodeNames, st.iteration \in Nat, RoundOK(st), Moves(st, next)
  PROVE  /\ next.node \in NodeNames /\ next.iteration \in Nat /\ RoundOK(next)
         /\ StepsTaken(next) = StepsTaken(st) + 1
<1> USE DEF First, Last4
<1>1. CASE st.node \in First
  <2>1. /\ next.node = Following(st.node) /\ next.iteration = st.iteration /\ st.iteration = 0
        /\ next.node \in {"analyze_query", "plan", "check_plan", "generate_queries"}
    BY <1>1, NodesInOrder DEF Moves, RoundOK
  <2>2. next.node \in NodeNames
    BY <2>1, NamesListed
  <2>3. RoundOK(next)
    BY <2>1, NumbersOfSettings, LedgerAssumption DEF RoundOK
  <2>4. StepsTaken(next) = StepsTaken(st) + 1
    BY <1>1, <2>1, <2>2, StepsByNode, NodesInOrder
  <2> QED BY <2>1, <2>2, <2>3, <2>4
<1>2. CASE st.node = "generate_queries"
  <2>1. next.node = "search" /\ next.iteration = st.iteration + 1 /\ st.iteration < MaxIterations
    BY <1>2 DEF Moves, RoundOK
  <2>2. next.node \in NodeNames
    BY <2>1, NamesListed
  <2>3. RoundOK(next)
    BY <2>1, NumbersOfSettings DEF RoundOK
  <2>4. StepsTaken(next) = StepsTaken(st) + 1
    BY <1>2, <2>1, <2>2, StepsByNode, NodeNumbers
  <2> QED BY <2>1, <2>2, <2>3, <2>4
<1>3. CASE st.node = "assess_coverage"
  <2>1. /\ next.iteration = st.iteration /\ next.node \in {"synthesize", "generate_queries"}
        /\ next.node = "generate_queries" => st.iteration < MaxIterations
    BY <1>3 DEF Moves
  <2>2. next.node \in NodeNames
    BY <2>1, NamesListed
  <2>3. RoundOK(next)
    BY <1>3, <2>1, LedgerAssumption DEF RoundOK
  <2>4. StepsTaken(next) = StepsTaken(st) + 1
    BY <1>3, <2>1, <2>2, StepsByNode, NodeNumbers
  <2> QED BY <2>1, <2>2, <2>3, <2>4
<1>4. CASE st.node \notin First \cup {"generate_queries", "assess_coverage"}
  <2>1. st.node # "END" /\ next.node = Following(st.node) /\ next.iteration = st.iteration
    BY <1>4 DEF Moves
  <2>2. /\ next.node \in {"process_results", "evaluate_sources", "extract_claims", "cluster_and_corroborate",
                          "detect_contradictions", "assess_coverage", "verify_citations", "review_evidence",
                          "output_gate", "END"}
        /\ Index(next.node) = Index(st.node) + 1 /\ Index(st.node) \in Nat
    BY <1>4, <2>1, NamesListed, NodesInOrder, NodeNumbers
  <2>3. next.node \in NodeNames
    BY <2>2, NamesListed
  <2>4. RoundOK(next)
    BY <1>4, <2>1, <2>2 DEF RoundOK
  <2>5. StepsTaken(next) = StepsTaken(st) + 1
    <3>1. StepsTaken(st) = Index(st.node) - 9 + 8 * st.iteration
      BY <1>4, StepsByNode
    <3>2. StepsTaken(next) = Index(next.node) - 9 + 8 * next.iteration
      BY <2>1, <2>2, <2>3, StepsByNode
    <3> QED BY <2>1, <2>2, <3>1, <3>2
  <2> QED BY <2>1, <2>3, <2>4, <2>5
<1> QED BY <1>1, <1>2, <1>3, <1>4

LEMMA StillFollows ==
  ASSUME NEW x, NEW st, NEW next, st.node \in NodeNames, {st.iteration, x.iteration} \subseteq Nat,
         {st.searches, x.searches} \subseteq Nat, Moves(st, next), Charged(st, next), Follows(x, st)
  PROVE  Follows(x, next)
<1> USE DEF First, Last4
<1>1. /\ st.node # "END"
      /\ Rounds(next) = IF st.node = "search" THEN Rounds(st) + 1 ELSE Rounds(st)
      /\ st.node \in Last4 => next.node \in Last4
  BY NamesListed, NodesInOrder DEF Moves, Rounds
<1>2. Rounds(x) \in Int /\ Rounds(st) \in Int
  BY DEF Rounds
<1>3. RoundWidth \in Nat
  BY WidthNat
<1>4. CASE st.node = "search"
  BY <1>1, <1>2, <1>3, <1>4 DEF Follows, Charged
<1>5. CASE st.node # "search"
  BY <1>1, <1>2, <1>5 DEF Follows, Charged
<1> QED BY <1>4, <1>5

(* A worker that is less than a round of nodes ahead of a checkpoint is at most  *)
(* the searches of one round ahead of it, those under way included.              *)
LEMMA AtMostOneRoundLost ==
  ASSUME NEW x, NEW st, {st.node, x.node} \subseteq NodeNames, {st.iteration, x.iteration} \subseteq Nat,
         {st.searches, x.searches} \subseteq Nat, RoundOK(x), RoundOK(st), Follows(x, st),
         StepsTaken(st) - StepsTaken(x) <= 7, NEW n \in 0..RoundWidth, n = 0 \/ st.node = "search"
  PROVE  st.searches + n - x.searches <= RoundWidth
<1> USE DEF First, Last4
<1>1. Rounds(x) \in Int /\ Rounds(st) \in Int /\ RoundWidth \in Nat
  BY WidthNat DEF Rounds
<1>2. \A y \in {x, st} :
        /\ y.node \in First => StepsTaken(y) \in 0..3 /\ Rounds(y) = 0
        /\ y.node = "generate_queries" => StepsTaken(y) = 4 + 8 * Rounds(y)
        /\ y.node = "search" => StepsTaken(y) = 5 + 8 * Rounds(y)
        /\ y.node \notin First \cup {"generate_queries", "search"} =>
              StepsTaken(y) >= 8 * Rounds(y) - 2 /\ (y.node \notin Last4 => StepsTaken(y) <= 8 * Rounds(y) + 3)
  <2> SUFFICES ASSUME NEW y \in {x, st}
               PROVE  /\ y.node \in First => StepsTaken(y) \in 0..3 /\ Rounds(y) = 0
                      /\ y.node = "generate_queries" => StepsTaken(y) = 4 + 8 * Rounds(y)
                      /\ y.node = "search" => StepsTaken(y) = 5 + 8 * Rounds(y)
                      /\ y.node \notin First \cup {"generate_queries", "search"} =>
                            /\ StepsTaken(y) >= 8 * Rounds(y) - 2
                            /\ y.node \notin Last4 => StepsTaken(y) <= 8 * Rounds(y) + 3
    OBVIOUS
  <2>1. y.node \in NodeNames /\ y.iteration \in Nat /\ RoundOK(y)
    OBVIOUS
  <2>2. y.node \in First => StepsTaken(y) \in 0..3 /\ Rounds(y) = 0
    BY <2>1, StepsByNode DEF RoundOK, Rounds
  <2>3. y.node = "generate_queries" => StepsTaken(y) = 4 + 8 * Rounds(y)
    BY <2>1, StepsByNode DEF Rounds
  <2>4. y.node = "search" => StepsTaken(y) = 5 + 8 * Rounds(y)
    BY <2>1, StepsByNode, NodeNumbers DEF Rounds
  <2>5. ASSUME y.node \notin First \cup {"generate_queries", "search"}
        PROVE  /\ StepsTaken(y) >= 8 * Rounds(y) - 2
               /\ y.node \notin Last4 => StepsTaken(y) <= 8 * Rounds(y) + 3
    <3>1. StepsTaken(y) = Index(y.node) - 9 + 8 * y.iteration /\ Rounds(y) = y.iteration
      BY <2>1, <2>5, StepsByNode DEF Rounds
    <3>2. Index(y.node) \in 7..17 /\ (y.node \notin Last4 => Index(y.node) \in 7..12)
      BY <2>1, <2>5, NamesListed, NodeNumbers
    <3> QED BY <2>1, <3>1, <3>2
  <2> QED BY <2>2, <2>3, <2>4, <2>5
<1>3. {StepsTaken(x), StepsTaken(st)} \subseteq Int
  BY NamesListed, StepsByNode, NodeNumbers
<1>4. CASE st.node = "search"
  <2>1. Rounds(st) = Rounds(x)
    BY <1>1, <1>2, <1>3, <1>4 DEF Follows
  <2> QED BY <1>1, <2>1 DEF Follows
<1>5. CASE st.node # "search"
  <2>1. Rounds(st) <= Rounds(x) + 1
    BY <1>1, <1>2, <1>3, <1>5 DEF Follows
  <2> QED BY <1>1, <1>5, <2>1 DEF Follows
<1> QED BY <1>4, <1>5

-----------------------------------------------------------------------------
(* The nodes, one by one.  Those that leave the ledger alone keep what it says.  *)
LEMMA SameLedger ==
  ASSUME NEW st, NEW r, LedgerOK(st), r.clusters = st.clusters, r.supported = st.supported,
         r.subq = st.subq, r.origin = st.origin
  PROVE  LedgerOK(r) /\ (AllGrouped(r) <=> AllGrouped(st))
BY DEF LedgerOK, AllGrouped, Shared, Clustered, Members

LEMMA InitialStateOK == StateInv(InitialState) /\ StepsTaken(InitialState) = 0 /\ InitialState.searches = 0
<1> DEFINE st == InitialState
<1>1. Typed(st)
  <2>1. IsFiniteSet({}) /\ <<>> \in Seq(Question) /\ Len(<<>>) = 0
    BY FS_EmptySet
  <2>2. 0 \in 0..Width /\ 0 <= MaxSubquestions
    BY WidthNat, NumbersOfSettings
  <2>3. DOMAIN Docs = DOMAIN [d \in DOMAIN Docs |-> Docs[d].origin]
        /\ [d \in DOMAIN Docs |-> Docs[d].origin] \in [DOMAIN Docs -> Nat]
    BY LedgerAssumption
  <2> QED BY <2>1, <2>2, <2>3 DEF Typed, InitialState, Fields
<1>2. st.node = "intake_guard" /\ st.iteration = 0 /\ st.searches = 0
  BY DEF InitialState
<1>3. st.node \in NodeNames
  BY <1>2, NamesListed DEF First
<1>4. RoundOK(st)
  BY <1>2 DEF RoundOK, First
<1>5. LedgerOK(st) /\ AllGrouped(st)
  <2>1. DOMAIN st.clusters = {} /\ st.supported = {}
    BY DEF InitialState
  <2>2. Clustered(st) = {}
    BY <2>1 DEF Clustered, Members
  <2>3. \A d, e \in DOMAIN Docs : Shared(st, d, e) = 0
    BY <2>2, FS_EmptySet DEF Shared, QuotesOf
  <2>4. \A d \in DOMAIN Docs : st.origin[d] = Docs[d].origin
    BY DEF InitialState
  <2> QED BY <2>1, <2>3, <2>4, NumbersOfSettings DEF LedgerOK, AllGrouped
<1>6. StepsTaken(st) = 0
  BY <1>2, <1>3, StepsByNode
<1> QED BY <1>1, <1>2, <1>3, <1>4, <1>5, <1>6 DEF StateInv, Earned

LEMMA AnalyzeQueryOK ==
  ASSUME NEW st, Typed(st), LedgerOK(st), NEW r \in AnalyzeQuery(st)
  PROVE  /\ Typed(r) /\ LedgerOK(r) /\ (AllGrouped(r) <=> AllGrouped(st))
         /\ r.iteration = st.iteration /\ r.searches = st.searches
<1>1. PICK a : r = [st EXCEPT !.answer = a]
  BY DEF AnalyzeQuery
<1>2. /\ r.clusters = st.clusters /\ r.supported = st.supported /\ r.subq = st.subq /\ r.origin = st.origin
      /\ r.iteration = st.iteration /\ r.searches = st.searches /\ r.planned = st.planned /\ r.plan = st.plan
      /\ r.contradictions = st.contradictions /\ r.facet = st.facet /\ DOMAIN r = Fields
  BY <1>1 DEF Typed, Fields
<1> QED BY <1>2, SameLedger DEF Typed

LEMMA SearchOK ==
  ASSUME NEW st, Typed(st), LedgerOK(st), NEW r \in Search(st)
  PROVE  /\ Typed(r) /\ LedgerOK(r) /\ (AllGrouped(r) <=> AllGrouped(st))
         /\ r.iteration = st.iteration /\ r.searches - st.searches \in 0..RoundWidth
<1>1. PICK n \in Charges(st) : r = [st EXCEPT !.searches = @ + n]
  BY DEF Search
<1>2. Charges(st) \subseteq 0..RoundWidth
  <2>1. SearchesLeft(st.searches) \in Nat
    BY LeftNat DEF Typed
  <2>2. st.planned \in Nat /\ st.planned <= Width
    BY WidthNat DEF Typed
  <2> QED BY <2>1, <2>2, MinOfTwo, WidthNat DEF Charges
<1>3. /\ r.clusters = st.clusters /\ r.supported = st.supported /\ r.subq = st.subq /\ r.origin = st.origin
      /\ r.iteration = st.iteration /\ r.searches = st.searches + n /\ r.planned = st.planned /\ r.plan = st.plan
      /\ r.contradictions = st.contradictions /\ r.facet = st.facet /\ DOMAIN r = Fields
  BY <1>1 DEF Typed, Fields
<1>4. n \in 0..RoundWidth /\ RoundWidth \in Nat /\ st.searches \in Nat
  BY <1>2, WidthNat DEF Typed
<1> QED BY <1>3, <1>4, SameLedger DEF Typed

LEMMA ProcessResultsOK ==
  ASSUME NEW st, Typed(st), LedgerOK(st), NEW r \in ProcessResults(st)
  PROVE  /\ Typed(r) /\ LedgerOK(r) /\ (AllGrouped(r) <=> AllGrouped(st))
         /\ r.iteration = st.iteration /\ r.searches = st.searches
<1>1. PICK new : r = [st EXCEPT !.selected = new, !.documents = @ \cup new, !.planned = 0]
  BY DEF ProcessResults
<1>2. /\ r.clusters = st.clusters /\ r.supported = st.supported /\ r.subq = st.subq /\ r.origin = st.origin
      /\ r.iteration = st.iteration /\ r.searches = st.searches /\ r.planned = 0 /\ r.plan = st.plan
      /\ r.contradictions = st.contradictions /\ r.facet = st.facet /\ DOMAIN r = Fields
  BY <1>1 DEF Typed, Fields
<1> QED BY <1>2, SameLedger, WidthNat DEF Typed

LEMMA OutputGateOK ==
  ASSUME NEW st, Typed(st), LedgerOK(st), NEW r \in OutputGate(st)
  PROVE  /\ Typed(r) /\ LedgerOK(r) /\ (AllGrouped(r) <=> AllGrouped(st))
         /\ r.iteration = st.iteration /\ r.searches = st.searches
<1>1. PICK v : r = [st EXCEPT !.gate = v]
  BY DEF OutputGate
<1>2. /\ r.clusters = st.clusters /\ r.supported = st.supported /\ r.subq = st.subq /\ r.origin = st.origin
      /\ r.iteration = st.iteration /\ r.searches = st.searches /\ r.planned = st.planned /\ r.plan = st.plan
      /\ r.contradictions = st.contradictions /\ r.facet = st.facet /\ DOMAIN r = Fields
  BY <1>1 DEF Typed, Fields
<1> QED BY <1>2, SameLedger DEF Typed

LEMMA QuestionTyped ==
  ASSUME NEW must \in BOOLEAN, NEW n \in Nat PROVE SubQuestion(must, n) \in Question
<1>1. [f \in 1..n |-> "open"] \in Seq(Facets)
  BY IsASeq DEF Facets
<1> QED BY <1>1 DEF SubQuestion, Question, SubQuestionStatus

LEMMA RangeFinite == ASSUME NEW S, NEW s \in Seq(S) PROVE IsFiniteSet(ToSet(s))
<1>1. ToSet(s) = {s[i] : i \in 1..Len(s)} /\ Len(s) \in Nat
  BY LenProperties DEF ToSet
<1>2. [i \in 1..Len(s) |-> s[i]] \in Surjection(1..Len(s), ToSet(s))
  BY <1>1 DEF Surjection
<1>3. PICK f : f \in Surjection(1..Len(s), ToSet(s))
  BY <1>2
<1>4. IsFiniteSet(1..Len(s))
  BY <1>1, FS_Interval
<1> QED BY <1>3, <1>4, FS_Surjection

LEMMA PlanOK ==
  ASSUME NEW st, Typed(st), LedgerOK(st), NEW r \in Plan(st)
  PROVE  /\ Typed(r) /\ LedgerOK(r) /\ (AllGrouped(r) <=> AllGrouped(st))
         /\ r.iteration = st.iteration /\ r.searches = st.searches
<1>1. PICK p : /\ r = [st EXCEPT !.plan = p]
               /\ p = FallbackPlan(st) \/ \E answer \in Plans : \E kept \in Kept(answer) : p = NormalisePlan(answer, kept)
  BY DEF Plan
<1>2. p \in Seq(Question) /\ Len(p) <= MaxSubquestions
  <2>1. CASE p = FallbackPlan(st)
    <3>1. SubQuestion(TRUE, IF st.answer = "action_plan" THEN 2 ELSE 1) \in Question
      BY QuestionTyped
    <3>2. ASSUME NEW q \in Question
          PROVE  <<q>> \in Seq(Question) /\ Len(<<q>>) <= MaxSubquestions
      BY NumbersOfSettings
    <3> QED BY <2>1, <3>1, <3>2 DEF FallbackPlan
  <2>2. CASE \E answer \in Plans : \E kept \in Kept(answer) : p = NormalisePlan(answer, kept)
    <3>1. PICK answer \in Plans : \E kept \in Kept(answer) : p = NormalisePlan(answer, kept)
      BY <2>2
    <3>2. PICK kept \in Kept(answer) : p = NormalisePlan(answer, kept)
      BY <3>1
    <3>3. PICK new \in SUBSET DOMAIN answer : kept \in [1..Min({Cardinality(new), MaxSubquestions}) -> new]
      BY <3>2 DEF Kept
    <3> DEFINE T == {q.text : q \in ToSet(answer)}
               F == UNION {ToSet(q.facets) : q \in ToSet(answer)}
               m == Min({Cardinality(new), MaxSubquestions})
    <3>4. answer \in Seq([text : T, must : BOOLEAN, facets : Seq(F)])
      BY GraphAssumption
    <3> HIDE DEF T, F
    <3>5. DOMAIN answer = 1..Len(answer) /\ Len(answer) \in Nat
          /\ \A i \in DOMAIN answer : answer[i].must \in BOOLEAN /\ answer[i].facets \in Seq(F)
      <4>1. DOMAIN answer = 1..Len(answer) /\ Len(answer) \in Nat
        BY <3>4, LenProperties
      <4>2. \A i \in 1..Len(answer) : answer[i] \in [text : T, must : BOOLEAN, facets : Seq(F)]
        BY <3>4, ElementOfSeq
      <4> QED BY <4>1, <4>2
    <3>6. IsFiniteSet(DOMAIN answer)
      BY <3>5, FS_Interval
    <3>7. IsFiniteSet(new) /\ Cardinality(new) \in Nat
      BY <3>6, FS_Subset, FS_CardinalityType
    <3>8. m \in Nat /\ m <= MaxSubquestions
      BY <3>7, MinOfTwo, NumbersOfSettings
    <3> HIDE DEF m
    <3>9. kept \in [1..m -> new]
      BY <3>3 DEF m
    <3>10. \A n \in 1..m : p[n] \in Question
      <4> SUFFICES ASSUME NEW n \in 1..m PROVE p[n] \in Question
        OBVIOUS
      <4> DEFINE q == answer[kept[n]]
                 required == {i \in DOMAIN kept : answer[kept[i]].must}
                 facets == Max({1, Min({Cardinality(ToSet(q.facets) \ {None}), MaxFacets})})
      <4>1. p[n] = SubQuestion(n \in required \/ (n = 1 /\ required = {}), facets)
        BY <3>2, <3>9 DEF NormalisePlan
      <4>2. q.facets \in Seq(F)
        BY <3>5, <3>9
      <4>3. Cardinality(ToSet(q.facets) \ {None}) \in Nat
        BY <4>2, RangeFinite, FS_Subset, FS_CardinalityType
      <4>4. ASSUME NEW k \in Nat PROVE Max({1, Min({k, MaxFacets})}) \in Nat
        <5> DEFINE least == Min({k, MaxFacets})
        <5>1. least \in Int
          BY MinOfTwo, NumbersOfSettings
        <5> HIDE DEF least
        <5>2. Max({1, least}) = IF 1 >= least THEN 1 ELSE least
          BY <5>1, MaxOfTwo
        <5> QED BY <5>1, <5>2 DEF least
      <4>6. facets \in Nat
        BY <4>3, <4>4
      <4> HIDE DEF facets, required
      <4> QED BY <4>1, <4>6, QuestionTyped
    <3>11. DOMAIN p = 1..m /\ p = [n \in 1..m |-> p[n]]
      BY <3>2, <3>9 DEF NormalisePlan
    <3>12. p \in Seq(Question)
      BY <3>8, <3>10, <3>11, IsASeq
    <3>13. Len(p) = m
      BY <3>8, <3>11, <3>12, LenProperties
    <3> QED BY <3>8, <3>12, <3>13
  <2> QED BY <1>1, <2>1, <2>2
<1>3. /\ r.clusters = st.clusters /\ r.supported = st.supported /\ r.subq = st.subq /\ r.origin = st.origin
      /\ r.iteration = st.iteration /\ r.searches = st.searches /\ r.planned = st.planned /\ r.plan = p
      /\ r.contradictions = st.contradictions /\ r.facet = st.facet /\ DOMAIN r = Fields
  BY <1>1 DEF Typed, Fields
<1> QED BY <1>2, <1>3, SameLedger DEF Typed

-----------------------------------------------------------------------------
(* The width of a round: what its targets get never exceeds what it is cut to.   *)
Key == [subq : Nat, facet : Nat, conflict : Nat]

LEMMA OneQuery == ASSUME NEW a PROVE \A p : p \in Queries(a) <=> \E t \in DOMAIN a : \E i \in 1..a[t] : p = <<t, i>>
BY DEF Queries

LEMMA QueriesFinite ==
  ASSUME NEW T, IsFiniteSet(T), NEW w \in Nat, NEW a, DOMAIN a \subseteq T, \A t \in DOMAIN a : a[t] \in 0..w
  PROVE  IsFiniteSet(Queries(a)) /\ Total(a) \in Nat
<1>1. Queries(a) \subseteq T \X (1..w)
  BY DEF Queries
<1>2. IsFiniteSet(T \X (1..w))
  <2>1. IsFiniteSet(1..w)
    BY FS_Interval
  <2> QED BY <2>1, FS_Product
<1> QED BY <1>1, <1>2, FS_Subset, FS_CardinalityType DEF Total

LEMMA AheadIsOrder ==
  /\ \A t, u \in Key : t # u => Ahead(t, u) \/ Ahead(u, t)
  /\ \A t \in Key : ~Ahead(t, t)
  /\ \A t, u, v \in Key : Ahead(t, u) /\ Ahead(u, v) => Ahead(t, v)
<1>1. ASSUME NEW t \in Key, NEW u \in Key, t # u
      PROVE  Ahead(t, u) \/ Ahead(u, t)
  <2>1. t.subq # u.subq \/ t.facet # u.facet \/ t.conflict # u.conflict
    BY <1>1 DEF Key
  <2> QED BY <2>1 DEF Key, Ahead
<1>2. \A t \in Key : ~Ahead(t, t)
  BY DEF Key, Ahead
<1>3. \A t, u, v \in Key : Ahead(t, u) /\ Ahead(u, v) => Ahead(t, v)
  BY DEF Key, Ahead
<1> QED BY <1>1, <1>2, <1>3

LEMMA TrimmedFits ==
  ASSUME NEW targets \in SUBSET Key, IsFiniteSet(targets), NEW cap \in Nat, NEW a,
         DOMAIN a = DOMAIN Trimmed(targets, cap),
         \A t \in DOMAIN a : a[t] \in Nat /\ a[t] <= Trimmed(targets, cap)[t]
  PROVE  /\ Total(a) \in Nat /\ Total(a) <= cap
         /\ DOMAIN a \subseteq targets /\ \A t \in DOMAIN a : a[t] \in 0..PerGap
<1> DEFINE taken(t) == Total(Wanted(targets, t))
<1>1. \A t : Wants(t) \in 1..PerGap
  BY NumbersOfSettings DEF Wants
<1>2. PerGap \in Nat
  BY NumbersOfSettings
<1>3. \A t : /\ DOMAIN Wanted(targets, t) = {v \in targets : Ahead(v, t)}
             /\ \A u \in DOMAIN Wanted(targets, t) : Wanted(targets, t)[u] = Wants(u)
  BY DEF Wanted
<1>4. \A t : IsFiniteSet(Queries(Wanted(targets, t))) /\ taken(t) \in Nat
  <2> SUFFICES ASSUME NEW t PROVE IsFiniteSet(Queries(Wanted(targets, t))) /\ taken(t) \in Nat
    OBVIOUS
  <2>1. DOMAIN Wanted(targets, t) \subseteq targets
    BY <1>3
  <2>2. \A u \in DOMAIN Wanted(targets, t) : Wanted(targets, t)[u] \in 0..PerGap
    BY <1>1, <1>2, <1>3
  <2> QED BY <1>2, <2>1, <2>2, QueriesFinite
<1>5. ASSUME NEW t \in targets, NEW u \in targets, Ahead(u, t)
      PROVE  taken(t) >= taken(u) + Wants(u)
  <2> DEFINE Q(v) == Queries(Wanted(targets, v))
             own  == {u} \X (1..Wants(u))
  <2>1. Q(u) \subseteq Q(t)
    <3>1. \A v \in DOMAIN Wanted(targets, u) :
             v \in DOMAIN Wanted(targets, t) /\ Wanted(targets, u)[v] = Wanted(targets, t)[v]
      <4>1. \A v \in targets : Ahead(v, u) => Ahead(v, t)
        <5>1. \A v \in targets : v \in Key
          OBVIOUS
        <5> QED BY <1>5, <5>1, AheadIsOrder
      <4>2. DOMAIN Wanted(targets, u) \subseteq DOMAIN Wanted(targets, t)
        BY <1>3, <4>1
      <4> QED BY <1>3, <4>2
    <3> QED BY <3>1, OneQuery
  <2>2. own \subseteq Q(t)
    <3>1. u \in DOMAIN Wanted(targets, t) /\ Wanted(targets, t)[u] = Wants(u)
      BY <1>3, <1>5
    <3> QED BY <3>1, OneQuery
  <2>3. Q(u) \cap own = {}
    <3>1. u \notin DOMAIN Wanted(targets, u)
      <4>1. u \in Key
        OBVIOUS
      <4>2. ~Ahead(u, u)
        BY <4>1, AheadIsOrder
      <4> QED BY <1>3, <4>2
    <3> QED BY <3>1, OneQuery
  <2>4. IsFiniteSet(own) /\ Cardinality(own) = Wants(u)
    <3>1. IsFiniteSet({u}) /\ Cardinality({u}) = 1
      BY FS_Singleton
    <3>2. IsFiniteSet(1..Wants(u)) /\ Cardinality(1..Wants(u)) = Wants(u)
      BY <1>1, <1>2, FS_Interval
    <3>3. IsFiniteSet(own) /\ Cardinality(own) = 1 * Wants(u)
      BY <3>1, <3>2, FS_Product
    <3> QED BY <1>1, <3>3
  <2>5. IsFiniteSet(Q(u)) /\ IsFiniteSet(Q(t)) /\ taken(u) = Cardinality(Q(u)) /\ taken(t) = Cardinality(Q(t))
    BY <1>4 DEF Total
  <2>6. Cardinality(Q(u) \cup own) = taken(u) + Wants(u) - Cardinality({}) /\ IsFiniteSet(Q(u) \cup own)
    BY <2>3, <2>4, <2>5, FS_Union
  <2>7. Cardinality({}) = 0 /\ taken(u) \in Nat /\ Wants(u) \in Nat
    BY <1>1, <1>2, <1>4, FS_EmptySet
  <2>8. Cardinality(Q(u) \cup own) <= Cardinality(Q(t))
    BY <2>1, <2>2, <2>5, FS_Subset
  <2> HIDE DEF Q, own, taken
  <2> QED BY <1>4, <2>5, <2>6, <2>7, <2>8
<1>6. /\ DOMAIN a = {u \in targets : taken(u) < cap}
      /\ \A t \in DOMAIN a : Trimmed(targets, cap)[t] = Min({Wants(t), cap - taken(t)})
  BY DEF Trimmed
<1>7. \A t \in DOMAIN a : t \in targets /\ a[t] \in 0..PerGap /\ a[t] <= Wants(t) /\ taken(t) + a[t] <= cap
  <2> SUFFICES ASSUME NEW t \in DOMAIN a
               PROVE  t \in targets /\ a[t] \in 0..PerGap /\ a[t] <= Wants(t) /\ taken(t) + a[t] <= cap
    OBVIOUS
  <2>1. a[t] \in Nat /\ a[t] <= Min({Wants(t), cap - taken(t)}) /\ t \in targets
    BY <1>6
  <2>2. Wants(t) \in Nat /\ cap - taken(t) \in Int /\ taken(t) \in Nat
    BY <1>1, <1>2, <1>4
  <2> HIDE DEF taken
  <2> QED BY <1>1, <1>2, <2>1, <2>2, MinOfTwo
<1> HIDE DEF taken
<1> DEFINE S == Queries(a)
           f == [p \in S |-> taken(p[1]) + p[2]]
<1>8. \A p \in S : p[1] \in DOMAIN a /\ p[2] \in 1..a[p[1]] /\ p = <<p[1], p[2]>>
  BY DEF Queries
<1>9. f \in Injection(S, 1..cap)
  <2>1. \A p \in S : taken(p[1]) + p[2] \in 1..cap
    BY <1>4, <1>7, <1>8
  <2>2. ASSUME NEW p \in S, NEW q \in S, taken(p[1]) + p[2] = taken(q[1]) + q[2]
        PROVE  p = q
    <3>1. p[1] \in targets /\ q[1] \in targets /\ p[2] \in 1..Wants(p[1]) /\ q[2] \in 1..Wants(q[1])
      BY <1>1, <1>7, <1>8
    <3>2. CASE p[1] = q[1]
      <4>1. p[2] = q[2]
        BY <1>4, <2>2, <3>1, <3>2
      <4> QED BY <1>8, <3>2, <4>1
    <3>3. CASE Ahead(p[1], q[1])
      BY <1>1, <1>4, <1>5, <2>2, <3>1, <3>3
    <3>4. CASE Ahead(q[1], p[1])
      BY <1>1, <1>4, <1>5, <2>2, <3>1, <3>4
    <3> QED BY <3>1, <3>2, <3>3, <3>4, AheadIsOrder
  <2> QED BY <2>1, <2>2 DEF Injection, IsInjective
<1>10. IsFiniteSet(1..cap) /\ Cardinality(1..cap) = cap
  BY FS_Interval
<1>11. PICK g : g \in Injection(S, 1..cap)
  BY <1>9
<1>12. IsFiniteSet(S) /\ Cardinality(S) <= cap
  BY <1>10, <1>11, FS_Injection
<1> QED BY <1>7, <1>12, FS_CardinalityType DEF Total

LEMMA ImageFinite == ASSUME NEW g, IsFiniteSet(DOMAIN g) PROVE IsFiniteSet({g[x] : x \in DOMAIN g})
<1> DEFINE T == {g[x] : x \in DOMAIN g}
<1>1. [x \in DOMAIN g |-> g[x]] \in Surjection(DOMAIN g, T)
  BY DEF Surjection
<1>2. PICK f : f \in Surjection(DOMAIN g, T)
  BY <1>1
<1> QED BY <1>2, FS_Surjection

LEMMA FirstRoundFits ==
  ASSUME NEW open \in SUBSET (1..MaxSubquestions), NEW a, DOMAIN a \subseteq {Target(s, 0, 0) : s \in open},
         \A t \in DOMAIN a : a[t] \in 0..PerFirstRound
  PROVE  Total(a) \in Nat /\ Total(a) <= MaxSubquestions * PerFirstRound
<1> DEFINE S == Queries(a)
           T == (1..MaxSubquestions) \X (1..PerFirstRound)
           f == [p \in S |-> <<p[1].subq, p[2]>>]
<1>1. IsFiniteSet(T) /\ Cardinality(T) = MaxSubquestions * PerFirstRound
  <2>1. IsFiniteSet(1..MaxSubquestions) /\ Cardinality(1..MaxSubquestions) = MaxSubquestions
    BY FS_Interval, NumbersOfSettings
  <2>2. IsFiniteSet(1..PerFirstRound) /\ Cardinality(1..PerFirstRound) = PerFirstRound
    BY FS_Interval, NumbersOfSettings
  <2> QED BY <2>1, <2>2, FS_Product
<1>2. \A t \in DOMAIN a : t.subq \in open /\ t = Target(t.subq, 0, 0)
  BY DEF Target
<1>3. \A p \in S : p[1] \in DOMAIN a /\ p[2] \in 1..a[p[1]] /\ p = <<p[1], p[2]>>
  BY OneQuery
<1>4. \A p \in S : p[1].subq \in 1..MaxSubquestions /\ p[2] \in 1..PerFirstRound
  BY <1>2, <1>3, NumbersOfSettings
<1>5. f \in Injection(S, T)
  <2>1. \A p \in S : <<p[1].subq, p[2]>> \in T
    BY <1>4
  <2>2. ASSUME NEW p \in S, NEW q \in S, <<p[1].subq, p[2]>> = <<q[1].subq, q[2]>>
        PROVE  p = q
    <3>1. p[1].subq = q[1].subq /\ p[2] = q[2]
      BY <2>2
    <3>2. p[1] = q[1]
      BY <1>2, <1>3, <3>1
    <3> QED BY <1>3, <3>1, <3>2
  <2> QED BY <2>1, <2>2 DEF Injection, IsInjective
<1>6. PICK g : g \in Injection(S, T)
  BY <1>5
<1> HIDE DEF S, T
<1>7. IsFiniteSet(S) /\ Cardinality(S) <= Cardinality(T)
  BY <1>1, <1>6, FS_Injection
<1> QED BY <1>1, <1>7, FS_CardinalityType DEF Total, S

LEMMA TargetsFinite ==
  ASSUME NEW st, Typed(st)
  PROVE  FollowupTargets(st) \subseteq Key /\ IsFiniteSet(FollowupTargets(st))
<1> DEFINE open == OpenOnes(st)
           some == {x \in st.contradictions : ~x.resolved /\ ~x.followed /\ x.subq \in open}
           conflicts == {Target(x.subq, 0, x.n) : x \in some}
           missing(s) == {f \in DOMAIN st.plan[s].facets : st.plan[s].facets[f] # "sufficient"}
           gapsOf(s) == {Target(s, f, 0) : f \in missing(s)}
           gaps == UNION {gapsOf(s) : s \in open}
<1> HIDE DEF open
<1>0. open \subseteq DOMAIN st.plan
  BY DEF open, OpenOnes
<1>1. /\ DOMAIN st.plan = 1..Len(st.plan) /\ Len(st.plan) \in Nat
      /\ \A s \in DOMAIN st.plan : st.plan[s] \in Question
  BY LenProperties, ElementOfSeq DEF Typed
<1>2. \A s \in DOMAIN st.plan : DOMAIN st.plan[s].facets = 1..Len(st.plan[s].facets) /\ Len(st.plan[s].facets) \in Nat
  BY <1>1, LenProperties DEF Question
<1>3. IsFiniteSet(conflicts) /\ conflicts \subseteq Key
  <2>1. IsFiniteSet(some) /\ \A x \in some : x.subq \in Nat /\ x.n \in Nat
    BY FS_Subset DEF Typed, Conflict
  <2>2. PICK g : g = [x \in some |-> Target(x.subq, 0, x.n)]
    OBVIOUS
  <2>3. conflicts = {g[x] : x \in DOMAIN g} /\ DOMAIN g = some
    BY <2>2
  <2> QED BY <2>1, <2>3, ImageFinite DEF Target, Key
<1>4. ASSUME NEW s \in open PROVE IsFiniteSet(gapsOf(s)) /\ gapsOf(s) \subseteq Key
  <2>1. IsFiniteSet(DOMAIN st.plan[s].facets)
    BY <1>0, <1>2, FS_Interval
  <2>2. IsFiniteSet(missing(s))
    BY <2>1, FS_Subset
  <2>3. PICK g : g = [f \in missing(s) |-> Target(s, f, 0)]
    OBVIOUS
  <2>4. gapsOf(s) = {g[f] : f \in DOMAIN g} /\ DOMAIN g = missing(s)
    BY <2>3
  <2>5. s \in Nat /\ missing(s) \subseteq Nat
    BY <1>0, <1>1, <1>2
  <2> QED BY <2>2, <2>4, <2>5, ImageFinite DEF Target, Key
<1>5. IsFiniteSet(gaps) /\ gaps \subseteq Key
  <2>1. IsFiniteSet(open)
    <3>1. IsFiniteSet(DOMAIN st.plan)
      BY <1>1, FS_Interval
    <3> QED BY <1>0, <3>1, FS_Subset
  <2>2. PICK g : g = [s \in open |-> gapsOf(s)]
    OBVIOUS
  <2> HIDE DEF gapsOf
  <2>3. {gapsOf(s) : s \in open} = {g[s] : s \in DOMAIN g} /\ DOMAIN g = open
    BY <2>2
  <2>4. IsFiniteSet({gapsOf(s) : s \in open})
    BY <2>1, <2>3, ImageFinite
  <2>5. \A G \in {gapsOf(s) : s \in open} : IsFiniteSet(G) /\ G \subseteq Key
    BY <1>4
  <2> QED BY <2>4, <2>5, FS_UNION
<1> HIDE DEF conflicts, gaps
<1>6. IsFiniteSet(conflicts \cup gaps) /\ conflicts \cup gaps \subseteq Key
  BY <1>3, <1>5, FS_Union
<1> QED BY <1>6 DEF conflicts, gaps, open, FollowupTargets

LEMMA QuotasFit ==
  ASSUME NEW st, Typed(st), NEW a, DOMAIN a = DOMAIN PlanTargets(st),
         \A t \in DOMAIN a : a[t] \in Nat /\ a[t] <= PlanTargets(st)[t]
  PROVE  Total(a) \in 0..Width
<1> DEFINE open == OpenOnes(st)
           left == SearchesLeft(st.searches)
           quota == Max({1, Min({PerFirstRound, left \div Cardinality(open)})})
           cap == Min({PerFollowup, left})
<1>1. left \in Nat
  BY LeftNat DEF Typed
<1>2. open \subseteq DOMAIN st.plan /\ DOMAIN st.plan = 1..Len(st.plan) /\ open \subseteq 1..MaxSubquestions
  BY LenProperties, NumbersOfSettings DEF OpenOnes, Typed
<1>3. IsFiniteSet(open)
  <2>1. IsFiniteSet(1..MaxSubquestions)
    BY FS_Interval, NumbersOfSettings
  <2> QED BY <1>2, <2>1, FS_Subset
<1>4. PlanTargets(st) = IF open = {} \/ left = 0 THEN <<>>
                        ELSE IF st.iteration = 1 THEN [t \in {Target(s, 0, 0) : s \in open} |-> quota]
                        ELSE Trimmed(FollowupTargets(st), cap)
  BY DEF PlanTargets
<1> HIDE DEF open, left, quota, cap
<1>5. CASE open = {} \/ left = 0
  <2>1. DOMAIN a = {}
    BY <1>4, <1>5
  <2>2. Queries(a) = {}
    BY <2>1, OneQuery
  <2> QED BY <2>2, FS_EmptySet, WidthNat DEF Total
<1>6. CASE ~(open = {} \/ left = 0) /\ st.iteration = 1
  <2>1. quota \in 0..PerFirstRound
    <3>1. Cardinality(open) \in Nat /\ Cardinality(open) > 0
      BY <1>3, <1>6, FS_CardinalityType, FS_EmptySet
    <3>2. left \div Cardinality(open) \in Int
      BY <1>1, <3>1
    <3>3. Min({PerFirstRound, left \div Cardinality(open)}) \in Int
          /\ Min({PerFirstRound, left \div Cardinality(open)}) <= PerFirstRound
      BY <3>2, MinOfTwo, NumbersOfSettings
    <3>4. ASSUME NEW m \in Int, m <= PerFirstRound PROVE Max({1, m}) \in 0..PerFirstRound
      BY <3>4, MaxOfTwo, NumbersOfSettings
    <3> QED BY <3>3, <3>4 DEF quota
  <2>2. DOMAIN a = {Target(s, 0, 0) : s \in open} /\ \A t \in DOMAIN a : a[t] \in 0..PerFirstRound
    <3>1. DOMAIN a = {Target(s, 0, 0) : s \in open} /\ \A t \in DOMAIN a : PlanTargets(st)[t] = quota
      BY <1>4, <1>6
    <3> QED BY <2>1, <3>1, NumbersOfSettings
  <2>3. Total(a) \in Nat /\ Total(a) <= MaxSubquestions * PerFirstRound
    BY <1>2, <2>2, FirstRoundFits
  <2> QED BY <2>3, WidthNat
<1>7. CASE ~(open = {} \/ left = 0) /\ st.iteration # 1
  <2>1. cap \in Nat /\ cap <= PerFollowup
    BY <1>1, MinOfTwo, NumbersOfSettings DEF cap
  <2>2. FollowupTargets(st) \subseteq Key /\ IsFiniteSet(FollowupTargets(st))
    BY TargetsFinite
  <2>3. DOMAIN a = DOMAIN Trimmed(FollowupTargets(st), cap)
        /\ \A t \in DOMAIN a : a[t] \in Nat /\ a[t] <= Trimmed(FollowupTargets(st), cap)[t]
    BY <1>4, <1>7
  <2>4. Total(a) \in Nat /\ Total(a) <= cap
    BY <2>1, <2>2, <2>3, TrimmedFits
  <2> QED BY <2>1, <2>4, WidthNat, NumbersOfSettings
<1> QED BY <1>5, <1>6, <1>7

LEMMA GenerateQueriesOK ==
  ASSUME NEW st, Typed(st), LedgerOK(st), NEW r \in GenerateQueries(st)
  PROVE  /\ Typed(r) /\ LedgerOK(r) /\ (AllGrouped(r) <=> AllGrouped(st))
         /\ r.iteration = st.iteration + 1 /\ r.searches = st.searches
<1> DEFINE opened == [st EXCEPT !.iteration = @ + 1, !.snapshot = ProgressSnapshot(st), !.planned = 0]
<1>1. PICK a \in [DOMAIN PlanTargets(opened) -> 0..Max({PerFirstRound, PerGap})] :
         r = Asked(opened, a) /\ \A t \in DOMAIN PlanTargets(opened) : a[t] <= PlanTargets(opened)[t]
  BY DEF GenerateQueries
<1>2. /\ opened.clusters = st.clusters /\ opened.supported = st.supported /\ opened.subq = st.subq
      /\ opened.origin = st.origin /\ opened.iteration = st.iteration + 1 /\ opened.searches = st.searches
      /\ opened.planned = 0 /\ opened.plan = st.plan
      /\ opened.contradictions = st.contradictions /\ opened.facet = st.facet /\ DOMAIN opened = Fields
  BY DEF Typed, Fields
<1>3. Typed(opened)
  BY <1>2, WidthNat DEF Typed
<1> HIDE DEF opened
<1>4. Total(a) \in 0..Width
  <2>1. Max({PerFirstRound, PerGap}) \in Nat
    BY MaxOfTwo, NumbersOfSettings
  <2>2. DOMAIN a = DOMAIN PlanTargets(opened)
        /\ \A t \in DOMAIN a : a[t] \in Nat /\ a[t] <= PlanTargets(opened)[t]
    BY <1>1, <2>1
  <2> QED BY <1>3, <2>2, QuotasFit
<1> DEFINE asked == {t \in DOMAIN a : a[t] > 0}
           has(s) == \E t \in asked : t.subq = s
           gaps(s) == {t \in DOMAIN a : t.subq = s /\ t.facet # 0}
           dry(s) == gaps(s) # {} /\ gaps(s) \cap asked = {}
           plan2 == [s \in DOMAIN st.plan |-> [st.plan[s] EXCEPT !.status =
                        IF dry(s) THEN "exhausted" ELSE IF has(s) THEN "searching" ELSE @]]
           mark(x) == [x EXCEPT !.followed = @ \/ \E t \in asked : t.conflict = x.n]
<1>5. /\ r.clusters = st.clusters /\ r.supported = st.supported /\ r.subq = st.subq
      /\ r.origin = st.origin /\ r.iteration = st.iteration + 1 /\ r.searches = st.searches
      /\ r.planned = Total(a) /\ r.plan = plan2
      /\ r.contradictions = {mark(x) : x \in st.contradictions} /\ r.facet = st.facet /\ DOMAIN r = Fields
  <2>1. r = [opened EXCEPT !.planned = Total(a),
                !.plan = plan2, !.contradictions = {mark(x) : x \in st.contradictions}]
    BY <1>1, <1>2 DEF Asked
  <2> HIDE DEF plan2, mark
  <2>2. /\ r.clusters = opened.clusters /\ r.supported = opened.supported /\ r.subq = opened.subq
        /\ r.origin = opened.origin /\ r.iteration = opened.iteration /\ r.searches = opened.searches
        /\ r.facet = opened.facet /\ r.planned = Total(a) /\ DOMAIN r = Fields
    BY <1>2, <2>1 DEF Fields
  <2>3. r.contradictions = {mark(x) : x \in st.contradictions}
    BY <1>2, <2>1 DEF Fields
  <2>4. r.plan = plan2
    BY <1>2, <2>1 DEF Fields
  <2> QED BY <1>2, <2>2, <2>3, <2>4
<1>6. plan2 \in Seq(Question) /\ Len(plan2) = Len(st.plan)
  <2>1. DOMAIN st.plan = 1..Len(st.plan) /\ Len(st.plan) \in Nat /\ \A s \in DOMAIN st.plan : st.plan[s] \in Question
    BY LenProperties, ElementOfSeq DEF Typed
  <2> HIDE DEF dry, has
  <2>2. \A s \in 1..Len(st.plan) : plan2[s] \in Question
    BY <2>1 DEF Question, SubQuestionStatus
  <2>3. plan2 = [s \in 1..Len(st.plan) |-> plan2[s]] /\ DOMAIN plan2 = 1..Len(st.plan)
    BY <2>1
  <2> HIDE DEF plan2
  <2>4. plan2 \in Seq(Question)
    <3>1. PICK n \in Nat : n = Len(st.plan)
      BY <2>1
    <3>2. plan2 = [s \in 1..n |-> plan2[s]] /\ \A s \in 1..n : plan2[s] \in Question
      BY <2>2, <2>3, <3>1
    <3> QED BY <3>2, IsASeq
  <2> QED BY <2>1, <2>3, <2>4, LenProperties
<1>7. {mark(x) : x \in st.contradictions} \subseteq Conflict /\ IsFiniteSet({mark(x) : x \in st.contradictions})
  <2>1. \A x \in st.contradictions : x \in Conflict
    BY DEF Typed
  <2> HIDE DEF asked
  <2>2. \A x \in st.contradictions : mark(x) \in Conflict
    BY <2>1 DEF Conflict
  <2>3. PICK g : g = [x \in st.contradictions |-> mark(x)]
    OBVIOUS
  <2>4. {mark(x) : x \in st.contradictions} = {g[x] : x \in DOMAIN g} /\ DOMAIN g = st.contradictions
    BY <2>3
  <2>5. IsFiniteSet(st.contradictions)
    BY DEF Typed
  <2> HIDE DEF mark
  <2> QED BY <2>2, <2>4, <2>5, ImageFinite
<1> HIDE DEF plan2, mark, asked
<1>8. LedgerOK(r) /\ (AllGrouped(r) <=> AllGrouped(st))
  BY <1>5, SameLedger
<1> QED BY <1>4, <1>5, <1>6, <1>7, <1>8 DEF Typed

LEMMA ClaimsFinite == IsFiniteSet(ClaimId) /\ ClaimId \subseteq Nat \ {0}
<1>1. ClaimId = 1..Len(Catalog) /\ Len(Catalog) \in Nat
  BY LedgerAssumption, LenProperties DEF ClaimId
<1>2. IsFiniteSet(1..Len(Catalog))
  BY <1>1, FS_Interval
<1> QED BY <1>1, <1>2

LEMMA ExtractClaimsOK ==
  ASSUME NEW st, Typed(st), LedgerOK(st), NEW r \in ExtractClaims(st)
  PROVE  Typed(r) /\ LedgerOK(r) /\ r.iteration = st.iteration /\ r.searches = st.searches
<1> DEFINE fresh == {c \in ClaimId : Catalog[c].doc \in st.selected /\ st.subq[c] = 0 /\ Filed(st, c) # {}}
           filings == UNION {Filings(st, claims) : claims \in SUBSET fresh}
<1>0. PICK g \in filings : \E valid \in SUBSET DOMAIN g : r = Extracted(st, g, valid)
  BY DEF ExtractClaims
<1>1. PICK claims \in SUBSET fresh : g \in Filings(st, claims)
  OBVIOUS
<1>2. PICK valid : /\ \A c \in claims : g[c] \in Filed(st, c)
                   /\ valid \subseteq claims /\ DOMAIN g = claims /\ r = Extracted(st, g, valid)
  BY <1>0, <1>1 DEF Filings
<1>3. claims \subseteq ClaimId /\ \A c \in claims : st.subq[c] = 0
  OBVIOUS
<1> HIDE DEF fresh
<1>4. ASSUME NEW c \in claims PROVE g[c][1] \in Nat \ {0} /\ g[c][2] \in Nat
  <2>1. DOMAIN st.plan = 1..Len(st.plan) /\ Len(st.plan) \in Nat /\ \A s \in DOMAIN st.plan : st.plan[s] \in Question
    BY LenProperties, ElementOfSeq DEF Typed
  <2>2. \A s \in DOMAIN st.plan : DOMAIN st.plan[s].facets \subseteq Nat
    BY <2>1, LenProperties DEF Question
  <2>3. PICK p \in {q \in About[c] : q[1] \in DOMAIN st.plan} :
           g[c] = <<p[1], IF p[2] \in DOMAIN st.plan[p[1]].facets THEN p[2] ELSE 0>>
    BY <1>2 DEF Filed
  <2>4. p[1] \in DOMAIN st.plan
    OBVIOUS
  <2> QED BY <2>1, <2>2, <2>3, <2>4
<1>5. /\ r.subq = [c \in ClaimId |-> IF c \in claims THEN g[c][1] ELSE st.subq[c]]
      /\ r.facet = [c \in ClaimId |-> IF c \in claims THEN g[c][2] ELSE st.facet[c]]
      /\ r.supported = st.supported \cup valid /\ r.clusters = st.clusters /\ r.origin = st.origin
      /\ r.iteration = st.iteration /\ r.searches = st.searches /\ r.planned = st.planned /\ r.plan = st.plan
      /\ r.contradictions = st.contradictions /\ DOMAIN r = Fields
  BY <1>2 DEF Extracted, Typed, Fields
<1>6. Typed(r)
  <2>1. r.subq \in [ClaimId -> Nat] /\ r.facet \in [ClaimId -> Nat]
    BY <1>4, <1>5 DEF Typed
  <2>2. r.supported \subseteq ClaimId
    BY <1>2, <1>3, <1>5 DEF Typed
  <2> QED BY <1>5, <2>1, <2>2 DEF Typed
<1>7. \A c \in st.supported : r.subq[c] = st.subq[c] /\ st.subq[c] # 0
  BY <1>3, <1>5 DEF Typed, LedgerOK
<1>8. \A k \in DOMAIN st.clusters : k \in st.supported /\ st.clusters[k].claims \subseteq st.supported
  BY DEF LedgerOK
<1>9. LedgerOK(r)
  <2>1. ASSUME NEW k \in DOMAIN r.clusters
        PROVE  /\ k \in r.clusters[k].claims /\ r.clusters[k].claims \subseteq r.supported
               /\ \A c \in r.clusters[k].claims : r.subq[c] = r.subq[k] /\ Catalog[c].stale = Catalog[k].stale
    <3>1. /\ k \in st.clusters[k].claims
          /\ \A c \in st.clusters[k].claims : st.subq[c] = st.subq[k] /\ Catalog[c].stale = Catalog[k].stale
      BY <1>5 DEF LedgerOK
    <3> QED BY <1>5, <1>7, <1>8, <3>1
  <2>2. \A c \in r.supported : r.subq[c] # 0
    BY <1>2, <1>3, <1>4, <1>5, <1>7
  <2>3. \A d, e \in DOMAIN Docs : Shared(r, d, e) = Shared(st, d, e)
    BY <1>5 DEF Shared, Clustered
  <2>4. \A d, e \in DOMAIN Docs :
          Docs[d].origin = Docs[e].origin \/ Shared(st, d, e) >= MinSharedQuotes => st.origin[d] = st.origin[e]
    BY DEF LedgerOK
  <2>5. \A d, e \in DOMAIN Docs :
          Docs[d].origin = Docs[e].origin \/ Shared(r, d, e) >= MinSharedQuotes => r.origin[d] = r.origin[e]
    BY <1>5, <2>3, <2>4
  <2> QED BY <2>1, <2>2, <2>5 DEF LedgerOK
<1> QED BY <1>5, <1>6, <1>9

LEMMA DetectContradictionsOK ==
  ASSUME NEW st, Typed(st), LedgerOK(st), NEW r \in DetectContradictions(st)
  PROVE  /\ Typed(r) /\ LedgerOK(r) /\ (AllGrouped(r) <=> AllGrouped(st))
         /\ r.iteration = st.iteration /\ r.searches = st.searches
<1> DEFINE pairs == Candidates(st.clusters, {{x.left, x.right} : x \in st.contradictions})
<1>1. PICK verdict \in [pairs -> {"no_conflict", "conflict", "preferred"}] : r = Judged(st, pairs, verdict)
  BY DEF DetectContradictions
<1>2. IsFiniteSet(pairs) /\ pairs \subseteq (DOMAIN st.clusters) \X (DOMAIN st.clusters)
  <2>1. pairs \subseteq (DOMAIN st.clusters) \X (DOMAIN st.clusters)
    BY DEF Candidates
  <2>2. IsFiniteSet(DOMAIN st.clusters)
    BY ClaimsFinite, FS_Subset DEF Typed
  <2>3. IsFiniteSet((DOMAIN st.clusters) \X (DOMAIN st.clusters))
    BY <2>2, FS_Product
  <2> QED BY <2>1, <2>3, FS_Subset
<1> HIDE DEF pairs
<1> DEFINE contested == {p \in pairs : verdict[p] # "no_conflict"}
           clusters2 == [k \in DOMAIN st.clusters |->
                            [st.clusters[k] EXCEPT !.contested = @ \/ \E p \in contested : k \in {p[1], p[2]}]]
           new == {Contradiction(st, pairs, p, verdict[p]) : p \in pairs}
<1>3. r = [st EXCEPT !.clusters = clusters2, !.contradictions = @ \cup new]
  BY <1>1 DEF Judged
<1> HIDE DEF contested
<1>4. /\ DOMAIN clusters2 = DOMAIN st.clusters /\ DOMAIN st.clusters \subseteq ClaimId
      /\ clusters2 \in [DOMAIN st.clusters -> Finding]
      /\ \A k \in DOMAIN st.clusters : clusters2[k].claims = st.clusters[k].claims
  <2>1. \A k \in DOMAIN st.clusters : st.clusters[k] \in Finding
    BY DEF Typed
  <2>2. \A k \in DOMAIN st.clusters : clusters2[k] \in Finding /\ clusters2[k].claims = st.clusters[k].claims
    BY <2>1 DEF Finding
  <2> QED BY <2>2 DEF Typed
<1>5. new \subseteq Conflict /\ IsFiniteSet(new)
  <2>1. \A p \in pairs : Ordinal(st, pairs, p) \in Nat
    <3>1. \A p \in pairs : IsFiniteSet({q \in pairs : \/ Older(st.clusters, q[1], p[1])
                                                      \/ q[1] = p[1] /\ Older(st.clusters, q[2], p[2])})
      BY <1>2, FS_Subset
    <3>2. Cardinality(st.contradictions) \in Nat
      BY FS_CardinalityType DEF Typed
    <3> QED BY <3>1, <3>2, FS_CardinalityType DEF Ordinal
  <2>2. \A p \in pairs : p[1] \in ClaimId /\ p[2] \in ClaimId /\ st.subq[p[1]] \in Nat
    BY <1>2 DEF Typed
  <2>3. new \subseteq Conflict
    <3> SUFFICES ASSUME NEW p \in pairs PROVE Contradiction(st, pairs, p, verdict[p]) \in Conflict
      OBVIOUS
    <3>1. (verdict[p] # "conflict") \in BOOLEAN
      OBVIOUS
    <3>2. Contradiction(st, pairs, p, verdict[p]) =
            [n |-> Ordinal(st, pairs, p), left |-> p[1], right |-> p[2], subq |-> st.subq[p[1]],
             resolved |-> verdict[p] # "conflict", followed |-> FALSE]
      BY DEF Contradiction
    <3> QED BY <2>1, <2>2, <3>1, <3>2 DEF Conflict
  <2>4. PICK g : g = [p \in pairs |-> Contradiction(st, pairs, p, verdict[p])]
    OBVIOUS
  <2>5. new = {g[p] : p \in DOMAIN g} /\ DOMAIN g = pairs
    BY <2>4
  <2> HIDE DEF new
  <2> QED BY <1>2, <2>3, <2>5, ImageFinite
<1> HIDE DEF clusters2, new
<1>6. /\ r.clusters = clusters2 /\ r.supported = st.supported /\ r.subq = st.subq /\ r.origin = st.origin
      /\ r.iteration = st.iteration /\ r.searches = st.searches /\ r.planned = st.planned /\ r.plan = st.plan
      /\ r.contradictions = st.contradictions \cup new /\ r.facet = st.facet /\ DOMAIN r = Fields
  BY <1>3 DEF Typed, Fields
<1>7. Typed(r)
  <2>1. IsFiniteSet(st.contradictions \cup new) /\ st.contradictions \cup new \subseteq Conflict
    BY <1>5, FS_Union DEF Typed
  <2> QED BY <1>4, <1>6, <2>1 DEF Typed
<1>8. Clustered(r) = Clustered(st)
  BY <1>4, <1>6 DEF Clustered, Members
<1>9. LedgerOK(r)
  <2>1. \A k \in DOMAIN st.clusters : r.clusters[k].claims = st.clusters[k].claims
    BY <1>4, <1>6
  <2>2. \A d, e \in DOMAIN Docs : Shared(r, d, e) = Shared(st, d, e)
    BY <1>8 DEF Shared
  <2> QED BY <1>4, <1>6, <2>1, <2>2 DEF LedgerOK
<1> QED BY <1>6, <1>7, <1>8, <1>9 DEF AllGrouped

LEMMA LeastOf == ASSUME NEW S \in SUBSET Nat, S # {} PROVE Min(S) \in S
<1>1. \E m \in S : \A k \in S : ~(<<k, m>> \in OpToRel(<, Nat))
  BY NatLessThanWellFounded, WFMin
<1>2. ASSUME NEW k \in S, NEW m \in S, k < m
      PROVE  <<k, m>> \in OpToRel(<, Nat)
  <2>1. k \in Nat /\ m \in Nat
    OBVIOUS
  <2> QED BY <1>2, <2>1, Zenon DEF OpToRel
<1>3. PICK m \in S : \A k \in S : ~(<<k, m>> \in OpToRel(<, Nat))
  BY <1>1
<1>4. \A k \in S : ~(k < m)
  BY <1>2, <1>3
<1>5. \A k \in S : m <= k
  BY <1>4
<1> QED BY <1>5 DEF Min

LEMMA SameGroup ==
  ASSUME NEW x, NEW y, NEW elements, x \in elements, y \in elements, NEW joined, <<x, y>> \in joined, <<y, x>> \in joined
  PROVE  Group(x, elements, joined) = Group(y, elements, joined)
<1>1. ASSUME NEW a \in elements, NEW b \in elements, <<a, b>> \in joined, NEW z \in Group(b, elements, joined)
      PROVE  z \in Group(a, elements, joined)
  <2>1. z \in elements
    BY DEF Group
  <2>2. ASSUME NEW P \in SUBSET elements, a \in P, z \notin P
        PROVE  \E p \in P, q \in elements \ P : <<p, q>> \in joined
    <3>1. CASE b \in P
      BY <2>2, <3>1 DEF Group
    <3>2. CASE b \notin P
      BY <1>1, <2>2, <3>2
    <3> QED BY <3>1, <3>2
  <2> QED BY <2>1, <2>2 DEF Group
<1> QED BY <1>1

LEMMA ItsGroup == ASSUME NEW elements, NEW x \in elements, NEW joined PROVE x \in Group(x, elements, joined)
BY DEF Group

(* Origins only grow together, and those of texts that share enough do.          *)
LEMMA MergedOrigins ==
  ASSUME NEW origin \in [DOMAIN Docs -> Nat], NEW claims \in SUBSET ClaimId
  PROVE  LET merged == MergeOrigins(origin, claims) IN
         /\ merged \in [DOMAIN Docs -> Nat]
         /\ \A d, e \in DOMAIN Docs : origin[d] = origin[e] => merged[d] = merged[e]
         /\ \A some \in SUBSET claims : \A d, e \in DOMAIN Docs :
               Cardinality(QuotesOf(some, d) \cap QuotesOf(some, e)) >= MinSharedQuotes => merged[d] = merged[e]
<1> DEFINE quotes(o) == {Catalog[c].quote : c \in {a \in claims : origin[Catalog[a].doc] = o}} \ {None}
           origins == {origin[d] : d \in DOMAIN origin}
           copies == {p \in origins \X origins : Cardinality(quotes(p[1]) \cap quotes(p[2])) >= MinSharedQuotes}
           merged == MergeOrigins(origin, claims)
<1>1. merged = [d \in DOMAIN origin |-> Min(Group(origin[d], origins, copies))]
  BY DEF MergeOrigins
<1>2. DOMAIN origin = DOMAIN Docs /\ origins \subseteq Nat /\ \A d \in DOMAIN Docs : origin[d] \in origins
  OBVIOUS
<1>3. \A o, q \in origins : <<o, q>> \in copies <=> Cardinality(quotes(o) \cap quotes(q)) >= MinSharedQuotes
  OBVIOUS
<1>4. \A o, q \in origins : <<o, q>> \in copies <=> <<q, o>> \in copies
  <2>1. \A o, q : quotes(o) \cap quotes(q) = quotes(q) \cap quotes(o)
    OBVIOUS
  <2> HIDE DEF quotes, copies
  <2> QED BY <1>3, <2>1
<1> HIDE DEF merged, copies, origins
<1>5. ASSUME NEW d \in DOMAIN Docs PROVE merged[d] \in Nat
  <2>1. origin[d] \in Group(origin[d], origins, copies)
    BY <1>2, ItsGroup
  <2>2. Group(origin[d], origins, copies) \subseteq origins
    BY DEF Group
  <2>3. Min(Group(origin[d], origins, copies)) \in Nat
    BY <1>2, <2>1, <2>2, LeastOf
  <2> QED BY <1>1, <1>2, <2>3
<1>6. \A d, e \in DOMAIN Docs : origin[d] = origin[e] => merged[d] = merged[e]
  BY <1>1, <1>2
<1>7. ASSUME NEW some \in SUBSET claims, NEW d \in DOMAIN Docs, NEW e \in DOMAIN Docs,
             Cardinality(QuotesOf(some, d) \cap QuotesOf(some, e)) >= MinSharedQuotes
      PROVE  merged[d] = merged[e]
  <2> DEFINE ofSome(x) == QuotesOf(some, x)
  <2>1. ofSome(d) \cap ofSome(e) \subseteq quotes(origin[d]) \cap quotes(origin[e])
    BY DEF QuotesOf
  <2>2. \A o : IsFiniteSet(quotes(o))
    <3> SUFFICES ASSUME NEW o PROVE IsFiniteSet(quotes(o))
      OBVIOUS
    <3> DEFINE of == {a \in claims : origin[Catalog[a].doc] = o}
    <3>1. IsFiniteSet(of)
      BY ClaimsFinite, FS_Subset
    <3>2. PICK g : g = [c \in of |-> Catalog[c].quote]
      OBVIOUS
    <3>3. {Catalog[c].quote : c \in of} = {g[c] : c \in DOMAIN g} /\ DOMAIN g = of
      BY <3>2
    <3> HIDE DEF of
    <3>4. IsFiniteSet({Catalog[c].quote : c \in of})
      BY <3>1, <3>3, ImageFinite
    <3> QED BY <3>4, FS_Subset DEF of
  <2> HIDE DEF quotes
  <2>3. IsFiniteSet(quotes(origin[d]) \cap quotes(origin[e]))
    BY <2>2, FS_Subset
  <2>4. /\ Cardinality(ofSome(d) \cap ofSome(e)) <= Cardinality(quotes(origin[d]) \cap quotes(origin[e]))
        /\ Cardinality(ofSome(d) \cap ofSome(e)) \in Nat
        /\ Cardinality(quotes(origin[d]) \cap quotes(origin[e])) \in Nat
    <3> HIDE DEF ofSome
    <3>1. IsFiniteSet(ofSome(d) \cap ofSome(e))
      BY <2>1, <2>3, FS_Subset
    <3> QED BY <2>1, <2>3, <3>1, FS_Subset, FS_CardinalityType
  <2>5. Cardinality(quotes(origin[d]) \cap quotes(origin[e])) >= MinSharedQuotes
    BY <1>7, <2>4, NumbersOfSettings
  <2>6. <<origin[d], origin[e]>> \in copies /\ <<origin[e], origin[d]>> \in copies
    BY <1>2, <1>3, <1>4, <2>5
  <2>7. Group(origin[d], origins, copies) = Group(origin[e], origins, copies)
    BY <1>2, <2>6, SameGroup
  <2> QED BY <1>1, <1>2, <2>7
<1> QED BY <1>1, <1>2, <1>5, <1>6, <1>7 DEF merged

(* Clustering: every new claim joins a finding it may join, or founds one.       *)
LEMMA OwnHome ==
  ASSUME NEW st, Typed(st), NEW new \in SUBSET ClaimId, NEW c \in new,
         NEW measure \in Measures, NEW home \in Homes(st.subq, measure, st.clusters, new)
  PROVE  \/ home[c] = c
         \/ /\ MayJoin(st.subq, measure, c, home[c])
            /\ home[c] \in DOMAIN st.clusters \/ (home[c] \in new /\ home[home[c]] = home[c])
<1> DEFINE fit == Fitting(st.subq, measure, st.clusters, new, home, c)
<1>1. home[c] \in IF fit = {} THEN {c} ELSE Best(measure, st.clusters, fit, c)
  BY DEF Homes
<1>2. Best(measure, st.clusters, fit, c) \subseteq fit
  BY DEF Best
<1>3. CASE home[c] \in fit
  BY <1>3 DEF Fitting
<1> QED BY <1>1, <1>2, <1>3

LEMMA ClusterAndCorroborateOK ==
  ASSUME NEW st, Typed(st), LedgerOK(st), NEW r \in ClusterAndCorroborate(st)
  PROVE  Typed(r) /\ LedgerOK(r) /\ AllGrouped(r) /\ r.iteration = st.iteration /\ r.searches = st.searches
<1> DEFINE new == st.supported \ Clustered(st)
           extracted == {c \in ClaimId : st.subq[c] # 0}
           merged == MergeOrigins(st.origin, extracted)
<1>1. CASE new = {}
  <2>1. r = st
    BY <1>1 DEF ClusterAndCorroborate
  <2>2. AllGrouped(st)
    BY <1>1 DEF AllGrouped
  <2> QED BY <2>1, <2>2
<1>2. CASE new # {}
  <2> HIDE DEF merged
  <2>a. PICK grown \in ClusterClaims(st.subq, st.clusters, new, st.iteration) :
           r = [st EXCEPT !.origin = merged, !.clusters = grown]
    BY <1>2 DEF ClusterAndCorroborate, merged
  <2>b. PICK home \in UNION {Homes(st.subq, m, st.clusters, new) : m \in Measures} :
           grown = Joined(st.clusters, home, st.iteration)
    BY DEF ClusterClaims
  <2>c. PICK measure \in Measures : home \in Homes(st.subq, measure, st.clusters, new)
    BY <2>b
  <2>1. r = [st EXCEPT !.origin = merged, !.clusters = Joined(st.clusters, home, st.iteration)]
    BY <2>a, <2>b
  <2> DEFINE clusters2 == Joined(st.clusters, home, st.iteration)
             K == (DOMAIN st.clusters) \cup {c \in new : home[c] = c}
             J(k) == {c \in new : home[c] = k}
  <2>2. /\ r.clusters = clusters2 /\ r.supported = st.supported /\ r.subq = st.subq /\ r.origin = merged
        /\ r.iteration = st.iteration /\ r.searches = st.searches /\ r.planned = st.planned /\ r.plan = st.plan
        /\ r.contradictions = st.contradictions /\ r.facet = st.facet /\ DOMAIN r = Fields
    BY <2>1 DEF Typed, Fields
  <2>3. /\ new \subseteq st.supported /\ st.supported \subseteq ClaimId
        /\ \A k \in DOMAIN st.clusters : k \in st.clusters[k].claims /\ k \notin new /\ st.clusters[k].claims \subseteq Clustered(st)
    BY DEF Typed, LedgerOK, Clustered, Members
  <2>4. home \in [new -> (DOMAIN st.clusters) \cup new]
    BY DEF Homes
  <2> HIDE DEF new
  <2>5. /\ DOMAIN clusters2 = K
        /\ \A k \in DOMAIN st.clusters : clusters2[k] = [st.clusters[k] EXCEPT !.claims = @ \cup J(k)]
        /\ \A k \in K \ DOMAIN st.clusters :
              clusters2[k] = [claims |-> J(k), contested |-> FALSE, since |-> st.iteration]
    BY <2>4 DEF Joined
  <2> HIDE DEF clusters2
  <2>6. \A k \in DOMAIN st.clusters : st.clusters[k] \in Finding
    BY DEF Typed
  <2>7. \A k \in K : clusters2[k] \in Finding
    <3>1. \A k : J(k) \in SUBSET ClaimId
      BY <2>3
    <3>2. st.iteration \in Nat
      BY DEF Typed
    <3> HIDE DEF J
    <3>3. ASSUME NEW k \in DOMAIN st.clusters, NEW more \in SUBSET ClaimId
          PROVE  [st.clusters[k] EXCEPT !.claims = @ \cup more] \in Finding
      BY <2>6 DEF Finding
    <3>4. ASSUME NEW k \in DOMAIN st.clusters PROVE clusters2[k] \in Finding
      <4>1. [st.clusters[k] EXCEPT !.claims = @ \cup J(k)] \in Finding
        BY <3>1, <3>3
      <4>2. clusters2[k] = [st.clusters[k] EXCEPT !.claims = @ \cup J(k)]
        BY <2>5
      <4> QED BY <4>1, <4>2, Zenon
    <3>5. ASSUME NEW more \in SUBSET ClaimId
          PROVE  [claims |-> more, contested |-> FALSE, since |-> st.iteration] \in Finding
      BY <3>2 DEF Finding
    <3>6. ASSUME NEW k \in K \ DOMAIN st.clusters PROVE clusters2[k] \in Finding
      <4>1. [claims |-> J(k), contested |-> FALSE, since |-> st.iteration] \in Finding
        BY <3>1, <3>5
      <4>2. clusters2[k] = [claims |-> J(k), contested |-> FALSE, since |-> st.iteration]
        BY <2>5
      <4> QED BY <4>1, <4>2, Zenon
    <3> QED BY <3>4, <3>6
  <2>8. \A k \in K : clusters2[k].claims = (IF k \in DOMAIN st.clusters THEN st.clusters[k].claims ELSE {}) \cup J(k)
    <3> HIDE DEF J
    <3>1. ASSUME NEW k \in DOMAIN st.clusters, NEW more
          PROVE  [st.clusters[k] EXCEPT !.claims = @ \cup more].claims = st.clusters[k].claims \cup more
      BY <2>6 DEF Finding
    <3>2. ASSUME NEW k \in DOMAIN st.clusters
          PROVE  clusters2[k].claims = st.clusters[k].claims \cup J(k)
      BY <2>5, <3>1
    <3>3. ASSUME NEW k \in K \ DOMAIN st.clusters
          PROVE  clusters2[k].claims = J(k)
      <4>1. clusters2[k] = [claims |-> J(k), contested |-> FALSE, since |-> st.iteration]
        BY <2>5
      <4> QED BY <4>1
    <3> QED BY <3>2, <3>3
  <2>9. \A c \in new : home[c] \in K
    <3>1. new \in SUBSET ClaimId
      BY <2>3
    <3>2. ASSUME NEW c \in new
          PROVE  home[c] = c \/ home[c] \in DOMAIN st.clusters \/ (home[c] \in new /\ home[home[c]] = home[c])
      BY <3>1, OwnHome
    <3> QED BY <3>2
  <2>10. Clustered(r) = st.supported
    <3>1. Clustered(st) \subseteq st.supported /\ st.supported = Clustered(st) \cup new
      BY DEF LedgerOK, Clustered, Members, new
    <3>2. Clustered(r) \subseteq st.supported
      BY <2>2, <2>3, <2>5, <2>8, <3>1 DEF Clustered, Members
    <3>3. new \subseteq Clustered(r)
      BY <2>2, <2>5, <2>8, <2>9 DEF Clustered, Members
    <3>4. Clustered(st) \subseteq Clustered(r)
      BY <2>2, <2>5, <2>8 DEF Clustered, Members
    <3> QED BY <3>1, <3>2, <3>3, <3>4
  <2>11. /\ merged \in [DOMAIN Docs -> Nat]
         /\ \A d, e \in DOMAIN Docs : st.origin[d] = st.origin[e] => merged[d] = merged[e]
    <3>1. st.origin \in [DOMAIN Docs -> Nat]
      BY DEF Typed
    <3> QED BY <3>1, MergedOrigins DEF merged
  <2>13. \A d, e \in DOMAIN Docs : Shared(r, d, e) >= MinSharedQuotes => merged[d] = merged[e]
    <3>1. st.origin \in [DOMAIN Docs -> Nat] /\ extracted \in SUBSET ClaimId
      BY DEF Typed
    <3>2. Clustered(r) \in SUBSET extracted
      BY <2>3, <2>10 DEF LedgerOK
    <3> HIDE DEF extracted
    <3> QED BY <3>1, <3>2, MergedOrigins DEF merged, Shared
  <2>14. Typed(r)
    <3>1. K \subseteq ClaimId
      BY <2>3 DEF Typed
    <3>2. r.clusters \in [K -> Finding]
      BY <2>2, <2>5, <2>7 DEF Joined, clusters2
    <3> QED BY <2>2, <2>5, <2>11, <3>1, <3>2 DEF Typed
  <2>15. \A k \in K : /\ k \in r.clusters[k].claims /\ r.clusters[k].claims \subseteq r.supported
                       /\ \A c \in r.clusters[k].claims : r.subq[c] = r.subq[k] /\ Catalog[c].stale = Catalog[k].stale
    <3> SUFFICES ASSUME NEW k \in K
                 PROVE  /\ k \in r.clusters[k].claims /\ r.clusters[k].claims \subseteq r.supported
                        /\ \A c \in r.clusters[k].claims : r.subq[c] = r.subq[k] /\ Catalog[c].stale = Catalog[k].stale
      OBVIOUS
    <3>1. k \in r.clusters[k].claims
      BY <2>2, <2>3, <2>8
    <3>2. r.clusters[k].claims \subseteq r.supported
      BY <2>2, <2>5, <2>10 DEF Clustered, Members
    <3>3. ASSUME NEW c \in r.clusters[k].claims
          PROVE  r.subq[c] = r.subq[k] /\ Catalog[c].stale = Catalog[k].stale
      <4>1. CASE c \in new /\ home[c] = k
        <5>1. c = k \/ MayJoin(st.subq, measure, c, k)
          BY <2>c, <2>3, <4>1, OwnHome
        <5> QED BY <2>2, <5>1 DEF MayJoin
      <4>2. CASE k \in DOMAIN st.clusters /\ c \in st.clusters[k].claims
        BY <2>2, <4>2 DEF LedgerOK
      <4> QED BY <2>2, <2>8, <4>1, <4>2
    <3> QED BY <3>1, <3>2, <3>3
  <2>16. LedgerOK(r)
    <3>1. \A c \in r.supported : r.subq[c] # 0
      BY <2>2 DEF LedgerOK
    <3>2. \A d, e \in DOMAIN Docs :
            Docs[d].origin = Docs[e].origin \/ Shared(r, d, e) >= MinSharedQuotes => r.origin[d] = r.origin[e]
      <4>1. \A d, e \in DOMAIN Docs : Docs[d].origin = Docs[e].origin => st.origin[d] = st.origin[e]
        BY DEF LedgerOK
      <4> QED BY <2>2, <2>11, <2>13, <4>1
    <3> QED BY <2>2, <2>5, <2>15, <3>1, <3>2 DEF LedgerOK
  <2> QED BY <2>2, <2>10, <2>14, <2>16 DEF AllGrouped
<1> QED BY <1>1, <1>2

(* Two voices are two claims that nothing joins.                                 *)
LEMMA AtMostOne == ASSUME NEW S, IsFiniteSet(S), \A x, y \in S : x = y PROVE Cardinality(S) \in {0, 1}
<1>1. CASE S = {}
  BY <1>1, FS_EmptySet
<1>2. CASE S # {}
  <2>1. PICK x : S = {x}
    BY <1>2
  <2> QED BY <2>1, FS_Singleton
<1> QED BY <1>1, <1>2

LEMMA VoicesNat ==
  ASSUME NEW origin, NEW members \in SUBSET ClaimId PROVE Voices(origin, members) \in Nat
<1> DEFINE group == [c \in members |-> Group(c, members, OneVoice(origin, members))]
           mute == {d \in members : ~\E e \in group[d] : Speaks(e)}
           first == {c \in members : Speaks(c) /\ ~\E e \in group[c] : Speaks(e) /\ Earlier(origin, e, c)}
<1>1. Voices(origin, members) = Cardinality({group[c] : c \in mute}) + Cardinality({Catalog[c].speaker : c \in first})
  BY DEF Voices
<1>2. IsFiniteSet(mute) /\ IsFiniteSet(first)
  BY ClaimsFinite, FS_Subset
<1> HIDE DEF mute, first, group
<1>3. IsFiniteSet({group[c] : c \in mute})
  <2>1. PICK g : g = [c \in mute |-> group[c]]
    OBVIOUS
  <2>2. {group[c] : c \in mute} = {g[c] : c \in DOMAIN g} /\ DOMAIN g = mute
    BY <2>1
  <2> QED BY <1>2, <2>2, ImageFinite
<1>4. IsFiniteSet({Catalog[c].speaker : c \in first})
  <2>1. PICK g : g = [c \in first |-> Catalog[c].speaker]
    OBVIOUS
  <2>2. {Catalog[c].speaker : c \in first} = {g[c] : c \in DOMAIN g} /\ DOMAIN g = first
    BY <2>1
  <2> QED BY <1>2, <2>2, ImageFinite
<1> QED BY <1>1, <1>3, <1>4, FS_CardinalityType

LEMMA VoicesApart ==
  ASSUME NEW origin \in [DOMAIN Docs -> Nat], NEW members \in SUBSET ClaimId, Voices(origin, members) >= 2
  PROVE  \E c, d \in members :
            /\ Docs[Catalog[c].doc].site # Docs[Catalog[d].doc].site
            /\ origin[Catalog[c].doc] # origin[Catalog[d].doc]
            /\ Catalog[c].speaker = None \/ Catalog[c].speaker # Catalog[d].speaker
<1> DEFINE joined == OneVoice(origin, members)
           group == [c \in members |-> Group(c, members, joined)]
           silent == {group[c] : c \in {d \in members : ~\E e \in group[d] : Speaks(e)}}
           first == {c \in members : Speaks(c) /\ ~\E e \in group[c] : Speaks(e) /\ Earlier(origin, e, c)}
           speakers == {Catalog[c].speaker : c \in first}
<1>1. Voices(origin, members) = Cardinality(silent) + Cardinality(speakers)
  BY DEF Voices
<1>2. SUFFICES ASSUME \A c, d \in members : \/ Docs[Catalog[c].doc].site = Docs[Catalog[d].doc].site
                                            \/ origin[Catalog[c].doc] = origin[Catalog[d].doc]
                                            \/ Speaks(c) /\ Catalog[c].speaker = Catalog[d].speaker
               PROVE  FALSE
  BY DEF Speaks
<1>3. \A c, d \in members : <<c, d>> \in joined \/ (Speaks(c) /\ Catalog[c].speaker = Catalog[d].speaker)
  BY <1>2 DEF OneVoice
<1>4. \A c, d \in members : <<c, d>> \in joined <=> <<d, c>> \in joined
  BY DEF OneVoice
<1> HIDE DEF joined
<1>5. \A c \in members : c \in group[c]
  BY ItsGroup
<1>6. \A c, d \in members : <<c, d>> \in joined => group[c] = group[d]
  <2> SUFFICES ASSUME NEW c \in members, NEW d \in members, <<c, d>> \in joined PROVE group[c] = group[d]
    OBVIOUS
  <2>1. <<d, c>> \in joined
    BY <1>4
  <2>2. Group(c, members, joined) = Group(d, members, joined)
    BY <2>1, SameGroup
  <2> QED BY <2>2
<1> HIDE DEF group
<1>7. \A c, d \in members : group[c] = group[d] \/ (Speaks(c) /\ Catalog[c].speaker = Catalog[d].speaker)
  BY <1>3, <1>6
<1>8. IsFiniteSet(members)
  BY ClaimsFinite, FS_Subset
<1>9. CASE silent # {}
  <2>1. PICK c \in members : \A e \in group[c] : ~Speaks(e)
    BY <1>9
  <2>2. \A d \in members : group[d] = group[c]
    BY <1>5, <1>7, <2>1
  <2>3. silent = {group[c]}
    BY <2>1, <2>2
  <2>4. speakers = {}
    BY <1>5, <2>1, <2>2
  <2>5. Cardinality(silent) = 1 /\ Cardinality(speakers) = 0
    BY <2>3, <2>4, FS_Singleton, FS_EmptySet
  <2> QED BY <1>1, <2>5
<1>10. CASE silent = {}
  <2>1. \A c, d \in first : Catalog[c].speaker = Catalog[d].speaker
    <3> SUFFICES ASSUME NEW c \in first, NEW d \in first, Catalog[c].speaker # Catalog[d].speaker PROVE FALSE
      OBVIOUS
    <3>1. group[c] = group[d] /\ c \in group[d] /\ d \in group[c] /\ Speaks(c) /\ Speaks(d)
      BY <1>5, <1>7
    <3>2. ~Earlier(origin, c, d) /\ ~Earlier(origin, d, c)
      BY <3>1
    <3>3. c \in Nat /\ d \in Nat /\ origin[Catalog[c].doc] \in Nat /\ origin[Catalog[d].doc] \in Nat
      BY ClaimsFinite, LedgerAssumption
    <3>4. c = d
      BY <3>2, <3>3 DEF Earlier
    <3> QED BY <3>4
  <2>2. IsFiniteSet(speakers)
    <3>1. IsFiniteSet(first)
      BY <1>8, FS_Subset
    <3>2. PICK g : g = [c \in first |-> Catalog[c].speaker]
      OBVIOUS
    <3>3. speakers = {g[c] : c \in DOMAIN g} /\ DOMAIN g = first
      BY <3>2
    <3> HIDE DEF first, speakers
    <3> QED BY <3>1, <3>3, ImageFinite
  <2>3. \A x, y \in speakers : x = y
    BY <2>1
  <2> HIDE DEF speakers, silent
  <2>4. Cardinality(speakers) \in {0, 1} /\ Cardinality(silent) = 0
    BY <1>10, <2>2, <2>3, AtMostOne, FS_EmptySet
  <2> QED BY <1>1, <2>4
<1> QED BY <1>9, <1>10

(* What assess_coverage makes of the plan, and what a sufficient facet rests on. *)
LEMMA AssessedPlan ==
  ASSUME NEW st, st.plan \in Seq(Question), "plan" \in DOMAIN st
  PROVE  LET p == AssessFacets(st).plan IN
         /\ p \in Seq(Question) /\ Len(p) = Len(st.plan) /\ DOMAIN p = 1..Len(st.plan)
         /\ AssessFacets(st) = [st EXCEPT !.plan = p]
         /\ \A s \in DOMAIN p : "sufficient" \in ToSet(p[s].facets) => \E f : FacetStatus(st, s, f) = "sufficient"
<1> DEFINE p == [s \in DOMAIN st.plan |-> [st.plan[s] EXCEPT !.facets =
                  [f \in DOMAIN st.plan[s].facets |-> FacetStatus(st, s, f)]]]
<1>1. AssessFacets(st) = [st EXCEPT !.plan = p]
  BY DEF AssessFacets
<1>2. PICK n \in Nat : n = Len(st.plan) /\ DOMAIN st.plan = 1..n /\ \A s \in 1..n : st.plan[s] \in Question
  BY LenProperties, ElementOfSeq
<1>3. \A s, f : FacetStatus(st, s, f) \in Facets
  BY DEF FacetStatus, Facets
<1>4. ASSUME NEW s \in 1..n
      PROVE  /\ p[s] \in Question
             /\ "sufficient" \in ToSet(p[s].facets) => \E f : FacetStatus(st, s, f) = "sufficient"
  <2> DEFINE fs == [f \in DOMAIN st.plan[s].facets |-> FacetStatus(st, s, f)]
  <2>1. PICK m \in Nat : DOMAIN st.plan[s].facets = 1..m
    BY <1>2, LenProperties DEF Question
  <2>2. fs = [f \in 1..m |-> FacetStatus(st, s, f)]
    BY <2>1
  <2>3. fs \in Seq(Facets) /\ DOMAIN fs = 1..m
    BY <1>3, <2>2, IsASeq
  <2>4. p[s] = [st.plan[s] EXCEPT !.facets = fs]
    BY <1>2
  <2>5. "sufficient" \in ToSet(fs) => \E f : FacetStatus(st, s, f) = "sufficient"
    BY <2>2 DEF ToSet
  <2> HIDE DEF fs, p
  <2>6. st.plan[s] \in Question
    BY <1>2
  <2> QED BY <2>3, <2>4, <2>5, <2>6 DEF Question
<1>5. DOMAIN p = 1..n /\ p = [s \in 1..n |-> p[s]]
  BY <1>2
<1> HIDE DEF p
<1>6. p \in Seq(Question)
  BY <1>4, <1>5, IsASeq
<1>7. Len(p) = n
  BY <1>5, <1>6, LenProperties
<1>8. AssessFacets(st).plan = p
  BY <1>1
<1> QED BY <1>1, <1>2, <1>4, <1>5, <1>6, <1>7, <1>8

LEMMA SufficientEvidence ==
  ASSUME NEW st, NEW s, NEW f, Typed(st), LedgerOK(st), AllGrouped(st), MinOrigins >= 2,
         FacetStatus(st, s, f) = "sufficient"
  PROVE  \/ \E c \in Evidence(st, s) : Docs[Catalog[c].doc].primary
         \/ \E c, d \in Evidence(st, s) :
               /\ Docs[Catalog[c].doc].site # Docs[Catalog[d].doc].site
               /\ ~OneText(st, Catalog[c].doc, Catalog[d].doc)
               /\ Catalog[c].speaker = None \/ Catalog[c].speaker # Catalog[d].speaker
<1> DEFINE relevant == Relevant(st, s, f)
           members == Members(st.clusters, relevant)
<1>1. \/ \E k \in relevant : HasPrimary(st.clusters, k)
      \/ Voices(st.origin, members) >= MinOrigins
  BY DEF FacetStatus
<1>2. \A k \in relevant : k \in DOMAIN st.clusters /\ st.subq[k] = s /\ ~Catalog[k].stale
  BY DEF Relevant, ClustersOf
<1> HIDE DEF relevant
<1>3. \A k \in relevant : st.clusters[k].claims \subseteq Evidence(st, s)
  BY <1>2 DEF LedgerOK, Evidence
<1>4. members \subseteq Evidence(st, s) /\ Evidence(st, s) \subseteq ClaimId
  BY <1>3 DEF Members, Evidence, Typed
<1>5. CASE \E k \in relevant : HasPrimary(st.clusters, k)
  BY <1>3, <1>5 DEF HasPrimary
<1>6. CASE Voices(st.origin, members) >= MinOrigins
  <2> HIDE DEF members
  <2>0. st.origin \in [DOMAIN Docs -> Nat]
    BY DEF Typed
  <2>1. Voices(st.origin, members) >= 2 \/ Voices(st.origin, members) \notin Int
    BY <1>6, NumbersOfSettings
  <2>2. PICK c, d \in members : /\ Docs[Catalog[c].doc].site # Docs[Catalog[d].doc].site
                                /\ st.origin[Catalog[c].doc] # st.origin[Catalog[d].doc]
                                /\ Catalog[c].speaker = None \/ Catalog[c].speaker # Catalog[d].speaker
    BY <1>4, <2>0, <2>1, VoicesApart, VoicesNat
  <2>3. Catalog[c].doc \in DOMAIN Docs /\ Catalog[d].doc \in DOMAIN Docs
    BY <1>4, LedgerAssumption
  <2>4. Clustered(st) = st.supported
    BY DEF AllGrouped, LedgerOK, Clustered, Members
  <2>5. \A x : Quotes(st, x) = QuotesOf(Clustered(st), x)
    BY <2>4 DEF Quotes, QuotesOf
  <2>6. ~OneText(st, Catalog[c].doc, Catalog[d].doc)
    <3> DEFINE d1 == Catalog[c].doc
               d2 == Catalog[d].doc
    <3>1. Docs[d1].origin = Docs[d2].origin \/ Shared(st, d1, d2) >= MinSharedQuotes => st.origin[d1] = st.origin[d2]
      BY <2>3 DEF LedgerOK
    <3>2. OneText(st, d1, d2) => Docs[d1].origin = Docs[d2].origin \/ Shared(st, d1, d2) >= MinSharedQuotes
      BY <2>5 DEF OneText, Shared
    <3> QED BY <2>2, <3>1, <3>2
  <2> QED BY <1>4, <2>2, <2>6
<1> QED BY <1>1, <1>5, <1>6

LEMMA PlanMapped ==
  ASSUME NEW plan \in Seq(Question), NEW p, DOMAIN p = DOMAIN plan, p = [s \in DOMAIN plan |-> p[s]],
         \A s \in DOMAIN plan : p[s] \in Question
  PROVE  p \in Seq(Question) /\ Len(p) = Len(plan) /\ DOMAIN p = DOMAIN plan
<1>1. PICK n \in Nat : n = Len(plan) /\ DOMAIN plan = 1..n
  BY LenProperties
<1>2. p = [s \in 1..n |-> p[s]] /\ \A s \in 1..n : p[s] \in Question
  BY <1>1
<1>3. p \in Seq(Question)
  BY <1>2, IsASeq
<1> QED BY <1>1, <1>3, LenProperties

LEMMA QuestionAt == ASSUME NEW plan \in Seq(Question), NEW s \in DOMAIN plan PROVE plan[s] \in Question
BY LenProperties, ElementOfSeq

LEMMA AssessCoverageOK ==
  ASSUME NEW st, Typed(st), LedgerOK(st), AllGrouped(st), NEW r \in AssessCoverage(st)
  PROVE  /\ Typed(r) /\ LedgerOK(r) /\ AllGrouped(r)
         /\ r.iteration = st.iteration /\ r.searches = st.searches
         /\ r.node = "synthesize" \/ (r.node = "generate_queries" /\ st.iteration < MaxIterations)
         /\ MinOrigins >= 2 => Earned(r)
<1> DEFINE assessed == AssessFacets(st)
           gain == Gain(st)
<1> HIDE DEF assessed, gain
<1>1. PICK named, overtime :
         named \in Namings(st) /\ r = Routed(Progressed(WithFacets(assessed, named), gain), overtime)
  <2> DEFINE routings(s2) == {Routed(s2, overtime) : overtime \in IF TimeLimited THEN BOOLEAN ELSE {FALSE}}
  <2>1. PICK named \in Namings(st) : r \in routings(Progressed(WithFacets(AssessFacets(st), named), Gain(st)))
    BY Zenon DEF AssessCoverage
  <2>2. \E overtime : r = Routed(Progressed(WithFacets(AssessFacets(st), named), Gain(st)), overtime)
    BY <2>1, Zenon
  <2> QED BY <2>2, Zenon DEF assessed, gain
<1>2. st.plan \in Seq(Question) /\ DOMAIN st = Fields /\ "plan" \in DOMAIN st
  BY DEF Typed, Fields
<1>3. PICK p1 \in Seq(Question) : Len(p1) = Len(st.plan) /\ assessed = [st EXCEPT !.plan = p1]
  BY <1>2, AssessedPlan DEF assessed
<1> DEFINE p2 == [s \in DOMAIN p1 |-> [p1[s] EXCEPT !.facets = @ \o [i \in 1..named[s] |-> "open"]]]
           grown == [st EXCEPT !.plan = p2]
<1>4. p2 \in Seq(Question) /\ Len(p2) = Len(p1)
  <2>1. \A s \in DOMAIN p1 : p1[s] \in Question
    BY QuestionAt
  <2>2. ASSUME NEW q \in Question, NEW n \in Nat
        PROVE  [q EXCEPT !.facets = @ \o [i \in 1..n |-> "open"]] \in Question
    <3>1. [i \in 1..n |-> "open"] \in Seq(Facets)
      BY IsASeq DEF Facets
    <3>2. q.facets \o [i \in 1..n |-> "open"] \in Seq(Facets)
      BY <3>1, ConcatProperties DEF Question
    <3> QED BY <3>2 DEF Question
  <2>3. \A s \in DOMAIN p1 : named[s] \in Nat
    <3>1. DOMAIN p1 = DOMAIN st.plan
      BY <1>2, <1>3, LenProperties
    <3>2. named \in [DOMAIN st.plan -> 0..MaxFacets]
      BY <1>1 DEF Namings
    <3> QED BY <3>1, <3>2
  <2>5. \A s \in DOMAIN p1 : p2[s] \in Question
    BY <2>1, <2>2, <2>3
  <2>4. DOMAIN p2 = DOMAIN p1 /\ p2 = [s \in DOMAIN p1 |-> p2[s]]
    OBVIOUS
  <2> HIDE DEF p2
  <2> QED BY <2>4, <2>5, PlanMapped
<1>5. WithFacets(assessed, named) = AssessFacets(grown)
  <2>1. assessed.plan = p1
    BY <1>2, <1>3
  <2>2. WithFacets(assessed, named) = AssessFacets([assessed EXCEPT !.plan = p2])
    BY <2>1 DEF WithFacets
  <2> HIDE DEF p2
  <2>3. [assessed EXCEPT !.plan = p2] = [st EXCEPT !.plan = p2]
    BY <1>3
  <2> QED BY <2>2, <2>3
<1> HIDE DEF p2
<1>6. /\ grown.clusters = st.clusters /\ grown.supported = st.supported /\ grown.subq = st.subq
      /\ grown.origin = st.origin /\ grown.iteration = st.iteration /\ grown.searches = st.searches
      /\ grown.planned = st.planned /\ grown.plan = p2 /\ grown.contradictions = st.contradictions
      /\ grown.facet = st.facet /\ DOMAIN grown = Fields
  BY <1>2 DEF Fields
<1>7. Typed(grown) /\ LedgerOK(grown) /\ AllGrouped(grown)
  <2>1. Typed(grown)
    BY <1>3, <1>4, <1>6 DEF Typed
  <2> HIDE DEF grown
  <2> QED BY <1>6, <2>1, SameLedger
<1> HIDE DEF grown
<1>8. PICK p3 \in Seq(Question) :
        /\ Len(p3) = Len(p2) /\ DOMAIN p3 = DOMAIN p2 /\ AssessFacets(grown) = [grown EXCEPT !.plan = p3]
        /\ \A s \in DOMAIN p3 : "sufficient" \in ToSet(p3[s].facets) => \E f : FacetStatus(grown, s, f) = "sufficient"
  <2>1. grown.plan \in Seq(Question) /\ "plan" \in DOMAIN grown /\ grown.plan = p2
    BY <1>4, <1>6 DEF Fields
  <2>2. DOMAIN p2 = 1..Len(p2)
    BY <1>4, LenProperties
  <2> QED BY <2>1, <2>2, AssessedPlan
<1> DEFINE p4 == [s \in DOMAIN p3 |-> UpdateProgress(p3[s], gain[s])]
<1>9. /\ p4 \in Seq(Question) /\ Len(p4) = Len(p3) /\ DOMAIN p4 = DOMAIN p3
      /\ \A s \in DOMAIN p3 : p4[s].facets = p3[s].facets
  <2>1. ASSUME NEW q \in Question, NEW more
        PROVE  UpdateProgress(q, more) \in Question /\ UpdateProgress(q, more).facets = q.facets
    <3>1. \/ UpdateProgress(q, more) = q
          \/ UpdateProgress(q, more) = [q EXCEPT !.status = "sufficient", !.idle = 0]
          \/ UpdateProgress(q, more) = [q EXCEPT !.status = "searching", !.idle = 0]
          \/ UpdateProgress(q, more) = [q EXCEPT !.status = "exhausted", !.idle = q.idle + 1]
          \/ UpdateProgress(q, more) = [q EXCEPT !.status = "searching", !.idle = q.idle + 1]
      BY DEF UpdateProgress
    <3>2. ASSUME NEW status \in {"pending", "searching", "sufficient", "exhausted"}, NEW idle \in Nat
          PROVE  /\ [q EXCEPT !.status = status, !.idle = idle] \in Question
                 /\ [q EXCEPT !.status = status, !.idle = idle].facets = q.facets
      BY DEF Question, SubQuestionStatus
    <3>3. q.idle + 1 \in Nat
      BY DEF Question
    <3>4. UpdateProgress(q, more) = q \/ \E status \in {"pending", "searching", "sufficient", "exhausted"}, idle \in Nat :
             UpdateProgress(q, more) = [q EXCEPT !.status = status, !.idle = idle]
      BY <3>1, <3>3
    <3> DEFINE u == UpdateProgress(q, more)
    <3> HIDE DEF u
    <3>5. ASSUME NEW status \in {"pending", "searching", "sufficient", "exhausted"}, NEW idle \in Nat,
                 u = [q EXCEPT !.status = status, !.idle = idle]
          PROVE  u \in Question /\ u.facets = q.facets
      BY <3>2, <3>5, Zenon
    <3> QED BY <3>4, <3>5, Zenon DEF u
  <2>2. \A s \in DOMAIN p3 : p3[s] \in Question
    BY QuestionAt
  <2>3. \A s \in DOMAIN p3 : p4[s] \in Question /\ p4[s].facets = p3[s].facets
    BY <2>1, <2>2
  <2>4. DOMAIN p4 = DOMAIN p3 /\ p4 = [s \in DOMAIN p3 |-> p4[s]]
    OBVIOUS
  <2> HIDE DEF p4
  <2> QED BY <2>3, <2>4, PlanMapped
<1>10. Progressed(WithFacets(assessed, named), gain) = [grown EXCEPT !.plan = p4]
  <2>1. WithFacets(assessed, named) = [grown EXCEPT !.plan = p3]
    BY <1>5, <1>8
  <2>2. [grown EXCEPT !.plan = p3].plan = p3
    BY <1>6 DEF Fields
  <2> DEFINE next == [grown EXCEPT !.plan = p3]
  <2>3. Progressed(next, gain) = [next EXCEPT !.plan = p4]
    BY <2>2 DEF Progressed
  <2> HIDE DEF p4
  <2>4. [[grown EXCEPT !.plan = p3] EXCEPT !.plan = p4] = [grown EXCEPT !.plan = p4]
    OBVIOUS
  <2> QED BY <2>1, <2>3, <2>4
<1> HIDE DEF p4
<1> DEFINE s2 == [grown EXCEPT !.plan = p4]
<1>11. /\ s2.clusters = st.clusters /\ s2.supported = st.supported /\ s2.subq = st.subq
       /\ s2.origin = st.origin /\ s2.iteration = st.iteration /\ s2.searches = st.searches
       /\ s2.planned = st.planned /\ s2.plan = p4 /\ s2.contradictions = st.contradictions
       /\ s2.facet = st.facet /\ DOMAIN s2 = Fields
  BY <1>6 DEF Fields
<1>12. r = Routed(s2, overtime)
  BY <1>1, <1>10
<1> HIDE DEF s2
<1>13. /\ r.clusters = st.clusters /\ r.supported = st.supported /\ r.subq = st.subq
       /\ r.origin = st.origin /\ r.iteration = st.iteration /\ r.searches = st.searches
       /\ r.planned = st.planned /\ r.plan = p4 /\ r.contradictions = st.contradictions
       /\ r.facet = st.facet /\ DOMAIN r = Fields
  BY <1>11, <1>12 DEF Routed, Fields
<1>14. Typed(r)
  BY <1>3, <1>4, <1>8, <1>9, <1>13 DEF Typed
<1>15. LedgerOK(r) /\ AllGrouped(r)
  BY <1>13, SameLedger
<1>16. r.node = "synthesize" \/ (r.node = "generate_queries" /\ st.iteration < MaxIterations)
  <2>1. Decide(s2.plan, s2.iteration, s2.searches, overtime) = "continue" => st.iteration < MaxIterations
    <3>1. s2.iteration = st.iteration /\ st.iteration \in Nat /\ MaxIterations \in Nat
      BY <1>11, NumbersOfSettings DEF Typed
    <3> QED BY <3>1 DEF Decide
  <2> QED BY <1>11, <1>12, <2>1 DEF Routed, Fields
<1>17. ASSUME MinOrigins >= 2 PROVE Earned(r)
  <2> SUFFICES ASSUME NEW s \in DOMAIN r.plan, "sufficient" \in ToSet(r.plan[s].facets)
               PROVE \/ \E c \in Evidence(r, s) : Docs[Catalog[c].doc].primary
                     \/ \E c, d \in Evidence(r, s) :
                            /\ Docs[Catalog[c].doc].site # Docs[Catalog[d].doc].site
                            /\ ~OneText(r, Catalog[c].doc, Catalog[d].doc)
                            /\ Catalog[c].speaker = None \/ Catalog[c].speaker # Catalog[d].speaker
    BY DEF Earned
  <2>1. PICK f : FacetStatus(grown, s, f) = "sufficient"
    BY <1>8, <1>9, <1>13
  <2>2. Evidence(grown, s) = Evidence(r, s) /\ \A d, e : OneText(grown, d, e) <=> OneText(r, d, e)
    BY <1>6, <1>13 DEF Evidence, OneText, Quotes
  <2>3. \/ \E c \in Evidence(grown, s) : Docs[Catalog[c].doc].primary
        \/ \E c, d \in Evidence(grown, s) :
              /\ Docs[Catalog[c].doc].site # Docs[Catalog[d].doc].site
              /\ ~OneText(grown, Catalog[c].doc, Catalog[d].doc)
              /\ Catalog[c].speaker = None \/ Catalog[c].speaker # Catalog[d].speaker
    BY <1>7, <1>17, <2>1, SufficientEvidence
  <2> QED BY <2>2, <2>3
<1> QED BY <1>13, <1>14, <1>15, <1>16, <1>17

-----------------------------------------------------------------------------
(* Every node keeps what holds of a research state and moves it one step on.     *)
LEMMA NodeResult ==
  ASSUME NEW st, StateInv(st), st.node \notin {"assess_coverage", "END"}, NEW r \in After(st)
  PROVE  /\ Typed(r) /\ LedgerOK(r) /\ (st.node # "extract_claims" => AllGrouped(r))
         /\ r.iteration = (IF st.node = "generate_queries" THEN st.iteration + 1 ELSE st.iteration)
         /\ IF st.node = "search" THEN r.searches - st.searches \in 0..RoundWidth ELSE r.searches = st.searches
<1>1. Typed(st) /\ LedgerOK(st) /\ (st.node # "cluster_and_corroborate" => AllGrouped(st))
  BY DEF StateInv
<1>2. CASE st.node = "analyze_query"
  <2>1. r \in AnalyzeQuery(st)
    BY <1>2 DEF After
  <2> QED BY <1>1, <1>2, <2>1, AnalyzeQueryOK
<1>3. CASE st.node = "plan"
  <2>1. r \in Plan(st)
    BY <1>3 DEF After
  <2> QED BY <1>1, <1>3, <2>1, PlanOK
<1>4. CASE st.node = "generate_queries"
  <2>1. r \in GenerateQueries(st)
    BY <1>4 DEF After
  <2> QED BY <1>1, <1>4, <2>1, GenerateQueriesOK
<1>5. CASE st.node = "search"
  <2>1. r \in Search(st)
    BY <1>5 DEF After
  <2> QED BY <1>1, <1>5, <2>1, SearchOK
<1>6. CASE st.node = "process_results"
  <2>1. r \in ProcessResults(st)
    BY <1>6 DEF After
  <2> QED BY <1>1, <1>6, <2>1, ProcessResultsOK
<1>7. CASE st.node = "extract_claims"
  <2>1. r \in ExtractClaims(st)
    BY <1>7 DEF After
  <2> QED BY <1>1, <1>7, <2>1, ExtractClaimsOK
<1>8. CASE st.node = "cluster_and_corroborate"
  <2>1. r \in ClusterAndCorroborate(st)
    BY <1>8 DEF After
  <2> QED BY <1>1, <1>8, <2>1, ClusterAndCorroborateOK
<1>9. CASE st.node = "detect_contradictions"
  <2>1. r \in DetectContradictions(st)
    BY <1>9 DEF After
  <2> QED BY <1>1, <1>9, <2>1, DetectContradictionsOK
<1>10. CASE st.node = "output_gate"
  <2>1. r \in OutputGate(st)
    BY <1>10 DEF After
  <2> QED BY <1>1, <1>10, <2>1, OutputGateOK
<1>11. CASE st.node \notin {"analyze_query", "plan", "generate_queries", "search", "process_results", "extract_claims",
                            "cluster_and_corroborate", "detect_contradictions", "output_gate"}
  <2>1. r = st
    BY <1>11 DEF After
  <2> QED BY <1>1, <1>11, <2>1
<1> QED BY <1>2, <1>3, <1>4, <1>5, <1>6, <1>7, <1>8, <1>9, <1>10, <1>11

LEMMA NodeOK ==
  ASSUME NEW st, StateInv(st), st.node # "END", NEW next \in Outcomes(st)
  PROVE  StateInv(next) /\ Moves(st, next) /\ Charged(st, next)
<1>1. PICK r \in After(st) : next = IF st.node = "assess_coverage" THEN r ELSE [r EXCEPT !.node = Following(st.node)]
  BY DEF Outcomes
<1>2. st.node \in NodeNames /\ Typed(st) /\ RoundOK(st) /\ LedgerOK(st) /\ st.iteration \in Nat
      /\ (st.node # "cluster_and_corroborate" => AllGrouped(st))
  BY DEF StateInv, Typed
<1>3. CASE st.node = "assess_coverage"
  <2>1. next \in AssessCoverage(st)
    BY <1>1, <1>3 DEF After
  <2>2. /\ Typed(next) /\ LedgerOK(next) /\ AllGrouped(next)
        /\ next.iteration = st.iteration /\ next.searches = st.searches
        /\ next.node = "synthesize" \/ (next.node = "generate_queries" /\ st.iteration < MaxIterations)
        /\ MinOrigins >= 2 => Earned(next)
    BY <1>2, <1>3, <2>1, AssessCoverageOK
  <2>3. Moves(st, next) /\ Charged(st, next)
    BY <1>3, <2>2 DEF Moves, Charged
  <2>4. next.node \in NodeNames /\ RoundOK(next)
    BY <1>2, <2>3, OneStepOn
  <2> QED BY <2>2, <2>3, <2>4 DEF StateInv
<1>4. CASE st.node # "assess_coverage"
  <2>1. /\ Typed(r) /\ LedgerOK(r) /\ (st.node # "extract_claims" => AllGrouped(r))
        /\ r.iteration = (IF st.node = "generate_queries" THEN st.iteration + 1 ELSE st.iteration)
        /\ IF st.node = "search" THEN r.searches - st.searches \in 0..RoundWidth ELSE r.searches = st.searches
    BY <1>4, NodeResult
  <2>2. next = [r EXCEPT !.node = Following(st.node)] /\ DOMAIN r = Fields
    BY <1>1, <1>4, <2>1 DEF Typed
  <2>3. /\ next.clusters = r.clusters /\ next.supported = r.supported /\ next.subq = r.subq /\ next.origin = r.origin
        /\ next.iteration = r.iteration /\ next.searches = r.searches /\ next.planned = r.planned /\ next.plan = r.plan
        /\ next.contradictions = r.contradictions /\ next.facet = r.facet /\ DOMAIN next = Fields
        /\ next.node = Following(st.node)
    BY <2>2 DEF Fields
  <2>4. Typed(next) /\ LedgerOK(next) /\ (AllGrouped(next) <=> AllGrouped(r))
    <3>1. Typed(next)
      BY <2>1, <2>3 DEF Typed
    <3> QED BY <2>1, <2>3, <3>1, SameLedger
  <2>5. Moves(st, next)
    BY <1>4, <2>1, <2>3, NodesInOrder DEF Moves
  <2>6. Charged(st, next)
    BY <2>1, <2>3 DEF Charged
  <2>7. next.node \in NodeNames /\ RoundOK(next)
    BY <1>2, <2>5, OneStepOn
  <2>8. next.node # "synthesize" /\ (next.node = "cluster_and_corroborate" <=> st.node = "extract_claims")
    BY <1>2, <1>4, <2>3, NamesListed, NodesInOrder DEF First, Last4
  <2>9. Earned(next)
    BY <2>8 DEF Earned
  <2> QED BY <2>1, <2>4, <2>5, <2>6, <2>7, <2>8, <2>9 DEF StateInv
<1> QED BY <1>3, <1>4

-----------------------------------------------------------------------------
(* The run: what its checkpoints and its account of searches rest on.            *)
LEMMA OwnRange == ASSUME NEW S, NEW s \in Seq(S) PROVE s \in Seq(ToSet(s))
<1>1. PICK n \in Nat : n = Len(s) /\ s = [i \in 1..n |-> s[i]] /\ DOMAIN s = 1..n
  BY LenProperties
<1>2. \A i \in 1..n : s[i] \in ToSet(s)
  BY <1>1 DEF ToSet
<1> QED BY <1>1, <1>2, IsASeq

LEMMA StateNumbers ==
  ASSUME NEW st, StateInv(st)
  PROVE  /\ st.node \in NodeNames /\ st.iteration \in Nat /\ st.searches \in Nat /\ RoundOK(st)
         /\ StepsTaken(st) \in Nat
<1>1. st.node \in NodeNames /\ st.iteration \in Nat /\ st.searches \in Nat /\ RoundOK(st)
  BY DEF StateInv, Typed
<1>2. StepsTaken(st) \in Nat
  <2>1. CASE st.node \in First \cup {"generate_queries"}
    BY <1>1, <2>1, StepsByNode DEF First
  <2>2. CASE st.node \notin First \cup {"generate_queries"}
    <3>1. StepsTaken(st) = Index(st.node) - 9 + 8 * st.iteration
      BY <1>1, <2>2, StepsByNode DEF First
    <3>2. Index(st.node) \in 6..17 /\ st.iteration >= 1
      BY <1>1, <2>2, NamesListed, NodeNumbers DEF Last4, RoundOK
    <3> QED BY <1>1, <3>1, <3>2
  <2> QED BY <2>1, <2>2
<1> QED BY <1>1, <1>2

LEMMA StepsBounded == ASSUME NEW st, StateInv(st) PROVE StepsTaken(st) <= RecursionLimit
<1>1. st.node \in NodeNames /\ st.iteration \in Nat /\ RoundOK(st) /\ MaxIterations \in Nat \ {0}
  BY StateNumbers, NumbersOfSettings
<1>2. RecursionLimit = 13 + 8 * MaxIterations
  BY <1>1 DEF RecursionLimit
<1>3. CASE st.node \in First \cup {"generate_queries"}
  BY <1>1, <1>2, <1>3, StepsByNode DEF First, RoundOK
<1>4. CASE st.node \notin First \cup {"generate_queries"}
  <2>1. StepsTaken(st) = Index(st.node) - 9 + 8 * st.iteration
    BY <1>1, <1>4, StepsByNode DEF First
  <2>2. Index(st.node) \in 6..17 /\ st.iteration <= MaxIterations
    BY <1>1, <1>4, NamesListed, NodeNumbers DEF Last4, RoundOK
  <2> QED BY <1>1, <1>2, <2>1, <2>2
<1> QED BY <1>3, <1>4

LEMMA MeteredOK ==
  ASSUME NEW st, StateInv(st), NEW meter \in {0, st.searches}
  PROVE  LET m == Metered(st, meter) IN
         /\ StateInv(m) /\ m.node = st.node /\ m.iteration = st.iteration
         /\ m.searches = st.searches /\ m.planned = st.planned
<1> DEFINE m == Metered(st, meter)
<1>1. DOMAIN st = Fields
  BY DEF StateInv, Typed
<1>2. /\ m.clusters = st.clusters /\ m.supported = st.supported /\ m.subq = st.subq /\ m.origin = st.origin
      /\ m.iteration = st.iteration /\ m.searches = st.searches /\ m.planned = st.planned /\ m.plan = st.plan
      /\ m.contradictions = st.contradictions /\ m.facet = st.facet /\ DOMAIN m = Fields /\ m.node = st.node
  BY <1>1 DEF Metered, Fields
<1> HIDE DEF m
<1>3. Typed(m) /\ RoundOK(m)
  BY <1>2 DEF StateInv, Typed, RoundOK
<1>4. LedgerOK(m) /\ (AllGrouped(m) <=> AllGrouped(st))
  BY <1>2, SameLedger DEF StateInv
<1>5. Earned(st) => Earned(m)
  <2>1. \A s : Evidence(m, s) = Evidence(st, s)
    BY <1>2 DEF Evidence
  <2>2. \A d, e : OneText(m, d, e) <=> OneText(st, d, e)
    BY <1>2 DEF OneText, Quotes
  <2> QED BY <1>2, <2>1, <2>2 DEF Earned
<1> QED BY <1>2, <1>3, <1>4, <1>5 DEF StateInv, m

LEMMA OneMoreRound == ASSUME NEW a \in Nat \ {0}, NEW w \in Nat
                      PROVE  (a - 1) * w + w = a * w /\ (a - 1) * w \in Nat /\ a * w \in Nat /\ (a + 1) - 1 = a
OBVIOUS

(* Searches under way when a process is lost belong to the round being searched. *)
LEMMA UnderWayOK ==
  ASSUME RunTyped
  PROVE  /\ UnderWay \subseteq 0..RoundWidth
         /\ \A n \in UnderWay : n = 0 \/ (worker.phase = "working" /\ worker.st.node = "search")
<1>1. RoundWidth \in Nat
  BY WidthNat
<1>2. CASE worker.phase = "working" /\ worker.st.node = "search"
  <2> DEFINE m == Metered(worker.st, worker.meter)
  <2>1. StateInv(worker.st) /\ worker.meter \in {0, worker.st.searches}
    BY <1>2 DEF RunTyped, ChainOK, Dispatched, Dead
  <2>2. StateInv(m) /\ m.planned = worker.st.planned
    BY <2>1, MeteredOK
  <2> HIDE DEF m
  <2>3. Charges(m) \subseteq 0..RoundWidth
    <3>1. SearchesLeft(m.searches) \in Nat
      BY <2>2, LeftNat DEF StateInv, Typed
    <3>2. m.planned \in Nat /\ m.planned <= Width
      BY <2>2, WidthNat DEF StateInv, Typed
    <3> QED BY <3>1, <3>2, MinOfTwo, WidthNat DEF Charges
  <2> QED BY <1>1, <1>2, <2>3 DEF UnderWay, m
<1>3. CASE ~(worker.phase = "working" /\ worker.st.node = "search")
  BY <1>1, <1>3 DEF UnderWay
<1> QED BY <1>2, <1>3

LEMMA BaseOK ==
  ASSUME RunTyped
  PROVE  /\ \A x \in Base : StateInv(x) /\ x.searches \in Nat
         /\ Base # {}
<1>1. \A x \in Base : StateInv(x)
  BY InitialStateOK DEF Base, RunTyped, OneCheckpoint
<1> QED BY <1>1, StateNumbers DEF Base

(* A crash costs at most a round.                                                *)
LEMMA CrashCost ==
  ASSUME RunTyped, Accounts, outcome = "open", MaxUnsaved <= 5, worker.phase # "dead",
         NEW n \in UnderWay, NEW x \in Base
  PROVE  billed + n - x.searches <= lease * RoundWidth
<1>1. lease \in Nat \ {0} /\ RoundWidth \in Nat /\ billed \in Nat /\ n \in 0..RoundWidth
      /\ (n = 0 \/ (worker.phase = "working" /\ worker.st.node = "search"))
  BY UnderWayOK, WidthNat, AttemptsAssumption DEF RunTyped, Attempts
<1>2. (lease - 1) * RoundWidth + RoundWidth = lease * RoundWidth /\ (lease - 1) * RoundWidth \in Nat
      /\ lease * RoundWidth \in Nat
  BY <1>1, OneMoreRound
<1>3. StateInv(x) /\ x.searches \in Nat
  BY BaseOK
<1>4. CASE worker.phase = "working"
  <2> DEFINE st == worker.st
  <2>1. ChainOK
    BY <1>4 DEF RunTyped, Dispatched, Dead
  <2>2. StateInv(st) /\ st.searches \in Nat /\ Follows(x, st)
    BY <2>1, StateNumbers DEF ChainOK
  <2>3. billed - st.searches <= (lease - 1) * RoundWidth
    BY <1>4 DEF Accounts
  <2>4. StepsTaken(st) - StepsTaken(x) <= 7
    <3>1. Len(worker.unsaved) \in Nat /\ Len(worker.unsaved) <= 6
      BY <2>1, LenProperties, AttemptsAssumption DEF ChainOK
    <3>2. InTransaction \in {0, 1}
      BY DEF InTransaction
    <3>3. StepsTaken(st) \in Nat /\ StepsTaken(x) \in Nat
      BY <1>3, <2>2, StateNumbers
    <3>4. CASE saved = {}
      <4>1. StepsTaken(st) - Len(worker.unsaved) - InTransaction = -1
        BY <2>1, <3>4 DEF ChainOK
      <4> QED BY <3>1, <3>2, <3>3, <4>1
    <3>5. CASE saved # {}
      <4>1. StepsTaken(x) = StepsTaken(st) - Len(worker.unsaved) - InTransaction
        BY <2>1, <3>5 DEF ChainOK, Base
      <4> QED BY <3>1, <3>2, <3>3, <4>1
    <3> QED BY <3>4, <3>5
  <2> HIDE DEF st
  <2>5. st.searches + n - x.searches <= RoundWidth
    <3>1. /\ {st.node, x.node} \subseteq NodeNames /\ {st.iteration, x.iteration} \subseteq Nat
          /\ {st.searches, x.searches} \subseteq Nat /\ RoundOK(x) /\ RoundOK(st)
      BY <1>3, <2>2, StateNumbers
    <3> QED BY <1>1, <2>2, <2>4, <3>1, AtMostOneRoundLost DEF st
  <2> QED BY <1>1, <1>2, <1>3, <2>2, <2>3, <2>5 DEF st
<1>5. CASE worker.phase # "working"
  <2>1. worker.phase = "dispatched" /\ n = 0
    BY <1>1, <1>5 DEF RunTyped, Dispatched, Dead
  <2>2. billed - x.searches <= (lease - 1) * RoundWidth
    BY <2>1 DEF Accounts
  <2> QED BY <1>1, <1>2, <1>3, <2>1, <2>2
<1> QED BY <1>4, <1>5

LEMMA InitOK == Init => RunInv
<1> SUFFICES ASSUME Init PROVE RunInv
  OBVIOUS
<1> USE DEF Init
<1>1. RunTyped
  BY AttemptsAssumption DEF RunTyped, Attempts, OneCheckpoint, Dispatched
<1>2. Accounts
  <2>1. worker.phase = "dispatched" /\ Base = {InitialState} /\ billed = 0 /\ lease = 1 /\ RoundWidth \in Nat
    BY WidthNat DEF Dispatched, Base
  <2> QED BY <2>1, InitialStateOK DEF Accounts
<1> QED BY <1>1, <1>2 DEF RunInv

LEMMA Idle == ASSUME RunTyped, worker.phase # "working" PROVE \A a \in Attempts : writing[a] = {}
BY DEF RunTyped

LEMMA BeginOK == RunInv /\ Begin => RunInv'
<1> SUFFICES ASSUME RunInv, Begin PROVE RunInv'
  OBVIOUS
<1> USE DEF RunInv
<1>1. /\ worker = Dispatched /\ outcome = "open" /\ (lease = 1 => saved = {}) /\ worker.phase = "dispatched"
      /\ lease \in Attempts /\ billed \in Nat /\ OneCheckpoint(saved) /\ DOMAIN writing = Attempts
      /\ \A a \in Attempts : writing[a] = {}
  BY Idle DEF RunTyped, Begin, Dispatched, Dead
<1>2. UNCHANGED <<lease, writing, saved, billed, outcome>>
  BY DEF Begin
<1>3. OneCheckpoint(saved)' /\ \A a \in Attempts : (OneCheckpoint(writing[a]) /\ writing[a] = {})'
  BY <1>1, <1>2 DEF OneCheckpoint
<1>4. Base' = Base /\ InTransaction' = 0 /\ InTransaction = 0
  BY <1>1, <1>2 DEF Base, InTransaction
<1>5. \A x \in Base : StateInv(x) /\ x.searches \in Nat
  BY BaseOK
<1>6. \A x \in Base : MaxUnsaved <= 5 => billed - x.searches <= (lease - 1) * RoundWidth
  BY <1>1 DEF Accounts
<1>7. ASSUME NEW x, StateInv(x) PROVE Follows(x, x)
  BY <1>7, StateNumbers, WidthNat DEF Follows, Rounds
<1>8. ASSUME saved = {}, worker' = [worker EXCEPT !.phase = "working", !.st = InitialState, !.unsaved = <<InitialState>>]
      PROVE  RunInv'
  <2>1. /\ worker'.phase = "working" /\ worker'.st = InitialState /\ worker'.meter = 0
        /\ worker'.unsaved = <<InitialState>> /\ DOMAIN worker' = {"phase", "st", "meter", "unsaved"}
    BY <1>1, <1>8 DEF Dispatched, NewMeter
  <2>2. Len(worker'.unsaved) = 1 /\ worker'.unsaved \in Seq({InitialState}) /\ worker'.unsaved[1] = InitialState
    BY <2>1
  <2>3. ChainOK'
    <3>1. saved' = {} /\ writing'[lease'] = {} /\ Base' = {InitialState}
      BY <1>1, <1>2, <1>8 DEF Base
    <3>2. worker'.unsaved \in Seq(ToSet(worker'.unsaved))
      BY <2>2, OwnRange
    <3> QED BY <1>4, <1>7, <2>1, <2>2, <3>1, <3>2, InitialStateOK, AttemptsAssumption DEF ChainOK
  <2>4. RunTyped'
    BY <1>1, <1>2, <1>3, <2>1, <2>3 DEF RunTyped
  <2>5. Accounts'
    BY <1>1, <1>2, <1>6, <1>8, <2>1 DEF Accounts, Base
  <2> QED BY <2>4, <2>5
<1>9. ASSUME NEW st \in saved, worker' = [worker EXCEPT !.phase = "working", !.st = st,
                                                       !.meter = IF st.node = "END" THEN st.searches ELSE 0]
      PROVE  RunInv'
  <2>1. /\ worker'.phase = "working" /\ worker'.st = st /\ worker'.meter \in {0, st.searches}
        /\ worker'.unsaved = <<>> /\ DOMAIN worker' = {"phase", "st", "meter", "unsaved"}
    BY <1>1, <1>9 DEF Dispatched
  <2>2. Base = saved /\ StateInv(st) /\ \A x \in saved : x = st
    BY <1>1 DEF Base, OneCheckpoint
  <2>3. StepsTaken(st) \in Nat
    BY <2>2, StateNumbers
  <2>4. Len(worker'.unsaved) = 0 /\ worker'.unsaved \in Seq(ToSet(worker'.unsaved))
    BY <2>1
  <2>5. ChainOK'
    <3>1. saved' = saved /\ writing'[lease'] = {} /\ Base' = saved /\ saved # {}
      BY <1>1, <1>2, <1>4, <2>2
    <3> QED BY <1>4, <1>7, <2>1, <2>2, <2>3, <2>4, <3>1, AttemptsAssumption DEF ChainOK
  <2>6. RunTyped'
    BY <1>1, <1>2, <1>3, <2>1, <2>5 DEF RunTyped
  <2>7. Accounts'
    BY <1>1, <1>2, <1>6, <2>1, <2>2 DEF Accounts
  <2> QED BY <2>6, <2>7
<1> QED BY <1>1, <1>8, <1>9 DEF Begin

LEMMA RunNodeOK == RunInv /\ RunNode => RunInv'
<1> SUFFICES ASSUME RunInv, RunNode PROVE RunInv'
  OBVIOUS
<1> USE DEF RunInv
<1> DEFINE st == worker.st
           n == Len(worker.unsaved)
           entered == Metered(st, worker.meter)
<1>1. PICK next \in Outcomes(entered) :
         /\ worker' = [worker EXCEPT !.st = next, !.meter = next.searches, !.unsaved = Append(@, next)]
         /\ billed' = billed + (next.searches - entered.searches)
  BY DEF RunNode
<1>2. /\ outcome = "open" /\ worker.phase = "working" /\ st.node # "END" /\ n <= MaxUnsaved
      /\ UNCHANGED <<lease, writing, saved, outcome>>
  BY DEF RunNode, MayRun
<1>3. ChainOK /\ DOMAIN worker = {"phase", "st", "meter", "unsaved"} /\ lease \in Attempts /\ billed \in Nat
  BY <1>2 DEF RunTyped, Dispatched, Dead
<1>4. StateInv(st) /\ worker.meter \in {0, st.searches}
  BY <1>3 DEF ChainOK
<1>5. /\ StateInv(next) /\ Moves(st, next) /\ Charged(st, next)
      /\ next.searches - entered.searches = next.searches - st.searches
  <2>1. StateInv(entered) /\ entered.node = st.node /\ entered.iteration = st.iteration /\ entered.searches = st.searches
    BY <1>4, MeteredOK
  <2> HIDE DEF entered
  <2>2. StateInv(next) /\ Moves(entered, next) /\ Charged(entered, next)
    BY <1>2, <2>1, NodeOK
  <2> QED BY <2>1, <2>2 DEF Moves, Charged
<1>6. /\ {st.node, next.node} \subseteq NodeNames /\ {st.iteration, next.iteration} \subseteq Nat
      /\ {st.searches, next.searches} \subseteq Nat /\ RoundOK(st) /\ StepsTaken(st) \in Nat
  BY <1>4, <1>5, StateNumbers
<1>7. StepsTaken(next) = StepsTaken(st) + 1
  BY <1>5, <1>6, OneStepOn
<1>8. ASSUME NEW x, StateInv(x), Follows(x, st) PROVE Follows(x, next)
  <2>1. x.iteration \in Nat /\ x.searches \in Nat
    BY <1>8, StateNumbers
  <2> HIDE DEF st
  <2> QED BY <1>5, <1>6, <1>8, <2>1, StillFollows
<1>9. /\ worker'.phase = "working" /\ worker'.st = next /\ worker'.meter = next.searches
      /\ worker'.unsaved = Append(worker.unsaved, next) /\ DOMAIN worker' = {"phase", "st", "meter", "unsaved"}
  BY <1>1, <1>2, <1>3
<1>10. /\ n \in Nat /\ worker.unsaved \in Seq(ToSet(worker.unsaved)) /\ n <= MaxUnsaved
       /\ \A i \in 1..n : /\ StateInv(worker.unsaved[i]) /\ Follows(worker.unsaved[i], st)
                          /\ StepsTaken(worker.unsaved[i]) = StepsTaken(st) - (n - i)
  BY <1>2, <1>3, LenProperties DEF ChainOK
<1>11. /\ Len(worker'.unsaved) = n + 1 /\ worker'.unsaved \in Seq(ToSet(worker'.unsaved))
       /\ worker'.unsaved[n + 1] = next /\ \A i \in 1..n : worker'.unsaved[i] = worker.unsaved[i]
  <2> DEFINE S == ToSet(worker.unsaved) \cup {next}
  <2>1. worker.unsaved \in Seq(S) /\ next \in S
    <3>1. \A i \in 1..n : worker.unsaved[i] \in S
      BY <1>10, LenProperties DEF ToSet
    <3> QED BY <1>10
  <2> HIDE DEF S
  <2>2. worker'.unsaved \in Seq(S)
    BY <1>9, <2>1
  <2>3. worker'.unsaved \in Seq(ToSet(worker'.unsaved))
    BY <2>2, OwnRange
  <2> QED BY <1>9, <2>1, <2>3, AppendProperties
<1>12. Follows(next, next)
  BY <1>6, WidthNat DEF Follows, Rounds
<1>13. ChainOK'
  <2>1. n + 1 <= MaxUnsaved + 1 /\ worker'.meter \in {0, next.searches}
    BY <1>9, <1>10, AttemptsAssumption
  <2> DEFINE n2 == Len(worker'.unsaved)
  <2>0. n2 = n + 1 /\ n \in Nat
    BY <1>10, <1>11
  <2>2. ASSUME NEW i \in 1..n2
        PROVE  /\ StateInv(worker'.unsaved[i]) /\ Follows(worker'.unsaved[i], next)
               /\ StepsTaken(worker'.unsaved[i]) = StepsTaken(next) - (n2 - i)
    <3> HIDE DEF n2
    <3>1. CASE i = n2
      BY <1>5, <1>6, <1>7, <1>11, <1>12, <2>0, <3>1
    <3>2. CASE i # n2
      <4>1. i \in 1..n
        BY <2>0, <3>2
      <4>2. worker'.unsaved[i] = worker.unsaved[i]
        BY <1>11, <4>1
      <4>3. StepsTaken(worker.unsaved[i]) = StepsTaken(st) - (n - i) /\ StateInv(worker.unsaved[i]) /\ Follows(worker.unsaved[i], st)
        BY <1>10, <4>1
      <4>4. StepsTaken(st) \in Nat /\ StepsTaken(next) = StepsTaken(st) + 1
        BY <1>6, <1>7
      <4>5. StepsTaken(worker'.unsaved[i]) = StepsTaken(next) - (n2 - i)
        <5> HIDE DEF st, n
        <5> QED BY <2>0, <4>1, <4>2, <4>3, <4>4
      <4> QED BY <1>8, <4>2, <4>3, <4>5
    <3> QED BY <3>1, <3>2
  <2>3. \A x \in writing[lease] : StateInv(x) /\ Follows(x, next) /\ StepsTaken(x) = StepsTaken(next) - (n + 1)
    <3>1. \A x \in writing[lease] : StateInv(x) /\ Follows(x, st) /\ StepsTaken(x) = StepsTaken(st) - n
      BY <1>3 DEF ChainOK, RunTyped, OneCheckpoint
    <3> QED BY <1>6, <1>7, <1>8, <1>10, <3>1
  <2>4. InTransaction' = InTransaction /\ InTransaction \in {0, 1} /\ Base' = Base
    BY <1>2 DEF InTransaction, Base
  <2>5. \A x \in saved : StepsTaken(x) = StepsTaken(next) - (n + 1) - InTransaction
    <3>1. \A x \in saved : StepsTaken(x) = StepsTaken(st) - n - InTransaction
      BY <1>3 DEF ChainOK
    <3>2. StepsTaken(st) \in Nat /\ n \in Nat /\ StepsTaken(next) = StepsTaken(st) + 1 /\ InTransaction \in {0, 1}
      BY <1>6, <1>7, <1>10, <2>4
    <3> HIDE DEF st, n
    <3> QED BY <3>1, <3>2
  <2>6. saved = {} => StepsTaken(next) - (n + 1) - InTransaction = -1
    <3>1. saved = {} => StepsTaken(st) - n - InTransaction = -1
      BY <1>3 DEF ChainOK
    <3>2. StepsTaken(st) \in Nat /\ n \in Nat /\ StepsTaken(next) = StepsTaken(st) + 1 /\ InTransaction \in {0, 1}
      BY <1>6, <1>7, <1>10, <2>4
    <3> HIDE DEF st, n
    <3> QED BY <3>1, <3>2
  <2>7. \A x \in Base : Follows(x, next)
    BY <1>3, <1>8, BaseOK DEF ChainOK
  <2> HIDE DEF st, n
  <2>8. n2 = n + 1 /\ worker'.st = next /\ lease' = lease /\ writing' = writing /\ saved' = saved
    BY <1>2, <1>9, <1>11
  <2>10. /\ \A x \in writing[lease] : Follows(x, next) /\ StepsTaken(x) = StepsTaken(next) - n2
         /\ \A x \in saved : StepsTaken(x) = StepsTaken(next) - n2 - InTransaction
         /\ saved = {} => StepsTaken(next) - n2 - InTransaction = -1
         /\ n2 <= MaxUnsaved + 1
    BY <2>1, <2>3, <2>5, <2>6, <2>8
  <2>11. worker'.unsaved \in Seq(ToSet(worker'.unsaved))
    BY <1>11
  <2>12. Base' = Base /\ InTransaction' = InTransaction
    BY <2>4
  <2> HIDE DEF n2
  <2> QED BY <1>5, <2>1, <2>2, <2>7, <2>8, <2>10, <2>11, <2>12 DEF ChainOK, n2
<1>14. billed' \in Nat /\ billed' - next.searches = billed - st.searches
  <2>1. next.searches - st.searches \in Nat
    BY <1>5, <1>6, WidthNat DEF Charged
  <2> QED BY <1>1, <1>3, <1>5, <1>6, <2>1
<1>15. RunTyped'
  <2>1. OneCheckpoint(saved)' /\ \A a \in Attempts : OneCheckpoint(writing[a])'
    BY <1>2 DEF RunTyped, OneCheckpoint
  <2> QED BY <1>2, <1>9, <1>13, <1>14, <2>1 DEF RunTyped
<1>16. Accounts'
  <2>1. MaxUnsaved <= 5 => billed - st.searches <= (lease - 1) * RoundWidth
    BY <1>2 DEF Accounts
  <2> QED BY <1>2, <1>9, <1>14, <2>1 DEF Accounts
<1> QED BY <1>15, <1>16

LEMMA LockRowOK == RunInv /\ LockRow => RunInv'
<1> SUFFICES ASSUME RunInv, LockRow PROVE RunInv'
  OBVIOUS
<1> USE DEF RunInv
<1> DEFINE st == worker.st
           n == Len(worker.unsaved)
<1>1. /\ outcome = "open" /\ worker.phase = "working" /\ worker.unsaved # <<>> /\ writing[lease] = {}
      /\ writing' = [writing EXCEPT ![lease] = {Head(worker.unsaved)}]
      /\ worker' = [worker EXCEPT !.unsaved = Tail(@)]
      /\ UNCHANGED <<lease, saved, billed, outcome>>
  BY DEF LockRow
<1>2. /\ ChainOK /\ DOMAIN worker = {"phase", "st", "meter", "unsaved"} /\ lease \in Attempts /\ billed \in Nat
      /\ DOMAIN writing = Attempts
  BY <1>1 DEF RunTyped, Dispatched, Dead
<1>3. /\ worker'.phase = "working" /\ worker'.st = st /\ worker'.meter = worker.meter
      /\ worker'.unsaved = Tail(worker.unsaved) /\ DOMAIN worker' = {"phase", "st", "meter", "unsaved"}
  BY <1>1, <1>2
<1>4. /\ n \in Nat /\ worker.unsaved \in Seq(ToSet(worker.unsaved)) /\ n <= MaxUnsaved + 1
      /\ \A i \in 1..n : /\ StateInv(worker.unsaved[i]) /\ Follows(worker.unsaved[i], st)
                         /\ StepsTaken(worker.unsaved[i]) = StepsTaken(st) - (n - i)
  BY <1>2, LenProperties DEF ChainOK
<1>5. n >= 1 /\ Head(worker.unsaved) = worker.unsaved[1] /\ Len(worker'.unsaved) = n - 1
      /\ worker'.unsaved \in Seq(ToSet(worker'.unsaved))
      /\ \A i \in 1..(n - 1) : worker'.unsaved[i] = worker.unsaved[i + 1]
  <2>1. worker'.unsaved \in Seq(ToSet(worker.unsaved)) /\ Len(worker'.unsaved) = n - 1 /\ n >= 1
        /\ Head(worker.unsaved) = worker.unsaved[1] /\ \A i \in 1..(n - 1) : worker'.unsaved[i] = worker.unsaved[i + 1]
    BY <1>1, <1>3, <1>4, EmptySeq, HeadTailProperties
  <2> QED BY <2>1, OwnRange
<1>6. StateInv(st) /\ StepsTaken(st) \in Nat
  BY <1>2, StateNumbers DEF ChainOK
<1>7. /\ writing'[lease] = {worker.unsaved[1]} /\ \A a \in Attempts : a # lease => writing'[a] = {}
      /\ DOMAIN writing' = Attempts
  BY <1>1, <1>2, <1>5 DEF RunTyped
<1>8. ChainOK'
  <2>1. InTransaction = 0 /\ InTransaction' = 1 /\ Base' = Base
    BY <1>1, <1>7 DEF InTransaction, Base
  <2>2. ASSUME NEW i \in 1..(n - 1)
        PROVE  /\ StateInv(worker'.unsaved[i]) /\ Follows(worker'.unsaved[i], st)
               /\ StepsTaken(worker'.unsaved[i]) = StepsTaken(st) - (n - 1 - i)
    <3>1. i + 1 \in 1..n /\ n - (i + 1) = n - 1 - i /\ worker'.unsaved[i] = worker.unsaved[i + 1]
      <4>1. worker'.unsaved[i] = worker.unsaved[i + 1]
        BY <1>5
      <4>2. n \in Nat
        BY <1>4
      <4> HIDE DEF n
      <4> QED BY <4>1, <4>2
    <3> QED BY <1>4, <3>1
  <2>3. \A x \in writing'[lease] : Follows(x, st) /\ StepsTaken(x) = StepsTaken(st) - (n - 1)
    BY <1>4, <1>5, <1>7
  <2>4. \A x \in saved : StepsTaken(x) = StepsTaken(st) - (n - 1) - 1
    BY <1>2, <1>4, <1>6, <2>1 DEF ChainOK
  <2>5. saved = {} => StepsTaken(st) - (n - 1) - 1 = -1
    BY <1>2, <1>4, <1>6, <2>1 DEF ChainOK
  <2>6. n - 1 <= MaxUnsaved + 1 /\ \A x \in Base : Follows(x, st)
    BY <1>2, <1>4, AttemptsAssumption DEF ChainOK
  <2>7. worker.meter \in {0, st.searches}
    BY <1>2 DEF ChainOK
  <2> HIDE DEF st, n
  <2> QED BY <1>1, <1>3, <1>5, <1>6, <2>1, <2>2, <2>3, <2>4, <2>5, <2>6, <2>7 DEF ChainOK
<1>9. RunTyped'
  <2>1. OneCheckpoint(saved)' /\ \A a \in Attempts : OneCheckpoint(writing[a])'
    BY <1>1, <1>4, <1>5, <1>7 DEF RunTyped, OneCheckpoint
  <2> QED BY <1>1, <1>2, <1>3, <1>7, <1>8, <2>1 DEF RunTyped
<1>10. Accounts'
  BY <1>1, <1>3 DEF Accounts
<1> QED BY <1>9, <1>10

LEMMA CommitOK == RunInv /\ CommitCheckpoint => RunInv'
<1> SUFFICES ASSUME RunInv, CommitCheckpoint PROVE RunInv'
  OBVIOUS
<1> USE DEF RunInv
<1> DEFINE st == worker.st
           n == Len(worker.unsaved)
<1>1. PICK a \in Attempts : /\ writing[a] # {} /\ saved' = writing[a] /\ writing' = [writing EXCEPT ![a] = {}]
                            /\ UNCHANGED <<lease, worker, billed, outcome>>
  BY DEF CommitCheckpoint
<1>2. a = lease /\ worker.phase = "working"
  BY <1>1 DEF RunTyped
<1>3. ChainOK /\ outcome = "open" /\ DOMAIN writing = Attempts
  BY <1>2 DEF RunTyped, Dispatched, Dead
<1>4. saved' = writing[lease] /\ saved' # {} /\ \A b \in Attempts : writing'[b] = {}
  BY <1>1, <1>2, <1>3 DEF RunTyped
<1>5. \A x \in saved' : StateInv(x) /\ Follows(x, st) /\ StepsTaken(x) = StepsTaken(st) - n
  BY <1>2, <1>3, <1>4 DEF ChainOK, RunTyped, OneCheckpoint
<1>6. InTransaction' = 0 /\ Base' = saved' /\ n \in Nat /\ StepsTaken(st) \in Nat
  BY <1>1, <1>2, <1>3, <1>4, LenProperties, StateNumbers DEF InTransaction, Base, ChainOK
<1>7. ChainOK'
  <2>1. worker' = worker /\ lease' = lease /\ writing'[lease] = {}
    BY <1>1, <1>2, <1>4
  <2> QED BY <1>3, <1>4, <1>5, <1>6, <2>1 DEF ChainOK
<1>8. RunTyped'
  <2>1. OneCheckpoint(saved)' /\ \A b \in Attempts : (OneCheckpoint(writing[b]))'
    BY <1>1, <1>2, <1>4 DEF RunTyped, OneCheckpoint
  <2>2. DOMAIN writing' = Attempts
    BY <1>1, <1>3
  <2> QED BY <1>1, <1>2, <1>3, <1>4, <1>7, <2>1, <2>2 DEF RunTyped
<1>9. Accounts'
  BY <1>1, <1>2, <1>3 DEF Accounts
<1> QED BY <1>8, <1>9

(* A run that ends leaves nothing to account for.                                *)
LEMMA EndOK == RunInv /\ (FailPreflight \/ Finish \/ Raise) => RunInv'
<1> SUFFICES ASSUME RunInv, FailPreflight \/ Finish \/ Raise PROVE RunInv'
  OBVIOUS
<1> USE DEF RunInv
<1>1. /\ outcome' \in {"failed", "succeeded", "succeeded_with_warnings"} /\ worker' = Dead
      /\ UNCHANGED <<lease, writing, saved>> /\ (worker.phase = "working" => writing[lease] = {})
  BY DEF FailPreflight, Finish, Raise, OutcomeStatus
<1>2. billed' \in Nat
  <2>1. UnderWay \subseteq 0..RoundWidth /\ RoundWidth \in Nat /\ billed \in Nat
    BY UnderWayOK, WidthNat DEF RunTyped
  <2>2. billed' = billed \/ \E n \in UnderWay : billed' = billed + n
    BY DEF FailPreflight, Finish, Raise
  <2> HIDE DEF RunInv
  <2> QED BY <2>1, <2>2
<1>3. \A a \in Attempts : writing[a] = {}
  BY <1>1 DEF RunTyped
<1>4. DOMAIN worker' = {"phase", "st", "meter", "unsaved"}
  BY <1>1 DEF Dead, Dispatched
<1>5. OneCheckpoint(saved)' /\ \A a \in Attempts : OneCheckpoint(writing[a])'
  BY <1>1 DEF RunTyped, OneCheckpoint
<1>6. RunTyped'
  BY <1>1, <1>2, <1>3, <1>4, <1>5 DEF RunTyped
<1>7. Accounts'
  BY <1>1 DEF Accounts
<1> QED BY <1>6, <1>7

LEMMA CrashOK == RunInv /\ Crash => RunInv'
<1> SUFFICES ASSUME RunInv, Crash PROVE RunInv'
  OBVIOUS
<1> USE DEF RunInv
<1>1. PICK n \in UnderWay : billed' = billed + n
  BY DEF Crash
<1>2. /\ outcome = "open" /\ worker.phase # "dead" /\ worker' = Dead /\ writing' = [writing EXCEPT ![lease] = {}]
      /\ UNCHANGED <<lease, saved, outcome>>
  BY DEF Crash
<1>3. billed' \in Nat
  BY <1>1, UnderWayOK, WidthNat DEF RunTyped
<1>4. DOMAIN writing' = Attempts /\ \A a \in Attempts : writing'[a] = {}
  BY <1>2 DEF RunTyped
<1>5. DOMAIN worker' = {"phase", "st", "meter", "unsaved"} /\ worker'.phase = "dead"
  BY <1>2 DEF Dead, Dispatched
<1>6. OneCheckpoint(saved)' /\ \A a \in Attempts : OneCheckpoint(writing[a])'
  BY <1>2, <1>4 DEF RunTyped, OneCheckpoint
<1>7. RunTyped'
  BY <1>2, <1>3, <1>4, <1>5, <1>6 DEF RunTyped
<1>8. Accounts'
  <2>1. Base' = Base
    BY <1>2 DEF Base
  <2>2. \A x \in Base : MaxUnsaved <= 5 => billed' - x.searches <= lease * RoundWidth
    <3> SUFFICES ASSUME NEW x \in Base, MaxUnsaved <= 5 PROVE billed' - x.searches <= lease * RoundWidth
      OBVIOUS
    <3>1. billed + n - x.searches <= lease * RoundWidth
      BY <1>2, CrashCost
    <3>2. billed \in Nat /\ n \in Nat /\ x.searches \in Nat
      BY BaseOK, UnderWayOK, WidthNat DEF RunTyped
    <3> HIDE DEF RunInv
    <3> QED BY <1>1, <3>1, <3>2
  <2> QED BY <1>2, <1>5, <2>1, <2>2 DEF Accounts
<1> QED BY <1>7, <1>8

LEMMA RedispatchOK == RunInv /\ (Recover \/ Suspect) => RunInv'
<1> SUFFICES ASSUME RunInv, Recover \/ Suspect PROVE RunInv'
  OBVIOUS
<1> USE DEF RunInv
<1>1. /\ outcome = "open" /\ (\A a \in Attempts : writing[a] = {}) /\ UNCHANGED <<writing, saved>>
      /\ \/ lease < MaxAttempts /\ lease' = lease + 1 /\ worker' = Dispatched /\ outcome' = outcome
         \/ outcome' = "failed" /\ worker' = Dead /\ lease' = lease
  BY DEF Recover, Suspect, Redispatch, RowFree
<1>2. billed' \in Nat /\ \A x \in Base : MaxUnsaved <= 5 => billed' - x.searches <= lease * RoundWidth
  <2>1. CASE Suspect
    <3>1. PICK n \in UnderWay : billed' = billed + n
      BY <2>1 DEF Suspect
    <3>2. worker.phase # "dead"
      BY <2>1 DEF Suspect
    <3>3. billed' \in Nat
      BY <3>1, UnderWayOK, WidthNat DEF RunTyped
    <3>4. ASSUME NEW x \in Base, MaxUnsaved <= 5 PROVE billed' - x.searches <= lease * RoundWidth
      <4>1. billed + n - x.searches <= lease * RoundWidth
        BY <1>1, <3>2, <3>4, CrashCost
      <4>2. billed \in Nat /\ n \in Nat /\ x.searches \in Nat
        BY BaseOK, UnderWayOK, WidthNat DEF RunTyped
      <4> HIDE DEF RunInv
      <4> QED BY <3>1, <4>1, <4>2
    <3> QED BY <3>3, <3>4
  <2>2. CASE Recover
    <3>1. worker.phase = "dead" /\ billed' = billed
      BY <2>2 DEF Recover
    <3> QED BY <1>1, <3>1 DEF Accounts, RunTyped
  <2> QED BY <2>1, <2>2
<1>3. lease' \in Attempts
  BY <1>1, AttemptsAssumption DEF RunTyped, Attempts
<1>4. OneCheckpoint(saved)' /\ \A a \in Attempts : OneCheckpoint(writing[a])'
  BY <1>1 DEF RunTyped, OneCheckpoint
<1>5. DOMAIN worker' = {"phase", "st", "meter", "unsaved"}
  BY <1>1 DEF Dead, Dispatched
<1>6. lease \in Nat \ {0} /\ RoundWidth \in Nat
  BY WidthNat, AttemptsAssumption DEF RunTyped, Attempts
<1>7. RunTyped'
  BY <1>1, <1>2, <1>3, <1>4, <1>5, <1>6 DEF RunTyped
<1>8. Accounts'
  <2>1. Base' = Base
    BY <1>1 DEF Base
  <2>2. CASE outcome' = "failed"
    BY <2>2 DEF Accounts
  <2>3. CASE lease' = lease + 1 /\ worker' = Dispatched /\ outcome' = outcome
    <3>1. worker'.phase = "dispatched" /\ lease' - 1 = lease
      BY <1>6, <2>3 DEF Dispatched
    <3> QED BY <1>2, <2>1, <3>1 DEF Accounts
  <2> QED BY <1>1, <2>2, <2>3
<1> QED BY <1>7, <1>8

LEMMA StutterOK == RunInv /\ UNCHANGED vars => RunInv'
<1> SUFFICES ASSUME RunInv, UNCHANGED vars PROVE RunInv'
  OBVIOUS
<1>1. /\ lease' = lease /\ worker' = worker /\ writing' = writing /\ saved' = saved
      /\ billed' = billed /\ outcome' = outcome
  BY DEF vars
<1>2. Base' = Base /\ InTransaction' = InTransaction
  BY <1>1 DEF Base, InTransaction
<1>3. ChainOK' <=> ChainOK
  BY <1>1, <1>2 DEF ChainOK
<1> QED BY <1>1, <1>2, <1>3 DEF RunInv, RunTyped, Accounts, OneCheckpoint

(* The invariant of the research of a run.                                       *)
THEOREM RunInductive == Spec => []RunInv
<1>1. Init => RunInv
  BY InitOK
<1>2. RunInv /\ [Next]_vars => RunInv'
  BY BeginOK, RunNodeOK, LockRowOK, CommitOK, EndOK, CrashOK, RedispatchOK, StutterOK DEF Next, vars
<1> QED BY <1>1, <1>2, PTL DEF Spec

LEMMA EveryState == RunInv => \A st \in States : StateInv(st)
<1> SUFFICES ASSUME RunInv, NEW st, st \in States PROVE StateInv(st)
  OBVIOUS
<1>1. CASE st \in saved
  BY <1>1 DEF RunInv, RunTyped, OneCheckpoint
<1>2. CASE \E a \in Attempts : st \in writing[a]
  BY <1>2 DEF RunInv, RunTyped, OneCheckpoint
<1>3. CASE st = worker.st /\ st # None
  <2>1. worker # Dispatched /\ worker # Dead
    BY <1>3 DEF Dispatched, Dead
  <2> QED BY <1>3, <2>1 DEF RunInv, RunTyped, ChainOK
<1>4. st \in saved \/ (\E a \in Attempts : st \in writing[a]) \/ (st \in {worker.st} /\ st \notin {None})
  <2>1. st \in saved \/ st \in UNION {writing[a] : a \in Attempts} \/ st \in {worker.st} \ {None}
    BY DEF States
  <2>2. ASSUME st \in UNION {writing[a] : a \in Attempts} PROVE \E a \in Attempts : st \in writing[a]
    BY <2>2
  <2> QED BY <2>1, <2>2
<1>5. (st \in {worker.st} /\ st \notin {None}) => (st = worker.st /\ st # None)
  BY Zenon
<1> QED BY <1>1, <1>2, <1>3, <1>4, <1>5

(* NeverHitsRecursionLimit: build_graph's loop of rounds ends before recursion_  *)
(* limit steps, for every plan, page and answer and any number of resumptions.   *)
THEOREM NeverHitsRecursionLimitHolds == Spec => []NeverHitsRecursionLimit
<1>1. RunInv => NeverHitsRecursionLimit
  BY EveryState, StepsBounded DEF NeverHitsRecursionLimit
<1> QED BY <1>1, RunInductive, PTL

(* LostChargesBounded: what the meter of a resumed run has forgotten (_wrap) is  *)
(* at most a round of searches for each crash, when the background writer stays  *)
(* less than a round of nodes behind: with six unwritten checkpoints and one in  *)
(* its transaction.                                                              *)
THEOREM LostChargesBoundedHolds == ASSUME MaxUnsaved <= 5 PROVE Spec => []LostChargesBounded
<1>1. RunInv => LostChargesBounded
  <2> SUFFICES ASSUME RunInv, worker.phase = "working" PROVE billed - worker.st.searches <= (lease - 1) * RoundWidth
    BY DEF LostChargesBounded
  <2>1. outcome = "open"
    BY DEF RunInv, RunTyped, Dispatched, Dead
  <2> QED BY <2>1 DEF RunInv, Accounts
<1> QED BY <1>1, RunInductive, PTL

(* SufficiencyIsEarned: wherever clustering and merging put the claims, a facet  *)
(* assess_facets calls sufficient has a primary source or two independent ones,  *)
(* for any threshold of two origins or more (the default is two).                *)
THEOREM SufficiencyIsEarnedHolds == ASSUME MinOrigins >= 2 PROVE Spec => []SufficiencyIsEarned
<1>1. RunInv => SufficiencyIsEarned
  BY EveryState DEF SufficiencyIsEarned, Assessed, StateInv, Earned
<1> QED BY <1>1, RunInductive, PTL

(* ProgressKept: the row lock of _cursor and the order of the writes never let   *)
(* an older checkpoint replace a later one, whichever attempt wrote it.          *)
THEOREM ProgressKeptHolds == Spec => ProgressKept
<1> DEFINE Kept2 == \A st \in saved : \E new \in saved' : StepsTaken(new) >= StepsTaken(st)
<1>1. RunInv /\ [Next]_vars => [Kept2]_vars
  <2> SUFFICES ASSUME RunInv, Next PROVE Kept2
    OBVIOUS
  <2>1. ASSUME saved' = saved PROVE Kept2
    <3>1. \A st \in saved : StepsTaken(st) \in Nat
      BY StateNumbers DEF RunInv, RunTyped, OneCheckpoint
    <3> QED BY <2>1, <3>1
  <2>2. ASSUME CommitCheckpoint PROVE Kept2
    <3>1. PICK a \in Attempts : writing[a] # {} /\ saved' = writing[a]
      BY <2>2 DEF CommitCheckpoint
    <3>2. a = lease /\ ChainOK
      BY <3>1 DEF RunInv, RunTyped, Dispatched, Dead
    <3>3. PICK new \in writing[lease] : TRUE
      BY <3>1, <3>2
    <3>4. StepsTaken(new) = StepsTaken(worker.st) - Len(worker.unsaved) /\ InTransaction = 1
      BY <3>1, <3>2 DEF ChainOK, InTransaction
    <3>5. Len(worker.unsaved) \in Nat /\ StepsTaken(worker.st) \in Nat
      BY <3>2, LenProperties, StateNumbers DEF ChainOK
    <3>6. \A st \in saved : StepsTaken(st) = StepsTaken(worker.st) - Len(worker.unsaved) - 1
      BY <3>2, <3>4 DEF ChainOK
    <3>7. \A st \in saved : StepsTaken(new) >= StepsTaken(st)
      BY <3>4, <3>5, <3>6
    <3> QED BY <3>1, <3>2, <3>7
  <2>3. saved' = saved \/ CommitCheckpoint
    BY DEF Next, FailPreflight, Begin, RunNode, LockRow, Finish, Raise, Crash, Recover, Suspect, Redispatch, vars
  <2> QED BY <2>1, <2>2, <2>3
<1>2. [][Kept2]_vars => ProgressKept
  BY PTL DEF ProgressKept
<1> QED BY <1>1, <1>2, RunInductive, PTL DEF Spec
=============================================================================
