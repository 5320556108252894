------------------------------ MODULE ReportGate ------------------------------
(* The report of a run from its first draft to its delivery: the synthesizer     *)
(* writes from the ledger or the ledger is listed, the citations are verified in *)
(* batches and the draft is rewritten once, and the output gate evaluates its    *)
(* rules, remediates and evaluates again.                                        *)
EXTENDS Quantities, Sequences, SequencesExt

CONSTANTS
    Ledgers,    \* ledgers a run may end with: sequences, the most confident finding first,
                \* of [status, stale, docs, origins, figures, readable, text], the figures
                \* those of its claims, readable unless a numeral in them has no reading
    Candidates, \* what review may find among the claims: sets of "held", "rejected", "unscoped"
    Answers,    \* answers of the synthesizer: [sections, ascii or wrong language]
    Invented,   \* an id of the ledger's form that the model made up
    Questions,  \* number of subquestions of the plan
    WantsActions, \* analysis.answer_type is action_plan
    BatchSize,  \* settings.concurrency.citation_verification_batch_size
    Limits,     \* values of settings.gate.max_remediation_rounds
    Asked,      \* quantities the question itself states
    Percent, Points, Days,  \* tolerance of rule G4 in gate.yaml
    None

(* What the settings may be set to (config/schema.py).                           *)
ConcurrencySettings == BatchSize \in 1..50
GateSettings == Limits \subseteq 0..3

(* A text is the list of its readings: of the text as it is written, then of     *)
(* what each masking of the sensitive identifiers found in it leaves.  A reading *)
(* is [figures, counts, readable]: the quantities stated; the numbers that count *)
(* sources or findings, as <<noun, number>>; FALSE when a numeral has no reading.*)
IsText(text) == text \in Seq(ToSet(text)) /\ text # <<>>
Wordless == <<[figures |-> {}, counts |-> {}, readable |-> TRUE]>>

ASSUME ReportAssumption ==
    /\ ConcurrencySettings /\ GateSettings /\ Questions \in Nat
    /\ \A l \in Ledgers : l \in Seq(ToSet(l)) /\ Invented \notin DOMAIN l
    /\ \A l \in Ledgers : \A k \in DOMAIN l : IsText(l[k].text)
    /\ Candidates \subseteq SUBSET {"held", "rejected", "unscoped"} /\ WantsActions \in BOOLEAN

VARIABLES
    ledger, candidates, plan, limit,  \* what the research hands over, and the setting
    phase,      \* the node that runs, or the stage of the gate; the job is raised
                \* when a node ends with an exception
    report,     \* state.report: sections, fallback, foreign, sources
    verify,     \* verdicts of the running node: batches, unsupported, unavailable, checked
    rewritten,  \* state.resynthesized
    checks,     \* state.heuristic_checks: those that warn
    gate        \* run_gate: working report, initial and final violations, removed, rounds

vars == <<ledger, candidates, plan, limit, phase, report, verify, rewritten, checks, gate>>

SectionOrder == <<"summary", "key_findings", "conflicting", "recommendations", "conclusion", "known_gaps">>
SectionKeys == ToSet(SectionOrder)

(* SynthesizeOutput: lists of sentences, each of them for a section.             *)
ASSUME AnswersAssumption ==
    \A answer \in Answers :
        /\ DOMAIN answer.sections \subseteq SectionKeys
        /\ \A k \in DOMAIN answer.sections :
              /\ answer.sections[k] \in Seq(ToSet(answer.sections[k]))
              /\ \A item \in ToSet(answer.sections[k]) : item.framing \in BOOLEAN /\ IsText(item.text)

Subqs == 1..Questions
Required == SectionKeys \ {"recommendations", "known_gaps"}

NoVerdicts == [batches |-> <<>>, unsupported |-> {}, unavailable |-> {}, checked |-> {}]
MaxListed == 30  \* key findings of a report without a model

NoGate == [working |-> None, initial |-> {}, left |-> {}, removed |-> 0, rounds |-> 0, verdict |-> None]

Init ==
    /\ ledger \in Ledgers /\ candidates \in Candidates
    /\ (\E k \in DOMAIN ledger : ledger[k].stale) => "held" \in candidates
    /\ plan \in [Subqs -> {"searching", "sufficient", "exhausted"}] /\ limit \in Limits
    /\ phase = "synthesize" /\ report = None /\ verify = NoVerdicts
    /\ rewritten = FALSE /\ checks = {} /\ gate = NoGate

-----------------------------------------------------------------------------
(* The members of a set of places, ascending, and what a list has at them.       *)
InOrder(places) == [n \in 1..Cardinality(places) |->
                       CHOOSE i \in places : Cardinality({j \in places : j <= i}) = n]
Keeping(list, places) == [n \in 1..Cardinality(places) |-> list[InOrder(places)[n]]]

(* Sentences.  cites are the cluster_ids of a fact and the finding_refs of a     *)
(* recommendation; masked counts how often the text was masked.                  *)
Meta(labels) == [kind |-> "meta", cites |-> {}, text |-> Wordless, masked |-> 0, labels |-> labels, id |-> None]
States(s) == s.text[s.masked + 1]
(* redact_text(text) != text.                                                    *)
Secret(s) == s.masked + 1 < Len(s.text)

Uncertain == <<"uncertain">>
SingleSource == <<"single_source">>
Approximate == <<"approximate">>
GapLabel(q) == <<"gap", q>>
Removal(n) == <<"removed", n>>

(* _label: what the ledger says of the findings a sentence cites.                *)
Cited(s) == s.cites \cap DOMAIN ledger
LedgerLabels(s, section) ==
    {l \in {Uncertain, SingleSource} :
        IF l = Uncertain THEN section # "conflicting" /\ \E k \in Cited(s) : ledger[k].status = "contested"
        ELSE Cited(s) # {} /\ \A k \in Cited(s) : ledger[k].status = "single_source"}

(* _sentence: without a citation only framing is exempt, the rest stays a fact.  *)
Sentence(item, section, id) ==
    LET s == [kind |-> IF section = "recommendations" THEN "recommendation"
                       ELSE IF item.cites = {} /\ item.framing THEN "meta" ELSE "fact",
              cites |-> item.cites, text |-> item.text, masked |-> 0, labels |-> {}, id |-> id]
    IN [s EXCEPT !.labels = IF s.kind = "fact" THEN LedgerLabels(s, section) ELSE {}]

(* _gap_section: what was not answered, and that candidate claims were withheld. *)
Gaps == InOrder({q \in Subqs : plan[q] # "sufficient"})
GapSection == [i \in DOMAIN Gaps |-> Meta({GapLabel(Gaps[i])})]
              \o (IF candidates \cap {"held", "rejected"} # {} THEN <<Meta({})>> ELSE <<>>)

(* cited_doc_ids and rebuild_sources: the list is derived from the citations. It *)
(* has every cited document, since process_results keeps one per canonical URL:  *)
(* none is without one, and none repeats that of another.                        *)
SentencesOf(sections) == UNION {ToSet(sections[k]) : k \in DOMAIN sections}
CitedDocs(sections) == UNION {ledger[k].docs : k \in UNION {Cited(s) : s \in SentencesOf(sections)}}
WithSources(r) == [r EXCEPT !.sources = CitedDocs(r.sections)]

(* build_report.                                                                 *)
Written(answer, draft) ==
    LET part(k) == [i \in DOMAIN answer.sections[k] |-> Sentence(answer.sections[k][i], k, <<draft, k, i>>)]
        given == {k \in DOMAIN answer.sections :
                     k = "recommendations" => WantsActions /\ answer.sections[k] # <<>>}
    IN [fallback |-> FALSE, foreign |-> answer.foreign, sources |-> {},
        sections |-> [k \in given \cup {"known_gaps"} |-> IF k = "known_gaps" THEN GapSection ELSE part(k)]]

(* fallback_report: one sentence per finding that applies, the most confident    *)
(* first; of those that nothing contradicts, thirty.                             *)
Applying(contested) ==
    InOrder({k \in DOMAIN ledger : ~ledger[k].stale /\ (ledger[k].status = "contested") = contested})
Leading(n) == LET settled == Applying(FALSE) IN SubSeq(settled, 1, Min({n, Len(settled)}))
Listed(keys, section, draft) ==
    LET item(k) == [cites |-> {k}, framing |-> FALSE, text |-> ledger[k].text]
    IN [i \in DOMAIN keys |-> Sentence(item(keys[i]), section, <<draft, section, i>>)]
Fallback(draft) ==
    [fallback |-> TRUE, foreign |-> FALSE, sources |-> {},
     sections |-> [summary |-> IF Leading(2) = <<>> THEN <<Meta({})>> ELSE Listed(Leading(2), "summary", draft),
                   key_findings |-> Listed(Leading(MaxListed), "key_findings", draft),
                   conflicting |-> Listed(Applying(TRUE), "conflicting", draft),
                   conclusion |-> <<Meta({})>>, known_gaps |-> GapSection]]

(* _synthesise: the answer of the model, or the ledger when it has none.         *)
Drafts(draft) == {Fallback(draft)} \cup {Written(a, draft) : a \in IF DOMAIN ledger = {} THEN {} ELSE Answers}

-----------------------------------------------------------------------------
Addresses(sections) == UNION {{<<k, i>> : i \in DOMAIN sections[k]} : k \in DOMAIN sections}
At(sections, at) == sections[at[1]][at[2]]

(* _verify: the cited sentences in their order, a batch at a time.               *)
ToVerify(sections) ==
    {at \in Addresses(sections) : At(sections, at).kind # "meta" /\ At(sections, at).cites # {}}
Earlier(at, other) ==
    LET place(k) == CHOOSE j \in DOMAIN SectionOrder : SectionOrder[j] = k
    IN place(at[1]) < place(other[1]) \/ (at[1] = other[1] /\ at[2] < other[2])
Batches(sections) ==
    LET items == ToVerify(sections)
        batch(at) == 1 + Cardinality({other \in items : Earlier(other, at)}) \div BatchSize
    IN [b \in {batch(at) : at \in items} |-> [tries |-> 0, pending |-> {at \in items : batch(at) = b}]]
Verifying(r) == [NoVerdicts EXCEPT !.batches = Batches(r.sections)]

Enter(node) == phase = node /\ UNCHANGED <<ledger, candidates, plan, limit>>

(* A draft whose Turkish lacks its letters is written once more before it counts.*)
Synthesize ==
    /\ Enter("synthesize")
    /\ \E r \in Drafts(1) :
          /\ report' = WithSources(r)
          /\ IF r.fallback THEN phase' = "review" /\ UNCHANGED verify
             ELSE phase' = "verify" /\ verify' = Verifying(r)
    /\ UNCHANGED <<rewritten, checks, gate>>

(* One attempt at a batch.  A verdict counts when the answer names its sentence  *)
(* exactly once; an unavailable model gives none.                                *)
Waiting(b) == verify.batches[b].pending # {} /\ verify.batches[b].tries < 2
AskVerifier(b) ==
    /\ Enter("verify") /\ Waiting(b)
    /\ \E verdict \in [verify.batches[b].pending -> {"supported", "unsupported", "none"}] :
          LET said(v) == {at \in DOMAIN verdict : verdict[at] = v}
              lost == IF verify.batches[b].tries = 1 THEN said("none") ELSE {}
          IN verify' = [verify EXCEPT
                !.batches[b] = [tries |-> @.tries + 1, pending |-> said("none")],
                !.checked = @ \cup said("supported") \cup said("unsupported"),
                !.unavailable = @ \cup lost, !.unsupported = @ \cup said("unsupported") \cup lost]
    /\ UNCHANGED <<phase, report, rewritten, checks, gate>>

Without(r, unsupported) ==
    [r EXCEPT !.sections =
        [k \in DOMAIN @ |-> Keeping(@[k], {i \in DOMAIN @[k] : <<k, i>> \notin unsupported})]]
Noted(r) == IF verify.unavailable = {} THEN r ELSE [r EXCEPT !.sections["known_gaps"] = Append(@, Meta({}))]

(* All batches are in: rewrite with feedback, or withhold what is unsupported.   *)
Verified == phase = "verify" /\ ~\E b \in DOMAIN verify.batches : Waiting(b)
Rewrites == verify.unsupported # {} /\ ~rewritten /\ verify.unavailable = {}

\* Mutant: the positions of the old draft are applied to the ledger's list.
Rewrite_StalePositions ==
    /\ Enter("verify") /\ Verified /\ Rewrites
    /\ rewritten' = TRUE
    /\ \E r \in Drafts(2) :
          IF r.fallback
          THEN /\ report' = WithSources(Without(r, verify.unsupported))
               /\ phase' = "review" /\ UNCHANGED verify
          ELSE report' = r /\ verify' = Verifying(r) /\ UNCHANGED phase
    /\ UNCHANGED <<checks, gate>>
\* Mutant: a rewrite is not remembered.
Rewrite_Forgotten ==
    /\ Enter("verify") /\ Verified /\ Rewrites
    /\ \E r \in Drafts(2) :
          IF r.fallback
          THEN /\ report' = WithSources(r) /\ phase' = "review" /\ UNCHANGED verify
          ELSE report' = r /\ verify' = Verifying(r) /\ UNCHANGED phase
    /\ UNCHANGED <<rewritten, checks, gate>>
Rewrite ==
    /\ Enter("verify") /\ Verified /\ Rewrites
    /\ rewritten' = TRUE
    /\ \E r \in Drafts(2) :
          IF r.fallback
          THEN /\ report' = WithSources(r) /\ phase' = "review" /\ UNCHANGED verify
          ELSE report' = r /\ verify' = Verifying(r) /\ UNCHANGED phase
    /\ UNCHANGED <<checks, gate>>

Withhold ==
    /\ Enter("verify") /\ Verified /\ ~Rewrites
    /\ report' = WithSources(Noted(Without(report, verify.unsupported)))
    /\ phase' = "review"
    /\ UNCHANGED <<verify, rewritten, checks, gate>>

-----------------------------------------------------------------------------
(* The rules.  An error that survives remediation fails the report.  The source  *)
(* list holds valid, unique and masked entries, so that G8 finds nothing.        *)
Violation(rule, error, at, what) == [rule |-> rule, error |-> error, at |-> at, what |-> what]
(* _addressed: the sentences of a report with their section and place.           *)
Entries(r) == {[at |-> at, in |-> at[1], s |-> At(r.sections, at)] : at \in Addresses(r.sections)}
Flag(rule, error, wrong) == {Violation(rule, error, e.at, None) : e \in wrong}

Supported(r) == \E s \in ToSet(r.sections["key_findings"]) : s.kind = "fact" /\ s.cites # {}
Exhausted == {q \in Subqs : plan[q] = "exhausted"}
G1(r) ==
    {Violation("G1", TRUE, None, k) :
        k \in (Required \cup (IF Exhausted = {} THEN {} ELSE {"known_gaps"})) \ DOMAIN r.sections}
    \cup (IF "key_findings" \in DOMAIN r.sections /\ ~Supported(r)
          THEN {Violation("insufficient", TRUE, None, None)} ELSE {})
G2(r) == Flag("G2", TRUE, {e \in Entries(r) : e.s.kind = "fact" /\ e.s.cites = {}})
G3(r) == Flag("G3", TRUE, {e \in Entries(r) : e.s.kind = "fact" /\ ~(e.s.cites \subseteq DOMAIN ledger)})
         \cup (IF r.sources = CitedDocs(r.sections) THEN {} ELSE {Violation("sources", TRUE, None, None)})
(* g4_numbers: a figure of the question is allowed, one of the cited findings    *)
(* exactly, another one within tolerance; what the ledger can count is counted.  *)
Support(s) == UNION {ledger[k].figures : k \in Cited(s)}
Tolerant == [relative |-> Percent, points |-> Points, days |-> Days]
Checked(s) == IF s.kind = "meta" THEN {}
              ELSE {q \in States(s).figures : ~MatchesAny(q, Asked, Exactly) /\ ~MatchesAny(q, Support(s), Exactly)}
(* _ledger_expected; the numbers of searches and of contradictions, counted like *)
(* that of the subquestions, are left out.  A zero is read as minus one.         *)
LedgerExpected(r, s, noun) ==
    IF noun = "finding" THEN {Len(ledger), Cardinality(Cited(s))}
    ELSE IF noun = "subquestion" THEN {Questions}
    ELSE IF Cited(s) = {} THEN {Cardinality(r.sources)}
    ELSE {Cardinality(UNION {ledger[k].docs : k \in Cited(s)}), Cardinality(UNION {ledger[k].origins : k \in Cited(s)})}
Counted(c) == [kind |-> "number", unit |-> None, values |-> {1000 * c[2]}, step |-> 1000]
Miscounts(r, s) ==
    {c \in States(s).counts : /\ ~MatchesAny(Counted(c), Asked, Exactly)
                              /\ (IF c[2] = 0 THEN -1 ELSE c[2]) \notin LedgerExpected(r, s, c[1])}
Misstates(r, s) == \/ \E q \in Checked(s) : ~MatchesAny(q, Support(s), Tolerant)
                   \/ s.kind # "meta" /\ Miscounts(r, s) # {}
G4(r) == Flag("G4", TRUE, {e \in Entries(r) : Misstates(r, e.s)})
         \cup Flag("approximate", FALSE,
                   {e \in Entries(r) : \E q \in Checked(e.s) : MatchesAny(q, Support(e.s), Tolerant)})
G5(r) == Flag("G5", FALSE, {e \in Entries(r) :
            /\ e.s.kind = "fact" /\ e.in # "conflicting" /\ Uncertain \notin e.s.labels
            /\ \E c \in Cited(e.s) : ledger[c].status = "contested"})
G6(r) == Flag("G6", FALSE, {e \in Entries(r) :
            /\ e.s.kind = "fact" /\ Cited(e.s) # {} /\ SingleSource \notin e.s.labels
            /\ \A c \in Cited(e.s) : ledger[c].status = "single_source"})
G7(r) == LET listed == IF "known_gaps" \in DOMAIN r.sections
                       THEN UNION {s.labels : s \in ToSet(r.sections["known_gaps"])} ELSE {}
         IN {Violation("G7", TRUE, None, q) : q \in {e \in Exhausted : GapLabel(e) \notin listed}}
G9(r) == Flag("G9", TRUE, {e \in Entries(r) : Secret(e.s)})
G10(r) == IF r.foreign /\ \E s \in SentencesOf(r.sections) : s.kind # "meta"
          THEN {Violation("G10", FALSE, None, None)} ELSE {}
G11(r) == Flag("G11", TRUE, {e \in Entries(r) : e.s.kind = "recommendation" /\ Cited(e.s) = {}})
G12(r) == Flag("G12", TRUE, {e \in Entries(r) : \E c \in Cited(e.s) : ledger[c].stale})

Evaluate(r) == UNION {G1(r), G2(r), G3(r), G4(r), G5(r), G6(r), G7(r), G9(r), G10(r), G11(r), G12(r)}

(* review_evidence: H2 to H4 on the candidate claims, H5 on publishers and H6 on *)
(* the integrity of the report before the gate; those that warn.                 *)
Lone(k) == Cardinality(ledger[k].origins) < 2
Warns == [H2 |-> "held" \in candidates, H3 |-> "rejected" \in candidates,
          H4 |-> "unscoped" \in candidates,
          H5 |-> \E s \in SentencesOf(report.sections) : \E k \in Cited(s) : Lone(k),
          H6 |-> G2(report) \cup G3(report) \cup G4(report) # {}]
(* parse_number gives a numeral like 1.234.5 no reading and _build takes the     *)
(* first: rule G4, in H6 or in the gate, raises on the text of a sentence that   *)
(* has one, and on the claims it cites once it looks for a quantity in them.     *)
Readable(r) == \A s \in SentencesOf(r.sections) : s.kind # "meta" =>
    /\ States(s).readable
    /\ (\E q \in States(s).figures : ~MatchesAny(q, Asked, Exactly)) => \A k \in Cited(s) : ledger[k].readable
Review ==
    /\ Enter("review")
    /\ IF Readable(report)
       THEN checks' = {h \in DOMAIN Warns : Warns[h]} /\ phase' = "gate"
       ELSE phase' = "raised" /\ UNCHANGED checks
    /\ UNCHANGED <<report, verify, rewritten, gate>>

-----------------------------------------------------------------------------
(* _remediate: every violation of the round acts on the sentence at its address; *)
(* the sentences to drop leave together, then the source list is rebuilt.        *)
\* Mutant: a fact that loses its citations stays.
ToDrop_KeepsEmptied(r, found, at) ==
    \E v \in found : v.at = at /\ v.rule \in {"G2", "G4", "G11", "G12"}
ToDrop(r, found, at) ==
    LET s == At(r.sections, at) IN
    \E v \in found : v.at = at /\ \/ v.rule \in {"G2", "G4", "G11", "G12"}
                                  \/ v.rule = "G3" /\ s.kind = "fact" /\ Cited(s) = {}

Mended(s, rules) ==
    [s EXCEPT !.cites = IF "G3" \in rules THEN Cited(s) ELSE @,
              !.masked = IF "G9" \in rules THEN @ + 1 ELSE @,
              !.labels = @ \cup (IF "approximate" \in rules THEN {Approximate} ELSE {})
                           \cup (IF "G5" \in rules THEN {Uncertain} ELSE {})
                           \cup (IF "G6" \in rules THEN {SingleSource} ELSE {})]

Remediated(r, found) ==
    LET added == {v.what : v \in {w \in found : w.rule = "G1"}}
        gaps == InOrder({q \in Subqs : \E v \in found : v.rule = "G7" /\ v.what = q})
        notes == [i \in DOMAIN gaps |-> Meta({GapLabel(gaps[i])})]
        rules(at) == {v.rule : v \in {w \in found : w.at = at}}
        mended(k) == IF k \in added THEN <<Meta({})>>
                     ELSE Keeping([i \in DOMAIN r.sections[k] |-> Mended(r.sections[k][i], rules(<<k, i>>))],
                                  {i \in DOMAIN r.sections[k] : ~ToDrop(r, found, <<k, i>>)})
    IN WithSources([r EXCEPT !.sections =
          [k \in DOMAIN @ \cup added |-> IF k = "known_gaps" THEN mended(k) \o notes ELSE mended(k)]])

Dropped(r, found) == Cardinality({at \in Addresses(r.sections) : ToDrop(r, found, at)})

(* run_gate opens: zero rounds is report-only, else Known Gaps is there for an   *)
(* exhausted subquestion; the rules are evaluated on a copy.                     *)
OpenGate ==
    /\ Enter("gate")
    /\ LET bare == limit > 0 /\ Exhausted # {} /\ "known_gaps" \notin DOMAIN report.sections
           copy == [report EXCEPT !.sections =
                       [k \in IF bare THEN DOMAIN @ \cup {"known_gaps"} ELSE DOMAIN @ |->
                           IF k \in DOMAIN @ THEN @[k] ELSE <<>>]]
       IN gate' = [NoGate EXCEPT !.working = copy, !.initial = Evaluate(copy), !.left = Evaluate(copy)]
    /\ phase' = "remediate"
    /\ UNCHANGED <<report, verify, rewritten, checks>>

Remediable == {v \in gate.left : v.rule # "insufficient"}
MoreRounds == gate.rounds < limit /\ Remediable # {}

\* Mutant: the rounds do not add up.
Remediate_LastRoundCounts ==
    /\ Enter("remediate") /\ MoreRounds
    /\ LET next == Remediated(gate.working, Remediable) IN
       IF Readable(next)
       THEN /\ gate' = [gate EXCEPT !.working = next, !.left = Evaluate(next), !.rounds = @ + 1,
                                    !.removed = Dropped(gate.working, Remediable)]
            /\ UNCHANGED phase
       ELSE phase' = "raised" /\ UNCHANGED gate
    /\ UNCHANGED <<report, verify, rewritten, checks>>
Remediate ==
    /\ Enter("remediate") /\ MoreRounds
    /\ LET next == Remediated(gate.working, Remediable) IN
       IF Readable(next)
       THEN /\ gate' = [gate EXCEPT !.working = next, !.left = Evaluate(next), !.rounds = @ + 1,
                                    !.removed = @ + Dropped(gate.working, Remediable)]
            /\ UNCHANGED phase
       ELSE phase' = "raised" /\ UNCHANGED gate
    /\ UNCHANGED <<report, verify, rewritten, checks>>

(* The verdict, and the note that says how many sentences were removed.          *)
Announced(r, n) ==
    IF n = 0 THEN r
    ELSE [r EXCEPT !.sections = [k \in DOMAIN @ \cup {"summary"} |->
             IF k = "summary" THEN Append(IF k \in DOMAIN @ THEN @[k] ELSE <<>>, Meta({Removal(n)})) ELSE @[k]]]
Verdict ==
    IF \E v \in gate.left : v.error THEN "fail"
    ELSE IF gate.initial \cup gate.left # {} \/ gate.removed > 0 THEN "pass_with_warnings" ELSE "pass"

Deliver ==
    /\ Enter("remediate") /\ ~MoreRounds
    /\ gate' = [gate EXCEPT !.working = Announced(@, gate.removed), !.verdict = Verdict]
    /\ phase' = "done"
    /\ UNCHANGED <<report, verify, rewritten, checks>>

Done == phase \in {"done", "raised"}
Next ==
    \/ Synthesize \/ \E b \in DOMAIN verify.batches : AskVerifier(b)
    \/ Rewrite \/ Withhold \/ Review \/ OpenGate \/ Remediate \/ Deliver
    \/ Done /\ UNCHANGED vars

(* The nodes are called in turn and no call is left unanswered: weak fairness of *)
(* Next, written with its guard.  Until the report is delivered or a node raises *)
(* a step is always enabled; ENABLED would make TLC write every draft once more. *)
Spec == Init /\ [][Next]_vars /\ ([]<>Done \/ []<><<Next>>_vars)

-----------------------------------------------------------------------------
(* What is delivered.                                                            *)
Delivered == gate.working.sections

(* Verification fails closed (README, section 5): a report of the model leaves   *)
(* the verifier with sentences whose support was affirmed, each judged in the    *)
(* draft it stands in; a list of the ledger keeps every finding that applies, up *)
(* to the thirty it has room for.                                                *)
OnlyVerifiedIsKept ==
    phase = "review" =>
        IF report.fallback
        THEN \A k \in ToSet(Leading(MaxListed) \o Applying(TRUE)) :
                \E s \in SentencesOf([j \in {"key_findings", "conflicting"} |-> report.sections[j]]) : k \in s.cites
        ELSE \A s \in SentencesOf(report.sections) : s.kind # "meta" /\ s.cites # {} =>
                /\ s.id[1] = IF rewritten THEN 2 ELSE 1
                /\ <<s.id[2], s.id[3]>> \in verify.checked \ verify.unsupported

(* What remediation cannot repair: a report fails only when no cited finding that*)
(* applies is left, or when a sentence that was masked in every round the setting*)
(* allows is still sensitive or states, since its masking, a number no cited     *)
(* finding supports.  Every other fix makes no work for another one.             *)
FailsOnlyWithoutFindings ==
    phase = "done" /\ limit > 0 =>
        (gate.verdict = "fail" <=>
            \/ ~\E s \in ToSet(Delivered["key_findings"]) :
                    s.kind = "fact" /\ Cited(s) # {} /\ \A k \in Cited(s) : ~ledger[k].stale
            \/ \E s \in SentencesOf(Delivered) :
                    s.masked = limit /\ (Secret(s) \/ Misstates(gate.working, s)))

(* "Whenever a sentence was removed, the report says how many": over all rounds, *)
(* and what is delivered lists the sources of what is left, no more and no less. *)
RemovalsAnnounced ==
    phase = "done" =>
        LET facts(sections) == Cardinality({at \in Addresses(sections) : At(sections, at).kind # "meta"})
            lost == facts(report.sections) - facts(Delivered)
        IN /\ lost > 0 <=> \E s \in SentencesOf(Delivered) : Removal(lost) \in s.labels
           /\ gate.working.sources = CitedDocs(Delivered)

(* The report is delivered, also when the model is never available; or the job   *)
(* is raised, because a number in it cannot be read.                             *)
ReportEnds == <>(phase = "done" \/ (phase = "raised" /\ ~Readable(IF gate = NoGate THEN report
                                        ELSE Remediated(gate.working, Remediable))))
=============================================================================
