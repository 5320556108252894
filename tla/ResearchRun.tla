------------------------------ MODULE ResearchRun ------------------------------
(* The research graph in a service that crashes: attempts of one run, each under *)
(* the lease of its dispatch, that write a checkpoint after every node, in the   *)
(* background and behind a row lock, and take over from the last one written.    *)
(* Which attempts are dispatched and when a lease is revoked is RunLifecycle.    *)
EXTENDS ResearchGraph

CONSTANTS
    Supplied,     \* providers create_run has a key for, of the request or of its own environment
    Environment,  \* providers the environment of the agent has a key or an address for
    Picked,       \* providers of the models the settings select
    MaxAttempts,  \* max_attempts of the run contract
    MaxUnsaved    \* bound: checkpoints a worker may have waiting to be written

Provider == {"gemini", "openai", "tavily", "brave", "ollama"}

ASSUME AttemptsAssumption == MaxAttempts \in Nat \ {0} /\ MaxUnsaved \in Nat
ASSUME KeysAssumption == Supplied \cup Environment \subseteq Provider

VARIABLES
    lease,    \* the attempt that holds the lease
    worker,   \* its process: phase, graph state, meter.searches, checkpoints to write
    writing,  \* per attempt, the checkpoint its transaction is writing, if any
    saved,    \* the last checkpoint of the run, if any
    billed,   \* history: searches that were really made
    outcome   \* "open", or the status the run ended with

Attempts == 1..MaxAttempts
vars == <<lease, worker, writing, saved, billed, outcome>>

(* build_deps: a process starts with a meter, gateways and a cache of its own.   *)
NewMeter   == 0
Dispatched == [phase |-> "dispatched", st |-> None, meter |-> NewMeter, unsaved |-> <<>>]
Dead       == [Dispatched EXCEPT !.phase = "dead"]

Init ==
    /\ lease = 1 /\ worker = Dispatched
    /\ writing = [a \in Attempts |-> {}] /\ saved = {}
    /\ billed = 0 /\ outcome = "open"

(* create_run stores the keys but not the address of a local server; load_secrets *)
(* finds them, or none when the request has not stored them yet or was cut off    *)
(* before it did, and fills the gaps from the environment of the agent.           *)
Encrypted == Supplied \ {"ollama"}
Loaded == {stored \cup Environment : stored \in {{}, Encrypted}}

(* build_llm_providers, build_search_providers: what an attempt has to work with *)
(* depends also on whether the local server answers when it starts.              *)
LlmProviders(keys, alive) ==
    keys \cap ({"gemini", "openai"} \cup (IF alive THEN {"ollama"} ELSE {}))
SearchProviders(keys) == keys \cap {"tavily", "brave"}
Ready(keys, alive) ==
    /\ Picked \subseteq LlmProviders(keys, alive)
    /\ LlmProviders(keys, alive) # {} /\ SearchProviders(keys) # {}

(* preflight: an attempt that cannot work fails the run, resumed or not.         *)
FailPreflight ==
    /\ outcome = "open" /\ worker.phase = "dispatched"
    /\ \E keys \in Loaded, alive \in BOOLEAN : ~Ready(keys, alive)
    /\ outcome' = "failed" /\ worker' = Dead
    /\ UNCHANGED <<lease, writing, saved, billed>>

(* execute(): a first attempt, or one that finds no checkpoint, starts afresh; a *)
(* completed graph is settled as it is; otherwise the next node is run.          *)
Begin ==
    /\ outcome = "open" /\ worker.phase = "dispatched"
    /\ \E keys \in Loaded, alive \in BOOLEAN : Ready(keys, alive)
    /\ \/ /\ lease = 1 \/ saved = {}
          /\ worker' = [worker EXCEPT !.phase = "working", !.st = InitialState, !.unsaved = <<InitialState>>]
       \/ /\ lease > 1
          /\ \E st \in saved :
                worker' = [worker EXCEPT !.phase = "working", !.st = st,
                                         !.meter = IF st.node = "END" THEN st.searches ELSE 0]
    /\ UNCHANGED <<lease, writing, saved, billed, outcome>>

\* Mutant: the meter of a new process starts at zero.
Metered_Fresh(st, meter) == [st EXCEPT !.searches = meter]
(* _wrap: a meter that counts nothing yet is restored from the checkpoint.       *)
Metered(st, meter) == [st EXCEPT !.searches = IF meter = 0 THEN @ ELSE meter]

MayRun ==
    /\ outcome = "open" /\ worker.phase = "working" /\ worker.st.node # "END"
    /\ Len(worker.unsaved) <= MaxUnsaved
RunNode ==
    /\ MayRun
    /\ LET entered == Metered(worker.st, worker.meter) IN
       \E next \in Outcomes(entered) :
          /\ worker' = [worker EXCEPT !.st = next, !.meter = next.searches, !.unsaved = Append(@, next)]
          /\ billed' = billed + (next.searches - entered.searches)
    /\ UNCHANGED <<lease, writing, saved, outcome>>

(* _cursor: SELECT ... FOR SHARE finds the row of this lease, then the write and *)
(* its commit.  A worker whose lease is gone finds no row, now or later.         *)
LockRow ==
    /\ outcome = "open" /\ worker.phase = "working" /\ worker.unsaved # <<>> /\ writing[lease] = {}
    /\ writing' = [writing EXCEPT ![lease] = {Head(worker.unsaved)}]
    /\ worker' = [worker EXCEPT !.unsaved = Tail(@)]
    /\ UNCHANGED <<lease, saved, billed, outcome>>

CommitCheckpoint ==
    \E a \in Attempts :
        /\ writing[a] # {}
        /\ saved' = writing[a] /\ writing' = [writing EXCEPT ![a] = {}]
        /\ UNCHANGED <<lease, worker, billed, outcome>>

(* The graph has returned and its checkpoints are written: the run is finished.  *)
OutcomeStatus(st) ==
    IF st.gate = "pass" /\ st.stop = "sufficient" THEN "succeeded" ELSE "succeeded_with_warnings"
\* Mutant: a report that fails its gate is not settled.
Finish_OnlyPassed ==
    /\ outcome = "open" /\ worker.phase = "working" /\ worker.st.node = "END"
    /\ worker.unsaved = <<>> /\ writing[lease] = {} /\ worker.st.gate # "fail"
    /\ outcome' = OutcomeStatus(worker.st)
    /\ worker' = Dead
    /\ UNCHANGED <<lease, writing, saved, billed>>
Finish ==
    /\ outcome = "open" /\ worker.phase = "working" /\ worker.st.node = "END"
    /\ worker.unsaved = <<>> /\ writing[lease] = {}
    /\ outcome' = OutcomeStatus(worker.st)
    /\ worker' = Dead
    /\ UNCHANGED <<lease, writing, saved, billed>>

(* Searches that a node had made when its process was lost: none, all of them or *)
(* any number between.                                                           *)
UnderWay ==
    IF worker.phase = "working" /\ worker.st.node = "search"
    THEN UNION {0..n : n \in Charges(Metered(worker.st, worker.meter))} ELSE {0}

(* A node raises: every key is rejected, or the run is cancelled.                *)
Raise ==
    /\ outcome = "open" /\ worker.phase = "working" /\ worker.st.node # "END" /\ writing[lease] = {}
    /\ outcome' = "failed" /\ worker' = Dead
    /\ \E n \in UnderWay : billed' = billed + n
    /\ UNCHANGED <<lease, writing, saved>>

(* The process dies, and with it what it had not written.                        *)
Crash ==
    /\ outcome = "open" /\ worker.phase # "dead"
    /\ worker' = Dead /\ writing' = [writing EXCEPT ![lease] = {}]
    /\ \E n \in UnderWay : billed' = billed + n
    /\ UNCHANGED <<lease, saved, outcome>>

(* The watchdog takes the lease from a dead process, or from one it wrongly      *)
(* believes dead.  Its UPDATE waits for a transaction that holds the row.        *)
\* Mutant: the ownership check takes no row lock.
RowFree_NoLock == TRUE
RowFree == \A a \in Attempts : writing[a] = {}
Redispatch ==
    /\ outcome = "open" /\ RowFree
    /\ IF lease < MaxAttempts
       THEN lease' = lease + 1 /\ worker' = Dispatched /\ UNCHANGED outcome
       ELSE outcome' = "failed" /\ worker' = Dead /\ UNCHANGED lease
    /\ UNCHANGED <<writing, saved>>
Recover == worker.phase = "dead" /\ Redispatch /\ UNCHANGED billed
Suspect == worker.phase # "dead" /\ Redispatch /\ \E n \in UnderWay : billed' = billed + n

Ended == outcome # "open" /\ RowFree
Next ==
    \/ FailPreflight \/ Begin \/ RunNode \/ LockRow \/ CommitCheckpoint \/ Finish
    \/ Raise \/ Crash \/ Recover \/ Suspect
    \/ Ended /\ UNCHANGED vars

(* Nodes return, transactions commit, and the watchdog visits a dead run.  The   *)
(* weak fairness of RunNode is written with its guard, for every node has an     *)
(* outcome: ENABLED would make TLC run the node once more.                       *)
Spec == /\ Init /\ [][Next]_vars
        /\ WF_vars(FailPreflight \/ Begin \/ LockRow \/ CommitCheckpoint \/ Finish \/ Recover)
        /\ ([]<>~MayRun \/ []<><<RunNode>>_vars)

-----------------------------------------------------------------------------
States == saved \cup (UNION {writing[a] : a \in Attempts}) \cup ({worker.st} \ {None})
Assessed == {st \in States : st.node = "synthesize"}

(* Finished nodes stay finished: whoever loses the lease, and however late its   *)
(* last write, the checkpoint of the run never goes back.                        *)
ProgressKept == [][\A st \in saved : \E new \in saved' : StepsTaken(new) >= StepsTaken(st)]_vars

(* What the meter of a resumed run does not count is what its crashes lost, and  *)
(* a crash loses at most the searches of one round.                              *)
RoundWidth == 2 * Max({MaxSubquestions * PerFirstRound, PerFollowup})
LostChargesBounded ==
    worker.phase = "working" => billed - worker.st.searches <= (lease - 1) * RoundWidth

(* The graph ends before LangGraph's limit of steps, whatever the rounds bring.  *)
NeverHitsRecursionLimit == \A st \in States : StepsTaken(st) <= RecursionLimit

(* A facet counts as sufficient only for evidence that is in date: a finding of  *)
(* a primary source, or supported claims of different sites, texts and speakers. *)
Evidence(st, s) == {c \in st.supported : st.subq[c] = s /\ ~Catalog[c].stale}
Quotes(st, d) == {Catalog[c].quote : c \in {e \in st.supported : Catalog[e].doc = d}} \ {None}
OneText(st, d, e) == \/ Docs[d].origin = Docs[e].origin
                     \/ Cardinality(Quotes(st, d) \cap Quotes(st, e)) >= MinSharedQuotes
SufficiencyIsEarned ==
    \A st \in Assessed : \A s \in DOMAIN st.plan :
        "sufficient" \in ToSet(st.plan[s].facets) =>
            \/ \E c \in Evidence(st, s) : Docs[Catalog[c].doc].primary
            \/ \E c, d \in Evidence(st, s) :
                  /\ Docs[Catalog[c].doc].site # Docs[Catalog[d].doc].site
                  /\ ~OneText(st, Catalog[c].doc, Catalog[d].doc)
                  /\ Catalog[c].speaker = None \/ Catalog[c].speaker # Catalog[d].speaker

(* The run ends, after crashes and whatever the model answers.                   *)
ResearchEnds == <>(outcome # "open")

(* README: "claims with different values are never merged".                      *)
DifferentValuesNeverMerged ==
    \A st \in States : \A k \in DOMAIN st.clusters :
        \A c, d \in st.clusters[k].claims : ~ValuesConflict(c, d)
=============================================================================
