----------------------------- MODULE RunLifecycle -----------------------------
(***************************************************************************)
(* The api, the dispatchers and the agent replicas around the runs table:  *)
(* the whole life of a run, from its creation to its one terminal status.  *)
(***************************************************************************)
EXTENDS Dispatcher, RunApi

vars == <<tableVars, agentVars, dispatcherVars, apiVars>>

Init == TableInit /\ AgentInit /\ DispatcherInit /\ ApiInit

TimePasses == Tick /\ UNCHANGED <<agentVars, dispatcherVars, apiVars>>
Network == LoseCall /\ UNCHANGED <<dispatcherVars, apiVars>>
Agent(a) == AgentStep(a) /\ UNCHANGED <<dispatcherVars, apiVars>>
Control(d) == DispatcherStep(d) /\ UNCHANGED apiVars
Api     == ApiStep /\ UNCHANGED <<agentVars, dispatcherVars>>

Next ==
    \/ TimePasses \/ Network \/ Api
    \/ \E a \in Agents : Agent(a)
    \/ \E d \in Dispatchers : Control(d)

Spec == Init /\ [][Next]_vars

\* Time passes and every dispatcher that is up keeps running its watchdog.
\* Nothing is assumed of the agents, of the dispatch loop or of the api.
FairSpec ==
    /\ Spec
    /\ WF_vars(TimePasses)
    /\ \A d \in Dispatchers : WF_vars(WatchStep(d) /\ UNCHANGED apiVars)

------------------------------------------------------------------------------
\* Every variable has its type.
TypeOK ==
    /\ now \in Nat
    /\ runs \in [Runs -> Row]
    /\ calls \in SUBSET Call
    /\ conn \in [Dispatchers -> Conn]
    /\ accepting \in [Agents -> SUBSET Accepted]
    /\ tasks \in [Agents -> [Runs -> Task]]
    /\ draining \in [Agents -> BOOLEAN]
    /\ starts \in [Runs -> Nat]
    /\ faults \in Nat
    /\ loop \in [Dispatchers -> Loop]
    /\ DOMAIN watch = Dispatchers /\ \A d \in Dispatchers : IsPass(watch[d])
    /\ creating \in SUBSET Runs
    /\ cancelling \in [Runs -> CancelPhases]

(***************************************************************************)
(* The retry budget bounds paid work: a run is started by an agent at most *)
(* MaxAttempts times, although ReturnUnstarted gives attempts back and an  *)
(* agent may start a run whose dispatcher believes nobody took it.         *)
(***************************************************************************)
RetryBudget ==
    \A r \in Runs : starts[r] <= MaxAttempts /\ runs[r].attempts <= MaxAttempts

(***************************************************************************)
(* research.execute resumes from the checkpoint only when attempt > 1, so  *)
(* a run that was ever started must never be claimed as attempt 1 again:   *)
(* that would throw its checkpoint away and pay for the research twice.    *)
(***************************************************************************)
ResumedNotRestarted ==
    \A r \in Runs :
        runs[r].status = "dispatched" /\ runs[r].attempts = 1 => starts[r] = 0

(***************************************************************************)
(* At most one background task, over all replicas, holds the current lease *)
(* of a run, even when one claim was offered to several replicas and late  *)
(* requests are handled after the dispatcher moved on.                     *)
(***************************************************************************)
SingleOwner ==
    \A r \in Runs : \A a, b \in Agents :
        /\ tasks[a][r] # NoTask /\ tasks[a][r].lease = runs[r].lease
        /\ tasks[b][r] # NoTask /\ tasks[b][r].lease = runs[r].lease
        => a = b

\* A replica never executes more runs than it has slots, whichever requests it
\* is handling at once (the accept lock of RunExecutor.execute).
SlotsRespected == \A a \in Agents : Cardinality(Executing(a)) <= Slots

\* config/dispatcher.yaml max_concurrent_runs, "across all agent replicas".
GlobalLimit == Cardinality(ActiveRuns) <= MaxConcurrentRuns

(***************************************************************************)
(* A result is committed only by the task that owns the run when it is     *)
(* committed: a worker whose lease was revoked, and which computed its     *)
(* outcome before it noticed, cannot settle the run of its successor.      *)
(***************************************************************************)
OutcomeOfOwner ==
    [][\A r \in Runs :
          /\ runs[r].status \notin Terminal
          /\ runs'[r].status \in {"succeeded", "succeeded_with_warnings"}
          => \E a \in Agents : /\ tasks[a][r].lease = runs[r].lease
                               /\ tasks[a][r].outcome = runs'[r].status]_vars

\* A settled run stays as it was settled, whoever is still acting on it: the
\* api's cancel, a watchdog pass over old rows, a late agent.
SettledOnce ==
    [][\A r \in Runs : runs[r].status \in Terminal
                          => runs'[r].status = runs[r].status]_vars

\* The deadline fixed by the first claim bounds the run, not the attempt:
\* requeues, further claims and mark_running's write-back leave it alone.
DeadlineKept ==
    [][\A r \in Runs : runs[r].deadline_at # None
                          => runs'[r].deadline_at = runs[r].deadline_at]_vars

\* The watchdog decides on rows it read earlier; still it never requeues a
\* running run whose agent has heartbeated within the timeout.
LiveAgentKeepsRun ==
    [][\A r \in Runs :
          runs[r].status = "running" /\ runs'[r].status = "queued"
             => OlderThan(runs[r].heartbeat_at, now, HeartbeatTimeout)]_vars

(***************************************************************************)
(* "Whatever the agent does, a run cannot outlive its deadline": once a    *)
(* run has a deadline (and the horizon reaches past it and the grace), the *)
(* watchdog alone gets it settled, with no help from agents or queue.      *)
(***************************************************************************)
DeadlineEnforced ==
    \A r \in Runs :
        (runs[r].deadline_at # None /\ runs[r].deadline_at + CancelGrace < MaxNow)
            ~> runs[r].status \in Terminal

\* The lifecycle implements what the services promise about a run.
Promise == INSTANCE RunPromise WITH
    status  <- [r \in Runs |-> runs[r].status],
    started <- starts
ImplementsPromise == Promise!Spec

------------------------------------------------------------------------------
(* Why it holds: the inductive invariant. *)

\* A lease that was handed out for the run.
Issued(r, lease) == NoLease < lease /\ lease <= runs[r].minted

\* A row against the number of times its run was started.
RowConsistent(row, started) ==
    /\ row.attempts <= MaxAttempts
    /\ row.lease <= row.minted
    /\ started <= row.attempts
    /\ row.status = Absent
          => row.minted = 0 /\ row.attempts = 0 /\ row.deadline_at = None
    /\ row.status = "queued" => row.lease = NoLease /\ row.attempts < MaxAttempts
    /\ row.status \in Active => NoLease < row.lease /\ row.lease = row.minted
    /\ row.status = "dispatched" => started < row.attempts

(***************************************************************************)
(* Each start is paid for by a claim of its own: a row still dispatched    *)
(* has one attempt more than it had starts (the only attempt that may be   *)
(* given back), and a queued one has an attempt left to be claimed with.   *)
(***************************************************************************)
RowsConsistent == \A r \in Runs : RowConsistent(runs[r], starts[r])

\* Every lease in flight was issued for its run, and no task exists yet under
\* the lease of a row that is still waiting to be started.
CallsIssued     == \A c \in calls : Issued(c.run, c.lease)
AcceptingIssued ==
    \A a \in Agents : \A req \in accepting[a] : Issued(req.call.run, req.call.lease)
OffersIssued    ==
    \A d \in Dispatchers :
        loop[d].phase \in Offering
           => loop[d].run \in Runs /\ Issued(loop[d].run, loop[d].lease)
TasksIssued     ==
    \A a \in Agents, r \in Runs :
        tasks[a][r] # NoTask
           => /\ Issued(r, tasks[a][r].lease)
              /\ ~Unstarted(runs[r], tasks[a][r].lease)
LeasesIssued == CallsIssued /\ AcceptingIssued /\ OffersIssued /\ TasksIssued

\* What the watchdog saw of a row is old, but its lease tells whether it is
\* stale: under the same lease the attempts are still those it saw.
SeenConsistent(seen, row) ==
    /\ seen.lease <= row.minted
    /\ seen.status \in Active => NoLease < seen.lease
    /\ NoLease < seen.lease /\ seen.lease = row.lease => seen.attempts = row.attempts

RequeueJustified(seen) ==
    /\ seen.status \in Active
    /\ seen.attempts < MaxAttempts
    /\ seen.status = "running" => OlderThan(seen.heartbeat_at, now, HeartbeatTimeout)

PassConsistent(pass) ==
    /\ pass.decided => DOMAIN pass.verdict = DOMAIN pass.seen
    /\ \A r \in DOMAIN pass.seen :
          /\ SeenConsistent(pass.seen[r], runs[r])
          /\ pass.decided /\ pass.verdict[r].kind = "requeue"
                => RequeueJustified(pass.seen[r])

WatchConsistent == \A d \in Dispatchers : PassConsistent(watch[d])

IInv == TypeOK /\ RowsConsistent /\ LeasesIssued /\ WatchConsistent /\ SingleOwner
==============================================================================
