------------------------------ MODULE AgentServer ------------------------------
(***************************************************************************)
(* The agent replicas (agent_server/executor.py, agent_server/app.py):     *)
(* a replica accepts a claimed run, executes it in a background task that  *)
(* heartbeats and commits its terminal status, and may drain or crash.     *)
(*                                                                         *)
(* A POST /execute is a record in `calls` until a handler takes it up,     *)
(* which may be long after the dispatcher closed its connection, or never. *)
(***************************************************************************)
EXTENDS RunTable

CONSTANTS
    Agents,       \* replicas
    Dispatchers,  \* dispatcher processes
    Slots,        \* runs one replica executes at a time
    MaxFaults     \* bound: shutdowns, crashes and failed watchdog writes

ASSUME AgentAssumption == Slots \in Nat \ {0} /\ MaxFaults \in Nat

VARIABLES
    calls,      \* POST /execute requests no handler has taken up
    conn,       \* dispatcher -> its open connection and the answer on it
    accepting,  \* replica -> requests inside its accept lock, with what they read
    tasks,      \* replica -> run -> its background task
    draining,   \* replica -> it stopped accepting work
    starts,     \* history: run -> times a replica marked it running
    faults      \* shutdowns, crashes and failed watchdog writes so far

agentVars == <<calls, conn, accepting, tasks, draining, starts, faults>>

Call    == [by : Dispatchers, to : Agents, run : Runs, lease : Nat, attempt : Nat]
Accepted == [call : Call, deadline : Time]
Answers == {"none", "accepted", "conflict", "refused"}
Conn    == [call : Call \cup {None}, answer : Answers]
Closed  == [call |-> None, answer |-> "none"]

\* `outcome` is what the task will settle the run with, once it knows.
Undecided == "none"
Task      == [lease : Nat, outcome : Terminal \cup {Undecided}]
NoTask    == [lease |-> NoLease, outcome |-> Undecided]

AgentInit ==
    /\ calls = {}
    /\ conn = [d \in Dispatchers |-> Closed]
    /\ accepting = [a \in Agents |-> {}]
    /\ tasks = [a \in Agents |-> [r \in Runs |-> NoTask]]
    /\ draining = [a \in Agents |-> FALSE]
    /\ starts = [r \in Runs |-> 0]
    /\ faults = 0

Executing(a) == {r \in Runs : tasks[a][r] # NoTask}

\* RunExecutor.slots_free.
SlotsFree(a) ==
    IF draining[a] \/ Cardinality(Executing(a)) > Slots
    THEN 0 ELSE Slots - Cardinality(Executing(a))

SetTask(a, r, task) == tasks' = [tasks EXCEPT ![a][r] = task]

\* The HTTP answer; it goes nowhere when the caller has given up.
Answer(c, answer) ==
    conn' = IF conn[c.by].call = c
            THEN [conn EXCEPT ![c.by].answer = answer] ELSE conn

Pending(a) == {c \in calls : c.to = a}

------------------------------------------------------------------------------
(* Accepting a run: RunExecutor.execute. *)

LockFree(a) == accepting[a] = {}

\* The request's attempt and lease must be the row's.
Matches(c, row) == row.attempts = c.attempt /\ row.lease = c.lease

\* The checks that precede the write.
Passes(a, c) ==
    /\ tasks[a][c.run] = NoTask
    /\ SlotsFree(a) > 0
    /\ Matches(c, runs[c.run])

\* The request enters with the deadline of the row it has just read.
Takes(a, c) ==
    accepting' = [accepting EXCEPT
                     ![a] = @ \cup {[call |-> c, deadline |-> runs[c.run].deadline_at]}]

\* Mutant: without the accept lock two requests pass the slot check together.
AcceptRead_NoLock(a) ==
    \E c \in Pending(a) :
        /\ Passes(a, c)
        /\ calls' = calls \ {c}
        /\ Takes(a, c)
        /\ UNCHANGED <<tableVars, conn, tasks, draining, starts, faults>>

\* The lock is taken and the checks pass against the row as read now; the
\* transition that follows reads the row again.
AcceptRead(a) ==
    \E c \in Pending(a) :
        /\ LockFree(a) /\ Passes(a, c)
        /\ calls' = calls \ {c}
        /\ Takes(a, c)
        /\ UNCHANGED <<tableVars, conn, tasks, draining, starts, faults>>

\* 409: a task for the run is still in this replica (AlreadyExecutingError), or
\* the request is for a lease that is no longer the row's (LeaseLostError).
RejectConflict(a) ==
    \E c \in Pending(a) :
        /\ LockFree(a)
        /\ \/ tasks[a][c.run] # NoTask
           \/ SlotsFree(a) > 0 /\ ~Matches(c, runs[c.run])
        /\ calls' = calls \ {c}
        /\ Answer(c, "conflict")
        /\ UNCHANGED <<tableVars, accepting, tasks, draining, starts, faults>>

\* 503: NoCapacityError, also what a draining replica answers.
RejectNoCapacity(a) ==
    \E c \in Pending(a) :
        /\ LockFree(a)
        /\ tasks[a][c.run] = NoTask /\ SlotsFree(a) = 0
        /\ calls' = calls \ {c}
        /\ Answer(c, "refused")
        /\ UNCHANGED <<tableVars, accepting, tasks, draining, starts, faults>>

\* mark_running commits; `created` says whether the background task follows.
MarkRunning(a, req, created) ==
    /\ Write(req.call.run, RunningRow(runs[req.call.run], req.deadline))
    /\ starts' = [starts EXCEPT ![req.call.run] = @ + 1]
    /\ accepting' = [accepting EXCEPT ![a] = @ \ {req}]
    /\ IF created
       THEN SetTask(a, req.call.run, [lease |-> req.call.lease, outcome |-> Undecided])
       ELSE UNCHANGED tasks
    /\ UNCHANGED <<calls, draining, faults>>

\* Mutant: mark_running updates the row by id and lease, whatever its status.
AcceptCommit_NoCas(a) ==
    \E req \in accepting[a] :
        /\ runs[req.call.run].lease = req.call.lease
        /\ MarkRunning(a, req, TRUE)
        /\ Answer(req.call, "accepted")

\* The run is this replica's from here, whether or not the answer arrives.
AcceptCommit(a) ==
    \E req \in accepting[a] :
        /\ MayMove(runs[req.call.run], req.call.lease, "running")
        /\ MarkRunning(a, req, TRUE)
        /\ Answer(req.call, "accepted")

\* A database error after the update committed and before the task exists: the
\* handler answers 500 and nobody executes the run.
AcceptFails(a) ==
    \E req \in accepting[a] :
        /\ MayMove(runs[req.call.run], req.call.lease, "running")
        /\ MarkRunning(a, req, FALSE)
        /\ Answer(req.call, "refused")

\* The row moved between the read and the update: LeaseLostError or
\* IllegalTransitionError, answered 409 either way.
AcceptLost(a) ==
    \E req \in accepting[a] :
        /\ ~MayMove(runs[req.call.run], req.call.lease, "running")
        /\ accepting' = [accepting EXCEPT ![a] = @ \ {req}]
        /\ Answer(req.call, "conflict")
        /\ UNCHANGED <<tableVars, calls, tasks, draining, starts, faults>>

------------------------------------------------------------------------------
(* The background task: RunExecutor._execute, _heartbeat and _settle. *)

Working(a, r)  == tasks[a][r] # NoTask /\ tasks[a][r].outcome = Undecided
Settling(a, r) == tasks[a][r] # NoTask /\ tasks[a][r].outcome # Undecided
\* _build_context: what a task calls carries the lease of its own attempt.
Owns(a, r)     == Owned(runs[r], tasks[a][r].lease)

Decides(a, r, outcome) ==
    /\ SetTask(a, r, [tasks[a][r] EXCEPT !.outcome = outcome])
    /\ UNCHANGED <<tableVars, calls, conn, accepting, draining, starts, faults>>

Ends(a, r) ==
    /\ SetTask(a, r, NoTask)
    /\ UNCHANGED <<calls, conn, accepting, draining, starts, faults>>

\* RunRepository.heartbeat, fenced by the lease.
Heartbeat(a, r) ==
    /\ Working(a, r) /\ Owns(a, r)
    /\ Write(r, [runs[r] EXCEPT !.heartbeat_at = now])
    /\ UNCHANGED agentVars

\* Any fenced statement of the attempt (heartbeat, cancel check, event,
\* counters, checkpoint) finds the lease gone: the task ends without a write.
LeaseLost(a, r) ==
    /\ Working(a, r) /\ ~Owns(a, r)
    /\ Ends(a, r)
    /\ UNCHANGED tableVars

\* A node boundary reads the cancel flag; the attempt stops there.
ObserveCancel(a, r) ==
    /\ Working(a, r) /\ Owns(a, r)
    /\ runs[r].cancel_requested
    /\ Decides(a, r, "cancelled")

\* asyncio.timeout: the stored deadline has been reached.
DeadlineFires(a, r) ==
    /\ Working(a, r)
    /\ runs[r].deadline_at # None /\ now >= runs[r].deadline_at
    /\ Decides(a, r, "failed")

\* The graph ended or raised.  The last thing each of those paths does before
\* settling is a fenced write (metadata or the error event).
Complete(a, r) ==
    /\ Working(a, r) /\ Owns(a, r)
    /\ \E outcome \in Terminal \ {"cancelled"} : Decides(a, r, outcome)

\* Mutant: the terminal write is not bound to the attempt's lease.
Settle_Unfenced(a, r) ==
    /\ Settling(a, r)
    /\ IF CanTransition(runs[r].status, tasks[a][r].outcome)
       THEN Write(r, SettledRow(runs[r], tasks[a][r].outcome))
       ELSE UNCHANGED tableVars
    /\ Ends(a, r)

\* RunRepository.finish under the attempt's lease; a superseded terminal write
\* is dropped.  The heartbeat was stopped before this.
Settle(a, r) ==
    /\ Settling(a, r)
    /\ IF MayMove(runs[r], tasks[a][r].lease, tasks[a][r].outcome)
       THEN Write(r, SettledRow(runs[r], tasks[a][r].outcome))
       ELSE UNCHANGED tableVars
    /\ Ends(a, r)

\* The terminal write raised: logged, and the row stays running, unattended.
SettleFails(a, r) ==
    /\ Settling(a, r)
    /\ Ends(a, r)
    /\ UNCHANGED tableVars

------------------------------------------------------------------------------
(* The replica's process and the network. *)

\* SIGTERM: RunExecutor.begin_draining.
BeginDraining(a) ==
    /\ ~draining[a]
    /\ draining' = [draining EXCEPT ![a] = TRUE]
    /\ faults < MaxFaults /\ faults' = faults + 1
    /\ UNCHANGED <<tableVars, calls, conn, accepting, tasks, starts>>

\* The process dies, or the drain's grace period ends, and a fresh one starts;
\* requests it had taken up are never answered.
AgentCrash(a) ==
    /\ \/ draining[a] /\ faults' = faults
       \/ faults < MaxFaults /\ faults' = faults + 1
    /\ accepting' = [accepting EXCEPT ![a] = {}]
    /\ tasks' = [tasks EXCEPT ![a] = [r \in Runs |-> NoTask]]
    /\ draining' = [draining EXCEPT ![a] = FALSE]
    /\ UNCHANGED <<tableVars, calls, conn, starts>>

\* A request is lost on its way.
LoseCall ==
    \E c \in calls :
        /\ calls' = calls \ {c}
        /\ UNCHANGED <<tableVars, conn, accepting, tasks, draining, starts, faults>>

AgentStep(a) ==
    \/ AcceptRead(a) \/ AcceptCommit(a) \/ AcceptLost(a) \/ AcceptFails(a)
    \/ RejectConflict(a) \/ RejectNoCapacity(a)
    \/ BeginDraining(a) \/ AgentCrash(a)
    \/ \E r \in Runs :
          \/ Heartbeat(a, r) \/ LeaseLost(a, r) \/ ObserveCancel(a, r)
          \/ DeadlineFires(a, r) \/ Complete(a, r)
          \/ Settle(a, r) \/ SettleFails(a, r)
==============================================================================
