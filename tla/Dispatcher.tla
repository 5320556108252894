------------------------------ MODULE Dispatcher ------------------------------
(***************************************************************************)
(* The dispatcher (dispatcher/internal/dispatcher, store, capacity): a     *)
(* dispatch loop that claims queued runs and offers them to replicas, and  *)
(* a watchdog loop that settles or requeues what went quiet.  It keeps no  *)
(* run state: a crash loses only where the two loops were.                 *)
(***************************************************************************)
EXTENDS AgentServer, Watchdog, Sequences

CONSTANTS
    MaxConcurrentRuns,  \* capacity.max_concurrent_runs
    BackoffSeconds      \* retry.backoff_seconds

\* Config.Validate, without the periods of the two loops.
Validate ==
    /\ {MaxConcurrentRuns, MaxAttempts, HardDeadline, HeartbeatTimeout, DispatchTimeout} \subseteq Nat \ {0}
    /\ CancelGrace \in Nat /\ BackoffSeconds \in Seq(Nat)

ASSUME DispatcherAssumption == Validate

VARIABLES
    loop,   \* dispatcher -> where its dispatch loop is
    watch   \* dispatcher -> where its watchdog pass is

dispatcherVars == <<loop, watch>>

Offering == {"offer", "waiting", "return"}  \* with a claimed run in hand
Phases   == {"idle", "room", "ranked"} \cup Offering
Loop   == [phase : Phases, run : Runs \cup {None}, lease : Nat, attempt : Nat,
           ranked : SUBSET Agents]
Idle   == [phase |-> "idle", run |-> None, lease |-> NoLease, attempt |-> 0,
           ranked |-> {}]

\* A watchdog pass: the rows Watchlist returned, then a decision on each.
IsPass(pass) ==
    \E some, due \in SUBSET Runs :
        pass \in [decided : BOOLEAN,
                  seen    : [some -> Observation],
                  verdict : [due -> Decision]]
NoRuns == [r \in {} |-> None]
NoPass == [decided |-> FALSE, seen |-> NoRuns, verdict |-> NoRuns]

DispatcherInit ==
    /\ loop = [d \in Dispatchers |-> Idle]
    /\ watch = [d \in Dispatchers |-> NoPass]

\* Config.Backoff: the wait before attempt n.
Backoff(n) ==
    IF n <= 1 \/ Len(BackoffSeconds) = 0 THEN 0
    ELSE BackoffSeconds[IF n - 1 < Len(BackoffSeconds) THEN n - 1
                        ELSE Len(BackoffSeconds)]

Goto(d, next) == loop' = [loop EXCEPT ![d] = next]

------------------------------------------------------------------------------
(* The dispatch loop: Dispatcher.DispatchOnce. *)

\* Mutant: off by one.
HasRoom_OffByOne == Cardinality(ActiveRuns) <= MaxConcurrentRuns

\* capacity.HasRoom on Store.ActiveCount.
HasRoom == Cardinality(ActiveRuns) < MaxConcurrentRuns

\* Store.ActiveCount leaves room; without it the loop sleeps.
CheckRoom(d) ==
    /\ loop[d].phase = "idle"
    /\ HasRoom
    /\ Goto(d, [Idle EXCEPT !.phase = "room"])
    /\ UNCHANGED <<tableVars, agentVars, watch>>

\* survey and capacity.Rank: the replicas that answered with a free slot.  A
\* replica whose health or capacity call failed is not among them.
Survey(d) ==
    /\ loop[d].phase = "room"
    /\ \E ranked \in SUBSET {a \in Agents : SlotsFree(a) > 0} :
          Goto(d, IF ranked = {} THEN Idle
                  ELSE [loop[d] EXCEPT !.phase = "ranked", !.ranked = ranked])
    /\ UNCHANGED <<tableVars, agentVars, watch>>

\* Store.Claim.  ORDER BY created_at with SKIP LOCKED: whatever row other
\* transactions hold locked is passed over, so any claimable run may be the
\* oldest unlocked one.  The status notification follows the commit; when it
\* fails, the claim stands and the loop forgets the run.
Claim(d) ==
    /\ loop[d].phase = "ranked"
    /\ \E r \in Runs :
          /\ Claimable(runs[r])
          /\ runs[r].minted < MaxClaims
          /\ Write(r, ClaimedRow(runs[r]))
          /\ \/ Goto(d, [loop[d] EXCEPT !.phase   = "offer",
                                        !.run     = r,
                                        !.lease   = ClaimedRow(runs[r]).lease,
                                        !.attempt = ClaimedRow(runs[r]).attempts])
             \/ Goto(d, Idle)
    /\ UNCHANGED <<agentVars, watch>>

\* Nothing to claim.
ClaimNothing(d) ==
    /\ loop[d].phase = "ranked"
    /\ \A r \in Runs : ~Claimable(runs[r])
    /\ Goto(d, Idle)
    /\ UNCHANGED <<tableVars, agentVars, watch>>

\* The Execute call to the next replica.
Offer(d) ==
    /\ loop[d].phase = "offer"
    /\ \E a \in loop[d].ranked :
          LET c == [by |-> d, to |-> a, run |-> loop[d].run,
                    lease |-> loop[d].lease, attempt |-> loop[d].attempt]
          IN /\ calls' = calls \cup {c}
             /\ conn' = [conn EXCEPT ![d] = [call |-> c, answer |-> "none"]]
             /\ Goto(d, [loop[d] EXCEPT !.phase = "waiting", !.ranked = @ \ {a}])
    /\ UNCHANGED <<tableVars, accepting, tasks, draining, starts, faults, watch>>

HangUp(d) ==
    /\ conn' = [conn EXCEPT ![d] = Closed]
    /\ UNCHANGED <<tableVars, calls, accepting, tasks, draining, starts, faults, watch>>

\* 202, or 409, which the loop reads as "the agent owns it already".
Dispatched(d) ==
    /\ loop[d].phase = "waiting"
    /\ conn[d].answer \in {"accepted", "conflict"}
    /\ Goto(d, Idle)
    /\ HangUp(d)

\* Any other answer, or none within the timeout (the call may still arrive).
NotDispatched(d) ==
    /\ loop[d].phase = "waiting"
    /\ Goto(d, [loop[d] EXCEPT
                   !.phase = IF loop[d].ranked = {} THEN "return" ELSE "offer"])
    /\ HangUp(d)

\* Mutant: the claim is undone without asking whether an agent started it.
ReturnUnstarted_Unguarded(d) ==
    /\ loop[d].phase = "return"
    /\ \/ /\ runs[loop[d].run].lease = loop[d].lease /\ runs[loop[d].run].status \in Active
          /\ Write(loop[d].run, ReturnedRow(runs[loop[d].run], Backoff(2)))
       \/ UNCHANGED tableVars
    /\ Goto(d, Idle)
    /\ UNCHANGED <<agentVars, watch>>

\* Store.ReturnUnstarted; a lost race, or a store that fails, changes nothing.
ReturnUnstarted(d) ==
    /\ loop[d].phase = "return"
    /\ \/ /\ Unstarted(runs[loop[d].run], loop[d].lease)
          /\ Write(loop[d].run, ReturnedRow(runs[loop[d].run], Backoff(2)))
       \/ UNCHANGED tableVars
    /\ Goto(d, Idle)
    /\ UNCHANGED <<agentVars, watch>>

------------------------------------------------------------------------------
(* The watchdog loop: Dispatcher.WatchOnce and apply. *)

\* Mutant: a queued run is never watched, so its deadline is never enforced.
Watched_ActiveOnly(row) == row.status \in Active

\* The WHERE clause of Store.Watchlist.
Watched(row) ==
    \/ row.status \in Active
    \/ row.status = "queued" /\ row.deadline_at # None

Watchlist == {r \in Runs : Watched(runs[r])}

\* One query returns a consistent snapshot of the rows.
WatchRead(d) ==
    /\ watch[d] = NoPass
    /\ Watchlist # {}
    /\ watch' = [watch EXCEPT ![d] = [decided |-> FALSE,
                                      seen    |-> [r \in Watchlist |-> Observed(runs[r])],
                                      verdict |-> NoRuns]]
    /\ UNCHANGED <<tableVars, agentVars, loop>>

\* The clock is read once, after the query; runs with nothing to do drop out.
WatchDecide(d) ==
    /\ watch[d] # NoPass /\ ~watch[d].decided
    /\ LET seen == watch[d].seen
           due  == {r \in DOMAIN seen : Decide(seen[r], now).kind # "nothing"}
       IN watch' = [watch EXCEPT ![d] =
             IF due = {} THEN NoPass
             ELSE [decided |-> TRUE,
                   seen    |-> [r \in due |-> seen[r]],
                   verdict |-> [r \in due |-> Decide(seen[r], now)]]]
    /\ UNCHANGED <<tableVars, agentVars, loop>>

\* store.transition: the contract, then the compare-and-set.
MaySettle(seen, row, target, checkHeartbeat) ==
    /\ CanTransition(seen.status, target)
    /\ Unchanged(seen, row, checkHeartbeat)

\* The row a verdict leaves behind; a lost race leaves the row as it is.
\* AskAgentToCancel sets the flag; the call forwarded to the agent then sets
\* the same flag again.
Applied(seen, verdict, row) ==
    CASE verdict.kind = "requeue" ->
            IF MaySettle(seen, row, "queued", TRUE)
            THEN RequeuedRow(row, Backoff(seen.attempts + 1)) ELSE row
      [] verdict.kind = "fail" ->
            IF MaySettle(seen, row, "failed", verdict.code # "DEADLINE_EXCEEDED")
            THEN SettledRow(row, "failed") ELSE row
      [] verdict.kind = "cancel" ->
            IF MaySettle(seen, row, "cancelled", TRUE)
            THEN SettledRow(row, "cancelled") ELSE row
      [] verdict.kind = "ask_agent_to_cancel" ->
            [row EXCEPT !.cancel_requested = TRUE]
      [] OTHER -> row

\* The pass goes on with the runs that remain.
PassWithout(pass, r) ==
    LET rest == DOMAIN pass.seen \ {r} IN
    IF rest = {} THEN NoPass
    ELSE [decided |-> TRUE,
          seen    |-> [q \in rest |-> pass.seen[q]],
          verdict |-> [q \in rest |-> pass.verdict[q]]]

\* Decisions are applied one at a time, on rows others may have written since.
WatchApply(d, r) ==
    /\ watch[d].decided /\ r \in DOMAIN watch[d].seen
    /\ Write(r, Applied(watch[d].seen[r], watch[d].verdict[r], runs[r]))
    /\ watch' = [watch EXCEPT ![d] = PassWithout(@, r)]
    /\ UNCHANGED <<agentVars, loop>>

\* The store failed for this run: logged, and the next pass tries again.
WatchApplyFails(d, r) ==
    /\ faults < MaxFaults
    /\ faults' = faults + 1
    /\ watch[d].decided /\ r \in DOMAIN watch[d].seen
    /\ watch' = [watch EXCEPT ![d] = PassWithout(@, r)]
    /\ UNCHANGED <<tableVars, calls, conn, accepting, tasks, draining, starts, loop>>

------------------------------------------------------------------------------
\* The process dies and is restarted: both loops keep nothing from one turn to
\* the next and start over, and the call under way loses its caller.
DispatcherCrash(d) ==
    /\ faults < MaxFaults
    /\ faults' = faults + 1
    /\ conn' = [conn EXCEPT ![d] = Closed]
    /\ loop' = [loop EXCEPT ![d] = Idle]
    /\ watch' = [watch EXCEPT ![d] = NoPass]
    /\ UNCHANGED <<tableVars, calls, accepting, tasks, draining, starts>>

WatchStep(d) ==
    WatchRead(d) \/ WatchDecide(d) \/ \E r \in Runs : WatchApply(d, r)

DispatcherStep(d) ==
    \/ CheckRoom(d) \/ Survey(d) \/ Claim(d) \/ ClaimNothing(d) \/ Offer(d)
    \/ Dispatched(d) \/ NotDispatched(d) \/ ReturnUnstarted(d)
    \/ WatchStep(d) \/ DispatcherCrash(d)
    \/ \E r \in Runs : WatchApplyFails(d, r)
==============================================================================
