------------------------------- MODULE RunTable -------------------------------
(***************************************************************************)
(* The `runs` table in Postgres: the only state the api, the dispatchers   *)
(* and the agent replicas share.  This module holds the clock, the rows    *)
(* and the pure part of every statement that rewrites a row; each SQL      *)
(* statement (or transaction) is one atomic step of the module that issues *)
(* it.  Columns nothing decides on (question, counters, artifacts,         *)
(* agent_id, started_at) are left out, and so is the timeline              *)
(* (run_events).                                                           *)
(*                                                                         *)
(* `minted` is not a column: it counts the leases handed out for the run,  *)
(* so that gen_random_uuid() can be "a lease never used before".           *)
(***************************************************************************)
EXTENDS Integers, FiniteSets, RunContract

CONSTANTS
    Runs,           \* run ids
    None,           \* SQL NULL in a timestamp column
    MaxAttempts,    \* run_states.yaml max_attempts
    HardDeadline,   \* seconds from the first claim to deadline_at
    MaxNow,         \* bound: the clock stops here
    MaxClaims       \* bound: leases minted per run

ASSUME TableAssumption ==
    /\ None \notin Nat
    /\ MaxAttempts \in Nat \ {0}
    /\ HardDeadline \in Nat \ {0}
    /\ MaxNow \in Nat
    /\ MaxClaims \in Nat

VARIABLES
    now,   \* one clock for Postgres, the dispatchers and the agents
    runs   \* the table: run id -> row

tableVars == <<now, runs>>

Time    == Nat \cup {None}
NoLease == 0

Row == [status           : Statuses \cup {Absent},
        attempts         : Nat,
        lease            : Nat,
        minted           : Nat,
        dispatched_at    : Time,
        heartbeat_at     : Time,
        deadline_at      : Time,
        available_at     : Time,
        cancel_requested : BOOLEAN,
        secrets          : BOOLEAN]

NoRow == [status |-> Absent, attempts |-> 0, lease |-> NoLease, minted |-> 0,
          dispatched_at |-> None, heartbeat_at |-> None, deadline_at |-> None,
          available_at |-> None, cancel_requested |-> FALSE, secrets |-> FALSE]

TableInit == now = 0 /\ runs = [r \in Runs |-> NoRow]

\* Time passes between any two steps, up to the horizon.
Tick == now < MaxNow /\ now' = now + 1 /\ UNCHANGED runs

\* A statement that rewrites one row.
Write(r, row) == runs' = [runs EXCEPT ![r] = row] /\ UNCHANGED now

------------------------------------------------------------------------------
(* Rows written by the api and by the dispatchers. *)

\* RunRepository.create: an inserted run is queued and has never been claimed.
CreatedRow == [NoRow EXCEPT !.status = "queued"]

\* The WHERE clause of the claim.
Claimable(row) ==
    /\ row.status = "queued"
    /\ row.available_at # None => row.available_at <= now

\* Mutant: every claim computes a deadline of its own.
ClaimedRow_NewDeadline(row) ==
    [row EXCEPT !.status        = "dispatched",
                !.dispatched_at = now,
                !.attempts      = @ + 1,
                !.lease         = row.minted + 1,
                !.minted        = @ + 1,
                !.deadline_at   = now + HardDeadline]

\* claimSQL: a fresh lease and one more attempt; COALESCE keeps the deadline
\* of the first claim across requeues.  The heartbeat is left alone.
ClaimedRow(row) ==
    [row EXCEPT !.status        = "dispatched",
                !.dispatched_at = now,
                !.attempts      = @ + 1,
                !.lease         = row.minted + 1,
                !.minted        = @ + 1,
                !.deadline_at   = IF @ = None THEN now + HardDeadline ELSE @]

\* Mutant: the watchdog's write does not look at the heartbeat.
Unchanged_NoHeartbeat(observed, row, checkHeartbeat) ==
    /\ row.status = observed.status
    /\ row.lease = observed.lease

\* The WHERE clause of store.transition: what the watchdog observed must still
\* be true of the row, the heartbeat only where the decision rests on it.
Unchanged(observed, row, checkHeartbeat) ==
    /\ row.status = observed.status
    /\ row.lease = observed.lease
    /\ checkHeartbeat => row.heartbeat_at = observed.heartbeat_at

\* Store.Requeue.
RequeuedRow(row, backoff) ==
    [row EXCEPT !.status        = "queued",
                !.lease         = NoLease,
                !.heartbeat_at  = None,
                !.dispatched_at = None,
                !.available_at  = now + backoff]

\* Store.ReturnUnstarted: WHERE clause and row; the attempt is given back.
Unstarted(row, lease) == row.status = "dispatched" /\ row.lease = lease

ReturnedRow(row, backoff) ==
    [row EXCEPT !.status        = "queued",
                !.dispatched_at = None,
                !.lease         = NoLease,
                !.attempts      = IF @ > 0 THEN @ - 1 ELSE 0,
                !.available_at  = now + backoff]

\* Every terminal status is committed together with the deletion of the run's
\* provider keys (store.transition and RunRepository.finish).
SettledRow(row, status) ==
    [row EXCEPT !.status = status, !.secrets = FALSE]

------------------------------------------------------------------------------
(* Rows written by an agent, and the fence around its writes. *)

\* RunRepository._owned: the row is running under the worker's lease.
Owned(row, lease) == row.status = "running" /\ row.lease = lease

\* RunRepository._transition on a repository bound to a lease: the lease check,
\* the contract check and the compare-and-set.
MayMove(row, lease, target) ==
    /\ row.lease = lease
    /\ CanTransition(row.status, target)

\* mark_running: the deadline that was read with the row is written back.
RunningRow(row, deadline) ==
    [row EXCEPT !.status       = "running",
                !.heartbeat_at = now,
                !.deadline_at  = IF deadline = None THEN @ ELSE deadline]

\* The slots the global limit counts (Store.ActiveCount).
ActiveRuns == {r \in Runs : runs[r].status \in Active}
==============================================================================
