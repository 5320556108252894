------------------------------- MODULE Watchdog -------------------------------
(***************************************************************************)
(* watchdog/decide.go: the decision is a pure function of the columns the  *)
(* watchlist query returned and of the dispatcher's clock.                 *)
(***************************************************************************)
EXTENDS RunTable

CONSTANTS HeartbeatTimeout, DispatchTimeout, CancelGrace

ASSUME WatchdogAssumption ==
    /\ HeartbeatTimeout \in Nat \ {0}
    /\ DispatchTimeout \in Nat \ {0}
    /\ CancelGrace \in Nat

\* watchdog.Run: the columns the watchdog looks at.
Observation ==
    [status : Statuses \cup {Absent}, attempts : Nat, lease : Nat,
     cancel_requested : BOOLEAN,
     dispatched_at : Time, heartbeat_at : Time, deadline_at : Time]

Observed(row) ==
    [status |-> row.status, attempts |-> row.attempts, lease |-> row.lease,
     cancel_requested |-> row.cancel_requested,
     dispatched_at |-> row.dispatched_at, heartbeat_at |-> row.heartbeat_at,
     deadline_at |-> row.deadline_at]

Kinds    == {"nothing", "requeue", "fail", "cancel", "ask_agent_to_cancel"}
Codes    == {"", "AGENT_UNREACHABLE", "AGENT_HEARTBEAT_LOST", "DEADLINE_EXCEEDED"}
Decision == [kind : Kinds, code : Codes]

Verdict(kind, code) == [kind |-> kind, code |-> code]

PastDeadline(run, at, grace) ==
    run.deadline_at # None /\ at > run.deadline_at + grace

\* A missing timestamp is stale.
OlderThan(stamp, at, limit) == stamp = None \/ at - stamp > limit

\* Mutant: the comparison is off by one, so the budget is exceeded.
RetryOrFail_OffByOne(run, code) ==
    IF run.attempts > MaxAttempts
    THEN Verdict("fail", code) ELSE Verdict("requeue", code)

RetryOrFail(run, code) ==
    IF run.attempts >= MaxAttempts
    THEN Verdict("fail", code) ELSE Verdict("requeue", code)

DecideDispatched(run, at) ==
    IF PastDeadline(run, at, 0) THEN Verdict("fail", "DEADLINE_EXCEEDED")
    ELSE IF ~OlderThan(run.dispatched_at, at, DispatchTimeout)
         THEN Verdict("nothing", "")
    ELSE IF run.cancel_requested THEN Verdict("cancel", "")
    ELSE RetryOrFail(run, "AGENT_UNREACHABLE")

DecideRunning(run, at) ==
    IF PastDeadline(run, at, CancelGrace) THEN Verdict("fail", "DEADLINE_EXCEEDED")
    ELSE IF PastDeadline(run, at, 0) /\ ~run.cancel_requested
         THEN Verdict("ask_agent_to_cancel", "DEADLINE_EXCEEDED")
    ELSE IF ~OlderThan(run.heartbeat_at, at, HeartbeatTimeout)
         THEN Verdict("nothing", "")
    ELSE IF run.cancel_requested THEN Verdict("cancel", "AGENT_HEARTBEAT_LOST")
    ELSE RetryOrFail(run, "AGENT_HEARTBEAT_LOST")

Decide(run, at) ==
    CASE run.status = "queued" ->
            IF PastDeadline(run, at, 0)
            THEN Verdict("fail", "DEADLINE_EXCEEDED") ELSE Verdict("nothing", "")
      [] run.status = "dispatched" -> DecideDispatched(run, at)
      [] run.status = "running"    -> DecideRunning(run, at)
      [] OTHER                     -> Verdict("nothing", "")
==============================================================================
