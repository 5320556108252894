------------------------------ MODULE RunPromise ------------------------------
(***************************************************************************)
(* What the three services together promise about a run, with no leases,   *)
(* clocks, calls or processes: a run is handed out and taken back, is      *)
(* started at most MaxAttempts times, and is settled once and for all.      *)
(***************************************************************************)
EXTENDS Naturals, RunContract

CONSTANTS Runs, MaxAttempts

VARIABLES status, started

Init ==
    /\ status  = [r \in Runs |-> Absent]
    /\ started = [r \in Runs |-> 0]

Become(r, to) == status' = [status EXCEPT ![r] = to]

Submit(r) == status[r] = Absent /\ Become(r, "queued") /\ UNCHANGED started

HandOut(r) ==
    /\ status[r] = "queued" /\ started[r] < MaxAttempts
    /\ Become(r, "dispatched") /\ UNCHANGED started

Start(r) ==
    /\ status[r] = "dispatched" /\ started[r] < MaxAttempts
    /\ Become(r, "running")
    /\ started' = [started EXCEPT ![r] = @ + 1]

\* A started run goes back only while an attempt is left to resume it.
TakeBack(r) ==
    /\ status[r] \in Active /\ started[r] < MaxAttempts
    /\ Become(r, "queued") /\ UNCHANGED started

Settle(r) ==
    /\ status[r] \in Statuses \ Terminal
    /\ \E outcome \in IF status[r] = "running" THEN Terminal ELSE {"cancelled", "failed"} :
          Become(r, outcome)
    /\ UNCHANGED started

Next == \E r \in Runs : Submit(r) \/ HandOut(r) \/ Start(r) \/ TakeBack(r) \/ Settle(r)

Spec == Init /\ [][Next]_<<status, started>>
==============================================================================
