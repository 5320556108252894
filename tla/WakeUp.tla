------------------------------- MODULE WakeUp -------------------------------
(* How the dispatch loop learns that there is something to do: a listener holds *)
(* a connection with LISTEN and pokes the loop on every notification that may   *)
(* mean work, and the loop polls beside it.  What the loop does with a run is   *)
(* module Dispatcher's subject; here a pass is kept to what makes it stop.      *)
EXTENDS Naturals, FiniteSets

CONSTANTS
    Runs,
    MaxConcurrentRuns,  \* capacity.max_concurrent_runs
    Slots,              \* slots of all replicas together
    MaxAttempts,
    MaxDrops,           \* bound: times the listening connection is lost
    MaxMisses           \* bound: passes that end early on an error or a locked row

ASSUME WakeUpAssumption ==
    /\ MaxConcurrentRuns \in Nat /\ Slots \in Nat
    /\ MaxAttempts \in Nat \ {0} /\ MaxDrops \in Nat /\ MaxMisses \in Nat

VARIABLES
    status,     \* of each run; "backoff" is queued with available_at ahead
    attempts,   \* of each run
    held,       \* <<run, attempt>>: the slots replicas hold
    loop,       \* where the dispatch loop is, and the run it offers
    wake,       \* d.wake, a channel with room for one
    tick,       \* a tick of the poll's ticker is waiting
    listener,   \* the listening connection
    inflight,   \* notifications the listener has not received
    silent,     \* history: work became possible since the pass began, unannounced
    faults      \* [drops, misses]: how often either bound has been used

runVars  == <<status, attempts, held>>
loopVars == <<loop, wake, tick>>
vars == <<status, attempts, held, loop, wake, tick, listener, inflight, silent, faults>>

Channels  == {"run_queued", "run_events"}
Asleep    == [phase |-> "asleep", run |-> {}]
Pass      == [phase |-> "count", run |-> {}]
Lost      == [connected |-> FALSE, on |-> {}, told |-> FALSE]

\* DispatchLoop begins with a pass; ListenLoop with a connection to open.
Init ==
    /\ status = [r \in Runs |-> "absent"] /\ attempts = [r \in Runs |-> 0]
    /\ held = {}
    /\ loop = Pass /\ wake = FALSE /\ tick = FALSE
    /\ listener = Lost /\ inflight = 0
    /\ silent = FALSE /\ faults = [drops |-> 0, misses |-> 0]

-----------------------------------------------------------------------------
Claimable(r) == status[r] = "queued"
HasRoom  == Cardinality({r \in Runs : status[r] \in {"dispatched", "running"}})
                < MaxConcurrentRuns
SlotFree == Cardinality(held) < Slots

\* Mutant: a channel without a buffer, a poke that finds the loop busy is dropped.
Woken_Unbuffered == wake \/ loop.phase = "asleep"

\* Wake: one poke waits until the loop takes it, further ones are dropped.
Woken == TRUE

\* pg_notify on channels, one each: delivered to whoever listens at the commit.
\* Timeline entries ({"run_id", "seq"} on run_events) wake nobody and are left out.
Announce(channels) == inflight' = inflight + Cardinality(channels \cap listener.on)

Miss ==
    /\ faults.misses < MaxMisses
    /\ faults' = [faults EXCEPT !.misses = @ + 1]

-----------------------------------------------------------------------------
(* The dispatch loop. *)

Sleep == loop' = Asleep

\* ActiveCount and HasRoom.
CountActive ==
    /\ loop.phase = "count"
    /\ IF HasRoom THEN loop' = [loop EXCEPT !.phase = "survey"] ELSE Sleep
    /\ UNCHANGED <<runVars, wake, tick, listener, inflight, silent, faults>>

\* survey and Rank: a replica with a free slot, or none.
Survey ==
    /\ loop.phase = "survey"
    /\ IF SlotFree THEN loop' = [loop EXCEPT !.phase = "claim"] ELSE Sleep
    /\ UNCHANGED <<runVars, wake, tick, listener, inflight, silent, faults>>

\* A claim commits, and its status is announced.
Claim(r) ==
    /\ loop.phase = "claim" /\ Claimable(r)
    /\ status' = [status EXCEPT ![r] = "dispatched"]
    /\ attempts' = [attempts EXCEPT ![r] = @ + 1]
    /\ loop' = [phase |-> "offer", run |-> {r}]
    /\ Announce({"run_events"})
    /\ UNCHANGED <<held, wake, tick, listener, silent, faults>>

ClaimNothing ==
    /\ loop.phase = "claim" /\ \A r \in Runs : ~Claimable(r)
    /\ Sleep
    /\ UNCHANGED <<runVars, wake, tick, listener, inflight, silent, faults>>

\* A replica marks the run running and answers 202: the loop tries the next run
\* at once.  When the answer is lost the claim cannot be returned and it sleeps.
Start(r) ==
    /\ loop.phase = "offer" /\ loop.run = {r}
    /\ status[r] = "dispatched" /\ SlotFree
    /\ status' = [status EXCEPT ![r] = "running"]
    /\ held' = held \cup {<<r, attempts[r]>>}
    /\ Announce({"run_events"})
    /\ \/ loop' = Pass /\ UNCHANGED faults
       \/ Sleep /\ Miss
    /\ UNCHANGED <<attempts, wake, tick, listener, silent>>

\* No replica takes it: ReturnUnstarted, unless the watchdog was there first.
Refused(r) ==
    /\ loop.phase = "offer" /\ loop.run = {r}
    /\ IF status[r] = "dispatched"
       THEN /\ status' = [status EXCEPT ![r] = "backoff"]
            /\ attempts' = [attempts EXCEPT ![r] = @ - 1]
            /\ Announce({"run_events"})
            /\ Miss
       ELSE UNCHANGED <<status, attempts, inflight, faults>>
    /\ Sleep
    /\ UNCHANGED <<held, wake, tick, listener, silent>>

\* The store fails, no replica answers, or the one claimable row is locked by a
\* writer that announces nothing (RequestCancel): the pass ends with work left.
PassFails ==
    /\ loop.phase \in {"count", "survey", "claim"}
    /\ Miss
    /\ Sleep
    /\ silent' = TRUE
    /\ UNCHANGED <<runVars, wake, tick, listener, inflight>>

\* The notification after a committed claim fails: the loop forgets the run.
ForgetClaim(r) ==
    /\ loop.phase = "claim" /\ Claimable(r)
    /\ status' = [status EXCEPT ![r] = "dispatched"]
    /\ attempts' = [attempts EXCEPT ![r] = @ + 1]
    /\ Miss
    /\ Sleep
    /\ silent' = TRUE
    /\ UNCHANGED <<held, wake, tick, listener, inflight>>

\* Mutant: the select waits for a poke only.
Stirred_NoPoll == wake

Stirred == wake \/ tick

\* The select: one poke or one tick is taken, and a pass begins.
Rouse ==
    /\ loop.phase = "asleep" /\ Stirred
    /\ \/ wake /\ wake' = FALSE /\ UNCHANGED tick
       \/ tick /\ tick' = FALSE /\ UNCHANGED wake
    /\ loop' = Pass
    /\ silent' = FALSE
    /\ UNCHANGED <<runVars, listener, inflight, faults>>

\* time.Ticker: a tick nobody takes is dropped.
Poll ==
    /\ ~tick /\ tick' = TRUE
    /\ UNCHANGED <<runVars, loop, wake, listener, inflight, silent, faults>>

-----------------------------------------------------------------------------
(* The rest of the system, as far as it changes what the loop may do. *)

Create(r) ==
    /\ status[r] = "absent"
    /\ status' = [status EXCEPT ![r] = "queued"]
    /\ Announce({"run_queued"})
    /\ UNCHANGED <<attempts, held, loopVars, listener, silent, faults>>

\* finish and the watchdog's verdicts: announced, the slot is freed later.
Settle(r) ==
    /\ status[r] \in {"queued", "backoff", "dispatched", "running"}
    /\ status' = [status EXCEPT ![r] = "done"]
    /\ Announce({"run_events"})
    /\ UNCHANGED <<attempts, held, loopVars, listener, silent, faults>>

\* Store.Requeue: both channels in one commit, then apply pokes the loop itself.
Requeue(r) ==
    /\ status[r] \in {"dispatched", "running"} /\ attempts[r] < MaxAttempts
    /\ status' = [status EXCEPT ![r] = "backoff"]
    /\ Announce(Channels)
    /\ wake' = Woken
    /\ UNCHANGED <<attempts, held, loop, tick, listener, silent, faults>>

\* available_at passes; nobody is told.
BackoffExpires(r) ==
    /\ status[r] = "backoff"
    /\ status' = [status EXCEPT ![r] = "queued"]
    /\ silent' = TRUE
    /\ UNCHANGED <<attempts, held, loopVars, listener, inflight, faults>>

\* The task of a settled or revoked attempt ends and leaves _tasks; nobody is told.
Release(h) ==
    /\ h \in held
    /\ status[h[1]] = "running" => attempts[h[1]] # h[2]
    /\ held' = held \ {h}
    /\ silent' = TRUE
    /\ UNCHANGED <<status, attempts, loopVars, listener, inflight, faults>>

-----------------------------------------------------------------------------
(* The listener: ListenLoop and listenOnce. *)

Connect ==
    /\ ~listener.connected
    /\ listener' = [listener EXCEPT !.connected = TRUE]
    /\ UNCHANGED <<runVars, loopVars, inflight, silent, faults>>

Listen(channel) ==
    /\ listener.connected /\ channel \notin listener.on
    /\ channel = "run_events" => "run_queued" \in listener.on
    /\ listener' = [listener EXCEPT !.on = @ \cup {channel}]
    /\ UNCHANGED <<runVars, loopVars, inflight, silent, faults>>

\* "Notifications sent during reconnect were lost": the loop is poked once.
Reconcile ==
    /\ listener.on = Channels /\ ~listener.told
    /\ listener' = [listener EXCEPT !.told = TRUE]
    /\ wake' = Woken
    /\ UNCHANGED <<runVars, loop, tick, inflight, silent, faults>>

Deliver ==
    /\ listener.told /\ inflight > 0
    /\ inflight' = inflight - 1
    /\ wake' = Woken
    /\ UNCHANGED <<runVars, loop, tick, listener, silent, faults>>

\* The connection is lost, with what was under way on it.
Drop ==
    /\ listener.connected /\ faults.drops < MaxDrops
    /\ faults' = [faults EXCEPT !.drops = @ + 1]
    /\ listener' = Lost /\ inflight' = 0
    /\ UNCHANGED <<runVars, loopVars, silent>>

-----------------------------------------------------------------------------
LoopStep ==
    \/ CountActive \/ Survey \/ ClaimNothing \/ PassFails \/ Rouse
    \/ \E r \in Runs : Claim(r) \/ Start(r) \/ Refused(r) \/ ForgetClaim(r)

RunStep ==
    \/ \E r \in Runs : Create(r) \/ Settle(r) \/ Requeue(r) \/ BackoffExpires(r)
    \/ \E h \in held : Release(h)

ListenStep ==
    \/ Connect \/ Reconcile \/ Deliver \/ Drop
    \/ \E channel \in Channels : Listen(channel)

Next == LoopStep \/ Poll \/ RunStep \/ ListenStep

\* The loop and its ticker go on; a slot is given back; a run that is out of the
\* queue is settled in the end (its deadline sees to that).  Nothing is assumed of
\* the listener.
Fairness ==
    /\ WF_vars(LoopStep) /\ WF_vars(Poll)
    /\ WF_vars(\E h \in held : Release(h))
    /\ \A r \in Runs : WF_vars(status[r] \in {"dispatched", "running"} /\ Settle(r))

Spec == Init /\ [][Next]_vars /\ Fairness

-----------------------------------------------------------------------------
\* A notification is never lost on a busy loop nor in a reconnect: when the loop
\* is asleep with a run it could dispatch, and the run, the room and the slot did
\* not become available unannounced, then a poke is on its way to it, because a
\* notification is under way or the listener has yet to reconcile (listen.go:51,
\* dispatcher.go:79-110).
NoLostWakeup ==
    /\ loop.phase = "asleep" /\ ~wake /\ ~tick /\ ~silent
    /\ HasRoom /\ SlotFree /\ \E r \in Runs : Claimable(r)
    => inflight > 0 \/ ~listener.told

\* Whatever the listener does, a claimable run leaves the queue: what was not
\* announced, or was announced to nobody, is made up for by the poll
\* (dispatcher.go:103-108, dispatcher.yaml:5).
QueueDrains == \A r \in Runs : Claimable(r) ~> ~Claimable(r)
=============================================================================
