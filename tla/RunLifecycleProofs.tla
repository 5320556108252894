-------------------------- MODULE RunLifecycleProofs --------------------------
(***************************************************************************)
(* The safety of RunLifecycle for any number of runs, replicas and         *)
(* dispatchers, any limits and any horizon: the invariant IInv is          *)
(* inductive, one lemma per action, and the properties follow from it.     *)
(* First come lemmas about rows and leases: how each statement's row       *)
(* follows the one it replaces, and why a step that hands no lease to      *)
(* anyone keeps the invariant.  Then what one step can do to the table:    *)
(* every step leaves it alone or moves one row in one of a few ways, and   *)
(* the action properties and the refinement of RunPromise are read off     *)
(* those ways.  At the end, the two limits on runs in progress.            *)
(***************************************************************************)
EXTENDS RunLifecycle, FiniteSetTheorems, TLAPS

(***************************************************************************)
(* How a row may follow another: the leases issued so far stay issued, and *)
(* the row keeps its lease (and with it its attempts, and does not become  *)
(* dispatched), gives it up, or takes one that nobody holds.               *)
(***************************************************************************)
Follows(old, new) ==
    /\ old.minted <= new.minted
    /\ \/ new.lease = NoLease
       \/ old.minted < new.lease
       \/ /\ new.lease = old.lease
          /\ new.attempts = old.attempts
          /\ new.status = "dispatched" => old.status = "dispatched"

Evolves == \A r \in Runs : Follows(runs[r], runs'[r])

------------------------------------------------------------------------------
(* The rows the statements write. *)

\* A claim takes a lease nobody holds and pays one attempt for it.
LEMMA ClaimedRowFollows ==
    ASSUME now \in Nat, NEW row \in Row, NEW n \in Nat,
           RowConsistent(row, n), row.status = "queued"
    PROVE  /\ ClaimedRow(row) \in Row
           /\ Follows(row, ClaimedRow(row))
           /\ RowConsistent(ClaimedRow(row), n)
           /\ NoLease < ClaimedRow(row).lease
           /\ ClaimedRow(row).lease = ClaimedRow(row).minted
<1>1. (IF row.deadline_at = None THEN now + HardDeadline ELSE row.deadline_at) \in Time
    BY TableAssumption DEF Row, Time
<1>2. "dispatched" \in Statuses
    BY DEF Statuses, Active
<1>3. now \in Time /\ row.attempts + 1 \in Nat /\ row.minted + 1 \in Nat
    BY DEF Row, Time
<1>4. ClaimedRow(row) \in Row
    BY <1>1, <1>2, <1>3 DEF ClaimedRow, Row
<1>5. Follows(row, ClaimedRow(row))
    BY DEF ClaimedRow, Row, Follows
<1>6. RowConsistent(ClaimedRow(row), n)
    BY TableAssumption DEF ClaimedRow, Row, RowConsistent, Active, Absent, NoLease
<1>7. NoLease < ClaimedRow(row).lease /\ ClaimedRow(row).lease = ClaimedRow(row).minted
    BY DEF ClaimedRow, Row, NoLease
<1> QED BY <1>4, <1>5, <1>6, <1>7

\* mark_running keeps the lease and spends the attempt.
LEMMA RunningRowFollows ==
    ASSUME now \in Nat, NEW row \in Row, NEW n \in Nat, NEW deadline \in Time,
           RowConsistent(row, n), row.status = "dispatched"
    PROVE  /\ RunningRow(row, deadline) \in Row
           /\ Follows(row, RunningRow(row, deadline))
           /\ RowConsistent(RunningRow(row, deadline), n + 1)
           /\ RunningRow(row, deadline).lease = row.lease
           /\ RunningRow(row, deadline).status = "running"
<1>1. "running" \in Statuses /\ now \in Time
    BY DEF Statuses, Active, Time
<1>2. RunningRow(row, deadline) \in Row
    BY <1>1 DEF RunningRow, Row
<1>3. Follows(row, RunningRow(row, deadline))
    BY DEF RunningRow, Row, Follows
<1>4. RowConsistent(RunningRow(row, deadline), n + 1)
    BY DEF RunningRow, Row, RowConsistent, Active, Absent, NoLease
<1>5. RunningRow(row, deadline).lease = row.lease /\ RunningRow(row, deadline).status = "running"
    BY DEF RunningRow, Row
<1> QED BY <1>2, <1>3, <1>4, <1>5

\* Giving an unstarted claim back also gives its attempt back.
LEMMA ReturnedRowFollows ==
    ASSUME now \in Nat, NEW row \in Row, NEW n \in Nat, NEW backoff \in Nat,
           RowConsistent(row, n), row.status = "dispatched"
    PROVE  /\ ReturnedRow(row, backoff) \in Row
           /\ Follows(row, ReturnedRow(row, backoff))
           /\ RowConsistent(ReturnedRow(row, backoff), n)
<1>1. /\ "queued" \in Statuses /\ None \in Time /\ now + backoff \in Time
      /\ (IF row.attempts > 0 THEN row.attempts - 1 ELSE 0) \in Nat
    BY DEF Statuses, Time, Row
<1>2. ReturnedRow(row, backoff) \in Row
    BY <1>1 DEF ReturnedRow, Row, NoLease
<1>3. Follows(row, ReturnedRow(row, backoff))
    BY DEF ReturnedRow, Row, Follows
<1>4. RowConsistent(ReturnedRow(row, backoff), n)
    BY TableAssumption DEF ReturnedRow, Row, RowConsistent, Active, Absent, NoLease
<1> QED BY <1>2, <1>3, <1>4

\* A requeue keeps the attempt, and is for rows that have one left.
LEMMA RequeuedRowFollows ==
    ASSUME now \in Nat, NEW row \in Row, NEW n \in Nat, NEW backoff \in Nat,
           RowConsistent(row, n), row.attempts < MaxAttempts
    PROVE  /\ RequeuedRow(row, backoff) \in Row
           /\ Follows(row, RequeuedRow(row, backoff))
           /\ RowConsistent(RequeuedRow(row, backoff), n)
<1>1. "queued" \in Statuses /\ None \in Time /\ now + backoff \in Time
    BY DEF Statuses, Time
<1>2. RequeuedRow(row, backoff) \in Row
    BY <1>1 DEF RequeuedRow, Row, NoLease
<1>3. Follows(row, RequeuedRow(row, backoff))
    BY DEF RequeuedRow, Row, Follows
<1>4. RowConsistent(RequeuedRow(row, backoff), n)
    BY TableAssumption DEF RequeuedRow, Row, RowConsistent, Active, Absent, NoLease
<1> QED BY <1>2, <1>3, <1>4

\* A terminal write keeps everything but the status and the keys.
LEMMA SettledRowFollows ==
    ASSUME NEW row \in Row, NEW n \in Nat, NEW status \in Terminal,
           RowConsistent(row, n)
    PROVE  /\ SettledRow(row, status) \in Row
           /\ Follows(row, SettledRow(row, status))
           /\ RowConsistent(SettledRow(row, status), n)
<1>1. status \in Statuses
    BY DEF Statuses
<1>2. SettledRow(row, status) \in Row
    BY <1>1 DEF SettledRow, Row
<1>3. Follows(row, SettledRow(row, status))
    BY DEF SettledRow, Row, Follows, Terminal
<1>4. RowConsistent(SettledRow(row, status), n)
    BY DEF SettledRow, Row, RowConsistent, Terminal, Active, Absent, NoLease
<1> QED BY <1>2, <1>3, <1>4

\* An inserted row has been neither claimed nor started.
LEMMA CreatedRowFollows ==
    ASSUME NEW row \in Row, NEW n \in Nat,
           RowConsistent(row, n), row.status = Absent
    PROVE  /\ CreatedRow \in Row
           /\ Follows(row, CreatedRow)
           /\ RowConsistent(CreatedRow, n)
<1>1. "queued" \in Statuses /\ None \in Time
    BY DEF Statuses, Time
<1>2. CreatedRow \in Row
    BY <1>1 DEF CreatedRow, NoRow, Row, NoLease
<1>3. Follows(row, CreatedRow)
    BY DEF CreatedRow, NoRow, Row, Follows, RowConsistent
<1>4. RowConsistent(CreatedRow, n)
    BY TableAssumption DEF CreatedRow, NoRow, Row, RowConsistent, Active, Absent, NoLease
<1> QED BY <1>2, <1>3, <1>4

\* The writes that touch neither the status nor the lease.
LEMMA CancelFlagFollows ==
    ASSUME NEW row \in Row, NEW n \in Nat, RowConsistent(row, n)
    PROVE  /\ [row EXCEPT !.cancel_requested = TRUE] \in Row
           /\ Follows(row, [row EXCEPT !.cancel_requested = TRUE])
           /\ RowConsistent([row EXCEPT !.cancel_requested = TRUE], n)
<1>1. [row EXCEPT !.cancel_requested = TRUE] \in Row
    BY DEF Row
<1>2. Follows(row, [row EXCEPT !.cancel_requested = TRUE])
    BY DEF Row, Follows
<1>3. RowConsistent([row EXCEPT !.cancel_requested = TRUE], n)
    BY DEF Row, RowConsistent
<1> QED BY <1>1, <1>2, <1>3

LEMMA KeysStoredFollows ==
    ASSUME NEW row \in Row, NEW n \in Nat, RowConsistent(row, n)
    PROVE  /\ [row EXCEPT !.secrets = TRUE] \in Row
           /\ Follows(row, [row EXCEPT !.secrets = TRUE])
           /\ RowConsistent([row EXCEPT !.secrets = TRUE], n)
<1>1. [row EXCEPT !.secrets = TRUE] \in Row
    BY DEF Row
<1>2. Follows(row, [row EXCEPT !.secrets = TRUE])
    BY DEF Row, Follows
<1>3. RowConsistent([row EXCEPT !.secrets = TRUE], n)
    BY DEF Row, RowConsistent
<1> QED BY <1>1, <1>2, <1>3

LEMMA HeartbeatFollows ==
    ASSUME now \in Nat, NEW row \in Row, NEW n \in Nat, RowConsistent(row, n)
    PROVE  /\ [row EXCEPT !.heartbeat_at = now] \in Row
           /\ Follows(row, [row EXCEPT !.heartbeat_at = now])
           /\ RowConsistent([row EXCEPT !.heartbeat_at = now], n)
<1>1. now \in Time
    BY DEF Time
<1>2. [row EXCEPT !.heartbeat_at = now] \in Row
    BY <1>1 DEF Row
<1>3. Follows(row, [row EXCEPT !.heartbeat_at = now])
    BY DEF Row, Follows
<1>4. RowConsistent([row EXCEPT !.heartbeat_at = now], n)
    BY DEF Row, RowConsistent
<1> QED BY <1>2, <1>3, <1>4

------------------------------------------------------------------------------
(* Steps that leave the holders of leases where they are. *)

\* One row is written, by a successor that is consistent with the starts.
LEMMA WriteEvolves ==
    ASSUME runs \in [Runs -> Row], RowsConsistent, NEW r \in Runs, NEW new \in Row,
           Write(r, new), Follows(runs[r], new), RowConsistent(new, starts'[r]),
           \A q \in Runs : q # r => starts'[q] = starts[q]
    PROVE  /\ runs' \in [Runs -> Row] /\ now' = now
           /\ Evolves
           /\ RowsConsistent'
<1>1. runs' = [runs EXCEPT ![r] = new] /\ now' = now
    BY DEF Write
<1>2. runs' \in [Runs -> Row]
    BY <1>1
<1>3. ASSUME NEW q \in Runs PROVE Follows(runs[q], runs'[q])
    BY <1>1 DEF Follows, Row
<1>4. ASSUME NEW q \in Runs PROVE RowConsistent(runs'[q], starts'[q])
    BY <1>1 DEF RowsConsistent
<1> QED BY <1>1, <1>2, <1>3, <1>4 DEF Evolves, RowsConsistent

\* No row is written.
LEMMA SameRowsEvolve ==
    ASSUME runs \in [Runs -> Row], runs' = runs
    PROVE  runs' \in [Runs -> Row] /\ Evolves
    BY DEF Evolves, Follows, Row

\* An issued lease stays issued.
LEMMA IssuedKept ==
    ASSUME runs \in [Runs -> Row], runs' \in [Runs -> Row], Evolves,
           NEW r \in Runs, NEW lease \in Nat, Issued(r, lease)
    PROVE  NoLease < lease /\ lease <= runs'[r].minted
<1>1. runs[r].minted <= runs'[r].minted
    BY DEF Evolves, Follows
<1>2. runs[r].minted \in Nat /\ runs'[r].minted \in Nat
    BY DEF Row
<1> QED BY <1>1, <1>2 DEF Issued, NoLease

\* If an issued lease is the row's, it was the row's before.
LEMMA CurrentLeaseWasCurrent ==
    ASSUME runs \in [Runs -> Row], runs' \in [Runs -> Row], Evolves,
           NEW r \in Runs, NEW lease \in Nat, NoLease < lease, lease <= runs[r].minted,
           runs'[r].lease = lease
    PROVE  /\ runs[r].lease = lease
           /\ runs'[r].attempts = runs[r].attempts
           /\ runs'[r].status = "dispatched" => runs[r].status = "dispatched"
<1>1. Follows(runs[r], runs'[r])
    BY DEF Evolves
<1>2. runs[r].minted \in Nat
    BY DEF Row
<1> QED BY <1>1, <1>2 DEF Follows, NoLease

LEMMA CallsKept ==
    ASSUME runs \in [Runs -> Row], runs' \in [Runs -> Row], Evolves,
           calls \in SUBSET Call, CallsIssued, calls' \subseteq calls
    PROVE  CallsIssued'
<1>1. ASSUME NEW c \in calls' PROVE Issued(c.run, c.lease)'
    <2>1. c.run \in Runs /\ c.lease \in Nat /\ Issued(c.run, c.lease)
        BY DEF CallsIssued, Call
    <2> QED BY <2>1, IssuedKept DEF Issued
<1> QED BY <1>1 DEF CallsIssued

LEMMA AcceptingKept ==
    ASSUME runs \in [Runs -> Row], runs' \in [Runs -> Row], Evolves,
           accepting \in [Agents -> SUBSET Accepted], AcceptingIssued,
           \A a \in Agents : accepting'[a] \subseteq accepting[a]
    PROVE  AcceptingIssued'
<1>1. ASSUME NEW a \in Agents, NEW req \in accepting'[a]
      PROVE  Issued(req.call.run, req.call.lease)'
    <2>1. req \in accepting[a] /\ req.call \in Call
        BY DEF Accepted
    <2>2. /\ req.call.run \in Runs /\ req.call.lease \in Nat
          /\ Issued(req.call.run, req.call.lease)
        BY <2>1 DEF AcceptingIssued, Call
    <2> QED BY <2>2, IssuedKept DEF Issued
<1> QED BY <1>1 DEF AcceptingIssued

\* Dispatch loops may let go of the run they have in hand.
OffersOnlyEnd ==
    \A d \in Dispatchers :
        loop'[d].phase \in Offering
           => /\ loop[d].phase \in Offering
              /\ loop'[d].run = loop[d].run /\ loop'[d].lease = loop[d].lease

LEMMA OffersKept ==
    ASSUME runs \in [Runs -> Row], runs' \in [Runs -> Row], Evolves,
           loop \in [Dispatchers -> Loop], OffersIssued, OffersOnlyEnd
    PROVE  OffersIssued'
<1>1. ASSUME NEW d \in Dispatchers, loop'[d].phase \in Offering
      PROVE  loop'[d].run \in Runs /\ Issued(loop[d].run, loop[d].lease)'
    <2>1. loop[d].phase \in Offering /\ loop'[d].run = loop[d].run /\ loop'[d].lease = loop[d].lease
        BY <1>1 DEF OffersOnlyEnd
    <2>2. loop[d].run \in Runs /\ Issued(loop[d].run, loop[d].lease) /\ loop[d].lease \in Nat
        BY <2>1 DEF OffersIssued, Loop
    <2>3. NoLease < loop[d].lease /\ loop[d].lease <= runs'[loop[d].run].minted
        BY <2>2, IssuedKept
    <2> QED BY <2>1, <2>2, <2>3 DEF Issued
<1> QED BY <1>1 DEF OffersIssued

\* Tasks may end or change their outcome.
TasksOnlyEnd ==
    \A a \in Agents, r \in Runs :
        tasks'[a][r] # NoTask
           => tasks[a][r] # NoTask /\ tasks'[a][r].lease = tasks[a][r].lease

LEMMA TasksKept ==
    ASSUME runs \in [Runs -> Row], runs' \in [Runs -> Row], Evolves,
           tasks \in [Agents -> [Runs -> Task]], TasksIssued, SingleOwner, TasksOnlyEnd
    PROVE  TasksIssued' /\ SingleOwner'
<1>1. ASSUME NEW a \in Agents, NEW r \in Runs, tasks'[a][r] # NoTask
      PROVE  /\ Issued(r, tasks[a][r].lease)'
             /\ runs'[r].lease = tasks'[a][r].lease
                   => /\ runs[r].lease = tasks[a][r].lease
                      /\ ~Unstarted(runs'[r], tasks'[a][r].lease)
    <2>1. tasks[a][r] # NoTask /\ tasks'[a][r].lease = tasks[a][r].lease
        BY <1>1 DEF TasksOnlyEnd
    <2>2. tasks[a][r].lease \in Nat
        BY DEF Task
    <2>3. Issued(r, tasks[a][r].lease) /\ ~Unstarted(runs[r], tasks[a][r].lease)
        BY <2>1 DEF TasksIssued
    <2>4. Issued(r, tasks[a][r].lease)'
        BY <2>1, <2>2, <2>3, IssuedKept DEF Issued
    <2>5. ASSUME runs'[r].lease = tasks'[a][r].lease
          PROVE  /\ runs[r].lease = tasks[a][r].lease
                 /\ runs'[r].status = "dispatched" => runs[r].status = "dispatched"
        BY <2>1, <2>2, <2>3, <2>5, CurrentLeaseWasCurrent DEF Issued
    <2> QED BY <2>1, <2>3, <2>4, <2>5 DEF Unstarted
<1>2. TasksIssued'
    BY <1>1 DEF TasksIssued, Unstarted
<1>3. SingleOwner'
    BY <1>1 DEF SingleOwner, TasksOnlyEnd
<1> QED BY <1>2, <1>3

\* A row's successor is no better known to the watchdog, and no worse.
LEMMA SeenStaysConsistent ==
    ASSUME NEW seen \in Observation, NEW old \in Row, NEW new \in Row,
           Follows(old, new), SeenConsistent(seen, old)
    PROVE  SeenConsistent(seen, new)
    BY DEF Observation, Row, Follows, SeenConsistent, NoLease

\* What is older than the limit stays older than the limit.
LEMMA StaysOld ==
    ASSUME NEW stamp \in Time, NEW limit \in Nat, NEW at \in Nat, NEW later \in Nat,
           at <= later, OlderThan(stamp, at, limit)
    PROVE  OlderThan(stamp, later, limit)
    BY DEF Time, OlderThan

\* Passes may end, or lose runs.
PassesOnlyShrink ==
    \A d \in Dispatchers :
        /\ DOMAIN watch'[d].seen \subseteq DOMAIN watch[d].seen
        /\ watch'[d].decided
              => watch[d].decided /\ DOMAIN watch'[d].verdict = DOMAIN watch'[d].seen
        /\ \A r \in DOMAIN watch'[d].seen :
              /\ watch'[d].seen[r] = watch[d].seen[r]
              /\ watch'[d].decided => watch'[d].verdict[r] = watch[d].verdict[r]

\* The rows a pass has seen are observations of runs.
LEMMA SeenTyped ==
    ASSUME NEW pass, IsPass(pass), NEW r \in DOMAIN pass.seen
    PROVE  r \in Runs /\ pass.seen[r] \in Observation
    BY DEF IsPass

LEMMA WatchKept ==
    ASSUME runs \in [Runs -> Row], runs' \in [Runs -> Row], Evolves,
           now \in Nat, now' \in Nat, now <= now',
           \A d \in Dispatchers : IsPass(watch[d]),
           WatchConsistent, PassesOnlyShrink
    PROVE  WatchConsistent'
<1>1. ASSUME NEW d \in Dispatchers, watch'[d].decided
      PROVE  DOMAIN watch'[d].verdict = DOMAIN watch'[d].seen
    BY <1>1 DEF PassesOnlyShrink
<1>2. ASSUME NEW d \in Dispatchers, NEW r \in DOMAIN watch'[d].seen
      PROVE  /\ SeenConsistent(watch'[d].seen[r], runs'[r])
             /\ watch'[d].decided /\ watch'[d].verdict[r].kind = "requeue"
                   => RequeueJustified(watch[d].seen[r])'
    <2>1. /\ r \in DOMAIN watch[d].seen /\ watch'[d].seen[r] = watch[d].seen[r]
          /\ watch'[d].decided
                => watch[d].decided /\ watch'[d].verdict[r] = watch[d].verdict[r]
        BY DEF PassesOnlyShrink
    <2>2. r \in Runs /\ watch[d].seen[r] \in Observation
        BY <2>1, SeenTyped
    <2>3. SeenConsistent(watch[d].seen[r], runs[r])
        BY <2>1 DEF WatchConsistent, PassConsistent
    <2>4. SeenConsistent(watch'[d].seen[r], runs'[r])
        BY <2>1, <2>2, <2>3, SeenStaysConsistent DEF Evolves
    <2>5. ASSUME watch'[d].decided, watch'[d].verdict[r].kind = "requeue"
          PROVE  RequeueJustified(watch[d].seen[r])'
        <3>1. RequeueJustified(watch[d].seen[r])
            BY <2>1, <2>5 DEF WatchConsistent, PassConsistent
        <3>2. watch[d].seen[r].heartbeat_at \in Time
            BY <2>2 DEF Observation
        <3>3. HeartbeatTimeout \in Nat
            BY WatchdogAssumption
        <3>4. OlderThan(watch[d].seen[r].heartbeat_at, now, HeartbeatTimeout)
                 => OlderThan(watch[d].seen[r].heartbeat_at, now', HeartbeatTimeout)
            BY <3>2, <3>3, StaysOld
        <3> QED BY <2>1, <3>1, <3>4 DEF RequeueJustified
    <2> QED BY <2>4, <2>5
<1> QED BY <1>1, <1>2 DEF WatchConsistent, PassConsistent

LEMMA SamePassesShrink ==
    ASSUME WatchConsistent, watch' = watch
    PROVE  PassesOnlyShrink
    BY DEF WatchConsistent, PassConsistent, PassesOnlyShrink

\* A step that hands no lease to anyone.
HandsOutNothing ==
    /\ Evolves
    /\ calls' \subseteq calls
    /\ \A a \in Agents : accepting'[a] \subseteq accepting[a]
    /\ OffersOnlyEnd
    /\ TasksOnlyEnd
    /\ PassesOnlyShrink

LEMMA NothingHandedOut ==
    ASSUME IInv, TypeOK', RowsConsistent', now <= now', HandsOutNothing
    PROVE  IInv'
<1>1. /\ runs \in [Runs -> Row] /\ runs' \in [Runs -> Row] /\ Evolves
      /\ now \in Nat /\ now' \in Nat /\ calls \in SUBSET Call
      /\ accepting \in [Agents -> SUBSET Accepted] /\ loop \in [Dispatchers -> Loop]
      /\ tasks \in [Agents -> [Runs -> Task]] /\ \A d \in Dispatchers : IsPass(watch[d])
      /\ CallsIssued /\ AcceptingIssued /\ OffersIssued /\ TasksIssued
      /\ WatchConsistent /\ SingleOwner
    BY DEF IInv, TypeOK, LeasesIssued, HandsOutNothing
<1>2. CallsIssued'
    BY <1>1, CallsKept DEF HandsOutNothing
<1>3. AcceptingIssued'
    BY <1>1, AcceptingKept DEF HandsOutNothing
<1>4. OffersIssued'
    BY <1>1, OffersKept DEF HandsOutNothing
<1>5. TasksIssued' /\ SingleOwner'
    BY <1>1, TasksKept DEF HandsOutNothing
<1>6. WatchConsistent'
    BY <1>1, WatchKept DEF HandsOutNothing
<1> QED BY <1>2, <1>3, <1>4, <1>5, <1>6 DEF IInv, LeasesIssued

-----------------------------------------------------------------------------
(* The invariant, action by action.                                            *)

\* The invariant holds before the first run is created.
LEMMA InitIInv == Init => IInv
<1> SUFFICES ASSUME Init PROVE IInv
    OBVIOUS
<1>1. NoRow \in Row
    BY DEF NoRow, Row, Time, NoLease
<1>2. Idle \in Loop
    BY DEF Idle, Loop, Phases, NoLease
<1>3. IsPass(NoPass)
    <2>1. NoRuns \in [{} -> Observation] /\ NoRuns \in [{} -> Decision]
        BY DEF NoRuns
    <2> QED BY <2>1 DEF IsPass, NoPass
<1>4. NoTask \in Task /\ Closed \in Conn
    BY DEF NoTask, Task, Closed, Conn, NoLease, Answers
<1>5. TypeOK
    BY <1>1, <1>2, <1>3, <1>4 DEF Init, TableInit, AgentInit, DispatcherInit, ApiInit, TypeOK, CancelPhases
<1>6. RowsConsistent
    BY TableAssumption
    DEF Init, TableInit, AgentInit, NoRow, RowsConsistent, RowConsistent, Active, Absent, NoLease
<1>7. LeasesIssued
    BY DEF Init, AgentInit, DispatcherInit, Idle, Offering,
           LeasesIssued, CallsIssued, AcceptingIssued, OffersIssued, TasksIssued
<1>8. WatchConsistent
    BY DEF Init, DispatcherInit, NoPass, NoRuns, WatchConsistent, PassConsistent
<1>9. SingleOwner
    BY DEF Init, AgentInit, SingleOwner
<1> QED BY <1>5, <1>6, <1>7, <1>8, <1>9 DEF IInv

------------------------------------------------------------------------------
(* The agent replicas. *)

LEMMA AcceptReadKeeps ==
    ASSUME IInv, NEW a \in Agents, AcceptRead(a), UNCHANGED <<dispatcherVars, apiVars>>
    PROVE  IInv'
<1>1. PICK c \in Pending(a) :
         /\ calls' = calls \ {c}
         /\ Takes(a, c)
         /\ UNCHANGED <<tableVars, conn, tasks, draining, starts, faults>>
    BY DEF AcceptRead
<1> DEFINE req == [call |-> c, deadline |-> runs[c.run].deadline_at]
<1>2. c \in calls /\ c \in Call /\ c.run \in Runs
    BY DEF Pending, IInv, TypeOK, Call
<1>3. req \in Accepted /\ req.call = c
    BY <1>2 DEF IInv, TypeOK, Row, Accepted
<1>4. accepting' = [accepting EXCEPT ![a] = @ \cup {req}]
    BY <1>1 DEF Takes
<1> HIDE DEF req
<1>5. TypeOK'
    BY <1>1, <1>2, <1>3, <1>4 DEF IInv, TypeOK, tableVars, dispatcherVars, apiVars
<1>6. AcceptingIssued'
    BY <1>1, <1>2, <1>3, <1>4
    DEF IInv, TypeOK, LeasesIssued, CallsIssued, AcceptingIssued, Issued, tableVars
<1> QED
    BY <1>1, <1>5, <1>6
    DEF IInv, RowsConsistent, LeasesIssued, CallsIssued, OffersIssued, TasksIssued, Issued,
        WatchConsistent, PassConsistent, RequeueJustified, SingleOwner,
        tableVars, dispatcherVars

\* The answer to a call leaves every connection a connection.
LEMMA AnswerTyped ==
    ASSUME conn \in [Dispatchers -> Conn], NEW c \in Call, NEW answer \in Answers,
           Answer(c, answer)
    PROVE  conn' \in [Dispatchers -> Conn]
    BY DEF Answer, Conn, Call

LEMMA RejectConflictKeeps ==
    ASSUME IInv, NEW a \in Agents, RejectConflict(a), UNCHANGED <<dispatcherVars, apiVars>>
    PROVE  IInv'
<1>1. PICK c \in Pending(a) :
         /\ calls' = calls \ {c} /\ Answer(c, "conflict")
         /\ UNCHANGED <<tableVars, accepting, tasks, draining, starts, faults>>
    BY DEF RejectConflict
<1>2. c \in Call
    BY DEF Pending, IInv, TypeOK
<1>3. conn' \in [Dispatchers -> Conn]
    BY <1>1, <1>2, AnswerTyped DEF IInv, TypeOK, Answers
<1>4. TypeOK'
    BY <1>1, <1>3 DEF IInv, TypeOK, tableVars, dispatcherVars, apiVars
<1>5. HandsOutNothing
    BY <1>1, SameRowsEvolve, SamePassesShrink
    DEF IInv, TypeOK, HandsOutNothing, OffersOnlyEnd, TasksOnlyEnd, tableVars, dispatcherVars
<1>6. RowsConsistent' /\ now <= now'
    BY <1>1 DEF IInv, TypeOK, RowsConsistent, tableVars
<1> QED BY <1>4, <1>5, <1>6, NothingHandedOut

LEMMA RejectNoCapacityKeeps ==
    ASSUME IInv, NEW a \in Agents, RejectNoCapacity(a), UNCHANGED <<dispatcherVars, apiVars>>
    PROVE  IInv'
<1>1. PICK c \in Pending(a) :
         /\ calls' = calls \ {c} /\ Answer(c, "refused")
         /\ UNCHANGED <<tableVars, accepting, tasks, draining, starts, faults>>
    BY DEF RejectNoCapacity
<1>2. c \in Call
    BY DEF Pending, IInv, TypeOK
<1>3. conn' \in [Dispatchers -> Conn]
    BY <1>1, <1>2, AnswerTyped DEF IInv, TypeOK, Answers
<1>4. TypeOK'
    BY <1>1, <1>3 DEF IInv, TypeOK, tableVars, dispatcherVars, apiVars
<1>5. HandsOutNothing
    BY <1>1, SameRowsEvolve, SamePassesShrink
    DEF IInv, TypeOK, HandsOutNothing, OffersOnlyEnd, TasksOnlyEnd, tableVars, dispatcherVars
<1>6. RowsConsistent' /\ now <= now'
    BY <1>1 DEF IInv, TypeOK, RowsConsistent, tableVars
<1> QED BY <1>4, <1>5, <1>6, NothingHandedOut

\* A replica's entry for a run is replaced, and no other.
LEMMA SetTaskTyped ==
    ASSUME tasks \in [Agents -> [Runs -> Task]], NEW a \in Agents, NEW r \in Runs,
           NEW task \in Task, SetTask(a, r, task)
    PROVE  /\ tasks' \in [Agents -> [Runs -> Task]]
           /\ tasks'[a][r] = task
           /\ \A b \in Agents, q \in Runs : b # a \/ q # r => tasks'[b][q] = tasks[b][q]
<1>1. tasks' = [tasks EXCEPT ![a] = [tasks[a] EXCEPT ![r] = task]]
    BY DEF SetTask
<1>2. [tasks[a] EXCEPT ![r] = task] \in [Runs -> Task]
    OBVIOUS
<1> QED BY <1>1, <1>2

\* Only a dispatched row may become running.
LEMMA RunsFromDispatched ==
    ASSUME NEW status, CanTransition(status, "running")
    PROVE  status = "dispatched"
    BY DEF CanTransition, Transitions, Statuses, Active, Terminal

(***************************************************************************)
(* mark_running: the start is paid for by the attempt of the claim, and,   *)
(* because the row was still dispatched under the lease, no other task     *)
(* holds that lease.                                                       *)
(***************************************************************************)
LEMMA MarkRunningKeeps ==
    ASSUME IInv, NEW a \in Agents, NEW req \in accepting[a], NEW created \in BOOLEAN,
           MayMove(runs[req.call.run], req.call.lease, "running"),
           MarkRunning(a, req, created),
           NEW answer \in Answers, Answer(req.call, answer),
           UNCHANGED <<dispatcherVars, apiVars>>
    PROVE  IInv'
<1> DEFINE c == req.call
           row == RunningRow(runs[c.run], req.deadline)
<1>1. /\ req.deadline \in Time /\ c \in Call
      /\ c.run \in Runs /\ c.lease \in Nat /\ Issued(c.run, c.lease)
    BY DEF IInv, TypeOK, LeasesIssued, AcceptingIssued, Accepted, Call
<1>2. runs[c.run] \in Row /\ starts[c.run] \in Nat /\ now \in Nat
    BY <1>1 DEF IInv, TypeOK
<1>3. runs[c.run].status = "dispatched" /\ runs[c.run].lease = c.lease
    BY RunsFromDispatched DEF MayMove
<1>4. RowConsistent(runs[c.run], starts[c.run])
    BY <1>1 DEF IInv, RowsConsistent
<1>5. /\ row \in Row
      /\ Follows(runs[c.run], row)
      /\ RowConsistent(row, starts[c.run] + 1)
      /\ row.lease = c.lease
      /\ row.status = "running"
    BY <1>1, <1>2, <1>3, <1>4, RunningRowFollows
<1>6. /\ starts' = [starts EXCEPT ![c.run] = @ + 1]
      /\ accepting' = [accepting EXCEPT ![a] = @ \ {req}]
      /\ Write(c.run, row)
      /\ UNCHANGED <<calls, draining, faults>>
    BY DEF MarkRunning
<1>7. starts'[c.run] = starts[c.run] + 1 /\ \A q \in Runs : q # c.run => starts'[q] = starts[q]
    BY <1>1, <1>6 DEF IInv, TypeOK
<1>8. runs' \in [Runs -> Row] /\ now' = now /\ Evolves /\ RowsConsistent'
    BY <1>1, <1>2, <1>5, <1>6, <1>7, WriteEvolves DEF IInv, TypeOK
<1>9. \/ tasks' = tasks
      \/ SetTask(a, c.run, [lease |-> c.lease, outcome |-> Undecided])
    BY DEF MarkRunning
<1>10. [lease |-> c.lease, outcome |-> Undecided] \in Task
    BY <1>1 DEF Task
<1>11. TypeOK'
    <2>1. conn' \in [Dispatchers -> Conn]
        BY <1>1, AnswerTyped DEF IInv, TypeOK
    <2>2. tasks' \in [Agents -> [Runs -> Task]]
        BY <1>1, <1>9, <1>10, SetTaskTyped DEF IInv, TypeOK
    <2>3. starts' \in [Runs -> Nat] /\ accepting' \in [Agents -> SUBSET Accepted]
        BY <1>1, <1>6 DEF IInv, TypeOK
    <2> QED BY <1>6, <1>8, <2>1, <2>2, <2>3 DEF IInv, TypeOK, dispatcherVars, apiVars
<1>12. runs'[c.run] = row
    BY <1>1, <1>6 DEF Write, IInv, TypeOK
<1>13. ASSUME tasks' = tasks PROVE IInv'
    <2>1. HandsOutNothing
        BY <1>6, <1>8, <1>13, SamePassesShrink
        DEF IInv, TypeOK, HandsOutNothing, OffersOnlyEnd, TasksOnlyEnd, dispatcherVars
    <2> QED BY <1>8, <1>11, <2>1, NothingHandedOut DEF IInv, TypeOK
<1>14. ASSUME SetTask(a, c.run, [lease |-> c.lease, outcome |-> Undecided])
       PROVE  IInv'
    <2>1. \A b \in Agents, r \in Runs :
             b # a \/ r # c.run => tasks'[b][r] = tasks[b][r]
        BY <1>1, <1>10, <1>14, SetTaskTyped DEF IInv, TypeOK
    <2>2. tasks'[a][c.run].lease = c.lease
        BY <1>1, <1>10, <1>14, SetTaskTyped DEF IInv, TypeOK
    <2>3. \A b \in Agents : tasks[b][c.run] # NoTask => tasks[b][c.run].lease # c.lease
        BY <1>1, <1>3 DEF IInv, LeasesIssued, TasksIssued, Unstarted
    <2>4. ASSUME NEW b \in Agents, NEW r \in Runs, b # a \/ r # c.run, tasks'[b][r] # NoTask
          PROVE  /\ Issued(r, tasks[b][r].lease)'
                 /\ runs'[r].lease = tasks'[b][r].lease
                       => /\ runs[r].lease = tasks[b][r].lease
                          /\ runs'[r].status = "dispatched" => runs[r].status = "dispatched"
        <3>1. /\ tasks'[b][r] = tasks[b][r] /\ tasks[b][r].lease \in Nat
              /\ Issued(r, tasks[b][r].lease)
            BY <2>1, <2>4 DEF IInv, TypeOK, Task, LeasesIssued, TasksIssued
        <3>2. Issued(r, tasks[b][r].lease)'
            BY <1>8, <3>1, IssuedKept DEF IInv, TypeOK, Issued
        <3>3. runs'[r].lease = tasks'[b][r].lease
                 => /\ runs[r].lease = tasks[b][r].lease
                    /\ runs'[r].status = "dispatched" => runs[r].status = "dispatched"
            BY <1>8, <3>1, CurrentLeaseWasCurrent DEF IInv, TypeOK, Issued
        <3> QED BY <3>2, <3>3
    <2>5. TasksIssued'
        <3>1. Issued(c.run, c.lease)'
            BY <1>1, <1>8, IssuedKept DEF IInv, TypeOK, Issued
        <3>2. ~Unstarted(runs'[c.run], c.lease)
            BY <1>5, <1>12 DEF Unstarted
        <3>3. ASSUME NEW b \in Agents, NEW r \in Runs, tasks'[b][r] # NoTask
              PROVE  Issued(r, tasks[b][r].lease)' /\ ~Unstarted(runs'[r], tasks'[b][r].lease)
            <4>1. CASE b = a /\ r = c.run
                BY <2>2, <3>1, <3>2, <4>1 DEF Issued
            <4>2. CASE b # a \/ r # c.run
                BY <2>1, <2>4, <3>3, <4>2 DEF IInv, LeasesIssued, TasksIssued, Unstarted
            <4> QED BY <4>1, <4>2
        <3> QED BY <3>3 DEF TasksIssued
    <2>6. SingleOwner'
        BY <1>3, <1>5, <1>12, <2>1, <2>2, <2>3, <2>4 DEF IInv, SingleOwner
    <2>7. CallsIssued'
        BY <1>6, <1>8, CallsKept DEF IInv, TypeOK, LeasesIssued
    <2>8. AcceptingIssued'
        BY <1>6, <1>8, AcceptingKept DEF IInv, TypeOK, LeasesIssued
    <2>9. OffersIssued'
        BY <1>8, OffersKept DEF IInv, TypeOK, LeasesIssued, OffersOnlyEnd, dispatcherVars
    <2>10. WatchConsistent'
        BY <1>8, SamePassesShrink, WatchKept DEF IInv, TypeOK, dispatcherVars
    <2> QED BY <1>8, <1>11, <2>5, <2>6, <2>7, <2>8, <2>9, <2>10 DEF IInv, LeasesIssued
<1> QED BY <1>9, <1>13, <1>14

LEMMA AcceptCommitKeeps ==
    ASSUME IInv, NEW a \in Agents, AcceptCommit(a), UNCHANGED <<dispatcherVars, apiVars>>
    PROVE  IInv'
    BY MarkRunningKeeps DEF AcceptCommit, Answers

LEMMA AcceptFailsKeeps ==
    ASSUME IInv, NEW a \in Agents, AcceptFails(a), UNCHANGED <<dispatcherVars, apiVars>>
    PROVE  IInv'
    BY MarkRunningKeeps DEF AcceptFails, Answers

LEMMA AcceptLostKeeps ==
    ASSUME IInv, NEW a \in Agents, AcceptLost(a), UNCHANGED <<dispatcherVars, apiVars>>
    PROVE  IInv'
<1>1. PICK req \in accepting[a] :
         /\ accepting' = [accepting EXCEPT ![a] = @ \ {req}] /\ Answer(req.call, "conflict")
         /\ UNCHANGED <<tableVars, calls, tasks, draining, starts, faults>>
    BY DEF AcceptLost
<1>2. req.call \in Call
    BY DEF IInv, TypeOK, Accepted
<1>3. conn' \in [Dispatchers -> Conn]
    BY <1>1, <1>2, AnswerTyped DEF IInv, TypeOK, Answers
<1>4. TypeOK'
    BY <1>1, <1>3 DEF IInv, TypeOK, tableVars, dispatcherVars, apiVars
<1>5. HandsOutNothing
    BY <1>1, SameRowsEvolve, SamePassesShrink
    DEF IInv, TypeOK, HandsOutNothing, OffersOnlyEnd, TasksOnlyEnd, tableVars, dispatcherVars
<1>6. RowsConsistent' /\ now <= now'
    BY <1>1 DEF IInv, TypeOK, RowsConsistent, tableVars
<1> QED BY <1>4, <1>5, <1>6, NothingHandedOut

LEMMA HeartbeatKeeps ==
    ASSUME IInv, NEW a \in Agents, NEW r \in Runs, Heartbeat(a, r),
           UNCHANGED <<dispatcherVars, apiVars>>
    PROVE  IInv'
<1>1. Write(r, [runs[r] EXCEPT !.heartbeat_at = now]) /\ UNCHANGED agentVars
    BY DEF Heartbeat
<1>2. /\ [runs[r] EXCEPT !.heartbeat_at = now] \in Row
      /\ Follows(runs[r], [runs[r] EXCEPT !.heartbeat_at = now])
      /\ RowConsistent([runs[r] EXCEPT !.heartbeat_at = now], starts[r])
    BY HeartbeatFollows DEF IInv, TypeOK, RowsConsistent
<1>3. runs' \in [Runs -> Row] /\ now' = now /\ Evolves /\ RowsConsistent'
    BY <1>1, <1>2, WriteEvolves DEF IInv, TypeOK, agentVars
<1>4. TypeOK'
    BY <1>1, <1>3 DEF IInv, TypeOK, agentVars, dispatcherVars, apiVars
<1>5. HandsOutNothing
    BY <1>1, <1>3, SamePassesShrink
    DEF IInv, TypeOK, HandsOutNothing, OffersOnlyEnd, TasksOnlyEnd, agentVars, dispatcherVars
<1> QED BY <1>3, <1>4, <1>5, NothingHandedOut DEF IInv, TypeOK

\* A task that decides or ends keeps its lease until then, and no row moves.
LEMMA TaskStepKeeps ==
    ASSUME IInv, NEW a \in Agents, NEW r \in Runs, NEW task \in Task,
           SetTask(a, r, task),
           task # NoTask => tasks[a][r] # NoTask /\ task.lease = tasks[a][r].lease,
           UNCHANGED <<tableVars, calls, conn, accepting, draining, starts, faults>>,
           UNCHANGED <<dispatcherVars, apiVars>>
    PROVE  IInv'
<1>1. /\ tasks' \in [Agents -> [Runs -> Task]]
      /\ tasks'[a][r] = task
      /\ \A b \in Agents, q \in Runs : b # a \/ q # r => tasks'[b][q] = tasks[b][q]
    BY SetTaskTyped DEF IInv, TypeOK
<1>2. TypeOK'
    BY <1>1 DEF IInv, TypeOK, tableVars, dispatcherVars, apiVars
<1>3. TasksOnlyEnd
    BY <1>1 DEF TasksOnlyEnd
<1>4. HandsOutNothing
    BY <1>3, SameRowsEvolve, SamePassesShrink
    DEF IInv, TypeOK, HandsOutNothing, OffersOnlyEnd, tableVars, dispatcherVars
<1>5. RowsConsistent' /\ now <= now'
    BY DEF IInv, TypeOK, RowsConsistent, tableVars
<1> QED BY <1>2, <1>4, <1>5, NothingHandedOut

LEMMA NoTaskTyped == NoTask \in Task
    BY DEF NoTask, Task, NoLease

LEMMA LeaseLostKeeps ==
    ASSUME IInv, NEW a \in Agents, NEW r \in Runs, LeaseLost(a, r),
           UNCHANGED <<dispatcherVars, apiVars>>
    PROVE  IInv'
    BY NoTaskTyped, TaskStepKeeps DEF LeaseLost, Ends

LEMMA SettleFailsKeeps ==
    ASSUME IInv, NEW a \in Agents, NEW r \in Runs, SettleFails(a, r),
           UNCHANGED <<dispatcherVars, apiVars>>
    PROVE  IInv'
    BY NoTaskTyped, TaskStepKeeps DEF SettleFails, Ends

\* A decided task is the same task.
LEMMA DecidesKeeps ==
    ASSUME IInv, NEW a \in Agents, NEW r \in Runs, Working(a, r),
           NEW outcome \in Terminal, Decides(a, r, outcome),
           UNCHANGED <<dispatcherVars, apiVars>>
    PROVE  IInv'
<1>1. tasks[a][r] \in Task
    BY DEF IInv, TypeOK
<1>2. [tasks[a][r] EXCEPT !.outcome = outcome] \in Task
    BY <1>1 DEF Task
<1>3. [tasks[a][r] EXCEPT !.outcome = outcome].lease = tasks[a][r].lease
    BY <1>1 DEF Task
<1> QED BY <1>2, <1>3, TaskStepKeeps DEF Decides, Working

LEMMA ObserveCancelKeeps ==
    ASSUME IInv, NEW a \in Agents, NEW r \in Runs, ObserveCancel(a, r),
           UNCHANGED <<dispatcherVars, apiVars>>
    PROVE  IInv'
    BY DecidesKeeps DEF ObserveCancel, Terminal

LEMMA DeadlineFiresKeeps ==
    ASSUME IInv, NEW a \in Agents, NEW r \in Runs, DeadlineFires(a, r),
           UNCHANGED <<dispatcherVars, apiVars>>
    PROVE  IInv'
    BY DecidesKeeps DEF DeadlineFires, Terminal

LEMMA CompleteKeeps ==
    ASSUME IInv, NEW a \in Agents, NEW r \in Runs, Complete(a, r),
           UNCHANGED <<dispatcherVars, apiVars>>
    PROVE  IInv'
    BY DecidesKeeps DEF Complete

\* The terminal write: the row keeps its lease, the task is gone.
LEMMA SettleKeeps ==
    ASSUME IInv, NEW a \in Agents, NEW r \in Runs, Settle(a, r),
           UNCHANGED <<dispatcherVars, apiVars>>
    PROVE  IInv'
<1>1. /\ SetTask(a, r, NoTask)
      /\ UNCHANGED <<calls, conn, accepting, draining, starts, faults>>
    BY DEF Settle, Ends
<1>2. CASE UNCHANGED tableVars
    BY <1>1, <1>2, NoTaskTyped, TaskStepKeeps
<1>3. CASE /\ MayMove(runs[r], tasks[a][r].lease, tasks[a][r].outcome)
           /\ Write(r, SettledRow(runs[r], tasks[a][r].outcome))
    <2>1. tasks[a][r].outcome \in Terminal
        BY DEF Settle, Settling, IInv, TypeOK, Task
    <2>2. /\ SettledRow(runs[r], tasks[a][r].outcome) \in Row
          /\ Follows(runs[r], SettledRow(runs[r], tasks[a][r].outcome))
          /\ RowConsistent(SettledRow(runs[r], tasks[a][r].outcome), starts[r])
        BY <2>1, SettledRowFollows DEF IInv, TypeOK, RowsConsistent
    <2>3. runs' \in [Runs -> Row] /\ now' = now /\ Evolves /\ RowsConsistent'
        BY <1>1, <1>3, <2>2, WriteEvolves DEF IInv, TypeOK
    <2>4. /\ tasks' \in [Agents -> [Runs -> Task]]
          /\ tasks'[a][r] = NoTask
          /\ \A b \in Agents, q \in Runs : b # a \/ q # r => tasks'[b][q] = tasks[b][q]
        BY <1>1, NoTaskTyped, SetTaskTyped DEF IInv, TypeOK
    <2>5. TypeOK'
        BY <1>1, <2>3, <2>4 DEF IInv, TypeOK, dispatcherVars, apiVars
    <2>6. TasksOnlyEnd
        BY <2>4 DEF TasksOnlyEnd
    <2>7. HandsOutNothing
        BY <1>1, <2>3, <2>6, SamePassesShrink
        DEF IInv, HandsOutNothing, OffersOnlyEnd, dispatcherVars
    <2> QED BY <2>3, <2>5, <2>7, NothingHandedOut DEF IInv, TypeOK
<1> QED BY <1>2, <1>3 DEF Settle

LEMMA BeginDrainingKeeps ==
    ASSUME IInv, NEW a \in Agents, BeginDraining(a), UNCHANGED <<dispatcherVars, apiVars>>
    PROVE  IInv'
<1>1. UNCHANGED <<tableVars, calls, conn, accepting, tasks, starts>>
    BY DEF BeginDraining
<1>2. TypeOK'
    BY <1>1 DEF BeginDraining, IInv, TypeOK, tableVars, dispatcherVars, apiVars
<1>3. HandsOutNothing
    BY <1>1, SameRowsEvolve, SamePassesShrink
    DEF IInv, TypeOK, HandsOutNothing, OffersOnlyEnd, TasksOnlyEnd, tableVars, dispatcherVars
<1>4. RowsConsistent' /\ now <= now'
    BY <1>1 DEF IInv, TypeOK, RowsConsistent, tableVars
<1> QED BY <1>2, <1>3, <1>4, NothingHandedOut

LEMMA AgentCrashKeeps ==
    ASSUME IInv, NEW a \in Agents, AgentCrash(a), UNCHANGED <<dispatcherVars, apiVars>>
    PROVE  IInv'
<1>1. UNCHANGED <<tableVars, calls, conn, starts>>
    BY DEF AgentCrash
<1>2. /\ accepting' = [accepting EXCEPT ![a] = {}]
      /\ tasks' = [tasks EXCEPT ![a] = [r \in Runs |-> NoTask]]
    BY DEF AgentCrash
<1>3. TypeOK'
    <2>1. tasks' \in [Agents -> [Runs -> Task]] /\ accepting' \in [Agents -> SUBSET Accepted]
        BY <1>2, NoTaskTyped DEF IInv, TypeOK
    <2>2. draining' \in [Agents -> BOOLEAN] /\ faults' \in Nat
        BY DEF AgentCrash, IInv, TypeOK
    <2> QED BY <1>1, <2>1, <2>2 DEF IInv, TypeOK, tableVars, dispatcherVars, apiVars
<1>4. TasksOnlyEnd /\ \A b \in Agents : accepting'[b] \subseteq accepting[b]
    BY <1>2 DEF IInv, TypeOK, TasksOnlyEnd
<1>5. HandsOutNothing
    BY <1>1, <1>4, SameRowsEvolve, SamePassesShrink
    DEF IInv, TypeOK, HandsOutNothing, OffersOnlyEnd, tableVars, dispatcherVars
<1>6. RowsConsistent' /\ now <= now'
    BY <1>1 DEF IInv, TypeOK, RowsConsistent, tableVars
<1> QED BY <1>3, <1>5, <1>6, NothingHandedOut

LEMMA AgentKeeps == ASSUME IInv, NEW a \in Agents, Agent(a) PROVE IInv'
<1>1. UNCHANGED <<dispatcherVars, apiVars>>
    BY DEF Agent
<1>2. CASE AcceptRead(a)
    BY <1>1, <1>2, AcceptReadKeeps
<1>3. CASE AcceptCommit(a)
    BY <1>1, <1>3, AcceptCommitKeeps
<1>4. CASE AcceptLost(a)
    BY <1>1, <1>4, AcceptLostKeeps
<1>5. CASE AcceptFails(a)
    BY <1>1, <1>5, AcceptFailsKeeps
<1>6. CASE RejectConflict(a)
    BY <1>1, <1>6, RejectConflictKeeps
<1>7. CASE RejectNoCapacity(a)
    BY <1>1, <1>7, RejectNoCapacityKeeps
<1>8. CASE BeginDraining(a)
    BY <1>1, <1>8, BeginDrainingKeeps
<1>9. CASE AgentCrash(a)
    BY <1>1, <1>9, AgentCrashKeeps
<1>10. CASE \E r \in Runs :
              \/ Heartbeat(a, r) \/ LeaseLost(a, r) \/ ObserveCancel(a, r)
              \/ DeadlineFires(a, r) \/ Complete(a, r)
              \/ Settle(a, r) \/ SettleFails(a, r)
    BY <1>1, <1>10, HeartbeatKeeps, LeaseLostKeeps, ObserveCancelKeeps,
       DeadlineFiresKeeps, CompleteKeeps, SettleKeeps, SettleFailsKeeps
<1> QED
    BY <1>2, <1>3, <1>4, <1>5, <1>6, <1>7, <1>8, <1>9, <1>10 DEF Agent, AgentStep

LEMMA NetworkKeeps == ASSUME IInv, Network PROVE IInv'
<1>1. /\ calls' \subseteq calls
      /\ UNCHANGED <<tableVars, conn, accepting, tasks, draining, starts, faults>>
      /\ UNCHANGED <<dispatcherVars, apiVars>>
    BY DEF Network, LoseCall
<1>2. TypeOK'
    BY <1>1 DEF IInv, TypeOK, tableVars, dispatcherVars, apiVars
<1>3. HandsOutNothing
    BY <1>1, SameRowsEvolve, SamePassesShrink
    DEF IInv, TypeOK, HandsOutNothing, OffersOnlyEnd, TasksOnlyEnd, tableVars, dispatcherVars
<1>4. RowsConsistent' /\ now <= now'
    BY <1>1 DEF IInv, TypeOK, RowsConsistent, tableVars
<1> QED BY <1>2, <1>3, <1>4, NothingHandedOut

LEMMA TimePassesKeeps == ASSUME IInv, TimePasses PROVE IInv'
<1>1. now' = now + 1 /\ UNCHANGED <<runs, agentVars, dispatcherVars, apiVars>>
    BY DEF TimePasses, Tick
<1>2. TypeOK' /\ now <= now'
    BY <1>1 DEF IInv, TypeOK, agentVars, dispatcherVars, apiVars
<1>3. HandsOutNothing
    BY <1>1, SameRowsEvolve, SamePassesShrink
    DEF IInv, TypeOK, HandsOutNothing, OffersOnlyEnd, TasksOnlyEnd, agentVars, dispatcherVars
<1>4. RowsConsistent'
    BY <1>1 DEF IInv, RowsConsistent, agentVars
<1> QED BY <1>2, <1>3, <1>4, NothingHandedOut

------------------------------------------------------------------------------
(* The dispatch loops. *)

\* A loop that moves on, or lets go, without taking a run in hand.
LEMMA LoopStepKeeps ==
    ASSUME IInv, NEW d \in Dispatchers, NEW next \in Loop, Goto(d, next),
           next.phase \in Offering
              => /\ loop[d].phase \in Offering
                 /\ next.run = loop[d].run /\ next.lease = loop[d].lease,
           conn' \in [Dispatchers -> Conn],
           UNCHANGED <<tableVars, calls, accepting, tasks, draining, starts, faults, watch>>,
           UNCHANGED apiVars
    PROVE  IInv'
<1>1. loop' = [loop EXCEPT ![d] = next] /\ loop' \in [Dispatchers -> Loop]
    BY DEF Goto, IInv, TypeOK
<1>2. TypeOK'
    BY <1>1 DEF IInv, TypeOK, tableVars, apiVars
<1>3. OffersOnlyEnd
    BY <1>1 DEF IInv, TypeOK, OffersOnlyEnd
<1>4. HandsOutNothing
    BY <1>3, SameRowsEvolve, SamePassesShrink
    DEF IInv, TypeOK, HandsOutNothing, TasksOnlyEnd, tableVars
<1>5. RowsConsistent' /\ now <= now'
    BY DEF IInv, TypeOK, RowsConsistent, tableVars
<1> QED BY <1>2, <1>4, <1>5, NothingHandedOut

LEMMA IdleTyped == Idle \in Loop /\ Idle.phase \notin Offering
    BY DEF Idle, Loop, Phases, Offering, NoLease

LEMMA CheckRoomKeeps ==
    ASSUME IInv, NEW d \in Dispatchers, CheckRoom(d), UNCHANGED apiVars
    PROVE  IInv'
<1>1. [Idle EXCEPT !.phase = "room"] \in Loop
    BY DEF Idle, Loop, Phases, NoLease
<1>2. [Idle EXCEPT !.phase = "room"].phase \notin Offering
    BY DEF Idle, Offering
<1>3. conn' \in [Dispatchers -> Conn]
    BY DEF CheckRoom, agentVars, IInv, TypeOK
<1> QED BY <1>1, <1>2, <1>3, LoopStepKeeps DEF CheckRoom, agentVars

LEMMA SurveyKeeps ==
    ASSUME IInv, NEW d \in Dispatchers, Survey(d), UNCHANGED apiVars
    PROVE  IInv'
<1>1. PICK ranked \in SUBSET Agents :
         Goto(d, IF ranked = {} THEN Idle
                 ELSE [loop[d] EXCEPT !.phase = "ranked", !.ranked = ranked])
    BY DEF Survey
<1>2. loop[d] \in Loop
    BY DEF IInv, TypeOK
<1>3. /\ [loop[d] EXCEPT !.phase = "ranked", !.ranked = ranked] \in Loop
      /\ [loop[d] EXCEPT !.phase = "ranked", !.ranked = ranked].phase \notin Offering
    BY <1>2 DEF Loop, Phases, Offering
<1>4. conn' \in [Dispatchers -> Conn]
    BY DEF Survey, agentVars, IInv, TypeOK
<1>5. UNCHANGED <<tableVars, calls, accepting, tasks, draining, starts, faults, watch>>
    BY DEF Survey, agentVars
<1> QED BY <1>1, <1>3, <1>4, <1>5, IdleTyped, LoopStepKeeps

LEMMA ClaimNothingKeeps ==
    ASSUME IInv, NEW d \in Dispatchers, ClaimNothing(d), UNCHANGED apiVars
    PROVE  IInv'
<1>1. conn' \in [Dispatchers -> Conn]
    BY DEF ClaimNothing, agentVars, IInv, TypeOK
<1> QED BY <1>1, IdleTyped, LoopStepKeeps DEF ClaimNothing, agentVars

LEMMA HangUpTyped ==
    ASSUME IInv, NEW d \in Dispatchers, HangUp(d)
    PROVE  conn' \in [Dispatchers -> Conn]
    BY DEF HangUp, IInv, TypeOK, Closed, Conn, Answers

LEMMA DispatchedKeeps ==
    ASSUME IInv, NEW d \in Dispatchers, Dispatched(d), UNCHANGED apiVars
    PROVE  IInv'
    BY IdleTyped, HangUpTyped, LoopStepKeeps DEF Dispatched, HangUp

LEMMA NotDispatchedKeeps ==
    ASSUME IInv, NEW d \in Dispatchers, NotDispatched(d), UNCHANGED apiVars
    PROVE  IInv'
<1> DEFINE next == [loop[d] EXCEPT !.phase = IF loop[d].ranked = {} THEN "return" ELSE "offer"]
<1>1. loop[d] \in Loop
    BY DEF IInv, TypeOK
<1>2. next \in Loop /\ next.run = loop[d].run /\ next.lease = loop[d].lease
    BY <1>1 DEF Loop, Phases, Offering
<1>3. loop[d].phase \in Offering
    BY DEF NotDispatched, Offering
<1>4. Goto(d, next) /\ HangUp(d)
    BY DEF NotDispatched
<1>5. conn' \in [Dispatchers -> Conn]
    BY <1>4, HangUpTyped
<1> QED BY <1>2, <1>3, <1>4, <1>5, LoopStepKeeps DEF HangUp

(***************************************************************************)
(* The claim: the lease is one nobody holds, so neither the tasks nor what *)
(* any watchdog has seen can be about it.                                  *)
(***************************************************************************)
LEMMA ClaimKeeps ==
    ASSUME IInv, NEW d \in Dispatchers, Claim(d), UNCHANGED apiVars
    PROVE  IInv'
<1>1. PICK r \in Runs :
         /\ Claimable(runs[r])
         /\ Write(r, ClaimedRow(runs[r]))
         /\ \/ Goto(d, [loop[d] EXCEPT !.phase   = "offer",
                                       !.run     = r,
                                       !.lease   = ClaimedRow(runs[r]).lease,
                                       !.attempt = ClaimedRow(runs[r]).attempts])
            \/ Goto(d, Idle)
    BY DEF Claim
<1> DEFINE row  == ClaimedRow(runs[r])
           next == [loop[d] EXCEPT !.phase = "offer", !.run = r,
                                   !.lease = row.lease, !.attempt = row.attempts]
<1>2. UNCHANGED <<agentVars, watch, apiVars>>
    BY DEF Claim
<1>3. /\ row \in Row /\ Follows(runs[r], row) /\ RowConsistent(row, starts[r])
      /\ NoLease < row.lease /\ row.lease = row.minted
    BY <1>1, ClaimedRowFollows DEF Claimable, IInv, TypeOK, RowsConsistent
<1>4. runs' \in [Runs -> Row] /\ now' = now /\ Evolves /\ RowsConsistent' /\ runs'[r] = row
    BY <1>1, <1>2, <1>3, WriteEvolves DEF IInv, TypeOK, agentVars, Write
<1>5. loop[d] \in Loop /\ row.lease \in Nat /\ row.attempts \in Nat
    BY <1>3 DEF IInv, TypeOK, Row
<1>6. next \in Loop /\ next.run = r /\ next.lease = row.lease
    BY <1>5 DEF Loop, Phases, Offering
<1>7. loop' = [loop EXCEPT ![d] = next] \/ loop' = [loop EXCEPT ![d] = Idle]
    BY <1>1 DEF Goto
<1>8. loop' \in [Dispatchers -> Loop]
    BY <1>6, <1>7, IdleTyped DEF IInv, TypeOK
<1>9. TypeOK'
    BY <1>2, <1>4, <1>8 DEF IInv, TypeOK, agentVars, apiVars
<1>10. OffersIssued'
    <2>1. ASSUME NEW e \in Dispatchers, loop'[e].phase \in Offering
          PROVE  loop'[e].run \in Runs /\ Issued(loop[e].run, loop[e].lease)'
        <3>1. CASE e # d
            <4>1. loop'[e] = loop[e]
                BY <1>7, <3>1 DEF IInv, TypeOK
            <4>2. loop[e].run \in Runs /\ Issued(loop[e].run, loop[e].lease) /\ loop[e].lease \in Nat
                BY <2>1, <4>1 DEF IInv, TypeOK, Loop, LeasesIssued, OffersIssued
            <4>3. NoLease < loop[e].lease /\ loop[e].lease <= runs'[loop[e].run].minted
                BY <1>4, <4>2, IssuedKept DEF IInv, TypeOK
            <4> QED BY <4>1, <4>2, <4>3 DEF Issued
        <3>2. CASE e = d
            <4>1. loop'[e] = next
                BY <1>7, <2>1, <3>2, IdleTyped DEF IInv, TypeOK
            <4> QED BY <1>3, <1>4, <1>5, <1>6, <4>1 DEF Issued
        <3> QED BY <3>1, <3>2
    <2> QED BY <2>1 DEF OffersIssued
<1>11. CallsIssued'
    BY <1>2, <1>4, CallsKept DEF IInv, TypeOK, LeasesIssued, agentVars
<1>12. AcceptingIssued'
    BY <1>2, <1>4, AcceptingKept DEF IInv, TypeOK, LeasesIssued, agentVars
<1>13. TasksIssued' /\ SingleOwner'
    BY <1>2, <1>4, TasksKept DEF IInv, TypeOK, LeasesIssued, TasksOnlyEnd, agentVars
<1>14. WatchConsistent'
    BY <1>2, <1>4, SamePassesShrink, WatchKept DEF IInv, TypeOK
<1> QED BY <1>4, <1>9, <1>10, <1>11, <1>12, <1>13, <1>14 DEF IInv, LeasesIssued

\* The call carries the lease of the run in hand.
LEMMA OfferKeeps ==
    ASSUME IInv, NEW d \in Dispatchers, Offer(d), UNCHANGED apiVars
    PROVE  IInv'
<1>1. PICK a \in loop[d].ranked :
         LET c == [by |-> d, to |-> a, run |-> loop[d].run,
                   lease |-> loop[d].lease, attempt |-> loop[d].attempt]
         IN /\ calls' = calls \cup {c}
            /\ conn' = [conn EXCEPT ![d] = [call |-> c, answer |-> "none"]]
            /\ Goto(d, [loop[d] EXCEPT !.phase = "waiting", !.ranked = @ \ {a}])
    BY DEF Offer
<1> DEFINE c == [by |-> d, to |-> a, run |-> loop[d].run,
                 lease |-> loop[d].lease, attempt |-> loop[d].attempt]
           next == [loop[d] EXCEPT !.phase = "waiting", !.ranked = @ \ {a}]
<1>2. UNCHANGED <<tableVars, accepting, tasks, draining, starts, faults, watch, apiVars>>
    BY DEF Offer
<1>3. loop[d] \in Loop /\ loop[d].phase \in Offering /\ a \in Agents
    BY <1>1 DEF Offer, IInv, TypeOK, Loop, Offering
<1>4. loop[d].run \in Runs /\ Issued(loop[d].run, loop[d].lease)
    BY <1>3 DEF IInv, LeasesIssued, OffersIssued
<1>5. c \in Call /\ c.run = loop[d].run /\ c.lease = loop[d].lease
    BY <1>3, <1>4 DEF Call, Loop
<1>6. next \in Loop /\ next.run = loop[d].run /\ next.lease = loop[d].lease
    BY <1>3 DEF Loop, Phases, Offering
<1>7. conn' \in [Dispatchers -> Conn]
    <2>1. [call |-> c, answer |-> "none"] \in Conn
        BY <1>5 DEF Conn, Answers
    <2> QED BY <1>1, <2>1 DEF IInv, TypeOK
<1>8. loop' = [loop EXCEPT ![d] = next] /\ loop' \in [Dispatchers -> Loop]
    BY <1>1, <1>6 DEF Goto, IInv, TypeOK
<1>9. TypeOK'
    BY <1>1, <1>2, <1>5, <1>7, <1>8 DEF IInv, TypeOK, tableVars, apiVars
<1>10. CallsIssued'
    BY <1>1, <1>2, <1>4, <1>5 DEF IInv, LeasesIssued, CallsIssued, Issued, tableVars
<1>11. OffersIssued'
    <2>1. OffersOnlyEnd
        BY <1>3, <1>6, <1>8 DEF IInv, TypeOK, OffersOnlyEnd
    <2> QED BY <1>2, <2>1, SameRowsEvolve, OffersKept DEF IInv, TypeOK, LeasesIssued, tableVars
<1> QED
    BY <1>2, <1>9, <1>10, <1>11
    DEF IInv, RowsConsistent, LeasesIssued, AcceptingIssued, TasksIssued, Issued,
        WatchConsistent, PassConsistent, RequeueJustified, SingleOwner, tableVars

\* The wait before an attempt is a number of seconds.
LEMMA BackoffTyped == ASSUME NEW n \in Nat PROVE Backoff(n) \in Nat
<1>1. CASE n <= 1 \/ Len(BackoffSeconds) = 0
    BY <1>1 DEF Backoff
<1>2. CASE ~(n <= 1 \/ Len(BackoffSeconds) = 0)
    <2> DEFINE i == IF n - 1 < Len(BackoffSeconds) THEN n - 1 ELSE Len(BackoffSeconds)
    <2>1. BackoffSeconds \in Seq(Nat) /\ Len(BackoffSeconds) \in Nat
        BY DispatcherAssumption DEF Validate
    <2>2. i \in 1 .. Len(BackoffSeconds)
        BY <1>2, <2>1
    <2>3. BackoffSeconds[i] \in Nat
        BY <2>1, <2>2
    <2> QED BY <1>2, <2>3 DEF Backoff
<1> QED BY <1>1, <1>2

LEMMA ReturnUnstartedKeeps ==
    ASSUME IInv, NEW d \in Dispatchers, ReturnUnstarted(d), UNCHANGED apiVars
    PROVE  IInv'
<1>1. /\ Goto(d, Idle) /\ UNCHANGED <<agentVars, watch>>
      /\ conn' \in [Dispatchers -> Conn]
    BY DEF ReturnUnstarted, agentVars, IInv, TypeOK
<1>2. CASE UNCHANGED tableVars
    BY <1>1, <1>2, IdleTyped, LoopStepKeeps DEF agentVars
<1>3. CASE /\ Unstarted(runs[loop[d].run], loop[d].lease)
           /\ Write(loop[d].run, ReturnedRow(runs[loop[d].run], Backoff(2)))
    <2> DEFINE r == loop[d].run
               row == ReturnedRow(runs[r], Backoff(2))
    <2>1. r \in Runs
        BY DEF ReturnUnstarted, Offering, IInv, LeasesIssued, OffersIssued
    <2>2. Backoff(2) \in Nat
        BY BackoffTyped
    <2>3. row \in Row /\ Follows(runs[r], row) /\ RowConsistent(row, starts[r])
        BY <1>3, <2>1, <2>2, ReturnedRowFollows DEF Unstarted, IInv, TypeOK, RowsConsistent
    <2>4. runs' \in [Runs -> Row] /\ now' = now /\ Evolves /\ RowsConsistent'
        BY <1>1, <1>3, <2>1, <2>3, WriteEvolves DEF IInv, TypeOK, agentVars
    <2>5. loop' = [loop EXCEPT ![d] = Idle] /\ loop' \in [Dispatchers -> Loop]
        BY <1>1, IdleTyped DEF Goto, IInv, TypeOK
    <2>6. TypeOK'
        BY <1>1, <2>4, <2>5 DEF IInv, TypeOK, agentVars, apiVars
    <2>7. OffersOnlyEnd
        BY <2>5, IdleTyped DEF IInv, TypeOK, OffersOnlyEnd
    <2>8. HandsOutNothing
        BY <1>1, <2>4, <2>7, SamePassesShrink
        DEF IInv, TypeOK, HandsOutNothing, TasksOnlyEnd, agentVars
    <2> QED BY <2>4, <2>6, <2>8, NothingHandedOut DEF IInv, TypeOK
<1> QED BY <1>2, <1>3 DEF ReturnUnstarted

------------------------------------------------------------------------------
(* The watchdog loops. *)

\* Steps of a watchdog pass that write no row.
LEMMA PassStepKeeps ==
    ASSUME IInv, NEW d \in Dispatchers, NEW pass,
           watch' = [watch EXCEPT ![d] = pass],
           IsPass(pass), PassConsistent(pass),
           UNCHANGED <<tableVars, agentVars, loop, apiVars>>
    PROVE  IInv'
<1>1. TypeOK'
    BY DEF IInv, TypeOK, tableVars, agentVars, apiVars
<1>2. WatchConsistent'
    BY DEF IInv, TypeOK, WatchConsistent, PassConsistent, RequeueJustified, tableVars
<1> QED
    BY <1>1, <1>2
    DEF IInv, RowsConsistent, LeasesIssued, CallsIssued, AcceptingIssued, OffersIssued,
        TasksIssued, Issued, SingleOwner, tableVars, agentVars

LEMMA NoPassKept == IsPass(NoPass) /\ PassConsistent(NoPass)
<1>1. NoRuns \in [{} -> Observation] /\ NoRuns \in [{} -> Decision]
    BY DEF NoRuns
<1> QED BY <1>1 DEF IsPass, NoPass, NoRuns, PassConsistent

\* What the watchlist returns agrees with the rows.
LEMMA WatchReadKeeps ==
    ASSUME IInv, NEW d \in Dispatchers, WatchRead(d), UNCHANGED apiVars
    PROVE  IInv'
<1> DEFINE seen == [r \in Watchlist |-> Observed(runs[r])]
           pass == [decided |-> FALSE, seen |-> seen, verdict |-> NoRuns]
<1>1. watch' = [watch EXCEPT ![d] = pass]
    BY DEF WatchRead
<1>2. Watchlist \in SUBSET Runs
    BY DEF Watchlist
<1>3. ASSUME NEW r \in Watchlist
      PROVE  Observed(runs[r]) \in Observation /\ SeenConsistent(Observed(runs[r]), runs[r])
    <2>1. r \in Runs /\ runs[r] \in Row /\ RowConsistent(runs[r], starts[r])
        BY <1>2 DEF IInv, TypeOK, RowsConsistent
    <2>2. Observed(runs[r]) \in Observation
        BY <2>1 DEF Observed, Observation, Row
    <2>3. SeenConsistent(Observed(runs[r]), runs[r])
        BY <2>1 DEF Observed, Row, RowConsistent, SeenConsistent
    <2> QED BY <2>2, <2>3
<1>4. IsPass(pass)
    <2>1. seen \in [Watchlist -> Observation] /\ NoRuns \in [{} -> Decision]
        BY <1>3 DEF NoRuns
    <2> HIDE DEF seen
    <2>2. pass \in [decided : BOOLEAN, seen : [Watchlist -> Observation],
                    verdict : [{} -> Decision]]
        BY <2>1
    <2> QED BY <1>2, <2>2 DEF IsPass
<1>5. PassConsistent(pass)
    BY <1>3 DEF PassConsistent
<1> QED BY <1>1, <1>4, <1>5, PassStepKeeps DEF WatchRead

LEMMA VerdictTyped ==
    ASSUME NEW kind \in Kinds, NEW code \in Codes
    PROVE  Verdict(kind, code) \in Decision /\ Verdict(kind, code).kind = kind
    BY DEF Verdict, Decision

\* A run is requeued only with an attempt left and, when running, only when
\* its heartbeat is too old.
LEMMA DecideRequeues ==
    ASSUME NEW run \in Observation, NEW at \in Nat
    PROVE  /\ Decide(run, at) \in Decision
           /\ Decide(run, at).kind = "requeue"
                 => /\ run.status \in Active
                    /\ run.attempts < MaxAttempts
                    /\ run.status = "running"
                          => OlderThan(run.heartbeat_at, at, HeartbeatTimeout)
<1>1. ASSUME NEW code \in Codes
      PROVE  /\ RetryOrFail(run, code) \in Decision
             /\ RetryOrFail(run, code).kind = "requeue" => run.attempts < MaxAttempts
    BY TableAssumption, VerdictTyped DEF RetryOrFail, Observation, Kinds
<1>2. /\ DecideDispatched(run, at) \in Decision
      /\ DecideDispatched(run, at).kind = "requeue" => run.attempts < MaxAttempts
    BY <1>1, VerdictTyped DEF DecideDispatched, Kinds, Codes
<1>3. /\ DecideRunning(run, at) \in Decision
      /\ DecideRunning(run, at).kind = "requeue"
            => run.attempts < MaxAttempts /\ OlderThan(run.heartbeat_at, at, HeartbeatTimeout)
    BY <1>1, VerdictTyped DEF DecideRunning, Kinds, Codes
<1>4. CASE run.status = "queued"
    BY <1>4, VerdictTyped DEF Decide, Kinds, Codes
<1>5. CASE run.status = "dispatched"
    BY <1>2, <1>5 DEF Decide, Active
<1>6. CASE run.status = "running"
    BY <1>3, <1>6 DEF Decide, Active
<1>7. CASE run.status \notin {"queued", "dispatched", "running"}
    <2>1. Decide(run, at) = Verdict("nothing", "")
        BY <1>7 DEF Decide
    <2> QED BY <2>1, VerdictTyped DEF Kinds, Codes
<1> QED BY <1>4, <1>5, <1>6, <1>7

LEMMA WatchDecideKeeps ==
    ASSUME IInv, NEW d \in Dispatchers, WatchDecide(d), UNCHANGED apiVars
    PROVE  IInv'
<1> DEFINE seen == watch[d].seen
           due  == {r \in DOMAIN seen : Decide(seen[r], now).kind # "nothing"}
           pass == [decided |-> TRUE,
                    seen    |-> [r \in due |-> seen[r]],
                    verdict |-> [r \in due |-> Decide(seen[r], now)]]
<1>1. watch' = [watch EXCEPT ![d] = IF due = {} THEN NoPass ELSE pass]
    BY DEF WatchDecide
<1>2. UNCHANGED <<tableVars, agentVars, loop, apiVars>>
    BY DEF WatchDecide
<1>3. ASSUME NEW r \in due
      PROVE  /\ r \in Runs /\ seen[r] \in Observation
             /\ SeenConsistent(seen[r], runs[r])
             /\ Decide(seen[r], now) \in Decision
             /\ Decide(seen[r], now).kind = "requeue" => RequeueJustified(seen[r])
    <2>1. IsPass(watch[d]) /\ now \in Nat
        BY DEF IInv, TypeOK
    <2>2. r \in DOMAIN seen
        BY <1>3
    <2>3. r \in Runs /\ seen[r] \in Observation
        BY <2>1, <2>2, SeenTyped
    <2>4. SeenConsistent(seen[r], runs[r])
        BY <2>2 DEF IInv, WatchConsistent, PassConsistent
    <2> QED BY <2>1, <2>3, <2>4, DecideRequeues DEF RequeueJustified
<1>4. IsPass(pass)
    <2>1. due \in SUBSET Runs
        BY <1>3
    <2>2. /\ [r \in due |-> seen[r]] \in [due -> Observation]
          /\ [r \in due |-> Decide(seen[r], now)] \in [due -> Decision]
        BY <1>3
    <2> HIDE DEF due, seen
    <2>3. pass \in [decided : BOOLEAN, seen : [due -> Observation], verdict : [due -> Decision]]
        BY <2>2
    <2> QED BY <2>1, <2>3 DEF IsPass
<1>5. PassConsistent(pass)
    <2>1. DOMAIN pass.verdict = DOMAIN pass.seen /\ DOMAIN pass.seen = due
        OBVIOUS
    <2>2. ASSUME NEW r \in due
          PROVE  pass.seen[r] = seen[r] /\ pass.verdict[r] = Decide(seen[r], now)
        OBVIOUS
    <2> HIDE DEF pass, due, seen
    <2> QED BY <1>3, <2>1, <2>2 DEF PassConsistent
<1> HIDE DEF pass, due
<1>6. CASE due = {}
    BY <1>1, <1>2, <1>6, NoPassKept, PassStepKeeps
<1>7. CASE due # {}
    BY <1>1, <1>2, <1>4, <1>5, <1>7, PassStepKeeps
<1> QED BY <1>6, <1>7

\* Dropping a run from a pass.
LEMMA PassWithoutShrinks ==
    ASSUME NEW pass, IsPass(pass), pass.decided, DOMAIN pass.verdict = DOMAIN pass.seen,
           NEW r \in DOMAIN pass.seen
    PROVE  /\ IsPass(PassWithout(pass, r))
           /\ DOMAIN PassWithout(pass, r).seen \subseteq DOMAIN pass.seen
           /\ PassWithout(pass, r).decided
                 => DOMAIN PassWithout(pass, r).verdict = DOMAIN PassWithout(pass, r).seen
           /\ \A q \in DOMAIN PassWithout(pass, r).seen :
                 /\ PassWithout(pass, r).seen[q] = pass.seen[q]
                 /\ PassWithout(pass, r).verdict[q] = pass.verdict[q]
<1> DEFINE rest == DOMAIN pass.seen \ {r}
           left == [decided |-> TRUE,
                    seen    |-> [q \in rest |-> pass.seen[q]],
                    verdict |-> [q \in rest |-> pass.verdict[q]]]
<1>1. CASE rest = {}
    <2>1. PassWithout(pass, r) = NoPass
        BY <1>1 DEF PassWithout
    <2> QED BY <2>1, NoPassKept DEF NoPass, NoRuns
<1>2. CASE rest # {}
    <2>1. PassWithout(pass, r) = left
        BY <1>2 DEF PassWithout
    <2>2. PICK some \in SUBSET Runs, due \in SUBSET Runs :
             pass \in [decided : BOOLEAN, seen : [some -> Observation], verdict : [due -> Decision]]
        BY DEF IsPass
    <2>3. /\ rest \in SUBSET Runs
          /\ [q \in rest |-> pass.seen[q]] \in [rest -> Observation]
          /\ [q \in rest |-> pass.verdict[q]] \in [rest -> Decision]
        BY <2>2
    <2>4. IsPass(left)
        <3> HIDE DEF rest
        <3>1. left \in [decided : BOOLEAN, seen : [rest -> Observation], verdict : [rest -> Decision]]
            BY <2>3
        <3> QED BY <2>3, <3>1 DEF IsPass
    <2> QED BY <2>1, <2>4
<1> QED BY <1>1, <1>2

LEMMA ShrunkPassShrinks ==
    ASSUME IInv, NEW d \in Dispatchers, NEW pass,
           watch' = [watch EXCEPT ![d] = pass],
           DOMAIN pass.seen \subseteq DOMAIN watch[d].seen,
           pass.decided => watch[d].decided /\ DOMAIN pass.verdict = DOMAIN pass.seen,
           \A q \in DOMAIN pass.seen :
              /\ pass.seen[q] = watch[d].seen[q]
              /\ pass.decided => pass.verdict[q] = watch[d].verdict[q]
    PROVE  PassesOnlyShrink
    BY DEF IInv, TypeOK, WatchConsistent, PassConsistent, PassesOnlyShrink

(***************************************************************************)
(* The row a verdict leaves behind.  A requeue that goes through finds the *)
(* row under the lease the pass saw, hence with the attempts it saw.       *)
(***************************************************************************)
LEMMA AppliedFollows ==
    ASSUME now \in Nat, NEW row \in Row, NEW n \in Nat, RowConsistent(row, n),
           NEW seen \in Observation, SeenConsistent(seen, row),
           NEW verdict \in Decision, verdict.kind = "requeue" => RequeueJustified(seen)
    PROVE  /\ Applied(seen, verdict, row) \in Row
           /\ Follows(row, Applied(seen, verdict, row))
           /\ RowConsistent(Applied(seen, verdict, row), n)
<1>1. row \in Row /\ Follows(row, row) /\ RowConsistent(row, n)
    BY DEF Follows, Row
<1>2. CASE verdict.kind = "requeue"
    <2>1. CASE MaySettle(seen, row, "queued", TRUE)
        <3>1. row.attempts < MaxAttempts
            BY <1>2, <2>1
            DEF MaySettle, Unchanged, RequeueJustified, SeenConsistent
        <3>2. seen.attempts + 1 \in Nat
            BY DEF Observation
        <3>3. Applied(seen, verdict, row) = RequeuedRow(row, Backoff(seen.attempts + 1))
            BY <1>2, <2>1 DEF Applied
        <3> QED BY <3>1, <3>2, <3>3, BackoffTyped, RequeuedRowFollows
    <2>2. CASE ~MaySettle(seen, row, "queued", TRUE)
        BY <1>1, <1>2, <2>2 DEF Applied
    <2> QED BY <2>1, <2>2
<1>3. CASE verdict.kind = "fail"
    <2>1. Applied(seen, verdict, row) \in {row, SettledRow(row, "failed")}
        BY <1>3 DEF Applied
    <2> QED BY <1>1, <2>1, SettledRowFollows DEF Terminal
<1>4. CASE verdict.kind = "cancel"
    <2>1. Applied(seen, verdict, row) \in {row, SettledRow(row, "cancelled")}
        BY <1>4 DEF Applied
    <2> QED BY <1>1, <2>1, SettledRowFollows DEF Terminal
<1>5. CASE verdict.kind = "ask_agent_to_cancel"
    <2>1. Applied(seen, verdict, row) = [row EXCEPT !.cancel_requested = TRUE]
        BY <1>5 DEF Applied
    <2> QED BY <2>1, CancelFlagFollows
<1>6. CASE verdict.kind = "nothing"
    <2>1. Applied(seen, verdict, row) = row
        BY <1>6 DEF Applied
    <2> QED BY <1>1, <2>1
<1> QED BY <1>2, <1>3, <1>4, <1>5, <1>6 DEF Decision, Kinds

\* A run a decided pass is about to act on.
LEMMA PassTyped ==
    ASSUME IInv, NEW d \in Dispatchers, watch[d].decided, NEW r \in DOMAIN watch[d].seen
    PROVE  /\ r \in Runs /\ watch[d].seen[r] \in Observation
           /\ DOMAIN watch[d].verdict = DOMAIN watch[d].seen
           /\ watch[d].verdict[r] \in Decision
<1>1. IsPass(watch[d]) /\ DOMAIN watch[d].verdict = DOMAIN watch[d].seen
    BY DEF IInv, TypeOK, WatchConsistent, PassConsistent
<1>2. PICK some \in SUBSET Runs, due \in SUBSET Runs :
         watch[d] \in [decided : BOOLEAN, seen : [some -> Observation], verdict : [due -> Decision]]
    BY <1>1 DEF IsPass
<1> QED BY <1>1, <1>2

LEMMA WatchApplyKeeps ==
    ASSUME IInv, NEW d \in Dispatchers, NEW r \in Runs, WatchApply(d, r), UNCHANGED apiVars
    PROVE  IInv'
<1> DEFINE pass == watch[d]
           row  == Applied(pass.seen[r], pass.verdict[r], runs[r])
           left == PassWithout(pass, r)
<1>1. /\ pass.decided /\ r \in DOMAIN pass.seen
      /\ Write(r, row)
      /\ watch' = [watch EXCEPT ![d] = left]
      /\ UNCHANGED <<agentVars, loop>>
    BY DEF WatchApply
<1>2. /\ pass.seen[r] \in Observation /\ pass.verdict[r] \in Decision
      /\ DOMAIN pass.verdict = DOMAIN pass.seen
    BY <1>1, PassTyped
<1>3. /\ SeenConsistent(pass.seen[r], runs[r])
      /\ pass.verdict[r].kind = "requeue" => RequeueJustified(pass.seen[r])
    BY <1>1 DEF IInv, WatchConsistent, PassConsistent
<1>4. row \in Row /\ Follows(runs[r], row) /\ RowConsistent(row, starts[r])
    BY <1>2, <1>3, AppliedFollows DEF IInv, TypeOK, RowsConsistent
<1>5. runs' \in [Runs -> Row] /\ now' = now /\ Evolves /\ RowsConsistent'
    BY <1>1, <1>4, WriteEvolves DEF IInv, TypeOK, agentVars
<1>6. IsPass(pass)
    BY DEF IInv, TypeOK
<1>7. IsPass(left) /\ PassesOnlyShrink
    <2>1. /\ IsPass(left)
          /\ DOMAIN left.seen \subseteq DOMAIN pass.seen
          /\ left.decided => DOMAIN left.verdict = DOMAIN left.seen
          /\ \A q \in DOMAIN left.seen :
                left.seen[q] = pass.seen[q] /\ left.verdict[q] = pass.verdict[q]
        BY <1>1, <1>2, <1>6, PassWithoutShrinks
    <2> HIDE DEF left
    <2>2. PassesOnlyShrink
        BY <1>1, <2>1, ShrunkPassShrinks
    <2> QED BY <2>1, <2>2
<1>8. TypeOK'
    BY <1>1, <1>5, <1>7 DEF IInv, TypeOK, agentVars, apiVars
<1>9. HandsOutNothing
    BY <1>1, <1>5, <1>7
    DEF IInv, TypeOK, HandsOutNothing, OffersOnlyEnd, TasksOnlyEnd, agentVars
<1> QED BY <1>5, <1>8, <1>9, NothingHandedOut DEF IInv, TypeOK

LEMMA WatchApplyFailsKeeps ==
    ASSUME IInv, NEW d \in Dispatchers, NEW r \in Runs, WatchApplyFails(d, r), UNCHANGED apiVars
    PROVE  IInv'
<1> DEFINE pass == watch[d]
           left == PassWithout(pass, r)
<1>1. /\ pass.decided /\ r \in DOMAIN pass.seen
      /\ watch' = [watch EXCEPT ![d] = left]
      /\ faults' = faults + 1
      /\ UNCHANGED <<tableVars, calls, conn, accepting, tasks, draining, starts, loop>>
    BY DEF WatchApplyFails
<1>2. DOMAIN pass.verdict = DOMAIN pass.seen /\ IsPass(pass)
    BY <1>1, PassTyped DEF IInv, TypeOK
<1>3. IsPass(left) /\ PassesOnlyShrink
    <2>1. /\ IsPass(left)
          /\ DOMAIN left.seen \subseteq DOMAIN pass.seen
          /\ left.decided => DOMAIN left.verdict = DOMAIN left.seen
          /\ \A q \in DOMAIN left.seen :
                left.seen[q] = pass.seen[q] /\ left.verdict[q] = pass.verdict[q]
        BY <1>1, <1>2, PassWithoutShrinks
    <2> HIDE DEF left
    <2>2. PassesOnlyShrink
        BY <1>1, <2>1, ShrunkPassShrinks
    <2> QED BY <2>1, <2>2
<1>4. TypeOK'
    BY <1>1, <1>3 DEF IInv, TypeOK, tableVars, apiVars
<1>5. HandsOutNothing
    BY <1>1, <1>3, SameRowsEvolve
    DEF IInv, TypeOK, HandsOutNothing, OffersOnlyEnd, TasksOnlyEnd, tableVars
<1>6. RowsConsistent' /\ now <= now'
    BY <1>1 DEF IInv, TypeOK, RowsConsistent, tableVars
<1> QED BY <1>4, <1>5, <1>6, NothingHandedOut

LEMMA DispatcherCrashKeeps ==
    ASSUME IInv, NEW d \in Dispatchers, DispatcherCrash(d), UNCHANGED apiVars
    PROVE  IInv'
<1>1. /\ faults' = faults + 1
      /\ conn' = [conn EXCEPT ![d] = Closed]
      /\ loop' = [loop EXCEPT ![d] = Idle]
      /\ watch' = [watch EXCEPT ![d] = NoPass]
      /\ UNCHANGED <<tableVars, calls, accepting, tasks, draining, starts>>
    BY DEF DispatcherCrash
<1>2. TypeOK'
    <2>1. Closed \in Conn
        BY DEF Closed, Conn, Answers
    <2> QED BY <1>1, <2>1, IdleTyped, NoPassKept DEF IInv, TypeOK, tableVars, apiVars
<1>3. PassesOnlyShrink
    <2>1. NoPass.decided = FALSE /\ DOMAIN NoPass.seen = {}
        BY DEF NoPass, NoRuns
    <2> QED BY <1>1, <2>1, ShrunkPassShrinks
<1>4. OffersOnlyEnd
    BY <1>1, IdleTyped DEF IInv, TypeOK, OffersOnlyEnd
<1>5. HandsOutNothing
    BY <1>1, <1>3, <1>4, SameRowsEvolve
    DEF IInv, TypeOK, HandsOutNothing, TasksOnlyEnd, tableVars
<1>6. RowsConsistent' /\ now <= now'
    BY <1>1 DEF IInv, TypeOK, RowsConsistent, tableVars
<1> QED BY <1>2, <1>5, <1>6, NothingHandedOut

LEMMA ControlKeeps == ASSUME IInv, NEW d \in Dispatchers, Control(d) PROVE IInv'
<1>1. UNCHANGED apiVars
    BY DEF Control
<1>2. CASE CheckRoom(d)
    BY <1>1, <1>2, CheckRoomKeeps
<1>3. CASE Survey(d)
    BY <1>1, <1>3, SurveyKeeps
<1>4. CASE Claim(d)
    BY <1>1, <1>4, ClaimKeeps
<1>5. CASE ClaimNothing(d)
    BY <1>1, <1>5, ClaimNothingKeeps
<1>6. CASE Offer(d)
    BY <1>1, <1>6, OfferKeeps
<1>7. CASE Dispatched(d)
    BY <1>1, <1>7, DispatchedKeeps
<1>8. CASE NotDispatched(d)
    BY <1>1, <1>8, NotDispatchedKeeps
<1>9. CASE ReturnUnstarted(d)
    BY <1>1, <1>9, ReturnUnstartedKeeps
<1>10. CASE WatchStep(d)
    BY <1>1, <1>10, WatchReadKeeps, WatchDecideKeeps, WatchApplyKeeps DEF WatchStep
<1>11. CASE DispatcherCrash(d)
    BY <1>1, <1>11, DispatcherCrashKeeps
<1>12. CASE \E r \in Runs : WatchApplyFails(d, r)
    BY <1>1, <1>12, WatchApplyFailsKeeps
<1> QED
    BY <1>2, <1>3, <1>4, <1>5, <1>6, <1>7, <1>8, <1>9, <1>10, <1>11, <1>12
    DEF Control, DispatcherStep

------------------------------------------------------------------------------
(* The api. *)

\* A route that writes one row, or none, without starting anything.
LEMMA ApiWriteKeeps ==
    ASSUME IInv, NEW r \in Runs, NEW row \in Row, Write(r, row),
           Follows(runs[r], row), RowConsistent(row, starts[r]),
           creating' \in SUBSET Runs, cancelling' \in [Runs -> CancelPhases],
           UNCHANGED <<agentVars, dispatcherVars>>
    PROVE  IInv'
<1>1. runs' \in [Runs -> Row] /\ now' = now /\ Evolves /\ RowsConsistent'
    BY WriteEvolves DEF IInv, TypeOK, agentVars
<1>2. TypeOK'
    BY <1>1 DEF IInv, TypeOK, agentVars, dispatcherVars
<1>3. HandsOutNothing
    BY <1>1, SamePassesShrink
    DEF IInv, TypeOK, HandsOutNothing, OffersOnlyEnd, TasksOnlyEnd, agentVars, dispatcherVars
<1> QED BY <1>1, <1>2, <1>3, NothingHandedOut DEF IInv, TypeOK

LEMMA ApiReadKeeps ==
    ASSUME IInv, UNCHANGED tableVars,
           creating' \in SUBSET Runs, cancelling' \in [Runs -> CancelPhases],
           UNCHANGED <<agentVars, dispatcherVars>>
    PROVE  IInv'
<1>1. TypeOK'
    BY DEF IInv, TypeOK, tableVars, agentVars, dispatcherVars
<1>2. HandsOutNothing
    BY SameRowsEvolve, SamePassesShrink
    DEF IInv, TypeOK, HandsOutNothing, OffersOnlyEnd, TasksOnlyEnd,
        tableVars, agentVars, dispatcherVars
<1>3. RowsConsistent' /\ now <= now'
    BY DEF IInv, TypeOK, RowsConsistent, tableVars, agentVars
<1> QED BY <1>1, <1>2, <1>3, NothingHandedOut

LEMMA ApiKeeps == ASSUME IInv, Api PROVE IInv'
<1>1. UNCHANGED <<agentVars, dispatcherVars>>
    BY DEF Api
<1>2. PICK r \in Runs :
         \/ Create(r) \/ StoreSecrets(r) \/ SkipSecrets(r)
         \/ CancelRead(r) \/ CancelFlag(r) \/ CancelFinish(r) \/ CancelDropped(r)
    BY DEF Api, ApiStep
<1>3. /\ runs[r] \in Row /\ starts[r] \in Nat /\ RowConsistent(runs[r], starts[r])
      /\ creating \in SUBSET Runs /\ cancelling \in [Runs -> CancelPhases]
    BY DEF IInv, TypeOK, RowsConsistent
<1>4. ASSUME NEW phase \in CancelPhases, AtCancel(r, phase)
      PROVE  cancelling' \in [Runs -> CancelPhases]
    BY <1>3, <1>4 DEF AtCancel
<1>5. CASE Create(r)
    BY <1>1, <1>3, <1>5, CreatedRowFollows, ApiWriteKeeps DEF Create
<1>6. CASE StoreSecrets(r)
    BY <1>1, <1>3, <1>6, KeysStoredFollows, ApiWriteKeeps DEF StoreSecrets
<1>7. CASE SkipSecrets(r)
    BY <1>1, <1>3, <1>7, ApiReadKeeps DEF SkipSecrets
<1>8. CASE CancelRead(r)
    BY <1>1, <1>3, <1>4, <1>8, ApiReadKeeps DEF CancelRead, CancelPhases
<1>9. CASE CancelFlag(r)
    BY <1>1, <1>3, <1>4, <1>9, CancelFlagFollows, ApiWriteKeeps DEF CancelFlag, CancelPhases
<1>10. CASE CancelFinish(r)
    <2>1. cancelling' \in [Runs -> CancelPhases] /\ creating' = creating
        BY <1>4, <1>10 DEF CancelFinish, CancelPhases
    <2>2. CASE UNCHANGED tableVars
        BY <1>1, <1>3, <2>1, <2>2, ApiReadKeeps
    <2>3. CASE Write(r, SettledRow(runs[r], "cancelled"))
        BY <1>1, <1>3, <2>1, <2>3, SettledRowFollows, ApiWriteKeeps DEF Terminal
    <2> QED BY <1>10, <2>2, <2>3 DEF CancelFinish
<1>11. CASE CancelDropped(r)
    BY <1>1, <1>3, <1>4, <1>11, ApiReadKeeps DEF CancelDropped, CancelPhases
<1> QED BY <1>2, <1>5, <1>6, <1>7, <1>8, <1>9, <1>10, <1>11

------------------------------------------------------------------------------
(* The theorems. *)

LEMMA StepKeepsIInv == IInv /\ [Next]_vars => IInv'
<1> SUFFICES ASSUME IInv, [Next]_vars PROVE IInv'
    OBVIOUS
<1>1. CASE TimePasses
    BY <1>1, TimePassesKeeps
<1>2. CASE Network
    BY <1>2, NetworkKeeps
<1>3. CASE Api
    BY <1>3, ApiKeeps
<1>4. CASE \E a \in Agents : Agent(a)
    BY <1>4, AgentKeeps
<1>5. CASE \E d \in Dispatchers : Control(d)
    BY <1>5, ControlKeeps
<1>6. CASE UNCHANGED vars
    <2>1. UNCHANGED <<tableVars, agentVars, dispatcherVars, apiVars>>
        BY <1>6 DEF vars
    <2>2. creating' \in SUBSET Runs /\ cancelling' \in [Runs -> CancelPhases]
        BY <2>1 DEF apiVars, IInv, TypeOK
    <2> QED BY <2>1, <2>2, ApiReadKeeps
<1> QED BY <1>1, <1>2, <1>3, <1>4, <1>5, <1>6 DEF Next

\* IInv holds in every state the services can reach.
THEOREM Inductive == Spec => []IInv
<1>1. Init => IInv
    BY InitIInv
<1>2. IInv /\ [Next]_vars => IInv'
    BY StepKeepsIInv
<1> QED BY <1>1, <1>2, PTL DEF Spec

\* Type correctness.
THEOREM TypeCorrect == Spec => []TypeOK
<1>1. IInv => TypeOK
    BY DEF IInv
<1> QED BY <1>1, Inductive, PTL

\* A run is never started, nor its attempts counted, beyond max_attempts: what
\* ReturnUnstarted gives back was never started.
THEOREM RetryBudgetHolds == Spec => []RetryBudget
<1>1. IInv => RetryBudget
    <2> SUFFICES ASSUME IInv, NEW r \in Runs
                 PROVE  starts[r] <= MaxAttempts /\ runs[r].attempts <= MaxAttempts
        BY DEF RetryBudget
    <2>1. RowConsistent(runs[r], starts[r])
        BY DEF IInv, RowsConsistent
    <2>2. starts[r] \in Nat /\ runs[r].attempts \in Nat
        BY DEF IInv, TypeOK, Row
    <2> QED BY <2>1, <2>2, TableAssumption DEF RowConsistent
<1> QED BY <1>1, Inductive, PTL

\* Whatever is claimed as attempt 1 has never been started, so the agent that
\* starts it from scratch throws no checkpoint away.
THEOREM ResumedNotRestartedHolds == Spec => []ResumedNotRestarted
<1>1. IInv => ResumedNotRestarted
    <2> SUFFICES ASSUME IInv, NEW r \in Runs,
                        runs[r].status = "dispatched", runs[r].attempts = 1
                 PROVE  starts[r] = 0
        BY DEF ResumedNotRestarted
    <2>1. RowConsistent(runs[r], starts[r]) /\ starts[r] \in Nat
        BY DEF IInv, TypeOK, RowsConsistent
    <2> QED BY <2>1 DEF RowConsistent
<1> QED BY <1>1, Inductive, PTL

\* No two replicas ever execute a run under its current lease.
THEOREM SingleOwnerHolds == Spec => []SingleOwner
<1>1. IInv => SingleOwner
    BY DEF IInv
<1> QED BY <1>1, Inductive, PTL

------------------------------------------------------------------------------
(* What a step does to the table. *)

(***************************************************************************)
(* mark_running writes the deadline back that it read with the row.  It is *)
(* still the row's while the request's lease is: only a claim sets a       *)
(* deadline, and it takes a new lease.                                     *)
(***************************************************************************)
ReadDeadlinesCurrent ==
    \A a \in Agents : \A req \in accepting[a] :
        req.call.lease = runs[req.call.run].lease
           => req.deadline = runs[req.call.run].deadline_at

OInv == IInv /\ ReadDeadlinesCurrent

\* What a step may do to a row's deadline: keep it, or set it with a new lease.
DeadlineFollows(old, new) ==
    \/ new.deadline_at = old.deadline_at /\ new.lease \in {old.lease, NoLease}
    \/ old.deadline_at \in {None, new.deadline_at} /\ old.minted < new.lease

(* What a step may do to a run. *)

\* Written, perhaps, but it stays where it is.
Stays(r) == runs'[r].status = runs[r].status /\ starts'[r] = starts[r]

Submitted(r) ==
    runs[r].status = Absent /\ runs'[r].status = "queued" /\ starts'[r] = starts[r]

Claimed(r) ==
    /\ runs[r].status = "queued" /\ runs'[r].status = "dispatched"
    /\ starts'[r] = starts[r]
    /\ \E d \in Dispatchers : Claim(d)

Started(r) ==
    /\ runs[r].status = "dispatched" /\ runs'[r].status = "running"
    /\ starts'[r] = starts[r] + 1

\* Sent back to the queue with an attempt left; a started run, only when its
\* agent has gone quiet.
TakenBack(r) ==
    /\ runs[r].status \in Active /\ runs'[r].status = "queued"
    /\ starts'[r] = starts[r] /\ starts[r] < MaxAttempts
    /\ runs[r].status = "running" => OlderThan(runs[r].heartbeat_at, now, HeartbeatTimeout)

\* Ended by the api or the watchdog.
GivenUp(r) ==
    /\ runs[r].status \in Statuses \ Terminal /\ runs'[r].status \in {"failed", "cancelled"}
    /\ starts'[r] = starts[r]

\* Ended by the task that owns it, as that task decided.
Finished(r) ==
    /\ runs[r].status = "running" /\ runs'[r].status \in Terminal
    /\ starts'[r] = starts[r]
    /\ \E a \in Agents : /\ tasks[a][r].lease = runs[r].lease
                         /\ tasks[a][r].outcome = runs'[r].status

Moves(r) ==
    /\ DeadlineFollows(runs[r], runs'[r])
    /\ \/ Stays(r) \/ Submitted(r) \/ Claimed(r) \/ Started(r)
       \/ TakenBack(r) \/ GivenUp(r) \/ Finished(r)

OthersKept(r) ==
    \A q \in Runs : q # r => runs'[q] = runs[q] /\ starts'[q] = starts[q]

StepMoves ==
    \/ runs' = runs /\ starts' = starts
    \/ \E r \in Runs : Moves(r) /\ OthersKept(r)

------------------------------------------------------------------------------
(* One row is written. *)

LEMMA WriteKeepsOthers ==
    ASSUME runs \in [Runs -> Row], NEW r \in Runs, NEW row, Write(r, row), starts' = starts
    PROVE  runs'[r] = row /\ OthersKept(r) /\ starts'[r] = starts[r] /\ now' = now
    BY DEF Write, OthersKept

\* A write that touches neither the status nor the lease nor the deadline.
LEMMA TouchMoves ==
    ASSUME runs \in [Runs -> Row], NEW r \in Runs, NEW row, Write(r, row), starts' = starts,
           row.status = runs[r].status, row.lease = runs[r].lease,
           row.deadline_at = runs[r].deadline_at
    PROVE  StepMoves
<1>1. Moves(r) /\ OthersKept(r)
    BY WriteKeepsOthers DEF Moves, Stays, DeadlineFollows
<1> QED BY <1>1 DEF StepMoves

\* The contract lets nothing out of a terminal status.
LEMMA NothingLeavesTerminal ==
    ASSUME NEW source, NEW target, CanTransition(source, target)
    PROVE  source \in Statuses \ Terminal
<1>1. source \in Statuses /\ target \in Transitions[source]
    BY DEF CanTransition
<1>2. ASSUME source \in Terminal PROVE FALSE
    <2>1. Transitions[source] = {}
        BY <1>1, <1>2 DEF Transitions, Terminal
    <2> QED BY <1>1, <2>1
<1> QED BY <1>1, <1>2

LEMMA SettleMoves ==
    ASSUME runs \in [Runs -> Row], NEW r \in Runs,
           NEW status \in {"failed", "cancelled"}, Write(r, SettledRow(runs[r], status)),
           starts' = starts, runs[r].status \in Statuses \ Terminal
    PROVE  StepMoves
<1>1. /\ SettledRow(runs[r], status).status = status
      /\ SettledRow(runs[r], status).deadline_at = runs[r].deadline_at
      /\ SettledRow(runs[r], status).lease = runs[r].lease
    BY DEF SettledRow, Row
<1>2. Moves(r) /\ OthersKept(r)
    BY <1>1, WriteKeepsOthers DEF Moves, GivenUp, DeadlineFollows
<1> QED BY <1>2 DEF StepMoves

------------------------------------------------------------------------------
(* The agent replicas. *)

LEMMA MarkRunningMoves ==
    ASSUME OInv, NEW a \in Agents, NEW req \in accepting[a], NEW created \in BOOLEAN,
           MayMove(runs[req.call.run], req.call.lease, "running"), MarkRunning(a, req, created)
    PROVE  StepMoves
<1> DEFINE r   == req.call.run
           row == RunningRow(runs[r], req.deadline)
<1>1. /\ runs \in [Runs -> Row] /\ starts \in [Runs -> Nat]
      /\ r \in Runs /\ runs[r] \in Row /\ runs[r].status \in Statuses
    BY DEF OInv, IInv, TypeOK, Accepted, Call, MayMove, CanTransition
<1>2. runs[r].status = "dispatched"
    BY RunsFromDispatched DEF MayMove
<1>3. req.deadline = runs[r].deadline_at
    BY DEF OInv, ReadDeadlinesCurrent, MayMove
<1>4. /\ row.status = "running" /\ row.lease = runs[r].lease
      /\ row.deadline_at = runs[r].deadline_at
    BY <1>1, <1>3 DEF RunningRow, Row
<1>5. /\ runs' = [runs EXCEPT ![r] = row]
      /\ starts' = [starts EXCEPT ![r] = @ + 1]
    BY DEF MarkRunning, Write
<1> HIDE DEF row
<1>6. runs'[r] = row /\ starts'[r] = starts[r] + 1 /\ OthersKept(r)
    BY <1>1, <1>5 DEF OthersKept
<1>7. Moves(r)
    BY <1>2, <1>4, <1>6 DEF Moves, Started, DeadlineFollows
<1> QED BY <1>1, <1>6, <1>7 DEF StepMoves

\* The task that settles holds the lease of a row that was started under it.
LEMMA OwnerRuns ==
    ASSUME IInv, NEW a \in Agents, NEW r \in Runs, tasks[a][r] # NoTask,
           tasks[a][r].lease = runs[r].lease, runs[r].status \in Statuses \ Terminal
    PROVE  runs[r].status = "running"
<1>1. NoLease < runs[r].lease /\ runs[r].status # "dispatched"
    BY DEF IInv, LeasesIssued, TasksIssued, Issued, Unstarted
<1>2. runs[r].status # "queued"
    BY <1>1 DEF IInv, RowsConsistent, RowConsistent, NoLease
<1> QED BY <1>1, <1>2 DEF Statuses, Active

LEMMA SettleByOwnerMoves ==
    ASSUME OInv, NEW a \in Agents, NEW r \in Runs, Settle(a, r)
    PROVE  StepMoves
<1> DEFINE task == tasks[a][r]
<1>1. /\ runs \in [Runs -> Row] /\ runs[r] \in Row /\ starts' = starts
      /\ task # NoTask /\ task.outcome \in Terminal
    BY DEF OInv, IInv, TypeOK, Task, Settle, Settling, Ends
<1>2. CASE UNCHANGED tableVars
    BY <1>1, <1>2 DEF StepMoves, tableVars
<1>3. CASE /\ MayMove(runs[r], task.lease, task.outcome)
           /\ Write(r, SettledRow(runs[r], task.outcome))
    <2>1. task.lease = runs[r].lease /\ runs[r].status \in Statuses \ Terminal
        BY <1>3, NothingLeavesTerminal DEF MayMove
    <2>2. runs[r].status = "running"
        BY <1>1, <2>1, OwnerRuns DEF OInv
    <2>3. /\ SettledRow(runs[r], task.outcome).status = task.outcome
          /\ SettledRow(runs[r], task.outcome).deadline_at = runs[r].deadline_at
          /\ SettledRow(runs[r], task.outcome).lease = runs[r].lease
        BY <1>1 DEF SettledRow, Row
    <2>4. Moves(r) /\ OthersKept(r)
        BY <1>1, <1>3, <2>1, <2>2, <2>3, WriteKeepsOthers DEF Moves, Finished, DeadlineFollows
    <2> QED BY <2>4 DEF StepMoves
<1> QED BY <1>2, <1>3 DEF Settle

LEMMA HeartbeatMoves ==
    ASSUME OInv, NEW a \in Agents, NEW r \in Runs, Heartbeat(a, r)
    PROVE  StepMoves
<1>1. runs \in [Runs -> Row] /\ runs[r] \in Row
    BY DEF OInv, IInv, TypeOK
<1> QED BY <1>1, TouchMoves DEF Heartbeat, agentVars, Row

LEMMA AgentMoves ==
    ASSUME OInv, NEW a \in Agents, AgentStep(a)
    PROVE  StepMoves
<1>1. CASE AcceptCommit(a) \/ AcceptFails(a)
    BY <1>1, MarkRunningMoves DEF AcceptCommit, AcceptFails
<1>2. CASE \/ AcceptRead(a) \/ AcceptLost(a) \/ RejectConflict(a) \/ RejectNoCapacity(a)
           \/ BeginDraining(a) \/ AgentCrash(a)
    BY <1>2
    DEF AcceptRead, AcceptLost, RejectConflict, RejectNoCapacity, BeginDraining, AgentCrash,
        StepMoves, tableVars
<1>3. ASSUME NEW r \in Runs,
             \/ LeaseLost(a, r) \/ ObserveCancel(a, r) \/ DeadlineFires(a, r)
             \/ Complete(a, r) \/ SettleFails(a, r)
      PROVE  StepMoves
    BY <1>3
    DEF LeaseLost, ObserveCancel, DeadlineFires, Complete, SettleFails, Decides, Ends,
        StepMoves, tableVars
<1> QED
    BY <1>1, <1>2, <1>3, HeartbeatMoves, SettleByOwnerMoves DEF AgentStep

------------------------------------------------------------------------------
(* The dispatchers. *)

LEMMA ClaimMoves ==
    ASSUME OInv, NEW d \in Dispatchers, Claim(d)
    PROVE  StepMoves
<1>1. PICK r \in Runs : Claimable(runs[r]) /\ Write(r, ClaimedRow(runs[r]))
    BY DEF Claim
<1>2. /\ runs \in [Runs -> Row] /\ runs[r] \in Row /\ starts' = starts
      /\ runs[r].status = "queued"
    BY <1>1 DEF OInv, IInv, TypeOK, Claim, Claimable, agentVars
<1>3. /\ ClaimedRow(runs[r]).status = "dispatched"
      /\ DeadlineFollows(runs[r], ClaimedRow(runs[r]))
    BY <1>2 DEF ClaimedRow, DeadlineFollows, Row
<1>4. Moves(r) /\ OthersKept(r)
    BY <1>1, <1>2, <1>3, WriteKeepsOthers DEF Moves, Claimed
<1> QED BY <1>4 DEF StepMoves

LEMMA ReturnUnstartedMoves ==
    ASSUME OInv, NEW d \in Dispatchers, ReturnUnstarted(d)
    PROVE  StepMoves
<1> DEFINE r   == loop[d].run
           row == ReturnedRow(runs[r], Backoff(2))
<1>1. starts' = starts
    BY DEF ReturnUnstarted, agentVars
<1>2. CASE UNCHANGED tableVars
    BY <1>1, <1>2 DEF StepMoves, tableVars
<1>3. CASE Unstarted(runs[r], loop[d].lease) /\ Write(r, row)
    <2>1. r \in Runs /\ runs[r] \in Row /\ runs \in [Runs -> Row]
        BY DEF OInv, IInv, TypeOK, LeasesIssued, OffersIssued, Offering, ReturnUnstarted
    <2>2. runs[r].status = "dispatched"
        BY <1>3 DEF Unstarted
    <2>3. starts[r] < MaxAttempts
        <3>1. starts[r] \in Nat /\ runs[r].attempts \in Nat /\ MaxAttempts \in Nat
            BY <2>1, TableAssumption DEF OInv, IInv, TypeOK, Row
        <3> QED BY <2>1, <2>2, <3>1 DEF OInv, IInv, RowsConsistent, RowConsistent
    <2>4. /\ row.status = "queued" /\ row.lease = NoLease
          /\ row.deadline_at = runs[r].deadline_at
        BY <2>1 DEF ReturnedRow, Row
    <2> HIDE DEF row
    <2>5. Moves(r) /\ OthersKept(r)
        BY <1>1, <1>3, <2>1, <2>2, <2>3, <2>4, WriteKeepsOthers
        DEF Moves, TakenBack, DeadlineFollows, Active
    <2> QED BY <2>1, <2>5 DEF StepMoves
<1> QED BY <1>2, <1>3 DEF ReturnUnstarted

\* The compare-and-set makes what the watchdog saw true of the row it writes.
LEMMA RequeueMoves ==
    ASSUME OInv, NEW r \in Runs, NEW seen \in Observation, NEW backoff \in Nat,
           SeenConsistent(seen, runs[r]), RequeueJustified(seen),
           MaySettle(seen, runs[r], "queued", TRUE),
           Write(r, RequeuedRow(runs[r], backoff)), starts' = starts
    PROVE  StepMoves
<1>1. runs \in [Runs -> Row] /\ runs[r] \in Row /\ RowConsistent(runs[r], starts[r])
    BY DEF OInv, IInv, TypeOK, RowsConsistent
<1>2. /\ runs[r].status = seen.status /\ runs[r].lease = seen.lease
      /\ runs[r].heartbeat_at = seen.heartbeat_at
    BY DEF MaySettle, Unchanged
<1>3. runs[r].status \in Active /\ runs[r].attempts < MaxAttempts
    BY <1>2 DEF RequeueJustified, SeenConsistent
<1>4. starts[r] < MaxAttempts
    <2>1. starts[r] \in Nat /\ runs[r].attempts \in Nat /\ MaxAttempts \in Nat
        BY <1>1, TableAssumption DEF OInv, IInv, TypeOK, Row
    <2> QED BY <1>1, <1>3, <2>1 DEF RowConsistent
<1>5. runs[r].status = "running" => OlderThan(runs[r].heartbeat_at, now, HeartbeatTimeout)
    BY <1>2 DEF RequeueJustified
<1>6. /\ RequeuedRow(runs[r], backoff).status = "queued"
      /\ RequeuedRow(runs[r], backoff).deadline_at = runs[r].deadline_at
      /\ RequeuedRow(runs[r], backoff).lease = NoLease
    BY <1>1 DEF RequeuedRow, Row
<1>7. Moves(r) /\ OthersKept(r)
    BY <1>1, <1>3, <1>4, <1>5, <1>6, WriteKeepsOthers DEF Moves, TakenBack, DeadlineFollows
<1> QED BY <1>7 DEF StepMoves

LEMMA WatchApplyMoves ==
    ASSUME OInv, NEW d \in Dispatchers, NEW r \in Runs, WatchApply(d, r)
    PROVE  StepMoves
<1> DEFINE seen    == watch[d].seen[r]
           verdict == watch[d].verdict[r]
<1>1. /\ runs \in [Runs -> Row] /\ runs[r] \in Row /\ starts' = starts
      /\ Write(r, Applied(seen, verdict, runs[r]))
    BY DEF OInv, IInv, TypeOK, WatchApply, agentVars
<1>2. seen \in Observation /\ verdict \in Decision
    BY PassTyped DEF OInv, WatchApply
<1>3. /\ SeenConsistent(seen, runs[r])
      /\ verdict.kind = "requeue" => RequeueJustified(seen)
    BY DEF OInv, IInv, WatchApply, WatchConsistent, PassConsistent
<1> HIDE DEF seen, verdict
<1>4. CASE Applied(seen, verdict, runs[r]) = runs[r]
    BY <1>1, <1>4, TouchMoves
<1>5. CASE verdict.kind = "requeue" /\ MaySettle(seen, runs[r], "queued", TRUE)
    <2>1. Applied(seen, verdict, runs[r]) = RequeuedRow(runs[r], Backoff(seen.attempts + 1))
        BY <1>5 DEF Applied
    <2>2. Backoff(seen.attempts + 1) \in Nat
        BY <1>2, BackoffTyped DEF Observation
    <2> QED BY <1>1, <1>2, <1>3, <1>5, <2>1, <2>2, RequeueMoves
<1>6. ASSUME NEW target \in {"failed", "cancelled"}, NEW checkHeartbeat,
             MaySettle(seen, runs[r], target, checkHeartbeat),
             Applied(seen, verdict, runs[r]) = SettledRow(runs[r], target)
      PROVE  StepMoves
    <2>1. runs[r].status \in Statuses \ Terminal
        BY <1>6, NothingLeavesTerminal DEF MaySettle, Unchanged
    <2> QED BY <1>1, <1>6, <2>1, SettleMoves
<1>7. CASE verdict.kind = "ask_agent_to_cancel"
    <2>1. Applied(seen, verdict, runs[r]) = [runs[r] EXCEPT !.cancel_requested = TRUE]
        BY <1>7 DEF Applied
    <2> QED BY <1>1, <2>1, TouchMoves DEF Row
<1>8. \/ Applied(seen, verdict, runs[r]) = runs[r]
      \/ verdict.kind = "requeue" /\ MaySettle(seen, runs[r], "queued", TRUE)
      \/ /\ MaySettle(seen, runs[r], "failed", verdict.code # "DEADLINE_EXCEEDED")
         /\ Applied(seen, verdict, runs[r]) = SettledRow(runs[r], "failed")
      \/ /\ MaySettle(seen, runs[r], "cancelled", TRUE)
         /\ Applied(seen, verdict, runs[r]) = SettledRow(runs[r], "cancelled")
      \/ verdict.kind = "ask_agent_to_cancel"
    BY DEF Applied
<1> QED BY <1>4, <1>5, <1>6, <1>7, <1>8

LEMMA ControlMoves ==
    ASSUME OInv, NEW d \in Dispatchers, DispatcherStep(d)
    PROVE  StepMoves
<1>1. CASE \/ CheckRoom(d) \/ Survey(d) \/ ClaimNothing(d) \/ Offer(d)
           \/ Dispatched(d) \/ NotDispatched(d)
    BY <1>1
    DEF CheckRoom, Survey, ClaimNothing, Offer, Dispatched, NotDispatched, HangUp,
        StepMoves, tableVars, agentVars
<1>2. CASE \/ WatchRead(d) \/ WatchDecide(d) \/ DispatcherCrash(d)
           \/ \E r \in Runs : WatchApplyFails(d, r)
    BY <1>2
    DEF WatchRead, WatchDecide, WatchApplyFails, DispatcherCrash, StepMoves, tableVars, agentVars
<1> QED
    BY <1>1, <1>2, ClaimMoves, ReturnUnstartedMoves, WatchApplyMoves
    DEF DispatcherStep, WatchStep

------------------------------------------------------------------------------
(* The api. *)

LEMMA ApiMoves ==
    ASSUME OInv, Api
    PROVE  StepMoves
<1>1. starts' = starts
    BY DEF Api, agentVars
<1>2. PICK r \in Runs :
         \/ Create(r) \/ StoreSecrets(r) \/ SkipSecrets(r)
         \/ CancelRead(r) \/ CancelFlag(r) \/ CancelFinish(r) \/ CancelDropped(r)
    BY DEF Api, ApiStep
<1>3. runs \in [Runs -> Row] /\ runs[r] \in Row /\ RowConsistent(runs[r], starts[r])
    BY DEF OInv, IInv, TypeOK, RowsConsistent
<1>4. CASE SkipSecrets(r) \/ CancelRead(r) \/ CancelDropped(r)
    BY <1>1, <1>4 DEF SkipSecrets, CancelRead, CancelDropped, StepMoves, tableVars
<1>5. CASE StoreSecrets(r)
    BY <1>1, <1>3, <1>5, TouchMoves DEF StoreSecrets, Row
<1>6. CASE CancelFlag(r)
    BY <1>1, <1>3, <1>6, TouchMoves DEF CancelFlag, Row
<1>7. CASE CancelFinish(r)
    <2>1. CASE UNCHANGED tableVars
        BY <1>1, <2>1 DEF StepMoves, tableVars
    <2>2. CASE /\ CanTransition(runs[r].status, "cancelled")
               /\ Write(r, SettledRow(runs[r], "cancelled"))
        BY <1>1, <1>3, <2>2, NothingLeavesTerminal, SettleMoves
    <2> QED BY <1>7, <2>1, <2>2 DEF CancelFinish
<1>8. CASE Create(r)
    <2>1. /\ CreatedRow.status = "queued" /\ CreatedRow.lease = NoLease
          /\ CreatedRow.deadline_at = None
        BY DEF CreatedRow, NoRow
    <2>2. runs[r].status = Absent /\ runs[r].deadline_at = None /\ Write(r, CreatedRow)
        BY <1>3, <1>8 DEF Create, RowConsistent
    <2>3. Moves(r) /\ OthersKept(r)
        BY <1>1, <1>3, <2>1, <2>2, WriteKeepsOthers DEF Moves, Submitted, DeadlineFollows
    <2> QED BY <2>3 DEF StepMoves
<1> QED BY <1>2, <1>4, <1>5, <1>6, <1>7, <1>8

------------------------------------------------------------------------------
(* The step, and the invariant it rests on. *)

LEMMA EveryStepMoves == OInv /\ [Next]_vars => StepMoves
<1> SUFFICES ASSUME OInv, [Next]_vars PROVE StepMoves
    OBVIOUS
<1>1. CASE TimePasses \/ Network \/ UNCHANGED vars
    BY <1>1 DEF TimePasses, Tick, Network, LoseCall, vars, tableVars, agentVars, StepMoves
<1> QED
    BY <1>1, ApiMoves, AgentMoves, ControlMoves DEF Next, Agent, Control

\* Requests leave a replica's lock, or enter it with what they have just read.
LEMMA AcceptingRead ==
    ASSUME OInv, [Next]_vars, NEW a \in Agents, NEW req \in accepting'[a]
    PROVE  \/ req \in accepting[a]
           \/ runs' = runs /\ req.deadline = runs[req.call.run].deadline_at
<1>1. accepting \in [Agents -> SUBSET Accepted]
    BY DEF OInv, IInv, TypeOK
<1>2. CASE TimePasses \/ Network \/ Api \/ UNCHANGED vars
    BY <1>2 DEF TimePasses, Network, LoseCall, Api, vars, agentVars
<1>3. ASSUME NEW b \in Agents, AgentStep(b)
      PROVE  \/ req \in accepting[a]
             \/ runs' = runs /\ req.deadline = runs[req.call.run].deadline_at
    <2>1. CASE AcceptRead(b)
        BY <1>1, <2>1 DEF AcceptRead, Takes, tableVars
    <2>2. CASE AcceptCommit(b) \/ AcceptFails(b) \/ AcceptLost(b) \/ AgentCrash(b)
        BY <1>1, <2>2 DEF AcceptCommit, AcceptFails, AcceptLost, AgentCrash, MarkRunning
    <2>3. CASE RejectConflict(b) \/ RejectNoCapacity(b) \/ BeginDraining(b)
        BY <2>3 DEF RejectConflict, RejectNoCapacity, BeginDraining
    <2>4. CASE \E r \in Runs :
                  \/ Heartbeat(b, r) \/ LeaseLost(b, r) \/ ObserveCancel(b, r)
                  \/ DeadlineFires(b, r) \/ Complete(b, r)
                  \/ Settle(b, r) \/ SettleFails(b, r)
        BY <2>4
        DEF Heartbeat, LeaseLost, ObserveCancel, DeadlineFires, Complete, Settle, SettleFails,
            Decides, Ends, agentVars
    <2> QED BY <1>3, <2>1, <2>2, <2>3, <2>4 DEF AgentStep
<1>4. ASSUME NEW d \in Dispatchers, DispatcherStep(d)
      PROVE  req \in accepting[a]
    <2>1. CASE \/ CheckRoom(d) \/ Survey(d) \/ Claim(d) \/ ClaimNothing(d) \/ Offer(d)
               \/ Dispatched(d) \/ NotDispatched(d) \/ ReturnUnstarted(d)
        BY <2>1
        DEF CheckRoom, Survey, Claim, ClaimNothing, Offer, Dispatched, NotDispatched,
            ReturnUnstarted, HangUp, agentVars
    <2>2. CASE \/ WatchStep(d) \/ DispatcherCrash(d) \/ \E r \in Runs : WatchApplyFails(d, r)
        BY <2>2
        DEF WatchStep, WatchRead, WatchDecide, WatchApply, WatchApplyFails, DispatcherCrash,
            agentVars
    <2> QED BY <1>4, <2>1, <2>2 DEF DispatcherStep
<1> QED BY <1>2, <1>3, <1>4 DEF Next, Agent, Control

\* Under a lease that was issued before the step, the deadline is the one of
\* before the step.
LEMMA LeaseFixesDeadline ==
    ASSUME OInv, StepMoves, NEW r \in Runs, NEW lease \in Nat, Issued(r, lease),
           runs'[r].lease = lease
    PROVE  /\ runs[r].lease = lease
           /\ runs'[r].deadline_at = runs[r].deadline_at
<1>1. runs[r].minted \in Nat
    BY DEF OInv, IInv, TypeOK, Row
<1>2. CASE runs'[r] = runs[r]
    BY <1>2
<1>3. CASE DeadlineFollows(runs[r], runs'[r])
    BY <1>1, <1>3 DEF DeadlineFollows, Issued, NoLease
<1> QED BY <1>2, <1>3 DEF StepMoves, Moves, OthersKept

\* OInv is inductive.
LEMMA StepKeepsOInv == OInv /\ [Next]_vars => OInv'
<1> SUFFICES ASSUME OInv, [Next]_vars PROVE OInv'
    OBVIOUS
<1>1. IInv'
    BY StepKeepsIInv DEF OInv
<1>2. StepMoves
    BY EveryStepMoves
<1>3. ASSUME NEW a \in Agents, NEW req \in accepting'[a],
             req.call.lease = runs'[req.call.run].lease
      PROVE  req.deadline = runs'[req.call.run].deadline_at
    <2>1. CASE runs' = runs /\ req.deadline = runs[req.call.run].deadline_at
        BY <2>1
    <2>2. CASE req \in accepting[a]
        <3>1. /\ req.call.run \in Runs /\ req.call.lease \in Nat
              /\ Issued(req.call.run, req.call.lease)
            BY <2>2 DEF OInv, IInv, TypeOK, LeasesIssued, AcceptingIssued, Accepted, Call
        <3>2. /\ runs[req.call.run].lease = req.call.lease
              /\ runs'[req.call.run].deadline_at = runs[req.call.run].deadline_at
            BY <1>2, <1>3, <3>1, LeaseFixesDeadline
        <3> QED BY <2>2, <3>2 DEF OInv, ReadDeadlinesCurrent
    <2> QED BY <2>1, <2>2, AcceptingRead
<1> QED BY <1>1, <1>3 DEF OInv, ReadDeadlinesCurrent

LEMMA OutcomeInductive == Spec => []OInv
<1>1. Init => OInv
    BY InitIInv DEF Init, AgentInit, OInv, ReadDeadlinesCurrent
<1>2. OInv /\ [Next]_vars => OInv'
    BY StepKeepsOInv
<1> QED BY <1>1, <1>2, PTL DEF Spec

------------------------------------------------------------------------------
(* The theorems. *)

\* A settled run keeps its outcome, whichever of the api, the watchdogs and
\* late agents acts on it next.
THEOREM SettledOnceHolds == Spec => SettledOnce
<1>1. OInv /\ [Next]_vars
         => [\A r \in Runs : runs[r].status \in Terminal
                                => runs'[r].status = runs[r].status]_vars
    BY EveryStepMoves
    DEF StepMoves, Moves, OthersKept, Stays, Submitted, Claimed, Started, TakenBack, GivenUp,
        Finished, Active, Terminal, Absent
<1> QED BY <1>1, OutcomeInductive, PTL DEF Spec, SettledOnce

\* A success is committed only by the task that holds the run's lease and
\* computed that success.
THEOREM OutcomeOfOwnerHolds == Spec => OutcomeOfOwner
<1>1. OInv /\ [Next]_vars
         => [\A r \in Runs :
                /\ runs[r].status \notin Terminal
                /\ runs'[r].status \in {"succeeded", "succeeded_with_warnings"}
                => \E a \in Agents : /\ tasks[a][r].lease = runs[r].lease
                                     /\ tasks[a][r].outcome = runs'[r].status]_vars
    BY EveryStepMoves
    DEF StepMoves, Moves, OthersKept, Stays, Submitted, Claimed, Started, TakenBack, GivenUp,
        Finished, Terminal
<1> QED BY <1>1, OutcomeInductive, PTL DEF Spec, OutcomeOfOwner

\* A running run whose agent heartbeated within the timeout is not requeued.
THEOREM LiveAgentKeepsRunHolds == Spec => LiveAgentKeepsRun
<1>1. OInv /\ [Next]_vars
         => [\A r \in Runs :
                runs[r].status = "running" /\ runs'[r].status = "queued"
                   => OlderThan(runs[r].heartbeat_at, now, HeartbeatTimeout)]_vars
    BY EveryStepMoves
    DEF StepMoves, Moves, OthersKept, Stays, Submitted, Claimed, Started, TakenBack, GivenUp,
        Finished, Terminal, Absent
<1> QED BY <1>1, OutcomeInductive, PTL DEF Spec, LiveAgentKeepsRun

\* The deadline the first claim fixed is the run's for good.
THEOREM DeadlineKeptHolds == Spec => DeadlineKept
<1>1. OInv /\ [Next]_vars
         => [\A r \in Runs : runs[r].deadline_at # None
                                => runs'[r].deadline_at = runs[r].deadline_at]_vars
    BY EveryStepMoves DEF StepMoves, Moves, OthersKept, DeadlineFollows
<1> QED BY <1>1, OutcomeInductive, PTL DEF Spec, DeadlineKept

\* Whatever the services do to a run is what RunPromise allows.
LEMMA StepKeepsPromise ==
    ASSUME OInv, StepMoves, runs' \in [Runs -> Row], starts' \in [Runs -> Nat]
    PROVE  \/ /\ [r \in Runs |-> runs'[r].status] = [r \in Runs |-> runs[r].status]
              /\ starts' = starts
           \/ Promise!Next
<1> DEFINE status == [r \in Runs |-> runs[r].status]
<1>1. CASE runs' = runs /\ starts' = starts
    BY <1>1
<1>2. ASSUME NEW r \in Runs, Moves(r), OthersKept(r)
      PROVE  \/ status' = status /\ starts' = starts
             \/ Promise!Next
    <2>1. status' = [status EXCEPT ![r] = runs'[r].status]
        BY <1>2 DEF OthersKept
    <2>2. starts' = [starts EXCEPT ![r] = starts'[r]] /\ starts[r] \in Nat
        BY <1>2 DEF OthersKept, OInv, IInv, TypeOK
    <2>3. status[r] = runs[r].status
        OBVIOUS
    <2>4. RowConsistent(runs[r], starts[r]) /\ runs[r].attempts \in Nat /\ MaxAttempts \in Nat
        BY TableAssumption DEF OInv, IInv, TypeOK, RowsConsistent, Row
    <2> HIDE DEF status
    <2>5. starts'[r] = starts[r] => starts' = starts
        BY <2>2 DEF OInv, IInv, TypeOK
    <2>6. CASE Stays(r)
        <3>1. status' = status
            BY <2>1, <2>3, <2>6 DEF Stays, status
        <3> QED BY <2>5, <2>6, <3>1 DEF Stays
    <2>7. CASE Submitted(r)
        <3>1. Promise!Submit(r)
            BY <2>1, <2>3, <2>5, <2>7 DEF Submitted, status, Promise!Submit, Promise!Become, Absent, Promise!Absent
        <3> QED BY <3>1 DEF Promise!Next
    <2>8. CASE Claimed(r)
        <3>1. starts[r] < MaxAttempts
            BY <2>2, <2>4, <2>8 DEF Claimed, RowConsistent
        <3>2. Promise!HandOut(r)
            BY <2>1, <2>3, <2>5, <2>8, <3>1 DEF Claimed, status, Promise!HandOut, Promise!Become
        <3> QED BY <3>2 DEF Promise!Next
    <2>9. CASE Started(r)
        <3>1. starts[r] < MaxAttempts
            BY <2>2, <2>4, <2>9 DEF Started, RowConsistent
        <3>2. Promise!Start(r)
            BY <2>1, <2>2, <2>3, <2>9, <3>1 DEF Started, status, Promise!Start, Promise!Become
        <3> QED BY <3>2 DEF Promise!Next
    <2>10. CASE TakenBack(r)
        <3>1. Promise!TakeBack(r)
            BY <2>1, <2>3, <2>5, <2>10
            DEF TakenBack, status, Promise!TakeBack, Promise!Become, Active, Promise!Active
        <3> QED BY <3>1 DEF Promise!Next
    <2>11. CASE GivenUp(r) \/ Finished(r)
        <3>1. Promise!Settle(r)
            BY <2>1, <2>3, <2>5, <2>11
            DEF GivenUp, Finished, status, Promise!Settle, Promise!Become,
                Statuses, Active, Terminal, Promise!Statuses, Promise!Active, Promise!Terminal
        <3> QED BY <3>1 DEF Promise!Next
    <2> QED BY <1>2, <2>6, <2>7, <2>8, <2>9, <2>10, <2>11 DEF Moves
<1> QED BY <1>1, <1>2 DEF StepMoves

\* The lifecycle implements RunPromise.
THEOREM PromiseImplemented == Spec => ImplementsPromise
<1>1. Init => Promise!Init
    BY DEF Init, TableInit, AgentInit, NoRow, Promise!Init, Absent, Promise!Absent
<1>2. OInv /\ [Next]_vars => [Promise!Next]_<<[r \in Runs |-> runs[r].status], starts>>
    <2> SUFFICES ASSUME OInv, [Next]_vars
                 PROVE  [Promise!Next]_<<[r \in Runs |-> runs[r].status], starts>>
        OBVIOUS
    <2>1. runs' \in [Runs -> Row] /\ starts' \in [Runs -> Nat]
        BY StepKeepsOInv DEF OInv, IInv, TypeOK
    <2> QED BY <2>1, EveryStepMoves, StepKeepsPromise
<1> QED BY <1>1, <1>2, OutcomeInductive, PTL DEF Spec, ImplementsPromise, Promise!Spec

-----------------------------------------------------------------------------
(***************************************************************************)
(* The two limits on runs in progress.  A replica's slots: the accept lock *)
(* of RunExecutor.execute makes its check and its write one step, however  *)
(* many requests reach it.  The global limit: Dispatcher.DispatchOnce has  *)
(* no such lock, and keeps the limit only where it is the one dispatcher.  *)
(***************************************************************************)
(* The slots of a replica. *)

\* While a request holds the accept lock there is a slot left for it.
SlotInv(a) ==
    /\ IsFiniteSet(Executing(a))
    /\ Cardinality(Executing(a)) <= Slots
    /\ accepting[a] # {}
          => /\ \E req : accepting[a] = {req}
             /\ Cardinality(Executing(a)) < Slots

SlotsInv == IInv /\ \A a \in Agents : SlotInv(a)

\* Tasks end, requests leave the lock.
LEMMA FewerTasksFit ==
    ASSUME NEW a, SlotInv(a), Executing(a)' \subseteq Executing(a),
           accepting'[a] \subseteq accepting[a]
    PROVE  SlotInv(a)'
<1>1. /\ IsFiniteSet(Executing(a)') /\ Cardinality(Executing(a)') <= Cardinality(Executing(a))
      /\ Cardinality(Executing(a)) \in Nat /\ Cardinality(Executing(a)') \in Nat
    BY FS_Subset, FS_CardinalityType DEF SlotInv
<1>2. Cardinality(Executing(a)') <= Slots
    BY <1>1, AgentAssumption DEF SlotInv
<1>3. ASSUME accepting'[a] # {}
      PROVE  /\ \E req : accepting'[a] = {req}
             /\ Cardinality(Executing(a)') < Slots
    BY <1>1, <1>3, AgentAssumption DEF SlotInv
<1> QED BY <1>1, <1>2, <1>3 DEF SlotInv

\* A request takes the lock having found a free slot.
LEMMA FreeSlotLocked ==
    ASSUME IInv, NEW a \in Agents, SlotInv(a), AcceptRead(a)
    PROVE  SlotInv(a)'
<1>1. PICK c \in Pending(a) : LockFree(a) /\ Passes(a, c) /\ Takes(a, c) /\ tasks' = tasks
    BY DEF AcceptRead
<1>2. Executing(a)' = Executing(a)
    BY <1>1 DEF Executing
<1>3. \E req : accepting'[a] = {req}
    BY <1>1 DEF IInv, TypeOK, LockFree, Takes
<1>4. Cardinality(Executing(a)) \in Nat
    BY FS_CardinalityType DEF SlotInv
<1>5. Cardinality(Executing(a)) < Slots
    BY <1>1, <1>4, AgentAssumption DEF Passes, SlotsFree, SlotInv
<1> QED BY <1>2, <1>3, <1>5 DEF SlotInv

\* The request that held the lock fills the slot it was promised.
LEMMA LockedSlotFilled ==
    ASSUME IInv, NEW a \in Agents, SlotInv(a), NEW req \in accepting[a], NEW created,
           MarkRunning(a, req, created)
    PROVE  SlotInv(a)'
<1> DEFINE r == req.call.run
<1>1. accepting'[a] = {}
    BY DEF IInv, TypeOK, MarkRunning, SlotInv
<1>2. /\ IsFiniteSet(Executing(a)) /\ Cardinality(Executing(a)) < Slots
      /\ Cardinality(Executing(a)) \in Nat
    BY FS_CardinalityType DEF SlotInv
<1>3. Executing(a)' \subseteq Executing(a) \cup {r}
    <2>1. CASE tasks' = tasks
        BY <2>1 DEF Executing
    <2>2. CASE tasks' = [tasks EXCEPT ![a][r] = [lease |-> req.call.lease, outcome |-> Undecided]]
        BY <2>2 DEF Executing, IInv, TypeOK
    <2> QED BY <2>1, <2>2 DEF MarkRunning, SetTask
<1>4. /\ IsFiniteSet(Executing(a) \cup {r})
      /\ Cardinality(Executing(a) \cup {r}) <= Cardinality(Executing(a)) + 1
    <2>1. /\ IsFiniteSet(Executing(a) \cup {r})
          /\ Cardinality(Executing(a) \cup {r})
                = IF r \in Executing(a) THEN Cardinality(Executing(a))
                                        ELSE Cardinality(Executing(a)) + 1
        BY <1>2, FS_AddElement
    <2> QED BY <1>2, <2>1
<1>5. /\ IsFiniteSet(Executing(a)')
      /\ Cardinality(Executing(a)') <= Cardinality(Executing(a) \cup {r})
      /\ Cardinality(Executing(a)') \in Nat /\ Cardinality(Executing(a) \cup {r}) \in Nat
    BY <1>3, <1>4, FS_Subset, FS_CardinalityType
<1>6. Cardinality(Executing(a)') <= Slots
    BY <1>2, <1>4, <1>5, AgentAssumption
<1> QED BY <1>1, <1>5, <1>6 DEF SlotInv

\* A replica's own step.
LEMMA OwnStepFits ==
    ASSUME IInv, NEW a \in Agents, SlotInv(a), AgentStep(a)
    PROVE  SlotInv(a)'
<1>1. /\ accepting \in [Agents -> SUBSET Accepted]
      /\ tasks \in [Agents -> [Runs -> Task]]
    BY DEF IInv, TypeOK
<1>2. CASE AcceptRead(a)
    BY <1>2, FreeSlotLocked
<1>3. CASE AcceptCommit(a) \/ AcceptFails(a)
    BY <1>3, LockedSlotFilled DEF AcceptCommit, AcceptFails
<1>4. CASE \/ AcceptLost(a) \/ RejectConflict(a) \/ RejectNoCapacity(a)
           \/ BeginDraining(a) \/ AgentCrash(a)
    <2>1. /\ Executing(a)' \subseteq Executing(a)
          /\ accepting'[a] \subseteq accepting[a]
        BY <1>1, <1>4
        DEF AcceptLost, RejectConflict, RejectNoCapacity, BeginDraining, AgentCrash, Executing
    <2> QED BY <2>1, FewerTasksFit
<1>5. ASSUME NEW r \in Runs,
             \/ Heartbeat(a, r) \/ LeaseLost(a, r) \/ ObserveCancel(a, r)
             \/ DeadlineFires(a, r) \/ Complete(a, r) \/ Settle(a, r) \/ SettleFails(a, r)
      PROVE  SlotInv(a)'
    <2>1. accepting' = accepting
        BY <1>5
        DEF Heartbeat, LeaseLost, ObserveCancel, DeadlineFires, Complete, Settle, SettleFails,
            Decides, Ends, agentVars
    <2>2. \/ tasks' = tasks
          \/ \E task : SetTask(a, r, task) /\ tasks[a][r] # NoTask
        BY <1>5
        DEF Heartbeat, LeaseLost, ObserveCancel, DeadlineFires, Complete, Settle, SettleFails,
            Working, Settling, Decides, Ends, agentVars
    <2>3. Executing(a)' \subseteq Executing(a)
        BY <1>1, <2>2 DEF SetTask, Executing
    <2> QED BY <2>1, <2>3, FewerTasksFit
<1> QED BY <1>2, <1>3, <1>4, <1>5 DEF AgentStep

\* Nobody else touches a replica's tasks or its lock.
LEMMA OthersLeaveSlots ==
    ASSUME IInv, NEW a \in Agents, NEW b \in Agents, a # b, AgentStep(b)
    PROVE  tasks'[a] = tasks[a] /\ accepting'[a] = accepting[a]
<1>1. /\ accepting \in [Agents -> SUBSET Accepted]
      /\ tasks \in [Agents -> [Runs -> Task]]
    BY DEF IInv, TypeOK
<1>2. CASE \/ AcceptRead(b) \/ AcceptLost(b) \/ RejectConflict(b) \/ RejectNoCapacity(b)
           \/ BeginDraining(b) \/ AgentCrash(b)
    BY <1>1, <1>2
    DEF AcceptRead, Takes, AcceptLost, RejectConflict, RejectNoCapacity, BeginDraining,
        AgentCrash
<1>3. CASE AcceptCommit(b) \/ AcceptFails(b)
    BY <1>1, <1>3 DEF AcceptCommit, AcceptFails, MarkRunning, SetTask
<1>4. ASSUME NEW r \in Runs,
             \/ Heartbeat(b, r) \/ LeaseLost(b, r) \/ ObserveCancel(b, r)
             \/ DeadlineFires(b, r) \/ Complete(b, r) \/ Settle(b, r) \/ SettleFails(b, r)
      PROVE  tasks'[a] = tasks[a] /\ accepting'[a] = accepting[a]
    BY <1>1, <1>4
    DEF Heartbeat, LeaseLost, ObserveCancel, DeadlineFires, Complete, Settle, SettleFails,
        Decides, Ends, SetTask, agentVars
<1> QED BY <1>2, <1>3, <1>4 DEF AgentStep

LEMMA DispatchersLeaveSlots ==
    ASSUME NEW d \in Dispatchers, DispatcherStep(d)
    PROVE  tasks' = tasks /\ accepting' = accepting
<1>1. CASE \/ CheckRoom(d) \/ Survey(d) \/ Claim(d) \/ ClaimNothing(d) \/ Offer(d)
           \/ Dispatched(d) \/ NotDispatched(d) \/ ReturnUnstarted(d)
    BY <1>1
    DEF CheckRoom, Survey, Claim, ClaimNothing, Offer, Dispatched, NotDispatched,
        ReturnUnstarted, HangUp, agentVars
<1>2. CASE \/ WatchStep(d) \/ DispatcherCrash(d) \/ \E r \in Runs : WatchApplyFails(d, r)
    BY <1>2
    DEF WatchStep, WatchRead, WatchDecide, WatchApply, WatchApplyFails, DispatcherCrash,
        agentVars
<1> QED BY <1>1, <1>2 DEF DispatcherStep

------------------------------------------------------------------------------
LEMMA StepKeepsSlots == SlotsInv /\ [Next]_vars => SlotsInv'
<1> SUFFICES ASSUME SlotsInv, [Next]_vars, NEW a \in Agents PROVE SlotInv(a)'
    BY StepKeepsIInv DEF SlotsInv
<1>1. IInv /\ SlotInv(a)
    BY DEF SlotsInv
<1>2. ASSUME tasks'[a] = tasks[a], accepting'[a] = accepting[a] PROVE SlotInv(a)'
    BY <1>1, <1>2, FewerTasksFit DEF Executing
<1>3. CASE TimePasses \/ Network \/ Api \/ UNCHANGED vars
    BY <1>2, <1>3 DEF TimePasses, Network, LoseCall, Api, vars, agentVars
<1>4. CASE \E b \in Agents : Agent(b)
    BY <1>1, <1>2, <1>4, OwnStepFits, OthersLeaveSlots DEF Agent
<1>5. CASE \E d \in Dispatchers : Control(d)
    BY <1>2, <1>5, DispatchersLeaveSlots DEF Control
<1> QED BY <1>3, <1>4, <1>5 DEF Next

\* No replica ever executes more runs than it has slots, for any number of
\* replicas, dispatchers and requests handled at once.
THEOREM SlotsRespectedHolds == Spec => []SlotsRespected
<1>1. Init => SlotsInv
    <2> SUFFICES ASSUME Init, NEW a \in Agents PROVE SlotInv(a)
        BY InitIInv DEF SlotsInv
    <2>1. Executing(a) = {} /\ accepting[a] = {}
        BY DEF Init, AgentInit, Executing
    <2> QED BY <2>1, FS_EmptySet, AgentAssumption DEF SlotInv
<1>2. SlotsInv /\ [Next]_vars => SlotsInv'
    BY StepKeepsSlots
<1>3. SlotsInv => SlotsRespected
    BY DEF SlotsInv, SlotInv, SlotsRespected
<1> QED BY <1>1, <1>2, <1>3, PTL DEF Spec

------------------------------------------------------------------------------
(* The global limit. *)

OneDispatcher == \A d, e \in Dispatchers : d = e

\* Between the count and the claim the count that was made still holds.
LimitInv ==
    /\ OInv
    /\ IsFiniteSet(ActiveRuns)
    /\ Cardinality(ActiveRuns) <= MaxConcurrentRuns
    /\ \A d \in Dispatchers : loop[d].phase \in {"room", "ranked"} => HasRoom

\* After a claim the loop has to count again before it claims the next run.
LEMMA ClaimLeavesRanked ==
    ASSUME OInv, NEW d \in Dispatchers, Claim(d)
    PROVE  loop[d].phase = "ranked" /\ loop'[d].phase \notin {"room", "ranked"}
<1>1. loop \in [Dispatchers -> Loop] /\ Idle.phase = "idle"
    BY DEF OInv, IInv, TypeOK, Idle
<1>2. loop[d].phase = "ranked"
    BY DEF Claim
<1>3. PICK r \in Runs :
         \/ Goto(d, [loop[d] EXCEPT !.phase   = "offer",
                                    !.run     = r,
                                    !.lease   = ClaimedRow(runs[r]).lease,
                                    !.attempt = ClaimedRow(runs[r]).attempts])
         \/ Goto(d, Idle)
    BY DEF Claim
<1>4. loop'[d].phase \in {"offer", "idle"}
    BY <1>1, <1>3 DEF Goto, Loop
<1> QED BY <1>2, <1>4

\* A loop is about to claim because it was already, or because it has just counted.
LEMMA RoomCounted ==
    ASSUME OneDispatcher, OInv, [Next]_vars, NEW d \in Dispatchers,
           loop'[d].phase \in {"room", "ranked"}
    PROVE  \/ HasRoom /\ runs' = runs
           \/ loop[d].phase \in {"room", "ranked"}
<1>1. loop \in [Dispatchers -> Loop] /\ Idle.phase = "idle"
    BY DEF OInv, IInv, TypeOK, Idle
<1>2. CASE TimePasses \/ Network \/ Api \/ UNCHANGED vars \/ \E a \in Agents : Agent(a)
    BY <1>2 DEF TimePasses, Network, Api, Agent, vars, dispatcherVars
<1>3. CASE DispatcherStep(d)
    <2>1. CASE CheckRoom(d)
        BY <2>1 DEF CheckRoom, tableVars
    <2>2. CASE Survey(d)
        BY <2>2 DEF Survey
    <2>3. CASE WatchStep(d) \/ \E r \in Runs : WatchApplyFails(d, r)
        BY <2>3 DEF WatchStep, WatchRead, WatchDecide, WatchApply, WatchApplyFails
    <2>4. CASE \/ ClaimNothing(d) \/ Dispatched(d) \/ ReturnUnstarted(d) \/ DispatcherCrash(d)
        <3>1. loop'[d].phase = "idle"
            BY <1>1, <2>4
            DEF ClaimNothing, Dispatched, ReturnUnstarted, DispatcherCrash, Goto
        <3> QED BY <3>1
    <2>5. CASE Offer(d)
        BY <1>1, <2>5 DEF Offer, Goto, Loop
    <2>6. CASE NotDispatched(d)
        BY <1>1, <2>6 DEF NotDispatched, Goto, Loop
    <2>7. CASE Claim(d)
        BY <2>7, ClaimLeavesRanked
    <2> QED BY <1>3, <2>1, <2>2, <2>3, <2>4, <2>5, <2>6, <2>7 DEF DispatcherStep
<1> QED BY <1>2, <1>3 DEF Next, Control, OneDispatcher

\* Where nothing is claimed, no slot is taken.
LEMMA OnlyClaimsActivate ==
    ASSUME OInv, [Next]_vars, ~\E d \in Dispatchers : Claim(d)
    PROVE  ActiveRuns' \subseteq ActiveRuns
    BY EveryStepMoves
    DEF StepMoves, Moves, OthersKept, Stays, Submitted, Claimed, Started, TakenBack, GivenUp,
        Finished, Active, Terminal, ActiveRuns

LEMMA ClaimActivatesOne ==
    ASSUME OInv, [Next]_vars
    PROVE  \E r : ActiveRuns' \subseteq ActiveRuns \cup {r}
<1>1. CASE runs' = runs
    BY <1>1 DEF ActiveRuns
<1>2. ASSUME NEW r \in Runs, OthersKept(r)
      PROVE  ActiveRuns' \subseteq ActiveRuns \cup {r}
    BY <1>2 DEF OthersKept, ActiveRuns
<1> QED BY <1>1, <1>2, EveryStepMoves DEF StepMoves

LEMMA StepKeepsLimit == OneDispatcher /\ LimitInv /\ [Next]_vars => LimitInv'
<1> SUFFICES ASSUME OneDispatcher, LimitInv, [Next]_vars PROVE LimitInv'
    OBVIOUS
<1>1. OInv /\ OInv' /\ MaxConcurrentRuns \in Nat
    BY StepKeepsOInv, DispatcherAssumption DEF Validate, LimitInv
<1>2. IsFiniteSet(ActiveRuns) /\ Cardinality(ActiveRuns) \in Nat
    BY FS_CardinalityType DEF LimitInv
<1>3. CASE \E d \in Dispatchers : Claim(d)
    <2>1. HasRoom /\ \A d \in Dispatchers : loop'[d].phase \notin {"room", "ranked"}
        BY <1>1, <1>3, ClaimLeavesRanked DEF LimitInv, OneDispatcher
    <2>2. PICK r : ActiveRuns' \subseteq ActiveRuns \cup {r}
        BY <1>1, ClaimActivatesOne
    <2>3. /\ IsFiniteSet(ActiveRuns \cup {r})
          /\ Cardinality(ActiveRuns \cup {r})
                = IF r \in ActiveRuns THEN Cardinality(ActiveRuns)
                                      ELSE Cardinality(ActiveRuns) + 1
        BY <1>2, FS_AddElement
    <2>4. /\ IsFiniteSet(ActiveRuns') /\ Cardinality(ActiveRuns') \in Nat
          /\ Cardinality(ActiveRuns') <= Cardinality(ActiveRuns \cup {r})
        BY <2>2, <2>3, FS_Subset, FS_CardinalityType
    <2>5. Cardinality(ActiveRuns') <= MaxConcurrentRuns
        BY <1>1, <1>2, <2>1, <2>3, <2>4 DEF HasRoom
    <2> QED BY <1>1, <2>1, <2>4, <2>5 DEF LimitInv
<1>4. CASE ~\E d \in Dispatchers : Claim(d)
    <2>1. /\ IsFiniteSet(ActiveRuns') /\ Cardinality(ActiveRuns') \in Nat
          /\ Cardinality(ActiveRuns') <= Cardinality(ActiveRuns)
        BY <1>1, <1>2, <1>4, OnlyClaimsActivate, FS_Subset, FS_CardinalityType
    <2>2. HasRoom => HasRoom'
        BY <1>1, <1>2, <2>1 DEF HasRoom
    <2>3. Cardinality(ActiveRuns') <= MaxConcurrentRuns
        BY <1>1, <1>2, <2>1 DEF LimitInv
    <2>4. ASSUME NEW d \in Dispatchers, loop'[d].phase \in {"room", "ranked"}
          PROVE  HasRoom'
        BY <1>1, <2>2, <2>4, RoomCounted DEF LimitInv
    <2> QED BY <1>1, <2>1, <2>3, <2>4 DEF LimitInv
<1> QED BY <1>3, <1>4

\* One dispatcher keeps max_concurrent_runs over all replicas, although it
\* counts and claims in two statements; two dispatchers do not.
THEOREM GlobalLimitHolds == OneDispatcher => (Spec => []GlobalLimit)
<1> SUFFICES ASSUME OneDispatcher PROVE Spec => []GlobalLimit
    OBVIOUS
<1>1. Init => LimitInv
    <2> SUFFICES ASSUME Init PROVE LimitInv
        OBVIOUS
    <2>1. OInv
        BY InitIInv DEF Init, AgentInit, OInv, ReadDeadlinesCurrent
    <2>2. ActiveRuns = {}
        BY DEF Init, TableInit, NoRow, ActiveRuns, Active, Absent
    <2>3. \A d \in Dispatchers : loop[d].phase = "idle"
        BY DEF Init, DispatcherInit, Idle
    <2> QED BY <2>1, <2>2, <2>3, FS_EmptySet, DispatcherAssumption DEF Validate, LimitInv
<1>2. LimitInv /\ [Next]_vars => LimitInv'
    BY StepKeepsLimit
<1>3. LimitInv => GlobalLimit
    BY DEF LimitInv, GlobalLimit
<1> QED BY <1>1, <1>2, <1>3, PTL DEF Spec
===============================================================================
