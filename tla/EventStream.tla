----------------------------- MODULE EventStream -----------------------------
(***************************************************************************)
(* The timeline of one run and one client that follows it live:            *)
(* observability/events.py and store.go write `run_events`, api/sse.py     *)
(* streams them, the browser's EventSource reconnects with the last id it  *)
(* received.  Events are identified by their `seq`.                        *)
(*                                                                         *)
(* A write is a transaction: it takes the lock of the run's row with the   *)
(* UPDATE that hands out the sequence numbers, and its rows, the new       *)
(* status and the notification become visible together when it commits.    *)
(***************************************************************************)
EXTENDS Integers, FiniteSets, Sequences

CONSTANTS
    Attempts,   \* attempts that may come to own the run, numbered from 1
    Batch,      \* sse.py _BATCH
    MaxEvents,  \* bound: sequence numbers handed out
    MaxBreaks   \* bound: connections that break

ASSUME StreamAssumption ==
    /\ Attempts \in Nat /\ MaxEvents \in Nat /\ MaxBreaks \in Nat
    /\ Batch \in Nat \ {0}

Nobody     == 0
Workers    == 1..Attempts
Dispatcher == Attempts + 1
Api        == Attempts + 2
Writers    == Workers \cup {Dispatcher, Api}

VARIABLES
    event_seq,  \* runs.event_seq
    rows,       \* the committed rows of run_events
    settled,    \* runs.status is terminal
    owner,      \* the attempt whose lease is on the running row, or Nobody
    begun,      \* attempts that have owned the run
    open,       \* writer -> its transaction
    closing_seq \* history: event_seq as committed with the terminal status

timelineVars == <<event_seq, rows, settled, owner, begun, open, closing_seq>>

VARIABLES
    phase,      \* where stream_events is
    cursor,     \* its cursor
    observed,   \* the status it read was terminal
    batch,      \* the rows it fetched and has yet to yield
    full,       \* that fetch filled a batch
    pending,    \* notifications buffered on its connection
    listening,  \* the notification generator has not ended
    breaks      \* connections that broke so far

serverVars == <<phase, cursor, observed, batch, full, pending, listening, breaks>>

VARIABLES
    wire,     \* frames on their way to the client
    last_id,  \* EventSource's last event id
    shown,    \* state.events of the view; `seen` holds the same seqs
    closed    \* the client got run_closed and stopped

clientVars == <<wire, last_id, shown, closed>>
vars == <<timelineVars, serverVars, clientVars>>

Event   == [seq : Nat, by : Writers]
NoWrite == [events |-> {}, last |-> 0, settles |-> FALSE, active |-> FALSE]
Txn     == [events : SUBSET Event, last : Nat, settles : BOOLEAN, active : BOOLEAN]
Phases  == {"off", "status", "fetch", "send", "wait"}
\* A frame is the id of an event, or run_closed.  Keepalive comments and the
\* payload are not modelled, nor a stream for a run that does not exist.
RunClosed == 0
Frames    == Nat

Init ==
    /\ event_seq = 0 /\ rows = {} /\ settled = FALSE /\ owner = Nobody /\ begun = 0
    /\ open = [w \in Writers |-> NoWrite]
    /\ closing_seq = 0
    /\ phase = "off" /\ cursor = 0 /\ observed = FALSE /\ batch = {} /\ full = FALSE
    /\ pending = 0 /\ listening = FALSE /\ breaks = 0
    /\ wire = <<>> /\ last_id = 0 /\ shown = <<>> /\ closed = FALSE

------------------------------------------------------------------------------
(* Writing the timeline. *)

\* Mutant: the number is read before the row is locked.
RowUnlocked_Never == TRUE

\* The row lock of the UPDATE that increments event_seq.
RowUnlocked == \A w \in Writers : ~open[w].active

\* Mutant: only the terminal write is fenced.
MayEmit_Unfenced(w) == w = Dispatcher \/ w \in 1..begun

\* An attempt's EventWriter carries its lease; the dispatcher's insert has no
\* fence, also not after the run has ended.
MayEmit(w) ==
    \/ w = Dispatcher
    \/ w \in Workers /\ w = owner

\* The statement that takes the lock and the next `count` numbers.
Begin(w, count, settles) ==
    /\ RowUnlocked /\ ~open[w].active
    /\ event_seq + count <= MaxEvents
    /\ open' = [open EXCEPT ![w] =
          [events  |-> {[seq |-> event_seq + i, by |-> w] : i \in 1..count},
           last    |-> event_seq + count,
           settles |-> settles,
           active  |-> TRUE]]
    /\ UNCHANGED <<event_seq, rows, settled, owner, begun, closing_seq, serverVars, clientVars>>

\* EventWriter.emit and Store.Emit.
Emit(w) == MayEmit(w) /\ Begin(w, 1, FALSE)

\* RunRepository.finish of an attempt: run_finished, after report_ready if
\* there is a report.
Finish(w) ==
    /\ w \in Workers /\ w = owner
    /\ \E count \in {1, 2} : Begin(w, count, TRUE)

\* store.transition to a terminal status.
SettleByDispatcher == ~settled /\ Begin(Dispatcher, 1, TRUE)

\* cancel_run settles a run it found queued, whatever its status has become
\* since, without an event of its own.
SettleByApi == ~settled /\ Begin(Api, 0, TRUE)

\* Mutant: a notification only reaches a stream that is already waiting.
Notify_OnlyWaiting == pending' = IF phase = "wait" THEN pending + 1 ELSE pending

\* Postgres delivers at commit, and buffers for a connection that listens.
Notify == pending' = IF phase = "off" THEN pending ELSE pending + 1

Commit(w) ==
    /\ open[w].active
    /\ rows' = rows \cup open[w].events
    /\ event_seq' = open[w].last
    /\ IF open[w].settles
       THEN settled' = TRUE /\ owner' = Nobody /\ closing_seq' = open[w].last
       ELSE UNCHANGED <<settled, owner, closing_seq>>
    /\ open' = [open EXCEPT ![w] = NoWrite]
    /\ Notify
    /\ UNCHANGED <<begun, phase, cursor, observed, batch, full, listening, breaks, clientVars>>

\* The writer died or its statement failed: numbers, rows and status go back.
Rollback(w) ==
    /\ open[w].active
    /\ open' = [open EXCEPT ![w] = NoWrite]
    /\ UNCHANGED <<event_seq, rows, settled, owner, begun, closing_seq, serverVars, clientVars>>

\* The next attempt is marked running, or the lease is revoked; both wait for
\* the row lock and notify the new status.
ChangeOwner(next) ==
    /\ RowUnlocked /\ ~settled
    /\ owner' = next
    /\ Notify
    /\ UNCHANGED <<event_seq, rows, settled, open, closing_seq,
                   phase, cursor, observed, batch, full, listening, breaks, clientVars>>

TakeUp == owner = Nobody /\ begun < Attempts /\ begun' = begun + 1 /\ ChangeOwner(begun + 1)
Revoke == owner # Nobody /\ begun' = begun /\ ChangeOwner(Nobody)

------------------------------------------------------------------------------
(* Streaming: stream_events. *)

\* Mutant: the reconnect header is ignored.
Connect_FromStart ==
    /\ phase = "off" /\ wire = <<>> /\ ~closed
    /\ phase' = "status" /\ cursor' = 0
    /\ observed' = FALSE /\ batch' = {} /\ full' = FALSE
    /\ pending' = 0 /\ listening' = TRUE
    /\ UNCHANGED <<timelineVars, breaks, clientVars>>

\* EventSource (re)connects with Last-Event-ID; the handler LISTENs first.
Connect ==
    /\ phase = "off" /\ wire = <<>> /\ ~closed
    /\ phase' = "status" /\ cursor' = last_id
    /\ observed' = FALSE /\ batch' = {} /\ full' = FALSE
    /\ pending' = 0 /\ listening' = TRUE
    /\ UNCHANGED <<timelineVars, breaks, clientVars>>

\* The status is read in a statement of its own, before the events.
ReadStatus ==
    /\ phase = "status"
    /\ observed' = settled /\ phase' = "fetch"
    /\ UNCHANGED <<timelineVars, cursor, batch, full, pending, listening, breaks, clientVars>>

\* The seqs after the cursor; the first Batch of them in order.
Unread == {event.seq : event \in {e \in rows : e.seq > cursor}}
FirstBatch == {s \in Unread : Cardinality({t \in Unread : t < s}) < Batch}

Fetch ==
    /\ phase = "fetch"
    /\ batch' = FirstBatch
    /\ full' = (Cardinality(FirstBatch) = Batch)
    /\ phase' = "send"
    /\ UNCHANGED <<timelineVars, cursor, observed, pending, listening, breaks, clientVars>>

Yield ==
    /\ phase = "send"
    /\ \E s \in batch :
          /\ \A t \in batch : s <= t
          /\ batch' = batch \ {s}
          /\ cursor' = s
          /\ wire' = Append(wire, s)
    /\ UNCHANGED <<timelineVars, phase, observed, full, pending, listening, breaks,
                   last_id, shown, closed>>

\* The generator of the stream and its connection are gone.
HangUp ==
    /\ phase' = "off" /\ cursor' = 0 /\ observed' = FALSE /\ batch' = {} /\ full' = FALSE
    /\ pending' = 0 /\ listening' = FALSE

\* Mutant: the status is looked at after the events.
NextRound_StatusLast ==
    /\ phase = "send" /\ batch = {}
    /\ \/ /\ full \/ ~settled
          /\ phase' = IF full THEN "status" ELSE "wait"
          /\ UNCHANGED <<wire, cursor, observed, batch, full, pending, listening>>
       \/ /\ ~full /\ settled
          /\ HangUp
          /\ wire' = Append(wire, RunClosed)
    /\ UNCHANGED <<timelineVars, breaks, last_id, shown, closed>>

\* A full batch is followed by another read, a terminal status by run_closed.
NextRound ==
    /\ phase = "send" /\ batch = {}
    /\ \/ /\ full \/ ~observed
          /\ phase' = IF full THEN "status" ELSE "wait"
          /\ UNCHANGED <<wire, cursor, observed, batch, full, pending, listening>>
       \/ /\ ~full /\ observed
          /\ HangUp
          /\ wire' = Append(wire, RunClosed)
    /\ UNCHANGED <<timelineVars, breaks, last_id, shown, closed>>

\* The channel carries the notifications of every run; one of another run is
\* not counted in `pending`.
Wake ==
    /\ phase = "wait" /\ listening
    /\ phase' = "status"
    /\ \/ pending > 0 /\ pending' = pending - 1
       \/ UNCHANGED pending
    /\ UNCHANGED <<timelineVars, cursor, observed, batch, full, listening, breaks, clientVars>>

\* The keepalive timeout cancels the `anext`, and with it the generator.
Keepalive ==
    /\ phase = "wait" /\ listening
    /\ listening' = FALSE /\ phase' = "status"
    /\ UNCHANGED <<timelineVars, cursor, observed, batch, full, pending, breaks, clientVars>>

\* Waiting on the generator that ended raises, and the response ends.
WaitRaises ==
    /\ phase = "wait" /\ ~listening
    /\ HangUp
    /\ UNCHANGED <<timelineVars, breaks, clientVars>>

\* A proxy, the api process or the database connection goes away; what was on
\* its way is lost.
Break ==
    /\ phase # "off" \/ wire # <<>>
    /\ breaks < MaxBreaks /\ breaks' = breaks + 1
    /\ HangUp
    /\ wire' = <<>>
    /\ UNCHANGED <<timelineVars, last_id, shown, closed>>

------------------------------------------------------------------------------
(* The client: run.js and EventSource. *)

Seen(s) == \E i \in 1..Len(shown) : shown[i] = s

\* The run_event listener, and EventSource remembering the id.
ReceiveEvent ==
    /\ wire # <<>> /\ Head(wire) # RunClosed
    /\ wire' = Tail(wire)
    /\ last_id' = Head(wire)
    /\ shown' = IF Seen(Head(wire)) THEN shown ELSE Append(shown, Head(wire))
    /\ UNCHANGED <<timelineVars, serverVars, closed>>

\* Mutant: the view has no listener for run_closed.
ReceiveClosed_Ignored ==
    /\ wire # <<>> /\ Head(wire) = RunClosed
    /\ wire' = Tail(wire)
    /\ UNCHANGED <<timelineVars, serverVars, last_id, shown, closed>>

\* The run_closed listener.
ReceiveClosed ==
    /\ wire # <<>> /\ Head(wire) = RunClosed
    /\ wire' = Tail(wire)
    /\ closed' = TRUE
    /\ UNCHANGED <<timelineVars, serverVars, last_id, shown>>

Receive == ReceiveEvent \/ ReceiveClosed

WriteStep ==
    \/ \E w \in Writers : Emit(w) \/ Finish(w) \/ Commit(w) \/ Rollback(w)
    \/ SettleByDispatcher \/ SettleByApi \/ TakeUp \/ Revoke

StreamStep ==
    \/ Connect \/ ReadStatus \/ Fetch \/ Yield \/ NextRound
    \/ Wake \/ Keepalive \/ WaitRaises

Next == WriteStep \/ StreamStep \/ Break \/ Receive

Spec == Init /\ [][Next]_vars

\* The api keeps serving and the browser keeps reading and reconnecting;
\* nothing is assumed of the writers.
FairSpec == Spec /\ WF_vars(StreamStep) /\ WF_vars(Receive)

------------------------------------------------------------------------------
\* Every variable has its type.
TypeOK ==
    /\ event_seq \in Nat /\ rows \in SUBSET Event /\ settled \in BOOLEAN
    /\ owner \in Workers \cup {Nobody} /\ begun \in Nat
    /\ open \in [Writers -> Txn] /\ closing_seq \in Nat
    /\ phase \in Phases /\ cursor \in Nat /\ observed \in BOOLEAN
    /\ batch \in SUBSET Nat /\ full \in BOOLEAN
    /\ pending \in Nat /\ listening \in BOOLEAN /\ breaks \in Nat
    /\ wire \in Seq(Frames) /\ last_id \in Nat /\ shown \in Seq(Nat) /\ closed \in BOOLEAN

(***************************************************************************)
(* "Gap-free per-run ordering": the committed rows are numbered 1, 2, ...  *)
(* event_seq, each number once, whichever writers race and roll back.      *)
(***************************************************************************)
GapFree ==
    /\ {event.seq : event \in rows} = 1..event_seq
    /\ \A e, f \in rows : e.seq = f.seq => e = f

(***************************************************************************)
(* "A dropped connection resumes instead of replaying": the next event the *)
(* client is given is the one after its last, and the view appends it; no  *)
(* reconnection, lost frame or commit during a batch skips or repeats one. *)
(***************************************************************************)
EachOnceInOrder ==
    [][last_id' # last_id =>
          /\ last_id' = last_id + 1
          /\ shown' = Append(shown, last_id')]_vars

(***************************************************************************)
(* "A terminal observation must be followed by a drain": a client that was *)
(* told run_closed has all that was committed up to the terminal status.   *)
(***************************************************************************)
ClosedComplete == closed => settled /\ closing_seq <= Len(shown)

(***************************************************************************)
(* "LISTEN, backfill, wait": a stream that waits with nothing buffered has *)
(* seen all there is, so no event has to wait for the keepalive.           *)
(***************************************************************************)
NothingMissedWhileWaiting ==
    phase = "wait" /\ pending = 0 => cursor = event_seq /\ ~settled

(***************************************************************************)
(* "No event may be published by this attempt" once its lease is revoked:  *)
(* an attempt's events precede those of the attempts after it, and the     *)
(* terminal status.                                                        *)
(***************************************************************************)
RevokedAttemptsSilent ==
    \A e, f \in rows :
        e.by \in Workers =>
            /\ f.by \in Workers /\ e.by < f.by => e.seq < f.seq
            /\ settled => e.seq <= closing_seq

\* A client that keeps reconnecting learns that the run has ended.
EndIsDelivered == settled ~> closed
==============================================================================
