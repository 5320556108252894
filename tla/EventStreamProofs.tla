-------------------------- MODULE EventStreamProofs --------------------------
(***************************************************************************)
(* The safety properties of EventStream, for any number of attempts, any   *)
(* batch size and any bounds.                                              *)
(***************************************************************************)
EXTENDS EventStream, FiniteSetTheorems, TLAPS

Seqs == {event.seq : event \in rows}

\* The row lock: one transaction at a time, holding the numbers after the
\* committed ones.
OneWriter == \A v, w \in Writers : open[v].active /\ open[w].active => v = w

OpenNumbers ==
    \A w \in Writers : open[w].active =>
        \E count \in 0..2 :
            /\ open[w].last = event_seq + count
            /\ open[w].events = {[seq |-> event_seq + i, by |-> w] : i \in 1..count}

TimelineInv == OneWriter /\ OpenNumbers /\ GapFree

\* Attempts own the run in the order of their numbers, and an open
\* transaction of an attempt keeps it the owner.
OwnersInOrder ==
    /\ begun \in 0..Attempts
    /\ owner # Nobody => owner = begun
    /\ settled => owner = Nobody
    /\ \A w \in Workers : open[w].active => w = owner
    /\ \A w \in Writers : open[w].active /\ open[w].settles => ~settled
    /\ \A e \in rows : e.by \in Workers => e.by <= begun
    /\ settled => closing_seq <= event_seq

FenceInv == OwnersInOrder /\ RevokedAttemptsSilent

\* What the view shows, the frames on the wire and the cursor are consecutive.
ShownPrefix ==
    /\ Len(shown) = last_id
    /\ \A i \in 1..Len(shown) : shown[i] = i
    /\ last_id <= event_seq

WireFollows ==
    \A j \in 1..Len(wire) :
        /\ wire[j] <= event_seq
        /\ \/ wire[j] = last_id + j
           \/ /\ wire[j] = RunClosed /\ j = Len(wire)
              /\ phase = "off"
              /\ settled /\ closing_seq < last_id + j

CursorFollows == phase # "off" => cursor = last_id + Len(wire) /\ cursor <= event_seq

\* A batch starts right after the cursor and has no gap.
BatchFollows ==
    /\ phase # "send" => batch = {}
    /\ \A s \in batch : cursor < s /\ s <= event_seq
    /\ \A s \in batch : \A t \in 1..event_seq : cursor < t /\ t < s => t \in batch

\* A terminal status that was read before the batch: the batch completes it.
DrainInv ==
    /\ observed => settled
    /\ phase = "send" /\ observed /\ ~full =>
          \A s \in 1..closing_seq : cursor < s => s \in batch

\* With no notification buffered the stream has read what there is.
WaitInv ==
    /\ phase \in {"fetch", "send", "wait"} /\ pending = 0 => observed = settled
    /\ phase \in {"send", "wait"} /\ pending = 0 /\ ~full =>
          \A s \in 1..event_seq : cursor < s => s \in batch
    /\ phase = "wait" => ~full /\ ~observed

StreamInv == ShownPrefix /\ WireFollows /\ CursorFollows /\ BatchFollows /\ DrainInv /\ ClosedComplete

Inv == TypeOK /\ TimelineInv /\ FenceInv /\ StreamInv /\ WaitInv

------------------------------------------------------------------------------
(* The steps, by what they do to the timeline. *)

\* A statement that opens a transaction.
Opening(w, count) ==
    /\ w \in Workers => w = owner
    /\ \/ Begin(w, count, FALSE)
       \/ Begin(w, count, TRUE) /\ (w \notin Workers => ~settled)

Begins == \E w \in Writers, count \in 0..2 : Opening(w, count)

\* A turn of the stream, its end, or the client.
Follows == StreamStep \/ Break \/ Receive

LEMMA NobodyFacts ==
    /\ Nobody \notin Workers /\ Workers \subseteq Nat /\ Writers \subseteq Nat
    /\ Dispatcher \notin Workers /\ Api \notin Workers
    /\ Workers \subseteq Writers /\ Dispatcher \in Writers /\ Api \in Writers
BY StreamAssumption DEF Nobody, Workers, Writers, Dispatcher, Api

LEMMA StepKinds ==
    ASSUME Next
    PROVE  \/ Begins
           \/ \E w \in Writers : Commit(w) \/ Rollback(w)
           \/ TakeUp \/ Revoke \/ Follows
<1>0. 0 \in 0..2 /\ 1 \in 0..2 /\ 2 \in 0..2
  OBVIOUS
<1>1. ASSUME NEW w \in Writers, Emit(w) PROVE Begins
  <2>1. Opening(w, 1)
    BY <1>1, NobodyFacts DEF Emit, MayEmit, Opening
  <2> QED BY <1>0, <2>1, Zenon DEF Begins
<1>2. ASSUME NEW w \in Writers, Finish(w) PROVE Begins
  <2>1. PICK count \in {1, 2} : Begin(w, count, TRUE)
    BY <1>2 DEF Finish
  <2>2. Opening(w, count)
    BY <1>2, <2>1, Zenon DEF Finish, Opening
  <2>3. count \in 0..2
    OBVIOUS
  <2> QED BY <2>2, <2>3, Zenon DEF Begins
<1>3. ASSUME SettleByDispatcher PROVE Begins
  <2>1. Opening(Dispatcher, 1)
    BY <1>3, NobodyFacts DEF SettleByDispatcher, Opening
  <2> QED BY <1>0, <2>1, NobodyFacts, Zenon DEF Begins
<1>4. ASSUME SettleByApi PROVE Begins
  <2>1. Opening(Api, 0)
    BY <1>4, NobodyFacts DEF SettleByApi, Opening
  <2> QED BY <1>0, <2>1, NobodyFacts, Zenon DEF Begins
<1> QED BY <1>1, <1>2, <1>3, <1>4 DEF Next, WriteStep, Follows

LEMMA FollowsKeepsTimeline == Follows => UNCHANGED timelineVars
<1> SUFFICES ASSUME Follows PROVE UNCHANGED timelineVars
  OBVIOUS
<1>1. CASE Connect \/ ReadStatus \/ Fetch \/ Yield
  BY <1>1 DEF Connect, ReadStatus, Fetch, Yield
<1>2. CASE NextRound \/ Wake \/ Keepalive \/ WaitRaises
  BY <1>2 DEF NextRound, Wake, Keepalive, WaitRaises
<1>3. CASE Break \/ Receive
  BY <1>3 DEF Break, Receive, ReceiveEvent, ReceiveClosed
<1> QED BY <1>1, <1>2, <1>3 DEF Follows, StreamStep

------------------------------------------------------------------------------
(* Type correctness. *)

LEMMA TypeInit == Init => TypeOK
<1> SUFFICES ASSUME Init PROVE TypeOK
  OBVIOUS
<1>1. NoWrite \in Txn
  BY DEF NoWrite, Txn
<1>2. open \in [Writers -> Txn]
  BY <1>1 DEF Init
<1>3. wire \in Seq(Frames) /\ shown \in Seq(Nat)
  BY DEF Init
<1> QED BY <1>2, <1>3 DEF Init, TypeOK, Nobody, Phases

LEMMA TypeOfHangUp ==
    HangUp => /\ phase' \in Phases /\ cursor' \in Nat /\ observed' \in BOOLEAN
              /\ batch' \in SUBSET Nat /\ full' \in BOOLEAN
              /\ pending' \in Nat /\ listening' \in BOOLEAN
<1> SUFFICES ASSUME HangUp
             PROVE  /\ phase' \in Phases /\ cursor' \in Nat /\ observed' \in BOOLEAN
                    /\ batch' \in SUBSET Nat /\ full' \in BOOLEAN
                    /\ pending' \in Nat /\ listening' \in BOOLEAN
  OBVIOUS
<1>1. cursor' \in Nat /\ pending' \in Nat /\ batch' \in SUBSET Nat
  BY DEF HangUp
<1>2. phase' \in Phases
  BY DEF HangUp, Phases
<1>3. observed' \in BOOLEAN /\ full' \in BOOLEAN /\ listening' \in BOOLEAN
  BY Zenon DEF HangUp
<1> QED BY <1>1, <1>2, <1>3

LEMMA TypeOfBegin ==
    ASSUME TypeOK, Begins
    PROVE  TypeOK'
<1>1. PICK w \in Writers, count \in 0..2, settles \in BOOLEAN : Begin(w, count, settles)
  <2>1. PICK w \in Writers, count \in 0..2 : Begin(w, count, FALSE) \/ Begin(w, count, TRUE)
    BY DEF Begins, Opening
  <2> QED BY <2>1
<1> DEFINE txn == [events  |-> {[seq |-> event_seq + i, by |-> w] : i \in 1..count},
                   last    |-> event_seq + count,
                   settles |-> settles,
                   active  |-> TRUE]
<1>2. txn \in Txn
  <2>1. event_seq \in Nat /\ count \in Nat
    BY DEF TypeOK
  <2>2. \A i \in 1..count : [seq |-> event_seq + i, by |-> w] \in Event
    BY <2>1 DEF Event
  <2> QED BY <2>1, <2>2 DEF Txn
<1>3. open' = [open EXCEPT ![w] = txn] /\ open \in [Writers -> Txn]
  BY <1>1 DEF Begin, TypeOK
<1>4. open' \in [Writers -> Txn]
  BY <1>2, <1>3
<1> QED BY <1>1, <1>4 DEF Begin, TypeOK, serverVars, clientVars

LEMMA TypeOfCommit ==
    ASSUME TypeOK, NEW w \in Writers, Commit(w)
    PROVE  TypeOK'
<1>1. open[w] \in Txn /\ NoWrite \in Txn
  BY DEF TypeOK, Txn, NoWrite
<1>2. rows' \in SUBSET Event /\ event_seq' \in Nat /\ closing_seq' \in Nat /\ settled' \in BOOLEAN
      /\ owner' \in Workers \cup {Nobody}
  BY <1>1 DEF Commit, TypeOK, Txn
<1>3. open' \in [Writers -> Txn]
  BY <1>1 DEF Commit, TypeOK
<1>4. pending' \in Nat
  BY DEF Commit, Notify, TypeOK
<1> QED BY <1>2, <1>3, <1>4 DEF Commit, TypeOK, clientVars

LEMMA TypeOfRollback ==
    ASSUME TypeOK, NEW w \in Writers, Rollback(w)
    PROVE  TypeOK'
<1>1. NoWrite \in Txn
  BY DEF Txn, NoWrite
<1>2. open' \in [Writers -> Txn]
  BY <1>1 DEF Rollback, TypeOK
<1> QED BY <1>2 DEF Rollback, TypeOK, serverVars, clientVars

LEMMA TypeOfOwnership ==
    ASSUME TypeOK, TakeUp \/ Revoke
    PROVE  TypeOK'
<1>1. begun' \in Nat
  BY DEF TakeUp, Revoke, TypeOK
<1>2. owner' \in Workers \cup {Nobody}
  BY StreamAssumption DEF TakeUp, Revoke, ChangeOwner, TypeOK, Workers
<1>3. pending' \in Nat
  BY DEF TakeUp, Revoke, ChangeOwner, Notify, TypeOK
<1> QED BY <1>1, <1>2, <1>3 DEF TakeUp, Revoke, ChangeOwner, TypeOK, clientVars

LEMMA TypeOfStream ==
    ASSUME TypeOK, StreamStep
    PROVE  TypeOK'
<1>0. UNCHANGED timelineVars
  BY FollowsKeepsTimeline DEF Follows
<1>1. CASE Connect
  BY <1>0, <1>1 DEF Connect, TypeOK, timelineVars, clientVars, Phases
<1>6. CASE ReadStatus
  BY <1>0, <1>6 DEF ReadStatus, TypeOK, timelineVars, clientVars, Phases
<1>2. CASE Fetch
  <2>1. FirstBatch \in SUBSET Nat
    BY DEF FirstBatch, Unread, TypeOK, Event
  <2> QED BY <1>0, <1>2, <2>1 DEF Fetch, TypeOK, timelineVars, clientVars, Phases
<1>3. CASE Yield
  <2>1. PICK s \in batch : batch' = batch \ {s} /\ cursor' = s /\ wire' = Append(wire, s)
    BY <1>3 DEF Yield
  <2>2. s \in Nat /\ batch' \in SUBSET Nat /\ wire' \in Seq(Frames)
    BY <2>1 DEF TypeOK, Frames
  <2> QED BY <1>0, <1>3, <2>1, <2>2 DEF Yield, TypeOK, timelineVars
<1>4. CASE NextRound
  <2>1. wire' \in Seq(Frames)
    <3>1. UNCHANGED wire \/ wire' = Append(wire, RunClosed)
      BY <1>4 DEF NextRound
    <3>2. wire \in Seq(Frames) /\ RunClosed \in Frames
      BY DEF TypeOK, RunClosed, Frames
    <3>3. Append(wire, RunClosed) \in Seq(Frames)
      BY <3>2
    <3> QED BY <3>1, <3>2, <3>3
  <2>2. CASE HangUp
    BY <1>0, <1>4, <2>1, <2>2, TypeOfHangUp DEF NextRound, TypeOK, timelineVars
  <2>3. CASE ~HangUp
    BY <1>0, <1>4, <2>1, <2>3 DEF NextRound, TypeOK, timelineVars, Phases
  <2> QED BY <2>2, <2>3
<1>5. CASE WaitRaises
  BY <1>0, <1>5, TypeOfHangUp DEF WaitRaises, TypeOK, timelineVars, clientVars
<1>7. CASE Wake
  BY <1>0, <1>7 DEF Wake, TypeOK, timelineVars, clientVars, Phases
<1>8. CASE Keepalive
  BY <1>0, <1>8 DEF Keepalive, TypeOK, timelineVars, clientVars, Phases
<1> QED BY <1>1, <1>2, <1>3, <1>4, <1>5, <1>6, <1>7, <1>8 DEF StreamStep

LEMMA TypeOfClient ==
    ASSUME TypeOK, Break \/ Receive
    PROVE  TypeOK'
<1>0. UNCHANGED timelineVars
  BY FollowsKeepsTimeline DEF Follows
<1>1. CASE Break
  <2>1. wire' \in Seq(Frames) /\ breaks' \in Nat
    BY <1>1 DEF Break, TypeOK
  <2> QED BY <1>0, <1>1, <2>1, TypeOfHangUp DEF Break, TypeOK, timelineVars
<1>2. CASE Receive
  <2>1. wire # <<>> /\ wire' = Tail(wire) /\ wire \in Seq(Nat)
    BY <1>2 DEF Receive, ReceiveEvent, ReceiveClosed, TypeOK, Frames
  <2>2. Head(wire) \in Nat /\ wire' \in Seq(Frames)
    BY <2>1 DEF Frames
  <2>3. last_id' \in Nat /\ shown' \in Seq(Nat) /\ closed' \in BOOLEAN
    <3>1. Append(shown, Head(wire)) \in Seq(Nat)
      BY <2>2 DEF TypeOK
    <3>2. CASE ReceiveEvent
      BY <2>2, <3>1, <3>2 DEF ReceiveEvent, TypeOK
    <3>3. CASE ReceiveClosed
      <4>1. closed' \in BOOLEAN
        BY <3>3, Zenon DEF ReceiveClosed
      <4> QED BY <3>3, <4>1 DEF ReceiveClosed, TypeOK
    <3> QED BY <1>2, <3>2, <3>3 DEF Receive
  <2>4. UNCHANGED serverVars
    BY <1>2 DEF Receive, ReceiveEvent, ReceiveClosed
  <2> QED BY <1>0, <2>2, <2>3, <2>4 DEF TypeOK, timelineVars, serverVars
<1> QED BY <1>1, <1>2

LEMMA TypePreserved == TypeOK /\ [Next]_vars => TypeOK'
<1> SUFFICES ASSUME TypeOK, [Next]_vars PROVE TypeOK'
  OBVIOUS
<1>1. CASE UNCHANGED vars
  BY <1>1 DEF vars, timelineVars, serverVars, clientVars, TypeOK
<1>2. CASE Next
  BY <1>2, StepKinds, TypeOfBegin, TypeOfCommit, TypeOfRollback, TypeOfOwnership, TypeOfStream,
     TypeOfClient DEF Follows
<1> QED BY <1>1, <1>2

\* Every variable of the timeline, the stream and the client keeps its type.
THEOREM StreamTypeCorrect == Spec => []TypeOK
<1>1. Init => TypeOK
  BY TypeInit
<1>2. TypeOK /\ [Next]_vars => TypeOK'
  BY TypePreserved
<1> QED BY <1>1, <1>2, PTL DEF Spec
------------------------------------------------------------------------------
(* The numbering, and the fence around it. *)

\* The rows a transaction adds carry the next numbers, each once.
LEMMA CommittedSeqs ==
    ASSUME TypeOK, TimelineInv, NEW w \in Writers, Commit(w)
    PROVE  /\ event_seq' \in Nat /\ event_seq <= event_seq'
           /\ \A e \in open[w].events : e.by = w /\ event_seq < e.seq /\ e.seq <= event_seq'
           /\ \A e, f \in open[w].events : e.seq = f.seq => e = f
           /\ \A s \in Nat : event_seq < s /\ s <= event_seq' =>
                  \E e \in open[w].events : e.seq = s
<1>1. PICK count \in 0..2 :
          /\ open[w].last = event_seq + count
          /\ open[w].events = {[seq |-> event_seq + i, by |-> w] : i \in 1..count}
  BY DEF Commit, TimelineInv, OpenNumbers
<1>2. event_seq \in Nat /\ event_seq' = event_seq + count
  BY <1>1 DEF Commit, TypeOK
<1>3. \A s \in Nat : event_seq < s /\ s <= event_seq' => \E e \in open[w].events : e.seq = s
  <2>1. SUFFICES ASSUME NEW s \in Nat, event_seq < s, s <= event_seq'
                 PROVE  \E e \in open[w].events : e.seq = s
    OBVIOUS
  <2>2. s - event_seq \in 1..count /\ event_seq + (s - event_seq) = s
    BY <1>2, <2>1
  <2>3. [seq |-> s, by |-> w] \in open[w].events
    BY <1>1, <2>2
  <2> QED BY <2>3
<1> QED BY <1>1, <1>2, <1>3

LEMMA GapFreeOfCommit ==
    ASSUME TypeOK, TimelineInv, NEW w \in Writers, Commit(w)
    PROVE  GapFree'
<1>1. rows' = rows \cup open[w].events
  BY DEF Commit
<1>2. /\ \A e \in rows : e.seq \in 1..event_seq
      /\ \A s \in 1..event_seq : \E e \in rows : e.seq = s
      /\ \A e, f \in rows : e.seq = f.seq => e = f
  BY DEF TimelineInv, GapFree
<1>3. event_seq \in Nat /\ \A e \in open[w].events : e.seq \in Nat
  BY DEF TypeOK, Txn, Event
<1>4. \A e \in rows' : e.seq \in 1..event_seq'
  BY <1>1, <1>2, <1>3, CommittedSeqs
<1>5. \A s \in 1..event_seq' : \E e \in rows' : e.seq = s
  <2> TAKE s \in 1..event_seq'
  <2>1. CASE s <= event_seq
    BY <1>1, <1>2, <1>3, <2>1, CommittedSeqs
  <2>2. CASE event_seq < s
    BY <1>1, <1>3, <2>2, CommittedSeqs
  <2> QED BY <1>3, <2>1, <2>2, CommittedSeqs
<1>6. \A e, f \in rows' : e.seq = f.seq => e = f
  BY <1>1, <1>2, <1>3, CommittedSeqs
<1> QED BY <1>4, <1>5, <1>6 DEF GapFree

LEMMA TimelineInit == Init => TimelineInv
BY DEF Init, TimelineInv, OneWriter, OpenNumbers, GapFree, NoWrite

LEMMA TimelineOfBegin ==
    ASSUME TypeOK, TimelineInv, Begins
    PROVE  TimelineInv'
<1>1. PICK w \in Writers, count \in 0..2, settles \in BOOLEAN : Begin(w, count, settles)
  <2>1. PICK w \in Writers, count \in 0..2 : Begin(w, count, FALSE) \/ Begin(w, count, TRUE)
    BY DEF Begins, Opening
  <2> QED BY <2>1
<1>2. /\ open' = [open EXCEPT ![w] =
              [events  |-> {[seq |-> event_seq + i, by |-> w] : i \in 1..count},
               last    |-> event_seq + count,
               settles |-> settles,
               active  |-> TRUE]]
      /\ \A v \in Writers : ~open[v].active
      /\ UNCHANGED <<event_seq, rows>>
      /\ open \in [Writers -> Txn]
  BY <1>1 DEF Begin, RowUnlocked, TypeOK
<1>3. \A v \in Writers : open'[v].active => v = w
  BY <1>2
<1>4. OneWriter'
  BY <1>3 DEF OneWriter
<1>5. OpenNumbers'
  BY <1>2, <1>3 DEF OpenNumbers
<1>6. GapFree'
  BY <1>2 DEF GapFree, TimelineInv
<1> QED BY <1>4, <1>5, <1>6 DEF TimelineInv

LEMMA TimelineOfEnd ==
    ASSUME TypeOK, TimelineInv, NEW w \in Writers, Commit(w) \/ Rollback(w)
    PROVE  TimelineInv'
<1>1. open[w].active /\ open' = [open EXCEPT ![w] = NoWrite] /\ open \in [Writers -> Txn]
  BY DEF Commit, Rollback, TypeOK
<1>2. \A v \in Writers : ~open'[v].active
  BY <1>1 DEF TimelineInv, OneWriter, NoWrite
<1>3. GapFree'
  BY GapFreeOfCommit DEF Rollback, GapFree, TimelineInv
<1> QED BY <1>2, <1>3 DEF TimelineInv, OneWriter, OpenNumbers

LEMMA TimelinePreserved == TypeOK /\ TimelineInv /\ [Next]_vars => TimelineInv'
<1> SUFFICES ASSUME TypeOK, TimelineInv, [Next]_vars PROVE TimelineInv'
  OBVIOUS
<1>1. ASSUME UNCHANGED <<event_seq, rows, open>> PROVE TimelineInv'
  BY <1>1 DEF TimelineInv, OneWriter, OpenNumbers, GapFree
<1>2. CASE UNCHANGED vars
  BY <1>1, <1>2 DEF vars, timelineVars
<1>3. CASE TakeUp \/ Revoke
  BY <1>1, <1>3 DEF TakeUp, Revoke, ChangeOwner
<1>4. CASE Follows
  BY <1>1, <1>4, FollowsKeepsTimeline DEF timelineVars
<1> QED BY <1>2, <1>3, <1>4, StepKinds, TimelineOfBegin, TimelineOfEnd

LEMMA FenceInit == Init => FenceInv
<1> SUFFICES ASSUME Init PROVE FenceInv
  OBVIOUS
<1>1. 0 \in 0..Attempts
  BY StreamAssumption
<1> QED BY <1>1, NobodyFacts DEF Init, FenceInv, OwnersInOrder, RevokedAttemptsSilent, NoWrite

LEMMA FenceOfBegin ==
    ASSUME TypeOK, FenceInv, Begins
    PROVE  FenceInv'
<1>1. PICK w \in Writers, count \in 0..2 : Opening(w, count)
  BY DEF Begins
<1>2. /\ open \in [Writers -> Txn]
      /\ UNCHANGED <<event_seq, rows, settled, owner, begun, closing_seq>>
  BY <1>1 DEF Opening, Begin, TypeOK
<1>3. /\ \A v \in Writers : v # w => open'[v] = open[v]
      /\ open'[w].settles => w \in Workers \/ ~settled
  BY <1>1, <1>2 DEF Opening, Begin
<1>4. w \in Workers => w = owner
  BY <1>1 DEF Opening
<1>5. \A v \in Workers : open'[v].active => v = owner
  BY <1>3, <1>4, NobodyFacts DEF FenceInv, OwnersInOrder
<1>6. \A v \in Writers : open'[v].active /\ open'[v].settles => ~settled
  BY <1>3, <1>4, NobodyFacts DEF FenceInv, OwnersInOrder
<1>7. OwnersInOrder'
  BY <1>2, <1>5, <1>6 DEF FenceInv, OwnersInOrder
<1>8. RevokedAttemptsSilent'
  BY <1>2 DEF FenceInv, RevokedAttemptsSilent
<1> QED BY <1>7, <1>8 DEF FenceInv

LEMMA FenceOfCommit ==
    ASSUME TypeOK, TimelineInv, FenceInv, NEW w \in Writers, Commit(w)
    PROVE  FenceInv'
<1>1. /\ open[w].active /\ rows' = rows \cup open[w].events /\ begun' = begun
      /\ open' = [open EXCEPT ![w] = NoWrite] /\ open \in [Writers -> Txn]
  BY DEF Commit, TypeOK
<1>2. \A v \in Writers : ~open'[v].active
  BY <1>1 DEF TimelineInv, OneWriter, NoWrite
<1>3. w \in Workers => w = owner /\ ~settled /\ w = begun
  BY <1>1, NobodyFacts DEF FenceInv, OwnersInOrder
<1>4. /\ \A e \in rows : e.seq \in 1..event_seq
      /\ event_seq \in Nat /\ event_seq' \in Nat /\ event_seq <= event_seq'
      /\ \A e \in open[w].events : e.by = w /\ e.seq \in Nat /\ event_seq < e.seq /\ e.seq <= event_seq'
  BY CommittedSeqs DEF TimelineInv, GapFree, TypeOK, Txn, Event
<1>5. begun \in Nat /\ \A e \in rows' : e.by \in Nat /\ (e.by \in Workers => e.by <= begun)
  <2>1. \A e \in rows' : e.by \in Nat
    BY <1>1, NobodyFacts DEF TypeOK, Txn, Event
  <2>2. \A e \in rows' : e.by \in Workers => e.by <= begun
    BY <1>1, <1>3, <1>4 DEF FenceInv, OwnersInOrder, TypeOK
  <2> QED BY <2>1, <2>2 DEF TypeOK
<1>6. \/ ~settled /\ settled' /\ owner' = Nobody /\ closing_seq' = event_seq'
      \/ UNCHANGED <<settled, owner, closing_seq>>
  BY <1>1 DEF Commit, FenceInv, OwnersInOrder
<1>7. OwnersInOrder'
  <2>1. /\ begun' \in 0..Attempts /\ (owner' # Nobody => owner' = begun')
        /\ (settled' => owner' = Nobody)
    BY <1>1, <1>6 DEF FenceInv, OwnersInOrder
  <2>2. settled' => closing_seq' <= event_seq'
    <3>1. CASE closing_seq' = event_seq'
      BY <1>4, <3>1
    <3>2. CASE UNCHANGED <<settled, owner, closing_seq>>
      BY <1>4, <3>2 DEF FenceInv, OwnersInOrder, TypeOK
    <3> QED BY <1>6, <3>1, <3>2
  <2>3. \A e \in rows' : e.by \in Workers => e.by <= begun'
    BY <1>1, <1>5
  <2> QED BY <1>2, <2>1, <2>2, <2>3, NobodyFacts DEF OwnersInOrder
<1>8. \A e, f \in rows' : e.by \in Workers /\ f.by \in Workers /\ e.by < f.by => e.seq < f.seq
  <2> SUFFICES ASSUME NEW e \in rows', NEW f \in rows', e.by \in Workers, f.by \in Workers, e.by < f.by
               PROVE  e.seq < f.seq
    OBVIOUS
  <2>1. CASE f \in rows /\ e \in rows
    BY <2>1 DEF FenceInv, RevokedAttemptsSilent
  <2>2. CASE e \in rows /\ f \in open[w].events
    BY <1>4, <2>2
  <2>3. CASE e \in open[w].events
    BY <1>3, <1>4, <1>5, <2>3
  <2> QED BY <1>1, <2>1, <2>2, <2>3
<1>9. \A e \in rows' : e.by \in Workers /\ settled' => e.seq <= closing_seq'
  <2> SUFFICES ASSUME NEW e \in rows', e.by \in Workers, settled' PROVE e.seq <= closing_seq'
    OBVIOUS
  <2>1. CASE closing_seq' = event_seq'
    BY <1>1, <1>4, <2>1
  <2>2. CASE UNCHANGED <<settled, owner, closing_seq>>
    <3>1. w \notin Workers
      BY <1>3, <2>2
    <3>2. e \in rows
      BY <1>1, <1>4, <3>1
    <3> QED BY <2>2, <3>2 DEF FenceInv, RevokedAttemptsSilent
  <2> QED BY <1>6, <2>1, <2>2
<1> QED BY <1>7, <1>8, <1>9 DEF FenceInv, RevokedAttemptsSilent

LEMMA FenceOfOwnership ==
    ASSUME TypeOK, FenceInv, TakeUp \/ Revoke
    PROVE  FenceInv'
<1>1. /\ UNCHANGED <<event_seq, rows, settled, open, closing_seq>>
      /\ ~settled /\ \A v \in Writers : ~open[v].active
  BY DEF TakeUp, Revoke, ChangeOwner, RowUnlocked
<1>2. /\ begun' \in 0..Attempts /\ begun <= begun'
      /\ owner' # Nobody => owner' = begun'
  BY StreamAssumption DEF TakeUp, Revoke, ChangeOwner, FenceInv, OwnersInOrder
<1>3. \A e \in rows' : e.by \in Workers => e.by <= begun'
  <2> SUFFICES ASSUME NEW e \in rows, e.by \in Workers PROVE e.by <= begun'
    BY <1>1
  <2>1. e.by <= begun /\ e.by \in Nat
    BY NobodyFacts DEF FenceInv, OwnersInOrder
  <2>2. begun \in Nat /\ begun' \in Nat
    BY <1>2, StreamAssumption DEF TypeOK
  <2> QED BY <1>2, <2>1, <2>2
<1>4. OwnersInOrder'
  BY <1>1, <1>2, <1>3, NobodyFacts DEF OwnersInOrder
<1>5. RevokedAttemptsSilent'
  BY <1>1 DEF FenceInv, RevokedAttemptsSilent
<1> QED BY <1>4, <1>5 DEF FenceInv

LEMMA FencePreserved == TypeOK /\ TimelineInv /\ FenceInv /\ [Next]_vars => FenceInv'
<1> SUFFICES ASSUME TypeOK, TimelineInv, FenceInv, [Next]_vars PROVE FenceInv'
  OBVIOUS
<1>1. ASSUME UNCHANGED timelineVars PROVE FenceInv'
  BY <1>1 DEF timelineVars, FenceInv, OwnersInOrder, RevokedAttemptsSilent
<1>2. ASSUME NEW w \in Writers, Rollback(w) PROVE FenceInv'
  <2>1. open' = [open EXCEPT ![w] = NoWrite] /\ open \in [Writers -> Txn]
        /\ UNCHANGED <<event_seq, rows, settled, owner, begun, closing_seq>>
    BY <1>2 DEF Rollback, TypeOK
  <2>2. \A v \in Writers : open'[v].active => open'[v] = open[v]
    BY <2>1 DEF NoWrite
  <2>3. OwnersInOrder'
    BY <2>1, <2>2, NobodyFacts DEF FenceInv, OwnersInOrder
  <2>4. RevokedAttemptsSilent'
    BY <2>1 DEF FenceInv, RevokedAttemptsSilent
  <2> QED BY <2>3, <2>4 DEF FenceInv
<1>3. CASE UNCHANGED vars
  BY <1>1, <1>3 DEF vars
<1>4. CASE Follows
  BY <1>1, <1>4, FollowsKeepsTimeline
<1> QED BY <1>2, <1>3, <1>4, StepKinds, FenceOfBegin, FenceOfCommit, FenceOfOwnership

------------------------------------------------------------------------------
(* The stream and the client. *)

\* By GapFree the unread numbers are an interval; a batch is its first part,
\* and all of it if it is not full.
LEMMA BatchOfFetch ==
    ASSUME TypeOK, GapFree, cursor <= event_seq
    PROVE  /\ \A s \in FirstBatch : s \in 1..event_seq /\ cursor < s
           /\ \A s \in FirstBatch : \A t \in 1..event_seq : cursor < t /\ t < s => t \in FirstBatch
           /\ Cardinality(FirstBatch) # Batch =>
                 \A s \in 1..event_seq : cursor < s => s \in FirstBatch
<1>1. cursor \in Nat /\ event_seq \in Nat /\ Batch \in Nat /\ Batch > 0
  BY StreamAssumption DEF TypeOK
<1>2. Unread = (cursor + 1)..event_seq
  <2>1. \A s \in Unread : s \in 1..event_seq /\ cursor < s
    BY DEF Unread, GapFree
  <2>2. \A s \in 1..event_seq : cursor < s => s \in Unread
    BY DEF Unread, GapFree
  <2>3. \A s \in (cursor + 1)..event_seq : s \in 1..event_seq /\ cursor < s
    BY <1>1
  <2>4. \A s \in Unread : s \in (cursor + 1)..event_seq
    BY <1>1, <2>1
  <2> QED BY <2>2, <2>3, <2>4
<1>3. \A s \in Unread : Cardinality({t \in Unread : t < s}) = s - 1 - cursor
  <2> SUFFICES ASSUME NEW s \in Unread PROVE Cardinality({t \in Unread : t < s}) = s - 1 - cursor
    OBVIOUS
  <2>1. {t \in Unread : t < s} = (cursor + 1)..(s - 1)
    BY <1>1, <1>2
  <2>2. cursor + 1 \in Int /\ s - 1 \in Int /\ cursor <= s - 1
    BY <1>1, <1>2
  <2>3. Cardinality((cursor + 1)..(s - 1)) = IF cursor + 1 > s - 1 THEN 0 ELSE (s - 1) - (cursor + 1) + 1
    BY <2>2, FS_Interval
  <2>4. s \in Int /\ (IF cursor + 1 > s - 1 THEN 0 ELSE (s - 1) - (cursor + 1) + 1) = s - 1 - cursor
    BY <1>1, <1>2
  <2> QED BY <2>1, <2>3, <2>4
<1>4. FirstBatch = {s \in (cursor + 1)..event_seq : s - 1 - cursor < Batch}
  BY <1>2, <1>3 DEF FirstBatch
<1>5. ASSUME Cardinality(FirstBatch) # Batch, NEW s \in 1..event_seq, cursor < s, s \notin FirstBatch
      PROVE  FALSE
  <2>1. FirstBatch = (cursor + 1)..(cursor + Batch)
    BY <1>1, <1>4, <1>5
  <2>2. Cardinality((cursor + 1)..(cursor + Batch)) =
           IF cursor + 1 > cursor + Batch THEN 0 ELSE (cursor + Batch) - (cursor + 1) + 1
    BY <1>1, FS_Interval
  <2> QED BY <1>1, <1>5, <2>1, <2>2
<1>6. \A s \in FirstBatch : s \in 1..event_seq /\ cursor < s
  BY <1>1, <1>4
<1>7. \A s \in FirstBatch : \A t \in 1..event_seq : cursor < t /\ t < s => t \in FirstBatch
  BY <1>1, <1>4
<1> QED BY <1>5, <1>6, <1>7

LEMMA StreamInit == Init => StreamInv
BY DEF Init, StreamInv, ShownPrefix, WireFollows, CursorFollows, BatchFollows, DrainInv,
       ClosedComplete

\* Of the timeline the stream only needs to know that numbers, once taken,
\* stay, and that a settled run stays settled with the same last number.
LEMMA StreamOfTimeline ==
    ASSUME TypeOK, TypeOK', StreamInv,
           event_seq <= event_seq',
           settled => settled' /\ closing_seq' = closing_seq,
           UNCHANGED <<phase, cursor, observed, batch, full>>, UNCHANGED clientVars
    PROVE  StreamInv'
<1>1. event_seq \in Nat /\ event_seq' \in Nat /\ UNCHANGED <<wire, last_id, shown, closed>>
      /\ last_id \in Nat /\ cursor \in Nat /\ wire \in Seq(Nat)
  BY DEF clientVars, TypeOK, Frames
<1>2. ShownPrefix'
  BY <1>1 DEF StreamInv, ShownPrefix
<1>3. WireFollows'
  <2> SUFFICES ASSUME NEW j \in 1..Len(wire)
               PROVE  /\ wire[j] <= event_seq'
                      /\ \/ wire[j] = last_id + j
                         \/ /\ wire[j] = RunClosed /\ j = Len(wire)
                            /\ phase = "off"
                            /\ settled' /\ closing_seq' < last_id + j
    BY <1>1 DEF WireFollows
  <2>1. wire[j] \in Nat
    BY <1>1
  <2>2. wire[j] <= event_seq'
    BY <1>1, <2>1 DEF StreamInv, WireFollows
  <2> QED BY <2>2 DEF StreamInv, WireFollows
<1>4. CursorFollows'
  BY <1>1 DEF StreamInv, CursorFollows
<1>5. BatchFollows'
  <2>1. phase' # "send" => batch' = {}
    BY DEF StreamInv, BatchFollows
  <2>2. \A s \in batch' : cursor' < s /\ s <= event_seq'
    BY <1>1 DEF StreamInv, BatchFollows, TypeOK
  <2>3. \A s \in batch' : \A t \in 1..event_seq' : cursor' < t /\ t < s => t \in batch'
    <3> SUFFICES ASSUME NEW s \in batch, NEW t \in 1..event_seq', cursor < t, t < s PROVE t \in batch
      OBVIOUS
    <3>1. t \in 1..event_seq
      BY <1>1 DEF StreamInv, BatchFollows, TypeOK
    <3> QED BY <3>1 DEF StreamInv, BatchFollows
  <2> QED BY <2>1, <2>2, <2>3 DEF BatchFollows
<1>6. DrainInv'
  BY DEF StreamInv, DrainInv
<1>7. ClosedComplete'
  BY <1>1 DEF StreamInv, ClosedComplete
<1> QED BY <1>2, <1>3, <1>4, <1>5, <1>6, <1>7 DEF StreamInv

\* A stream that is gone leaves what is on the wire to the client.
LEMMA StreamOfEnd ==
    ASSUME TypeOK, StreamInv, HangUp, UNCHANGED timelineVars, UNCHANGED <<last_id, shown, closed>>,
           \/ UNCHANGED wire
           \/ wire' = <<>>
           \/ /\ wire' = Append(wire, RunClosed) /\ phase # "off"
              /\ settled /\ closing_seq <= cursor
    PROVE  StreamInv'
<1>1. /\ event_seq \in Nat /\ last_id \in Nat /\ wire \in Seq(Nat) /\ cursor \in Nat /\ closing_seq \in Nat
      /\ UNCHANGED <<event_seq, settled, closing_seq>>
  BY DEF TypeOK, timelineVars, Frames
<1>2. WireFollows'
  <2>1. CASE UNCHANGED wire
    BY <1>1, <2>1 DEF StreamInv, WireFollows, HangUp
  <2>2. CASE wire' = <<>>
    BY <2>2 DEF WireFollows
  <2>3. CASE wire' = Append(wire, RunClosed) /\ phase # "off" /\ settled /\ closing_seq <= cursor
    <3>1. cursor = last_id + Len(wire) /\ Len(wire) \in Nat
      BY <1>1, <2>3 DEF StreamInv, CursorFollows
    <3>2. Len(wire') = Len(wire) + 1 /\ wire'[Len(wire) + 1] = RunClosed
          /\ \A j \in 1..Len(wire) : wire'[j] = wire[j]
      BY <1>1, <2>3 DEF RunClosed
    <3>3. \A j \in 1..Len(wire) : wire[j] = last_id + j /\ wire[j] <= event_seq
      BY <2>3 DEF StreamInv, WireFollows
    <3>4. phase' = "off"
      BY DEF HangUp
    <3> SUFFICES ASSUME NEW j \in 1..(Len(wire) + 1)
                 PROVE  /\ wire'[j] <= event_seq
                        /\ \/ wire'[j] = last_id + j
                           \/ /\ wire'[j] = RunClosed /\ j = Len(wire) + 1
                              /\ settled /\ closing_seq < last_id + j
      BY <1>1, <3>2, <3>4 DEF WireFollows
    <3>5. CASE j \in 1..Len(wire)
      BY <3>2, <3>3, <3>5
    <3>6. CASE j = Len(wire) + 1
      BY <1>1, <2>3, <3>1, <3>2, <3>6 DEF RunClosed
    <3> QED BY <3>1, <3>5, <3>6
  <2> QED BY <2>1, <2>2, <2>3
<1>3. ShownPrefix'
  BY <1>1 DEF StreamInv, ShownPrefix
<1>4. CursorFollows' /\ BatchFollows' /\ DrainInv'
  BY DEF HangUp, CursorFollows, BatchFollows, DrainInv
<1>5. ClosedComplete'
  BY <1>1 DEF StreamInv, ClosedComplete
<1> QED BY <1>2, <1>3, <1>4, <1>5 DEF StreamInv

LEMMA StreamOfStreamStep ==
    ASSUME TypeOK, TimelineInv, FenceInv, StreamInv, StreamStep
    PROVE  StreamInv'
<1>0. /\ UNCHANGED timelineVars /\ UNCHANGED <<last_id, shown, closed, event_seq, settled, closing_seq>>
      /\ last_id \in Nat /\ event_seq \in Nat /\ cursor \in Nat /\ batch \in SUBSET Nat /\ wire \in Seq(Nat)
  <2>1. UNCHANGED timelineVars
    BY FollowsKeepsTimeline DEF Follows
  <2>2. UNCHANGED <<last_id, shown, closed>>
    BY DEF StreamStep, Connect, ReadStatus, Fetch, Yield, NextRound, Wake, Keepalive, WaitRaises,
           clientVars
  <2> QED BY <2>1, <2>2 DEF TypeOK, timelineVars, Frames
<1>1. ShownPrefix' /\ ClosedComplete'
  BY <1>0 DEF StreamInv, ShownPrefix, ClosedComplete
<1>2. CASE Connect
  <2>1. wire' = <<>> /\ cursor' = last_id /\ phase' = "status" /\ observed' = FALSE /\ batch' = {}
        /\ Len(wire') = 0
    BY <1>2 DEF Connect, clientVars
  <2> QED BY <1>0, <1>1, <2>1 DEF StreamInv, ShownPrefix, WireFollows, CursorFollows, BatchFollows, DrainInv
<1>3. CASE ReadStatus \/ Wake \/ Keepalive
  <2>1. /\ UNCHANGED <<wire, cursor, batch>> /\ phase # "off" /\ phase # "send"
        /\ phase' # "off" /\ phase' # "send" /\ (observed' = settled \/ observed' = observed)
    BY <1>3 DEF ReadStatus, Wake, Keepalive, clientVars
  <2> QED BY <1>0, <1>1, <2>1 DEF StreamInv, WireFollows, CursorFollows, BatchFollows, DrainInv
<1>4. CASE Fetch
  <2>1. /\ UNCHANGED <<wire, cursor, observed>> /\ phase = "fetch" /\ phase' = "send"
        /\ batch' = FirstBatch /\ full' = (Cardinality(FirstBatch) = Batch)
    BY <1>4 DEF Fetch, clientVars
  <2>2. WireFollows' /\ CursorFollows'
    BY <1>0, <2>1 DEF StreamInv, WireFollows, CursorFollows
  <2>3. cursor <= event_seq
    BY <2>1 DEF StreamInv, CursorFollows
  <2>4. BatchFollows'
    BY <1>0, <2>1, <2>3, BatchOfFetch DEF BatchFollows, TimelineInv
  <2>5. DrainInv'
    <3>1. observed' => settled'
      BY <1>0, <2>1 DEF StreamInv, DrainInv
    <3>2. ASSUME observed, ~full', NEW s \in 1..closing_seq, cursor < s PROVE s \in FirstBatch
      <4>1. closing_seq \in Nat /\ closing_seq <= event_seq
        BY <3>2 DEF StreamInv, DrainInv, FenceInv, OwnersInOrder, TypeOK
      <4>2. s \in 1..event_seq
        BY <1>0, <4>1
      <4> QED BY <2>1, <2>3, <3>2, <4>2, BatchOfFetch DEF TimelineInv
    <3> QED BY <1>0, <2>1, <3>1, <3>2 DEF DrainInv
  <2> QED BY <1>1, <2>2, <2>4, <2>5 DEF StreamInv
<1>5. CASE Yield
  <2>1. PICK s \in batch : /\ \A t \in batch : s <= t
                           /\ batch' = batch \ {s} /\ cursor' = s /\ wire' = Append(wire, s)
    BY <1>5 DEF Yield
  <2>2. UNCHANGED <<phase, observed, full>> /\ phase = "send"
    BY <1>5 DEF Yield
  <2>3. s \in Nat /\ cursor < s /\ s <= event_seq
    BY <1>0, <2>1 DEF StreamInv, BatchFollows
  <2>4. s = cursor + 1
    <3>1. CASE cursor + 1 < s
      <4>1. cursor + 1 \in 1..event_seq /\ cursor < cursor + 1
        BY <1>0, <2>3, <3>1
      <4>2. cursor + 1 \in batch
        BY <2>1, <3>1, <4>1 DEF StreamInv, BatchFollows
      <4> QED BY <1>0, <2>1, <2>3, <3>1, <4>2
    <3> QED BY <1>0, <2>3, <3>1
  <2>5. cursor = last_id + Len(wire) /\ Len(wire) \in Nat
    BY <1>0, <2>2 DEF StreamInv, CursorFollows
  <2>6. /\ Len(wire') = Len(wire) + 1 /\ wire'[Len(wire) + 1] = s
        /\ \A j \in 1..Len(wire) : wire'[j] = wire[j]
    BY <1>0, <2>1, <2>3
  <2>7. \A j \in 1..Len(wire) : wire[j] = last_id + j /\ wire[j] <= event_seq
    BY <2>2 DEF StreamInv, WireFollows
  <2>8. \A j \in 1..Len(wire') : wire'[j] = last_id + j /\ wire'[j] <= event_seq
    <3> SUFFICES ASSUME NEW j \in 1..(Len(wire) + 1)
                 PROVE  wire'[j] = last_id + j /\ wire'[j] <= event_seq
      BY <2>6
    <3>1. CASE j \in 1..Len(wire)
      BY <2>6, <2>7, <3>1
    <3>2. CASE j = Len(wire) + 1
      BY <1>0, <2>3, <2>4, <2>5, <2>6, <3>2
    <3> QED BY <2>5, <3>1, <3>2
  <2>9. WireFollows'
    BY <1>0, <2>8 DEF WireFollows
  <2>10. CursorFollows'
    BY <1>0, <2>1, <2>3, <2>4, <2>5, <2>6 DEF CursorFollows
  <2>11. BatchFollows'
    <3>1. \A t \in batch' : s < t /\ t <= event_seq
      BY <1>0, <2>1, <2>3 DEF StreamInv, BatchFollows
    <3>2. \A t \in batch' : \A u \in 1..event_seq : s < u /\ u < t => u \in batch'
      BY <1>0, <2>1, <2>3 DEF StreamInv, BatchFollows
    <3> QED BY <1>0, <2>1, <2>2, <3>1, <3>2 DEF BatchFollows
  <2>12. DrainInv'
    <3>1. observed' => settled'
      BY <1>0, <2>2 DEF StreamInv, DrainInv
    <3>2. ASSUME observed, ~full, NEW t \in 1..closing_seq, s < t PROVE t \in batch'
      <4>1. cursor < t
        BY <1>0, <2>3, <3>2 DEF TypeOK
      <4>2. t \in batch /\ t # s
        BY <1>0, <2>2, <2>3, <3>2, <4>1 DEF StreamInv, DrainInv, TypeOK
      <4> QED BY <2>1, <4>2
    <3> QED BY <1>0, <2>1, <2>2, <3>1, <3>2 DEF DrainInv
  <2> QED BY <1>1, <2>9, <2>10, <2>11, <2>12 DEF StreamInv
<1>6. CASE NextRound
  <2>1. CASE /\ phase = "send" /\ (full \/ ~observed) /\ phase' = (IF full THEN "status" ELSE "wait")
             /\ UNCHANGED <<wire, cursor, observed, batch, full>> /\ batch = {}
    BY <1>0, <1>1, <2>1 DEF StreamInv, WireFollows, CursorFollows, BatchFollows, DrainInv
  <2>2. CASE phase = "send" /\ batch = {} /\ ~full /\ observed /\ HangUp /\ wire' = Append(wire, RunClosed)
    <3>1. settled /\ \A s \in 1..closing_seq : ~(cursor < s)
      BY <2>2 DEF StreamInv, DrainInv
    <3>2. closing_seq <= cursor
      <4>1. closing_seq \in Nat
        BY DEF TypeOK
      <4>2. CASE cursor < closing_seq
        <5>1. closing_seq \in 1..closing_seq
          BY <1>0, <4>1, <4>2
        <5> QED BY <3>1, <4>2, <5>1
      <4> QED BY <1>0, <4>1, <4>2
    <3> QED BY <1>0, <2>2, <3>1, <3>2, StreamOfEnd
  <2> QED BY <1>6, <2>1, <2>2 DEF NextRound
<1>7. CASE WaitRaises
  BY <1>0, <1>7, StreamOfEnd DEF WaitRaises, clientVars
<1> QED BY <1>2, <1>3, <1>4, <1>5, <1>6, <1>7 DEF StreamStep

\* The frame the client takes is the next event, or run_closed after the last.
LEMMA FirstFrame ==
    ASSUME TypeOK, StreamInv, wire # <<>>
    PROVE  /\ Head(wire) \in Nat /\ Len(wire) \in Nat \ {0}
           /\ Len(Tail(wire)) = Len(wire) - 1
           /\ \A j \in 1..(Len(wire) - 1) : Tail(wire)[j] = wire[j + 1]
           /\ Head(wire) # RunClosed => Head(wire) = last_id + 1 /\ Head(wire) <= event_seq
           /\ Head(wire) = RunClosed =>
                 Len(wire) = 1 /\ phase = "off" /\ settled /\ closing_seq <= last_id
<1>1. wire \in Seq(Nat) /\ last_id \in Nat /\ closing_seq \in Nat
  BY DEF TypeOK, Frames
<1>2. Head(wire) = wire[1] /\ Head(wire) \in Nat /\ Len(wire) \in Nat \ {0} /\ 1 \in 1..Len(wire)
  BY <1>1
<1>3. Len(Tail(wire)) = Len(wire) - 1 /\ \A j \in 1..(Len(wire) - 1) : Tail(wire)[j] = wire[j + 1]
  BY <1>1, <1>2
<1>4. /\ wire[1] <= event_seq
      /\ \/ wire[1] = last_id + 1
         \/ wire[1] = RunClosed /\ 1 = Len(wire) /\ phase = "off" /\ settled /\ closing_seq < last_id + 1
  BY <1>2 DEF StreamInv, WireFollows
<1>5. last_id + 1 # RunClosed
  BY <1>1 DEF RunClosed
<1> QED BY <1>1, <1>2, <1>3, <1>4, <1>5

LEMMA StreamOfClient ==
    ASSUME TypeOK, StreamInv, Break \/ Receive
    PROVE  StreamInv'
<1>0. UNCHANGED timelineVars
  BY FollowsKeepsTimeline DEF Follows
<1>1. CASE Break
  BY <1>0, <1>1, StreamOfEnd DEF Break
<1>2. CASE ReceiveEvent
  <2>1. /\ wire # <<>> /\ Head(wire) # RunClosed /\ wire' = Tail(wire) /\ last_id' = Head(wire)
        /\ shown' = IF Seen(Head(wire)) THEN shown ELSE Append(shown, Head(wire))
        /\ UNCHANGED <<phase, cursor, observed, batch, full, closed, event_seq, settled, closing_seq>>
    BY <1>2 DEF ReceiveEvent, serverVars, timelineVars
  <2>2. /\ last_id' = last_id + 1 /\ last_id' <= event_seq
        /\ Len(wire') = Len(wire) - 1 /\ Len(wire) \in Nat \ {0}
        /\ \A j \in 1..Len(wire') : wire'[j] = wire[j + 1]
    BY <2>1, FirstFrame
  <2>3. shown \in Seq(Nat) /\ last_id \in Nat /\ Len(shown) = last_id
        /\ \A i \in 1..Len(shown) : shown[i] = i
    BY DEF TypeOK, StreamInv, ShownPrefix
  <2>4. shown' = Append(shown, last_id + 1)
    BY <2>1, <2>2, <2>3 DEF Seen
  <2>5. ShownPrefix'
    BY <2>1, <2>2, <2>3, <2>4 DEF ShownPrefix
  <2>6. WireFollows'
    <3> SUFFICES ASSUME NEW j \in 1..Len(wire')
                 PROVE  /\ wire'[j] <= event_seq'
                        /\ \/ wire'[j] = last_id' + j
                           \/ /\ wire'[j] = RunClosed /\ j = Len(wire')
                              /\ phase' = "off"
                              /\ settled' /\ closing_seq' < last_id' + j
      BY DEF WireFollows
    <3>1. j + 1 \in 1..Len(wire) /\ last_id' + j = last_id + (j + 1) /\ (j + 1 = Len(wire) => j = Len(wire'))
      BY <2>2, <2>3
    <3>2. /\ wire[j + 1] <= event_seq
          /\ \/ wire[j + 1] = last_id + (j + 1)
             \/ /\ wire[j + 1] = RunClosed /\ j + 1 = Len(wire)
                /\ phase = "off"
                /\ settled /\ closing_seq < last_id + (j + 1)
      BY <3>1 DEF StreamInv, WireFollows
    <3> QED BY <2>1, <2>2, <3>1, <3>2
  <2>7. CursorFollows'
    BY <2>1, <2>2, <2>3 DEF StreamInv, CursorFollows
  <2>8. BatchFollows' /\ DrainInv'
    BY <2>1 DEF StreamInv, BatchFollows, DrainInv
  <2>9. ClosedComplete'
    <3>1. closing_seq \in Nat /\ Len(shown') = last_id + 1
      BY <2>3, <2>4 DEF TypeOK
    <3> QED BY <2>1, <2>3, <3>1 DEF StreamInv, ClosedComplete
  <2> QED BY <2>5, <2>6, <2>7, <2>8, <2>9 DEF StreamInv
<1>3. CASE ReceiveClosed
  <2>1. /\ wire # <<>> /\ Head(wire) = RunClosed /\ wire' = Tail(wire)
        /\ UNCHANGED <<phase, cursor, observed, batch, full, event_seq, settled, closing_seq, last_id, shown>>
    BY <1>3 DEF ReceiveClosed, serverVars, timelineVars
  <2>2. Len(wire') = 0 /\ phase = "off" /\ settled /\ closing_seq <= last_id
    BY <2>1, FirstFrame
  <2>3. ShownPrefix' /\ WireFollows' /\ CursorFollows' /\ BatchFollows' /\ DrainInv'
    <3>1. WireFollows'
      <4>1. \A j \in 1..Len(wire') : FALSE
        BY <2>2
      <4> QED BY <4>1 DEF WireFollows
    <3>2. ShownPrefix'
      BY <2>1 DEF StreamInv, ShownPrefix
    <3>3. CursorFollows'
      BY <2>1, <2>2 DEF CursorFollows
    <3>4. BatchFollows' /\ DrainInv'
      BY <2>1 DEF StreamInv, BatchFollows, DrainInv
    <3> QED BY <3>1, <3>2, <3>3, <3>4
  <2>4. ClosedComplete'
    BY <2>1, <2>2 DEF StreamInv, ShownPrefix, ClosedComplete
  <2> QED BY <2>3, <2>4 DEF StreamInv
<1> QED BY <1>1, <1>2, <1>3 DEF Receive

LEMMA StreamPreserved ==
    TypeOK /\ TimelineInv /\ FenceInv /\ StreamInv /\ [Next]_vars => StreamInv'
<1> SUFFICES ASSUME TypeOK, TimelineInv, FenceInv, StreamInv, [Next]_vars PROVE StreamInv'
  OBVIOUS
<1>0. TypeOK' /\ event_seq \in Nat
  BY TypePreserved DEF TypeOK
<1>1. CASE UNCHANGED vars
  BY <1>1 DEF vars, timelineVars, serverVars, clientVars, StreamInv, ShownPrefix, WireFollows,
              CursorFollows, BatchFollows, DrainInv, ClosedComplete
<1>2. CASE Begins
  <2>1. PICK w \in Writers, count \in 0..2 : Begin(w, count, FALSE) \/ Begin(w, count, TRUE)
    BY <1>2 DEF Begins, Opening
  <2>2. UNCHANGED <<event_seq, settled, closing_seq, serverVars, clientVars>>
    BY <2>1 DEF Begin
  <2> QED BY <1>0, <2>2, StreamOfTimeline DEF serverVars
<1>3. ASSUME NEW w \in Writers, Commit(w) PROVE StreamInv'
  <2>1. event_seq <= event_seq'
    BY <1>3, CommittedSeqs
  <2>2. settled => settled' /\ closing_seq' = closing_seq
    BY <1>3 DEF Commit, FenceInv, OwnersInOrder
  <2> QED BY <1>0, <1>3, <2>1, <2>2, StreamOfTimeline DEF Commit
<1>4. ASSUME NEW w \in Writers, Rollback(w) PROVE StreamInv'
  BY <1>0, <1>4, StreamOfTimeline DEF Rollback, serverVars
<1>5. CASE TakeUp \/ Revoke
  BY <1>0, <1>5, StreamOfTimeline DEF TakeUp, Revoke, ChangeOwner
<1>6. CASE Follows
  BY <1>6, StreamOfStreamStep, StreamOfClient DEF Follows
<1> QED BY <1>1, <1>2, <1>3, <1>4, <1>5, <1>6, StepKinds

------------------------------------------------------------------------------
(* The wait. *)

LEMMA WaitOfStreamStep ==
    ASSUME TypeOK, TimelineInv, StreamInv, WaitInv, StreamStep
    PROVE  WaitInv'
<1>0. UNCHANGED <<event_seq, settled>> /\ cursor \in Nat /\ event_seq \in Nat /\ batch \in SUBSET Nat
  BY FollowsKeepsTimeline DEF Follows, timelineVars, TypeOK
<1>1. CASE Connect \/ Wake \/ Keepalive \/ WaitRaises
  <2>1. phase' \in {"off", "status"}
    BY <1>1 DEF Connect, Wake, Keepalive, WaitRaises, HangUp
  <2> QED BY <2>1 DEF WaitInv
<1>2. CASE ReadStatus
  BY <1>0, <1>2 DEF ReadStatus, WaitInv
<1>3. CASE Fetch
  <2>1. /\ UNCHANGED <<cursor, observed, pending>> /\ phase = "fetch" /\ phase' = "send"
        /\ batch' = FirstBatch /\ full' = (Cardinality(FirstBatch) = Batch)
    BY <1>3 DEF Fetch
  <2>2. cursor <= event_seq
    BY <2>1 DEF StreamInv, CursorFollows
  <2>3. ~full' => \A s \in 1..event_seq : cursor < s => s \in batch'
    BY <2>1, <2>2, BatchOfFetch DEF TimelineInv
  <2> QED BY <1>0, <2>1, <2>3 DEF WaitInv
<1>4. CASE Yield
  <2>1. PICK s \in batch : batch' = batch \ {s} /\ cursor' = s
    BY <1>4 DEF Yield
  <2>2. UNCHANGED <<phase, observed, full, pending>> /\ phase = "send"
    BY <1>4 DEF Yield
  <2>3. s \in Nat /\ cursor < s
    BY <1>0, <2>1 DEF StreamInv, BatchFollows
  <2>4. ASSUME pending = 0, ~full, NEW t \in 1..event_seq, s < t PROVE t \in batch'
    <3>1. cursor < t /\ t # s
      BY <1>0, <2>3, <2>4
    <3> QED BY <2>1, <2>2, <2>4, <3>1 DEF WaitInv
  <2> QED BY <1>0, <2>1, <2>2, <2>4 DEF WaitInv
<1>5. CASE NextRound
  <2>1. CASE /\ phase = "send" /\ (full \/ ~observed) /\ phase' = (IF full THEN "status" ELSE "wait")
             /\ UNCHANGED <<cursor, observed, batch, full, pending>>
    BY <1>0, <2>1 DEF WaitInv
  <2>2. CASE HangUp
    BY <2>2 DEF HangUp, WaitInv
  <2> QED BY <1>5, <2>1, <2>2 DEF NextRound
<1> QED BY <1>1, <1>2, <1>3, <1>4, <1>5 DEF StreamStep

LEMMA WaitPreserved ==
    TypeOK /\ TimelineInv /\ StreamInv /\ WaitInv /\ [Next]_vars => WaitInv'
<1> SUFFICES ASSUME TypeOK, TimelineInv, StreamInv, WaitInv, [Next]_vars PROVE WaitInv'
  OBVIOUS
<1>0. pending \in Nat
  BY DEF TypeOK
<1>1. ASSUME UNCHANGED <<event_seq, settled, serverVars>> PROVE WaitInv'
  BY <1>1 DEF WaitInv, serverVars
<1>2. ASSUME Notify, UNCHANGED <<phase, full, observed>> PROVE WaitInv'
  <2>1. phase # "off" => pending' # 0
    BY <1>0, <1>2 DEF Notify
  <2> QED BY <1>2, <2>1 DEF WaitInv
<1>3. CASE UNCHANGED vars
  BY <1>1, <1>3 DEF vars, timelineVars
<1>4. CASE Begins
  <2>1. PICK w \in Writers, count \in 0..2 : Begin(w, count, FALSE) \/ Begin(w, count, TRUE)
    BY <1>4 DEF Begins, Opening
  <2> QED BY <1>1, <2>1 DEF Begin
<1>5. ASSUME NEW w \in Writers, Commit(w) PROVE WaitInv'
  BY <1>2, <1>5 DEF Commit
<1>6. ASSUME NEW w \in Writers, Rollback(w) PROVE WaitInv'
  BY <1>1, <1>6 DEF Rollback
<1>7. CASE TakeUp \/ Revoke
  BY <1>2, <1>7 DEF TakeUp, Revoke, ChangeOwner
<1>8. CASE Break
  BY <1>8 DEF Break, HangUp, WaitInv
<1>9. CASE Receive
  <2>1. UNCHANGED <<event_seq, settled, serverVars>>
    BY <1>9 DEF Receive, ReceiveEvent, ReceiveClosed, timelineVars
  <2> QED BY <1>1, <2>1
<1> QED BY <1>3, <1>4, <1>5, <1>6, <1>7, <1>8, <1>9, StepKinds, WaitOfStreamStep DEF Follows

LEMMA WaitComplete ==
    ASSUME TypeOK, StreamInv, WaitInv
    PROVE  NothingMissedWhileWaiting
<1> SUFFICES ASSUME phase = "wait", pending = 0 PROVE cursor = event_seq /\ ~settled
  BY DEF NothingMissedWhileWaiting
<1>1. cursor \in Nat /\ event_seq \in Nat /\ cursor <= event_seq
  BY DEF TypeOK, StreamInv, CursorFollows
<1>2. \A s \in 1..event_seq : ~(cursor < s)
  BY DEF WaitInv, StreamInv, BatchFollows
<1>3. CASE cursor < event_seq
  <2>1. event_seq \in 1..event_seq
    BY <1>1, <1>3
  <2> QED BY <1>2, <1>3, <2>1
<1>4. ~settled
  BY DEF WaitInv
<1> QED BY <1>1, <1>3, <1>4

------------------------------------------------------------------------------
(* The theorems. *)

\* Inv is an invariant.
THEOREM StreamInductive == Spec => []Inv
<1>1. Init => Inv
  <2>1. Init => WaitInv
    BY DEF Init, WaitInv
  <2> QED BY <2>1, TypeInit, TimelineInit, FenceInit, StreamInit DEF Inv
<1>2. Inv /\ [Next]_vars => Inv'
  BY TypePreserved, TimelinePreserved, FencePreserved, StreamPreserved, WaitPreserved DEF Inv
<1> QED BY <1>1, <1>2, PTL DEF Spec

\* The committed events of a run are numbered without gaps or duplicates,
\* whichever writers race for its row and roll back.
THEOREM GapFreeHolds == Spec => []GapFree
<1>1. Inv => GapFree
  BY DEF Inv, TimelineInv
<1> QED BY <1>1, StreamInductive, PTL

\* An attempt writes nothing once its lease is revoked or the run is settled.
THEOREM RevokedAttemptsSilentHolds == Spec => []RevokedAttemptsSilent
<1>1. Inv => RevokedAttemptsSilent
  BY DEF Inv, FenceInv
<1> QED BY <1>1, StreamInductive, PTL

\* A client told that the run is closed has all the run's events.
THEOREM ClosedCompleteHolds == Spec => []ClosedComplete
<1>1. Inv => ClosedComplete
  BY DEF Inv, StreamInv
<1> QED BY <1>1, StreamInductive, PTL

\* A stream that waits without a notification to take has sent all there is.
THEOREM NothingMissedWhileWaitingHolds == Spec => []NothingMissedWhileWaiting
<1>1. Inv => NothingMissedWhileWaiting
  BY WaitComplete DEF Inv
<1> QED BY <1>1, StreamInductive, PTL

\* The client is given each event once and in order.
THEOREM EachOnceInOrderHolds == Spec => EachOnceInOrder
<1>1. Inv /\ [Next]_vars =>
        [last_id' # last_id => last_id' = last_id + 1 /\ shown' = Append(shown, last_id')]_vars
  <2> SUFFICES ASSUME Inv, Next, last_id' # last_id
               PROVE  last_id' = last_id + 1 /\ shown' = Append(shown, last_id')
    OBVIOUS
  <2>1. ReceiveEvent
    BY DEF Next, WriteStep, StreamStep, Emit, Finish, Commit, Rollback, SettleByDispatcher, SettleByApi,
           TakeUp, Revoke, ChangeOwner, Begin, Connect, ReadStatus, Fetch, Yield, NextRound, Wake,
           Keepalive, WaitRaises, Break, Receive, ReceiveClosed, clientVars
  <2>2. Head(wire) = last_id + 1 /\ last_id' = Head(wire)
    BY <2>1, FirstFrame DEF Inv, ReceiveEvent
  <2>3. ~Seen(last_id + 1)
    BY DEF Inv, TypeOK, StreamInv, ShownPrefix, Seen
  <2> QED BY <2>1, <2>2, <2>3 DEF ReceiveEvent
<1> QED BY <1>1, StreamInductive, PTL DEF Spec, EachOnceInOrder
==============================================================================
