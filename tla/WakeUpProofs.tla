----------------------------- MODULE WakeUpProofs -----------------------------
(* That no notification is lost, for any number of runs, replicas and lost        *)
(* connections.  A pass reads everything after it begins, so only two things can  *)
(* leave the loop asleep beside work: a change made since, and an offer whose run *)
(* somebody else took.  Both leave a trace the loop will find.                    *)
EXTENDS WakeUp, FiniteSetTheorems, TLAPS

(* Something will get the loop to look again, or is known to be unannounced.      *)
Signalled == wake \/ tick \/ silent \/ inflight > 0 \/ ~listener.told

Work == HasRoom /\ SlotFree /\ \E r \in Runs : Claimable(r)

WakeTypeOK ==
    /\ DOMAIN status = Runs
    /\ loop \in [phase : {"asleep", "count", "survey", "claim", "offer"}, run : SUBSET Runs]
    /\ wake \in BOOLEAN /\ tick \in BOOLEAN /\ silent \in BOOLEAN
    /\ listener \in [connected : BOOLEAN, on : SUBSET Channels, told : BOOLEAN]
    /\ inflight \in Nat

(* A listener that has reconciled hears both channels, so what is announced is    *)
(* under way to it; an offered run that is no longer dispatched was announced;    *)
(* and a loop that sleeps beside work has been told.                              *)
WakeInv ==
    /\ WakeTypeOK
    /\ listener.told => listener.on = Channels
    /\ loop.phase = "offer" /\ (\E r \in loop.run : status[r] # "dispatched") => Signalled
    /\ loop.phase = "asleep" /\ Work => Signalled

(* An announcement is under way unless the listener has yet to reconcile.         *)
LEMMA Announced ==
    ASSUME WakeInv, NEW channels \in (SUBSET Channels) \ {{}}, Announce(channels)
    PROVE  inflight' \in Nat /\ inflight' >= inflight /\ (inflight' > 0 \/ ~listener.told)
<1> DEFINE heard == channels \cap listener.on
<1>1. IsFiniteSet(Channels)
  <2>1. IsFiniteSet({"run_queued"})
    BY FS_Singleton
  <2>2. Channels = {"run_queued"} \cup {"run_events"}
    BY DEF Channels
  <2> QED BY <2>1, <2>2, FS_AddElement
<1>2. IsFiniteSet(heard) /\ Cardinality(heard) \in Nat
  <2>1. heard \subseteq Channels
    OBVIOUS
  <2> QED BY <1>1, <2>1, FS_Subset, FS_CardinalityType
<1>3. listener.told => heard # {}
  BY DEF WakeInv
<1>4. heard # {} => Cardinality(heard) # 0
  BY <1>2, FS_EmptySet
<1>5. inflight \in Nat /\ inflight' = inflight + Cardinality(heard)
  BY DEF WakeInv, WakeTypeOK, Announce
<1> QED BY <1>2, <1>3, <1>4, <1>5

LEMMA WakeInit == Init => WakeInv
<1> SUFFICES ASSUME Init
             PROVE  WakeInv
  OBVIOUS
<1>1. DOMAIN status = Runs
  BY DEF Init
<1>2. /\ loop \in [phase : {"asleep", "count", "survey", "claim", "offer"}, run : SUBSET Runs]
      /\ loop.phase = "count"
  BY DEF Init, Pass
<1>3. /\ listener \in [connected : BOOLEAN, on : SUBSET Channels, told : BOOLEAN]
      /\ ~listener.told
  BY DEF Init, Lost
<1>4. wake \in BOOLEAN /\ tick \in BOOLEAN /\ silent \in BOOLEAN /\ inflight \in Nat
  BY DEF Init
<1> QED BY <1>1, <1>2, <1>3, <1>4 DEF WakeInv, WakeTypeOK

(* A pass ends because it found nothing to do, or counts as silent.               *)
LEMMA PassSteps ==
    ASSUME WakeInv, CountActive \/ Survey \/ ClaimNothing \/ PassFails \/ Rouse \/ Poll
    PROVE  WakeInv'
<1> USE DEF WakeInv, WakeTypeOK, Signalled, Work, runVars
<1>1. CASE CountActive
  BY <1>1 DEF CountActive, HasRoom, Sleep, Asleep
<1>2. CASE Survey
  BY <1>2 DEF Survey, SlotFree, Sleep, Asleep
<1>3. CASE ClaimNothing
  BY <1>3 DEF ClaimNothing, Claimable, Sleep, Asleep
<1>4. CASE PassFails
  BY <1>4 DEF PassFails, Sleep, Asleep
<1>5. CASE Rouse
  BY <1>5 DEF Rouse, Pass
<1>6. CASE Poll
  BY <1>6 DEF Poll, loopVars, HasRoom, SlotFree, Claimable
<1> QED BY <1>1, <1>2, <1>3, <1>4, <1>5, <1>6

(* What the loop does with a run in hand: it is announced, or known not to be.    *)
LEMMA RunInHand ==
    ASSUME WakeInv, NEW r \in Runs, Claim(r) \/ Start(r) \/ Refused(r) \/ ForgetClaim(r)
    PROVE  WakeInv'
<1> USE DEF WakeInv, WakeTypeOK, Signalled, Work
<1>0. ASSUME Announce({"run_events"})
      PROVE  inflight' \in Nat /\ inflight' >= inflight /\ (inflight' > 0 \/ ~listener.told)
  <2>1. {"run_events"} \in (SUBSET Channels) \ {{}}
    BY DEF Channels
  <2> QED BY <1>0, <2>1, Announced
<1>1. CASE Claim(r)
  BY <1>0, <1>1 DEF Claim
<1>2. CASE Start(r)
  BY <1>0, <1>2 DEF Start, Pass, Sleep, Asleep
<1>3. CASE Refused(r)
  <2>1. CASE status[r] = "dispatched"
    BY <1>0, <1>3, <2>1 DEF Refused, Sleep, Asleep
  <2>2. CASE status[r] # "dispatched"
    BY <1>3, <2>2 DEF Refused, Sleep, Asleep
  <2> QED BY <2>1, <2>2
<1>4. CASE ForgetClaim(r)
  BY <1>4 DEF ForgetClaim, Sleep, Asleep
<1> QED BY <1>1, <1>2, <1>3, <1>4

(* What makes work possible is announced, or is counted as silent.                *)
LEMMA OthersStep ==
    ASSUME WakeInv, RunStep
    PROVE  WakeInv'
<1> USE DEF WakeInv, WakeTypeOK, Signalled, loopVars
<1>0. ASSUME NEW channels \in (SUBSET Channels) \ {{}}, Announce(channels)
      PROVE  inflight' \in Nat /\ inflight' >= inflight /\ (inflight' > 0 \/ ~listener.told)
  BY <1>0, Announced
<1>1. /\ {"run_queued"} \in (SUBSET Channels) \ {{}}
      /\ {"run_events"} \in (SUBSET Channels) \ {{}}
      /\ Channels \in (SUBSET Channels) \ {{}}
  BY DEF Channels
<1>2. ASSUME NEW r \in Runs, Create(r)
      PROVE  WakeInv'
  BY <1>0, <1>1, <1>2 DEF Create
<1>3. ASSUME NEW r \in Runs, Settle(r)
      PROVE  WakeInv'
  BY <1>0, <1>1, <1>3 DEF Settle
<1>4. ASSUME NEW r \in Runs, Requeue(r)
      PROVE  WakeInv'
  BY <1>0, <1>1, <1>4 DEF Requeue, Woken
<1>5. ASSUME NEW r \in Runs, BackoffExpires(r)
      PROVE  WakeInv'
  BY <1>5 DEF BackoffExpires
<1>6. ASSUME NEW h \in held, Release(h)
      PROVE  WakeInv'
  BY <1>6 DEF Release
<1> QED BY <1>2, <1>3, <1>4, <1>5, <1>6 DEF RunStep

(* A notification goes from the connection to the channel; a lost connection      *)
(* leaves a listener that has yet to reconcile.                                   *)
LEMMA ListenerStep ==
    ASSUME WakeInv, ListenStep
    PROVE  WakeInv'
<1> USE DEF WakeInv, WakeTypeOK, Signalled, runVars, loopVars, Work, HasRoom, SlotFree, Claimable
<1>1. CASE Connect
  BY <1>1 DEF Connect
<1>2. CASE Reconcile
  BY <1>2 DEF Reconcile, Woken
<1>3. CASE Deliver
  BY <1>3 DEF Deliver, Woken
<1>4. CASE Drop
  BY <1>4 DEF Drop, Lost
<1>5. ASSUME NEW channel \in Channels, Listen(channel)
      PROVE  WakeInv'
  BY <1>5 DEF Listen
<1> QED BY <1>1, <1>2, <1>3, <1>4, <1>5 DEF ListenStep

LEMMA WakeStep == WakeInv /\ [Next]_vars => WakeInv'
<1> SUFFICES ASSUME WakeInv, [Next]_vars
             PROVE  WakeInv'
  OBVIOUS
<1>1. CASE LoopStep
  BY <1>1, PassSteps, RunInHand DEF LoopStep
<1>2. CASE Poll
  BY <1>2, PassSteps
<1>3. CASE RunStep
  BY <1>3, OthersStep
<1>4. CASE ListenStep
  BY <1>4, ListenerStep
<1>5. CASE UNCHANGED vars
  BY <1>5 DEF vars, WakeInv, WakeTypeOK, Signalled, Work, HasRoom, SlotFree, Claimable
<1> QED BY <1>1, <1>2, <1>3, <1>4, <1>5 DEF Next

(* No notification is lost on a busy loop or in a reconnect: a loop that sleeps    *)
(* beside work that was announced has a poke under way (dispatcher.go:79-110,     *)
(* listen.go:51).                                                                 *)
THEOREM NoLostWakeupHolds == Spec => []NoLostWakeup
<1>1. WakeInv => NoLostWakeup
  BY DEF WakeInv, WakeTypeOK, Signalled, Work, NoLostWakeup
<1> QED BY WakeInit, WakeStep, <1>1, PTL DEF Spec
===============================================================================
