--------------------------- MODULE LlmGatewayProofs ---------------------------
(* What the gateway promises for any number of calls, any chain of providers and  *)
(* any number of retries and repairs.                                             *)
EXTENDS LlmGateway, WellFoundedInduction, TLAPS

Phases   == {"idle", "sending", "waiting", "pausing", "giving_up", "done"}
Outcomes == {None, "answered", "failed", "keys_rejected", "unexpected"}
CallType == [pc : Phases, live : SUBSET (DOMAIN Chain), i : Nat, attempts : Nat,
             repairs : Nat, auth : BOOLEAN, outcome : Outcomes]
Counts   == [Calls -> [Providers -> Nat]]

GatewayTypeOK ==
    /\ calls \in [Calls -> CallType]
    /\ asked \in Counts /\ malformed \in Counts

Busy(call) == call.pc \in {"sending", "waiting", "pausing", "giving_up"}

KeysKnown == Selected \in Range(Chain) \cup {None}

(* A busy call counts its requests to the provider it is asking, and the repairs  *)
(* it has left are those it was granted less the malformed answers.  One request  *)
(* more than the retries allow is under way, or was the last.                     *)
Counted(call, a, m) ==
    /\ call.attempts = a
    /\ call.repairs + m = RepairRetries
    /\ a <= Retries + m + (IF call.pc \in {"waiting", "giving_up"} THEN 1 ELSE 0)

CallCounted(c) ==
    Busy(calls[c]) =>
        /\ KeysKnown /\ calls[c].i \in DOMAIN Chain
        /\ Counted(calls[c], asked[c][Asking(c)], malformed[c][Asking(c)])

(* The providers further down the chain have not been asked.                      *)
LaterUnasked(c) ==
    KeysKnown => \A j \in DOMAIN Chain :
        calls[c].pc = "idle" \/ (Busy(calls[c]) /\ j > calls[c].i) =>
            asked[c][Ordered[j]] = 0 /\ malformed[c][Ordered[j]] = 0

CallBounded(c) ==
    \A p \in Providers :
        /\ malformed[c][p] <= RepairRetries + 1
        /\ asked[c][p] <= Retries + 1 + (IF malformed[c][p] < RepairRetries
                                         THEN malformed[c][p] ELSE RepairRetries)

GatewayInv ==
    /\ GatewayTypeOK
    /\ \A c \in Calls : CallCounted(c) /\ LaterUnasked(c) /\ CallBounded(c)

-------------------------------------------------------------------------------
(* The selected provider is put first and the others keep their order: every      *)
(* provider has one place.                                                        *)
LEMMA OrderedType ==
    /\ DOMAIN Ordered = DOMAIN Chain
    /\ KeysKnown => \A j \in DOMAIN Chain : Ordered[j] \in Providers
    /\ KeysKnown => \A j, k \in DOMAIN Chain : Ordered[j] = Ordered[k] => j = k
<1> USE GatewayAssumption
<1>0. /\ DOMAIN Chain = 1..Len(Chain) /\ Len(Chain) \in Nat
      /\ \A j \in DOMAIN Chain : Chain[j] \in Providers
      /\ \A j, k \in DOMAIN Chain : Chain[j] = Chain[k] => j = k
  BY DEF IsInjective
<1>1. CASE Selected = None
  BY <1>0, <1>1 DEF Ordered
<1>2. CASE Selected # None
  <2> DEFINE home == CHOOSE k \in DOMAIN Chain : Chain[k] = Selected
             at(j) == IF j = 1 THEN Selected ELSE IF j <= home THEN Chain[j - 1] ELSE Chain[j]
             from(j) == IF j = 1 THEN home ELSE IF j <= home THEN j - 1 ELSE j
  <2>1. Ordered = [j \in DOMAIN Chain |-> at(j)]
    BY <1>2 DEF Ordered
  <2>2. ASSUME KeysKnown
        PROVE  home \in DOMAIN Chain /\ Chain[home] = Selected
    BY <1>2, <2>2 DEF KeysKnown, Range
  <2> HIDE DEF home
  <2>3. ASSUME KeysKnown, NEW j \in DOMAIN Chain
        PROVE  at(j) = Chain[from(j)] /\ from(j) \in DOMAIN Chain
    BY <1>0, <2>2, <2>3
  <2>4. ASSUME KeysKnown, NEW j \in DOMAIN Chain, NEW k \in DOMAIN Chain, from(j) = from(k)
        PROVE  j = k
    <3>1. home \in 1..Len(Chain) /\ j \in 1..Len(Chain) /\ k \in 1..Len(Chain)
      BY <1>0, <2>2, <2>4
    <3> QED BY <1>0, <2>4, <3>1
  <2> HIDE DEF at, from
  <2>5. DOMAIN Ordered = DOMAIN Chain
    BY <2>1
  <2>6. ASSUME KeysKnown, NEW j \in DOMAIN Chain
        PROVE  Ordered[j] = Chain[from(j)] /\ from(j) \in DOMAIN Chain
    BY <2>1, <2>3, <2>6
  <2> QED BY <1>0, <2>4, <2>5, <2>6
<1> QED BY <1>1, <1>2

(* A set of numbers that is not empty has a least element.                        *)
LEMMA LeastNumber ==
    ASSUME NEW T \in SUBSET Nat, T # {}
    PROVE  \E j \in T : \A k \in T : j <= k
<1>1. \E j \in T : \A k \in T : ~(<<k, j>> \in OpToRel(<, Nat))
  BY NatLessThanWellFounded, WFMin
<1>2. ASSUME NEW j \in Nat, NEW k \in Nat, k < j
      PROVE  <<k, j>> \in OpToRel(<, Nat)
  <2>1. <<k, j>> \in Nat \X Nat /\ <<k, j>>[1] < <<k, j>>[2]
    BY <1>2
  <2> QED BY <2>1, Zenon DEF OpToRel
<1>3. PICK j \in T : \A k \in T : ~(<<k, j>> \in OpToRel(<, Nat))
  BY <1>1
<1>4. ASSUME NEW k \in T
      PROVE  j <= k
  <2>1. j \in Nat /\ k \in Nat /\ ~(k < j)
    BY <1>2, <1>3
  <2> QED BY <2>1
<1> QED BY <1>4

(* A call that turns to a provider begins to count anew at a place not before i;  *)
(* otherwise it ends.                                                             *)
LEMMA TurnType ==
    ASSUME NEW call \in CallType, NEW i \in Nat, NEW bad
    PROVE  LET next == Turn(call, i, bad) IN
           /\ next \in CallType
           /\ \/ /\ next.pc = "sending" /\ next.attempts = 0 /\ next.repairs = RepairRetries
                 /\ next.i \in DOMAIN Chain /\ next.i >= i
              \/ /\ next.pc = "done"
                 /\ next.outcome = IF AllRejected(bad) THEN "keys_rejected" ELSE "failed"
<1> DEFINE rest == {j \in call.live : j >= i /\ HasModel(Ordered[j])}
<1>0. DOMAIN Chain \subseteq Nat
  BY GatewayAssumption
<1>1. CASE rest # {}
  <2> DEFINE least == CHOOSE j \in rest : \A k \in rest : j <= k
  <2>1. rest \in SUBSET Nat /\ rest \subseteq DOMAIN Chain /\ \A j \in rest : j >= i
    BY <1>0 DEF CallType
  <2>2. least \in rest
    BY <1>1, <2>1, LeastNumber
  <2>3. Turn(call, i, bad) = [call EXCEPT !.pc = "sending", !.attempts = 0, !.auth = FALSE,
                                          !.repairs = RepairRetries, !.i = least]
    BY <1>1 DEF Turn
  <2>4. least \in DOMAIN Chain /\ least >= i /\ least \in Nat
    BY <2>1, <2>2
  <2> HIDE DEF least, rest
  <2>5. RepairRetries \in Nat
    BY GatewayAssumption DEF LlmSettings
  <2>6. Turn(call, i, bad) =
           [pc |-> "sending", live |-> call.live, i |-> least, attempts |-> 0,
            repairs |-> RepairRetries, auth |-> FALSE, outcome |-> call.outcome]
    BY <2>3 DEF CallType
  <2> QED BY <2>4, <2>5, <2>6 DEF CallType, Phases
<1>2. CASE rest = {}
  BY <1>2 DEF Turn, Finish, CallType, Phases, Outcomes
<1> QED BY <1>1, <1>2

-------------------------------------------------------------------------------
LEMMA GatewayInit == Init => GatewayInv
<1> SUFFICES ASSUME Init
             PROVE  GatewayInv
  OBVIOUS
<1>1. NewCall \in CallType /\ NewCall.pc = "idle"
  BY DEF NewCall, CallType, Phases, Outcomes
<1>2. GatewayTypeOK /\ \A c \in Calls : calls[c] = NewCall
  BY <1>1 DEF Init, GatewayTypeOK, Counts
<1>3. \A c \in Calls, p \in Providers : asked[c][p] = 0 /\ malformed[c][p] = 0
  BY DEF Init
<1>4. ASSUME NEW c \in Calls
      PROVE  CallCounted(c) /\ LaterUnasked(c) /\ CallBounded(c)
  <2>1. CallCounted(c)
    BY <1>1, <1>2 DEF CallCounted, Busy
  <2>2. LaterUnasked(c)
    BY <1>3, OrderedType DEF LaterUnasked
  <2>3. CallBounded(c)
    BY <1>3, GatewayAssumption DEF LlmSettings, CallBounded
  <2> QED BY <2>1, <2>2, <2>3
<1> QED BY <1>2, <1>4 DEF GatewayInv

(* A step of one call leaves the counts of the others alone.                      *)
OthersAlone(c) ==
    \A d \in Calls \ {c} :
        calls'[d] = calls[d] /\ asked'[d] = asked[d] /\ malformed'[d] = malformed[d]

LEMMA OneCall ==
    ASSUME GatewayInv, NEW c \in Calls, OthersAlone(c), GatewayTypeOK',
           CallCounted(c)', LaterUnasked(c)', CallBounded(c)'
    PROVE  GatewayInv'
<1>1. ASSUME NEW d \in Calls \ {c}
      PROVE  CallCounted(d)' /\ LaterUnasked(d)' /\ CallBounded(d)'
  BY <1>1 DEF GatewayInv, OthersAlone, CallCounted, Counted, Busy, Asking, LaterUnasked, CallBounded
<1> QED BY <1>1 DEF GatewayInv

(* A call that neither asks nor reads an answer, and ends or stays at its         *)
(* provider within the count, keeps its promise.                                  *)
LEMMA NotAsking ==
    ASSUME GatewayInv, NEW c \in Calls, NEW next \in CallType,
           calls' = [calls EXCEPT ![c] = next], UNCHANGED <<asked, malformed>>,
           Busy(next) => /\ KeysKnown /\ next.i \in DOMAIN Chain
                         /\ Counted(next, asked[c][Ordered[next.i]], malformed[c][Ordered[next.i]]),
           next.pc # "idle",
           Busy(next) => calls[c].pc = "idle" \/ (Busy(calls[c]) /\ next.i >= calls[c].i)
    PROVE  GatewayInv'
<1>1. calls \in [Calls -> CallType] /\ calls'[c] = next /\ OthersAlone(c)
  BY DEF GatewayInv, GatewayTypeOK, OthersAlone
<1>2. GatewayTypeOK'
  BY <1>1 DEF GatewayInv, GatewayTypeOK
<1>3. CallCounted(c)'
  BY <1>1 DEF CallCounted, Asking
<1>4. CallBounded(c)'
  BY DEF GatewayInv, CallBounded
<1>5. LaterUnasked(c)'
  <2> SUFFICES ASSUME KeysKnown, NEW j \in DOMAIN Chain, Busy(next), j > next.i
               PROVE  asked[c][Ordered[j]] = 0 /\ malformed[c][Ordered[j]] = 0
    BY <1>1 DEF LaterUnasked
  <2>1. calls[c].pc = "idle" \/ (Busy(calls[c]) /\ j > calls[c].i)
    <3>1. j \in Nat /\ next.i \in Nat /\ calls[c].i \in Nat
      BY <1>1, GatewayAssumption DEF CallType
    <3> QED BY <3>1
  <2> QED BY <2>1 DEF GatewayInv, LaterUnasked
<1> QED BY <1>1, <1>2, <1>3, <1>4, <1>5, OneCall

-------------------------------------------------------------------------------
LEMMA GenerateStep ==
    ASSUME GatewayInv, NEW c \in Calls, Generate(c)
    PROVE  GatewayInv'
<1> DEFINE live == {j \in Places : Ordered[j] \notin rejected}
           call == [calls[c] EXCEPT !.live = live]
           next == IF Chain = <<>> THEN Finish(calls[c], "failed")
                   ELSE IF ~KeysKnown THEN Finish(calls[c], "keys_rejected")
                   ELSE Turn(call, 1, rejected)
<1>1. /\ calls' = [calls EXCEPT ![c] = next] /\ UNCHANGED <<asked, malformed>>
      /\ calls[c].pc = "idle" /\ calls[c] \in CallType
  BY DEF Generate, KeysKnown, GatewayInv, GatewayTypeOK
<1>2. call \in CallType
  BY <1>1 DEF CallType, Places
<1>3. next \in CallType /\ next.pc # "idle"
  BY <1>1, <1>2, TurnType DEF Finish, CallType, Phases, Outcomes
<1>4. ASSUME Busy(next)
      PROVE  /\ KeysKnown /\ next.i \in DOMAIN Chain
             /\ Counted(next, asked[c][Ordered[next.i]], malformed[c][Ordered[next.i]])
  <2>1. next = Turn(call, 1, rejected) /\ KeysKnown
    BY <1>1, <1>4 DEF Busy, Finish, CallType
  <2>2. /\ next.pc = "sending" /\ next.attempts = 0 /\ next.repairs = RepairRetries
        /\ next.i \in DOMAIN Chain
    <3>1. Turn(call, 1, rejected).pc # "done"
      BY <1>4, <2>1 DEF Busy
    <3> HIDE DEF call, next
    <3> QED BY <1>2, <2>1, <3>1, TurnType
  <2>3. asked[c][Ordered[next.i]] = 0 /\ malformed[c][Ordered[next.i]] = 0
    BY <1>1, <2>1, <2>2 DEF GatewayInv, LaterUnasked
  <2> QED BY <2>1, <2>2, <2>3, GatewayAssumption DEF LlmSettings, Counted
<1> HIDE DEF next
<1> QED BY <1>1, <1>3, <1>4, NotAsking

LEMMA GiveUpStep ==
    ASSUME GatewayInv, NEW c \in Calls, GiveUp(c)
    PROVE  GatewayInv'
<1> DEFINE next == Turn(calls[c], calls[c].i + 1, rejected')
<1>1. /\ calls' = [calls EXCEPT ![c] = next] /\ UNCHANGED <<asked, malformed>>
      /\ calls[c].pc = "giving_up" /\ calls[c] \in CallType
  BY DEF GiveUp, GatewayInv, GatewayTypeOK
<1>2. /\ KeysKnown /\ calls[c].i \in Nat
      /\ \A j \in DOMAIN Chain : j > calls[c].i =>
             asked[c][Ordered[j]] = 0 /\ malformed[c][Ordered[j]] = 0
  BY <1>1 DEF GatewayInv, CallCounted, LaterUnasked, Busy, CallType
<1>3. /\ next \in CallType
      /\ \/ /\ next.pc = "sending" /\ next.attempts = 0 /\ next.repairs = RepairRetries
            /\ next.i \in DOMAIN Chain /\ next.i >= calls[c].i + 1
         \/ next.pc = "done"
  BY <1>1, <1>2, TurnType
<1> HIDE DEF next
<1>4. ASSUME Busy(next)
      PROVE  /\ next.i \in DOMAIN Chain /\ next.i >= calls[c].i
             /\ Counted(next, asked[c][Ordered[next.i]], malformed[c][Ordered[next.i]])
  <2>1. /\ next.pc = "sending" /\ next.attempts = 0 /\ next.repairs = RepairRetries
        /\ next.i \in DOMAIN Chain /\ next.i >= calls[c].i + 1 /\ next.i \in Nat
    BY <1>3, <1>4 DEF Busy, CallType
  <2>2. next.i > calls[c].i /\ next.i >= calls[c].i
    BY <1>2, <2>1
  <2> QED BY <1>2, <2>1, <2>2, GatewayAssumption DEF LlmSettings, Counted
<1> QED BY <1>1, <1>2, <1>3, <1>4, NotAsking DEF Busy

(* Failing, resuming and undecodable replies move a call on without a request.    *)
LEMMA QuietStep ==
    ASSUME GatewayInv, NEW c \in Calls, Fails(c) \/ NotJson(c) \/ Resume(c)
    PROVE  GatewayInv'
<1>1. /\ calls \in [Calls -> CallType] /\ calls[c] \in CallType /\ CallCounted(c)
      /\ UNCHANGED <<asked, malformed>>
  BY DEF GatewayInv, GatewayTypeOK, Fails, NotJson, Resume
<1>2. Retries \in Nat /\ asked[c] \in [Providers -> Nat] /\ malformed[c] \in [Providers -> Nat]
  BY GatewayAssumption DEF LlmSettings, GatewayInv, GatewayTypeOK, Counts
<1>3. CASE Fails(c)
  <2>1. PICK reply \in ErrorReplies :
           calls' = [calls EXCEPT ![c].pc = IF MayRetry(calls[c], reply) THEN "pausing" ELSE "giving_up",
                                  ![c].auth = reply \in AuthReplies]
    BY <1>3 DEF Fails
  <2> DEFINE pc == IF MayRetry(calls[c], reply) THEN "pausing" ELSE "giving_up"
             auth == reply \in AuthReplies
             next == [calls[c] EXCEPT !.pc = pc, !.auth = auth]
  <2>0. pc \in {"pausing", "giving_up"} /\ auth \in BOOLEAN
    OBVIOUS
  <2>2. /\ calls' = [calls EXCEPT ![c] = next] /\ next \in CallType
        /\ next.pc = (IF MayRetry(calls[c], reply) THEN "pausing" ELSE "giving_up")
        /\ next.i = calls[c].i /\ next.attempts = calls[c].attempts /\ next.repairs = calls[c].repairs
    <3>1. calls' = [calls EXCEPT ![c] = next]
      BY <1>1, <2>1
    <3> HIDE DEF pc, auth
    <3>2. /\ next \in CallType /\ next.pc = pc /\ next.i = calls[c].i
          /\ next.attempts = calls[c].attempts /\ next.repairs = calls[c].repairs
      BY <1>1, <2>0 DEF CallType, Phases
    <3> QED BY <3>1, <3>2 DEF pc
  <2> HIDE DEF next, pc, auth
  <2>3. /\ calls[c].pc = "waiting" /\ KeysKnown /\ calls[c].i \in DOMAIN Chain
        /\ Counted(calls[c], asked[c][Ordered[next.i]], malformed[c][Ordered[next.i]])
    BY <1>1, <1>3, <2>2 DEF Fails, CallCounted, Busy, Asking
  <2>4. /\ calls[c].attempts \in Nat /\ calls[c].repairs \in Nat
        /\ malformed[c][Ordered[next.i]] \in Nat
    BY <1>1, <1>2, <2>2, <2>3, OrderedType DEF CallType
  <2>5. Counted(next, asked[c][Ordered[next.i]], malformed[c][Ordered[next.i]])
    BY <1>2, <2>2, <2>3, <2>4 DEF Counted, MayRetry
  <2>6. calls[c].i \in Nat
    BY <1>1 DEF CallType
  <2>7. next.pc # "idle" /\ Busy(calls[c]) /\ next.i >= calls[c].i
    BY <2>2, <2>3, <2>6 DEF Busy
  <2> QED BY <1>1, <2>2, <2>3, <2>5, <2>7, NotAsking
<1>4. CASE NotJson(c)
  <2> DEFINE next == Finish(calls[c], "unexpected")
  <2>1. /\ calls' = [calls EXCEPT ![c] = next] /\ next \in CallType /\ next.pc = "done"
    BY <1>1, <1>4 DEF NotJson, Finish, CallType, Phases, Outcomes
  <2>2. ~Busy(next) /\ next.pc # "idle"
    BY <2>1 DEF Busy
  <2> HIDE DEF next
  <2> QED BY <1>1, <2>1, <2>2, NotAsking
<1>5. CASE Resume(c)
  <2> DEFINE next == [calls[c] EXCEPT !.pc = "sending"]
  <2>1. /\ calls' = [calls EXCEPT ![c] = next] /\ next \in CallType /\ next.pc = "sending"
        /\ next.i = calls[c].i /\ next.attempts = calls[c].attempts /\ next.repairs = calls[c].repairs
        /\ calls[c].pc = "pausing" /\ calls[c].i \in Nat
    BY <1>1, <1>5 DEF Resume, CallType, Phases
  <2> HIDE DEF next
  <2>2. /\ KeysKnown /\ next.i \in DOMAIN Chain
        /\ Counted(next, asked[c][Ordered[next.i]], malformed[c][Ordered[next.i]])
    BY <1>1, <2>1 DEF CallCounted, Counted, Busy, Asking
  <2>3. next.pc # "idle" /\ Busy(calls[c]) /\ next.i >= calls[c].i
    BY <2>1 DEF Busy
  <2> QED BY <1>1, <2>1, <2>2, <2>3, NotAsking
<1> QED BY <1>3, <1>4, <1>5

(* A request is counted where the call counts it.                                 *)
LEMMA SendStep ==
    ASSUME GatewayInv, NEW c \in Calls, Send(c)
    PROVE  GatewayInv'
<1> DEFINE p == Asking(c)
           next == [calls[c] EXCEPT !.pc = "waiting", !.attempts = @ + 1]
<1>1. /\ calls \in [Calls -> CallType] /\ asked \in Counts /\ malformed \in Counts
      /\ calls[c] \in CallType /\ calls[c].pc = "sending"
      /\ CallCounted(c) /\ LaterUnasked(c) /\ CallBounded(c)
  BY DEF Send, GatewayInv, GatewayTypeOK
<1>2. /\ KeysKnown /\ calls[c].i \in DOMAIN Chain /\ p = Ordered[calls[c].i] /\ p \in Providers
      /\ Counted(calls[c], asked[c][p], malformed[c][p])
  BY <1>1, OrderedType DEF CallCounted, Busy, Asking
<1>3. /\ asked[c] \in [Providers -> Nat] /\ malformed[c] \in [Providers -> Nat]
      /\ asked[c][p] \in Nat /\ malformed[c][p] \in Nat /\ Retries \in Nat /\ RepairRetries \in Nat
      /\ calls[c].attempts \in Nat /\ calls[c].repairs \in Nat
  BY <1>1, <1>2, GatewayAssumption DEF LlmSettings, Counts, CallType
<1>4. /\ calls' = [calls EXCEPT ![c] = next] /\ malformed' = malformed
      /\ asked' = [asked EXCEPT ![c] = [asked[c] EXCEPT ![p] = asked[c][p] + 1]]
  BY <1>1, <1>3 DEF Send, Counts
<1>5. /\ next \in CallType /\ next.pc = "waiting" /\ next.i = calls[c].i
      /\ next.attempts = calls[c].attempts + 1 /\ next.repairs = calls[c].repairs
  <2>1. calls[c].attempts + 1 \in Nat
    BY <1>3
  <2> QED BY <1>1, <2>1 DEF CallType, Phases
<1> HIDE DEF next, p
<1>6. /\ calls'[c] = next /\ asked'[c][p] = asked[c][p] + 1
      /\ \A q \in Providers : q # p => asked'[c][q] = asked[c][q]
      /\ asked' \in Counts
  BY <1>1, <1>2, <1>3, <1>4 DEF Counts
<1>7. GatewayTypeOK' /\ OthersAlone(c)
  BY <1>1, <1>4, <1>5, <1>6 DEF GatewayTypeOK, OthersAlone, Counts
<1>8. CallCounted(c)'
  <2>1. asked[c][p] <= Retries + malformed[c][p] /\ asked[c][p] = calls[c].attempts
        /\ calls[c].repairs + malformed[c][p] = RepairRetries
    BY <1>1, <1>2, <1>3 DEF Counted
  <2>2. Counted(next, asked[c][p] + 1, malformed[c][p])
    BY <1>3, <1>5, <2>1 DEF Counted
  <2>3. Asking(c)' = p
    BY <1>2, <1>5, <1>6 DEF Asking
  <2> QED BY <1>2, <1>4, <1>5, <1>6, <2>2, <2>3 DEF CallCounted
<1>9. LaterUnasked(c)'
  <2> SUFFICES ASSUME NEW j \in DOMAIN Chain, j > calls[c].i
               PROVE  asked'[c][Ordered[j]] = 0 /\ malformed[c][Ordered[j]] = 0
    BY <1>4, <1>5, <1>6 DEF LaterUnasked
  <2>1. asked[c][Ordered[j]] = 0 /\ malformed[c][Ordered[j]] = 0
    BY <1>1, <1>2 DEF LaterUnasked, Busy
  <2>2. j # calls[c].i
    BY <1>1 DEF CallType
  <2>3. Ordered[j] # p /\ Ordered[j] \in Providers
    BY <1>2, <2>2, OrderedType
  <2> QED BY <1>6, <2>1, <2>3
<1>10. CallBounded(c)'
  <2> SUFFICES ASSUME NEW q \in Providers
               PROVE  /\ malformed[c][q] <= RepairRetries + 1
                      /\ asked'[c][q] <= Retries + 1 + (IF malformed[c][q] < RepairRetries
                                                        THEN malformed[c][q] ELSE RepairRetries)
    BY <1>4 DEF CallBounded
  <2>1. CASE q # p
    BY <1>1, <1>6, <2>1 DEF CallBounded
  <2>2. CASE q = p
    BY <1>1, <1>2, <1>3, <1>6, <2>2 DEF Counted
  <2> QED BY <2>1, <2>2
<1> QED BY <1>7, <1>8, <1>9, <1>10, OneCall

(* An answer that does not parse is paid for with a repair, or ends the call.     *)
LEMMA AnswersStep ==
    ASSUME GatewayInv, NEW c \in Calls, Answers(c)
    PROVE  GatewayInv'
<1> DEFINE p == Asking(c)
<1>1. /\ calls \in [Calls -> CallType] /\ asked \in Counts /\ malformed \in Counts
      /\ calls[c] \in CallType /\ calls[c].pc = "waiting" /\ asked' = asked
      /\ CallCounted(c) /\ LaterUnasked(c) /\ CallBounded(c)
  BY DEF Answers, GatewayInv, GatewayTypeOK
<1>2. /\ KeysKnown /\ calls[c].i \in DOMAIN Chain /\ p = Ordered[calls[c].i] /\ p \in Providers
      /\ Counted(calls[c], asked[c][p], malformed[c][p])
  BY <1>1, OrderedType DEF CallCounted, Busy, Asking
<1>3. /\ asked[c] \in [Providers -> Nat] /\ malformed[c] \in [Providers -> Nat]
      /\ asked[c][p] \in Nat /\ malformed[c][p] \in Nat /\ Retries \in Nat /\ RepairRetries \in Nat
      /\ calls[c].attempts \in Nat /\ calls[c].repairs \in Nat
  BY <1>1, <1>2, GatewayAssumption DEF LlmSettings, Counts, CallType
<1>4. PICK reply \in AnswerReplies :
         /\ calls' = [calls EXCEPT ![c] = IF reply = "valid" THEN Finish(calls[c], "answered")
                                          ELSE AfterMalformed(calls[c])]
         /\ malformed' = [malformed EXCEPT ![c][p] =
                             IF reply = "malformed" THEN malformed[c][p] + 1 ELSE malformed[c][p]]
  BY <1>1, <1>3 DEF Answers, Counts
<1>5. CASE reply = "valid"
  <2> DEFINE next == Finish(calls[c], "answered")
  <2>1. calls' = [calls EXCEPT ![c] = next] /\ next \in CallType /\ next.pc = "done"
    BY <1>1, <1>4, <1>5 DEF Finish, CallType, Phases, Outcomes
  <2>2. malformed' = malformed
    BY <1>1, <1>3, <1>4, <1>5 DEF Counts
  <2>3. ~Busy(next) /\ next.pc # "idle"
    BY <2>1 DEF Busy
  <2> HIDE DEF next
  <2> QED BY <1>1, <2>1, <2>2, <2>3, NotAsking
<1>6. CASE reply = "malformed"
  <2> DEFINE next == AfterMalformed(calls[c])
  <2>1. /\ calls' = [calls EXCEPT ![c] = next]
        /\ malformed' = [malformed EXCEPT ![c] = [malformed[c] EXCEPT ![p] = malformed[c][p] + 1]]
    BY <1>1, <1>3, <1>4, <1>6 DEF Counts
  <2>2. /\ next \in CallType
        /\ \/ /\ next.pc = "pausing" /\ next.i = calls[c].i /\ next.attempts = calls[c].attempts
              /\ calls[c].repairs > 0 /\ next.repairs = calls[c].repairs - 1
           \/ next.pc = "done"
    <3>1. CASE calls[c].repairs > 0
      <4>1. next = [calls[c] EXCEPT !.pc = "pausing", !.repairs = @ - 1]
        BY <3>1 DEF AfterMalformed
      <4>2. calls[c].repairs - 1 \in Nat
        BY <1>3, <3>1
      <4> QED BY <1>1, <3>1, <4>1, <4>2 DEF CallType, Phases
    <3>2. CASE ~(calls[c].repairs > 0)
      BY <1>1, <3>2 DEF AfterMalformed, Finish, CallType, Phases, Outcomes
    <3> QED BY <3>1, <3>2
  <2> HIDE DEF next, p
  <2>3. /\ calls'[c] = next /\ malformed'[c][p] = malformed[c][p] + 1
        /\ \A q \in Providers : q # p => malformed'[c][q] = malformed[c][q]
        /\ malformed' \in Counts
    BY <1>1, <1>2, <1>3, <2>1 DEF Counts
  <2>4. GatewayTypeOK' /\ OthersAlone(c)
    BY <1>1, <2>1, <2>2, <2>3 DEF GatewayTypeOK, OthersAlone, Counts
  <2>5. /\ asked[c][p] <= Retries + 1 + malformed[c][p] /\ asked[c][p] = calls[c].attempts
        /\ calls[c].repairs + malformed[c][p] = RepairRetries
    BY <1>1, <1>2, <1>3 DEF Counted
  <2>6. CallCounted(c)'
    <3> SUFFICES ASSUME Busy(next)
                 PROVE  next.i = calls[c].i /\ Counted(next, asked[c][p], malformed[c][p] + 1)
      <4>1. next.i = calls[c].i => Asking(c)' = p
        BY <1>2, <2>3 DEF Asking
      <4> QED BY <1>1, <1>2, <2>3, <4>1 DEF CallCounted
    <3>1. /\ next.pc = "pausing" /\ next.i = calls[c].i /\ next.attempts = calls[c].attempts
          /\ next.repairs = calls[c].repairs - 1
      BY <2>2 DEF Busy
    <3> QED BY <1>3, <2>5, <3>1 DEF Counted
  <2>7. LaterUnasked(c)'
    <3> SUFFICES ASSUME NEW j \in DOMAIN Chain, next.pc # "idle", Busy(next), j > next.i
                 PROVE  asked[c][Ordered[j]] = 0 /\ malformed'[c][Ordered[j]] = 0
      BY <1>1, <2>2, <2>3 DEF LaterUnasked
    <3>1. next.i = calls[c].i
      BY <2>2 DEF Busy
    <3>2. asked[c][Ordered[j]] = 0 /\ malformed[c][Ordered[j]] = 0
      BY <1>1, <1>2, <3>1 DEF LaterUnasked, Busy
    <3>3. j # calls[c].i
      BY <1>1, <3>1 DEF CallType
    <3>4. Ordered[j] # p /\ Ordered[j] \in Providers
      BY <1>2, <3>3, OrderedType
    <3> QED BY <2>3, <3>2, <3>4
  <2>8. CallBounded(c)'
    <3> SUFFICES ASSUME NEW q \in Providers
                 PROVE  /\ malformed'[c][q] <= RepairRetries + 1
                        /\ asked[c][q] <= Retries + 1 + (IF malformed'[c][q] < RepairRetries
                                                         THEN malformed'[c][q] ELSE RepairRetries)
      BY <1>1 DEF CallBounded
    <3>1. CASE q # p
      BY <1>1, <2>3, <3>1 DEF CallBounded
    <3>2. CASE q = p
      BY <1>3, <2>3, <2>5, <3>2
    <3> QED BY <3>1, <3>2
  <2> QED BY <2>4, <2>6, <2>7, <2>8, OneCall
<1> QED BY <1>4, <1>5, <1>6 DEF AnswerReplies

LEMMA GatewayStep == GatewayInv /\ [Next]_vars => GatewayInv'
<1> SUFFICES ASSUME GatewayInv, [Next]_vars
             PROVE  GatewayInv'
  OBVIOUS
<1>1. ASSUME UNCHANGED <<calls, asked, malformed>>
      PROVE  GatewayInv'
  BY <1>1 DEF GatewayInv, GatewayTypeOK, CallCounted, Counted, Busy, Asking, LaterUnasked, CallBounded
<1>2. ASSUME NEW c \in Calls, Step(c)
      PROVE  GatewayInv'
  BY <1>2, GenerateStep, SendStep, QuietStep, AnswersStep, GiveUpStep DEF Step
<1>3. CASE Embed
  BY <1>1, <1>3 DEF Embed
<1>4. CASE UNCHANGED vars
  BY <1>1, <1>4 DEF vars
<1> QED BY <1>2, <1>3, <1>4 DEF Next

(* However retries, the repair and the fallback chain nest, a call sends each      *)
(* provider a bounded number of requests (gateway.py:270).                        *)
THEOREM RequestsBoundedHolds == Spec => []RequestsBounded
<1>1. GatewayInv => RequestsBounded
  BY DEF GatewayInv, CallBounded, RequestsBounded
<1> QED BY GatewayInit, GatewayStep, <1>1, PTL DEF Spec

-------------------------------------------------------------------------------
(* A provider that needs no asking: it has no model of the tier, its key is       *)
(* rejected, or the call asked it.                                                *)
Settled(c, j) ==
    HasModel(Ordered[j]) => Ordered[j] \in rejected \/ asked[c][Ordered[j]] > 0

(* What a call has passed on its chain, or left out of it when it began, is       *)
(* settled; so is all of the chain when the call fails for want of a provider.    *)
Passed(c) ==
    /\ Busy(calls[c]) \/ EndedWith(c, "answered") =>
          \A j \in Places : j < calls[c].i \/ j \notin calls[c].live => Settled(c, j)
    /\ calls[c].pc \in {"waiting", "pausing", "giving_up"} => Settled(c, calls[c].i)
    /\ OutOfProviders(c) => \A j \in Places : Settled(c, j)

LEMMA StaysSettled ==
    ASSUME GatewayInv, [Next]_vars, NEW c \in Calls, NEW j \in DOMAIN Chain, Settled(c, j)
    PROVE  Settled(c, j)'
<1>1. rejected \subseteq rejected'
  BY DEF Next, Step, Generate, Send, Fails, Answers, NotJson, Resume, GiveUp, Rejections, Embed, vars
<1>2. CASE \E d \in Calls : Send(d)
  <2>1. PICK d \in Calls : Send(d)
    BY <1>2
  <2>2. /\ calls[d].pc = "sending" /\ KeysKnown /\ Ordered[j] \in Providers
        /\ asked \in [Calls -> [Providers -> Nat]]
        /\ asked' = [asked EXCEPT ![d][Asking(d)] = @ + 1]
    BY <2>1, OrderedType DEF Send, GatewayInv, GatewayTypeOK, Counts, CallCounted, Busy
  <2>3. asked'[c][Ordered[j]] >= asked[c][Ordered[j]] /\ asked[c][Ordered[j]] \in Nat
        /\ asked'[c][Ordered[j]] \in Nat
    BY <2>2
  <2> QED BY <1>1, <2>3 DEF Settled
<1>3. CASE ~ \E d \in Calls : Send(d)
  <2>1. asked' = asked
    BY <1>3 DEF Next, Step, Generate, Fails, Answers, NotJson, Resume, GiveUp, Embed, vars
  <2> QED BY <1>1, <2>1 DEF Settled
<1> QED BY <1>2, <1>3

(* Turning to place i or later passes over nothing but places without a model.    *)
LEMMA TurnPasses ==
    ASSUME NEW call \in CallType, NEW i \in Nat, NEW bad
    PROVE  LET next == Turn(call, i, bad) IN
           \/ /\ next.pc = "sending" /\ next.live = call.live
              /\ \A j \in call.live : j >= i /\ j < next.i => ~HasModel(Ordered[j])
           \/ /\ next.pc = "done"
              /\ \A j \in call.live : j >= i => ~HasModel(Ordered[j])
<1> DEFINE rest == {j \in call.live : j >= i /\ HasModel(Ordered[j])}
           least == CHOOSE j \in rest : \A k \in rest : j <= k
<1>0. DOMAIN Chain \subseteq Nat /\ call.live \subseteq DOMAIN Chain
  BY GatewayAssumption DEF CallType
<1>1. CASE rest # {}
  <2>1. rest \in SUBSET Nat
    BY <1>0
  <2>2. least \in rest /\ \A k \in rest : least <= k
    BY <1>1, <2>1, LeastNumber
  <2>3. Turn(call, i, bad) = [call EXCEPT !.pc = "sending", !.attempts = 0, !.auth = FALSE,
                                          !.repairs = RepairRetries, !.i = least]
    BY <1>1 DEF Turn
  <2> HIDE DEF least
  <2>4. /\ Turn(call, i, bad).pc = "sending" /\ Turn(call, i, bad).live = call.live
        /\ Turn(call, i, bad).outcome = call.outcome /\ Turn(call, i, bad).i = least
    BY <2>3 DEF CallType
  <2>5. ASSUME NEW j \in call.live, j >= i, j < least
        PROVE  ~HasModel(Ordered[j])
    <3>1. j \in Nat /\ least \in Nat /\ ~(least <= j)
      BY <1>0, <2>1, <2>2, <2>5
    <3>2. j \notin rest
      BY <2>2, <3>1
    <3> QED BY <2>5, <3>2
  <2> HIDE DEF rest
  <2> QED BY <2>4, <2>5
<1>2. CASE rest = {}
  BY <1>2 DEF Turn, Finish, CallType
<1> QED BY <1>1, <1>2

(* The acting call, step by step.                                                 *)
LEMMA PassedStep ==
    ASSUME GatewayInv, NEW c \in Calls, Passed(c), Step(c), [Next]_vars
    PROVE  Passed(c)'
<1>1. /\ calls \in [Calls -> CallType] /\ calls[c] \in CallType /\ calls[c].i \in Nat
      /\ asked \in Counts /\ malformed \in Counts /\ RepairRetries \in Nat
      /\ Places \subseteq DOMAIN Chain /\ DOMAIN Chain \subseteq Nat /\ CallCounted(c)
  BY GatewayAssumption DEF GatewayInv, GatewayTypeOK, CallType, LlmSettings, Places
<1>2. /\ \A j \in Places : Settled(c, j) => Settled(c, j)'
      /\ calls[c].i \in DOMAIN Chain /\ calls'[c].i = calls[c].i /\ Settled(c, calls[c].i)
           => Settled(c, calls[c].i)'
  <2>1. \A j \in DOMAIN Chain : Settled(c, j) => Settled(c, j)'
    BY StaysSettled
  <2>2. ASSUME NEW j, j = calls[c].i, calls'[c].i = calls[c].i, Settled(c, j)'
        PROVE  Settled(c, calls[c].i)'
    BY <2>2 DEF Settled
  <2> QED BY <1>1, <2>1, <2>2
<1>3. CASE Generate(c)
  <2> DEFINE live == {j \in Places : Ordered[j] \notin rejected}
             call == [calls[c] EXCEPT !.live = live]
             next == IF Chain = <<>> THEN Finish(calls[c], "failed")
                     ELSE IF ~KeysKnown THEN Finish(calls[c], "keys_rejected")
                     ELSE Turn(call, 1, rejected)
  <2>1. calls'[c] = next /\ calls[c].pc = "idle"
        /\ rejected' = rejected /\ asked' = asked
    BY <1>1, <1>3 DEF Generate, KeysKnown, Passed
  <2>2. CASE Chain = <<>>
    <3>1. Places = {}
      BY <2>2 DEF Places
    <3>2. calls'[c].pc = "done" /\ calls'[c].outcome = "failed"
      BY <1>1, <2>1, <2>2 DEF Finish, CallType
    <3> QED BY <3>1, <3>2 DEF Passed, Busy
  <2>3. CASE Chain # <<>> /\ ~KeysKnown
    <3>1. calls'[c].pc = "done" /\ calls'[c].outcome = "keys_rejected"
      BY <1>1, <2>1, <2>3 DEF Finish, CallType
    <3> QED BY <3>1 DEF Passed, Busy, OutOfProviders, EndedWith
  <2>4. CASE Chain # <<>> /\ KeysKnown
    <3>1. /\ call \in CallType /\ call.live = live 
          /\ calls'[c] = Turn(call, 1, rejected)
      BY <1>1, <2>1, <2>4 DEF CallType
    <3>2. \A j \in Places : j \notin live => Settled(c, j)'
      BY <2>1 DEF Settled
    <3>3. \A j \in live : j >= 1
      BY <1>1, GatewayAssumption DEF Places
    <3> HIDE DEF call, live
    <3>4. CASE /\ calls'[c].pc = "sending" /\ calls'[c].live = live
               /\ \A j \in live : j >= 1 /\ j < calls'[c].i => ~HasModel(Ordered[j])
      <4>1. \A j \in Places : j < calls'[c].i => Settled(c, j)'
        BY <3>2, <3>3, <3>4 DEF Settled
      <4> QED BY <3>2, <3>4, <4>1 DEF Passed, Busy, OutOfProviders, EndedWith
    <3>5. CASE calls'[c].pc = "done" /\ \A j \in live : j >= 1 => ~HasModel(Ordered[j])
      <4>1. \A j \in Places : Settled(c, j)'
        BY <3>2, <3>3, <3>5 DEF Settled
      <4>2. calls'[c].pc = "done" /\ ~Busy(calls'[c])
        BY <3>5 DEF Busy
      <4> QED BY <4>1, <4>2 DEF Passed
    <3> QED BY <3>1, <3>4, <3>5, TurnPasses
  <2> QED BY <2>2, <2>3, <2>4
<1>4. CASE Send(c)
  <2>1. /\ calls[c].pc = "sending" /\ KeysKnown /\ calls[c].i \in DOMAIN Chain
        /\ Ordered[calls[c].i] \in Providers /\ Asking(c) = Ordered[calls[c].i]
    BY <1>1, <1>4, OrderedType DEF Send, CallCounted, Busy, Asking
  <2>2. /\ calls'[c].pc = "waiting" /\ calls'[c].i = calls[c].i /\ calls'[c].live = calls[c].live
        /\ calls'[c].outcome = calls[c].outcome /\ malformed' = malformed
    BY <1>1, <1>4 DEF Send, CallType
  <2>3. asked'[c][Ordered[calls[c].i]] > 0
    BY <1>1, <1>4, <2>1 DEF Send, Counts
  <2>4. Settled(c, calls[c].i)'
    <3>1. Ordered[calls'[c].i] = Ordered[calls[c].i]
      BY <2>2
    <3> QED BY <2>2, <2>3, <3>1 DEF Settled
  <2> QED BY <1>2, <2>1, <2>2, <2>4 DEF Passed, Busy, OutOfProviders, EndedWith
<1>5. CASE Fails(c) \/ Resume(c)
  <2>1. PICK pc \in {"sending", "pausing", "giving_up"}, auth \in BOOLEAN :
           /\ calls' = [calls EXCEPT ![c].pc = pc, ![c].auth = auth]
           /\ pc = "sending" \/ calls[c].pc = "waiting"
    <3>1. CASE Fails(c)
      <4>1. PICK reply \in ErrorReplies :
               calls' = [calls EXCEPT ![c].pc = IF MayRetry(calls[c], reply) THEN "pausing" ELSE "giving_up",
                                      ![c].auth = reply \in AuthReplies]
        BY <3>1 DEF Fails
      <4>2. (IF MayRetry(calls[c], reply) THEN "pausing" ELSE "giving_up") \in {"pausing", "giving_up"}
            /\ (reply \in AuthReplies) \in BOOLEAN /\ calls[c].pc = "waiting"
        BY <3>1 DEF Fails
      <4> QED BY <4>1, <4>2
    <3>2. CASE Resume(c)
      <4>1. calls' = [calls EXCEPT ![c].pc = "sending", ![c].auth = calls[c].auth]
            /\ calls[c].auth \in BOOLEAN
        BY <1>1, <3>2 DEF Resume, CallType
      <4> QED BY <4>1
    <3> QED BY <1>5, <3>1, <3>2
  <2>2. /\ calls'[c].pc = pc /\ calls'[c].i = calls[c].i /\ calls'[c].live = calls[c].live
        /\ calls'[c].outcome = calls[c].outcome /\ malformed' = malformed /\ Busy(calls[c])
        /\ calls[c].pc # "done"
    BY <1>1, <1>5, <2>1 DEF Fails, Resume, CallType, Busy
  <2>3. calls[c].i \in DOMAIN Chain
    BY <1>1, <2>2 DEF CallCounted
  <2> QED BY <1>2, <2>1, <2>2, <2>3 DEF Passed, OutOfProviders, EndedWith
<1>6. CASE NotJson(c)
  <2>1. calls'[c].pc = "done" /\ calls'[c].outcome = "unexpected"
    BY <1>1, <1>6 DEF NotJson, Finish, CallType
  <2> QED BY <2>1 DEF Passed, Busy, OutOfProviders, EndedWith
<1>7. CASE Answers(c)
  <2>1. /\ calls[c].pc = "waiting" /\ KeysKnown /\ calls[c].i \in DOMAIN Chain
        /\ Asking(c) = Ordered[calls[c].i] /\ Asking(c) \in Providers
        /\ calls[c].repairs + malformed[c][Asking(c)] = RepairRetries
        /\ calls[c].repairs \in Nat /\ malformed[c][Asking(c)] \in Nat
    BY <1>1, <1>7, OrderedType DEF Answers, CallCounted, Busy, Asking, Counted, CallType, Counts
  <2>2. PICK reply \in AnswerReplies :
           /\ calls' = [calls EXCEPT ![c] = IF reply = "valid" THEN Finish(calls[c], "answered")
                                            ELSE AfterMalformed(calls[c])]
           /\ malformed' = [malformed EXCEPT ![c][Asking(c)] =
                               IF reply = "malformed" THEN malformed[c][Asking(c)] + 1
                               ELSE malformed[c][Asking(c)]]
    BY <1>1, <1>7, <2>1 DEF Answers, Counts
  <2>3. CASE reply = "valid"
    <3>1. /\ calls'[c].pc = "done" /\ calls'[c].outcome = "answered"
          /\ calls'[c].i = calls[c].i /\ calls'[c].live = calls[c].live
      BY <1>1, <2>2, <2>3 DEF Finish, CallType
    <3> QED BY <1>2, <2>1, <3>1 DEF Passed, Busy, OutOfProviders, EndedWith
  <2>4. CASE reply # "valid" /\ calls[c].repairs > 0
    <3>1. /\ calls'[c].pc = "pausing" /\ calls'[c].outcome = calls[c].outcome
          /\ calls'[c].i = calls[c].i /\ calls'[c].live = calls[c].live
      BY <1>1, <2>2, <2>4 DEF AfterMalformed, CallType
    <3> QED BY <1>2, <2>1, <3>1 DEF Passed, Busy, OutOfProviders, EndedWith
  <2>5. CASE reply # "valid" /\ ~(calls[c].repairs > 0)
    <3>1. calls'[c].pc = "done" /\ calls'[c].outcome = "failed"
      BY <1>1, <2>2, <2>5 DEF AfterMalformed, Finish, CallType
    <3>2. malformed[c][Asking(c)] = RepairRetries
      BY <2>1, <2>5
    <3>3. malformed'[c][Asking(c)] = RepairRetries + 1
      BY <1>1, <2>1, <2>2, <2>5, <3>2 DEF AnswerReplies, Counts
    <3>4. ~(malformed'[c][Asking(c)] <= RepairRetries)
      BY <1>1, <3>3
    <3> QED BY <2>1, <3>1, <3>4 DEF Passed, Busy, OutOfProviders, EndedWith
  <2> QED BY <2>3, <2>4, <2>5
<1>8. CASE GiveUp(c)
  <2> DEFINE next == Turn(calls[c], calls[c].i + 1, rejected')
  <2>1. /\ calls'[c] = next /\ calls[c].pc = "giving_up" /\ Busy(calls[c])
        /\ calls[c].i \in DOMAIN Chain /\ calls[c].i + 1 \in Nat
    BY <1>1, <1>8 DEF GiveUp, Passed, Busy, CallCounted
  <2>2. /\ \A j \in Places : j < calls[c].i \/ j \notin calls[c].live => Settled(c, j)'
        /\ \A j \in Places : j = calls[c].i => Settled(c, j)'
    BY <1>2, <2>1 DEF Passed
  <2>3. \A j \in Places : j \in Nat /\ (j < calls[c].i \/ j = calls[c].i \/ j >= calls[c].i + 1)
    BY <1>1
  <2>4. \/ /\ next.pc = "sending" /\ next.live = calls[c].live
           /\ \A j \in calls[c].live : j >= calls[c].i + 1 /\ j < next.i => ~HasModel(Ordered[j])
        \/ /\ next.pc = "done"
           /\ \A j \in calls[c].live : j >= calls[c].i + 1 => ~HasModel(Ordered[j])
    BY <1>1, <2>1, TurnPasses
  <2> HIDE DEF next
  <2>5. CASE /\ next.pc = "sending" /\ next.live = calls[c].live
             /\ \A j \in calls[c].live : j >= calls[c].i + 1 /\ j < next.i => ~HasModel(Ordered[j])
    <3>1. \A j \in Places : j < next.i \/ j \notin calls[c].live => Settled(c, j)'
      BY <2>2, <2>3, <2>5 DEF Settled
    <3> QED BY <2>1, <2>5, <3>1 DEF Passed, OutOfProviders, EndedWith
  <2>6. CASE /\ next.pc = "done"
             /\ \A j \in calls[c].live : j >= calls[c].i + 1 => ~HasModel(Ordered[j])
    <3>1. \A j \in Places : Settled(c, j)'
      BY <2>2, <2>3, <2>6 DEF Settled
    <3>2. calls'[c].pc = "done" /\ ~Busy(calls'[c])
      BY <2>1, <2>6 DEF Busy
    <3> QED BY <3>1, <3>2 DEF Passed
  <2> QED BY <2>4, <2>5, <2>6
<1> QED BY <1>3, <1>4, <1>5, <1>6, <1>7, <1>8 DEF Step

(* A call passes over no key on its way to a fallback or to failure, whatever the *)
(* other calls reject meanwhile (gateway.py:169-222).                             *)
THEOREM NoProviderSkippedHolds == Spec => []NoProviderSkipped
<1> DEFINE AllPassed == \A c \in Calls : Passed(c)
<1>1. Init => AllPassed
  BY DEF Init, NewCall, Passed, Busy, OutOfProviders, EndedWith
<1>2. GatewayInv /\ AllPassed /\ [Next]_vars => AllPassed'
  <2> SUFFICES ASSUME GatewayInv, AllPassed, [Next]_vars, NEW c \in Calls
               PROVE  Passed(c)'
    OBVIOUS
  <2>1. CASE Step(c)
    BY <2>1, PassedStep
  <2>2. CASE ~Step(c)
    <3>1. calls'[c] = calls[c] /\ malformed'[c] = malformed[c]
      <4>1. calls \in [Calls -> CallType] /\ malformed \in [Calls -> [Providers -> Nat]]
        BY DEF GatewayInv, GatewayTypeOK, Counts
      <4>2. CASE \E d \in Calls : Step(d)
        <5>1. PICK d \in Calls : Step(d)
          BY <4>2
        <5>2. d # c
          BY <2>2, <5>1
        <5>3. CASE Answers(d)
          BY <4>1, <5>2, <5>3 DEF Answers
        <5>4. CASE ~Answers(d)
          BY <4>1, <5>1, <5>2, <5>4 DEF Step, Generate, Send, Fails, NotJson, Resume, GiveUp
        <5> QED BY <5>3, <5>4
      <4>3. CASE Embed \/ UNCHANGED vars
        BY <4>3 DEF Embed, vars
      <4> QED BY <4>2, <4>3 DEF Next
    <3>2. /\ \A j \in DOMAIN Chain : Settled(c, j) => Settled(c, j)'
          /\ Places \subseteq DOMAIN Chain
          /\ Busy(calls[c]) => calls[c].i \in DOMAIN Chain
      BY StaysSettled DEF Places, GatewayInv, CallCounted
    <3>3. ASSUME NEW j, j = calls[c].i, Settled(c, j)'
          PROVE  Settled(c, calls[c].i)'
      BY <3>1, <3>3 DEF Settled
    <3> QED BY <3>1, <3>2, <3>3 DEF Passed, OutOfProviders, EndedWith, Busy
  <2> QED BY <2>1, <2>2
<1>3. GatewayInv /\ AllPassed => NoProviderSkipped
  <2> SUFFICES ASSUME AllPassed, NEW c \in Calls, NEW j \in Places, HasModel(Ordered[j]),
                      OutOfProviders(c) \/ (EndedWith(c, "answered") /\ j < calls[c].i)
               PROVE  Ordered[j] \in rejected \/ asked[c][Ordered[j]] > 0
    BY DEF NoProviderSkipped
  <2>1. Settled(c, j)
    BY DEF Passed
  <2> QED BY <2>1 DEF Settled
<1> QED BY GatewayInit, GatewayStep, <1>1, <1>2, <1>3, PTL DEF Spec

(* A call that gives up its last provider stops the run exactly when every key of  *)
(* its chain is rejected by then, whichever calls found out (gateway.py:200-220).  *)
THEOREM StopIffNoKeyLeftHolds == Spec => StopIffNoKeyLeft
<1> DEFINE Stops(c) == calls[c].pc = "giving_up" /\ calls'[c].pc = "done"
                          => calls'[c].outcome = "keys_rejected" <=> AllRejected(rejected')
<1>1. ASSUME GatewayInv, [Next]_vars, NEW c \in Calls
      PROVE  Stops(c)
  <2> SUFFICES ASSUME calls[c].pc = "giving_up", calls'[c].pc = "done"
               PROVE  calls'[c].outcome = "keys_rejected" <=> AllRejected(rejected')
    OBVIOUS
  <2>1. calls \in [Calls -> CallType] /\ calls[c] \in CallType /\ calls[c].i + 1 \in Nat
    BY <1>1 DEF GatewayInv, GatewayTypeOK, CallType
  <2>2. PICK d \in Calls : Step(d)
    BY <1>1 DEF Next, Embed, vars
  <2>3. d = c
    BY <2>1, <2>2 DEF Step, Generate, Send, Fails, Answers, NotJson, Resume, GiveUp
  <2>4. GiveUp(c)
    BY <2>2, <2>3 DEF Step, Generate, Send, Fails, Answers, NotJson, Resume
  <2>5. calls'[c] = Turn(calls[c], calls[c].i + 1, rejected')
    BY <2>1, <2>4 DEF GiveUp
  <2>6. calls'[c].outcome = IF AllRejected(rejected') THEN "keys_rejected" ELSE "failed"
    BY <2>1, <2>5, TurnType
  <2> QED BY <2>6
<1>2. GatewayInv /\ [Next]_vars => [\A c \in Calls : Stops(c)]_vars
  BY <1>1
<1> QED BY GatewayInit, GatewayStep, <1>2, PTL DEF Spec, StopIffNoKeyLeft
===============================================================================
