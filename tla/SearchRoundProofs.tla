-------------------------- MODULE SearchRoundProofs --------------------------
(* What a search round promises for any queries, any chain of providers, any     *)
(* limits and any pages: the budget, the settling of every query, no page lost,  *)
(* and one origin per text.                                                      *)
EXTENDS SearchRound, FiniteSetTheorems, SequenceTheorems, TLAPS

Phases   == {"search", "merge", "select", "fetch", "origins", "finished", "raised"}
Busy     == {"lookup", "asking", "backoff", "failing", "moving"}
Hit      == [url : DOMAIN Page, full : BOOLEAN, query : Index, kind : Kinds]

Task     == [pc : {"queued", "done"} \cup Busy, broad : BOOLEAN, todo : SUBSET DOMAIN Chain,
             at : Nat, attempt : Nat, auth : BOOLEAN, empty : BOOLEAN]

QueriesOK ==
    /\ phase \in Phases
    /\ task \in [Index -> Task]
    /\ status \in [Index -> QueryRecord]
    /\ searches \in Nat

(* A coroutine that is not done has one query to settle: the planned one, then   *)
(* the broadened one.                                                            *)
OnTrack(q) ==
    /\ task[q].pc = "done" => status[q].planned # "planned" /\ status[q].broadened # "planned"
    /\ task[q].pc # "done" =>
         /\ status[q][Kind(task[q])] = "planned"
         /\ task[q].broad => status[q].planned # "planned"
         /\ ~task[q].broad => status[q].broadened = "absent"

(* What is charged for: the queries that are settled and those under way.        *)
Billed(q, kind) == \/ status[q][kind] \in Settled
                   \/ Holding(task[q]) /\ Kind(task[q]) = kind
Charged == {x \in Index \X Kinds : Billed(x[1], x[2])}

Settling ==
    phase # "raised" =>
        /\ \A q \in Index : OnTrack(q)
        /\ searches = Spent + Cardinality(Charged)

QueriesDone == phase \notin {"search", "raised"} => \A q \in Index : task[q].pc = "done"

SettlingInv == QueriesOK /\ Settling /\ QueriesDone /\ BudgetNeverOvershot

-----------------------------------------------------------------------------
LEMMA ChargedFinite == IsFiniteSet(Charged) /\ Cardinality(Charged) \in Nat
<1>1. Index \in SUBSET Nat /\ IsFiniteSet(Index)
  BY RoundAssumption, FS_Interval, LenProperties DEF Index
<1>2. IsFiniteSet(Kinds)
  <2>1. IsFiniteSet({"planned"}) /\ IsFiniteSet({"broadened"})
    BY FS_Singleton
  <2>2. Kinds = {"planned"} \cup {"broadened"}
    BY DEF Kinds
  <2> QED BY <2>1, <2>2, FS_Union
<1>3. IsFiniteSet(Index \X Kinds)
  BY <1>1, <1>2, FS_Product
<1> QED BY <1>3, FS_Subset, FS_CardinalityType DEF Charged

LEMMA BudgetIsNat == MaxSearches \in Nat /\ Spent \in Nat
<1>1. BudgetSettings /\ Spent \in Nat
  BY RoundAssumption, Zenon
<1> QED BY <1>1 DEF BudgetSettings

LEMMA SettlingInit == Init => SettlingInv
<1> SUFFICES ASSUME Init PROVE SettlingInv
  OBVIOUS
<1>1. QueriesOK
  BY RoundAssumption DEF Init, QueriesOK, Task, NewTask, Phases, QueryStatus, QueryRecord, Busy
<1>2. \A q \in Index : OnTrack(q)
  BY DEF Init, OnTrack, NewTask, Kind
<1>3. Charged = {}
  BY DEF Init, Charged, Billed, Settled, Holding, NewTask, Kinds
<1>4. searches = Spent + Cardinality(Charged)
  BY <1>3, FS_EmptySet, BudgetIsNat DEF Init
<1> QED BY <1>1, <1>2, <1>4, BudgetIsNat DEF Init, SettlingInv, Settling, QueriesDone, BudgetNeverOvershot

(* A coroutine's step leaves the other coroutines and their queries alone, so the *)
(* bill changes only where the step changes it.                                   *)
Others(q) == \A r \in Index \ {q} : task'[r] = task[r] /\ status'[r] = status[r]

LEMMA OthersOnTrack ==
  ASSUME NEW q \in Index, Others(q), \A r \in Index : OnTrack(r), OnTrack(q)'
  PROVE  \A r \in Index : OnTrack(r)'
BY DEF Others, OnTrack, Kind

LEMMA OthersBilled ==
  ASSUME NEW q \in Index, Others(q), NEW r \in Index \ {q}, NEW kind \in Kinds
  PROVE  Billed(r, kind)' <=> Billed(r, kind)
BY DEF Others, Billed, Kind, Holding, Settled

LEMMA SameBill ==
  ASSUME NEW q \in Index, Others(q), \A kind \in Kinds : Billed(q, kind)' <=> Billed(q, kind)
  PROVE  Charged' = Charged
<1>1. \A r \in Index, kind \in Kinds : Billed(r, kind)' <=> Billed(r, kind)
  BY OthersBilled
<1> QED BY <1>1 DEF Charged, Index, Kinds

LEMMA OneMore ==
  ASSUME NEW q \in Index, Others(q), NEW k \in Kinds, ~Billed(q, k),
         \A kind \in Kinds : Billed(q, kind)' <=> Billed(q, kind) \/ kind = k
  PROVE  Cardinality(Charged') = Cardinality(Charged) + 1
<1>1. \A r \in Index, kind \in Kinds :
          Billed(r, kind)' <=> Billed(r, kind) \/ <<r, kind>> = <<q, k>>
  BY OthersBilled
<1>2. Charged' = Charged \cup {<<q, k>>}
  BY <1>1 DEF Charged, Index, Kinds
<1>3. <<q, k>> \notin Charged
  BY DEF Charged
<1> QED BY <1>2, <1>3, ChargedFinite, FS_AddElement

-----------------------------------------------------------------------------
(* The bill over the steps of one coroutine.                                      *)
Accounted(q) ==
    /\ QueriesOK'
    /\ Others(q)
    /\ phase = "raised" => phase' = "raised"
    /\ phase' # "raised" =>
         /\ OnTrack(q)'
         /\ \/ searches' = searches /\ Charged' = Charged
            \/ searches' = searches + 1 /\ Cardinality(Charged') = Cardinality(Charged) + 1

LEMMA SkipAccounted ==
  ASSUME SettlingInv, NEW q \in Index, SkipQuery(q) PROVE Accounted(q)
<1> USE DEF SettlingInv, QueriesOK, QueryRecord, Task, SkipQuery, Dead, Kinds, Kind
<1>1. QueriesOK' /\ Others(q) /\ phase' = phase /\ searches' = searches
  BY DEF Others, QueryStatus, QueryRecord
<1>2. ASSUME phase # "raised"
      PROVE  OnTrack(q)' /\ Charged' = Charged
  <2>1. OnTrack(q)
    BY <1>2 DEF Settling
  <2>2. /\ status'[q] = [status[q] EXCEPT ![Kind(task[q])] = "skipped_budget"]
        /\ task'[q].pc = "done"
    OBVIOUS
  <2>3. OnTrack(q)'
    BY <2>1, <2>2 DEF OnTrack
  <2>4. ~Holding(task[q]) /\ ~Holding(task'[q])
    BY <2>2 DEF Holding
  <2>5. \A kind \in Kinds : status'[q][kind] \in Settled <=> status[q][kind] \in Settled
    BY <2>1, <2>2 DEF OnTrack, Settled
  <2>6. \A kind \in Kinds : Billed(q, kind)' <=> Billed(q, kind)
    BY <2>4, <2>5 DEF Billed, Settled, Holding
  <2> QED BY <2>3, <2>6, <1>1, SameBill
<1> QED BY <1>1, <1>2 DEF Accounted

LEMMA StartAccounted ==
  ASSUME SettlingInv, NEW q \in Index, StartQuery(q) PROVE Accounted(q)
<1>1. /\ task[q] \in Task /\ task[q].pc = "queued"
      /\ searches' = searches + 1 /\ searches' \in Nat
      /\ status[q] \in QueryRecord
      /\ Kind(task[q]) \in Kinds /\ phase \in Phases
      /\ phase # "raised" => OnTrack(q)
  BY DEF SettlingInv, Settling, QueriesOK, StartQuery, Kind, Kinds, Task
<1>2. ~Holding(task[q])
  BY <1>1 DEF Holding
<1>3. ASSUME phase # "raised"
      PROVE  /\ ~Billed(q, Kind(task[q]))
             /\ status[q][Kind(task[q])] = "planned"
  BY <1>1, <1>2, <1>3 DEF OnTrack, Billed, Settled
<1>4. CASE Live # {}
  <2>0. phase' = phase /\ status' = status
    BY <1>4 DEF StartQuery
  <2>1. PICK i \in Live : task' = [task EXCEPT ![q] =
          [task[q] EXCEPT !.pc = "lookup", !.todo = Live \ {i}, !.at = i, !.empty = FALSE]]
    <3>1. Ask(q, [task[q] EXCEPT !.todo = Live, !.empty = FALSE])
      BY <1>4 DEF StartQuery
    <3>2. PICK i \in Live : task' = [task EXCEPT ![q] =
            [[task[q] EXCEPT !.todo = Live, !.empty = FALSE] EXCEPT !.pc = "lookup", !.todo = @ \ {i}, !.at = i]]
      BY <3>1, <1>1 DEF Ask, Task
    <3> QED BY <3>2, <1>1 DEF Task
  <2>2. Live \subseteq DOMAIN Chain /\ i \in Nat
    BY RoundAssumption, LenProperties, <2>1 DEF Live
  <2>3. task'[q] \in Task /\ task'[q].pc = "lookup" /\ task'[q].broad = task[q].broad
    BY <1>1, <2>1, <2>2 DEF Task, Busy, SettlingInv, QueriesOK
  <2>4. QueriesOK' /\ Others(q)
    <3>1. task' \in [Index -> Task] /\ \A r \in Index \ {q} : task'[r] = task[r]
      BY <2>1, <2>3 DEF SettlingInv, QueriesOK
    <3> QED BY <1>1, <2>0, <3>1 DEF SettlingInv, QueriesOK, Others
  <2>5. ASSUME phase # "raised"
        PROVE  OnTrack(q)' /\ Cardinality(Charged') = Cardinality(Charged) + 1
    <3>1. OnTrack(q)'
      BY <1>1, <2>0, <2>3, <2>5 DEF OnTrack, Kind
    <3>2. Holding(task'[q]) /\ Kind(task'[q]) = Kind(task[q])
      BY <2>3 DEF Holding, Kind
    <3>3. \A kind \in Kinds : Billed(q, kind)' <=> Billed(q, kind) \/ kind = Kind(task[q])
      BY <1>2, <2>0, <3>2 DEF Billed, Settled, Holding, Kind
    <3> QED BY <1>1, <1>3, <2>4, <2>5, <3>1, <3>3, OneMore
  <2> QED BY <1>1, <2>0, <2>4, <2>5 DEF Accounted
<1>5. CASE Live = {}
  <2>0. /\ task' = [task EXCEPT ![q] = Dead(@)]
        /\ phase' = IF Chain # <<>> THEN "raised" ELSE phase
        /\ status' = IF Chain = <<>> THEN [status EXCEPT ![q][Kind(task[q])] = "failed"] ELSE status
    BY <1>5 DEF StartQuery
  <2>1. task'[q] \in Task /\ task'[q].pc = "done" /\ task'[q].broad = task[q].broad
    BY <1>1, <2>0 DEF Task, Dead, SettlingInv, QueriesOK
  <2>2. task' \in [Index -> Task] /\ \A r \in Index \ {q} : task'[r] = task[r]
    BY <2>0, <2>1 DEF SettlingInv, QueriesOK
  <2>3. CASE Chain # <<>>
    <3>1. phase' = "raised" /\ status' = status
      BY <2>0, <2>3
    <3> QED BY <1>1, <2>2, <3>1 DEF SettlingInv, QueriesOK, Others, Phases, Accounted
  <2>4. CASE Chain = <<>>
    <3>1. phase' = phase /\ status' = [status EXCEPT ![q][Kind(task[q])] = "failed"]
      BY <2>0, <2>4
    <3>2. status'[q] = [status[q] EXCEPT ![Kind(task[q])] = "failed"]
      BY <3>1 DEF SettlingInv, QueriesOK
    <3>3. status'[q] \in QueryRecord
      BY <3>2, <1>1 DEF QueryStatus, QueryRecord, Kinds
    <3>4. QueriesOK' /\ Others(q)
      BY <1>1, <2>2, <3>1, <3>3 DEF SettlingInv, QueriesOK, Others
    <3>5. ASSUME phase # "raised"
          PROVE  OnTrack(q)' /\ Cardinality(Charged') = Cardinality(Charged) + 1
      <4>1. OnTrack(q)'
        BY <1>1, <2>1, <3>2, <3>5 DEF OnTrack, QueryRecord, Kind, Kinds
      <4>2. ~Holding(task'[q])
        BY <2>1 DEF Holding
      <4>3. \A kind \in Kinds : status'[q][kind] \in Settled <=>
                                   status[q][kind] \in Settled \/ kind = Kind(task[q])
        BY <1>1, <3>2 DEF Settled, QueryRecord, Kinds
      <4>4. \A kind \in Kinds : Billed(q, kind)' <=> Billed(q, kind) \/ kind = Kind(task[q])
        BY <1>2, <4>2, <4>3 DEF Billed, Settled, Holding
      <4> QED BY <1>1, <1>3, <3>4, <3>5, <4>1, <4>4, OneMore
    <3> QED BY <1>1, <3>1, <3>4, <3>5 DEF Accounted
  <2> QED BY <2>3, <2>4
<1> QED BY <1>4, <1>5

(* A step within a search settles nothing and stays charged.                      *)
LEMMA AskingAccounted ==
  ASSUME SettlingInv, NEW q \in Index,
         CacheMiss(q) \/ FindsNothing(q) \/ AskFails(q) \/ AskAgain(q) \/ GiveUp(q)
  PROVE  Accounted(q)
<1> USE DEF SettlingInv, QueriesOK, Task, Kinds, Kind, Busy
<1>1. /\ QueriesOK' /\ Others(q)
      /\ phase' = phase /\ searches' = searches /\ status' = status
      /\ task[q].pc \in Busy /\ task'[q].pc \in Busy /\ task'[q].broad = task[q].broad
  <2>1. CASE CacheMiss(q)
    BY <2>1 DEF CacheMiss, Others
  <2>2. CASE FindsNothing(q)
    BY <2>2 DEF FindsNothing, Others
  <2>3. CASE AskFails(q)
    <3>1. PICK error \in Errors :
              task' = [task EXCEPT ![q].pc = IF error.retryable /\ task[q].attempt < Retries + 1
                                             THEN "backoff" ELSE "failing",
                                   ![q].auth = error.auth]
      BY <2>3 DEF AskFails
    <3>2. error.auth \in BOOLEAN
      <4>1. error \in {KeyRejected, Refused, MayPass}
        BY DEF Errors, StatusErrors, TransportErrors
      <4>2. KeyRejected.auth \in BOOLEAN /\ Refused.auth \in BOOLEAN /\ MayPass.auth \in BOOLEAN
        BY DEF KeyRejected, Refused, MayPass
      <4> QED BY <4>1, <4>2
    <3>3. task'[q] = [task[q] EXCEPT !.pc = IF error.retryable /\ task[q].attempt < Retries + 1
                                            THEN "backoff" ELSE "failing", !.auth = error.auth]
      BY <3>1
    <3>4. \A r \in Index \ {q} : task'[r] = task[r]
      BY <3>1
    <3>5. task'[q].pc \in {"backoff", "failing"} /\ task'[q].broad = task[q].broad /\ task'[q] \in Task
      BY <3>2, <3>3
    <3>6. task' \in [Index -> Task]
      BY <3>1, <3>4, <3>5
    <3> QED BY <2>3, <3>4, <3>5, <3>6 DEF AskFails, Others
  <2>4. CASE AskAgain(q)
    BY <2>4 DEF AskAgain, Others
  <2>5. CASE GiveUp(q)
    <3>1. task' = [task EXCEPT ![q] = [task[q] EXCEPT !.pc = "moving", !.empty = FALSE]] /\ task[q].pc = "failing"
      BY <2>5 DEF GiveUp
    <3>2. [task[q] EXCEPT !.pc = "moving", !.empty = FALSE] \in Task
      OBVIOUS
    <3>3. task' \in [Index -> Task] /\ task'[q].pc = "moving" /\ task'[q].broad = task[q].broad
      BY <3>1, <3>2
    <3> QED BY <2>5, <3>1, <3>3 DEF GiveUp, Others
  <2> QED BY <2>1, <2>2, <2>3, <2>4, <2>5
<1>2. ASSUME phase # "raised"
      PROVE  OnTrack(q)'
  BY <1>1, <1>2 DEF Settling, OnTrack
<1>3. \A kind \in Kinds : Billed(q, kind)' <=> Billed(q, kind)
  BY <1>1 DEF Billed, Settled, Holding
<1>4. Charged' = Charged
  BY <1>1, <1>3, SameBill
<1> QED BY <1>1, <1>2, <1>4 DEF Accounted

(* A query that ends its chain moves from the ones under way to the settled ones. *)
LEMMA SettledAccounted ==
  ASSUME SettlingInv, NEW q \in Index, NEW result \in {"done", "empty", "failed"},
         QueriesOK', Others(q), Holding(task[q]), phase' = phase, searches' = searches,
         task'[q].pc = "done" \/ (task'[q].pc = "queued" /\ task'[q].broad /\ ~task[q].broad),
         status'[q][Kind(task[q])] = result,
         phase # "raised" =>
           /\ task[q].broad => status'[q].planned = status[q].planned
           /\ ~task[q].broad => status'[q].broadened =
                 (IF task'[q].pc = "queued" THEN "planned" ELSE "absent")
  PROVE  Accounted(q)
<1>1. ASSUME phase # "raised"
      PROVE  OnTrack(q)' /\ Charged' = Charged
  <2>1. /\ OnTrack(q) /\ task[q].pc # "done" /\ task[q].broad \in BOOLEAN
        /\ status[q] \in QueryRecord
        /\ status'[q] \in QueryRecord
    BY <1>1 DEF SettlingInv, Settling, QueriesOK, Task, Holding
  <2>2. CASE task[q].broad
    <3>1. /\ Kind(task[q]) = "broadened" /\ task'[q].pc = "done"
          /\ status[q].broadened = "planned" /\ status'[q].broadened = result
          /\ status[q].planned # "planned" /\ status'[q].planned = status[q].planned
      BY <1>1, <2>1, <2>2 DEF OnTrack, Kind
    <3>2. OnTrack(q)'
      BY <3>1 DEF OnTrack
    <3>3. ~Holding(task'[q])
      BY <3>1 DEF Holding
    <3>4. \A kind \in Kinds : status'[q][kind] \in Settled <=>
                                 status[q][kind] \in Settled \/ kind = Kind(task[q])
      BY <3>1 DEF Settled, Kinds
    <3> QED BY <3>2, <3>3, <3>4, SameBill DEF Billed, Settled, Holding
  <2>3. CASE ~task[q].broad
    <3>1. /\ Kind(task[q]) = "planned"
          /\ status[q].planned = "planned" /\ status'[q].planned = result
          /\ status[q].broadened = "absent"
          /\ status'[q].broadened = (IF task'[q].pc = "queued" THEN "planned" ELSE "absent")
      BY <1>1, <2>1, <2>3 DEF OnTrack, Kind
    <3>2. OnTrack(q)'
      BY <3>1 DEF OnTrack, Kind
    <3>3. ~Holding(task'[q])
      BY DEF Holding
    <3>4. \A kind \in Kinds : status'[q][kind] \in Settled <=>
                                 status[q][kind] \in Settled \/ kind = Kind(task[q])
      BY <3>1 DEF Settled, Kinds
    <3> QED BY <3>2, <3>3, <3>4, SameBill DEF Billed, Settled, Holding
  <2> QED BY <2>1, <2>2, <2>3
<1> QED BY <1>1 DEF Accounted

LEMMA ReceiveAccounted ==
  ASSUME SettlingInv, NEW q \in Index, Receive(q), Holding(task[q]) PROVE Accounted(q)
<1>1. /\ task \in [Index -> Task] /\ status \in [Index -> QueryRecord]
      /\ phase \in Phases /\ searches \in Nat
      /\ phase # "raised" => OnTrack(q)
      /\ Kind(task[q]) = (IF task[q].broad THEN "broadened" ELSE "planned")
  BY DEF SettlingInv, Settling, QueriesOK, Kind
<1>2. /\ phase' = phase /\ searches' = searches
      /\ task' = [task EXCEPT ![q] = Dead(@)]
      /\ status' = [status EXCEPT ![q][Kind(task[q])] = "done"]
  BY DEF Receive
<1>3. task'[q] \in Task /\ task'[q].pc = "done"
  BY <1>1, <1>2 DEF Task, Dead
<1>4. status'[q] = [status[q] EXCEPT ![Kind(task[q])] = "done"]
  BY <1>1, <1>2
<1>5. status'[q] \in QueryRecord
  BY <1>1, <1>4 DEF QueryStatus, QueryRecord
<1>6. task' \in [Index -> Task] /\ \A r \in Index \ {q} : task'[r] = task[r]
  BY <1>1, <1>2, <1>3
<1>7. QueriesOK' /\ Others(q)
  BY <1>1, <1>2, <1>5, <1>6 DEF QueriesOK, Others
<1>8. phase # "raised" =>
         /\ task[q].broad => status'[q].planned = status[q].planned
         /\ ~task[q].broad => status'[q].broadened =
               (IF task'[q].pc = "queued" THEN "planned" ELSE "absent")
  BY <1>1, <1>3, <1>4 DEF OnTrack, Holding
<1>9. status'[q][Kind(task[q])] = "done"
  BY <1>1, <1>4 DEF QueryRecord
<1> DEFINE result == "done"
<1>10. result \in {"done", "empty", "failed"} /\ status'[q][Kind(task[q])] = result
  BY <1>9
<1> HIDE DEF result
<1> QED BY <1>2, <1>3, <1>7, <1>8, <1>10, SettledAccounted

(* The same for the end of a chain, and a search that goes on to the next one.    *)
LEMMA TryNextAccounted ==
  ASSUME SettlingInv, NEW q \in Index, TryNext(q)
  PROVE  Accounted(q)
<1> DEFINE t == task[q]
<1>0. Holding(task[q]) /\ searches' = searches
  BY DEF TryNext, Holding
<1>1. /\ task \in [Index -> Task] /\ status \in [Index -> QueryRecord]
      /\ phase \in Phases /\ searches \in Nat
      /\ phase # "raised" => OnTrack(q)
      /\ Kind(task[q]) = (IF task[q].broad THEN "broadened" ELSE "planned")
  BY DEF SettlingInv, Settling, QueriesOK, Kind
<1>2. t \in Task /\ t.broad = task[q].broad /\ t.pc = task[q].pc /\ t.todo = task[q].todo
  BY <1>1 DEF Task
<1> HIDE DEF t
<1>3. CASE t.todo # {}
  <2>1. phase' = phase /\ status' = status
    BY <1>3 DEF TryNext, t
  <2>2. PICK i \in t.todo : task' = [task EXCEPT ![q] = [t EXCEPT !.pc = "lookup", !.todo = @ \ {i}, !.at = i]]
    BY <1>3 DEF TryNext, Ask, t
  <2>3. t.todo \subseteq DOMAIN Chain /\ i \in Nat
    BY RoundAssumption, LenProperties, <1>2 DEF Task
  <2>4. task'[q] \in Task /\ task'[q].pc = "lookup" /\ task'[q].broad = task[q].broad
    BY <1>1, <1>2, <2>2, <2>3 DEF Task, Busy
  <2>5. task' \in [Index -> Task] /\ \A r \in Index \ {q} : task'[r] = task[r]
    BY <1>1, <2>2, <2>4
  <2>6. QueriesOK' /\ Others(q)
    BY <1>0, <1>1, <2>1, <2>5 DEF QueriesOK, Others
  <2>7. phase # "raised" => OnTrack(q)'
    BY <1>0, <1>1, <2>1, <2>4 DEF OnTrack, Holding, Kind
  <2>8. \A kind \in Kinds : Billed(q, kind)' <=> Billed(q, kind)
    BY <1>0, <2>1, <2>4 DEF Billed, Settled, Holding, Kind
  <2> QED BY <1>0, <2>1, <2>6, <2>7, <2>8, SameBill DEF Accounted
<1>4. CASE t.todo = {}
  <2>0. EndOfChain(q, t)
    BY <1>4 DEF TryNext, t
  <2>1. CASE AllRejected
    <3>1. phase' = "raised" /\ task' = [task EXCEPT ![q] = Dead(t)] /\ status' = status
      BY <2>0, <2>1 DEF EndOfChain
    <3>2. Dead(t) \in Task
      BY <1>2 DEF Task, Dead
    <3>3. QueriesOK' /\ Others(q)
      BY <1>0, <1>1, <3>1, <3>2 DEF QueriesOK, Others, Phases
    <3> QED BY <3>1, <3>3 DEF Accounted
  <2>2. CASE ~AllRejected
    <3> DEFINE result == IF t.empty THEN "empty" ELSE "failed"
               again  == Broadened(q, t)
               s      == IF t.broad THEN [status[q] EXCEPT !.broadened = result]
                         ELSE [planned |-> result, broadened |-> IF again THEN "planned" ELSE "absent"]
               u      == IF again THEN [NewTask EXCEPT !.broad = TRUE] ELSE Dead(t)
    <3>1. /\ phase' = phase
          /\ status' = [status EXCEPT ![q] = s]
          /\ task' = [task EXCEPT ![q] = u]
      BY <2>0, <2>2 DEF EndOfChain
    <3>2. result \in {"empty", "failed"} /\ (again => ~t.broad)
      BY DEF Broadened
    <3>3. u \in Task /\ (IF again THEN u.pc = "queued" /\ u.broad ELSE u.pc = "done")
      BY <1>2 DEF Task, Dead, NewTask
    <3> HIDE DEF result, again, u
    <3>4. s \in QueryRecord
      BY <1>1, <3>2 DEF QueryStatus, QueryRecord
    <3>5. /\ s[Kind(task[q])] = result
          /\ task[q].broad => s.planned = status[q].planned
          /\ ~task[q].broad => s.broadened = IF u.pc = "queued" THEN "planned" ELSE "absent"
      BY <1>1, <1>2, <3>3 DEF QueryRecord
    <3> HIDE DEF s
    <3>6. task'[q] = u /\ status'[q] = s
      BY <1>1, <3>1
    <3>7. QueriesOK' /\ Others(q)
      BY <1>0, <1>1, <3>1, <3>3, <3>4 DEF QueriesOK, Others
    <3>8. u.pc = "done" \/ (u.pc = "queued" /\ u.broad /\ ~task[q].broad)
      <4>1. CASE again
        BY <1>2, <3>2, <3>3, <4>1
      <4>2. CASE ~again
        <5>1. u.pc = "done"
          BY <3>3, <4>2
        <5> QED BY <5>1
      <4> QED BY <4>1, <4>2
    <3> QED BY <1>0, <3>1, <3>2, <3>5, <3>6, <3>7, <3>8, SettledAccounted
  <2> QED BY <2>1, <2>2
<1> QED BY <1>3, <1>4

LEMMA NotJsonAccounted ==
  ASSUME SettlingInv, NEW q \in Index, NotJson(q) PROVE Accounted(q)
<1> USE DEF SettlingInv, QueriesOK, Task, NotJson, Dead, Phases
<1>1. QueriesOK' /\ Others(q) /\ phase' = "raised"
  BY DEF Others
<1> QED BY <1>1 DEF Accounted

LEMMA RunAccounted ==
  ASSUME SettlingInv, NEW q \in Index, Run(q)
  PROVE  Accounted(q) /\ task[q].pc # "done" /\ phase' \in {phase, "raised"}
<1>1. CASE SkipQuery(q)
  BY <1>1, SkipAccounted DEF SkipQuery
<1>2. CASE StartQuery(q)
  BY <1>2, StartAccounted DEF StartQuery
<1>3. CASE CacheHit(q)
  BY <1>3, ReceiveAccounted DEF CacheHit, Receive, Holding
<1>4. CASE CacheMiss(q)
  BY <1>4, AskingAccounted DEF CacheMiss
<1>5. CASE Found(q)
  BY <1>5, ReceiveAccounted DEF Found, Receive, Holding
<1>6. CASE FindsNothing(q)
  BY <1>6, AskingAccounted DEF FindsNothing
<1>7. CASE AskFails(q)
  BY <1>7, AskingAccounted DEF AskFails
<1>8. CASE AskAgain(q)
  BY <1>8, AskingAccounted DEF AskAgain
<1>9. CASE GiveUp(q)
  BY <1>9, AskingAccounted DEF GiveUp
<1>10. CASE TryNext(q)
  <2>1. task[q].pc = "moving" /\ phase' \in {phase, "raised"}
    BY <1>10 DEF TryNext, EndOfChain
  <2> QED BY <1>10, <2>1, TryNextAccounted
<1>11. CASE NotJson(q)
  BY <1>11, NotJsonAccounted DEF NotJson
<1> QED BY <1>1, <1>2, <1>3, <1>4, <1>5, <1>6, <1>7, <1>8, <1>9, <1>10, <1>11 DEF Run

(* The meter is read and charged in one step.                                     *)
LEMMA RunWithinBudget ==
  ASSUME SettlingInv, NEW q \in Index, Run(q)
  PROVE  BudgetNeverOvershot'
<1> USE DEF SettlingInv, QueriesOK, BudgetNeverOvershot
<1>1. CASE StartQuery(q)
  BY <1>1, BudgetIsNat DEF StartQuery, SearchesLeft
<1>2. CASE ~StartQuery(q)
  <2>1. searches' = searches
    BY <1>2 DEF Run, SkipQuery, CacheHit, Receive, CacheMiss, Found, FindsNothing, AskFails,
                AskAgain, NotJson, GiveUp, TryNext
  <2> QED BY <2>1
<1> QED BY <1>1, <1>2

LEMMA SettlingStep == SettlingInv /\ [Next]_vars => SettlingInv'
<1> SUFFICES ASSUME SettlingInv, [Next]_vars PROVE SettlingInv'
  OBVIOUS
<1>1. CASE \E q \in Index : Run(q)
  <2>1. PICK q \in Index : Run(q)
    BY <1>1
  <2>2. Accounted(q) /\ task[q].pc # "done" /\ phase' \in {phase, "raised"}
    BY <2>1, RunAccounted
  <2>3. Settling'
    <3>1. SUFFICES ASSUME phase' # "raised"
                   PROVE  (\A r \in Index : OnTrack(r))' /\ searches' = Spent + Cardinality(Charged')
      BY DEF Settling
    <3>2. (\A r \in Index : OnTrack(r)) /\ searches = Spent + Cardinality(Charged)
      BY <2>2, <3>1 DEF Accounted, SettlingInv, Settling
    <3>3. OnTrack(q)' /\ Others(q)
      BY <2>2, <3>1 DEF Accounted
    <3>4. \A r \in Index : OnTrack(r)'
      BY <3>2, <3>3, OthersOnTrack
    <3>5. searches' = Spent + Cardinality(Charged')
      BY <2>2, <3>1, <3>2, ChargedFinite, BudgetIsNat DEF Accounted
    <3> QED BY <3>4, <3>5 DEF Index
  <2>4. QueriesDone'
    BY <2>2 DEF SettlingInv, QueriesDone
  <2> QED BY <2>1, <2>2, <2>3, <2>4, RunWithinBudget DEF SettlingInv, Accounted
<1>2. CASE Gathered
  <2>1. UNCHANGED searching /\ phase # "raised" /\ phase' = "merge" /\ \A q \in Index : task[q].pc = "done"
    BY <1>2 DEF Gathered
  <2> QED BY <2>1 DEF SettlingInv, QueriesOK, Phases, searching, Settling, OnTrack, Charged, Billed,
                      Holding, Kind, Settled, QueriesDone, BudgetNeverOvershot
<1>3. CASE ProcessResults
  <2>1. /\ UNCHANGED searching /\ phase \notin {"search", "raised"} /\ phase' \notin {"search", "raised"}
        /\ phase' \in Phases
    BY <1>3 DEF ProcessResults, MergeHit, AllMerged, SelectPage, NextSubquestion, AllSelected,
                FetchPage, AllFetched, AssignOrigin, Finish, Phases
  <2> QED BY <2>1 DEF SettlingInv, QueriesOK, searching, Settling, OnTrack, Charged, Billed,
                      Holding, Kind, Settled, QueriesDone, BudgetNeverOvershot
<1>4. CASE UNCHANGED vars
  BY <1>4 DEF vars, searching, SettlingInv, QueriesOK, Settling, OnTrack, Charged, Billed,
              Holding, Kind, Settled, QueriesDone, BudgetNeverOvershot
<1> QED BY <1>1, <1>2, <1>3, <1>4 DEF Next, Progress

THEOREM SettlingInductive == Spec => []SettlingInv
BY SettlingInit, SettlingStep, PTL DEF Spec

(* BudgetNeverOvershot, for any number of concurrent queries and any limit: the    *)
(* searches charged never exceed the budget, unless the run began beyond it.       *)
THEOREM BudgetNeverOvershotHolds == Spec => []BudgetNeverOvershot
<1>1. SettlingInv => BudgetNeverOvershot
  BY DEF SettlingInv
<1> QED BY <1>1, SettlingInductive, PTL

(* EveryQuerySettled: when the search node ends, nothing it planned or broadened   *)
(* is left unsettled, and it was charged once for each query that was carried out. *)
THEOREM EveryQuerySettledHolds == Spec => []EveryQuerySettled
<1>1. SettlingInv => EveryQuerySettled
  <2> SUFFICES ASSUME SettlingInv, phase \notin {"search", "raised"}
               PROVE  /\ \A q \in Index : status[q].planned # "planned" /\ status[q].broadened # "planned"
                      /\ searches = Spent + Cardinality(SettledQueries)
    BY DEF EveryQuerySettled
  <2>1. \A q \in Index : OnTrack(q) /\ task[q].pc = "done"
    BY DEF SettlingInv, Settling, QueriesDone
  <2>2. Charged = SettledQueries
    BY <2>1 DEF Charged, Billed, Holding, SettledQueries
  <2> QED BY <2>1, <2>2 DEF SettlingInv, Settling, OnTrack
<1> QED BY <1>1, SettlingInductive, PTL

-----------------------------------------------------------------------------
(* What a round costs the run.  A query is skipped only when the budget is used   *)
(* up, and the meter never goes back.                                             *)
Skips == \A q \in Index, kind \in Kinds : status[q][kind] = "skipped_budget" => searches >= MaxSearches

LEMMA SkipsInit == Init => Skips
BY DEF Init, Skips, Kinds

LEMMA RunKeepsSkips ==
  ASSUME SettlingInv, Skips, NEW q \in Index, Run(q)
  PROVE  Skips'
<1>1. Others(q) /\ QueriesOK'
  BY RunAccounted DEF Accounted
<1>2. searches' \in Nat /\ searches' >= searches
  BY DEF SettlingInv, QueriesOK, Run, SkipQuery, StartQuery, CacheHit, Receive, CacheMiss, Found,
         FindsNothing, AskFails, AskAgain, NotJson, GiveUp, TryNext
<1>3. \A r \in Index \ {q}, kind \in Kinds :
          status'[r][kind] = "skipped_budget" => searches' >= MaxSearches
  BY <1>1, <1>2, BudgetIsNat DEF Others, Skips, SettlingInv, QueriesOK
<1>4. \A kind \in Kinds : status'[q][kind] = "skipped_budget" =>
          status[q][kind] = "skipped_budget" \/ searches' >= MaxSearches
  <2>1. status[q] \in QueryRecord /\ Kind(task[q]) \in Kinds
    BY DEF SettlingInv, QueriesOK, Kind, Kinds
  <2>2. CASE SkipQuery(q)
    BY <2>2, BudgetIsNat DEF SkipQuery, SearchesLeft, SettlingInv, QueriesOK
  <2>3. CASE UNCHANGED status
    BY <2>3
  <2>4. CASE StartQuery(q) /\ status' = [status EXCEPT ![q][Kind(task[q])] = "failed"]
    BY <2>1, <2>4 DEF SettlingInv, QueriesOK, QueryRecord, Kinds
  <2>5. CASE Receive(q)
    BY <2>1, <2>5 DEF Receive, SettlingInv, QueriesOK, QueryRecord, Kinds
  <2>6. CASE EndOfChain(q, task[q])
    BY <2>1, <2>6 DEF EndOfChain, SettlingInv, QueriesOK, QueryRecord, Kinds
  <2> QED BY <2>2, <2>3, <2>4, <2>5, <2>6
          DEF Run, StartQuery, CacheHit, CacheMiss, Found, FindsNothing, AskFails, AskAgain, NotJson,
              GiveUp, TryNext
<1>5. \A kind \in Kinds : status[q][kind] = "skipped_budget" => searches' >= MaxSearches
  BY <1>2, BudgetIsNat DEF Skips, SettlingInv, QueriesOK
<1> QED BY <1>3, <1>4, <1>5 DEF Skips, Index

LEMMA SkipsStep == Skips /\ SettlingInv /\ [Next]_vars => Skips'
<1> SUFFICES ASSUME Skips, SettlingInv, [Next]_vars PROVE Skips'
  OBVIOUS
<1>1. CASE \E q \in Index : Run(q)
  BY <1>1, RunKeepsSkips
<1>2. CASE UNCHANGED searching
  BY <1>2 DEF searching, Skips, Index
<1>3. UNCHANGED searching \/ \E q \in Index : Run(q)
  BY DEF Next, Progress, Gathered, ProcessResults, MergeHit, AllMerged, SelectPage, NextSubquestion,
         AllSelected, FetchPage, AllFetched, AssignOrigin, Finish, vars
<1> QED BY <1>1, <1>2, <1>3

(* What ResearchGraph's search node (Charges) takes a round of planned queries to *)
(* cost: one search each while the budget lasts, and at most one more for a       *)
(* broadened text.                                                                *)
Least(a, b) == IF a <= b THEN a ELSE b
LeftAtStart == IF Spent < MaxSearches THEN MaxSearches - Spent ELSE 0
RoundCharges == Least(LeftAtStart, Len(Queries))..Least(LeftAtStart, 2 * Len(Queries))
ChargesAsPlanned == phase \notin {"search", "raised"} => searches - Spent \in RoundCharges

LEMMA KindsCounted ==
  /\ IsFiniteSet(Index \X Kinds) /\ Cardinality(Index \X Kinds) = 2 * Len(Queries)
  /\ Cardinality(Index \X {"planned"}) = Len(Queries)
<1>1. Len(Queries) \in Nat
  BY RoundAssumption, LenProperties
<1>2. IsFiniteSet(Index) /\ Cardinality(Index) = Len(Queries)
  BY <1>1, FS_Interval DEF Index
<1>3. IsFiniteSet({"planned"}) /\ Cardinality({"planned"}) = 1
  BY FS_Singleton
<1>4. Kinds = {"planned"} \cup {"broadened"} /\ "broadened" \notin {"planned"}
  BY DEF Kinds
<1>5. IsFiniteSet(Kinds) /\ Cardinality(Kinds) = 2
  BY <1>3, <1>4, FS_AddElement
<1>6. IsFiniteSet(Index \X Kinds) /\ Cardinality(Index \X Kinds) = Len(Queries) * 2
  <2>1. IsFiniteSet(Index \X Kinds) /\ Cardinality(Index \X Kinds) = Cardinality(Index) * Cardinality(Kinds)
    BY <1>2, <1>5, FS_Product, Zenon
  <2> QED BY <1>2, <1>5, <2>1
<1>7. Cardinality(Index \X {"planned"}) = Len(Queries) * 1
  BY <1>2, <1>3, FS_Product
<1> QED BY <1>1, <1>6, <1>7

(* A search node that ends without raising has charged no less and no more than   *)
(* the research loop reckons with when it plans a round, whatever the providers   *)
(* answered and in whatever order the concurrent queries ran.                     *)
THEOREM ChargesAsPlannedHolds == Spec => []ChargesAsPlanned
<1>1. SettlingInv /\ Skips => ChargesAsPlanned
  <2> SUFFICES ASSUME SettlingInv, Skips, phase \notin {"search", "raised"}
               PROVE  searches - Spent \in RoundCharges
    BY DEF ChargesAsPlanned
  <2>1. \A q \in Index : OnTrack(q) /\ task[q].pc = "done"
    BY DEF SettlingInv, Settling, QueriesDone
  <2>2. Charged = SettledQueries
    BY <2>1 DEF Charged, Billed, Holding, SettledQueries
  <2>3. searches = Spent + Cardinality(SettledQueries) /\ Cardinality(SettledQueries) \in Nat
    BY <2>2, ChargedFinite DEF SettlingInv, Settling
  <2>4. Len(Queries) \in Nat
    BY RoundAssumption, LenProperties
  <2>5. Cardinality(SettledQueries) <= 2 * Len(Queries)
    BY KindsCounted, FS_Subset DEF SettledQueries
  <2>6. Cardinality(SettledQueries) <= LeftAtStart
    BY <2>3, BudgetIsNat DEF SettlingInv, BudgetNeverOvershot, LeftAtStart
  <2>7. CASE \E q \in Index, kind \in Kinds : status[q][kind] = "skipped_budget"
    <3>1. searches >= MaxSearches
      BY <2>7 DEF Skips
    <3>2. Cardinality(SettledQueries) >= LeftAtStart
      BY <2>3, <3>1, BudgetIsNat DEF LeftAtStart
    <3> QED BY <2>3, <2>4, <2>5, <2>6, <3>2, BudgetIsNat DEF RoundCharges, Least, LeftAtStart
  <2>8. CASE \A q \in Index, kind \in Kinds : status[q][kind] # "skipped_budget"
    <3>1. \A q \in Index : status[q].planned \in Settled
      BY <2>1, <2>8 DEF OnTrack, SettlingInv, QueriesOK, QueryRecord, QueryStatus, Settled, Kinds
    <3>2. Index \X {"planned"} \subseteq SettledQueries
      BY <3>1 DEF SettledQueries, Kinds
    <3>3. IsFiniteSet(SettledQueries)
      BY <2>2, ChargedFinite
    <3>4. Len(Queries) <= Cardinality(SettledQueries)
      BY <3>2, <3>3, KindsCounted, FS_Subset
    <3> QED BY <2>3, <2>4, <2>5, <2>6, <3>4, BudgetIsNat DEF RoundCharges, Least, LeftAtStart
  <2> QED BY <2>7, <2>8
<1> QED BY <1>1, SettlingInductive, SkipsInit, SkipsStep, PTL DEF Spec

-----------------------------------------------------------------------------
(* The documents.  A step adds to what is known of a document and never takes     *)
(* away, keeps the hash of what was read, and touches no document that has its     *)
(* origin.                                                                        *)
DocsOK ==
    /\ docs \in Seq(Document)
    /\ pending \in Seq(Hit)
    /\ found \subseteq [url : DOMAIN Page, query : Index]
    /\ chosen \in Seq(Nat) /\ \A k \in DOMAIN chosen : chosen[k] \in DOMAIN docs
    /\ fetching \subseteq DOMAIN docs

Waiting(hit) == \E k \in DOMAIN pending : pending[k].url = hit.url /\ pending[k].query = hit.query

HitsInv ==
    /\ DocsOK
    /\ OnePerPage(docs)
    /\ \A hit \in found : Page[hit.url] = None \/ Known(hit) \/ Waiting(hit)
    /\ phase \in {"select", "fetch", "origins", "finished"} => pending = <<>>

Grows(old, new) ==
    /\ DOMAIN old \subseteq DOMAIN new
    /\ \A i \in DOMAIN old : /\ new[i].page = old[i].page
                             /\ old[i].subqs \subseteq new[i].subqs
                             /\ old[i].queries \subseteq new[i].queries

LEMMA PageKnown ==
  ASSUME NEW u \in DOMAIN Page, Page[u] # None
  PROVE  Page[u] \in Pages
BY RoundAssumption

LEMMA MergedShape ==
  ASSUME NEW held \in Seq(Document), NEW hit \in Hit
  PROVE  LET new == Merged(held, hit) IN
         /\ new \in Seq(Document)
         /\ Grows(held, new)
         /\ \A i \in DOMAIN held : /\ new[i].selected = held[i].selected
                                   /\ new[i].origin = held[i].origin
                                   /\ new[i].indexed = held[i].indexed
                                   /\ new[i].hash = held[i].hash
         /\ \A i \in DOMAIN new \ DOMAIN held : new[i].origin = 0 /\ ~new[i].selected /\ ~new[i].indexed
         /\ OnePerPage(held) => OnePerPage(new)
         /\ Page[hit.url] # None =>
              \E i \in DOMAIN new : /\ new[i].page = Page[hit.url]
                                    /\ Queries[hit.query] \in new[i].subqs
                                    /\ <<hit.query, hit.kind>> \in new[i].queries
<1> DEFINE page == Page[hit.url]
           id   == <<hit.query, hit.kind>>
           text == IF hit.full THEN Text[page] ELSE None
           texts == {Text[p] : p \in Pages} \cup {Snippet[p] : p \in Pages} \cup {None}
           all  == ToSet(Queries) \cup ToSet(OpenSubqs)
           new  == Merged(held, hit)
<1>1. /\ hit.url \in DOMAIN Page /\ hit.query \in Index /\ hit.kind \in Kinds
      /\ DOMAIN held = 1..Len(held) /\ Len(held) \in Nat
      /\ \A i \in DOMAIN held : held[i] \in Document
  BY ElementOfSeq, LenProperties DEF Hit
<1>2. Queries[hit.query] \in all /\ id \in Index \X Kinds
  BY <1>1, RoundAssumption, LenProperties DEF Index, ToSet
<1>3. page # None => page \in Pages /\ text \in texts
  BY <1>1, PageKnown
<1>4. CASE page = None
  <2>1. new = held
    BY <1>4 DEF Merged
  <2> QED BY <1>4, <2>1 DEF Grows
<1>5. CASE page # None /\ \E i \in DOMAIN held : held[i].page = page
  <2> DEFINE doc(i) == IF held[i].page # page THEN held[i]
                       ELSE [held[i] EXCEPT !.subqs = @ \cup {Queries[hit.query]},
                                            !.queries = @ \cup {id},
                                            !.text = IF @ = None THEN text ELSE @]
  <2>1. new = [i \in DOMAIN held |-> doc(i)]
    BY <1>5 DEF Merged
  <2>2. \A i \in DOMAIN held : /\ doc(i) \in Document
                               /\ doc(i).page = held[i].page
                               /\ held[i].subqs \subseteq doc(i).subqs
                               /\ held[i].queries \subseteq doc(i).queries
                               /\ doc(i).selected = held[i].selected
                               /\ doc(i).origin = held[i].origin
                               /\ doc(i).indexed = held[i].indexed
                               /\ doc(i).hash = held[i].hash
    BY <1>1, <1>2, <1>3, <1>5 DEF Document
  <2>3. \A i \in DOMAIN held : held[i].page = page =>
            Queries[hit.query] \in doc(i).subqs /\ id \in doc(i).queries
    BY <1>1 DEF Document
  <2> HIDE DEF doc
  <2>4. new \in Seq(Document) /\ DOMAIN new = DOMAIN held
    BY <1>1, <2>1, <2>2, IsASeq
  <2>5. \A i \in DOMAIN held : new[i] = doc(i)
    BY <2>1
  <2> HIDE DEF new
  <2>6. Grows(held, new)
    BY <2>2, <2>4, <2>5 DEF Grows
  <2>7. OnePerPage(held) => OnePerPage(new)
    BY <2>2, <2>4, <2>5 DEF OnePerPage
  <2>8. \E i \in DOMAIN new : /\ new[i].page = page
                              /\ Queries[hit.query] \in new[i].subqs
                              /\ id \in new[i].queries
    BY <1>5, <2>2, <2>3, <2>4, <2>5
  <2> QED BY <2>2, <2>4, <2>5, <2>6, <2>7, <2>8 DEF new
<1>6. CASE page # None /\ ~\E i \in DOMAIN held : held[i].page = page
  <2> DEFINE doc == [page |-> page, subqs |-> {Queries[hit.query]}, queries |-> {id},
                     text |-> text, hash |-> None, selected |-> FALSE, origin |-> 0, indexed |-> FALSE]
  <2>1. new = Append(held, doc)
    BY <1>6 DEF Merged
  <2>2. doc \in Document
    BY <1>2, <1>3, <1>6 DEF Document
  <2>3. /\ doc.page = page /\ Queries[hit.query] \in doc.subqs /\ id \in doc.queries
        /\ ~doc.selected /\ doc.origin = 0 /\ ~doc.indexed
    OBVIOUS
  <2> HIDE DEF doc
  <2>4. /\ new \in Seq(Document) /\ DOMAIN new = 1..(Len(held) + 1)
        /\ \A i \in DOMAIN held : new[i] = held[i]
        /\ new[Len(held) + 1] = doc
    BY <1>1, <2>1, <2>2, AppendProperties
  <2>5. \A i \in DOMAIN new : i \in DOMAIN held \/ i = Len(held) + 1
    BY <1>1, <2>4
  <2>6. DOMAIN held \subseteq DOMAIN new /\ Len(held) + 1 \in DOMAIN new
    BY <1>1, <2>4
  <2> HIDE DEF new
  <2>7. Grows(held, new)
    BY <2>4, <2>6 DEF Grows
  <2>8. \A i \in DOMAIN new \ DOMAIN held : new[i].origin = 0 /\ ~new[i].selected /\ ~new[i].indexed
    BY <2>3, <2>4, <2>5
  <2>9. OnePerPage(held) => OnePerPage(new)
    BY <1>6, <2>3, <2>4, <2>5 DEF OnePerPage
  <2>10. \E i \in DOMAIN new : /\ new[i].page = page
                               /\ Queries[hit.query] \in new[i].subqs
                               /\ id \in new[i].queries
    BY <2>3, <2>4, <2>6
  <2> QED BY <2>4, <2>7, <2>8, <2>9, <2>10 DEF new
<1> QED BY <1>4, <1>5, <1>6

LEMMA KnownGrows ==
  ASSUME Grows(docs, docs'), NEW hit, Known(hit)
  PROVE  Known(hit)'
BY DEF Grows, Known, Kinds

LEMMA HitsInit == Init => HitsInv
<1> SUFFICES ASSUME Init PROVE HitsInv
  OBVIOUS
<1>1. docs \in Seq(Document) /\ OnePerPage(docs)
  BY RoundAssumption DEF Init, Coherent
<1>2. pending \in Seq(Hit) /\ chosen \in Seq(Nat) /\ DOMAIN chosen = {}
  BY EmptySeq DEF Init
<1> QED BY <1>1, <1>2 DEF Init, HitsInv, DocsOK

(* The hits of a search queue for the merge behind those that came before.        *)
LEMMA ReceiveKeeps ==
  ASSUME HitsInv, NEW q \in Index, Receive(q), phase = "search" \/ phase = "raised"
  PROVE  HitsInv'
<1> DEFINE more == [i \in DOMAIN HitsOf[q] |-> [url |-> HitsOf[q][i].url, full |-> HitsOf[q][i].full,
                                                query |-> q, kind |-> Kind(task[q])]]
<1>1. /\ pending' = pending \o more
      /\ found' = found \cup {[url |-> HitsOf[q][i].url, query |-> q] : i \in DOMAIN HitsOf[q]}
      /\ docs' = docs /\ chosen' = chosen /\ fetching' = fetching /\ phase' = phase
  BY DEF Receive, processing
<1>2. /\ HitsOf[q] \in Seq(Hits)
      /\ DOMAIN HitsOf[q] = 1..Len(HitsOf[q]) /\ Len(HitsOf[q]) \in Nat
      /\ \A i \in DOMAIN HitsOf[q] : HitsOf[q][i] \in Hits
  BY RoundAssumption, ElementOfSeq, LenProperties
<1>3. Kind(task[q]) \in Kinds
  BY DEF Kind, Kinds
<1>4. more \in Seq(Hit) /\ DOMAIN more = DOMAIN HitsOf[q] /\ Len(more) = Len(HitsOf[q])
  <2>1. \A i \in DOMAIN HitsOf[q] :
           [url |-> HitsOf[q][i].url, full |-> HitsOf[q][i].full, query |-> q, kind |-> Kind(task[q])] \in Hit
    BY <1>2, <1>3 DEF Hit, Hits
  <2>2. more \in Seq(Hit)
    BY <1>2, <2>1, IsASeq
  <2> QED BY <1>2, <2>2, LenProperties
<1>5. \A k \in DOMAIN more : more[k].url = HitsOf[q][k].url /\ more[k].query = q
  BY <1>4
<1> HIDE DEF more
<1>6. pending \in Seq(Hit) /\ DOMAIN pending = 1..Len(pending) /\ Len(pending) \in Nat
  BY LenProperties DEF HitsInv, DocsOK
<1>7. /\ pending' \in Seq(Hit) /\ DOMAIN pending' = 1..(Len(pending) + Len(more))
      /\ \A k \in DOMAIN pending : pending'[k] = pending[k]
      /\ \A k \in DOMAIN more : pending'[Len(pending) + k] = more[k]
  <2>1. /\ pending \o more \in Seq(Hit)
        /\ Len(pending \o more) = Len(pending) + Len(more)
        /\ \A k \in 1..(Len(pending) + Len(more)) :
              (pending \o more)[k] = IF k <= Len(pending) THEN pending[k] ELSE more[k - Len(pending)]
    BY <1>4, <1>6, ConcatProperties
  <2>2. DOMAIN (pending \o more) = 1..(Len(pending) + Len(more))
    BY <2>1, LenProperties
  <2>3. DOMAIN more = 1..Len(more) /\ Len(more) \in Nat
    BY <1>2, <1>4
  <2>4. ASSUME NEW k \in DOMAIN more
        PROVE  (pending \o more)[Len(pending) + k] = more[k]
    <3>1. /\ Len(pending) + k \in 1..(Len(pending) + Len(more))
          /\ ~(Len(pending) + k <= Len(pending)) /\ Len(pending) + k - Len(pending) = k
      BY <1>6, <2>3
    <3> QED BY <2>1, <3>1
  <2>5. ASSUME NEW k \in DOMAIN pending
        PROVE  (pending \o more)[k] = pending[k]
    BY <1>6, <2>1, <2>3
  <2> QED BY <1>1, <2>1, <2>2, <2>4, <2>5
<1>8. \A k \in DOMAIN pending : k \in DOMAIN pending'
  BY <1>2, <1>4, <1>6, <1>7
<1>9. \A k \in DOMAIN more : Len(pending) + k \in DOMAIN pending'
  BY <1>2, <1>4, <1>6, <1>7
<1>10. found' \subseteq [url : DOMAIN Page, query : Index]
  BY <1>1, <1>2 DEF HitsInv, DocsOK, Hits
<1>11. ASSUME NEW hit \in found'
       PROVE  Page[hit.url] = None \/ Known(hit)' \/ Waiting(hit)'
  <2>1. CASE hit \in found
    <3>1. Known(hit) => Known(hit)'
      BY <1>1 DEF Known, Kinds
    <3>2. Waiting(hit) => Waiting(hit)'
      BY <1>7, <1>8 DEF Waiting
    <3> QED BY <2>1, <3>1, <3>2 DEF HitsInv
  <2>2. CASE hit \notin found
    <3>1. PICK i \in DOMAIN HitsOf[q] : hit = [url |-> HitsOf[q][i].url, query |-> q]
      BY <1>1, <2>2
    <3>2. /\ Len(pending) + i \in DOMAIN pending'
          /\ pending'[Len(pending) + i].url = hit.url /\ pending'[Len(pending) + i].query = hit.query
      BY <1>4, <1>5, <1>7, <1>9, <3>1
    <3> QED BY <3>2 DEF Waiting
  <2> QED BY <2>1, <2>2
<1> QED BY <1>1, <1>7, <1>10, <1>11 DEF HitsInv, DocsOK

LEMMA MergeHitKeeps ==
  ASSUME HitsInv, MergeHit
  PROVE  HitsInv'
<1> DEFINE first == Head(pending)
<1>1. /\ pending \in Seq(Hit) /\ pending # <<>> /\ docs \in Seq(Document)
      /\ docs' = Merged(docs, first) /\ pending' = Tail(pending)
      /\ phase' = phase /\ phase = "merge" /\ found' = found
      /\ chosen' = chosen /\ fetching' = fetching
  BY DEF HitsInv, DocsOK, MergeHit, searching
<1>2. /\ first \in Hit /\ first = pending[1]
      /\ pending' \in Seq(Hit) /\ DOMAIN pending = 1..Len(pending) /\ Len(pending) \in Nat
      /\ DOMAIN pending' = 1..(Len(pending) - 1)
      /\ \A k \in 1..(Len(pending) - 1) : pending'[k] = pending[k + 1]
  BY <1>1, HeadTailProperties, LenProperties, ElementOfSeq
<1>3. /\ docs' \in Seq(Document) /\ Grows(docs, docs')
      /\ OnePerPage(docs) => OnePerPage(docs')
      /\ Page[first.url] # None =>
              \E i \in DOMAIN docs' : /\ docs'[i].page = Page[first.url]
                                      /\ Queries[first.query] \in docs'[i].subqs
                                      /\ <<first.query, first.kind>> \in docs'[i].queries
  BY <1>1, <1>2, MergedShape
<1>4. ASSUME NEW hit \in found
      PROVE  Page[hit.url] = None \/ Known(hit)' \/ Waiting(hit)'
  <2>1. CASE Page[hit.url] = None
    BY <2>1
  <2>2. CASE Known(hit)
    BY <1>3, <2>2, KnownGrows
  <2>3. CASE Page[hit.url] # None /\ Waiting(hit)
    <3>1. PICK k \in DOMAIN pending : pending[k].url = hit.url /\ pending[k].query = hit.query
      BY <2>3 DEF Waiting
    <3>2. CASE k = 1
      BY <1>2, <1>3, <2>3, <3>1, <3>2 DEF Known, Kinds, Hit
    <3>3. CASE k # 1
      <4>1. k - 1 \in DOMAIN pending' /\ pending'[k - 1] = pending[k]
        BY <1>2, <3>3
      <4> QED BY <3>1, <4>1 DEF Waiting
    <3> QED BY <3>2, <3>3
  <2> QED BY <2>1, <2>2, <2>3 DEF HitsInv
<1>5. (\A k \in DOMAIN chosen : chosen[k] \in DOMAIN docs') /\ fetching \subseteq DOMAIN docs'
  BY <1>3 DEF HitsInv, DocsOK, Grows
<1> QED BY <1>1, <1>2, <1>3, <1>4, <1>5 DEF HitsInv, DocsOK

(* One document takes a new value for the same page.                              *)
Changed(i, d) ==
    /\ i \in DOMAIN docs /\ d \in Document
    /\ d.page = docs[i].page /\ d.subqs = docs[i].subqs /\ d.queries = docs[i].queries
    /\ docs' = [docs EXCEPT ![i] = d]

LEMMA ChangedShape ==
  ASSUME docs \in Seq(Document), NEW i, NEW d, Changed(i, d)
  PROVE  /\ docs' \in Seq(Document) /\ DOMAIN docs' = DOMAIN docs
         /\ docs'[i] = d /\ \A j \in DOMAIN docs \ {i} : docs'[j] = docs[j]
         /\ Grows(docs, docs')
         /\ OnePerPage(docs) => OnePerPage(docs')
<1>1. docs' \in Seq(Document)
  BY ExceptSeq DEF Changed
<1>2. DOMAIN docs' = DOMAIN docs /\ docs'[i] = d /\ \A j \in DOMAIN docs \ {i} : docs'[j] = docs[j]
  BY DEF Changed
<1>3. \A j \in DOMAIN docs : /\ docs'[j].page = docs[j].page
                             /\ docs'[j].subqs = docs[j].subqs
                             /\ docs'[j].queries = docs[j].queries
  BY <1>2 DEF Changed
<1> QED BY <1>1, <1>2, <1>3 DEF Grows, OnePerPage

LEMMA SelectShape ==
  ASSUME docs \in Seq(Document), SelectPage
  PROVE  \E i \in DOMAIN docs :
            /\ Changed(i, [docs[i] EXCEPT !.selected = TRUE])
            /\ ~docs[i].selected /\ chosen' = Append(chosen, i)
<1>1. PICK i \in Unread(OpenSubqs[subq]) :
         docs' = [docs EXCEPT ![i].selected = TRUE] /\ chosen' = Append(chosen, i)
  BY DEF SelectPage
<1>2. i \in DOMAIN docs /\ ~docs[i].selected /\ docs[i] \in Document
  BY ElementOfSeq, LenProperties DEF Unread
<1>3. Changed(i, [docs[i] EXCEPT !.selected = TRUE])
  BY <1>1, <1>2 DEF Changed, Document
<1> QED BY <1>1, <1>2, <1>3

LEMMA FetchShape ==
  ASSUME docs \in Seq(Document), NEW i \in DOMAIN docs, FetchPage(i)
  PROVE  \E text \in {Text[p] : p \in Pages} \cup {Snippet[p] : p \in Pages} :
            Changed(i, [docs[i] EXCEPT !.text = text])
<1>1. PICK text \in {Text[docs[i].page], Snippet[docs[i].page]} : docs' = [docs EXCEPT ![i].text = text]
  BY DEF FetchPage, Fetched
<1>2. docs[i] \in Document /\ docs[i].page \in Pages
  <2>1. docs[i] \in Document
    BY ElementOfSeq, LenProperties
  <2> QED BY <2>1 DEF Document
<1>3. text \in {Text[p] : p \in Pages} \cup {Snippet[p] : p \in Pages}
  BY <1>1, <1>2
<1>4. Changed(i, [docs[i] EXCEPT !.text = text])
  BY <1>1, <1>2, <1>3 DEF Changed, Document
<1> QED BY <1>3, <1>4

(* Every document is read as something: its text, its snippet or its title.        *)
Hashes == {Text[p] : p \in Pages} \cup {Snippet[p] : p \in Pages}
             \cup {Title[p] : p \in Pages} \cup {None}
LEMMA SomethingRead ==
  ASSUME docs \in Seq(Document), NEW i \in DOMAIN docs
  PROVE  ReadAs(i) # None /\ ReadAs(i) \in Hashes
<1>1. docs[i] \in Document
  BY ElementOfSeq, LenProperties
<1>2. /\ docs[i].page \in Pages
      /\ docs[i].text \in {Text[p] : p \in Pages} \cup {Snippet[p] : p \in Pages} \cup {None}
  BY <1>1 DEF Document
<1>3. Title[docs[i].page] # None
  BY <1>2, RoundAssumption
<1> QED BY <1>2, <1>3 DEF ReadAs, Hashes

LEMMA AssignShape ==
  ASSUME HitsInv, AssignOrigin
  PROVE  LET i == Head(chosen) IN
         /\ i \in DOMAIN docs /\ i = chosen[1]
         /\ chosen \in Seq(Nat) /\ chosen # <<>> /\ chosen' = Tail(chosen)
         /\ \E origin \in Origins(i) :
               Changed(i, [docs[i] EXCEPT !.origin = origin, !.hash = ReadAs(i), !.indexed = (Copies(i) = {})])
<1> DEFINE i == Head(chosen)
<1>1. /\ docs \in Seq(Document) /\ chosen \in Seq(Nat) /\ chosen # <<>> /\ chosen' = Tail(chosen)
      /\ \A k \in DOMAIN chosen : chosen[k] \in DOMAIN docs
  BY DEF HitsInv, DocsOK, AssignOrigin
<1>2. i = chosen[1] /\ i \in DOMAIN docs
  BY <1>1, HeadTailProperties, LenProperties
<1>3. \A j \in DOMAIN docs : docs[j] \in Document
  BY <1>1, ElementOfSeq, LenProperties
<1>4. i \in Nat
  BY <1>1, <1>2, LenProperties
<1>5. PICK origin \in Origins(i) : docs' = [docs EXCEPT ![i].origin = origin, ![i].hash = ReadAs(i), ![i].indexed = (Copies(i) = {})]
  BY DEF AssignOrigin
<1>6. origin \in Nat
  BY <1>3, <1>4, <1>5 DEF Origins, Copies, Similar, Document
<1>7. docs' = [docs EXCEPT ![i] = [docs[i] EXCEPT !.origin = origin, !.hash = ReadAs(i), !.indexed = (Copies(i) = {})]]
  BY <1>5, <1>2, <1>3
<1>8. [docs[i] EXCEPT !.origin = origin, !.hash = ReadAs(i), !.indexed = (Copies(i) = {})] \in Document
  <2>1. ReadAs(i) \in Hashes
    BY <1>1, <1>2, SomethingRead
  <2> QED BY <1>2, <1>3, <1>6, <2>1 DEF Document, Hashes
<1>9. Changed(i, [docs[i] EXCEPT !.origin = origin, !.hash = ReadAs(i), !.indexed = (Copies(i) = {})])
  BY <1>2, <1>3, <1>7, <1>8 DEF Changed, Document
<1> QED BY <1>1, <1>2, <1>5, <1>9

LEMMA ChangedKeepsHits ==
  ASSUME HitsInv, NEW i, NEW d, Changed(i, d),
         UNCHANGED <<phase, searching, pending>>,
         chosen' \in Seq(Nat), \A k \in DOMAIN chosen' : chosen'[k] \in DOMAIN docs,
         fetching' \subseteq DOMAIN docs
  PROVE  HitsInv'
<1>1. /\ docs' \in Seq(Document) /\ DOMAIN docs' = DOMAIN docs
      /\ Grows(docs, docs') /\ OnePerPage(docs')
  BY ChangedShape DEF HitsInv, DocsOK
<1>2. \A hit \in found : Known(hit) => Known(hit)'
  BY <1>1, KnownGrows
<1>3. \A hit \in found : Waiting(hit) => Waiting(hit)'
  BY DEF Waiting
<1> QED BY <1>1, <1>2, <1>3 DEF HitsInv, DocsOK, searching

LEMMA RunKeepsHits ==
  ASSUME HitsInv, SettlingInv, NEW q \in Index, Run(q)
  PROVE  HitsInv'
<1>0. phase = "search" \/ phase = "raised"
  BY RunAccounted DEF SettlingInv, QueriesDone
<1>1. CASE Receive(q)
  BY <1>0, <1>1, ReceiveKeeps
<1>2. CASE ~Receive(q)
  <2>1. UNCHANGED <<pending, processing, found>>
    BY <1>2 DEF Run, SkipQuery, StartQuery, CacheHit, CacheMiss, Found, FindsNothing, AskFails,
                AskAgain, NotJson, GiveUp, TryNext
  <2>2. phase' \in {phase, "raised"}
    BY RunAccounted
  <2>3. \A hit \in found : (Known(hit) => Known(hit)') /\ (Waiting(hit) => Waiting(hit)')
    BY <2>1 DEF processing, Known, Kinds, Waiting
  <2> QED BY <1>0, <2>1, <2>2, <2>3 DEF processing, HitsInv, DocsOK
<1> QED BY <1>1, <1>2

LEMMA ProcessKeepsHits ==
  ASSUME HitsInv, ProcessResults
  PROVE  HitsInv'
<1>0. docs \in Seq(Document) /\ chosen \in Seq(Nat) /\ \A k \in DOMAIN chosen : chosen[k] \in DOMAIN docs
  BY DEF HitsInv, DocsOK
<1>1. CASE MergeHit
  BY <1>1, MergeHitKeeps
<1>2. CASE SelectPage
  <2>1. PICK i \in DOMAIN docs :
            /\ Changed(i, [docs[i] EXCEPT !.selected = TRUE]) /\ chosen' = Append(chosen, i)
    BY <1>0, <1>2, SelectShape
  <2>2. i \in Nat
    BY <1>0, LenProperties
  <2>3. /\ chosen' \in Seq(Nat)
        /\ \A k \in DOMAIN chosen' : chosen'[k] = i \/ (k \in DOMAIN chosen /\ chosen'[k] = chosen[k])
    <3>1. /\ chosen' \in Seq(Nat) /\ Len(chosen') = Len(chosen) + 1 /\ chosen'[Len(chosen) + 1] = i
          /\ \A k \in 1..Len(chosen) : chosen'[k] = chosen[k]
      BY <1>0, <2>1, <2>2, AppendProperties
    <3>2. /\ DOMAIN chosen = 1..Len(chosen) /\ Len(chosen) \in Nat
          /\ DOMAIN chosen' = 1..(Len(chosen) + 1)
      BY <1>0, <3>1, LenProperties
    <3> QED BY <3>1, <3>2
  <2> QED BY <1>0, <1>2, <2>1, <2>3, ChangedKeepsHits DEF SelectPage, searching, HitsInv, DocsOK
<1>3. CASE \E i \in fetching : FetchPage(i)
  <2>1. PICK i \in fetching : FetchPage(i)
    BY <1>3
  <2>2. PICK text : Changed(i, [docs[i] EXCEPT !.text = text])
    BY <1>0, <2>1, FetchShape DEF HitsInv, DocsOK
  <2> QED BY <1>0, <2>1, <2>2, ChangedKeepsHits DEF FetchPage, searching, HitsInv, DocsOK
<1>4. CASE AssignOrigin
  <2> DEFINE i == Head(chosen)
  <2>1. PICK origin : Changed(i, [docs[i] EXCEPT !.origin = origin, !.hash = ReadAs(i), !.indexed = (Copies(i) = {})])
    BY <1>4, AssignShape
  <2>2. chosen' = Tail(chosen) /\ chosen # <<>>
    BY <1>4 DEF AssignOrigin
  <2>3. /\ chosen' \in Seq(Nat)
        /\ \A k \in DOMAIN chosen' : k + 1 \in DOMAIN chosen /\ chosen'[k] = chosen[k + 1]
    BY <1>0, <2>2, HeadTailProperties, LenProperties
  <2>4. /\ UNCHANGED <<phase, searching, pending>> /\ fetching' \subseteq DOMAIN docs
        /\ \A k \in DOMAIN chosen' : chosen'[k] \in DOMAIN docs
    BY <1>0, <1>4, <2>3 DEF AssignOrigin, HitsInv, DocsOK
  <2> HIDE DEF i
  <2> QED BY <2>1, <2>3, <2>4, ChangedKeepsHits
<1>5. CASE AllMerged \/ NextSubquestion \/ AllSelected \/ AllFetched \/ Finish
  <2>1. /\ UNCHANGED <<docs, chosen, found, pending>> /\ fetching' \subseteq fetching \cup ToSet(chosen)
        /\ phase' \in {"select", "fetch", "origins", "finished"} => pending = <<>>
    BY <1>5 DEF AllMerged, NextSubquestion, AllSelected, AllFetched, Finish, processing, searching,
                HitsInv
  <2>2. \A hit \in found : (Known(hit) => Known(hit)') /\ (Waiting(hit) => Waiting(hit)')
    BY <2>1 DEF Known, Kinds, Waiting
  <2>3. ToSet(chosen) \subseteq DOMAIN docs
    BY <1>0 DEF ToSet
  <2> QED BY <2>1, <2>2, <2>3 DEF HitsInv, DocsOK
<1> QED BY <1>1, <1>2, <1>3, <1>4, <1>5 DEF ProcessResults

LEMMA HitsStep == HitsInv /\ SettlingInv /\ [Next]_vars => HitsInv'
<1> SUFFICES ASSUME HitsInv, SettlingInv, [Next]_vars PROVE HitsInv'
  OBVIOUS
<1>1. CASE \E q \in Index : Run(q)
  BY <1>1, RunKeepsHits
<1>2. CASE Gathered \/ UNCHANGED vars
  <2>1. UNCHANGED <<docs, chosen, fetching, found, pending>> /\ phase' \in {"merge", phase}
    BY <1>2 DEF Gathered, vars, processing, searching
  <2>2. \A hit \in found : (Known(hit) => Known(hit)') /\ (Waiting(hit) => Waiting(hit)')
    BY <2>1 DEF Known, Kinds, Waiting
  <2> QED BY <2>1, <2>2 DEF HitsInv, DocsOK
<1>3. CASE ProcessResults
  BY <1>3, ProcessKeepsHits
<1> QED BY <1>1, <1>2, <1>3 DEF Next, Progress

THEOREM HitsInductive == Spec => [](HitsInv /\ SettlingInv)
BY HitsInit, HitsStep, SettlingInit, SettlingStep, PTL DEF Spec

(* NoHitLost: in whatever order the searches answered, once their hits are merged   *)
(* a page is one document, and no hit with a usable address has been dropped.       *)
THEOREM NoHitLostHolds == Spec => []NoHitLost
<1>1. HitsInv => NoHitLost
  BY DEF HitsInv, NoHitLost, Waiting
<1> QED BY <1>1, HitsInductive, PTL

-----------------------------------------------------------------------------
(* Origins.  The documents chosen in this round are the ones that are selected    *)
(* and have none yet.                                                             *)
Named ==
    /\ OriginsNamed(docs) /\ CopiesJoined(docs)
    /\ \A i \in DOMAIN docs : docs[i].indexed => docs[i].origin # 0

ChosenOK ==
    /\ \A k \in DOMAIN chosen : docs[chosen[k]].selected /\ docs[chosen[k]].origin = 0
    /\ \A k, l \in DOMAIN chosen : chosen[k] = chosen[l] => k = l
    /\ \A i \in DOMAIN docs : docs[i].selected /\ docs[i].origin = 0 => \E k \in DOMAIN chosen : chosen[k] = i
    /\ phase \in {"select", "fetch", "origins"} \/ chosen = <<>>

FetchingOK ==
    /\ phase = "fetch" \/ fetching = {}
    /\ \A i \in fetching : \E k \in DOMAIN chosen : chosen[k] = i

OriginInv == Named /\ ChosenOK /\ FetchingOK

LEMMA OriginInit == Init => OriginInv
<1> SUFFICES ASSUME Init PROVE OriginInv
  OBVIOUS
<1>1. Named /\ \A i \in DOMAIN docs : docs[i].selected => docs[i].origin # 0
  BY RoundAssumption DEF Init, Coherent, Named
<1>2. chosen = <<>> /\ DOMAIN chosen = {} /\ fetching = {} /\ phase = "search"
  BY EmptySeq DEF Init
<1> QED BY <1>1, <1>2 DEF OriginInv, ChosenOK, FetchingOK

(* Nothing changes for the documents that have an origin.                         *)
LEMMA NamedKept ==
  ASSUME Named, DOMAIN docs \subseteq DOMAIN docs',
         \A i \in DOMAIN docs : /\ docs'[i].origin = docs[i].origin /\ docs'[i].indexed = docs[i].indexed
                                /\ docs[i].selected => docs'[i].selected
                                /\ docs[i].origin # 0 => docs'[i].hash = docs[i].hash,
         \A i \in DOMAIN docs' \ DOMAIN docs : docs'[i].origin = 0 /\ ~docs'[i].indexed
  PROVE  Named'
<1>1. \A i \in DOMAIN docs' : docs'[i].origin # 0 => i \in DOMAIN docs
  OBVIOUS
<1>2. OriginsNamed(docs')
  BY <1>1 DEF Named, OriginsNamed
<1>3. CopiesJoined(docs')
  BY <1>1 DEF Named, CopiesJoined
<1>4. \A i \in DOMAIN docs' : docs'[i].indexed => docs'[i].origin # 0
  BY DEF Named
<1> QED BY <1>2, <1>3, <1>4 DEF Named

(* The origin of a copy, of a near-duplicate, or one of its own.                  *)
LEMMA AssignNames ==
  ASSUME HitsInv, OriginInv, AssignOrigin
  PROVE  /\ Named'
         /\ docs'[Head(chosen)].origin # 0
         /\ \A j \in DOMAIN docs \ {Head(chosen)} : docs'[j] = docs[j]
         /\ DOMAIN docs' = DOMAIN docs
<1> DEFINE i == Head(chosen)
<1>1. /\ i \in DOMAIN docs /\ i = chosen[1] /\ 1 \in DOMAIN chosen
      /\ docs \in Seq(Document) /\ docs[i] \in Document
      /\ DOMAIN docs = 1..Len(docs) /\ Len(docs) \in Nat
  <2>1. docs \in Seq(Document) /\ chosen \in Seq(Nat) /\ chosen # <<>> /\ i \in DOMAIN docs /\ i = chosen[1]
    BY AssignShape DEF HitsInv, DocsOK
  <2>2. 1 \in DOMAIN chosen
    BY <2>1, LenProperties, EmptySeq
  <2>3. docs[i] \in Document /\ DOMAIN docs = 1..Len(docs) /\ Len(docs) \in Nat
    BY <2>1, LenProperties, ElementOfSeq
  <2> QED BY <2>1, <2>2, <2>3
<1>2. PICK origin \in Origins(i) :
         Changed(i, [docs[i] EXCEPT !.origin = origin, !.hash = ReadAs(i), !.indexed = (Copies(i) = {})])
  BY AssignShape
<1>3. /\ DOMAIN docs' = DOMAIN docs /\ \A j \in DOMAIN docs \ {i} : docs'[j] = docs[j]
      /\ docs'[i].origin = origin /\ docs'[i].hash = ReadAs(i) /\ docs'[i].selected = docs[i].selected
  <2> DEFINE d == [docs[i] EXCEPT !.origin = origin, !.hash = ReadAs(i), !.indexed = (Copies(i) = {})]
  <2>1. d.origin = origin /\ d.hash = ReadAs(i) /\ d.selected = docs[i].selected
    BY <1>1 DEF Document
  <2> HIDE DEF d
  <2>2. Changed(i, d)
    BY <1>2 DEF d
  <2>3. DOMAIN docs' = DOMAIN docs /\ docs'[i] = d /\ \A j \in DOMAIN docs \ {i} : docs'[j] = docs[j]
    BY <1>1, <2>2, ChangedShape
  <2> QED BY <2>1, <2>3
<1>4. docs[i].selected /\ docs[i].origin = 0 /\ ReadAs(i) # None
  BY <1>1, SomethingRead DEF OriginInv, ChosenOK
<1> HIDE DEF i
<1>10. ASSUME NEW h \in DOMAIN docs, docs[h].origin # 0
       PROVE  /\ h # i /\ docs[h].hash # None /\ docs[h].selected
              /\ docs[h].origin \in DOMAIN docs \ {i}
              /\ docs[docs[h].origin].origin = docs[h].origin
  BY <1>4, <1>10 DEF OriginInv, Named, OriginsNamed
<1>5. CASE origin = i /\ Copies(i) = {}
  <2>1. origin \in DOMAIN docs /\ origin # 0 /\ docs'[origin].origin = origin
    BY <1>1, <1>3, <1>5
  <2>2. OriginsNamed(docs')
    <3> SUFFICES ASSUME NEW h \in DOMAIN docs, docs'[h].origin # 0
                 PROVE  /\ docs'[h].hash # None /\ docs'[h].selected
                        /\ docs'[h].origin \in DOMAIN docs
                        /\ docs'[docs'[h].origin].origin = docs'[h].origin
      BY <1>3 DEF OriginsNamed
    <3>1. CASE h = i
      BY <1>3, <1>4, <1>5, <2>1, <3>1
    <3>2. CASE h # i
      <4>1. docs'[h] = docs[h] /\ docs[h].origin # 0
        BY <1>3, <3>2
      <4>2. docs'[docs[h].origin] = docs[docs[h].origin]
        BY <1>3, <1>10, <4>1
      <4> QED BY <1>10, <4>1, <4>2
    <3> QED BY <3>1, <3>2
  <2>3. CopiesJoined(docs')
    BY <1>3, <1>4, <1>5 DEF OriginInv, Named, CopiesJoined, Copies
  <2>4. \A j \in DOMAIN docs' : docs'[j].indexed => docs'[j].origin # 0
    BY <1>3, <2>1, <1>5 DEF OriginInv, Named
  <2> QED BY <1>3, <2>1, <2>2, <2>3, <2>4, <1>5 DEF Named, i
<1>6. ASSUME NEW j \in DOMAIN docs, docs[j].origin # 0, origin = docs[j].origin,
             Copies(i) = {} \/ j \in Copies(i)
      PROVE  Named' /\ origin # 0
  <2>1. origin # 0 /\ origin \in DOMAIN docs /\ docs[origin].origin = origin
    BY <1>6 DEF OriginInv, Named, OriginsNamed
  <2>2. origin # i
    BY <1>4, <2>1
  <2>3. OriginsNamed(docs')
    <3> SUFFICES ASSUME NEW h \in DOMAIN docs, docs'[h].origin # 0
                 PROVE  /\ docs'[h].hash # None /\ docs'[h].selected
                        /\ docs'[h].origin \in DOMAIN docs
                        /\ docs'[docs'[h].origin].origin = docs'[h].origin
      BY <1>3 DEF OriginsNamed
    <3>1. CASE h = i
      BY <1>3, <1>4, <2>1, <2>2, <3>1
    <3>2. CASE h # i
      <4>1. docs'[h] = docs[h] /\ docs[h].origin # 0
        BY <1>3, <3>2
      <4>2. docs'[docs[h].origin] = docs[docs[h].origin]
        BY <1>3, <1>10, <4>1
      <4> QED BY <1>10, <4>1, <4>2
    <3> QED BY <3>1, <3>2
  <2>4. CopiesJoined(docs')
    BY <1>3, <1>4, <1>6 DEF OriginInv, Named, CopiesJoined, Copies
  <2>5. \A h \in DOMAIN docs' : docs'[h].indexed => docs'[h].origin # 0
    BY <1>3, <2>1 DEF OriginInv, Named
  <2> QED BY <2>1, <2>3, <2>4, <2>5 DEF Named
<1>7. CASE Copies(i) # {}
  <2>1. PICK j \in Copies(i) : origin = docs[j].origin
    BY <1>2, <1>7 DEF Origins
  <2> QED BY <1>3, <1>6, <2>1 DEF Copies, i
<1>8. CASE Copies(i) = {} /\ Similar(i) # {}
  <2>1. PICK j \in Similar(i) : origin = docs[j].origin
    BY <1>2, <1>8 DEF Origins
  <2>2. j \in DOMAIN docs /\ docs[j].origin # 0
    BY <2>1 DEF Similar, OriginInv, Named
  <2> QED BY <1>3, <1>6, <1>8, <2>1, <2>2 DEF i
<1>9. CASE Copies(i) = {} /\ Similar(i) = {}
  BY <1>2, <1>3, <1>5, <1>9 DEF Origins, i
<1> QED BY <1>7, <1>8, <1>9

LEMMA AssignKeepsOrigins ==
  ASSUME HitsInv, OriginInv, AssignOrigin
  PROVE  OriginInv'
<1> DEFINE i == Head(chosen)
<1>1. /\ chosen \in Seq(Nat) /\ chosen # <<>> /\ chosen' = Tail(chosen) /\ i = chosen[1]
      /\ phase = "origins" /\ phase' = phase /\ fetching' = fetching
  BY AssignShape DEF AssignOrigin
<1>2. /\ Named' /\ DOMAIN docs' = DOMAIN docs /\ docs'[i].origin # 0
      /\ \A j \in DOMAIN docs \ {i} : docs'[j] = docs[j]
  BY AssignNames
<1> HIDE DEF i
<1>3. /\ DOMAIN chosen = 1..Len(chosen) /\ Len(chosen) \in Nat /\ 1 \in DOMAIN chosen
      /\ DOMAIN chosen' = 1..(Len(chosen) - 1)
      /\ \A k \in DOMAIN chosen' : k + 1 \in DOMAIN chosen /\ chosen'[k] = chosen[k + 1]
  BY <1>1, HeadTailProperties, LenProperties, EmptySeq
<1>4. \A k \in DOMAIN chosen' : chosen'[k] # i /\ chosen'[k] \in DOMAIN docs
  <2> TAKE k \in DOMAIN chosen'
  <2>1. k + 1 \in DOMAIN chosen /\ k + 1 # 1 /\ chosen'[k] = chosen[k + 1]
    BY <1>3
  <2> QED BY <1>1, <1>3, <2>1 DEF OriginInv, ChosenOK, HitsInv, DocsOK
<1>5. \A k \in DOMAIN chosen' : docs'[chosen'[k]] = docs[chosen'[k]]
  BY <1>2, <1>4
<1>6. ChosenOK'
  <2>1. \A k \in DOMAIN chosen' : docs'[chosen'[k]].selected /\ docs'[chosen'[k]].origin = 0
    BY <1>3, <1>5 DEF OriginInv, ChosenOK
  <2>2. \A k, l \in DOMAIN chosen' : chosen'[k] = chosen'[l] => k = l
    <3> TAKE k, l \in DOMAIN chosen'
    <3>1. chosen'[k] = chosen'[l] => k + 1 = l + 1
      BY <1>3 DEF OriginInv, ChosenOK
    <3> QED BY <1>3, <3>1
  <2>3. ASSUME NEW j \in DOMAIN docs', docs'[j].selected, docs'[j].origin = 0
        PROVE  \E k \in DOMAIN chosen' : chosen'[k] = j
    <3>1. j # i /\ docs'[j] = docs[j] /\ j \in DOMAIN docs
      BY <1>2, <2>3
    <3>2. PICK l \in DOMAIN chosen : chosen[l] = j
      BY <2>3, <3>1 DEF OriginInv, ChosenOK
    <3>3. l # 1
      BY <1>1, <3>1, <3>2
    <3>4. l - 1 \in DOMAIN chosen' /\ l - 1 + 1 = l
      BY <1>3, <3>2, <3>3
    <3> QED BY <1>3, <3>2, <3>4
  <2> QED BY <1>1, <2>1, <2>2, <2>3 DEF ChosenOK
<1>7. FetchingOK'
  BY <1>1 DEF OriginInv, FetchingOK
<1> QED BY <1>2, <1>6, <1>7 DEF OriginInv

LEMMA SelectKeepsOrigins ==
  ASSUME HitsInv, OriginInv, SelectPage
  PROVE  OriginInv'
<1>0. docs \in Seq(Document) /\ chosen \in Seq(Nat) /\ \A k \in DOMAIN chosen : chosen[k] \in DOMAIN docs
  BY DEF HitsInv, DocsOK
<1>1. PICK i \in DOMAIN docs :
         /\ Changed(i, [docs[i] EXCEPT !.selected = TRUE])
         /\ ~docs[i].selected /\ chosen' = Append(chosen, i)
  BY <1>0, SelectShape
<1>2. /\ DOMAIN docs' = DOMAIN docs /\ docs'[i] = [docs[i] EXCEPT !.selected = TRUE]
      /\ \A j \in DOMAIN docs \ {i} : docs'[j] = docs[j]
  BY <1>0, <1>1, ChangedShape
<1>3. docs[i] \in Document /\ i \in Nat
  BY <1>0, LenProperties, ElementOfSeq
<1>4. /\ docs'[i].selected /\ docs'[i].origin = docs[i].origin
      /\ docs'[i].indexed = docs[i].indexed /\ docs'[i].hash = docs[i].hash
  BY <1>2, <1>3 DEF Document
<1>5. docs[i].origin = 0
  BY <1>1 DEF OriginInv, Named, OriginsNamed
<1>6. Named'
  BY <1>2, <1>4, NamedKept DEF OriginInv
<1>7. /\ DOMAIN chosen = 1..Len(chosen) /\ Len(chosen) \in Nat
      /\ DOMAIN chosen' = 1..(Len(chosen) + 1) /\ chosen'[Len(chosen) + 1] = i
      /\ \A k \in DOMAIN chosen : chosen'[k] = chosen[k]
  <2>1. /\ chosen' \in Seq(Nat) /\ Len(chosen') = Len(chosen) + 1 /\ chosen'[Len(chosen) + 1] = i
        /\ \A k \in 1..Len(chosen) : chosen'[k] = chosen[k]
    BY <1>0, <1>1, <1>3, AppendProperties
  <2> QED BY <1>0, <2>1, LenProperties
<1>8. \A k \in DOMAIN chosen : chosen[k] # i
  BY <1>1 DEF OriginInv, ChosenOK
<1>9. \A k \in DOMAIN chosen' : k = Len(chosen) + 1 \/ k \in DOMAIN chosen
  BY <1>7
<1>10. \A k \in DOMAIN chosen : k \in DOMAIN chosen' /\ k # Len(chosen) + 1
  BY <1>7
<1>11. Len(chosen) + 1 \in DOMAIN chosen'
  BY <1>7
<1>12. phase = "select" /\ phase' = phase /\ fetching' = fetching /\ fetching = {}
  BY DEF SelectPage, OriginInv, FetchingOK
<1>13. ChosenOK'
  <2>1. \A k \in DOMAIN chosen' : docs'[chosen'[k]].selected /\ docs'[chosen'[k]].origin = 0
    <3> TAKE k \in DOMAIN chosen'
    <3>1. CASE k = Len(chosen) + 1
      BY <1>4, <1>5, <1>7, <3>1
    <3>2. CASE k \in DOMAIN chosen
      <4>1. chosen'[k] = chosen[k] /\ docs'[chosen[k]] = docs[chosen[k]]
        BY <1>0, <1>2, <1>7, <1>8, <3>2
      <4> QED BY <3>2, <4>1 DEF OriginInv, ChosenOK
    <3> QED BY <1>9, <3>1, <3>2
  <2>2. \A k, l \in DOMAIN chosen' : chosen'[k] = chosen'[l] => k = l
    BY <1>7, <1>8, <1>9 DEF OriginInv, ChosenOK
  <2>3. \A j \in DOMAIN docs' : docs'[j].selected /\ docs'[j].origin = 0 => \E k \in DOMAIN chosen' : chosen'[k] = j
    BY <1>2, <1>7, <1>10, <1>11 DEF OriginInv, ChosenOK
  <2> QED BY <1>12, <2>1, <2>2, <2>3 DEF ChosenOK
<1>14. FetchingOK'
  BY <1>12 DEF FetchingOK
<1> QED BY <1>6, <1>13, <1>14 DEF OriginInv

LEMMA FetchKeepsOrigins ==
  ASSUME HitsInv, OriginInv, NEW i \in fetching, FetchPage(i)
  PROVE  OriginInv'
<1>0. docs \in Seq(Document) /\ i \in DOMAIN docs /\ \A k \in DOMAIN chosen : chosen[k] \in DOMAIN docs
  BY DEF HitsInv, DocsOK
<1>1. PICK text : Changed(i, [docs[i] EXCEPT !.text = text])
  BY <1>0, FetchShape
<1>2. /\ DOMAIN docs' = DOMAIN docs /\ docs'[i] = [docs[i] EXCEPT !.text = text]
      /\ \A j \in DOMAIN docs \ {i} : docs'[j] = docs[j]
  BY <1>0, <1>1, ChangedShape
<1>3. docs[i] \in Document
  BY <1>0, LenProperties, ElementOfSeq
<1>4. /\ docs'[i].selected = docs[i].selected /\ docs'[i].origin = docs[i].origin
      /\ docs'[i].indexed = docs[i].indexed /\ docs'[i].hash = docs[i].hash
  BY <1>2, <1>3 DEF Document
<1>5. docs[i].origin = 0
  BY DEF OriginInv, FetchingOK, ChosenOK
<1>6. /\ phase = "fetch" /\ phase' = phase /\ chosen' = chosen /\ fetching' = fetching \ {i}
  BY DEF FetchPage
<1>7. Named'
  BY <1>2, <1>4, <1>5, NamedKept DEF OriginInv
<1>8. ChosenOK'
  <2>1. \A j \in DOMAIN docs : docs'[j].selected = docs[j].selected /\ docs'[j].origin = docs[j].origin
    BY <1>2, <1>4
  <2> QED BY <1>0, <1>2, <1>6, <2>1 DEF OriginInv, ChosenOK
<1>9. FetchingOK'
  BY <1>6 DEF OriginInv, FetchingOK
<1> QED BY <1>7, <1>8, <1>9 DEF OriginInv

LEMMA MergeKeepsOrigins ==
  ASSUME HitsInv, OriginInv, MergeHit
  PROVE  OriginInv'
<1>1. /\ pending \in Seq(Hit) /\ pending # <<>> /\ docs \in Seq(Document)
      /\ docs' = Merged(docs, Head(pending))
      /\ phase = "merge" /\ phase' = phase /\ chosen' = chosen /\ fetching' = fetching
  BY DEF HitsInv, DocsOK, MergeHit
<1>2. Head(pending) \in Hit
  BY <1>1, HeadTailProperties
<1>3. /\ DOMAIN docs \subseteq DOMAIN docs'
      /\ \A i \in DOMAIN docs : /\ docs'[i].selected = docs[i].selected
                                /\ docs'[i].origin = docs[i].origin
                                /\ docs'[i].indexed = docs[i].indexed
                                /\ docs'[i].hash = docs[i].hash
      /\ \A i \in DOMAIN docs' \ DOMAIN docs : docs'[i].origin = 0 /\ ~docs'[i].selected /\ ~docs'[i].indexed
  BY <1>1, <1>2, MergedShape DEF Grows
<1>5. Named'
  BY <1>3, NamedKept DEF OriginInv
<1>6. chosen = <<>> /\ fetching = {}
  BY <1>1 DEF OriginInv, ChosenOK, FetchingOK
<1>7. ChosenOK' /\ FetchingOK'
  BY <1>1, <1>3, <1>6, EmptySeq DEF OriginInv, ChosenOK, FetchingOK
<1> QED BY <1>5, <1>7 DEF OriginInv

LEMMA OriginStep == HitsInv /\ OriginInv /\ SettlingInv /\ [Next]_vars => OriginInv'
<1> SUFFICES ASSUME HitsInv, OriginInv, SettlingInv, [Next]_vars PROVE OriginInv'
  OBVIOUS
<1> USE DEF OriginInv, Named, ChosenOK, FetchingOK
<1>1. CASE \E q \in Index : Run(q)
  <2>1. PICK q \in Index : Run(q)
    BY <1>1
  <2>2. (phase = "search" \/ phase = "raised") /\ phase' \in {phase, "raised"}
    BY <2>1, RunAccounted DEF SettlingInv, QueriesDone
  <2>3. UNCHANGED processing
    BY <2>1 DEF Run, SkipQuery, StartQuery, CacheHit, CacheMiss, Found, FindsNothing, AskFails,
                AskAgain, NotJson, GiveUp, TryNext, Receive
  <2> QED BY <2>2, <2>3 DEF processing
<1>2. CASE Gathered \/ UNCHANGED vars
  BY <1>2 DEF Gathered, vars, processing
<1>3. CASE ProcessResults
  <2>1. CASE AllMerged \/ NextSubquestion \/ AllFetched \/ Finish
    BY <2>1 DEF AllMerged, NextSubquestion, AllFetched, Finish, processing
  <2>2. CASE AllSelected
    <3>1. \A k \in DOMAIN chosen : chosen[k] \in DOMAIN docs
      BY DEF HitsInv, DocsOK
    <3> QED BY <2>2, <3>1 DEF AllSelected, ToSet
  <2> QED BY <1>3, <2>1, <2>2, MergeKeepsOrigins, SelectKeepsOrigins, FetchKeepsOrigins, AssignKeepsOrigins
          DEF ProcessResults
<1> QED BY <1>1, <1>2, <1>3 DEF Next, Progress

THEOREM OriginsInductive == Spec => [](OriginInv /\ HitsInv /\ SettlingInv)
BY OriginInit, OriginStep, HitsInit, HitsStep, SettlingInit, SettlingStep, PTL DEF Spec

(* CopiesShareOrigin: when the round is over, whatever was fetched, pages with the  *)
(* same text have one origin, named after a document that is its own, and every     *)
(* page chosen for reading has one.                                                 *)
THEOREM CopiesShareOriginHolds == Spec => []CopiesShareOrigin
<1>1. OriginInv /\ HitsInv => CopiesShareOrigin
  BY EmptySeq DEF OriginInv, Named, ChosenOK, HitsInv, CopiesShareOrigin, Coherent
<1> QED BY <1>1, OriginsInductive, PTL
=============================================================================
