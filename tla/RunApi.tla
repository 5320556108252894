-------------------------------- MODULE RunApi --------------------------------
(***************************************************************************)
(* The two api routes that change a run (api/routes/runs.py).  Each is     *)
(* several transactions: others act between them, and the request may stop *)
(* half-way (a client that hangs up, a worker that restarts).              *)
(***************************************************************************)
EXTENDS RunTable

CONSTANTS
    Keyed,        \* runs created with provider keys to store
    Cancellable   \* runs some client may cancel

ASSUME ApiAssumption == Keyed \subseteq Runs /\ Cancellable \subseteq Runs

VARIABLES
    creating,    \* runs whose create_run has yet to store the provider keys
    cancelling   \* run -> where a cancel_run request for it is

apiVars == <<creating, cancelling>>

CancelPhases == {"none", "flag_queued", "flag_active", "finish"}

ApiInit ==
    /\ creating = {}
    /\ cancelling = [r \in Runs |-> "none"]

\* create_run: the row is committed (and announced) before its keys are.
Create(r) ==
    /\ runs[r].status = Absent
    /\ Write(r, CreatedRow)
    /\ creating' = creating \cup ({r} \cap Keyed)
    /\ UNCHANGED cancelling

\* RunRepository.store_secrets, a transaction of its own.
StoreSecrets(r) ==
    /\ r \in creating
    /\ Write(r, [runs[r] EXCEPT !.secrets = TRUE])
    /\ creating' = creating \ {r}
    /\ UNCHANGED cancelling

\* The request is interrupted before it stores the keys.
SkipSecrets(r) ==
    /\ r \in creating
    /\ creating' = creating \ {r}
    /\ UNCHANGED <<tableVars, cancelling>>

AtCancel(r, phase) == cancelling' = [cancelling EXCEPT ![r] = phase]

\* cancel_run reads the row; a finished run is answered 409 and left alone.
CancelRead(r) ==
    /\ r \in Cancellable /\ cancelling[r] = "none"
    /\ runs[r].status \notin Terminal \cup {Absent}
    /\ AtCancel(r, IF runs[r].status = "queued" THEN "flag_queued" ELSE "flag_active")
    /\ UNCHANGED <<tableVars, creating>>

\* RunRepository.request_cancel, whatever has become of the run since.
CancelFlag(r) ==
    /\ cancelling[r] \in {"flag_queued", "flag_active"}
    /\ Write(r, [runs[r] EXCEPT !.cancel_requested = TRUE])
    /\ AtCancel(r, IF cancelling[r] = "flag_queued" THEN "finish" ELSE "none")
    /\ UNCHANGED creating

\* Mutant: finish overwrites whatever status it finds.
CancelFinish_Blind(r) ==
    /\ cancelling[r] = "finish"
    /\ Write(r, SettledRow(runs[r], "cancelled"))
    /\ AtCancel(r, "none")
    /\ UNCHANGED creating

\* RunRepository.finish without a lease: it reads the row again, and moves it
\* from whatever status it finds now if the contract lets it.
CancelFinish(r) ==
    /\ cancelling[r] = "finish"
    /\ IF CanTransition(runs[r].status, "cancelled")
       THEN Write(r, SettledRow(runs[r], "cancelled"))
       ELSE UNCHANGED tableVars
    /\ AtCancel(r, "none")
    /\ UNCHANGED creating

\* The request is interrupted between two of its transactions.
CancelDropped(r) ==
    /\ cancelling[r] # "none"
    /\ AtCancel(r, "none")
    /\ UNCHANGED <<tableVars, creating>>

ApiStep ==
    \E r \in Runs :
        \/ Create(r) \/ StoreSecrets(r) \/ SkipSecrets(r)
        \/ CancelRead(r) \/ CancelFlag(r) \/ CancelFinish(r) \/ CancelDropped(r)
==============================================================================
