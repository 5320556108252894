----------------------------- MODULE RunContract -----------------------------
(***************************************************************************)
(* contracts/run_states.yaml: the run state machine that the Python agent  *)
(* and the Go dispatcher both load and consult before they write a status. *)
(***************************************************************************)

Active   == {"dispatched", "running"}
Terminal == {"succeeded", "succeeded_with_warnings", "failed", "cancelled"}
Statuses == {"queued"} \cup Active \cup Terminal

\* A run row that has not been inserted yet.
Absent == "absent"

\* `states.<status>.transitions`, state by state.
Transitions ==
    [s \in Statuses |->
        CASE s = "queued"     -> {"dispatched", "cancelled", "failed"}
          [] s = "dispatched" -> {"running", "queued", "cancelled", "failed"}
          [] s = "running"    -> Terminal \cup {"queued"}
          [] OTHER            -> {}]

\* StateMachine.CanTransition / RunStateMachine.can_transition.
CanTransition(source, target) ==
    /\ source \in Statuses
    /\ target \in Transitions[source]
==============================================================================
