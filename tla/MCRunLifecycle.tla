---------------------------- MODULE MCRunLifecycle ----------------------------
(***************************************************************************)
(* RunLifecycle on small instances.                                        *)
(***************************************************************************)
EXTENDS RunLifecycle, TLC

\* config/dispatcher.yaml retry.backoff_seconds is [5, 15], both within the
\* heartbeat timeout of 30; here in units of the model's clock.
NoWait  == <<0>>
OneWait == <<1>>

\* Replicas are interchangeable, and so are runs.
Symmetry == Permutations(Agents) \cup Permutations(Runs)
==============================================================================
