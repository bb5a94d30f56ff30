------------------------- MODULE PipelineLifecycle -------------------------
(***************************************************************************)
(* What the pipeline engine promises of a run, whoever executes it and     *)
(* however often that work is interrupted: the states of the AI Pipeline   *)
(* Run document and the steps of the run that took effect.                 *)
(*                                                                         *)
(* Steps take effect in their order.  A run is Completed only when every   *)
(* step it must do did take effect.  Completed, Failed and Cancelled are   *)
(* final.  A step may still take effect after that: a tool that waited for *)
(* an approval when its run was stopped.                                   *)
(***************************************************************************)
EXTENDS Naturals

CONSTANTS Runs, NSteps, Required  \* Required: the steps that must not fail

VARIABLES st, done
lifecycle == <<st, done>>

Steps == 1 .. NSteps
Final == {"Completed", "Failed", "Cancelled"}
States == {"None", "Queued", "Running", "Waiting"} \cup Final

Init ==
    /\ st = [r \in Runs |-> "None"]
    /\ done = [r \in Runs |-> {}]

\* Where a run may go; a run executed inside a transaction shows its result
\* only (run_pipeline with enqueue_job=False).
Successors(s) ==
    CASE s = "None" -> {"Queued", "Waiting", "Completed", "Failed"}
      [] s = "Queued" -> {"Running", "Failed", "Cancelled"}
      [] s = "Running" -> {"Waiting", "Completed", "Failed", "Cancelled"}
      [] s = "Waiting" -> {"Running", "Failed", "Cancelled"}
      [] s \in Final -> {}

Moves(r) ==
    /\ st'[r] \in Successors(st[r]) \cup {st[r]}
    /\ st'[r] = "Completed" => Required \subseteq done'[r]

\* New steps come after the ones that already took effect; one at a time once
\* the run exists, and none while it waits in the queue.
Advances(r) ==
    /\ done[r] \subseteq done'[r]
    /\ \A s \in done[r], t \in done'[r] \ done[r] : s < t
    /\ st[r] # "None" =>
        \A s, t \in done'[r] \ done[r] : s = t
    /\ st[r] = "Queued" => done'[r] = done[r]

Next ==
    /\ st' \in [Runs -> States]
    /\ done' \in [Runs -> SUBSET Steps]
    /\ \A r \in Runs : Moves(r) /\ Advances(r)

Spec == Init /\ [][Next]_lifecycle
=============================================================================
