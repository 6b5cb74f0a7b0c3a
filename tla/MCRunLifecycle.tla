--------------------------- MODULE MCRunLifecycle ---------------------------
(* Small instances of RunLifecycle for TLC. *)
EXTENDS RunLifecycle, TLC

CONSTANTS a, b, w, t1, t2

\* Two runs of one workflow.
OneWorkflow == [r \in Run |-> w]

\* A workflow with a single step, and one with an approval gate.
WorkOnly == <<"work">>
Gated == <<"work", "approval">>

\* The runs, which share their workflow, and the message slots are interchangeable.
RunSymmetry == Permutations(Run) \cup Permutations(Slot)
=============================================================================
