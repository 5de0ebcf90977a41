---------------------------- MODULE MCWorkflowRun ---------------------------
(* Plans of one to three steps: what they depend on, and what becomes of a  *)
(* failed result of each.                                                   *)
EXTENDS WorkflowRun, TLC

MCOne == <<{}>>
MCIndependent == <<{}, {}>>
MCFan == <<{}, {1}, {1}>>        \* the others wait for the first
MCPhase == <<{}, {1}, {0}>>      \* the last waits for a step that is not in the plan

MCOneStrict == <<"failed">>
MCStrict == <<"failed", "failed">>
MCMixed3 == <<"failed", "skipped", "partial">>

Symmetry == Permutations(Drivers)
=============================================================================
