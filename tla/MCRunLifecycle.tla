--------------------------- MODULE MCRunLifecycle ---------------------------
(* Two runs, two approval requests between resets of the numbers, of the same *)
(* gate or of both, and a budget of two approvals.                            *)
EXTENDS RunLifecycle, TLC

Symmetry == Permutations(Runs)
=============================================================================
