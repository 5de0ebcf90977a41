---------------------------- MODULE MCStateStore ----------------------------
(* Two processes and one job of each kind that StateManager's callers use. *)
EXTENDS StateStoreRefinement, TLC

CONSTANTS a, b

MCContent == {a, b}
MCWithPlan == {b}

J(kind, val, extra, sentinel) ==
    [kind |-> kind, val |-> val, extra |-> extra, sentinel |-> sentinel]

\* pauseRun, resumeRun, requestApproval with its additional event, a guarded
\* completion, a guarded completion wrongly given a sentinel, saveState and
\* appendLedger.
MCJobs == { J("event", a, 0, "write"), J("event", b, 1, "remove"),
            J("guarded", b, 1, "keep"), J("guarded", a, 0, "write"),
            J("silent", a, 0, "keep"), J("note", a, 0, "keep") }

Symmetry == Permutations(Proc)
=============================================================================
