--------------------------- MODULE AttemptJournal ---------------------------
(***************************************************************************)
(* What RunManifestManager (run-manifest.ts) is for, as those see it who   *)
(* call tools: workflow drivers, the project server's deliveries and the   *)
(* delegated agent runner.  A journal of attempts beside the calls that    *)
(* were really made.  An attempt is recorded before it is marked, marked   *)
(* before it is called, and called once for each mark; an outcome is       *)
(* recorded once, of a call that was made, and for good; and only a call   *)
(* that met an approval boundary sets its attempt back for another call.   *)
(*                                                                         *)
(* Nothing says that an attempt goes on: whoever marked it may be gone, and *)
(* then it keeps its unknown outcome.                                      *)
(***************************************************************************)
EXTENDS Naturals

CONSTANTS Keys, NoOutcome

VARIABLES
    attempt,      \* key -> missing, not_started, outcome_unknown or committed
    boundaries,   \* key -> approval boundaries its calls have met
    outcome,      \* key -> what was committed
    called        \* key -> how often the tool was called

vars == <<attempt, boundaries, outcome, called>>

Init ==
    /\ attempt = [k \in Keys |-> "missing"]
    /\ boundaries = [k \in Keys |-> 0]
    /\ outcome = [k \in Keys |-> NoOutcome]
    /\ called = [k \in Keys |-> 0]

Becomes(S, state) ==
    attempt' = [k \in Keys |-> IF k \in S THEN state ELSE attempt[k]]

\* The intents of a batch that are new are recorded.
Observe(S) ==
    /\ \A k \in S : attempt[k] = "missing"
    /\ Becomes(S, "not_started")
    /\ UNCHANGED <<boundaries, outcome, called>>

\* A batch is marked as dispatched, all of it or nothing.
Mark(S) ==
    /\ \A k \in S : attempt[k] = "not_started"
    /\ Becomes(S, "outcome_unknown")
    /\ UNCHANGED <<boundaries, outcome, called>>

\* The calls of a batch are made, after its mark or together with it.
Call(S) ==
    /\ \A k \in S : attempt[k] \in {"not_started", "outcome_unknown"} /\ called[k] = boundaries[k]
    /\ Becomes(S, "outcome_unknown")
    /\ called' = [k \in Keys |-> IF k \in S THEN called[k] + 1 ELSE called[k]]
    /\ UNCHANGED <<boundaries, outcome>>

Made(k) == attempt[k] = "outcome_unknown" /\ called[k] = boundaries[k] + 1

\* The outcome of a call is recorded.
Commit(k) ==
    /\ Made(k)
    /\ Becomes({k}, "committed")
    /\ \A j \in Keys \ {k} : outcome'[j] = outcome[j]
    /\ UNCHANGED <<boundaries, called>>

\* The call has met an approval boundary.
SetBack(k) ==
    /\ Made(k)
    /\ Becomes({k}, "not_started")
    /\ boundaries' = [boundaries EXCEPT ![k] = @ + 1]
    /\ UNCHANGED <<outcome, called>>

Next ==
    \/ \E S \in SUBSET Keys : Observe(S) \/ Mark(S) \/ Call(S)
    \/ \E k \in Keys : Commit(k) \/ SetBack(k)

Spec == Init /\ [][Next]_vars
=============================================================================
