------------------------ MODULE StateStoreRefinement ------------------------
(***************************************************************************)
(* The file-level store implements the compare-and-set register: the lock, *)
(* the staged file, the rollback and the crashes of StateStore are seen    *)
(* from outside as serial attempts against the caller's own snapshot.      *)
(***************************************************************************)
EXTENDS StateStore

\* An attempt is open while its process holds the lock.
Turn == {p \in Proc : pc[p] \in Inside}

\* Its events are those its job has in the ledger; the state it replaced is
\* the one it captured, once state.json differs from that.
Added == [p \in Proc |-> EventsOf(job[p], sent[p])]
OverOf(p) == IF sent[p] = 0 \/ job[p].kind = "note" THEN {}
             ELSE {saved[p].file} \ {file}
Over == [p \in Proc |-> OverOf(p)]

A == INSTANCE AtomicStore
       WITH st <- file, log <- ledger, view <- snap, turn <- Turn,
            added <- Added, over <- Over

\* StateManager's write methods implement the atomic register: no lost
\* update, no event of a refused writer, no state before its event, and a
\* rollback that takes back its own attempt's state and events and nothing
\* that was there before.
ImplementsAtomicStore == A!Spec
=============================================================================
