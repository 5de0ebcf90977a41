--------------------------- MODULE StateStoreProofs -------------------------
(***************************************************************************)
(* Proofs about StateStore for any number of processes, any contents and    *)
(* any set of jobs: the store is type correct, its lock excludes although   *)
(* crashes leak it, no update is lost, the ledger covers the state, a       *)
(* guarded job that fails has changed nothing, and the store implements     *)
(* AtomicStore.                                                             *)
(***************************************************************************)
EXTENDS StateStoreRefinement, SequenceTheorems, TLAPS

USE ContentAssumption, JobsAssumption

LEMMA JobFacts ==
    ASSUME NEW j \in Jobs
    PROVE  /\ j.kind \in JobKinds /\ j.val \in Content
           /\ j.extra \in Nat /\ j.sentinel \in Sentinels
  BY DEF JobSet

LEMMA NoJobIsJob == NoJob \in Jobs
  BY DEF NoJob

LEMMA NoFilesCaptured == NoFiles \in ControlFiles
  BY DEF NoFiles, ControlFiles

LEMMA CapturedTyped ==
    ASSUME TypeOK
    PROVE  [file |-> file, ledger |-> ledger, planMd |-> planMd] \in ControlFiles
  BY DEF TypeOK, ControlFiles

\* The local variables of a job that is over have their types.
LEMMA ReturnTyped ==
    ASSUME TypeOK, NEW p \in Proc, Return(p)
    PROVE  /\ pc' \in [Proc -> {"idle", "lock"} \cup Inside]
           /\ job' \in [Proc -> Jobs] /\ tries' \in [Proc -> Nat] /\ sent' \in [Proc -> Nat]
           /\ saved' \in [Proc -> ControlFiles] /\ res' \in [Proc -> Results]
  BY NoJobIsJob, NoFilesCaptured DEF TypeOK, Return, Goto, Results

-----------------------------------------------------------------------------
(* Type correctness *)

\* One step keeps the types.
LEMMA TypeInductive == TypeOK /\ [Next]_vars => TypeOK'
<1>. SUFFICES ASSUME TypeOK, [Next]_vars PROVE TypeOK'
  OBVIOUS
<1>. USE DEF TypeOK, Inside, WorkSteps, UndoSteps, Results, files, locals
<1>1. ASSUME NEW p \in Proc, ReadState(p) PROVE TypeOK'
  BY <1>1 DEF ReadState
<1>2. ASSUME NEW p \in Proc, Acquire(p) PROVE TypeOK'
  BY <1>2 DEF Acquire, Goto
<1>3. ASSUME NEW p \in Proc, AcquireFails(p) PROVE TypeOK'
  BY <1>3 DEF AcquireFails, Stop, Goto
<1>4. ASSUME NEW p \in Proc, Wait(p) PROVE TypeOK'
  <2>1. CASE tries[p] + 1 < MaxAttempts
    <3>1. /\ tries' = [tries EXCEPT ![p] = @ + 1]
          /\ UNCHANGED <<files, locked, snap, started, quiet, pc, job, sent, saved, res>>
      BY <1>4, <2>1 DEF Wait
    <3>2. tries' \in [Proc -> Nat]
      BY <3>1
    <3>. QED
      BY <3>1, <3>2
  <2>2. CASE ~(tries[p] + 1 < MaxAttempts)
    <3>1. Return(p) /\ UNCHANGED <<files, locked, snap, started, quiet>>
      BY <1>4, <2>2 DEF Wait
    <3>. QED
      BY <3>1, ReturnTyped
  <2>. QED
    BY <2>1, <2>2
<1>5. ASSUME NEW p \in Proc, Compare(p) PROVE TypeOK'
  <2>1. pc' \in [Proc -> {"idle", "lock"} \cup Inside] /\ res' \in [Proc -> Results]
    BY <1>5 DEF Compare, Stop, Goto
  <2>2. saved' \in [Proc -> ControlFiles]
    <3>. DEFINE captured == [file |-> file, ledger |-> ledger, planMd |-> planMd]
    <3>1. saved' = saved \/ saved' = [saved EXCEPT ![p] = captured]
      BY <1>5 DEF Compare
    <3>2. captured \in ControlFiles /\ saved \in [Proc -> ControlFiles]
      BY CapturedTyped DEF TypeOK
    <3>. HIDE DEF captured
    <3>. QED
      BY <3>1, <3>2
  <2>3. UNCHANGED <<files, locked, snap, job, tries, sent, started, quiet>>
    BY <1>5 DEF Compare
  <2>. QED
    BY <2>1, <2>2, <2>3
<1>6. ASSUME NEW p \in Proc, Stage(p) PROVE TypeOK'
  BY <1>6 DEF Stage, Goto
<1>7. ASSUME NEW p \in Proc, AppendEvent(p) PROVE TypeOK'
  BY <1>7, JobFacts DEF AppendEvent, Goto, EventAt
<1>8. ASSUME NEW p \in Proc, Rename(p) PROVE TypeOK'
  BY <1>8, JobFacts DEF Rename, Goto
<1>9. ASSUME NEW p \in Proc, SetSentinel(p) PROVE TypeOK'
  BY <1>9 DEF SetSentinel, Goto
<1>10. ASSUME NEW p \in Proc, WriteSilently(p) PROVE TypeOK'
  BY <1>10, JobFacts DEF WriteSilently, Goto
<1>11. ASSUME NEW p \in Proc, WritePlan(p) PROVE TypeOK'
  BY <1>11 DEF WritePlan, Goto
<1>12. ASSUME NEW p \in Proc, Refresh(p) PROVE TypeOK'
  BY <1>12 DEF Refresh, Stop, Goto
<1>13. ASSUME NEW p \in Proc, AppendNote(p) PROVE TypeOK'
  BY <1>13 DEF AppendNote, Stop, Goto
<1>14. ASSUME NEW p \in Proc, Throw(p) PROVE TypeOK'
  BY <1>14 DEF Throw, Stop, Goto, MayThrow
<1>15. ASSUME NEW p \in Proc, UndoPlan(p) PROVE TypeOK'
  BY <1>15 DEF UndoPlan, Stop, Goto, ControlFiles
<1>16. ASSUME NEW p \in Proc, UndoState(p) PROVE TypeOK'
  BY <1>16 DEF UndoState, Stop, Goto, ControlFiles
<1>17. ASSUME NEW p \in Proc, UndoLedger(p) PROVE TypeOK'
  <2>1. pc' \in [Proc -> {"idle", "lock"} \cup Inside] /\ res' \in [Proc -> Results]
    BY <1>17 DEF UndoLedger, Stop, Goto
  <2>2. saved[p].ledger \in Seq(Content \cup {Note})
    BY DEF ControlFiles
  <2>3. ledger' \in Seq(Content \cup {Note})
    BY <1>17, <2>2 DEF UndoLedger
  <2>4. sent' \in [Proc -> Nat]
    BY <1>17 DEF UndoLedger
  <2>. QED
    BY <1>17, <2>1, <2>3, <2>4 DEF UndoLedger
<1>24. ASSUME NEW p \in Proc, UndoFails(p) PROVE TypeOK'
  BY <1>24 DEF UndoFails, Stop, Goto
<1>18. ASSUME NEW p \in Proc, UndoHook(p) PROVE TypeOK'
  BY <1>18 DEF UndoHook, Stop, Goto
<1>19. ASSUME NEW p \in Proc, Unlock(p) PROVE TypeOK'
  BY <1>19, ReturnTyped DEF Unlock
<1>20. ASSUME NEW p \in Proc, Crash(p) PROVE TypeOK'
  BY <1>20, ReturnTyped DEF Crash
<1>21. ASSUME NEW p \in Proc, NEW j \in Jobs, StartJob(p, j) PROVE TypeOK'
  BY <1>21 DEF StartJob, Goto
<1>22. CASE RepairLock
  BY <1>22 DEF RepairLock
<1>23. CASE UNCHANGED vars
  BY <1>23 DEF vars
<1>. QED
  BY <1>1, <1>2, <1>3, <1>4, <1>5, <1>6, <1>7, <1>8, <1>9, <1>10, <1>11, <1>12, <1>13,
     <1>14, <1>15, <1>16, <1>17, <1>18, <1>19, <1>20, <1>21, <1>22, <1>23, <1>24 DEF Next, Step

\* StateStore is type correct: every step of every writer, a rollback that
\* rewrites state, ledger and plan from the captured bytes included.
THEOREM TypeCorrect == Spec => []TypeOK
<1>1. Init => TypeOK
  <2> SUFFICES ASSUME Init PROVE TypeOK
    OBVIOUS
  <2>1. /\ ledger \in Seq(Content \cup {Note}) /\ quiet \in SUBSET Content
        /\ file \in Content \cup {Absent} /\ planMd \in Content \cup {Absent}
    BY DEF Init
  <2>2. pc \in [Proc -> {"idle", "lock"} \cup Inside] /\ res \in [Proc -> Results]
    BY DEF Init, Results
  <2>3. job \in [Proc -> Jobs] /\ saved \in [Proc -> ControlFiles]
    BY NoJobIsJob, NoFilesCaptured DEF Init
  <2>4. /\ snap \in [Proc -> Content \cup {Absent, Untracked}] /\ tries \in [Proc -> Nat]
        /\ sent \in [Proc -> Nat] /\ started \in [Proc -> Nat]
    BY DEF Init
  <2>5. pause \in BOOLEAN /\ locked \in BOOLEAN
    BY DEF Init
  <2>. QED
    BY <2>1, <2>2, <2>3, <2>4, <2>5 DEF TypeOK
<1>. QED
  BY <1>1, TypeInductive, PTL DEF Spec

-----------------------------------------------------------------------------
(* Mutual exclusion *)

\* A process inside has the lock file in place.  Without this MutualExclusion
\* is not inductive: a leaked lock keeps everybody out, and only a process
\* that is inside, or a repair while nobody is, removes the file.
InsideLocked == \A p \in Proc : pc[p] \in Inside => locked
Exclusion == InsideLocked /\ MutualExclusion

\* The steps between acquiring and releasing the lock.
InsideStep(p) ==
    \/ Compare(p) \/ Stage(p) \/ AppendEvent(p) \/ Rename(p) \/ SetSentinel(p)
    \/ WriteSilently(p) \/ WritePlan(p) \/ Refresh(p) \/ AppendNote(p) \/ Throw(p)
    \/ UndoPlan(p) \/ UndoState(p) \/ UndoLedger(p) \/ UndoHook(p) \/ UndoFails(p)

\* Such a step needs its process inside and moves no other.
LEMMA InsideStepLocal ==
    ASSUME TypeOK, NEW p \in Proc, InsideStep(p)
    PROVE  /\ pc[p] \in Inside /\ locked' = locked
           /\ \A q \in Proc \ {p} : pc'[q] = pc[q]
<1>1. ASSUME Compare(p) \/ Refresh(p) \/ AppendNote(p) \/ Throw(p)
      PROVE  /\ pc[p] \in Inside /\ locked' = locked
             /\ \A q \in Proc \ {p} : pc'[q] = pc[q]
  BY <1>1 DEF Compare, Refresh, AppendNote, Throw, MayThrow, Stop, Goto, TypeOK, Inside,
     WorkSteps
<1>2. ASSUME \/ Stage(p) \/ AppendEvent(p) \/ Rename(p) \/ SetSentinel(p)
             \/ WriteSilently(p) \/ WritePlan(p)
      PROVE  /\ pc[p] \in Inside /\ locked' = locked
             /\ \A q \in Proc \ {p} : pc'[q] = pc[q]
  BY <1>2 DEF Stage, AppendEvent, Rename, SetSentinel, WriteSilently, WritePlan, Goto,
              TypeOK, Inside, WorkSteps
<1>3. ASSUME UndoPlan(p) \/ UndoState(p) \/ UndoLedger(p) \/ UndoHook(p) \/ UndoFails(p)
      PROVE  /\ pc[p] \in Inside /\ locked' = locked
             /\ \A q \in Proc \ {p} : pc'[q] = pc[q]
  BY <1>3 DEF UndoPlan, UndoState, UndoLedger, UndoHook, UndoFails, Stop, Goto, TypeOK,
     Inside, UndoSteps
<1>. QED
  BY <1>1, <1>2, <1>3 DEF InsideStep

LEMMA ExclusionHolds == Spec => []Exclusion
<1>1. Init => Exclusion
  BY DEF Init, Exclusion, InsideLocked, MutualExclusion, Inside, WorkSteps, UndoSteps
<1>2. TypeOK /\ Exclusion /\ [Next]_vars => Exclusion'
  <2> SUFFICES ASSUME TypeOK, Exclusion, [Next]_vars PROVE Exclusion'
    OBVIOUS
  <2>. USE DEF Exclusion, InsideLocked, MutualExclusion
  <2>1. ASSUME NEW p \in Proc, InsideStep(p) PROVE Exclusion'
    BY <2>1, InsideStepLocal
  <2>2. ASSUME NEW p \in Proc, Acquire(p) \/ AcquireFails(p) PROVE Exclusion'
    <3>1. CASE Acquire(p)
      <4>1. /\ ~locked /\ locked'
            /\ \A q \in Proc \ {p} : pc'[q] = pc[q]
        BY <3>1 DEF Acquire, Goto, TypeOK
      <4>2. \A q \in Proc : pc[q] \notin Inside
        BY <4>1
      <4>. QED
        BY <4>1, <4>2
    <3>2. CASE AcquireFails(p)
      BY <3>2 DEF AcquireFails, Stop, Goto, TypeOK
    <3>. QED
      BY <2>2, <3>1, <3>2
  <2>3. ASSUME NEW p \in Proc, Wait(p) PROVE Exclusion'
    BY <2>3 DEF Wait, Return, Goto, TypeOK, Inside, WorkSteps, UndoSteps
  <2>4. ASSUME NEW p \in Proc, Unlock(p) \/ Crash(p) PROVE Exclusion'
    <3>1. \A q \in Proc : pc'[q] = IF q = p THEN "idle" ELSE pc[q]
      BY <2>4 DEF Unlock, Crash, Return, Goto, TypeOK
    <3>2. pc'[p] \notin Inside
      BY <3>1 DEF Inside, WorkSteps, UndoSteps
    <3>3. CASE Unlock(p)
      <4>1. pc[p] \in Inside
        BY <3>3 DEF Unlock, Inside
      <4>2. \A q \in Proc : pc'[q] \notin Inside
        BY <3>1, <3>2, <4>1
      <4>. QED
        BY <4>2
    <3>4. CASE Crash(p)
      BY <3>1, <3>2, <3>4 DEF Crash
    <3>. QED
      BY <2>4, <3>3, <3>4
  <2>5. ASSUME NEW p \in Proc, ReadState(p) PROVE Exclusion'
    BY <2>5 DEF ReadState
  <2>6. ASSUME NEW p \in Proc, NEW j \in Jobs, StartJob(p, j) PROVE Exclusion'
    BY <2>6 DEF StartJob, Goto, TypeOK, Inside, WorkSteps, UndoSteps
  <2>7. CASE RepairLock
    BY <2>7 DEF RepairLock
  <2>8. CASE UNCHANGED vars
    BY <2>8 DEF vars
  <2>. QED
    BY <2>1, <2>2, <2>3, <2>4, <2>5, <2>6, <2>7, <2>8 DEF Next, Step, InsideStep
<1>. QED
  BY <1>1, <1>2, TypeCorrect, PTL DEF Spec

\* Two processes are never inside together, for any number of processes,
\* crashes and repairs of the lock.
THEOREM MutualExclusionHolds == Spec => []MutualExclusion
<1>1. Exclusion => MutualExclusion
  BY DEF Exclusion
<1>. QED
  BY <1>1, ExclusionHolds, PTL

-----------------------------------------------------------------------------
(* What a writer knows while it is inside *)

\* The labels at which a guarded or event job has captured the control files.
Captured == {"before", "append", "rename", "sentinel", "plan", "refresh"} \cup UndoSteps

\* What the snapshot of p says state.json held.
Read(p) == IF snap[p] = Untracked THEN Absent ELSE snap[p]
Covered(log) == Announced(log) \cup quiet \cup {Absent}

\* Nobody else writes while p is inside, so p's snapshot stays current until
\* it publishes, and what it captured is what it may have to put back.
Knows(p) ==
    /\ pc[p] \in {"before", "append", "rename", "write"} => Fresh(p)
    /\ pc[p] \in {"before", "append", "rename", "sentinel"} \cup UndoSteps =>
          job[p].kind \notin {"silent", "note"}
    /\ pc[p] = "compare" => job[p].kind # "note"
    /\ pc[p] = "write" => job[p].kind = "silent"
    /\ pc[p] = "note" => job[p].kind = "note"
    /\ pc[p] = "rename" => job[p].val \in Announced(ledger)
    /\ pc[p] = "undo_ledger" => file = saved[p].file
    /\ pc[p] \in Captured /\ job[p].kind # "silent" =>
          /\ saved[p].file = Read(p)
          /\ saved[p].file \in Covered(saved[p].ledger)
          /\ Announced(saved[p].ledger) \subseteq Announced(ledger)

StoreInv == LedgerCovers /\ \A p \in Proc : Knows(p)

LEMMA FreshIsRead ==
    ASSUME TypeOK, NEW p \in Proc
    PROVE  Fresh(p) <=> file = Read(p)
  BY DEF TypeOK, Fresh, Read

\* An event is announced by appending it, and nothing is taken back by that.
LEMMA AppendAnnounces ==
    ASSUME NEW log \in Seq(Content \cup {Note}), NEW e \in Content \cup {Note}
    PROVE  /\ Announced(log) \subseteq Announced(Append(log, e))
           /\ e # Note => e \in Announced(Append(log, e))
<1>1. /\ Append(log, e)[Len(log) + 1] = e
      /\ Len(log) + 1 \in DOMAIN Append(log, e)
  OBVIOUS
<1>2. \A i \in DOMAIN log : i \in DOMAIN Append(log, e) /\ Append(log, e)[i] = log[i]
  OBVIOUS
<1>. QED
  BY <1>1, <1>2 DEF Announced

\* A process outside has nothing to know.
LEMMA OutsideKnows ==
    ASSUME NEW q \in Proc, pc[q] \notin Inside
    PROVE  Knows(q)
  BY DEF Knows, Captured, Inside, WorkSteps, UndoSteps

LEMMA OutsideKnowsNext ==
    ASSUME NEW q \in Proc, pc'[q] \notin Inside
    PROVE  Knows(q)'
  BY DEF Knows, Captured, Inside, WorkSteps, UndoSteps

\* A step inside leaves the others outside, so only its own process's
\* knowledge has to be looked at.
LEMMA OthersOutside ==
    ASSUME TypeOK, Exclusion, NEW p \in Proc, InsideStep(p), Knows(p)', LedgerCovers'
    PROVE  StoreInv'
<1>1. ASSUME NEW q \in Proc, q # p PROVE Knows(q)'
  <2>1. pc[q] \notin Inside /\ pc'[q] = pc[q]
    BY <1>1, InsideStepLocal DEF Exclusion, MutualExclusion
  <2>. QED
    BY <2>1, OutsideKnowsNext
<1>. QED
  BY <1>1 DEF StoreInv

\* Every step inside preserves what its process knows, and the coverage.
LEMMA InsideStepKnows ==
    ASSUME TypeOK, Exclusion, StoreInv, NEW p \in Proc, InsideStep(p)
    PROVE  StoreInv'
<1>. SUFFICES Knows(p)' /\ LedgerCovers'
  BY OthersOutside
<1>0. /\ job[p] \in Jobs /\ job[p].val \in Content /\ job[p].val # Note /\ job[p].val # Absent
      /\ pc[p] \in {"idle", "lock"} \cup Inside
      /\ ledger \in Seq(Content \cup {Note}) /\ Knows(p) /\ LedgerCovers
      /\ saved[p] \in ControlFiles /\ saved[p].ledger \in Seq(Content \cup {Note})
  BY JobFacts DEF TypeOK, StoreInv, ControlFiles
<1>. USE <1>0 DEF Knows, Captured, Covered, UndoSteps, LedgerCovers, Read
<1>1. CASE Compare(p)
  <2>1. CASE pc'[p] = "unlock"
    BY <1>1, <2>1 DEF Compare, files
  <2>2. CASE pc'[p] = "write"
    BY <1>1, <2>2 DEF Compare, Stop, Goto, TypeOK, Fresh, files
  <2>3. CASE pc'[p] = "before"
    <3>1. /\ Fresh(p) /\ job[p].kind \notin {"silent", "note"}
          /\ UNCHANGED <<file, ledger, snap, job, quiet>>
          /\ saved'[p] = [file |-> file, ledger |-> ledger, planMd |-> planMd]
      BY <1>1, <2>3 DEF Compare, Stop, Goto, TypeOK, files
    <3>2. file = Read(p)
      BY <3>1, FreshIsRead
    <3>. QED
      BY <2>3, <3>1, <3>2 DEF Fresh
  <2>. QED
    BY <1>1, <2>1, <2>2, <2>3 DEF Compare, Stop, Goto, TypeOK
<1>2. CASE Stage(p)
  BY <1>2 DEF Stage, Goto, TypeOK, Fresh, files, locals
<1>3. CASE AppendEvent(p)
  <2>1. /\ EventAt(job[p], sent[p] + 1) \in Content \cup {Note}
        /\ sent[p] = job[p].extra => EventAt(job[p], sent[p] + 1) = job[p].val
    BY <1>3 DEF AppendEvent, EventAt, TypeOK
  <2>2. /\ Announced(ledger) \subseteq Announced(ledger')
        /\ sent[p] = job[p].extra => job[p].val \in Announced(ledger')
    BY <1>3, <2>1, AppendAnnounces DEF AppendEvent
  <2>. QED
    BY <1>3, <2>2 DEF AppendEvent, Goto, TypeOK, Fresh
<1>4. CASE Rename(p)
  BY <1>4 DEF Rename, Goto, TypeOK, locals
<1>5. CASE SetSentinel(p)
  <2>1. pc'[p] = "plan" /\ pc[p] = "sentinel" /\ UNCHANGED <<file, ledger, locals, quiet>>
    BY <1>5 DEF SetSentinel, Goto, TypeOK
  <2>. QED
    BY <2>1 DEF locals
<1>6. CASE WriteSilently(p)
  BY <1>6 DEF WriteSilently, Goto, TypeOK, locals
<1>7. CASE WritePlan(p)
  BY <1>7 DEF WritePlan, Goto, TypeOK, locals
<1>8. CASE Refresh(p)
  BY <1>8 DEF Refresh, Stop, Goto, TypeOK, files
<1>9. CASE AppendNote(p)
  <2>1. Announced(ledger) \subseteq Announced(ledger')
    BY <1>9, AppendAnnounces DEF AppendNote
  <2>. QED
    BY <1>9, <2>1 DEF AppendNote, Stop, Goto, TypeOK
<1>10. CASE Throw(p)
  <2>1. CASE pc'[p] = "unlock"
    BY <1>10, <2>1 DEF Throw, files
  <2>2. CASE pc'[p] = "undo_plan"
    <3>1. job[p].kind = "guarded" /\ UNCHANGED <<file, ledger, locals, quiet>>
      BY <1>10, <2>2 DEF Throw, Stop, Goto, TypeOK, files
    <3>2. pc[p] \in Captured
      BY <1>10, <3>1 DEF Throw, MayThrow, WorkSteps
    <3>. QED
      BY <2>2, <3>1, <3>2 DEF locals
  <2>. QED
    BY <1>10, <2>1, <2>2 DEF Throw, Stop, Goto, TypeOK
<1>11. CASE UndoPlan(p)
  BY <1>11 DEF UndoPlan, Stop, Goto, TypeOK, locals
<1>12. CASE UndoState(p)
  BY <1>12 DEF UndoState, Stop, Goto, TypeOK, locals
<1>13. CASE UndoLedger(p)
  BY <1>13 DEF UndoLedger, Stop, Goto, TypeOK, locals
<1>14. CASE UndoHook(p)
  BY <1>14 DEF UndoHook, Stop, Goto, TypeOK, files
<1>15. CASE UndoFails(p)
  BY <1>15 DEF UndoFails, Stop, Goto, TypeOK, files
<1>. QED
  BY <1>1, <1>2, <1>3, <1>4, <1>5, <1>6, <1>7, <1>8, <1>9, <1>10, <1>11, <1>12, <1>13,
     <1>14, <1>15 DEF InsideStep

\* Steps that touch none of the published files leave every writer's
\* knowledge alone, and those of a process outside give it none.
LEMMA OutsideStepKnows ==
    ASSUME TypeOK, Exclusion, StoreInv, [Next]_vars,
           \A p \in Proc : ~InsideStep(p)
    PROVE  StoreInv'
<1>1. CASE UNCHANGED vars
  BY <1>1 DEF vars, files, locals, StoreInv, LedgerCovers, Knows, Fresh, Read, Covered
<1>2. CASE RepairLock
  BY <1>2 DEF RepairLock, files, locals, StoreInv, LedgerCovers, Knows, Fresh, Read, Covered
<1>3. ASSUME NEW p \in Proc,
             \/ ReadState(p) \/ Wait(p) \/ Unlock(p) \/ Crash(p)
             \/ Acquire(p) \/ AcquireFails(p)
             \/ \E j \in Jobs : StartJob(p, j)
      PROVE  StoreInv'
  <2>1. UNCHANGED <<file, ledger, quiet>>
    BY <1>3 DEF ReadState, Wait, Unlock, Crash, Acquire, AcquireFails, StartJob, files
  <2>2. \A q \in Proc \ {p} :
          /\ pc'[q] = pc[q] /\ snap'[q] = snap[q]
          /\ job'[q] = job[q] /\ saved'[q] = saved[q]
    BY <1>3 DEF ReadState, Wait, Unlock, Crash, Acquire, AcquireFails, StartJob, Stop,
                Goto, Return, TypeOK, locals
  <2>3. \A q \in Proc \ {p} : Knows(q)'
    BY <2>1, <2>2 DEF StoreInv, Knows, Fresh, Read, Covered
  <2>4. pc'[p] \notin Inside \/ pc'[p] \in {"compare", "note", "unlock"}
    BY <1>3 DEF ReadState, Wait, Unlock, Crash, Acquire, AcquireFails, StartJob, Stop,
                Goto, Return, TypeOK, Inside, WorkSteps, UndoSteps
  <2>5. /\ pc'[p] = "note" => job'[p].kind = "note"
        /\ pc'[p] = "compare" => job'[p].kind # "note"
    BY <1>3 DEF ReadState, Wait, Unlock, Crash, Acquire, AcquireFails, StartJob, Stop,
                Goto, Return, TypeOK, locals
  <2>6. Knows(p)'
    BY <2>4, <2>5, OutsideKnowsNext DEF Knows, Captured, UndoSteps
  <2>. QED
    BY <2>1, <2>3, <2>6 DEF StoreInv, LedgerCovers
<1>. QED
  BY <1>1, <1>2, <1>3 DEF Next, Step, InsideStep

LEMMA StoreInvHolds == Spec => []StoreInv
<1>1. Init => StoreInv
  BY OutsideKnows DEF Init, StoreInv, LedgerCovers, Inside, WorkSteps, UndoSteps
<1>2. TypeOK /\ Exclusion /\ StoreInv /\ [Next]_vars => StoreInv'
  BY InsideStepKnows, OutsideStepKnows
<1>. QED
  BY <1>1, <1>2, TypeCorrect, ExclusionHolds, PTL DEF Spec

\* Whatever a crash, an error or a rollback leaves behind, the state on disk
\* was announced in the ledger that is on disk, or published by saveState.
THEOREM LedgerCoversHolds == Spec => []LedgerCovers
<1>1. StoreInv => LedgerCovers
  BY DEF StoreInv
<1>. QED
  BY <1>1, StoreInvHolds, PTL

-----------------------------------------------------------------------------
(* No writer overwrites what it has not read *)

LEMMA StepOwnUpdate ==
    ASSUME TypeOK, StoreInv, [Next]_vars
    PROVE  OwnUpdate
<1>1. ASSUME NEW p \in Proc, Rename(p) \/ WriteSilently(p) PROVE OwnUpdate
  BY <1>1 DEF Rename, WriteSilently, StoreInv, Knows, OwnUpdate
<1>2. ASSUME NEW p \in Proc, UndoState(p) PROVE OwnUpdate
  <2>1. saved[p].file = Read(p)
    BY <1>2 DEF UndoState, StoreInv, Knows, Captured, UndoSteps
  <2>. QED
    BY <1>2, <2>1 DEF UndoState, Read, OwnUpdate
<1>3. ASSUME \A p \in Proc : ~Rename(p) /\ ~WriteSilently(p) /\ ~UndoState(p)
      PROVE  UNCHANGED file
  BY <1>3 DEF Next, Step, ReadState, StartJob, Acquire, AcquireFails, Wait, Compare, Stage,
              AppendEvent, SetSentinel, WritePlan, Refresh, AppendNote, Throw, UndoPlan,
              UndoLedger, UndoHook, UndoFails, Unlock, Crash, RepairLock, files, vars
<1>. QED
  BY <1>1, <1>2, <1>3 DEF OwnUpdate

\* Taking events back makes the ledger shorter.
LEMMA TakenBack ==
    ASSUME NEW log \in Seq(Content \cup {Note}), NEW tail \in Seq(Content \cup {Note}),
           NEW c \in Content
    PROVE  log # Append(log \o tail, c)
<1>1. /\ Len(log) \in Nat /\ Len(tail) \in Nat
      /\ log \o tail \in Seq(Content \cup {Note}) /\ Len(log \o tail) = Len(log) + Len(tail)
  OBVIOUS
<1>2. Len(Append(log \o tail, c)) = Len(log) + Len(tail) + 1
  BY <1>1
<1>3. Len(log) # Len(log) + Len(tail) + 1
  BY <1>1
<1>. QED
  BY <1>2, <1>3

LEMMA StepFreshEvent ==
    ASSUME TypeOK, StoreInv, [Next]_vars
    PROVE  FreshEvent
<1>0. ledger \in Seq(Content \cup {Note}) /\ Note \notin Content
  BY JobFacts DEF TypeOK
<1>1. ASSUME NEW p \in Proc, AppendEvent(p) PROVE FreshEvent
  BY <1>1 DEF AppendEvent, StoreInv, Knows, FreshEvent
<1>2. ASSUME NEW p \in Proc, AppendNote(p) PROVE FreshEvent
  <2>1. ASSUME NEW c \in Content PROVE Append(ledger, Note) # Append(ledger, c)
    <3>1. /\ Append(ledger, Note)[Len(ledger) + 1] = Note
          /\ Append(ledger, c)[Len(ledger) + 1] = c
      BY <1>0
    <3>. QED
      BY <1>0, <3>1
  <2>. QED
    BY <1>2, <2>1 DEF AppendNote, FreshEvent
<1>3. ASSUME NEW p \in Proc, UndoLedger(p) PROVE FreshEvent
  <2>1. CASE ledger' = ledger
    BY <1>0, <2>1 DEF FreshEvent
  <2>2. CASE ledger' # ledger
    <3>1. ledger = saved[p].ledger \o EventsOf(job[p], sent[p]) /\ ledger' = saved[p].ledger
      BY <1>3, <2>2 DEF UndoLedger
    <3>2. saved[p].ledger \in Seq(Content \cup {Note})
          /\ EventsOf(job[p], sent[p]) \in Seq(Content \cup {Note})
      <4>1. job[p] \in Jobs /\ sent[p] \in Nat /\ saved[p] \in ControlFiles
        BY DEF TypeOK
      <4>2. job[p].val \in Content
        BY <4>1, JobFacts
      <4>3. \A i \in 1..sent[p] : EventAt(job[p], i) \in Content \cup {Note}
        BY <4>2 DEF EventAt
      <4>4. EventsOf(job[p], sent[p]) \in [1..sent[p] -> Content \cup {Note}]
        BY <4>3 DEF EventsOf
      <4>. QED
        BY <4>1, <4>4 DEF ControlFiles
    <3>. QED
      BY <3>1, <3>2, TakenBack DEF FreshEvent
  <2>. QED
    BY <2>1, <2>2
<1>4. ASSUME \A p \in Proc : ~AppendEvent(p) /\ ~AppendNote(p) /\ ~UndoLedger(p)
      PROVE  UNCHANGED ledger
  BY <1>4 DEF Next, Step, ReadState, StartJob, Acquire, AcquireFails, Wait, Compare, Stage,
              Rename, WriteSilently, SetSentinel, WritePlan, Refresh, Throw, UndoState,
              UndoPlan, UndoHook, UndoFails, Unlock, Crash, RepairLock, files, vars
<1>5. CASE UNCHANGED ledger
  BY <1>0, <1>5 DEF FreshEvent
<1>. QED
  BY <1>1, <1>2, <1>3, <1>4, <1>5

\* No lost update: state.json changes only from the content its writer had
\* read, although the read takes no lock and any number of writers compete,
\* and a writer that is refused has announced nothing.
THEOREM NoLostUpdateHolds == Spec => NoLostUpdate
<1>1. TypeOK /\ StoreInv /\ [Next]_vars => [OwnUpdate /\ FreshEvent]_vars
  BY StepOwnUpdate, StepFreshEvent
<1>. QED
  BY <1>1, TypeCorrect, StoreInvHolds, PTL DEF Spec, NoLostUpdate
-----------------------------------------------------------------------------
(* A guarded job is undone completely                                       *)

AllSent(p) == sent[p] = job[p].extra + 1

\* At every label of a job that captured the files: how they differ from what it
\* captured.  The ledger by the events it has sent, the state by what it renamed into
\* place after its last event, the plan by what it rendered.  So each restoration finds
\* either the captured file or what the job itself made of it.
Restores(p) ==
    /\ res[p] # "conflict"
    /\ pc[p] \in {"idle", "lock", "compare", "before", "write", "note"} => sent[p] = 0
    /\ pc[p] \in Captured /\ job[p].kind # "silent" =>
          /\ ledger = saved[p].ledger \o EventsOf(job[p], sent[p])
          /\ pc[p] = "undo_hook" => ledger = saved[p].ledger
          /\ pc[p] \in {"before", "append", "rename", "undo_ledger", "undo_hook"} =>
                file = saved[p].file
          /\ pc[p] \in {"rename", "sentinel", "plan", "refresh"} => AllSent(p)
          /\ pc[p] \in {"sentinel", "plan", "refresh"} => file = job[p].val
          /\ pc[p] \in {"undo_plan", "undo_state"} /\ file # saved[p].file =>
                file = job[p].val /\ AllSent(p)
          /\ planMd # saved[p].planMd =>
                /\ pc[p] \in {"refresh", "undo_plan"}
                /\ job[p].val \in WithPlan /\ planMd = job[p].val
    /\ pc[p] = "unlock" /\ res[p] = "undone" =>
          file = saved[p].file /\ ledger = saved[p].ledger /\ planMd = saved[p].planMd

RestoreInv == \A p \in Proc : Restores(p)

LEMMA EventsTyped ==
    ASSUME NEW j \in Jobs, NEW n \in Nat
    PROVE  /\ EventsOf(j, n) \in Seq(Content \cup {Note}) /\ Len(EventsOf(j, n)) = n
           /\ EventAt(j, n + 1) \in Content \cup {Note}
<1>1. \A i \in 1..(n + 1) : EventAt(j, i) \in Content \cup {Note}
  BY JobFacts DEF EventAt
<1>2. EventsOf(j, n) \in [1..n -> Content \cup {Note}]
  BY <1>1 DEF EventsOf
<1>3. EventsOf(j, n) \in Seq(Content \cup {Note})
  BY <1>2
<1>4. Len(EventsOf(j, n)) = n
  <2>1. PICK m \in Nat : m = Len(EventsOf(j, n)) /\ 1..m = 1..n
    BY <1>2, <1>3, LenProperties
  <2>2. ~(m < n) /\ ~(n < m)
    <3>1. m < n => n \in 1..n /\ n \notin 1..m
      OBVIOUS
    <3>2. n < m => m \in 1..m /\ m \notin 1..n
      OBVIOUS
    <3>. QED
      BY <2>1, <3>1, <3>2
  <2>. QED
    BY <2>1, <2>2
<1>5. EventAt(j, n + 1) \in Content \cup {Note}
  BY JobFacts DEF EventAt
<1>. QED
  BY <1>3, <1>4, <1>5

\* Sending one more event appends it.
LEMMA EventsGrow ==
    ASSUME NEW j \in Jobs, NEW n \in Nat, NEW log \in Seq(Content \cup {Note})
    PROVE  /\ Append(log \o EventsOf(j, n), EventAt(j, n + 1)) = log \o EventsOf(j, n + 1)
           /\ log \o EventsOf(j, 0) = log
<1>0. n + 1 \in Nat
  OBVIOUS
<1>1. /\ EventsOf(j, n) \in Seq(Content \cup {Note}) /\ Len(EventsOf(j, n)) = n
      /\ EventsOf(j, n + 1) \in Seq(Content \cup {Note}) /\ Len(EventsOf(j, n + 1)) = n + 1
      /\ EventAt(j, n + 1) \in Content \cup {Note}
  BY <1>0, EventsTyped
<1>2. Append(EventsOf(j, n), EventAt(j, n + 1)) = EventsOf(j, n + 1)
  <2>1. \A i \in 1..(n + 1) :
           EventsOf(j, n + 1)[i] = Append(EventsOf(j, n), EventAt(j, n + 1))[i]
    <3>1. \A i \in 1..n : EventsOf(j, n)[i] = EventAt(j, i)
      BY DEF EventsOf
    <3>2. \A i \in 1..(n + 1) : EventsOf(j, n + 1)[i] = EventAt(j, i)
      BY DEF EventsOf
    <3>. QED
      BY <1>1, <3>1, <3>2
  <2>. QED
    BY <1>1, <2>1, AppendProperties, SeqEqual
<1>3. Append(log \o EventsOf(j, n), EventAt(j, n + 1))
        = log \o Append(EventsOf(j, n), EventAt(j, n + 1))
  BY <1>1
<1>4. EventsOf(j, 0) = <<>>
  BY EventsTyped
<1>5. log \o <<>> = log
  BY ConcatEmptySeq
<1>. QED
  BY <1>2, <1>3, <1>4, <1>5

LEMMA GuardTypes ==
    ASSUME TypeOK, NEW p \in Proc
    PROVE  /\ job[p] \in Jobs /\ job[p].val \in Content /\ job[p].extra \in Nat
           /\ pc[p] \in {"idle", "lock"} \cup Inside
           /\ sent[p] \in Nat /\ ledger \in Seq(Content \cup {Note})
           /\ saved[p].ledger \in Seq(Content \cup {Note})
  BY JobFacts DEF TypeOK, ControlFiles

\* One step of a process inside, seen by that process.
LEMMA InsideStepRestores ==
    ASSUME TypeOK, StoreInv, NEW p \in Proc, Restores(p), InsideStep(p)
    PROVE  Restores(p)'
<1>0. /\ job[p] \in Jobs /\ job[p].val \in Content /\ job[p].extra \in Nat
      /\ pc[p] \in {"idle", "lock"} \cup Inside
      /\ sent[p] \in Nat /\ ledger \in Seq(Content \cup {Note})
      /\ saved[p].ledger \in Seq(Content \cup {Note})
  BY GuardTypes
<1>00. /\ pc[p] \in {"before", "append", "rename", "sentinel"} => job[p].kind # "silent"
       /\ pc[p] \in UndoSteps => job[p].kind # "silent"
       /\ pc[p] = "write" => job[p].kind = "silent"
  BY DEF StoreInv, Knows, UndoSteps
<1>. USE <1>0, <1>00 DEF Restores, Captured, UndoSteps, AllSent
<1>1. CASE Compare(p)
  <2>1. CASE pc'[p] \in {"unlock", "write"}
    BY <1>1, <2>1 DEF Compare, Stop, Goto, TypeOK
  <2>2. CASE pc'[p] = "before"
    <3>1. /\ sent'[p] = 0 /\ job' = job /\ res' = res /\ UNCHANGED <<file, ledger, planMd>>
          /\ saved'[p] = [file |-> file, ledger |-> ledger, planMd |-> planMd]
      BY <1>1, <2>2 DEF Compare, Stop, Goto, TypeOK, files
    <3>2. ledger = ledger \o EventsOf(job[p], 0)
      BY EventsGrow
    <3>. QED
      BY <2>2, <3>1, <3>2
  <2>. QED
    BY <1>1, <2>1, <2>2 DEF Compare, Stop, Goto, TypeOK
<1>2. CASE Stage(p)
  BY <1>2 DEF Stage, Goto, TypeOK, files, locals
<1>3. CASE AppendEvent(p)
  <2>1. /\ ledger' = Append(ledger, EventAt(job[p], sent[p] + 1))
        /\ sent'[p] = sent[p] + 1 /\ pc[p] = "append"
        /\ pc'[p] = IF sent[p] = job[p].extra THEN "rename" ELSE "append"
        /\ UNCHANGED <<file, planMd, job, saved, res>>
    BY <1>3 DEF AppendEvent, Goto, TypeOK
  <2>2. ledger' = saved[p].ledger \o EventsOf(job[p], sent[p] + 1)
    <3>1. ledger = saved[p].ledger \o EventsOf(job[p], sent[p])
      BY <2>1
    <3>2. Append(saved[p].ledger \o EventsOf(job[p], sent[p]), EventAt(job[p], sent[p] + 1))
            = saved[p].ledger \o EventsOf(job[p], sent[p] + 1)
      <4>1. job[p] \in Jobs /\ sent[p] \in Nat /\ saved[p].ledger \in Seq(Content \cup {Note})
        BY <1>0
      <4>. QED
        BY <4>1, EventsGrow
    <3>. QED
      BY <2>1, <3>1, <3>2
  <2>. QED
    BY <2>1, <2>2
<1>4. CASE Rename(p)
  BY <1>4 DEF Rename, Goto, TypeOK, locals
<1>5. CASE SetSentinel(p)
  BY <1>5 DEF SetSentinel, Goto, TypeOK, locals
<1>6. CASE WriteSilently(p)
  BY <1>6 DEF WriteSilently, Goto, TypeOK, locals
<1>7. CASE WritePlan(p)
  BY <1>7 DEF WritePlan, Goto, TypeOK, locals
<1>8. CASE Refresh(p)
  BY <1>8 DEF Refresh, Stop, Goto, TypeOK
<1>9. CASE AppendNote(p)
  BY <1>9 DEF AppendNote, Stop, Goto, TypeOK
<1>10. CASE Throw(p)
  <2>1. CASE pc'[p] = "unlock"
    BY <1>10, <2>1 DEF Throw, Stop, Goto, TypeOK
  <2>2. CASE pc'[p] = "undo_plan"
    <3>1. /\ job[p].kind = "guarded" /\ UNCHANGED <<file, ledger, planMd, locals, res>>
          /\ pc[p] \in WorkSteps
      BY <1>10, <2>2 DEF Throw, Stop, Goto, TypeOK, files, MayThrow, WorkSteps, StoreInv, Knows
    <3>. QED
      BY <2>2, <3>1 DEF locals, WorkSteps
  <2>. QED
    BY <1>10, <2>1, <2>2 DEF Throw, Stop, Goto, TypeOK
<1>11. CASE UndoPlan(p)
  BY <1>11 DEF UndoPlan, Stop, Goto, TypeOK, locals
<1>12. CASE UndoState(p)
  BY <1>12 DEF UndoState, Stop, Goto, TypeOK, locals
<1>13. CASE UndoLedger(p)
  <2>1. saved[p].ledger = saved[p].ledger \o EventsOf(job[p], 0)
    BY EventsGrow
  <2>. QED
    BY <1>13, <2>1 DEF UndoLedger, Stop, Goto, TypeOK
<1>14. CASE UndoHook(p)
  BY <1>14 DEF UndoHook, Stop, Goto, TypeOK, files, locals
<1>15. CASE UndoFails(p)
  BY <1>15 DEF UndoFails, Stop, Goto, TypeOK, files, locals
<1>. QED
  BY <1>1, <1>2, <1>3, <1>4, <1>5, <1>6, <1>7, <1>8, <1>9, <1>10, <1>11, <1>12, <1>13,
     <1>14, <1>15 DEF InsideStep

\* What a process outside has to know, the others' steps leave alone.
LEMMA OthersRestore ==
    ASSUME NEW q \in Proc, Restores(q), pc[q] \notin Inside,
           pc'[q] = pc[q], res'[q] = res[q], sent'[q] = sent[q]
    PROVE  Restores(q)'
  BY DEF Restores, Captured, Inside, WorkSteps, UndoSteps

LEMMA InsideStepResults ==
    ASSUME TypeOK, NEW p \in Proc, InsideStep(p), NEW q \in Proc, q # p
    PROVE  res'[q] = res[q] /\ sent'[q] = sent[q]
<1>. USE DEF TypeOK
<1>1. CASE Compare(p) \/ Refresh(p) \/ AppendNote(p) \/ Throw(p)
  BY <1>1 DEF Compare, Refresh, AppendNote, Throw, Stop, locals
<1>2. CASE AppendEvent(p)
  BY <1>2 DEF AppendEvent
<1>3. CASE Stage(p) \/ Rename(p) \/ SetSentinel(p) \/ WriteSilently(p) \/ WritePlan(p)
  BY <1>3 DEF Stage, Rename, SetSentinel, WriteSilently, WritePlan, locals
<1>4. CASE UndoPlan(p) \/ UndoState(p) \/ UndoLedger(p) \/ UndoHook(p) \/ UndoFails(p)
  BY <1>4 DEF UndoPlan, UndoState, UndoLedger, UndoHook, UndoFails, Stop, locals
<1>. QED
  BY <1>1, <1>2, <1>3, <1>4 DEF InsideStep

LEMMA RestoreInductive ==
    ASSUME TypeOK, Exclusion, StoreInv, RestoreInv, [Next]_vars
    PROVE  RestoreInv'
<1>1. ASSUME NEW p \in Proc, InsideStep(p) PROVE RestoreInv'
  <2>1. Restores(p)'
    BY <1>1, InsideStepRestores DEF RestoreInv
  <2>2. ASSUME NEW q \in Proc, q # p PROVE Restores(q)'
    <3>1. pc[q] \notin Inside /\ pc'[q] = pc[q]
      BY <1>1, <2>2, InsideStepLocal DEF Exclusion, MutualExclusion
    <3>2. res'[q] = res[q] /\ sent'[q] = sent[q]
      BY <1>1, <2>2, InsideStepResults
    <3>. QED
      BY <3>1, <3>2, OthersRestore DEF RestoreInv
  <2>. QED
    BY <2>1, <2>2 DEF RestoreInv
<1>2. ASSUME NEW p \in Proc,
             \/ ReadState(p) \/ Wait(p) \/ Unlock(p) \/ Crash(p)
             \/ Acquire(p) \/ AcquireFails(p)
             \/ \E j \in Jobs : StartJob(p, j)
      PROVE  RestoreInv'
  <2>1. UNCHANGED <<file, ledger, planMd>>
    BY <1>2 DEF ReadState, Wait, Unlock, Crash, Acquire, AcquireFails, StartJob, files
  <2>2. \A q \in Proc \ {p} :
          /\ pc'[q] = pc[q] /\ res'[q] = res[q] /\ sent'[q] = sent[q]
          /\ job'[q] = job[q] /\ saved'[q] = saved[q]
    BY <1>2 DEF ReadState, Wait, Unlock, Crash, Acquire, AcquireFails, StartJob, Stop,
                Goto, Return, TypeOK, locals
  <2>3. ASSUME NEW q \in Proc \ {p} PROVE Restores(q)'
    <3>1. /\ Restores(q) /\ pc'[q] = pc[q] /\ res'[q] = res[q] /\ sent'[q] = sent[q]
          /\ job'[q] = job[q] /\ saved'[q] = saved[q]
      BY <2>2, <2>3 DEF RestoreInv
    <3>. QED
      BY <2>1, <3>1 DEF Restores, AllSent
  <2>4. Restores(p)
    BY DEF RestoreInv
  <2>5. Restores(p)'
    <3>1. CASE Wait(p) \/ Unlock(p) \/ Crash(p)
      BY <2>4, <3>1 DEF Restores, Captured, UndoSteps, Wait, Unlock, Crash, Return, Goto,
         TypeOK
    <3>2. CASE Acquire(p) \/ AcquireFails(p)
      BY <2>4, <3>2 DEF Restores, Captured, UndoSteps, Acquire, AcquireFails, Stop, Goto,
         TypeOK, locals
    <3>3. CASE ReadState(p) \/ \E j \in Jobs : StartJob(p, j)
      BY <2>4, <3>3 DEF Restores, Captured, UndoSteps, ReadState, StartJob, Goto, TypeOK
    <3>. QED
      BY <1>2, <3>1, <3>2, <3>3
  <2>. QED
    BY <2>3, <2>5 DEF RestoreInv
<1>3. CASE RepairLock \/ UNCHANGED vars
  <2>1. UNCHANGED <<file, ledger, planMd, pc, job, sent, saved, res>>
    BY <1>3 DEF RepairLock, vars, files, locals
  <2>2. ASSUME NEW q \in Proc PROVE Restores(q)'
    <3>1. Restores(q)
      BY DEF RestoreInv
    <3>. QED
      BY <2>1, <3>1 DEF Restores, AllSent
  <2>. QED
    BY <2>2 DEF RestoreInv
<1>. QED
  BY <1>1, <1>2, <1>3 DEF Next, Step, InsideStep

LEMMA RestoreInvHolds == Spec => []RestoreInv
<1>1. Init => RestoreInv
  BY DEF Init, RestoreInv, Restores, Captured, UndoSteps
<1>. QED
  BY <1>1, RestoreInductive, TypeCorrect, ExclusionHolds, StoreInvHolds, PTL DEF Spec

\* A guarded job that fails is undone completely, for any job, contents and number of
\* events: state, ledger and plan are what it captured, and no restoration meets bytes
\* that are neither those nor its own.
THEOREM GuardedAllOrNothingHolds == Spec => []GuardedAllOrNothing
<1>1. RestoreInv => GuardedAllOrNothing
  BY DEF RestoreInv, Restores, GuardedAllOrNothing
<1>. QED
  BY <1>1, RestoreInvHolds, PTL

-----------------------------------------------------------------------------
(* The store implements the atomic register                                 *)

LEMMA ReadIsSeen ==
    ASSUME NEW p \in Proc
    PROVE  A!Seen(p) = Read(p)
  BY DEF A!Seen, Read

\* Whose turn it is: the processes inside.
LEMMA TurnOf ==
    ASSUME Exclusion, NEW p \in Proc, pc[p] \in Inside
    PROVE  Turn = {p}
  BY DEF Exclusion, MutualExclusion, Turn

LEMMA TurnKept ==
    ASSUME \A q \in Proc : pc'[q] \in Inside <=> pc[q] \in Inside
    PROVE  Turn' = Turn
  BY DEF Turn

\* A step inside is the writer's turn, which ends with Unlock only.
LEMMA InsideStepTurn ==
    ASSUME TypeOK, Exclusion, NEW p \in Proc, InsideStep(p)
    PROVE  Turn = {p} /\ Turn' = {p}
<1>1. pc[p] \in Inside /\ \A q \in Proc \ {p} : pc'[q] = pc[q]
  BY InsideStepLocal
<1>2. pc'[p] \in Inside
  BY DEF InsideStep, Compare, Stage, AppendEvent, Rename, SetSentinel, WriteSilently, WritePlan,
     Refresh, AppendNote, Throw, UndoPlan, UndoState, UndoLedger, UndoHook, UndoFails, Stop,
     Goto, TypeOK, Inside, WorkSteps, UndoSteps
<1>3. Turn' = Turn
  BY <1>1, <1>2, TurnKept
<1>. QED
  BY <1>1, <1>3, TurnOf

\* A job that has sent nothing has no event to take back.
LEMMA NothingSent ==
    ASSUME NEW j
    PROVE  EventsOf(j, 0) = <<>>
<1>1. \A i : i \notin 1..0
  OBVIOUS
<1>2. EventsOf(j, 0) = [i \in {} |-> EventAt(j, i)]
  BY <1>1 DEF EventsOf
<1>. QED
  BY <1>2

\* The last event of a job that has sent all is its own.
LEMMA LastIsOwn ==
    ASSUME NEW j \in Jobs, j.kind # "note"
    PROVE  /\ EventsOf(j, j.extra + 1) # <<>>
           /\ EventsOf(j, j.extra + 1)[Len(EventsOf(j, j.extra + 1))] = j.val
<1>1. j.extra + 1 \in Nat /\ j.extra + 1 \in 1..(j.extra + 1)
  BY JobFacts
<1>2. Len(EventsOf(j, j.extra + 1)) = j.extra + 1
  BY <1>1, EventsTyped
<1>3. EventsOf(j, j.extra + 1)[j.extra + 1] = j.val
  BY <1>1, JobFacts DEF EventsOf, EventAt
<1>. QED
  BY <1>1, <1>2, <1>3

\* A job that ends, or whose process dies, leaves no attempt.
LEMMA ReturnEnds ==
    ASSUME TypeOK, NEW p \in Proc, Return(p), UNCHANGED file
    PROVE  /\ Added' = [Added EXCEPT ![p] = <<>>]
           /\ Over' = [Over EXCEPT ![p] = {}]
<1>1. sent'[p] = 0 /\ \A q \in Proc \ {p} : /\ sent'[q] = sent[q] /\ job'[q] = job[q]
                                            /\ saved'[q] = saved[q]
  BY DEF Return, TypeOK
<1>2. EventsOf(job'[p], sent'[p]) = <<>> /\ OverOf(p)' = {}
  BY <1>1, NothingSent DEF OverOf
<1>3. \A q \in Proc \ {p} : OverOf(q)' = OverOf(q)
  BY <1>1 DEF OverOf
<1>. QED
  BY <1>1, <1>2, <1>3 DEF Added, Over

\* Only the process inside has added or replaced anything.
LEMMA OutsideSent ==
    ASSUME TypeOK, RestoreInv, NEW q \in Proc, pc[q] \notin Inside
    PROVE  sent[q] = 0
  BY DEF TypeOK, RestoreInv, Restores

LEMMA OutsideClean ==
    ASSUME NEW q \in Proc, sent[q] = 0
    PROVE  Added[q] = <<>> /\ Over[q] = {}
  BY NothingSent DEF Added, Over, OverOf

\* What a step of p inside does to the attempts: those of the others stay empty.
LEMMA InsideStepAttempts ==
    ASSUME TypeOK, Exclusion, RestoreInv, NEW p \in Proc, InsideStep(p)
    PROVE  /\ Added' = [Added EXCEPT ![p] = EventsOf(job'[p], sent'[p])]
           /\ Over' = [Over EXCEPT ![p] = OverOf(p)']
<1>1. ASSUME NEW q \in Proc, q # p
      PROVE  /\ EventsOf(job'[q], sent'[q]) = EventsOf(job[q], sent[q])
             /\ OverOf(q)' = OverOf(q)
  <2>1. pc[q] \notin Inside
    BY <1>1, InsideStepLocal DEF Exclusion, MutualExclusion
  <2>2. sent[q] = 0 /\ sent'[q] = 0
    BY <1>1, <2>1, OutsideSent, InsideStepResults
  <2>. QED
    BY <2>2, NothingSent DEF OverOf
<1>. QED
  BY <1>1 DEF Added, Over

\* A step inside that sends and takes back nothing adds nothing, and replaces nothing
\* unless it changes state.json.
LEMMA InsideStepKeeps ==
    ASSUME TypeOK, Exclusion, RestoreInv, NEW p \in Proc, InsideStep(p),
           job' = job, sent' = sent
    PROVE  /\ Added' = Added
           /\ file' = file /\ saved' = saved => Over' = Over
<1>1. Added' = Added
  BY DEF Added
<1>. QED
  BY <1>1 DEF Over, OverOf

\* What each step inside is to a caller: a note, an announcement, a publication, a
\* withdrawal of what it published, a retraction of what it announced, or nothing.
LEMMA InsideStepRefines ==
    ASSUME TypeOK, Exclusion, StoreInv, RestoreInv, NEW p \in Proc, InsideStep(p)
    PROVE  A!Next \/ UNCHANGED A!vars
<1>0. /\ job[p] \in Jobs /\ job[p].val \in Content /\ job[p].extra \in Nat
      /\ pc[p] \in {"idle", "lock"} \cup Inside
      /\ sent[p] \in Nat /\ ledger \in Seq(Content \cup {Note})
      /\ saved[p].ledger \in Seq(Content \cup {Note})
  BY GuardTypes
<1>1. Turn = {p} /\ Turn' = {p} /\ A!Seen(p) = Read(p)
  BY InsideStepTurn, ReadIsSeen
<1>2. Restores(p) /\ Knows(p)
  BY DEF RestoreInv, StoreInv
<1>3. /\ Added' = [Added EXCEPT ![p] = EventsOf(job'[p], sent'[p])]
      /\ Over' = [Over EXCEPT ![p] = OverOf(p)']
      /\ Added[p] = EventsOf(job[p], sent[p]) /\ Over[p] = OverOf(p)
  BY InsideStepAttempts DEF Added, Over
<1>4. CASE AppendEvent(p)
  <2>1. /\ ledger' = Append(ledger, EventAt(job[p], sent[p] + 1))
        /\ sent'[p] = sent[p] + 1
        /\ UNCHANGED <<file, snap, quiet, job, saved>> /\ pc[p] = "append"
    BY <1>4 DEF AppendEvent, TypeOK
  <2>2. file = Read(p) /\ file = saved[p].file /\ job[p].kind \notin {"silent", "note"}
    BY <1>2, <2>1, FreshIsRead DEF Knows, Captured
  <2>3. Added' = [Added EXCEPT ![p] = Append(@, EventAt(job[p], sent[p] + 1))]
    <3>1. Append(<<>> \o EventsOf(job[p], sent[p]), EventAt(job[p], sent[p] + 1))
            = <<>> \o EventsOf(job[p], sent[p] + 1)
      <4>1. <<>> \in Seq(Content \cup {Note})
        OBVIOUS
      <4>. QED
        BY <1>0, <4>1, EventsGrow
    <3>2. /\ <<>> \o EventsOf(job[p], sent[p]) = EventsOf(job[p], sent[p])
          /\ <<>> \o EventsOf(job[p], sent[p] + 1) = EventsOf(job[p], sent[p] + 1)
      <4>1. /\ EventsOf(job[p], sent[p]) \in Seq(Content \cup {Note})
            /\ EventsOf(job[p], sent[p] + 1) \in Seq(Content \cup {Note})
        BY <1>0, EventsTyped
      <4>. QED
        BY <4>1, ConcatEmptySeq
    <3>. QED
      BY <1>3, <2>1, <3>1, <3>2
  <2>4. Over' = Over
    BY <1>3, <2>1, <2>2 DEF OverOf, Over
  <2>5. A!Add(p, EventAt(job[p], sent[p] + 1))
    BY <1>1, <2>1, <2>3, <2>4 DEF A!Add
  <2>6. CASE EventAt(job[p], sent[p] + 1) = Note
    BY <1>1, <2>5, <2>6 DEF A!Remark, A!Next
  <2>7. CASE EventAt(job[p], sent[p] + 1) = job[p].val
    <3>1. A!Announce(p, job[p].val)
      BY <1>1, <2>2, <2>5, <2>7 DEF A!Announce
    <3>. QED
      BY <1>0, <3>1 DEF A!Next
  <2>. QED
    BY <2>6, <2>7 DEF EventAt
<1>5. CASE Rename(p)
  <2>1. /\ file' = job[p].val /\ pc[p] = "rename"
        /\ UNCHANGED <<ledger, snap, quiet, job, sent, saved>>
    BY <1>5 DEF Rename, locals
  <2>2. /\ file = Read(p) /\ file = saved[p].file /\ AllSent(p)
        /\ job[p].kind \notin {"silent", "note"}
    BY <1>2, <2>1, FreshIsRead DEF Knows, Restores, Captured
  <2>3. A!Announces(p, job[p].val)
    <3>1. Added[p] = EventsOf(job[p], job[p].extra + 1)
      BY <1>3, <2>2 DEF AllSent
    <3>. QED
      BY <1>0, <2>2, <3>1, LastIsOwn DEF A!Announces
  <2>4. Over' = [Over EXCEPT ![p] = {file} \ {job[p].val}]
    <3>1. sent[p] # 0
      BY <1>0, <2>2 DEF AllSent
    <3>2. OverOf(p)' = {file} \ {job[p].val}
      BY <2>1, <2>2, <3>1 DEF OverOf
    <3>. QED
      BY <1>3, <3>2
  <2>5. Added' = Added
    BY <2>1, InsideStepKeeps
  <2>6. A!Publish(p, job[p].val)
    BY <1>1, <2>1, <2>2, <2>3, <2>4, <2>5 DEF A!Publish
  <2>. QED
    BY <1>0, <2>6 DEF A!Next
<1>6. CASE WriteSilently(p)
  <2>1. /\ file' = job[p].val /\ quiet' = quiet \cup {job[p].val}
        /\ UNCHANGED <<ledger, snap, job, sent, saved>> /\ pc[p] = "write"
    BY <1>6 DEF WriteSilently, locals
  <2>2. file = Read(p) /\ sent[p] = 0
    BY <1>2, <2>1, FreshIsRead DEF Knows, Restores
  <2>3. Added[p] = <<>> /\ Over[p] = {} /\ OverOf(p)' = {}
    BY <2>1, <2>2, OutsideClean DEF OverOf
  <2>4. Over' = Over /\ Added' = Added
    BY <1>3, <2>1, <2>3, InsideStepKeeps DEF Over
  <2>5. A!PublishQuietly(p, job[p].val)
    BY <1>1, <2>1, <2>2, <2>3, <2>4 DEF A!PublishQuietly
  <2>. QED
    BY <1>0, <2>5 DEF A!Next
<1>7. CASE Refresh(p)
  <2>1. UNCHANGED <<file, ledger, job, sent, saved, quiet>> /\ snap' = [snap EXCEPT ![p] = file]
    BY <1>7 DEF Refresh, files
  <2>2. Added' = Added /\ Over' = Over
    BY <2>1, InsideStepKeeps
  <2>3. A!Learn(p)
    BY <1>1, <2>1, <2>2 DEF A!Learn
  <2>. QED
    BY <2>3 DEF A!Next
<1>8. CASE AppendNote(p)
  <2>1. /\ ledger' = Append(ledger, Note) /\ sent'[p] = 1 /\ pc[p] = "note"
        /\ UNCHANGED <<file, snap, quiet, job, saved>>
    BY <1>8 DEF AppendNote, TypeOK
  <2>2. sent[p] = 0 /\ job[p].kind = "note"
    BY <1>2, <2>1 DEF Restores, Knows
  <2>3. EventsOf(job[p], 1) = Append(<<>>, Note)
    <3>1. EventsOf(job[p], 1) = [i \in 1..1 |-> Note]
      BY <2>2 DEF EventsOf, EventAt
    <3>. QED
      BY <3>1
  <2>4. Added' = [Added EXCEPT ![p] = Append(@, Note)]
    <3>1. Added[p] = <<>>
      BY <2>2, OutsideClean
    <3>2. Added' = [Added EXCEPT ![p] = EventsOf(job[p], 1)]
      BY <1>3, <2>1
    <3>. QED
      BY <2>3, <3>1, <3>2
  <2>5. Over' = Over
    BY <1>3, <2>1, <2>2 DEF OverOf, Over
  <2>6. A!Remark(p)
    BY <1>1, <2>1, <2>4, <2>5 DEF A!Remark, A!Add
  <2>. QED
    BY <2>6 DEF A!Next
<1>9. CASE UndoState(p) /\ file' # file
  <2>1. /\ pc[p] = "undo_state" /\ file # saved[p].file /\ file' = saved[p].file
        /\ UNCHANGED <<ledger, snap, quiet, job, sent, saved>>
    BY <1>9 DEF UndoState, locals
  <2>2. file = job[p].val /\ AllSent(p) /\ job[p].kind \notin {"silent", "note"}
    BY <1>2, <2>1 DEF Knows, Restores, Captured, UndoSteps
  <2>3. A!Announces(p, file)
    <3>1. Added[p] = EventsOf(job[p], job[p].extra + 1)
      BY <1>3, <2>2 DEF AllSent
    <3>. QED
      BY <1>0, <2>2, <3>1, LastIsOwn DEF A!Announces
  <2>4. file' \in Over[p] /\ Over' = [Over EXCEPT ![p] = {}]
    <3>1. sent[p] # 0
      BY <1>0, <2>2 DEF AllSent
    <3>2. OverOf(p) = {saved[p].file} /\ OverOf(p)' = {}
      BY <2>1, <2>2, <3>1 DEF OverOf
    <3>. QED
      BY <1>3, <2>1, <3>2
  <2>5. Added' = Added
    BY <2>1, InsideStepKeeps
  <2>6. A!Withdraw(p)
    BY <1>1, <2>1, <2>3, <2>4, <2>5 DEF A!Withdraw
  <2>. QED
    BY <2>6 DEF A!Next
<1>10. CASE UndoLedger(p) /\ ledger' # ledger
  <2>1. /\ pc[p] = "undo_ledger" /\ ledger' = saved[p].ledger /\ sent'[p] = 0
        /\ ledger = saved[p].ledger \o EventsOf(job[p], sent[p])
        /\ UNCHANGED <<file, snap, quiet, job, saved>>
    BY <1>10 DEF UndoLedger, TypeOK
  <2>2. Over[p] = {} /\ OverOf(p)' = {}
    BY <1>2, <1>3, <2>1 DEF Knows, OverOf
  <2>3. Added' = [Added EXCEPT ![p] = <<>>] /\ Over' = Over
    BY <1>3, <2>1, <2>2, NothingSent DEF Over
  <2>4. A!Retract(p)
    BY <1>1, <1>3, <2>1, <2>2, <2>3 DEF A!Retract
  <2>. QED
    BY <2>4 DEF A!Next
<1>11. ASSUME \/ Stage(p) \/ SetSentinel(p) \/ WritePlan(p) \/ Throw(p)
              \/ UndoPlan(p) \/ UndoHook(p) \/ UndoFails(p)
       PROVE  UNCHANGED A!vars
  <2>1. UNCHANGED <<file, ledger, snap, quiet, job, sent, saved>>
    BY <1>11 DEF Stage, SetSentinel, WritePlan, Throw, UndoPlan, UndoHook, UndoFails, files,
       locals
  <2>. QED
    BY <1>1, <2>1, InsideStepKeeps DEF A!vars
<1>12. CASE Compare(p)
  <2>1. UNCHANGED <<file, ledger, snap, quiet, job, sent>> /\ sent[p] = 0
    BY <1>2, <1>12 DEF Compare, files, Restores
  <2>2. Over' = Over
    BY <1>3, <2>1 DEF OverOf, Over
  <2>. QED
    BY <1>1, <2>1, <2>2, InsideStepKeeps DEF A!vars
<1>13. CASE UndoState(p) /\ file' = file
  BY <1>1, <1>13, InsideStepKeeps DEF UndoState, locals, A!vars
<1>14. CASE UndoLedger(p) /\ ledger' = ledger
  <2>1. UNCHANGED <<file, snap, quiet, job, saved>> /\ pc[p] = "undo_ledger"
    BY <1>14 DEF UndoLedger
  <2>2. sent' = sent
    <3>1. CASE sent' # sent
      <4>1. /\ ledger # saved[p].ledger /\ ledger' = saved[p].ledger
        BY <1>14, <3>1 DEF UndoLedger
      <4>. QED
        BY <1>14, <4>1
    <3>. QED
      BY <3>1
  <2>. QED
    BY <1>1, <1>14, <2>1, <2>2, InsideStepKeeps DEF A!vars
<1>. QED
  BY <1>4, <1>5, <1>6, <1>7, <1>8, <1>9, <1>10, <1>11, <1>12, <1>13, <1>14 DEF InsideStep

\* The other steps: taking and leaving the turn, reading, forgetting, or nothing.
LEMMA OutsideStepRefines ==
    ASSUME TypeOK, Exclusion, RestoreInv, [Next]_vars, \A p \in Proc : ~InsideStep(p)
    PROVE  A!Next \/ UNCHANGED A!vars
<1>. USE DEF Inside, WorkSteps, UndoSteps
<1>1. CASE RepairLock \/ UNCHANGED vars
  BY <1>1 DEF RepairLock, vars, files, locals, A!vars, Turn, Added, Over, OverOf
<1>2. ASSUME NEW p \in Proc, Acquire(p) \/ AcquireFails(p) PROVE A!Next
  <2>1. ~locked /\ UNCHANGED <<file, ledger, snap, quiet, job, sent, saved>>
    BY <1>2 DEF Acquire, AcquireFails, files, locals
  <2>2. pc'[p] \in Inside /\ \A q \in Proc \ {p} : pc'[q] = pc[q]
    BY <1>2 DEF Acquire, AcquireFails, Stop, Goto, TypeOK
  <2>3. \A q \in Proc : pc[q] \notin Inside
    BY <2>1 DEF Exclusion, InsideLocked
  <2>4. Turn = {} /\ Turn' = {p}
    BY <2>2, <2>3 DEF Turn
  <2>5. Added' = Added /\ Over' = Over
    BY <2>1 DEF Added, Over, OverOf
  <2>. QED
    BY <2>1, <2>4, <2>5 DEF A!Open, A!Next
<1>3. ASSUME NEW p \in Proc, Unlock(p) PROVE A!Next
  <2>1. pc[p] \in Inside /\ UNCHANGED <<file, ledger, snap, quiet>>
    BY <1>3 DEF Unlock, files
  <2>2. \A q \in Proc : pc'[q] = IF q = p THEN "idle" ELSE pc[q]
    BY <1>3 DEF Unlock, Return, Goto, TypeOK
  <2>3. Turn = {p}
    BY <2>1, TurnOf
  <2>4. Turn' = Turn \ {p}
    BY <2>2, <2>3 DEF Turn
  <2>5. A!Done(p)
    BY <1>3, <2>1, <2>4, ReturnEnds DEF A!Done, Unlock
  <2>. QED
    BY <2>1, <2>3, <2>5 DEF A!Close, A!Next
<1>4. ASSUME NEW p \in Proc, Crash(p) PROVE A!Next
  <2>1. UNCHANGED <<file, ledger, quiet>> /\ snap' = [snap EXCEPT ![p] = Untracked]
    BY <1>4 DEF Crash, files
  <2>2. \A q \in Proc : pc'[q] = IF q = p THEN "idle" ELSE pc[q]
    BY <1>4 DEF Crash, Return, Goto, TypeOK
  <2>3. Turn' = Turn \ {p}
    BY <2>2 DEF Turn
  <2>4. A!Done(p)
    BY <1>4, <2>1, <2>3, ReturnEnds DEF A!Done, Crash
  <2>. QED
    BY <2>1, <2>4 DEF A!Forget, A!Next
<1>5. ASSUME NEW p \in Proc, ReadState(p) PROVE A!Next
  BY <1>5 DEF ReadState, Turn, files, Added, Over, OverOf, A!Learn, A!Next
<1>6. ASSUME NEW p \in Proc, Wait(p) \/ \E j \in Jobs : StartJob(p, j)
      PROVE  UNCHANGED A!vars
  <2>1. UNCHANGED <<file, ledger, snap, quiet>>
    BY <1>6 DEF Wait, StartJob, files
  <2>2. \A q \in Proc : pc'[q] \in Inside <=> pc[q] \in Inside
    BY <1>6 DEF Wait, StartJob, Return, Goto, TypeOK
  <2>3. /\ sent[p] = 0 /\ sent'[p] = 0
        /\ \A q \in Proc \ {p} : /\ sent'[q] = sent[q] /\ job'[q] = job[q]
                                 /\ saved'[q] = saved[q]
    BY <1>6, OutsideSent DEF Wait, StartJob, Return, Goto, TypeOK
  <2>4. \A q \in Proc : /\ EventsOf(job'[q], sent'[q]) = EventsOf(job[q], sent[q])
                        /\ OverOf(q)' = OverOf(q)
    BY <2>1, <2>3, NothingSent DEF OverOf
  <2>5. Added' = Added /\ Over' = Over
    BY <2>4 DEF Added, Over
  <2>. QED
    BY <2>1, <2>2, <2>5, TurnKept DEF A!vars
<1>. QED
  BY <1>1, <1>2, <1>3, <1>4, <1>5, <1>6 DEF Next, Step, InsideStep

\* The file-level store implements the compare-and-set register beside its history, for
\* any processes, contents and jobs: every file operation, crash and repair is a step
\* of AtomicStore or invisible to the callers.  A rollback takes back the state its own
\* attempt put and the events its own attempt added, and leaves what was there before.
THEOREM Refinement == Spec => ImplementsAtomicStore
<1>1. Init => A!Init
  <2> SUFFICES ASSUME Init PROVE A!Init
    OBVIOUS
  <2>1. \A p \in Proc : EventsOf(job[p], sent[p]) = <<>> /\ OverOf(p) = {}
    BY NothingSent DEF Init, OverOf
  <2>2. Added = [p \in Proc |-> <<>>] /\ Over = [p \in Proc |-> {}]
    BY <2>1 DEF Added, Over
  <2>. QED
    BY <2>2 DEF Init, A!Init, Turn, Inside, WorkSteps, UndoSteps
<1>2. TypeOK /\ Exclusion /\ StoreInv /\ RestoreInv /\ [Next]_vars => [A!Next]_A!vars
  BY InsideStepRefines, OutsideStepRefines
<1>. QED
  BY <1>1, <1>2, TypeCorrect, ExclusionHolds, StoreInvHolds, RestoreInvHolds, PTL
  DEF Spec, ImplementsAtomicStore, A!Spec
=============================================================================
