-------------------------- MODULE RunLifecycleProofs ------------------------
(***************************************************************************)
(* Proofs about RunLifecycle for any runs, any number of approvals and any *)
(* budget: the invariants its runs check, each with the strengthening that *)
(* makes it inductive where it is not, and the finality of a native pause. *)
(***************************************************************************)
EXTENDS RunLifecycle, TLAPS

USE LifecycleAssumption DEF driverVars

-----------------------------------------------------------------------------
(* Type correctness *)

\* What a fresh run starts with.
LEMMA FreshTyped ==
    /\ NoGates \in [Gates -> Ids \cup {None}] /\ NoGates \in [Gates -> Runs \cup {None}]
    /\ <<>> \in Seq([id : Ids, decision : Decisions])
  BY DEF NoGates

LEMMA HistoryGrows ==
    ASSUME TypeOK, NEW d \in Decisions, pending # None
    PROVE  Append(history, [id |-> pending, decision |-> d])
             \in Seq([id : Ids, decision : Decisions])
<1>1. [id |-> pending, decision |-> d] \in [id : Ids, decision : Decisions]
  BY DEF TypeOK
<1>. QED
  BY <1>1 DEF TypeOK

LEMMA LifecycleTyped ==
    ASSUME TypeOK, Lifecycle
    PROVE  TypeOK'
<1>. USE DEF TypeOK, Statuses
<1>1. ASSUME NEW r \in Runs, NEW f \in Flows, OrchRunCreate(r, f) PROVE TypeOK'
  BY <1>1, FreshTyped DEF OrchRunCreate, nativeVars, sentinels
<1>2. ASSUME NEW r \in Runs, StartComputation(r) PROVE TypeOK'
  BY <1>2, FreshTyped DEF StartComputation, sentinels, Flows
<1>3. ASSUME NEW r \in Runs, ResolveWorkflowPlan(r) PROVE TypeOK'
  BY <1>3 DEF ResolveWorkflowPlan, approvalVars, nativeVars, sentinels, Flows
<1>4. ASSUME NEW r \in Runs, StartWorkflow(r) PROVE TypeOK'
  BY <1>4 DEF StartWorkflow, Transition, approvalVars, nativeVars, sentinels
<1>5. CASE PlanComputation
  BY <1>5 DEF PlanComputation, Transition, approvalVars, nativeVars, sentinels
<1>6. CASE PauseBySentinel \/ StopBySentinel \/ StopUnknown
  BY <1>6 DEF PauseBySentinel, StopBySentinel, StopUnknown, approvalVars, nativeVars, sentinels
<1>7. ASSUME NEW to \in {"completed", "failed"}, EndWorkflow(to) PROVE TypeOK'
  BY <1>7 DEF EndWorkflow, approvalVars, nativeVars, sentinels
<1>8. CASE PauseRun \/ EditSentinels
  <2>1. pauseFile' \in BOOLEAN /\ stopFile' \in BOOLEAN
    BY <1>8 DEF PauseRun, EditSentinels
  <2>. QED
    BY <1>8, <2>1 DEF PauseRun, EditSentinels, approvalVars, nativeVars
<1>9. ASSUME NEW force \in BOOLEAN, ResumeRun(force) PROVE TypeOK'
  BY <1>9 DEF ResumeRun, approvalVars, nativeVars
<1>10. CASE FindBlocked \/ FailBlocked
  <2>1. overwritten' \in BOOLEAN
    BY <1>10 DEF FindBlocked, FailBlocked
  <2>2. driver' \in {"working", "blocked"} /\ status' \in {status, "failed"}
    BY <1>10 DEF FindBlocked, FailBlocked
  <2>. QED
    BY <1>10, <2>1, <2>2 DEF FindBlocked, FailBlocked, approvalVars, nativeVars, sentinels
<1>. QED
  BY <1>1, <1>2, <1>3, <1>4, <1>5, <1>6, <1>7, <1>8, <1>9, <1>10 DEF Lifecycle

LEMMA RequestTyped ==
    ASSUME TypeOK, NEW g \in Gates, Request(g)
    PROVE  pending' \in Ids /\ seq' \in [Gates -> Nat]
  BY DEF TypeOK, Request, Ids, Id

LEMMA ApprovalsTyped ==
    ASSUME TypeOK, Approvals
    PROVE  TypeOK'
<1>. USE DEF TypeOK, Statuses, Gates
<1>1. CASE RequestA3
  <2>1. pending' \in Ids /\ seq' \in [Gates -> Nat] /\ history' = history
    BY <1>1, RequestTyped DEF RequestA3, Request
  <2>. QED
    BY <1>1, <2>1 DEF RequestA3, Transition, nativeVars, sentinels
<1>2. CASE RequestFinalConclusions
  <2>1. pending' \in Ids /\ seq' \in [Gates -> Nat] /\ history' = history
    BY <1>2, RequestTyped DEF RequestFinalConclusions, Request
  <2>. QED
    BY <1>2, <2>1 DEF RequestFinalConclusions, Transition, nativeVars, sentinels
<1>3. CASE ApproveRun
  <2>1. history' \in Seq([id : Ids, decision : Decisions])
    BY <1>3, HistoryGrows DEF ApproveRun, Decisions
  <2>2. pending.gate \in Gates /\ pending \in Ids
    BY <1>3 DEF ApproveRun, Ids
  <2>3. status' \in Statuses
    BY <1>3 DEF ApproveRun, Transition
  <2>. QED
    BY <1>3, <2>1, <2>2, <2>3 DEF ApproveRun, nativeVars, sentinels
<1>4. CASE RejectRun
  <2>1. history' \in Seq([id : Ids, decision : Decisions])
    BY <1>4, HistoryGrows DEF RejectRun, Decisions
  <2>. QED
    BY <1>4, <2>1 DEF RejectRun, Transition, nativeVars
<1>. QED
  BY <1>1, <1>2, <1>3, <1>4 DEF Approvals

LEMMA NativeRunnerTyped ==
    ASSUME TypeOK, NativeRunner
    PROVE  TypeOK'
<1>. USE DEF TypeOK, Statuses, approvalVars, sentinels
<1>1. CASE NativeStart
  BY <1>1 DEF NativeStart
<1>2. CASE NativePause
  <2>1. status' \in Statuses /\ pausedFrom' \in Statuses \cup {None}
    BY <1>2 DEF NativePause
  <2>2. pauseFile' \in BOOLEAN
    BY <1>2 DEF NativePause
  <2>3. stopped' \in SUBSET Runs /\ live' \in Runs \cup {None}
    BY <1>2 DEF NativePause
  <2>4. UNCHANGED <<run, flow, planned, approvalVars, native, stopFile, driverVars,
                    enforced>>
    BY <1>2 DEF NativePause
  <2>. QED
    BY <2>1, <2>2, <2>3, <2>4
<1>3. CASE NativeFail \/ NativeComplete \/ NativeAbandon
  BY <1>3 DEF NativeFail, NativeComplete, NativeAbandon, Transition
<1>. QED
  BY <1>1, <1>2, <1>3 DEF NativeRunner

LEMMA EnforcementTyped ==
    ASSUME TypeOK, Enforcement
    PROVE  TypeOK'
<1>. USE DEF TypeOK, Statuses, nativeVars, sentinels
<1>1. ASSUME NEW t \in {"reject", "escalate", "block"}, EnforceApprovalTimeout(t) PROVE TypeOK'
  <2>1. history' \in Seq([id : Ids, decision : Decisions])
    BY <1>1, HistoryGrows DEF EnforceApprovalTimeout, Decisions
  <2>. QED
    BY <1>1, <2>1 DEF EnforceApprovalTimeout
<1>2. CASE EnforceApprovalBudget
  BY <1>2 DEF EnforceApprovalBudget
<1>. QED
  BY <1>1, <1>2 DEF Enforcement

\* RunLifecycle is type correct: resume, which copies a saved status, and a
\* decision, which copies the pending id, included.
THEOREM TypeCorrect == Spec => []TypeOK
<1>1. Init => TypeOK
  <2> SUFFICES ASSUME Init PROVE TypeOK
    OBVIOUS
  <2>1. gates \in [Gates -> Ids \cup {None}] /\ gateRun \in [Gates -> Runs \cup {None}]
        /\ seq \in [Gates -> Nat] /\ history \in Seq([id : Ids, decision : Decisions])
    BY FreshTyped DEF Init
  <2>. QED
    BY <2>1 DEF Init, TypeOK, Statuses
<1>2. TypeOK /\ [Next]_vars => TypeOK'
  <2>1. TypeOK /\ UNCHANGED vars => TypeOK'
    BY DEF TypeOK, vars, approvalVars, nativeVars, sentinels
  <2>. QED
    BY <2>1, LifecycleTyped, ApprovalsTyped, NativeRunnerTyped, EnforcementTyped DEF Next
<1>. QED
  BY <1>1, <1>2, PTL DEF Spec

-----------------------------------------------------------------------------
(* Approval ids *)

\* DecidedOnce is not inductive: that a new id is new follows from the ids of
\* the history and the pending one having numbers up to approval_seq.
Numbered ==
    /\ \A i \in DOMAIN history : history[i].id.n <= seq[history[i].id.gate]
    /\ pending # None => pending.n <= seq[pending.gate]

IdsInv == DecidedOnce /\ Numbered

\* What keeps the ids straight: nothing of the bookkeeping changes, or a
\* fresh run forgets the history, or the pending id is dropped.
LEMMA KeptIds ==
    ASSUME IdsInv,
           \/ history' = <<>> /\ pending' = None
           \/ history' = history /\ pending' \in {pending, None} /\ seq' = seq
    PROVE  IdsInv'
  BY DEF IdsInv, DecidedOnce, Numbered

LEMMA ElementsTyped ==
    ASSUME NEW S, NEW s \in Seq(S)
    PROVE  \A i \in DOMAIN s : s[i] \in S
  OBVIOUS

LEMMA RequestedIds ==
    ASSUME TypeOK, IdsInv, NEW g \in Gates, Request(g)
    PROVE  IdsInv'
<1>1. /\ pending' = [gate |-> g, n |-> seq[g] + 1] /\ history' = history
      /\ seq' \in [Gates -> Nat] /\ seq'[g] = seq[g] + 1
      /\ \A h \in Gates : seq[h] \in Nat /\ seq'[h] >= seq[h]
  BY DEF Request, Id, TypeOK
<1>2. \A i \in DOMAIN history : /\ history[i].id \in Ids
                                /\ history[i].id.gate \in Gates
                                /\ history[i].id.n \in Nat
  <2>1. \A i \in DOMAIN history : history[i] \in [id : Ids, decision : Decisions]
    BY ElementsTyped DEF TypeOK
  <2>. QED
    BY <2>1 DEF Ids
<1>3. \A i \in DOMAIN history : history[i].id # pending'
  <2>1. SUFFICES ASSUME NEW i \in DOMAIN history, history[i].id = pending' PROVE FALSE
    OBVIOUS
  <2>2. history[i].id.gate = g /\ history[i].id.n = seq[g] + 1
    BY <1>1, <2>1
  <2>. QED
    BY <1>1, <2>2 DEF IdsInv, Numbered
<1>4. ASSUME NEW i \in DOMAIN history PROVE history[i].id.n <= seq'[history[i].id.gate]
  <2>1. history[i].id.n <= seq[history[i].id.gate]
    BY DEF IdsInv, Numbered
  <2>. QED
    BY <1>1, <1>2, <2>1
<1>5. Numbered'
  BY <1>1, <1>4 DEF Numbered
<1>. QED
  BY <1>1, <1>3, <1>5 DEF IdsInv, DecidedOnce

LEMMA DecidedIds ==
    ASSUME TypeOK, IdsInv, NEW d \in Decisions, pending # None,
           history' = Append(history, [id |-> pending, decision |-> d]),
           pending' = None, seq' = seq
    PROVE  IdsInv'
<1>1. /\ DOMAIN history' = DOMAIN history \cup {Len(history) + 1}
      /\ history'[Len(history) + 1].id = pending
      /\ \A i \in DOMAIN history : i # Len(history) + 1 /\ history'[i] = history[i]
  BY DEF TypeOK
<1>. QED
  BY <1>1 DEF IdsInv, DecidedOnce, Numbered

\* No approval id is decided twice and no decided id is pending again,
\* whatever is reset, replaced, dropped or timed out in between.
THEOREM DecidedOnceHolds == Spec => []DecidedOnce
<1>1. Init => IdsInv
  BY DEF Init, IdsInv, DecidedOnce, Numbered
<1>2. TypeOK /\ IdsInv /\ [Next]_vars => IdsInv'
  <2> SUFFICES ASSUME TypeOK, IdsInv, [Next]_vars PROVE IdsInv'
    OBVIOUS
  <2>1. CASE Lifecycle
    BY <2>1, KeptIds DEF Lifecycle, OrchRunCreate, StartComputation, PlanComputation,
       ResolveWorkflowPlan, StartWorkflow, PauseBySentinel, StopBySentinel, EndWorkflow,
       StopUnknown, FindBlocked, FailBlocked, PauseRun, ResumeRun, EditSentinels,
       approvalVars
  <2>2. CASE Approvals
    BY <2>2, RequestedIds, DecidedIds DEF Approvals, RequestA3, RequestFinalConclusions,
       ApproveRun, RejectRun, Gates, Decisions
  <2>3. CASE NativeRunner
    BY <2>3, KeptIds DEF NativeRunner, NativeStart, NativePause, NativeFail,
       NativeComplete, NativeAbandon, approvalVars
  <2>4. CASE Enforcement
    BY <2>4, KeptIds, DecidedIds DEF Enforcement, EnforceApprovalTimeout,
       EnforceApprovalBudget, Decisions
  <2>5. CASE UNCHANGED vars
    BY <2>5, KeptIds DEF vars, approvalVars
  <2>. QED
    BY <2>1, <2>2, <2>3, <2>4, <2>5 DEF Next
<1>3. IdsInv => DecidedOnce
  BY DEF IdsInv
<1>. QED
  BY <1>1, <1>2, <1>3, TypeCorrect, PTL DEF Spec

\* A step that keeps or withdraws gates and does not shorten the history
\* keeps them backed.
LEMMA KeptGates ==
    ASSUME GateBacked,
           \A g \in Gates : gates'[g] \in {gates[g], None},
           \/ history' = history
           \/ \A g \in Gates : gates'[g] = None
    PROVE  GateBacked'
  BY DEF GateBacked

LEMMA DecidedGates ==
    ASSUME TypeOK, GateBacked, NEW d \in Decisions, pending # None,
           history' = Append(history, [id |-> pending, decision |-> d]),
           \/ gates' = gates
           \/ gates' = [gates EXCEPT ![pending.gate] = pending] /\ d = "approved"
    PROVE  GateBacked'
<1>1. /\ DOMAIN history' = DOMAIN history \cup {Len(history) + 1}
      /\ history'[Len(history) + 1] = [id |-> pending, decision |-> d]
      /\ \A i \in DOMAIN history : history'[i] = history[i]
  BY DEF TypeOK
<1>2. ASSUME NEW g \in Gates, gates'[g] = gates[g], gates[g] # None
      PROVE  /\ gates'[g].gate = g
             /\ \E i \in DOMAIN history' :
                   history'[i] = [id |-> gates'[g], decision |-> "approved"]
  BY <1>1, <1>2 DEF GateBacked
<1>3. ASSUME gates' = [gates EXCEPT ![pending.gate] = pending], d = "approved"
      PROVE  /\ gates'[pending.gate] = pending
             /\ \A g \in Gates \ {pending.gate} : gates'[g] = gates[g]
             /\ \E i \in DOMAIN history' :
                   history'[i] = [id |-> pending, decision |-> "approved"]
  BY <1>1, <1>3 DEF TypeOK, Ids
<1>. QED
  BY <1>2, <1>3 DEF GateBacked

\* No gate counts as satisfied by an id that was rejected, timed out or
\* dropped: the approval is in the history beside it.
THEOREM GateBackedHolds == Spec => []GateBacked
<1>1. Init => GateBacked
  BY DEF Init, GateBacked, NoGates
<1>2. TypeOK /\ GateBacked /\ [Next]_vars => GateBacked'
  <2> SUFFICES ASSUME TypeOK, GateBacked, [Next]_vars PROVE GateBacked'
    OBVIOUS
  <2>1. CASE Lifecycle
    BY <2>1, KeptGates DEF Lifecycle, OrchRunCreate, StartComputation, PlanComputation,
       ResolveWorkflowPlan, StartWorkflow, PauseBySentinel, StopBySentinel, EndWorkflow,
       StopUnknown, FindBlocked, FailBlocked, PauseRun, ResumeRun, EditSentinels,
       approvalVars, NoGates
  <2>2. CASE RequestA3 \/ RequestFinalConclusions
    BY <2>2, KeptGates DEF RequestA3, RequestFinalConclusions, Request, TypeOK
  <2>3. CASE ApproveRun \/ RejectRun
    BY <2>3, DecidedGates DEF ApproveRun, RejectRun, Decisions
  <2>4. CASE NativeRunner
    BY <2>4, KeptGates DEF NativeRunner, NativeStart, NativePause, NativeFail,
       NativeComplete, NativeAbandon, approvalVars
  <2>5. CASE Enforcement
    BY <2>5, KeptGates, DecidedGates DEF Enforcement, EnforceApprovalTimeout,
       EnforceApprovalBudget, Decisions
  <2>6. CASE UNCHANGED vars
    BY <2>6, KeptGates DEF vars, approvalVars
  <2>. QED
    BY <2>1, <2>2, <2>3, <2>4, <2>5, <2>6 DEF Next, Approvals
<1>. QED
  BY <1>1, <1>2, TypeCorrect, PTL DEF Spec

-----------------------------------------------------------------------------
(* Pending approvals and the status *)

\* NothingRunsWhilePending is not inductive: planning activates an idle
\* computation run without looking for a pending approval.  An approval left in
\* an idle run was overwritten and kept by workflow-plan, so the run is a
\* workflow's.
IdleKeepsPlan == pending # None /\ status = "idle" => flow = "workflow"

\* A run with an undecided approval is neither running nor completed, and over
\* or idle only where a driver's report overwrote the hold: everybody else who
\* starts, plans, finishes or publishes a run looked at a state that excludes a
\* pending approval.
THEOREM NothingRunsWhilePendingHolds == Spec => []NothingRunsWhilePending
<1>. DEFINE Inv == NothingRunsWhilePending /\ IdleKeepsPlan
<1>1. Init => Inv
  BY DEF Init, NothingRunsWhilePending, IdleKeepsPlan
<1>2. TypeOK /\ Inv /\ [Next]_vars => Inv'
  <2> SUFFICES ASSUME TypeOK, Inv, [Next]_vars
               PROVE  Inv'
    OBVIOUS
  <2>. USE DEF NothingRunsWhilePending, IdleKeepsPlan, Terminal
  <2>1. CASE Lifecycle
    BY <2>1 DEF Lifecycle, OrchRunCreate, StartComputation, PlanComputation,
                ResolveWorkflowPlan, StartWorkflow, PauseBySentinel, StopBySentinel,
                EndWorkflow, StopUnknown, FindBlocked, FailBlocked, PauseRun, ResumeRun,
                EditSentinels, Transition, Controlled, Held, approvalVars
  <2>2. CASE Approvals
    BY <2>2 DEF Approvals, RequestA3, RequestFinalConclusions, ApproveRun, RejectRun,
                Transition
  <2>3. CASE NativeRunner
    BY <2>3 DEF NativeRunner, NativeStart, NativePause, NativeFail, NativeComplete,
                NativeAbandon, Transition, approvalVars
  <2>4. CASE Enforcement
    BY <2>4 DEF Enforcement, EnforceApprovalTimeout, EnforceApprovalBudget
  <2>5. CASE UNCHANGED vars
    BY <2>5 DEF vars, approvalVars
  <2>. QED
    BY <2>1, <2>2, <2>3, <2>4, <2>5 DEF Next
<1>3. Inv => NothingRunsWhilePending
  OBVIOUS
<1>. QED
  BY <1>1, <1>2, <1>3, TypeCorrect, PTL DEF Spec

\* WaitingHasApproval is not inductive: resume restores the saved status, so
\* a saved awaiting_approval must still have its approval pending, which no
\* decision can take away while it is saved.
SavedHasApproval ==
    ~enforced /\ pausedFrom = "awaiting_approval" =>
        pending # None /\ status # "awaiting_approval"

\* A run that waits has an approval to wait for, and only a paused run, or one
\* ended over its pause, has a saved status.
THEOREM WaitingHasApprovalHolds == Spec => []WaitingHasApproval
<1>. DEFINE Inv == WaitingHasApproval /\ SavedHasApproval
<1>1. Init => Inv
  BY DEF Init, WaitingHasApproval, SavedHasApproval, Statuses
<1>2. TypeOK /\ Inv /\ [Next]_vars => Inv'
  <2> SUFFICES ASSUME TypeOK, Inv, [Next]_vars PROVE Inv'
    OBVIOUS
  <2>. USE DEF WaitingHasApproval, SavedHasApproval, Terminal, Statuses
  <2>1. CASE Lifecycle
    <3>1. ASSUME NEW r \in Runs,
                 \/ \E f \in Flows : OrchRunCreate(r, f)
                 \/ StartComputation(r) \/ ResolveWorkflowPlan(r) \/ StartWorkflow(r)
          PROVE  Inv'
      BY <3>1 DEF OrchRunCreate, StartComputation, ResolveWorkflowPlan, StartWorkflow,
                  Transition, Controlled, Held, approvalVars
    <3>2. CASE PlanComputation \/ StopBySentinel \/ StopUnknown
      BY <3>2 DEF PlanComputation, StopBySentinel, StopUnknown, Transition, approvalVars
    <3>3. CASE PauseBySentinel \/ PauseRun
      BY <3>3 DEF PauseBySentinel, PauseRun, approvalVars
    <3>4. ASSUME NEW to \in {"completed", "failed"}, EndWorkflow(to) PROVE Inv'
      BY <3>4 DEF EndWorkflow, Controlled, Held, approvalVars
    <3>5. ASSUME NEW force \in BOOLEAN, ResumeRun(force) PROVE Inv'
      BY <3>5 DEF ResumeRun, approvalVars
    <3>6. CASE EditSentinels
      BY <3>6 DEF EditSentinels, approvalVars
    <3>7. CASE FindBlocked \/ FailBlocked
      BY <3>7 DEF FindBlocked, FailBlocked, approvalVars
    <3>. QED
      BY <2>1, <3>1, <3>2, <3>3, <3>4, <3>5, <3>6, <3>7 DEF Lifecycle
  <2>2. CASE Approvals
    <3>1. ASSUME NEW g \in Gates, Request(g) PROVE pending' # None
      BY <3>1, RequestTyped
    <3>2. CASE RequestA3 \/ RequestFinalConclusions
      BY <3>1, <3>2 DEF RequestA3, RequestFinalConclusions, Transition, Gates
    <3>3. CASE ApproveRun \/ RejectRun
      BY <3>3 DEF ApproveRun, RejectRun, Transition
    <3>. QED
      BY <2>2, <3>2, <3>3 DEF Approvals
  <2>3. CASE NativeRunner
    BY <2>3 DEF NativeRunner, NativeStart, NativePause, NativeFail, NativeComplete,
                NativeAbandon, Transition, PauseRequested, approvalVars
  <2>4. CASE Enforcement
    BY <2>4 DEF Enforcement, EnforceApprovalTimeout, EnforceApprovalBudget
  <2>5. CASE UNCHANGED vars
    BY <2>5 DEF vars, approvalVars
  <2>. QED
    BY <2>1, <2>2, <2>3, <2>4, <2>5 DEF Next
<1>3. Inv => WaitingHasApproval
  OBVIOUS
<1>. QED
  BY <1>1, <1>2, <1>3, TypeCorrect, PTL DEF Spec

\* What the finality of a native pause rests on: a plan is a workflow's, the
\* computation's status file is that of its own run, and one that says paused
\* goes with a paused run or one a driver's report has ended.
StoppedStays ==
    ~enforced =>
        /\ planned => flow = "workflow"
        /\ flow = "computation" => native \in {None, run}
        /\ flow = "computation" /\ native \in stopped => status \in {"paused", "failed"}

\* A paused native computation stays paused until another computation or run
\* replaces it or a stale driver's report ends it, and it never runs again.
THEOREM NativePauseIsFinalHolds == Spec => NativePauseIsFinal
<1>. DEFINE Lifted == ~enforced /\ native # None /\ status = "paused" /\ status' # "paused"
                        => native' = None \/ (driver = "blocked" /\ status' = "failed")
            Continued == ~enforced /\ flow = "computation" /\ native \in stopped
                         /\ status # "running" /\ status' = "running"
                           => native' = None
<1>1. Init => StoppedStays
  BY DEF Init, StoppedStays, Flows
<1>2. TypeOK /\ StoppedStays /\ [Next]_vars => StoppedStays'
  <2> SUFFICES ASSUME TypeOK, StoppedStays, [Next]_vars PROVE StoppedStays'
    OBVIOUS
  <2>. USE DEF StoppedStays, TypeOK
  <2>1. CASE Lifecycle
    BY <2>1 DEF Lifecycle, OrchRunCreate, StartComputation, PlanComputation,
           ResolveWorkflowPlan, StartWorkflow, PauseBySentinel, StopBySentinel,
           EndWorkflow, StopUnknown, FindBlocked, FailBlocked, PauseRun, ResumeRun,
           EditSentinels, Transition, nativeVars
  <2>2. CASE Approvals
    BY <2>2 DEF Approvals, RequestA3, RequestFinalConclusions, ApproveRun, RejectRun,
           nativeVars
  <2>3. CASE NativeRunner
    BY <2>3 DEF NativeRunner, NativeStart, NativePause, NativeFail, NativeComplete,
           NativeAbandon, Transition
  <2>4. CASE Enforcement
    BY <2>4 DEF Enforcement, EnforceApprovalTimeout, EnforceApprovalBudget, nativeVars
  <2>5. CASE UNCHANGED vars
    BY <2>5 DEF vars, nativeVars
  <2>. QED
    BY <2>1, <2>2, <2>3, <2>4, <2>5 DEF Next
<1>3. [Next]_vars => Lifted
  <2>1. Lifecycle => Lifted
    BY DEF Lifecycle, OrchRunCreate, StartComputation, PlanComputation,
           ResolveWorkflowPlan, StartWorkflow, PauseBySentinel, StopBySentinel,
           EndWorkflow, StopUnknown, FindBlocked, FailBlocked, PauseRun, ResumeRun,
           EditSentinels, Transition, Controlled, Held, Terminal
  <2>2. Approvals => Lifted
    BY DEF Approvals, RequestA3, RequestFinalConclusions, ApproveRun, RejectRun
  <2>3. NativeRunner => Lifted
    BY DEF NativeRunner, NativeStart, NativePause, NativeFail, NativeComplete,
           NativeAbandon, PauseRequested
  <2>4. Enforcement => Lifted
    BY DEF Enforcement, EnforceApprovalTimeout, EnforceApprovalBudget
  <2>5. UNCHANGED vars => Lifted
    BY DEF vars
  <2>. QED
    BY <2>1, <2>2, <2>3, <2>4, <2>5 DEF Next
<1>4. TypeOK /\ StoppedStays /\ [Next]_vars => Continued
  <2> SUFFICES ASSUME TypeOK, StoppedStays, [Next]_vars PROVE Continued
    OBVIOUS
  <2>. USE DEF StoppedStays, TypeOK
  <2>1. CASE Lifecycle
    BY <2>1 DEF Lifecycle, OrchRunCreate, StartComputation, PlanComputation,
           ResolveWorkflowPlan, StartWorkflow, PauseBySentinel, StopBySentinel,
           EndWorkflow, StopUnknown, FindBlocked, FailBlocked, PauseRun, ResumeRun,
           EditSentinels, nativeVars
  <2>2. CASE Approvals
    BY <2>2 DEF Approvals, RequestA3, RequestFinalConclusions, ApproveRun, RejectRun,
           nativeVars
  <2>3. CASE NativeRunner
    BY <2>3 DEF NativeRunner, NativeStart, NativePause, NativeFail, NativeComplete,
           NativeAbandon, Transition
  <2>4. CASE Enforcement
    BY <2>4 DEF Enforcement, EnforceApprovalTimeout, EnforceApprovalBudget
  <2>5. CASE UNCHANGED vars
    BY <2>5 DEF vars
  <2>. QED
    BY <2>1, <2>2, <2>3, <2>4, <2>5 DEF Next
<1>5. TypeOK /\ StoppedStays /\ [Next]_vars =>
        [ ~enforced =>
          /\ native # None /\ status = "paused" /\ status' # "paused"
               => native' = None \/ (driver = "blocked" /\ status' = "failed")
          /\ flow = "computation" /\ native \in stopped
             /\ status # "running" /\ status' = "running"
               => native' = None ]_vars
  BY <1>3, <1>4
<1>. QED
  BY <1>1, <1>2, <1>5, TypeCorrect, PTL DEF Spec, NativePauseIsFinal
=============================================================================
