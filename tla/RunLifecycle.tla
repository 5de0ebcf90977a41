---------------------------- MODULE RunLifecycle ----------------------------
(***************************************************************************)
(* The life of the project's current run: the status machine, approvals,   *)
(* pause and resume, and every production entry point that writes the      *)
(* run state - orch_run_create, the computation and workflow starters, the *)
(* native runner, approve and reject, pause and resume, the sentinels -    *)
(* and the enforcement methods of StateManager (timeout and budget).       *)
(*                                                                         *)
(* Each handler reads state.json and writes it back through the compare-   *)
(* and-set store of module StateStore, whose NoLostUpdate makes the whole  *)
(* handler one atomic step here: it either takes place on the state it     *)
(* read or is refused and changes nothing.                                 *)
(***************************************************************************)
EXTENDS Naturals, Sequences, FiniteSets

CONSTANTS
    Runs,          \* run ids
    None,          \* no run, no pending approval, no saved status
    MaxSeq,        \* bound: approvals requested before the numbers start again
    MaxApprovals   \* policy.budgets.max_approvals, 0 for no budget

Gates == {"A3", "A5"}
Flows == {"computation", "workflow"}
Statuses == {"idle", "running", "paused", "awaiting_approval", "blocked",
             "needs_recovery", "completed", "failed", "rejected"}
Terminal == {"completed", "failed", "rejected"}

\* An approval id is its gate and its sequence number, "A3-0001".
Id(g, n) == [gate |-> g, n |-> n]
Ids == [gate : Gates, n : Nat]
Decisions == {"approved", "rejected", "timeout_rejected"}

\* None is nobody's run, status or id.
ASSUME LifecycleAssumption ==
    /\ None \notin Runs \cup Statuses \cup Ids
    /\ MaxSeq \in Nat /\ MaxApprovals \in Nat

VARIABLES
    run,         \* run_id
    flow,        \* workflow_id: the bounded computation or a workflow recipe
    planned,     \* is there a plan
    status,      \* run_status
    pausedFrom,  \* paused_from_status
    pending,     \* pending_approval
    seq,         \* approval_seq
    gates,       \* gate_satisfied: the id that satisfied each gate
    history,     \* approval_history
    native,      \* the run whose status file artifacts.native_execution_status names
    stopped,     \* runs whose execution_status.json says paused
    live,        \* the run a native runner process is executing
    pauseFile, stopFile,  \* the .pause and .stop sentinels
    driver,      \* how far a workflow driver came: nowhere, into the plan, or to
                 \* a step projected with the rest of the plan blocked
    overwritten, \* history variable: a driver's report has been written over a
                 \* pause or a pending approval that is still in the state
    gateRun,     \* history variable: the run each gate was satisfied for
    enforced     \* does this deployment call the enforcement methods

approvalVars == <<pending, seq, gates, history, gateRun>>
nativeVars == <<native, stopped, live>>
sentinels == <<pauseFile, stopFile>>
driverVars == <<driver, overwritten>>
vars == <<run, flow, planned, status, pausedFrom, approvalVars, nativeVars,
          sentinels, driverVars, enforced>>

NoGates == [g \in Gates |-> None]

VALID_TRANSITIONS ==
    [ idle |-> {"running"},
      running |-> {"paused", "awaiting_approval", "completed", "failed",
                   "needs_recovery", "blocked"},
      paused |-> {"running", "blocked", "needs_recovery"},
      awaiting_approval |-> {"running", "paused", "rejected", "blocked",
                             "needs_recovery", "completed"},
      blocked |-> {"running", "paused", "failed"},
      needs_recovery |-> {"running", "paused", "failed"},
      completed |-> {"awaiting_approval"},
      failed |-> {},
      rejected |-> {} ]

\* transitionStatus: the table decides.
Transition(to) == to \in VALID_TRANSITIONS[status] /\ status' = to

\* checkStopPause: .stop is looked for first.
Sentinel == IF stopFile THEN "stop" ELSE IF pauseFile THEN "pause" ELSE "none"

\* workflowControlStatus after its own writes: what a driver must respect.
Held == status \in {"paused", "blocked", "needs_recovery", "awaiting_approval"}
Controlled ==
    \/ Held \/ pending # None
    \/ Sentinel = "pause"
    \/ Sentinel = "stop" /\ status = "running"

-----------------------------------------------------------------------------
Init ==
    /\ run = None /\ flow = None /\ planned = FALSE
    /\ status = "idle" /\ pausedFrom = None
    /\ pending = None /\ seq = [g \in Gates |-> 0]
    /\ gates = NoGates /\ history = <<>> /\ gateRun = NoGates
    /\ native = None /\ stopped = {} /\ live = None
    /\ pauseFile = FALSE /\ stopFile = FALSE
    /\ driver = "none" /\ overwritten = FALSE
    /\ enforced \in BOOLEAN

\* handleOrchRunCreate: whatever the run was, a fresh idle state replaces it;
\* approval ids start again.  The .pause sentinel is left alone.  (A repeated
\* idempotency key answers without writing.)
OrchRunCreate(r, f) ==
    /\ run' = r /\ flow' = f /\ planned' = FALSE
    /\ status' = "idle" /\ pausedFrom' = None
    /\ pending' = None /\ seq' = [g \in Gates |-> 0]
    /\ gates' = NoGates /\ history' = <<>> /\ gateRun' = NoGates
    /\ native' = None /\ overwritten' = FALSE
    /\ UNCHANGED <<stopped, live, sentinels, driver, enforced>>

\* Mutant: a fresh run starts its approval ids again and keeps the history.
StartComputation_SeqReset(r) ==
    /\ status \in {"idle"} \cup Terminal
    /\ run' = r /\ flow' = "computation" /\ planned' = FALSE
    /\ status' = "running"
    /\ pausedFrom' = None /\ pending' = None /\ native' = None
    /\ overwritten' = FALSE
    /\ gates' = NoGates /\ gateRun' = NoGates /\ seq' = [g \in Gates |-> 0]
    /\ UNCHANGED <<history, stopped, live, sentinels, driver, enforced>>

\* Mutant: a fresh run keeps the gates of the run it replaces.
StartComputation_KeepsGates(r) ==
    /\ status \in {"idle"} \cup Terminal
    /\ run' = r /\ flow' = "computation" /\ planned' = FALSE
    /\ status' = "running"
    /\ pausedFrom' = None /\ pending' = None /\ native' = None
    /\ history' = <<>> /\ overwritten' = FALSE
    /\ UNCHANGED <<gates, gateRun, seq, stopped, live, sentinels, driver, enforced>>

\* ensureComputationRunStarted: a run that is over, or never started, is
\* reset and a fresh one created.  approval_seq is kept.
StartComputation(r) ==
    /\ status \in {"idle"} \cup Terminal
    /\ run' = r /\ flow' = "computation" /\ planned' = FALSE
    /\ status' = "running"
    /\ pausedFrom' = None /\ pending' = None /\ native' = None
    /\ gates' = NoGates /\ history' = <<>> /\ gateRun' = NoGates
    /\ overwritten' = FALSE
    /\ UNCHANGED <<seq, stopped, live, sentinels, driver, enforced>>

\* ensurePlanningRunIsActive: planning activates an idle computation run.
PlanComputation ==
    /\ run # None /\ flow = "computation" /\ status = "idle"
    /\ Transition("running")
    /\ UNCHANGED <<run, flow, planned, pausedFrom, approvalVars, nativeVars,
                   sentinels, driverVars, enforced>>

\* workflow-plan: a new plan, possibly for a new run.  Approvals and gates of
\* the state it replaces stay where they are.
ResolveWorkflowPlan(r) ==
    /\ status \in {"idle"} \cup Terminal
    /\ run' = r /\ flow' = "workflow" /\ planned' = TRUE /\ status' = "idle"
    /\ UNCHANGED <<pausedFrom, approvalVars, nativeVars, sentinels, driverVars, enforced>>

\* A workflow driver is one `run` command; several may be at work, and one goes
\* on when its run is replaced under it: what it writes, it writes into the
\* state it then finds.
Driving == driver # "none"

\* ensureWorkflowRunStarted: first start, restart of a finished run, or joining
\* a running one.  All follow workflowControlStatus, which found no sentinel
\* and nothing pending.
StartWorkflow(r) ==
    /\ flow = "workflow" /\ planned /\ ~Controlled
    /\ \/ status = "idle" /\ Transition("running")
       \/ status \in Terminal /\ status' = "running"
       \/ status = "running" /\ r = run /\ UNCHANGED status
    /\ run' = r
    /\ driver' = IF Driving THEN driver ELSE "working"
    /\ UNCHANGED <<flow, planned, pausedFrom, approvalVars, nativeVars, sentinels,
                   overwritten, enforced>>

\* workflowControlStatus: a driver turns a .pause sentinel into a pause...
PauseBySentinel ==
    /\ flow = "workflow" \/ Driving
    /\ Sentinel = "pause" /\ status # "paused"
    /\ pausedFrom' = status /\ status' = "paused"
    /\ UNCHANGED <<run, flow, planned, approvalVars, nativeVars, sentinels,
                   driverVars, enforced>>

\* ... and a .stop sentinel into a block.
StopBySentinel ==
    /\ flow = "workflow" \/ Driving
    /\ Sentinel = "stop" /\ status = "running"
    /\ status' = "blocked"
    /\ UNCHANGED <<run, flow, planned, pausedFrom, approvalVars, nativeVars, sentinels,
                   driverVars, enforced>>

\* Mutant: the end of a plan is written without looking at the control status.
EndWorkflow_Unchecked(to) ==
    /\ planned \/ (Driving /\ to = "failed")
    /\ status' = to
    /\ UNCHANGED <<run, flow, planned, pausedFrom, approvalVars, nativeVars, sentinels,
                   driverVars, enforced>>

\* How a driver ends the run: its last step is done, a step failed, or nothing
\* of the plan is left to select, and the state it is about to write carries no
\* control status.  A step fails whatever plan is there, or none; completion
\* asks the plan.  (Other step events leave the status alone.)
EndWorkflow(to) ==
    /\ ~Controlled
    /\ planned \/ (Driving /\ to = "failed")
    /\ status' = to
    /\ UNCHANGED <<run, flow, planned, pausedFrom, approvalVars, nativeVars, sentinels,
                   driverVars, enforced>>

\* A driver projects a completed or skipped step, finds no control status, and
\* that no step of the rest of the plan can ever become ready...
FindBlocked ==
    /\ Driving /\ planned /\ ~Controlled
    /\ driver' = "blocked"
    /\ UNCHANGED <<run, flow, planned, status, pausedFrom, approvalVars, nativeVars,
                   sentinels, overwritten, enforced>>

\* ... and reads the state again and fails the run, looking at nothing in it:
\* a pause or a pending approval that came in between is overwritten, with
\* everything but the status left as it was.  (Another driver may be at the
\* same place, so the place need not become empty.)
FailBlocked ==
    /\ driver = "blocked"
    /\ status' = "failed"
    /\ driver' \in {"working", "blocked"}
    /\ overwritten' = (overwritten \/ status = "paused" \/ pending # None)
    /\ UNCHANGED <<run, flow, planned, pausedFrom, approvalVars, nativeVars,
                   sentinels, enforced>>

\* stopUnknownWorkflowOutcome keeps an operator's pause or approval.
StopUnknown ==
    /\ flow = "workflow" \/ Driving
    /\ status' = IF status = "running" THEN "needs_recovery" ELSE status
    /\ UNCHANGED <<run, flow, planned, pausedFrom, approvalVars, nativeVars, sentinels,
                   driverVars, enforced>>

-----------------------------------------------------------------------------
(* Approvals *)

\* requestApproval: the next id of the gate becomes the pending one.
Request(g) ==
    /\ seq["A3"] + seq["A5"] < MaxSeq
    /\ seq' = [seq EXCEPT ![g] = @ + 1]
    /\ pending' = Id(g, seq[g] + 1)
    /\ UNCHANGED history

\* ensureA3Approval when no approved or pending packet matches the execution:
\* a satisfied A3 is withdrawn, and a pending A3 is replaced in place.
RequestA3 ==
    /\ run # None
    /\ gates' = [gates EXCEPT !["A3"] = None]
    /\ gateRun' = [gateRun EXCEPT !["A3"] = None]
    /\ \/ /\ pending = None /\ status = "running"
          /\ Transition("awaiting_approval")
       \/ /\ pending # None /\ pending.gate = "A3" /\ status = "awaiting_approval"
          /\ UNCHANGED status
    /\ Request("A3")
    /\ UNCHANGED <<run, flow, planned, pausedFrom, nativeVars, sentinels,
                   driverVars, enforced>>

\* handleOrchRunRequestFinalConclusions: a satisfied A5 is answered "already
\* satisfied for this run"; otherwise A5 is requested, also of a completed run.
RequestFinalConclusions ==
    /\ run # None
    /\ gates["A5"] = None /\ pending = None
    /\ status \in {"running", "completed"}
    /\ Transition("awaiting_approval")
    /\ Request("A5")
    /\ UNCHANGED <<run, flow, planned, pausedFrom, gates, gateRun, nativeVars,
                   sentinels, driverVars, enforced>>

\* approveRun: A5 completes the run, the others resume it.
ApproveRun ==
    /\ status = "awaiting_approval" /\ pending # None
    /\ history' = Append(history, [id |-> pending, decision |-> "approved"])
    /\ gates' = [gates EXCEPT ![pending.gate] = pending]
    /\ gateRun' = [gateRun EXCEPT ![pending.gate] = run]
    /\ pending' = None
    /\ Transition(IF pending.gate = "A5" THEN "completed" ELSE "running")
    /\ UNCHANGED <<run, flow, planned, pausedFrom, seq, nativeVars, sentinels,
                   driverVars, enforced>>

\* rejectRun pauses the run and writes the sentinel; 'rejected' is for timeouts.
RejectRun ==
    /\ status = "awaiting_approval" /\ pending # None
    /\ history' = Append(history, [id |-> pending, decision |-> "rejected"])
    /\ pending' = None
    /\ Transition("paused")
    /\ pauseFile' = TRUE
    /\ UNCHANGED <<run, flow, planned, pausedFrom, seq, gates, gateRun, nativeVars,
                   stopFile, driverVars, enforced>>

-----------------------------------------------------------------------------
(* Pause and resume *)

\* pauseRun: from any status, remembering which.
PauseRun ==
    /\ pausedFrom' = IF status = "paused" THEN pausedFrom ELSE status
    /\ status' = "paused" /\ pauseFile' = TRUE
    /\ UNCHANGED <<run, flow, planned, approvalVars, nativeVars, stopFile,
                   driverVars, enforced>>

\* Mutant: force also lifts the guard on a paused native computation.
ResumeRun_Continues(force) ==
    /\ pending = None
    /\ ~(native # None /\ (status = "paused" \/ native \in stopped)) \/ force
    /\ status \in {"idle", "completed", "failed"} => force
    /\ status' = IF pausedFrom = None THEN "running" ELSE pausedFrom
    /\ pausedFrom' = None
    /\ pauseFile' = FALSE /\ overwritten' = FALSE
    /\ UNCHANGED <<run, flow, planned, approvalVars, nativeVars, stopFile,
                   driver, enforced>>

\* Mutant: the saved status is kept.
ResumeRun_KeepsSaved(force) ==
    /\ pending = None
    /\ ~(native # None /\ (status = "paused" \/ native \in stopped))
    /\ status \in {"idle", "completed", "failed"} => force
    /\ status' = IF pausedFrom = None THEN "running" ELSE pausedFrom
    /\ pauseFile' = FALSE /\ overwritten' = FALSE
    /\ UNCHANGED <<run, flow, planned, pausedFrom, approvalVars, nativeVars,
                   stopFile, driver, enforced>>

\* Mutant: a run that was blocked, not paused, has no saved status.
ResumeRun_Verbatim(force) ==
    /\ pending = None
    /\ ~(native # None /\ (status = "paused" \/ native \in stopped))
    /\ status \in {"idle", "completed", "failed"} => force
    /\ status' = pausedFrom
    /\ pausedFrom' = None
    /\ pauseFile' = FALSE /\ overwritten' = FALSE
    /\ UNCHANGED <<run, flow, planned, approvalVars, nativeVars, stopFile,
                   driver, enforced>>

\* resumeRun is refused while an approval is pending and for a paused native
\* computation; idle, completed and failed need force.
ResumeRun(force) ==
    /\ pending = None
    /\ ~(native # None /\ (status = "paused" \/ native \in stopped))
    /\ status \in {"idle", "completed", "failed"} => force
    /\ status' = IF pausedFrom = None THEN "running" ELSE pausedFrom
    /\ pausedFrom' = None
    /\ pauseFile' = FALSE /\ overwritten' = FALSE
    /\ UNCHANGED <<run, flow, planned, approvalVars, nativeVars, stopFile,
                   driver, enforced>>

\* A person creates or removes a sentinel file at the project root.
EditSentinels ==
    /\ \/ pauseFile' = ~pauseFile /\ UNCHANGED stopFile
       \/ stopFile' = ~stopFile /\ UNCHANGED pauseFile
    /\ UNCHANGED <<run, flow, planned, status, pausedFrom, approvalVars,
                   nativeVars, driverVars, enforced>>

-----------------------------------------------------------------------------
(* The native computation runner, one process at a time *)

PauseRequested == status = "paused" \/ pauseFile \/ stopFile

\* runPreparedManifest up to its first child: admitted, it sets the artifact
\* reference with saveState, which appends no event.
NativeStart ==
    /\ live = None /\ run # None
    /\ ~PauseRequested /\ run \notin stopped /\ pending = None
    /\ status' = IF status \in {"completed", "failed"} THEN "running" ELSE status
    /\ native' = run /\ live' = run
    /\ UNCHANGED <<run, flow, planned, pausedFrom, approvalVars, stopped,
                   sentinels, driverVars, enforced>>

\* finalizePausedRun: the status file says paused, and so does the run.
NativePause ==
    /\ live # None /\ live = run /\ PauseRequested
    /\ stopped' = stopped \cup {live} /\ live' = None
    /\ IF status = "paused" THEN UNCHANGED <<status, pausedFrom, pauseFile>>
       ELSE /\ pausedFrom' = status /\ status' = "paused" /\ pauseFile' = TRUE
    /\ UNCHANGED <<run, flow, planned, approvalVars, native, stopFile, driverVars,
                   enforced>>

\* finalizeFailedRun and readExpiredNativeFailure: only a running run fails.
NativeFail ==
    /\ live # None /\ live = run /\ ~PauseRequested
    /\ live' = None
    /\ IF status = "running" THEN Transition("failed")
                             ELSE UNCHANGED <<status>>
    /\ UNCHANGED <<run, flow, planned, pausedFrom, approvalVars, native, stopped,
                   sentinels, driverVars, enforced>>

\* The guarded publication of a completed execution.
NativeComplete ==
    /\ live # None /\ live = run /\ ~PauseRequested /\ status = "running"
    /\ live' = None
    /\ Transition("completed")
    /\ UNCHANGED <<run, flow, planned, pausedFrom, approvalVars, native, stopped,
                   sentinels, driverVars, enforced>>

\* The runner dies, or refuses to go on because the run is another one now,
\* is no longer running, or waits for an approval.
NativeAbandon ==
    /\ live # None
    /\ live' = None
    /\ UNCHANGED <<run, flow, planned, status, pausedFrom, approvalVars, native, stopped,
                   sentinels, driverVars, enforced>>

-----------------------------------------------------------------------------
(* Enforcement: public methods of StateManager no entry point calls *)

\* enforceApprovalTimeout, once the deadline of the pending approval passed.
EnforceApprovalTimeout(onTimeout) ==
    /\ enforced /\ pending # None
    /\ IF onTimeout = "reject"
         THEN /\ status' = "rejected" /\ pending' = None
              /\ history' = Append(history, [id |-> pending, decision |-> "timeout_rejected"])
         ELSE /\ status' = IF onTimeout = "escalate" THEN "needs_recovery" ELSE "blocked"
              /\ UNCHANGED <<pending, history>>
    /\ UNCHANGED <<run, flow, planned, pausedFrom, seq, gates, gateRun, nativeVars,
                   sentinels, driverVars, enforced>>

Granted == {i \in DOMAIN history : history[i].decision = "approved"}
BudgetExhausted == MaxApprovals > 0 /\ Cardinality(Granted) >= MaxApprovals

\* enforceApprovalBudget: the pending approval is dropped undecided.
EnforceApprovalBudget ==
    /\ enforced /\ BudgetExhausted
    /\ status' = "blocked" /\ pending' = None
    /\ UNCHANGED <<run, flow, planned, pausedFrom, seq, gates, history, gateRun, nativeVars,
                   sentinels, driverVars, enforced>>

-----------------------------------------------------------------------------
Lifecycle ==
    \/ \E r \in Runs : \/ \E f \in Flows : OrchRunCreate(r, f)
                       \/ StartComputation(r) \/ ResolveWorkflowPlan(r) \/ StartWorkflow(r)
    \/ PlanComputation \/ PauseBySentinel \/ StopBySentinel \/ StopUnknown
    \/ \E to \in {"completed", "failed"} : EndWorkflow(to)
    \/ FindBlocked \/ FailBlocked
    \/ PauseRun \/ EditSentinels
    \/ \E force \in BOOLEAN : ResumeRun(force)

Approvals == RequestA3 \/ RequestFinalConclusions \/ ApproveRun \/ RejectRun

NativeRunner ==
    NativeStart \/ NativePause \/ NativeFail \/ NativeComplete \/ NativeAbandon

Enforcement ==
    \/ \E t \in {"reject", "escalate", "block"} : EnforceApprovalTimeout(t)
    \/ EnforceApprovalBudget

Next == Lifecycle \/ Approvals \/ NativeRunner \/ Enforcement

Spec == Init /\ [][Next]_vars

-----------------------------------------------------------------------------
(* Properties *)

\* The type invariant.
TypeOK ==
    /\ run \in Runs \cup {None} /\ flow \in Flows \cup {None} /\ planned \in BOOLEAN
    /\ status \in Statuses /\ pausedFrom \in Statuses \cup {None}
    /\ pending \in Ids \cup {None} /\ seq \in [Gates -> Nat]
    /\ gates \in [Gates -> Ids \cup {None}]
    /\ history \in Seq([id : Ids, decision : Decisions])
    /\ gateRun \in [Gates -> Runs \cup {None}]
    /\ native \in Runs \cup {None} /\ stopped \in SUBSET Runs
    /\ live \in Runs \cup {None}
    /\ pauseFile \in BOOLEAN /\ stopFile \in BOOLEAN
    /\ driver \in {"none", "working", "blocked"} /\ overwritten \in BOOLEAN
    /\ enforced \in BOOLEAN

\* Every approval id is decided at most once, and a pending one not yet:
\* ids never come back within one history, across resets, replaced requests
\* and dropped ones.
DecidedOnce ==
    /\ \A i, j \in DOMAIN history : history[i].id = history[j].id => i = j
    /\ pending # None => \A i \in DOMAIN history : history[i].id # pending

\* A gate counts as satisfied only by an id of that gate whose approval is in
\* the history beside it; a rejected or timed out id satisfies nothing.
GateBacked ==
    \A g \in Gates : gates[g] # None =>
        /\ gates[g].gate = g
        /\ \E i \in DOMAIN history :
              history[i] = [id |-> gates[g], decision |-> "approved"]

\* Nothing runs over an undecided approval: whichever pauses, resumes,
\* timeouts, restarts and reports of drivers came in between, a run with a
\* pending approval is neither running nor completed; and it is over, or idle
\* under a new plan, only after a driver's report of a blocked plan has written
\* 'failed' over the hold.
NothingRunsWhilePending ==
    pending # None =>
        /\ status \notin {"running", "completed"}
        /\ status \in {"idle", "failed", "rejected"} => overwritten

\* A run that waits for an approval has one to decide, whatever was written
\* over a pause that saved it; and a paused_from status is only kept by a
\* paused run, so that resume restores the run that was paused, unless a
\* driver's report has ended the run over its pause.  (Where the enforcement
\* methods are used neither holds.)
WaitingHasApproval ==
    ~enforced => /\ status = "awaiting_approval" => pending # None
                 /\ pausedFrom # None => status = "paused" \/ overwritten

\* gate_satisfied speaks for the current run: "Final conclusions approval has
\* already been satisfied for this run."
GateBelongsToRun == \A g \in Gates : gates[g] # None => gateRun[g] = run

\* "pending_approval exists; approve or reject first": approve and reject want
\* the run to await its approval.
PendingCanBeDecided == ~enforced /\ pending # None => status = "awaiting_approval"

\* A paused native computation is not continued in place, force or not: the
\* run stays paused until another run or another computation replaces it or a
\* workflow driver, still at work from an earlier run, ends it as failed; and
\* not even then does the computation whose status file says paused run again.
NativePauseIsFinal ==
    [][ ~enforced =>
          /\ native # None /\ status = "paused" /\ status' # "paused"
               => native' = None \/ (driver = "blocked" /\ status' = "failed")
          /\ flow = "computation" /\ native \in stopped
             /\ status # "running" /\ status' = "running"
               => native' = None ]_vars
=============================================================================
