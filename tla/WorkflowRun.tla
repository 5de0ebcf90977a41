---------------------------- MODULE WorkflowRun -----------------------------
(***************************************************************************)
(* `nullius run` on a persisted workflow plan: runWorkflowCommand of        *)
(* cli-run.ts, the tool-attempt journal of run-manifest.ts beside it, and   *)
(* the operator who approves, rejects, pauses, resumes and replans.         *)
(*                                                                         *)
(* Several drivers (runs of the command) may work on the one run at a time. *)
(* Each passes through the labels below; between two labels anything may    *)
(* happen elsewhere, and the driver may die.  A label reads and writes      *)
(* state.json atomically: module StateStore shows that a write on a state   *)
(* that has changed is refused, and a refused driver ends as if it died.    *)
(* The journal has a lock of its own, and a driver that cannot get it fails *)
(* (JournalFails).  Tools are external: they answer, fail, or ask for an    *)
(* approval, or their answer is lost.                                       *)
(***************************************************************************)
EXTENDS Naturals, FiniteSets

CONSTANTS
    Drivers,      \* processes running the command
    MaxActive,    \* how many of them run at a time
    NumSteps,     \* steps of the plan, in plan order
    Deps,         \* depends_on of each step; a step of another phase is in no plan
    Degrade,      \* what degrade_mode makes of a failed result
    MaxSeq,       \* bound: approvals the tools request
    MaxReplans,   \* bound: new plans for the same run
    Changing,     \* bound: steps to which a new plan may give another input
    MaxEdits      \* bound: pauses, resumes and sentinel edits of the operator

Steps == 1..NumSteps
Results == {"completed", "skipped", "partial", "failed"}

Inputs == {1, 2}

ASSUME WorkflowAssumption ==
    /\ NumSteps \in Nat \ {0}
    /\ Deps \in [Steps -> SUBSET Nat]
    /\ Degrade \in [Steps -> {"failed", "skipped", "partial"}]
    /\ MaxActive \in Nat /\ MaxSeq \in Nat /\ MaxReplans \in Nat /\ MaxEdits \in Nat
    /\ Changing \subseteq Steps

VARIABLES
    status, pausedFrom,   \* run_status, paused_from_status
    pending,              \* the pending approval's number, 0 for none
    pendingStep,          \* its plan_step_ids: the step that was current
    seq, gate, approved,  \* approvals requested; gate_satisfied; history
    plan,                 \* the status of each step
    params,               \* the input the plan gives each step
    current,              \* current_step, 0 for none
    pauseFile, stopFile,  \* the sentinels
    journal,              \* the attempt recorded for each step, and for which input
    spoiled,              \* history: steps whose last execution could not use the
                          \* committed answer (see Commit and Classify)
    calls,                \* history: tool calls made for each step
    pc, at, was, input,   \* a driver's label, step, and the step's old status and input
    working,              \* is the tool a driver called still working
    resp, asked,          \* the answer a driver received, and its approval
    result,               \* the runtime result a driver will project
    replans, edits        \* for MaxReplans and MaxEdits

approvals == <<pending, pendingStep, seq, gate, approved>>
sentinels == <<pauseFile, stopFile>>
runState == <<status, pausedFrom, approvals, plan, current, sentinels>>
driver == <<pc, at, was, input, working, resp, asked, result>>
inputs == <<params, spoiled>>
bounds == <<replans, edits>>
vars == <<runState, journal, calls, driver, inputs, bounds>>

Labels == {"idle", "ensure", "loop", "classify", "gate", "observe", "boundary",
           "mark", "dispatch", "wait", "answered", "reset", "refuse", "commit",
           "settle", "project", "fail", "unknown", "blocked"}
OperatorHeld == {"paused", "blocked", "needs_recovery"}
Held == OperatorHeld \cup {"awaiting_approval"}
Terminal == {"completed", "failed", "rejected"}

\* An attempt: its state, the input it was recorded with, approval boundaries
\* passed, the last one's approval and, once committed, the kind of the
\* recorded answer.
NoAttempt ==
    [st |-> "missing", input |-> 0, count |-> 0, boundary |-> 0, answer |-> "none"]

-----------------------------------------------------------------------------
(* Pure parts *)

Open(p) == {s \in Steps : p[s] \in {"pending", "in_progress"}}
Done(p, s) == s \in Steps /\ p[s] \in {"completed", "skipped"}

\* dependenciesSatisfied and selectNextWorkflowStep: in plan order.
Ready(p) == {s \in Open(p) : \A d \in Deps[s] : Done(p, d)}
First(S) == CHOOSE s \in S : \A t \in S : s <= t
Blocked(p) == Ready(p) = {} /\ Open(p) # {}

\* workflowControlStatus writes the status a sentinel asks for ...
Control == CASE stopFile /\ status = "running" -> "blocked"
             [] pauseFile /\ ~stopFile -> "paused"
             [] OTHER -> status

\* ... and holds the driver there, or for an approval.
Controlled == pending # 0 \/ Control \in Held

\* Mutant: what the driver found controls nothing.
WriteStatus_IgnoresHold(st) ==
    status' = st /\ UNCHANGED pausedFrom

\* The state it leaves, on top of which a held driver keeps its hands off.
WriteStatus(st) ==
    /\ status' = IF Controlled THEN Control ELSE st
    /\ pausedFrom' = IF Control = "paused" /\ status # "paused" THEN status ELSE pausedFrom

\* syncPlanCurrentStep: whatever else was in progress counts as completed.
WithCurrent(p, s) ==
    [t \in Steps |-> IF t = s THEN "in_progress"
                     ELSE IF p[t] = "in_progress" THEN "completed" ELSE p[t]]

\* normalizeWorkflowRuntimeResult
Normalized(s, answer) == IF answer = "ok" THEN "completed" ELSE Degrade[s]

Goto(d, label) == pc' = [pc EXCEPT ![d] = label]
Exit(d) ==
    /\ Goto(d, "idle")
    /\ at' = [at EXCEPT ![d] = 0] /\ was' = [was EXCEPT ![d] = "none"]
    /\ input' = [input EXCEPT ![d] = 0]
    /\ resp' = [resp EXCEPT ![d] = "none"] /\ asked' = [asked EXCEPT ![d] = 0]
    /\ result' = [result EXCEPT ![d] = "none"]
    /\ UNCHANGED working
Turn(d, label) ==
    Goto(d, label) /\ UNCHANGED <<at, was, input, working, resp, asked, result>>
With(d, r, label) ==
    /\ Goto(d, label) /\ result' = [result EXCEPT ![d] = r]
    /\ UNCHANGED <<at, was, input, working, resp, asked>>

\* The input of an attempt never changes once it is recorded; another one is an
\* identity conflict.
Conflict(d) == journal[at[d]].st # "missing" /\ journal[at[d]].input # input[d]

Attempt(d, field, to) == journal' = [journal EXCEPT ![at[d]][field] = to]

-----------------------------------------------------------------------------
Init ==
    /\ status = "idle" /\ pausedFrom = "none"
    /\ pending = 0 /\ pendingStep = 0 /\ seq = 0 /\ gate = 0 /\ approved = {}
    /\ plan = [s \in Steps |-> "pending"] /\ current = 0
    /\ pauseFile = FALSE /\ stopFile = FALSE
    /\ journal = [s \in Steps |-> NoAttempt]
    /\ params = [s \in Steps |-> 1] /\ spoiled = {}
    /\ calls = [s \in Steps |-> 0]
    /\ pc = [d \in Drivers |-> "idle"]
    /\ at = [d \in Drivers |-> 0] /\ was = [d \in Drivers |-> "none"]
    /\ input = [d \in Drivers |-> 0]
    /\ working = [d \in Drivers |-> FALSE]
    /\ resp = [d \in Drivers |-> "none"] /\ asked = [d \in Drivers |-> 0]
    /\ result = [d \in Drivers |-> "none"]
    /\ replans = 0 /\ edits = 0

Active == {d \in Drivers : pc[d] # "idle"}

\* The command's first look: held, it reports so; with nothing left to do it
\* settles the run's status; otherwise it goes on to start the run.
Start(d) ==
    /\ pc[d] = "idle" /\ ~working[d] /\ Cardinality(Active) < MaxActive
    /\ IF Controlled \/ Open(plan) # {}
         THEN WriteStatus(status) /\ UNCHANGED current
         ELSE /\ WriteStatus(IF \E s \in Steps : plan[s] = "failed" THEN "failed"
                                                                   ELSE "completed")
              /\ current' = 0
    /\ Turn(d, IF Controlled \/ Open(plan) = {} THEN "idle" ELSE "ensure")
    /\ UNCHANGED <<approvals, plan, sentinels, journal, calls, inputs, bounds>>

\* ensureWorkflowRunStarted
Ensure(d) ==
    /\ pc[d] = "ensure"
    /\ status' = IF status \in {"idle"} \cup Terminal THEN "running" ELSE status
    /\ IF status \in OperatorHeld THEN Exit(d) ELSE Turn(d, "loop")
    /\ UNCHANGED <<pausedFrom, approvals, plan, current, sentinels, journal, calls, inputs,
                   bounds>>

\* Mutant: with the rest blocked the driver waits for a dependency.
Loop_Waits(d) ==
    /\ pc[d] = "loop"
    /\ WriteStatus(status)
    /\ IF Controlled \/ Open(plan) = {}
         THEN Exit(d) /\ UNCHANGED <<plan, current, spoiled>>
         ELSE IF Blocked(plan) THEN UNCHANGED <<driver, plan, current, spoiled>>
         ELSE LET s == First(Ready(plan)) IN
              /\ plan' = WithCurrent(plan, s) /\ current' = s
              /\ Goto(d, "classify")
              /\ at' = [at EXCEPT ![d] = s] /\ was' = [was EXCEPT ![d] = plan[s]]
              /\ input' = [input EXCEPT ![d] = params[s]] /\ spoiled' = spoiled \ {s}
              /\ UNCHANGED <<working, resp, asked, result>>
    /\ UNCHANGED <<approvals, sentinels, journal, calls, params, bounds>>

\* The top of the loop: held, done, blocked, or one more step to start.
Loop(d) ==
    /\ pc[d] = "loop"
    /\ WriteStatus(IF Blocked(plan) THEN "failed" ELSE status)
    /\ IF Controlled \/ Ready(plan) = {}
         THEN /\ Exit(d) /\ UNCHANGED <<plan, spoiled>>
              /\ current' = IF ~Controlled /\ Blocked(plan) THEN 0 ELSE current
         ELSE LET s == First(Ready(plan)) IN
              /\ plan' = WithCurrent(plan, s) /\ current' = s
              /\ Goto(d, "classify")
              /\ at' = [at EXCEPT ![d] = s] /\ was' = [was EXCEPT ![d] = plan[s]]
              /\ input' = [input EXCEPT ![d] = params[s]] /\ spoiled' = spoiled \ {s}
              /\ UNCHANGED <<working, resp, asked, result>>
    /\ UNCHANGED <<approvals, sentinels, journal, calls, params, bounds>>

\* Mutant: a committed answer is not replayed.
Classify_NoReplay(d) ==
    /\ pc[d] = "classify"
    /\ IF Conflict(d) THEN Turn(d, "fail") /\ spoiled' = spoiled \cup {at[d]}
       ELSE /\ UNCHANGED spoiled
            /\ Turn(d, IF \/ journal[at[d]].st = "outcome_unknown"
                          \/ journal[at[d]].st = "missing" /\ was[d] = "in_progress"
                       THEN "unknown" ELSE "gate")
    /\ UNCHANGED <<runState, journal, calls, params, bounds>>

\* classifyToolAttempt: it throws on an identity conflict, and the step fails
\* whatever is recorded; an unknown outcome stops, as does a step that was in
\* progress without a record; a committed answer is replayed.
Classify(d) ==
    /\ pc[d] = "classify"
    /\ LET a == journal[at[d]] IN
       IF Conflict(d) THEN Turn(d, "fail") /\ spoiled' = spoiled \cup {at[d]}
       ELSE /\ UNCHANGED spoiled
            /\ CASE \/ a.st = "outcome_unknown"
                    \/ a.st = "missing" /\ was[d] = "in_progress" -> Turn(d, "unknown")
                 [] a.st = "committed" /\ a.answer = "approval" -> Turn(d, "fail")
                 [] a.st = "committed" /\ a.answer # "approval" ->
                      With(d, Normalized(at[d], a.answer), "project")
                 [] OTHER -> Turn(d, "gate")
    /\ UNCHANGED <<runState, journal, calls, params, bounds>>

\* Mutant: that the run is running again is taken for an approval.
CheckGate_Trusting(d) ==
    /\ pc[d] = "gate"
    /\ Turn(d, IF pending = 0 THEN "observe" ELSE "fail")
    /\ UNCHANGED <<runState, journal, calls, inputs, bounds>>

\* An attempt that met an approval boundary goes on only when the canonical
\* state approved that very approval and still holds it satisfied.
CheckGate(d) ==
    /\ pc[d] = "gate"
    /\ LET b == journal[at[d]].boundary IN
       Turn(d, IF b = 0 \/ (gate = b /\ b \in approved) THEN "observe" ELSE "fail")
    /\ UNCHANGED <<runState, journal, calls, inputs, bounds>>

\* observeToolIntents: records the attempt, or finds it as recorded by another
\* driver, for this input or for another one.
Observe(d) ==
    /\ pc[d] = "observe"
    /\ IF Conflict(d)
         THEN Turn(d, "fail") /\ spoiled' = spoiled \cup {at[d]} /\ UNCHANGED journal
         ELSE /\ Turn(d, "boundary") /\ UNCHANGED spoiled
              /\ IF journal[at[d]].st = "missing"
                   THEN journal' = [journal EXCEPT ![at[d]] =
                            [@ EXCEPT !.st = "not_started", !.input = input[d]]]
                   ELSE UNCHANGED journal
    /\ UNCHANGED <<runState, calls, params, bounds>>

\* aroundDispatch reads the state afresh and stops at a control status.
Boundary(d) ==
    /\ pc[d] = "boundary"
    /\ WriteStatus(status)
    /\ IF Controlled THEN Exit(d) ELSE Turn(d, "mark")
    /\ UNCHANGED <<approvals, plan, current, sentinels, journal, calls, inputs, bounds>>

\* Mutant: the attempt's owner is not looked at.
Mark_NotOwned(d) ==
    /\ pc[d] = "mark"
    /\ IF journal[at[d]].st # "committed"
         THEN Attempt(d, "st", "outcome_unknown") /\ Turn(d, "dispatch")
         ELSE UNCHANGED journal /\ With(d, Degrade[at[d]], "settle")
    /\ UNCHANGED <<runState, calls, inputs, bounds>>

\* markToolIntentsDispatched: only one execution takes a not_started attempt;
\* for any other the call fails before it is made.
Mark(d) ==
    /\ pc[d] = "mark"
    /\ IF journal[at[d]].st = "not_started"
         THEN Attempt(d, "st", "outcome_unknown") /\ Turn(d, "dispatch")
         ELSE UNCHANGED journal /\ With(d, Degrade[at[d]], "settle")
    /\ UNCHANGED <<runState, calls, inputs, bounds>>

Dispatch(d) ==
    /\ pc[d] = "dispatch"
    /\ calls' = [calls EXCEPT ![at[d]] = @ + 1]
    /\ working' = [working EXCEPT ![d] = TRUE]
    /\ Goto(d, "wait")
    /\ UNCHANGED <<runState, journal, at, was, input, resp, asked, result, inputs, bounds>>

-----------------------------------------------------------------------------
(* The tool, external *)

\* It answers; if its caller is gone nobody hears.
Answer(d, answer, id) ==
    /\ working[d]
    /\ working' = [working EXCEPT ![d] = FALSE]
    /\ IF pc[d] = "wait"
         THEN /\ resp' = [resp EXCEPT ![d] = answer] /\ asked' = [asked EXCEPT ![d] = id]
              /\ Goto(d, "answered")
         ELSE UNCHANGED <<resp, asked, pc>>
    /\ UNCHANGED <<journal, calls, at, was, input, result, inputs, bounds>>

ToolEnds(d) ==
    /\ \E answer \in {"ok", "error"} : Answer(d, answer, 0)
    /\ UNCHANGED runState

\* It needs an approval: it withdraws the gate and requests one, in place of
\* one that is pending, ...
ToolAsks(d) ==
    /\ seq < MaxSeq
    /\ \/ status = "running" /\ pending = 0
       \/ status = "awaiting_approval" /\ pending # 0
    /\ seq' = seq + 1 /\ pending' = seq + 1 /\ pendingStep' = current
    /\ gate' = 0 /\ status' = "awaiting_approval"
    /\ Answer(d, "approval", seq + 1)
    /\ UNCHANGED <<pausedFrom, approved, plan, current, sentinels>>

\* ... or it reports the pending one.
ToolReports(d) ==
    /\ pending # 0
    /\ Answer(d, "approval", pending)
    /\ UNCHANGED runState

\* The connection breaks or the call times out; the tool may work on.
Lose(d) ==
    /\ pc[d] = "wait"
    /\ With(d, Degrade[at[d]], "settle")
    /\ UNCHANGED <<runState, journal, calls, inputs, bounds>>

-----------------------------------------------------------------------------
(* Back in the driver *)

\* An ordinary answer is committed; an approval has to be the pending one, of
\* this step, in a run that waits for it.
Receive(d) ==
    /\ pc[d] = "answered"
    /\ Turn(d, IF resp[d] # "approval" THEN "commit"
               ELSE IF /\ pending = asked[d] /\ pendingStep = at[d]
                       /\ status \in {"awaiting_approval", "paused"}
                 THEN "reset"
                 ELSE "refuse")
    /\ UNCHANGED <<runState, journal, calls, inputs, bounds>>

\* Mutant: after the boundary is recorded the driver goes on, and the approval
\* response is normalized like any good answer.
Reset_GoesOn(d) ==
    /\ pc[d] = "reset"
    /\ LET a == journal[at[d]] IN
       IF a.st = "outcome_unknown"
         THEN /\ journal' = [journal EXCEPT ![at[d]] =
                    [a EXCEPT !.st = "not_started", !.count = @ + 1, !.boundary = asked[d]]]
              /\ With(d, "completed", "settle")
         ELSE UNCHANGED journal /\ Turn(d, "refuse")
    /\ UNCHANGED <<runState, calls, inputs, bounds>>

\* resetOutcomeUnknownAtApprovalBoundary: the attempt may be made once more,
\* and the driver leaves.  Not in state outcome_unknown, it is refused.
Reset(d) ==
    /\ pc[d] = "reset"
    /\ LET a == journal[at[d]] IN
       IF a.st = "outcome_unknown"
         THEN /\ journal' = [journal EXCEPT ![at[d]] =
                    [a EXCEPT !.st = "not_started", !.count = @ + 1, !.boundary = asked[d]]]
              /\ Exit(d)
         ELSE UNCHANGED journal /\ Turn(d, "refuse")
    /\ UNCHANGED <<runState, calls, inputs, bounds>>

\* commitToolAttempt: outcome_unknown becomes the committed answer.  (Where it
\* is refused the driver goes on as in JournalFails.)
Committed(s, answer) ==
    /\ journal[s].st = "outcome_unknown"
    /\ journal' = [journal EXCEPT ![s] = [@ EXCEPT !.st = "committed", !.answer = answer]]

\* Between the commit and the result the connection is closed, and where that
\* throws the answer counts as a failed call, though it is committed.
Commit(d) ==
    /\ pc[d] = "commit"
    /\ Committed(at[d], resp[d])
    /\ \/ With(d, Normalized(at[d], resp[d]), "settle") /\ UNCHANGED spoiled
       \/ /\ \E r \in {"failed", Degrade[at[d]]} : With(d, r, "settle")
          /\ spoiled' = spoiled \cup {at[d]}
    /\ UNCHANGED <<runState, calls, params, bounds>>

\* An approval nobody can decide is committed as evidence and fails the step.
Refuse(d) ==
    /\ pc[d] = "refuse"
    /\ Committed(at[d], "approval")
    /\ Turn(d, "fail")
    /\ UNCHANGED <<runState, calls, inputs, bounds>>

\* The journal's lock is not obtained, or no tool server is available.
\* Outside the dispatch the step fails; inside it the failed call degrades.
JournalFails(d) ==
    /\ \/ pc[d] \in {"observe", "refuse"} /\ Turn(d, "fail")
       \/ pc[d] = "reset" /\ Turn(d, "refuse")
       \/ pc[d] = "boundary" /\ With(d, "failed", "settle")
       \/ pc[d] \in {"boundary", "mark", "commit"} /\ With(d, Degrade[at[d]], "settle")
    /\ UNCHANGED <<runState, journal, calls, inputs, bounds>>

\* After the call: an attempt left outcome_unknown is never projected.
Settle(d) ==
    /\ pc[d] = "settle"
    /\ Turn(d, IF journal[at[d]].st = "outcome_unknown" THEN "unknown" ELSE "project")
    /\ UNCHANGED <<runState, journal, calls, inputs, bounds>>

\* Mutant: the status the command reports becomes the run's.
Unknown_Reported(d) ==
    /\ pc[d] = "unknown"
    /\ status' = IF status = "running" THEN "outcome_unknown" ELSE status
    /\ Exit(d)
    /\ UNCHANGED <<pausedFrom, approvals, plan, current, sentinels, journal, calls, inputs,
                   bounds>>

\* stopUnknownWorkflowOutcome
Unknown(d) ==
    /\ pc[d] = "unknown"
    /\ status' = IF status = "running" THEN "needs_recovery" ELSE status
    /\ Exit(d)
    /\ UNCHANGED <<pausedFrom, approvals, plan, current, sentinels, journal, calls, inputs,
                   bounds>>

\* The catch clause: the step fails, and the run unless something holds it.
Fail(d) ==
    /\ pc[d] = "fail"
    /\ plan' = [plan EXCEPT ![at[d]] = "failed"] /\ current' = 0
    /\ WriteStatus("failed")
    /\ Exit(d)
    /\ UNCHANGED <<approvals, sentinels, journal, calls, inputs, bounds>>

\* The step's result enters the plan of the state as it is now.  With no step
\* left the run is completed, after a failure failed, unless it is held.  A
\* held driver exits, as does one whose step failed or that finds the rest
\* blocked (it writes the status a second time, after a fresh read).
Project(d) ==
    /\ pc[d] = "project"
    /\ LET end == IF result[d] = "partial" THEN "completed" ELSE result[d]
           next == [plan EXCEPT ![at[d]] = end] IN
       /\ plan' = next /\ current' = 0
       /\ WriteStatus(CASE end = "failed" -> "failed"
                        [] end # "failed" /\ Open(next) = {} -> "completed"
                        [] OTHER -> status)
       /\ IF Controlled \/ end = "failed" THEN Exit(d)
          ELSE IF Blocked(next) THEN Turn(d, "blocked") ELSE Turn(d, "loop")
    /\ UNCHANGED <<approvals, sentinels, journal, calls, inputs, bounds>>

ReportBlocked(d) ==
    /\ pc[d] = "blocked"
    /\ status' = "failed"
    /\ Exit(d)
    /\ UNCHANGED <<pausedFrom, approvals, plan, current, sentinels, journal, calls, inputs,
                   bounds>>

\* The driver dies, or its write of state.json is refused - perhaps after
\* workflowControlStatus wrote the status a sentinel asks for.
Die(d) ==
    /\ pc[d] # "idle"
    /\ Exit(d)
    /\ \/ UNCHANGED <<status, pausedFrom>>
       \/ /\ pc[d] \in {"loop", "boundary", "fail", "project"} /\ Control # status
          /\ WriteStatus(status)
    /\ UNCHANGED <<approvals, plan, current, sentinels, journal, calls, inputs, bounds>>

-----------------------------------------------------------------------------
(* The operator *)

ApproveRun ==
    /\ status = "awaiting_approval" /\ pending # 0
    /\ approved' = approved \cup {pending} /\ gate' = pending
    /\ pending' = 0 /\ pendingStep' = 0 /\ status' = "running"
    /\ UNCHANGED <<pausedFrom, seq, plan, current, sentinels, journal, calls, driver, inputs,
                   bounds>>

RejectRun ==
    /\ status = "awaiting_approval" /\ pending # 0
    /\ pending' = 0 /\ pendingStep' = 0 /\ status' = "paused" /\ pauseFile' = TRUE
    /\ UNCHANGED <<pausedFrom, seq, gate, approved, plan, current, stopFile, journal, calls,
                   driver, inputs, bounds>>

Edit == edits < MaxEdits /\ edits' = edits + 1

PauseRun ==
    /\ Edit
    /\ pausedFrom' = IF status = "paused" THEN pausedFrom ELSE status
    /\ status' = "paused" /\ pauseFile' = TRUE
    /\ UNCHANGED <<approvals, plan, current, stopFile, journal, calls, driver, inputs,
                   replans>>

ResumeRun(force) ==
    /\ Edit
    /\ pending = 0
    /\ status \in {"idle", "completed", "failed"} => force
    /\ status' = IF pausedFrom = "none" THEN "running" ELSE pausedFrom
    /\ pausedFrom' = "none" /\ pauseFile' = FALSE
    /\ UNCHANGED <<approvals, plan, current, stopFile, journal, calls, driver, inputs,
                   replans>>

EditSentinels ==
    /\ Edit
    /\ \/ pauseFile' = ~pauseFile /\ UNCHANGED stopFile
       \/ stopFile' = ~stopFile /\ UNCHANGED pauseFile
    /\ UNCHANGED <<status, pausedFrom, approvals, plan, current, journal, calls, driver,
                   inputs, replans>>

\* workflow-plan for the same run: a fresh plan on the old journal, in which
\* some steps may have another input.
Replan ==
    /\ replans < MaxReplans /\ replans' = replans + 1
    /\ status \in {"idle"} \cup Terminal
    /\ plan' = [s \in Steps |-> "pending"] /\ current' = 0 /\ status' = "idle"
    /\ \E changed \in SUBSET Changing :
          params' = [s \in Steps |-> IF s \in changed THEN 3 - params[s] ELSE params[s]]
    /\ UNCHANGED <<pausedFrom, approvals, sentinels, journal, calls, driver, spoiled, edits>>

-----------------------------------------------------------------------------
\* What a driver does next once it runs; a call it waits for ends or is lost.
Step(d) ==
    \/ Ensure(d) \/ Loop(d) \/ Classify(d) \/ CheckGate(d) \/ Observe(d)
    \/ Boundary(d) \/ Mark(d) \/ Dispatch(d) \/ Lose(d) \/ Receive(d) \/ Reset(d)
    \/ Commit(d) \/ Refuse(d) \/ JournalFails(d) \/ Settle(d) \/ Unknown(d)
    \/ Fail(d) \/ Project(d) \/ ReportBlocked(d)

Tool(d) == ToolEnds(d) \/ ToolAsks(d) \/ ToolReports(d)

Operator ==
    \/ ApproveRun \/ RejectRun \/ PauseRun \/ EditSentinels \/ Replan
    \/ \E force \in BOOLEAN : ResumeRun(force)

Next ==
    \/ \E d \in Drivers : Start(d) \/ Step(d) \/ Tool(d) \/ Die(d)
    \/ Operator

Spec == Init /\ [][Next]_vars

\* A driver that runs goes on: its reads and writes are bounded, and the
\* request to the tool has a timeout.  Nobody has to start a driver.
FairSpec == Spec /\ \A d \in Drivers : WF_vars(Step(d))

-----------------------------------------------------------------------------
(* Properties *)

Statuses == {"idle", "running"} \cup Held \cup Terminal
Answers == {"none", "ok", "error", "approval"}
Attempts == [st : {"missing", "not_started", "outcome_unknown", "committed"},
             input : {0} \cup Inputs, count : Nat, boundary : 0..MaxSeq, answer : Answers]

StateTyped ==
    /\ status \in Statuses /\ pausedFrom \in Statuses \cup {"none"}
    /\ pending \in 0..MaxSeq /\ pendingStep \in 0..NumSteps
    /\ seq \in 0..MaxSeq /\ gate \in 0..MaxSeq /\ approved \subseteq 1..MaxSeq
    /\ plan \in [Steps -> {"pending", "in_progress", "completed", "skipped", "failed"}]
    /\ current \in 0..NumSteps
    /\ pauseFile \in BOOLEAN /\ stopFile \in BOOLEAN

DriverTyped ==
    /\ pc \in [Drivers -> Labels] /\ at \in [Drivers -> 0..NumSteps]
    /\ was \in [Drivers -> {"none", "pending", "in_progress"}]
    /\ input \in [Drivers -> {0} \cup Inputs]
    /\ working \in [Drivers -> BOOLEAN]
    /\ resp \in [Drivers -> Answers] /\ asked \in [Drivers -> 0..MaxSeq]
    /\ result \in [Drivers -> Results \cup {"none"}]

\* The type invariant.
TypeOK ==
    /\ StateTyped
    /\ journal \in [Steps -> Attempts] /\ calls \in [Steps -> Nat]
    /\ DriverTyped
    /\ params \in [Steps -> Inputs] /\ spoiled \subseteq Steps
    /\ replans \in 0..MaxReplans /\ edits \in 0..MaxEdits

\* Tools are never called twice for one attempt: however often the command is
\* rerun, by how many drivers, after whatever crash or lost answer, a step is
\* called once, and once more for each approval boundary it passed.
AtMostOnceDispatch == \A s \in Steps : calls[s] <= journal[s].count + 1

\* The drivers use the journal as it promises: whoever races for an attempt, dies or
\* waits in vain, a step is called once for each mark, an answer is recorded of a call
\* that was made, and a recorded answer stays.
AJ == INSTANCE AttemptJournal
        WITH Keys <- Steps, NoOutcome <- "none", called <- calls,
             attempt <- [s \in Steps |-> journal[s].st],
             boundaries <- [s \in Steps |-> journal[s].count],
             outcome <- [s \in Steps |-> journal[s].answer]
\* The refinement of AttemptJournal, under that mapping.
ImplementsJournal == AJ!Spec

\* A call repeated after an approval boundary has that very approval granted:
\* resuming the run by other means does not permit it.
RedispatchApproved ==
    \A s \in Steps : calls[s] = journal[s].count + 1 /\ journal[s].count > 0 =>
        journal[s].boundary \in approved

\* Plan and journal agree on what was done, crash or not.  Nothing counts as done without
\* evidence: where a failure cannot pass for a partial result, a completed step has a
\* committed good answer.  And a committed good answer is not lost on the plan: its step
\* ends up failed or skipped only if, since it was last taken up, the plan was found to give
\* it another input than the recorded one, or the connection could not be closed after the
\* commit.
PlanMatchesJournal ==
    \A s \in Steps :
        LET good == journal[s].st = "committed" /\ journal[s].answer = "ok" IN
        /\ plan[s] = "completed" /\ Degrade[s] # "partial" => good
        /\ good /\ plan[s] \in {"failed", "skipped"} => s \in spoiled

\* A step that asked for an approval stays unfinished while that approval is
\* the pending one.
ApprovalKeepsStepUnfinished ==
    \A s \in Steps :
        journal[s].boundary # 0 /\ pending = journal[s].boundary => ~Done(plan, s)

\* A run with a failed step is not upgraded to completed.
FailedStepNeverCompleted ==
    status = "completed" => \A s \in Steps : plan[s] # "failed"

\* A committed answer is final: it is what every later run replays.
CommittedIsFinal ==
    [][\A s \in Steps : journal[s].st = "committed" => journal'[s] = journal[s]]_journal

\* No driver lifts a hold: once paused, blocked, awaiting approval or in need
\* of recovery, the run leaves that status only by an operator's act, though
\* drivers that started before finish their step and write the state.  (The
\* one exception is the step of ReportBlocked, which writes without looking.)
HoldsStand ==
    [][(status \in Held /\ status' \notin Held) =>
          \/ UNCHANGED <<driver, plan>>
          \/ \E d \in Drivers :
                pc[d] = "blocked" /\ pc'[d] = "idle" /\ status' = "failed"]_vars

\* Every driver ends: the loop, the races for an attempt, lost answers and
\* held runs never leave one working for ever.
DriversEnd == \A d \in Drivers : pc[d] # "idle" ~> pc[d] = "idle"
=============================================================================
