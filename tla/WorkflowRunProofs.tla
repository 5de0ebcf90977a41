-------------------------- MODULE WorkflowRunProofs -------------------------
(***************************************************************************)
(* Proofs about WorkflowRun for any plans, dependencies, degrade modes and *)
(* bounds.  For any number of drivers at once: no attempt is dispatched    *)
(* twice, a committed answer is final, no driver lifts a hold, and the     *)
(* journal is used as AttemptJournal says.  For one driver at a time, any  *)
(* number in turn: plan and journal agree, a step that waits for an        *)
(* approval is not done, and a repeated call was approved.                 *)
(***************************************************************************)
EXTENDS WorkflowRun, TLAPS, WellFoundedInduction, FiniteSetTheorems

USE WorkflowAssumption

-----------------------------------------------------------------------------
(* The operators the driver is built from *)

\* A set of steps has a first one.
LEMMA FirstStep ==
    ASSUME NEW S \in SUBSET Steps, S # {}
    PROVE  First(S) \in S
<1>. DEFINE Less == {ss \in Nat \X Nat : ss[1] < ss[2]}
<1>1. IsWellFoundedOn(Less, Nat)
  BY NatLessThanWellFounded DEF OpToRel
<1>2. S \subseteq Nat
  BY DEF Steps
<1>3. PICK x \in S : \A y \in S : <<y, x>> \notin Less
  <2>. HIDE DEF Less
  <2>. QED
    BY <1>1, <1>2, WFMin
<1>4. ASSUME NEW y \in S PROVE x <= y
  <2>1. <<y, x>> \in Nat \X Nat /\ <<y, x>>[1] = y /\ <<y, x>>[2] = x
    BY <1>2
  <2>2. ~(<<y, x>>[1] < <<y, x>>[2])
    BY <1>3, <2>1
  <2>. QED
    BY <1>2, <2>1, <2>2
<1>. QED
  BY <1>4 DEF First

\* The step the loop selects is one of the plan that is still open.
LEMMA SelectedStep ==
    ASSUME NEW p, Ready(p) # {}
    PROVE  First(Ready(p)) \in Steps /\ p[First(Ready(p))] \in {"pending", "in_progress"}
<1>1. First(Ready(p)) \in Ready(p)
  BY FirstStep DEF Ready, Open
<1>. QED
  BY <1>1 DEF Ready, Open

\* What becomes of an answer, in a step of the plan.
LEMMA NormalizedTyped ==
    ASSUME NEW s \in Steps, NEW answer
    PROVE  Normalized(s, answer) \in Results /\ Degrade[s] \in Results
  BY DEF Normalized, Results

LEMMA WrittenStatus ==
    ASSUME status \in Statuses, pausedFrom \in Statuses \cup {"none"},
           NEW st \in Statuses, WriteStatus(st)
    PROVE  status' \in Statuses /\ pausedFrom' \in Statuses \cup {"none"}
  BY DEF WriteStatus, Control, Statuses, Held, OperatorHeld

\* A driver that finds the run held writes a status that holds it.
LEMMA HoldKept ==
    ASSUME NEW st, WriteStatus(st), status \in Held
    PROVE  status' \in Held
  BY DEF WriteStatus, Controlled, Control, Held, OperatorHeld

-----------------------------------------------------------------------------
(* Type correctness *)

\* TypeOK is not inductive: that a driver between selecting and leaving a step
\* is at a step of the plan, and has a result when it comes to project it, has
\* to be known too.
Placed ==
    \A d \in Drivers :
        /\ pc[d] \notin {"idle", "ensure", "loop"} => at[d] \in Steps
        /\ pc[d] \in {"settle", "project"} => result[d] \in Results

DriverInv == DriverTyped /\ Placed

\* The ways a driver moves on.
LEMMA ExitTyped ==
    ASSUME DriverInv, NEW d \in Drivers, Exit(d)
    PROVE  DriverInv'
  BY DEF DriverInv, DriverTyped, Placed, Exit, Goto, Labels, Answers

LEMMA TurnTyped ==
    ASSUME DriverInv, NEW d \in Drivers, NEW label \in Labels, Turn(d, label),
           label \in {"idle", "ensure", "loop"} \/ at[d] \in Steps,
           label \in {"settle", "project"} => result[d] \in Results
    PROVE  DriverInv'
  BY DEF DriverInv, DriverTyped, Placed, Turn, Goto

LEMMA WithTyped ==
    ASSUME DriverInv, NEW d \in Drivers, NEW r \in Results, at[d] \in Steps,
           NEW label \in {"settle", "project"}, With(d, r, label)
    PROVE  DriverInv'
  BY DEF DriverInv, DriverTyped, Placed, With, Goto, Labels

LEMMA AnswerTyped ==
    ASSUME DriverInv, NEW d \in Drivers, NEW answer \in Answers, NEW id \in 0..MaxSeq,
           Answer(d, answer, id)
    PROVE  DriverInv'
  BY DEF DriverInv, DriverTyped, Placed, Answer, Goto, Labels

LEMMA SelectTyped ==
    ASSUME DriverInv, NEW d \in Drivers, NEW s \in Steps,
           NEW w \in {"pending", "in_progress"}, Goto(d, "classify"),
           at' = [at EXCEPT ![d] = s], was' = [was EXCEPT ![d] = w],
           NEW i \in Inputs, input' = [input EXCEPT ![d] = i],
           UNCHANGED <<working, resp, asked, result>>
    PROVE  DriverInv'
  BY DEF DriverInv, DriverTyped, Placed, Goto, Labels, Steps

LEMMA SameState ==
    ASSUME StateTyped, UNCHANGED runState
    PROVE  StateTyped'
  BY DEF StateTyped, runState, approvals, sentinels

\* What the journal may become at a step.
LEMMA AttemptTyped ==
    ASSUME journal \in [Steps -> Attempts], NEW s \in Steps, NEW a \in Attempts,
           journal' = [journal EXCEPT ![s] = a]
    PROVE  journal' \in [Steps -> Attempts]
  OBVIOUS

Rest ==
    /\ journal \in [Steps -> Attempts] /\ calls \in [Steps -> Nat]
    /\ params \in [Steps -> Inputs] /\ spoiled \subseteq Steps
    /\ replans \in 0..MaxReplans /\ edits \in 0..MaxEdits

\* TypeOK, strengthened by Placed.
Typed == StateTyped /\ DriverInv /\ Rest

\* The driver's steps that write the state and not the journal.
LEMMA StateStepTyped ==
    ASSUME Typed, NEW d \in Drivers,
           \/ Start(d) \/ Ensure(d) \/ Loop(d) \/ Boundary(d) \/ Unknown(d)
           \/ Fail(d) \/ Project(d) \/ ReportBlocked(d) \/ Die(d)
    PROVE  Typed'
<1>. USE DEF Typed
<1>1. Rest'
  BY DEF Rest, Start, Ensure, Loop, Boundary, Unknown, Fail, Project, ReportBlocked, Die,
     inputs, bounds
<1>2. CASE Start(d)
  <2>1. DriverInv'
    BY <1>2, TurnTyped DEF Start, Labels
  <2>2. status' \in Statuses /\ pausedFrom' \in Statuses \cup {"none"}
    BY <1>2, WrittenStatus DEF Start, StateTyped, Statuses, Terminal
  <2>3. current' \in 0..NumSteps
    BY <1>2 DEF Start, StateTyped
  <2>4. StateTyped'
    BY <1>2, <2>2, <2>3 DEF Start, StateTyped, approvals, sentinels
  <2>. QED
    BY <1>1, <2>1, <2>4
<1>3. CASE Ensure(d)
  <2>1. DriverInv'
    BY <1>3, TurnTyped, ExitTyped DEF Ensure, Labels
  <2>2. StateTyped'
    BY <1>3 DEF Ensure, StateTyped, Statuses, approvals, sentinels
  <2>. QED
    BY <1>1, <2>1, <2>2
<1>4. CASE Loop(d)
  <2>. DEFINE s == First(Ready(plan))
  <2>1. status' \in Statuses /\ pausedFrom' \in Statuses \cup {"none"}
    BY <1>4, WrittenStatus DEF Loop, StateTyped, Statuses, Terminal
  <2>2. CASE Controlled \/ Ready(plan) = {}
    <3>1. DriverInv'
      BY <1>4, <2>2, ExitTyped DEF Loop
    <3>2. StateTyped'
      BY <1>4, <2>1, <2>2 DEF Loop, StateTyped, approvals, sentinels
    <3>. QED
      BY <1>1, <3>1, <3>2
  <2>3. CASE ~(Controlled \/ Ready(plan) = {})
    <3>1. s \in Steps /\ plan[s] \in {"pending", "in_progress"}
      BY <2>3, SelectedStep
    <3>2. DriverInv'
      <4>1. params[s] \in Inputs
        BY <3>1 DEF Rest
      <4>. QED
        BY <1>4, <2>3, <3>1, <4>1, SelectTyped DEF Loop
    <3>3. plan' = WithCurrent(plan, s) /\ current' = s
      BY <1>4, <2>3 DEF Loop
    <3>4. plan' \in [Steps -> {"pending", "in_progress", "completed", "skipped", "failed"}]
      BY <3>3 DEF WithCurrent, StateTyped
    <3>5. StateTyped'
      BY <1>4, <2>1, <3>1, <3>3, <3>4 DEF Loop, StateTyped, approvals, sentinels, Steps
    <3>. QED
      BY <1>1, <3>2, <3>5
  <2>. QED
    BY <2>2, <2>3
<1>5. CASE Boundary(d)
  <2>1. DriverInv'
    BY <1>5, TurnTyped, ExitTyped DEF Boundary, Labels, DriverInv, Placed
  <2>2. StateTyped'
    BY <1>5, WrittenStatus DEF Boundary, StateTyped, approvals, sentinels
  <2>. QED
    BY <1>1, <2>1, <2>2
<1>6. CASE Unknown(d) \/ ReportBlocked(d)
  <2>1. DriverInv'
    BY <1>6, ExitTyped DEF Unknown, ReportBlocked
  <2>2. StateTyped'
    BY <1>6 DEF Unknown, ReportBlocked, StateTyped, Statuses, Held, OperatorHeld, Terminal,
       approvals, sentinels
  <2>. QED
    BY <1>1, <2>1, <2>2
<1>7. CASE Fail(d)
  <2>1. DriverInv'
    BY <1>7, ExitTyped DEF Fail
  <2>2. status' \in Statuses /\ pausedFrom' \in Statuses \cup {"none"}
    BY <1>7, WrittenStatus DEF Fail, StateTyped, Statuses, Terminal
  <2>3. plan' = [plan EXCEPT ![at[d]] = "failed"] /\ current' = 0
    BY <1>7 DEF Fail
  <2>4. plan' \in [Steps -> {"pending", "in_progress", "completed", "skipped", "failed"}]
    BY <2>3 DEF StateTyped
  <2>5. StateTyped'
    BY <1>7, <2>2, <2>3, <2>4 DEF Fail, StateTyped, approvals, sentinels
  <2>. QED
    BY <1>1, <2>1, <2>5
<1>8. CASE Project(d)
  <2>. DEFINE end == IF result[d] = "partial" THEN "completed" ELSE result[d]
  <2>1. at[d] \in Steps /\ end \in {"completed", "skipped", "failed"}
    BY <1>8 DEF Project, DriverInv, Placed, Results
  <2>2. DriverInv'
    BY <1>8, <2>1, ExitTyped, TurnTyped DEF Project, Labels
  <2>3. status' \in Statuses /\ pausedFrom' \in Statuses \cup {"none"}
    BY <1>8, WrittenStatus DEF Project, StateTyped, Statuses, Terminal
  <2>4. plan' = [plan EXCEPT ![at[d]] = end] /\ current' = 0
    BY <1>8 DEF Project
  <2>5. StateTyped'
    BY <1>8, <2>1, <2>3, <2>4 DEF Project, StateTyped, approvals, sentinels
  <2>. QED
    BY <1>1, <2>2, <2>5
<1>9. CASE Die(d)
  <2>1. DriverInv'
    BY <1>9, ExitTyped DEF Die
  <2>2. StateTyped'
    BY <1>9, WrittenStatus DEF Die, StateTyped, approvals, sentinels
  <2>. QED
    BY <1>1, <2>1, <2>2
<1>. QED
  BY <1>2, <1>3, <1>4, <1>5, <1>6, <1>7, <1>8, <1>9

\* The driver's steps on the journal, and those that only look at it.
LEMMA JournalStepTyped ==
    ASSUME Typed, NEW d \in Drivers,
           \/ Classify(d) \/ CheckGate(d) \/ Observe(d) \/ Mark(d) \/ Dispatch(d)
           \/ Lose(d) \/ Receive(d) \/ Reset(d) \/ Commit(d) \/ Refuse(d)
           \/ JournalFails(d) \/ Settle(d)
    PROVE  Typed'
<1>. USE DEF Typed
<1>1. StateTyped' /\ UNCHANGED bounds
  BY SameState DEF Classify, CheckGate, Observe, Mark, Dispatch, Lose, Receive, Reset,
     Commit, Refuse, JournalFails, Settle
<1>2. params' = params /\ spoiled' \subseteq Steps
  <2>1. CASE spoiled' = spoiled \cup {at[d]} /\ at[d] \in Steps /\ params' = params
    BY <2>1 DEF Rest
  <2>2. CASE UNCHANGED inputs
    BY <2>2 DEF Rest, inputs
  <2>3. Classify(d) \/ Observe(d) \/ Commit(d) => at[d] \in Steps
    BY DEF Classify, Observe, Commit, DriverInv, Placed
  <2>4. Classify(d) \/ Observe(d) \/ Commit(d) =>
           params' = params /\ (spoiled' = spoiled \/ spoiled' = spoiled \cup {at[d]})
    BY DEF Classify, Observe, Commit
  <2>. QED
    BY <2>1, <2>2, <2>3, <2>4 DEF CheckGate, Mark, Dispatch, Lose, Receive, Reset, Refuse,
       JournalFails, Settle, inputs
<1>3. CASE ~Reset(d) /\ ~Commit(d) /\ ~Refuse(d) /\ ~Observe(d) /\ ~Mark(d) /\ ~Dispatch(d)
  <2>1. at[d] \in Steps
    BY <1>3 DEF Classify, CheckGate, Lose, Receive, JournalFails, Settle, DriverInv, Placed
  <2>2. \A answer : Normalized(at[d], answer) \in Results /\ Degrade[at[d]] \in Results
    BY <2>1, NormalizedTyped
  <2>3. DriverInv'
    BY <1>3, <2>1, <2>2, TurnTyped, WithTyped DEF Classify, CheckGate, Lose, Receive,
       JournalFails, Settle, Labels, DriverInv, Placed, Results
  <2>. QED
    BY <1>1, <1>3, <1>2, <2>3 DEF Rest, Classify, CheckGate, Lose, Receive, JournalFails,
       Settle, bounds
<1>4. CASE Dispatch(d)
  <2>1. DriverInv'
    BY <1>4 DEF Dispatch, Goto, Labels, DriverInv, DriverTyped, Placed
  <2>2. calls' \in [Steps -> Nat]
    <3>1. \A s \in Steps : calls[s] + 1 \in Nat
      BY DEF Rest
    <3>2. at[d] \in Steps /\ calls' = [calls EXCEPT ![at[d]] = calls[at[d]] + 1]
      BY <1>4 DEF Dispatch, DriverInv, Placed
    <3>. QED
      BY <3>1, <3>2 DEF Rest
  <2>. QED
    BY <1>1, <1>4, <1>2, <2>1, <2>2 DEF Dispatch, Rest, bounds
<1>5. CASE Observe(d) \/ Mark(d)
  <2>1. at[d] \in Steps /\ Degrade[at[d]] \in Results
    BY <1>5, NormalizedTyped DEF Observe, Mark, DriverInv, Placed
  <2>2. DriverInv'
    BY <1>5, <2>1, TurnTyped, WithTyped DEF Observe, Mark, Labels
  <2>3. journal' \in [Steps -> Attempts]
    <3>. DEFINE seen == [journal[at[d]] EXCEPT !.st = "not_started", !.input = input[d]]
                marked == [journal[at[d]] EXCEPT !.st = "outcome_unknown"]
    <3>1. journal[at[d]] \in Attempts /\ input[d] \in {0} \cup Inputs
      BY <2>1 DEF Rest, DriverInv, DriverTyped
    <3>2. seen \in Attempts /\ marked \in Attempts
      BY <3>1 DEF Attempts
    <3>3. \/ journal' = journal
          \/ journal' = [journal EXCEPT ![at[d]] = seen]
          \/ journal' = [journal EXCEPT ![at[d]] = marked]
      BY <1>5 DEF Observe, Mark, Attempt
    <3>. HIDE DEF seen, marked
    <3>. QED
      BY <2>1, <3>2, <3>3, AttemptTyped DEF Rest
  <2>. QED
    BY <1>1, <1>5, <1>2, <2>2, <2>3 DEF Observe, Mark, Rest, bounds
<1>6. CASE Reset(d) \/ Commit(d) \/ Refuse(d)
  <2>1. at[d] \in Steps /\ Normalized(at[d], resp[d]) \in Results
        /\ {"failed", Degrade[at[d]]} \subseteq Results /\ resp[d] \in Answers
        /\ asked[d] \in 0..MaxSeq
    BY <1>6, NormalizedTyped DEF Reset, Commit, Refuse, DriverInv, DriverTyped, Placed, Results
  <2>2. DriverInv'
    BY <1>6, <2>1, TurnTyped, WithTyped, ExitTyped DEF Reset, Commit, Refuse, Labels
  <2>3. journal[at[d]] \in Attempts
    BY <2>1 DEF Rest
  <2>4. journal' \in [Steps -> Attempts]
    <3>. DEFINE a == journal[at[d]]
    <3>1. CASE Reset(d)
      <4>1. [a EXCEPT !.st = "not_started", !.count = @ + 1, !.boundary = asked[d]] \in Attempts
        <5>1. a.count + 1 \in Nat /\ a.answer \in Answers
          BY <2>3 DEF Attempts
        <5>. QED
          BY <2>1, <2>3, <5>1 DEF Attempts
      <4>. QED
        BY <3>1, <4>1, <2>1 DEF Reset, Rest
    <3>2. ASSUME NEW answer \in Answers, Committed(at[d], answer)
          PROVE  journal' \in [Steps -> Attempts]
      <4>1. [a EXCEPT !.st = "committed", !.answer = answer] \in Attempts
        BY <2>3 DEF Attempts
      <4>. QED
        BY <3>2, <4>1, <2>1 DEF Committed, Rest
    <3>. QED
      BY <1>6, <2>1, <3>1, <3>2 DEF Commit, Refuse, Answers
  <2>. QED
    BY <1>1, <1>6, <1>2, <2>2, <2>4 DEF Reset, Commit, Refuse, Rest, bounds
<1>. QED
  BY <1>3, <1>4, <1>5, <1>6

LEMMA ToolTyped ==
    ASSUME Typed, NEW d \in Drivers, Tool(d)
    PROVE  Typed'
<1>. USE DEF Typed
<1>1. PICK answer \in Answers, id \in 0..MaxSeq : Answer(d, answer, id)
  <2>1. pending \in 0..MaxSeq /\ (seq < MaxSeq => seq + 1 \in 0..MaxSeq) /\ 0 \in 0..MaxSeq
    BY DEF StateTyped
  <2>. QED
    BY <2>1 DEF Tool, ToolEnds, ToolAsks, ToolReports, Answers
<1>2. DriverInv' /\ Rest'
  BY <1>1, AnswerTyped DEF Answer, Rest, inputs, bounds
<1>3. StateTyped'
  <2>1. CASE ToolAsks(d)
    BY <2>1 DEF ToolAsks, StateTyped, Statuses, Held, sentinels
  <2>2. CASE ToolEnds(d) \/ ToolReports(d)
    BY <2>2, SameState DEF ToolEnds, ToolReports
  <2>. QED
    BY <2>1, <2>2 DEF Tool
<1>. QED
  BY <1>2, <1>3

LEMMA OperatorTyped ==
    ASSUME Typed, Operator
    PROVE  Typed'
<1>. USE DEF Typed
<1>1. DriverInv'
  BY DEF Operator, ApproveRun, RejectRun, PauseRun, ResumeRun, EditSentinels, Replan, driver,
     DriverInv, DriverTyped, Placed
<1>2. params' \in [Steps -> Inputs] /\ spoiled' \subseteq Steps
  <2>1. CASE Replan
    <3>1. \A s \in Steps : 3 - params[s] \in Inputs
      BY DEF Rest, Inputs
    <3>. QED
      BY <2>1, <3>1 DEF Replan, Rest
  <2>2. CASE ~Replan
    BY <2>2 DEF Operator, ApproveRun, RejectRun, PauseRun, ResumeRun, EditSentinels, inputs,
       Rest
  <2>. QED
    BY <2>1, <2>2
<1>3. journal' = journal /\ calls' = calls
      /\ replans' \in 0..MaxReplans /\ edits' \in 0..MaxEdits
  BY DEF Operator, ApproveRun, RejectRun, PauseRun, ResumeRun, EditSentinels, Replan, Edit,
     bounds, Rest
<1>4. StateTyped'
  <2>. USE DEF StateTyped, Statuses, Held, OperatorHeld, Terminal
  <2>1. CASE ApproveRun
    BY <2>1 DEF ApproveRun, sentinels
  <2>2. CASE RejectRun
    BY <2>2 DEF RejectRun
  <2>6. CASE PauseRun
    BY <2>6 DEF PauseRun, approvals
  <2>3. CASE EditSentinels
    <3>1. pauseFile' \in BOOLEAN /\ stopFile' \in BOOLEAN
      BY <2>3 DEF EditSentinels
    <3>. QED
      BY <2>3, <3>1 DEF EditSentinels, approvals
  <2>4. CASE Replan
    BY <2>4 DEF Replan, approvals, sentinels
  <2>5. ASSUME NEW force \in BOOLEAN, ResumeRun(force) PROVE StateTyped'
    BY <2>5 DEF ResumeRun, approvals
  <2>. QED
    BY <2>1, <2>2, <2>3, <2>4, <2>5, <2>6 DEF Operator
<1>. QED
  BY <1>1, <1>3, <1>4, <1>2 DEF Rest

LEMMA TypedInductive == Typed /\ [Next]_vars => Typed'
<1>. SUFFICES ASSUME Typed, [Next]_vars PROVE Typed'
  OBVIOUS
<1>1. CASE UNCHANGED vars
  BY <1>1, SameState DEF vars, driver, inputs, bounds, Typed, DriverInv, DriverTyped,
     Placed, Rest
<1>. QED
  BY <1>1, StateStepTyped, JournalStepTyped, ToolTyped, OperatorTyped DEF Next, Step

\* The run starts as plan, idle, with no driver and no attempt.
LEMMA InitTyped == Init => Typed
<1>. SUFFICES ASSUME Init PROVE Typed
  OBVIOUS
<1>1. StateTyped
  <2>1. 0 \in 0..MaxSeq /\ 0 \in 0..NumSteps
    BY DEF WorkflowAssumption
  <2>. QED
    BY <2>1 DEF Init, StateTyped, Statuses
<1>2. DriverInv
  BY DEF Init, DriverInv, DriverTyped, Placed, Labels, Answers
<1>3. NoAttempt \in Attempts
  BY DEF NoAttempt, Attempts, Answers, Inputs
<1>4. Rest
  BY <1>3 DEF Init, Rest, Inputs
<1>. QED
  BY <1>1, <1>2, <1>4 DEF Typed

\* WorkflowRun is type correct: no driver, whatever it read before and wherever
\* it died, writes a status, a step or an attempt that is not one.
THEOREM TypeCorrect == Spec => []TypeOK
<1>1. Typed => TypeOK
  BY DEF Typed, TypeOK, DriverInv, Rest
<1>. QED
  BY <1>1, InitTyped, TypedInductive, PTL DEF Spec

-----------------------------------------------------------------------------
(* The journal *)

\* What one step may do to an attempt: record it, mark it dispatched, set it
\* back at an approval boundary, or commit it.
LEMMA CommittedUntouched ==
    ASSUME Typed, [Next]_vars, NEW s \in Steps, journal[s].st = "committed"
    PROVE  journal'[s] = journal[s]
<1>. USE DEF Typed, Rest
<1>1. ASSUME NEW d \in Drivers, Observe(d) \/ Mark(d) PROVE journal'[s] = journal[s]
  BY <1>1 DEF Observe, Mark, Attempt
<1>2. ASSUME NEW d \in Drivers, Reset(d) PROVE journal'[s] = journal[s]
  BY <1>2 DEF Reset
<1>3. ASSUME NEW d \in Drivers, Commit(d) \/ Refuse(d) PROVE journal'[s] = journal[s]
  BY <1>3 DEF Commit, Refuse, Committed
<1>4. CASE UNCHANGED journal
  BY <1>4
<1>5. ASSUME NEW d \in Drivers, Step(d), ~Observe(d), ~Mark(d), ~Reset(d), ~Commit(d),
             ~Refuse(d)
      PROVE  UNCHANGED journal
  BY <1>5 DEF Step, Ensure, Loop, Classify, CheckGate, Boundary, Dispatch, Lose, Receive,
     JournalFails, Settle, Unknown, Fail, Project, ReportBlocked
<1>6. ASSUME NEW d \in Drivers, Start(d) \/ Tool(d) \/ Die(d) PROVE UNCHANGED journal
  BY <1>6 DEF Start, Tool, ToolEnds, ToolAsks, ToolReports, Answer, Die
<1>7. CASE Operator \/ UNCHANGED vars
  BY <1>7 DEF Operator, ApproveRun, RejectRun, PauseRun, ResumeRun, EditSentinels, Replan, vars
<1>. QED
  BY <1>1, <1>2, <1>3, <1>4, <1>5, <1>6, <1>7 DEF Next

\* A committed answer is final: it is what every later run replays.
THEOREM CommittedIsFinalHolds == Spec => CommittedIsFinal
<1>1. Typed /\ [Next]_vars =>
        [\A s \in Steps : journal[s].st = "committed" => journal'[s] = journal[s]]_journal
  BY CommittedUntouched
<1>. QED
  BY <1>1, InitTyped, TypedInductive, PTL DEF Spec, CommittedIsFinal

-----------------------------------------------------------------------------
(* At most one dispatch *)

\* A driver that marked an attempt as dispatched and has not let go of it.
Owns(d) == pc[d] \in {"dispatch", "wait", "answered", "reset", "refuse", "commit"}

\* Why no attempt is called twice: the attempt a driver owns is outcome_unknown,
\* so that nobody else can mark it, no two own the same one, and an attempt
\* that may be marked, or was and is not called yet, has a call to spare.
OwnedUnknown == \A d \in Drivers : Owns(d) => journal[at[d]].st = "outcome_unknown"
OneOwner == \A d, e \in Drivers : Owns(d) /\ Owns(e) /\ at[d] = at[e] => d = e
CallToSpare ==
    /\ \A s \in Steps :
          journal[s].st \in {"missing", "not_started"} => calls[s] <= journal[s].count
    /\ \A d \in Drivers : pc[d] = "dispatch" => calls[at[d]] <= journal[at[d]].count

DispatchInv == OwnedUnknown /\ OneOwner /\ CallToSpare /\ AtMostOnceDispatch

\* The steps of a driver that take no attempt, keep the journal and call nothing.
LEMMA OwnershipKept ==
    ASSUME DispatchInv, UNCHANGED <<journal, calls>>,
           \A d \in Drivers :
              Owns(d)' => /\ Owns(d) /\ at'[d] = at[d]
                          /\ pc'[d] = "dispatch" => pc[d] = "dispatch"
    PROVE  DispatchInv'
<1>. USE DEF DispatchInv
<1>1. OwnedUnknown' /\ OneOwner' /\ AtMostOnceDispatch'
  BY DEF OwnedUnknown, OneOwner, AtMostOnceDispatch
<1>2. CallToSpare'
  BY DEF CallToSpare, Owns
<1>. QED
  BY <1>1, <1>2

\* The attempt of a driver, and what nobody but the driver's step changes.
LEMMA AtAttempt ==
    ASSUME Typed, NEW d \in Drivers, at[d] \in Steps
    PROVE  /\ journal[at[d]] \in Attempts
           /\ journal[at[d]].count \in Nat /\ calls[at[d]] \in Nat
  BY DEF Typed, Rest, Attempts

\* An owner lets go of its attempt, committed or set back with one more call.
LEMMA OwnerLeaves ==
    ASSUME Typed, DispatchInv, NEW d \in Drivers, at[d] \in Steps, Owns(d), ~Owns(d)',
           calls' = calls,
           \A e \in Drivers \ {d} : pc'[e] = pc[e] /\ at'[e] = at[e],
           \A s \in Steps \ {at[d]} : journal'[s] = journal[s],
           \/ /\ journal'[at[d]].st = "committed"
              /\ journal'[at[d]].count = journal[at[d]].count
           \/ /\ journal'[at[d]].st = "not_started"
              /\ journal'[at[d]].count = journal[at[d]].count + 1
    PROVE  DispatchInv'
<1>. USE AtAttempt DEF DispatchInv
<1>1. \A e \in Drivers \ {d} : Owns(e)' => Owns(e) /\ at[e] # at[d] /\ at[e] \in Steps
  BY DEF OneOwner, Owns, Typed, DriverInv, Placed
<1>2. OwnedUnknown'
  BY <1>1 DEF OwnedUnknown
<1>3. OneOwner'
  BY <1>1 DEF OneOwner
<1>4. CallToSpare' /\ AtMostOnceDispatch'
  BY <1>1 DEF CallToSpare, AtMostOnceDispatch, Owns
<1>. QED
  BY <1>2, <1>3, <1>4

\* The steps of the owner, which concern its attempt only.
LEMMA OwnerStep ==
    ASSUME Typed, DispatchInv, NEW d \in Drivers, Owns(d),
           Dispatch(d) \/ Reset(d) \/ Commit(d) \/ Refuse(d)
    PROVE  DispatchInv'
<1>1. at[d] \in Steps
  BY DEF Owns, Typed, DriverInv, Placed
<1>2. /\ journal[at[d]] \in Attempts
      /\ journal[at[d]].count \in Nat /\ calls[at[d]] \in Nat
  BY <1>1, AtAttempt
<1>3. \A e \in Drivers \ {d} : pc'[e] = pc[e] /\ at'[e] = at[e]
  BY DEF Dispatch, Reset, Commit, Refuse, Exit, Turn, With, Goto, Typed, DriverInv, DriverTyped
<1>4. \A s \in Steps \ {at[d]} : journal'[s] = journal[s]
  BY DEF Dispatch, Reset, Commit, Refuse, Committed, Typed, Rest
<1>5. CASE Dispatch(d)
  <2>1. journal' = journal /\ calls' = [calls EXCEPT ![at[d]] = @ + 1] /\ at' = at
        /\ pc' = [pc EXCEPT ![d] = "wait"] /\ pc[d] = "dispatch"
    BY <1>5 DEF Dispatch, Goto
  <2>2. OwnedUnknown' /\ OneOwner'
    BY <2>1 DEF DispatchInv, OwnedUnknown, OneOwner, Owns, Typed, DriverInv, DriverTyped
  <2>3. \A e \in Drivers : pc'[e] = "dispatch" =>
           pc[e] = "dispatch" /\ at[e] # at[d] /\ at[e] \in Steps
    BY <2>1 DEF DispatchInv, OneOwner, Owns, Typed, DriverInv, DriverTyped, Placed
  <2>4. CallToSpare'
    BY <2>1, <2>3 DEF DispatchInv, CallToSpare, OwnedUnknown, Typed, Rest
  <2>5. AtMostOnceDispatch'
    BY <1>1, <1>2, <2>1 DEF DispatchInv, CallToSpare, AtMostOnceDispatch, Typed, Rest
  <2>. QED
    BY <2>2, <2>4, <2>5 DEF DispatchInv
<1>6. CASE Reset(d)
  <2>1. journal[at[d]].st = "outcome_unknown"
    BY DEF DispatchInv, OwnedUnknown
  <2>2. /\ journal' = [journal EXCEPT ![at[d]] =
               [journal[at[d]] EXCEPT !.st = "not_started", !.count = @ + 1, !.boundary = asked[d]]]
        /\ calls' = calls /\ pc' = [pc EXCEPT ![d] = "idle"]
    BY <1>6, <2>1 DEF Reset, Exit, Goto
  <2>3. journal'[at[d]].st = "not_started" /\ journal'[at[d]].count = journal[at[d]].count + 1
    BY <1>1, <1>2, <2>2 DEF Attempts, Typed, Rest
  <2>4. ~Owns(d)'
    BY <2>2 DEF Owns, Typed, DriverInv, DriverTyped
  <2>. QED
    BY <1>1, <1>3, <1>4, <2>2, <2>3, <2>4, OwnerLeaves
<1>7. CASE Commit(d) \/ Refuse(d)
  <2>1. PICK answer \in Answers : Committed(at[d], answer)
    BY <1>7 DEF Commit, Refuse, Answers, Typed, DriverInv, DriverTyped
  <2>2. journal'[at[d]].st = "committed" /\ journal'[at[d]].count = journal[at[d]].count
    BY <1>1, <1>2, <2>1 DEF Committed, Attempts, Typed, Rest
  <2>3. ~Owns(d)' /\ calls' = calls
    BY <1>7 DEF Commit, Refuse, With, Turn, Goto, Owns, Typed, DriverInv, DriverTyped
  <2>. QED
    BY <1>1, <1>3, <1>4, <2>2, <2>3, OwnerLeaves
<1>. QED
  BY <1>5, <1>6, <1>7

\* A driver that records or marks an attempt that nobody owns.
LEMMA MarkStep ==
    ASSUME Typed, DispatchInv, NEW d \in Drivers, Observe(d) \/ Mark(d)
    PROVE  DispatchInv'
<1>. USE DEF Typed, Rest, DispatchInv, OwnedUnknown, OneOwner, CallToSpare,
             AtMostOnceDispatch, Owns
<1>1. at[d] \in Steps /\ journal[at[d]] \in Attempts /\ journal[at[d]].count \in Nat
      /\ at' = at /\ calls' = calls /\ calls[at[d]] \in Nat
  BY DEF Observe, Mark, Turn, With, DriverInv, Placed, Attempts
<1>2. \A e \in Drivers \ {d} : pc'[e] = pc[e]
  BY DEF Observe, Mark, Turn, With, Goto, DriverInv, DriverTyped
<1>3. CASE journal' = journal /\ pc'[d] \in {"boundary", "settle", "fail"}
  BY <1>1, <1>2, <1>3, OwnershipKept
<1>4. ASSUME NEW to \in {"not_started", "outcome_unknown"}, NEW a,
             journal' = [journal EXCEPT ![at[d]] = a],
             a.st = to, a.count = journal[at[d]].count,
             \/ journal[at[d]].st = "missing" /\ to = "not_started" /\ pc'[d] = "boundary"
             \/ /\ journal[at[d]].st = "not_started" /\ to = "outcome_unknown"
                /\ pc'[d] = "dispatch"
      PROVE  DispatchInv'
  <2>1. \A e \in Drivers \ {d} : Owns(e) => at[e] # at[d]
    BY <1>4
  <2>2. journal'[at[d]].st = to /\ journal'[at[d]].count = journal[at[d]].count
    BY <1>1, <1>4
  <2>3. \A s \in Steps \ {at[d]} : journal'[s] = journal[s]
    BY <1>4
  <2>4. calls[at[d]] <= journal[at[d]].count
    BY <1>1, <1>4
  <2>. QED
    BY <1>1, <1>2, <1>4, <2>1, <2>2, <2>3, <2>4
<1>5. CASE Observe(d) /\ journal' # journal
  <2>. DEFINE a == [journal[at[d]] EXCEPT !.st = "not_started", !.input = input[d]]
  <2>1. a.st = "not_started" /\ a.count = journal[at[d]].count
    BY <1>1 DEF Attempts
  <2>2. /\ journal' = [journal EXCEPT ![at[d]] = a] /\ journal[at[d]].st = "missing"
        /\ pc'[d] = "boundary"
    BY <1>5 DEF Observe, Turn, Goto, DriverInv, DriverTyped
  <2>. HIDE DEF a
  <2>. QED
    BY <1>4, <2>1, <2>2
<1>6. CASE Mark(d) /\ journal' # journal
  <2>. DEFINE a == [journal[at[d]] EXCEPT !.st = "outcome_unknown"]
  <2>1. a.st = "outcome_unknown" /\ a.count = journal[at[d]].count
    BY <1>1 DEF Attempts
  <2>2. /\ journal' = [journal EXCEPT ![at[d]] = a] /\ journal[at[d]].st = "not_started"
        /\ pc'[d] = "dispatch"
    BY <1>6 DEF Mark, Attempt, Turn, Goto, DriverInv, DriverTyped
  <2>. HIDE DEF a
  <2>. QED
    BY <1>4, <2>1, <2>2
<1>7. journal' = journal => pc'[d] \in {"boundary", "settle", "fail"}
  <2>1. Observe(d) => pc'[d] \in {"boundary", "fail"}
    BY DEF Observe, Turn, Goto, DriverInv, DriverTyped
  <2>2. Mark(d) /\ journal[at[d]].st # "not_started" => pc'[d] = "settle"
    BY DEF Mark, With, Goto, DriverInv, DriverTyped
  <2>3. Mark(d) /\ journal[at[d]].st = "not_started" => journal' # journal
    BY <1>1 DEF Mark, Attempt, Attempts
  <2>. QED
    BY <2>1, <2>2, <2>3
<1>. QED
  BY <1>3, <1>5, <1>6, <1>7

\* Where a driver may go from what it finds recorded.
LEMMA ClassifyMoves ==
    ASSUME Typed, NEW d \in Drivers, Classify(d)
    PROVE  /\ pc'[d] \in {"fail", "unknown", "gate", "project"}
           /\ UNCHANGED <<journal, calls, at>>
           /\ \A e \in Drivers \ {d} : pc'[e] = pc[e]
<1>1. \E label \in {"fail", "unknown", "gate", "project"} :
         Goto(d, label) /\ UNCHANGED <<journal, calls, at>>
  BY DEF Classify, Turn, With
<1>. QED
  BY <1>1 DEF Goto, Typed, DriverInv, DriverTyped

LEMMA DispatchInductive == Typed /\ DispatchInv /\ [Next]_vars => DispatchInv'
<1>. SUFFICES ASSUME Typed, DispatchInv, [Next]_vars PROVE DispatchInv'
  OBVIOUS
<1>1. ASSUME NEW d \in Drivers,
             \/ Start(d) \/ Ensure(d) \/ Loop(d) \/ Boundary(d) \/ Unknown(d) \/ Fail(d)
             \/ Project(d) \/ ReportBlocked(d) \/ Die(d)
      PROVE  DispatchInv'
  BY <1>1, OwnershipKept DEF Start, Ensure, Loop, Boundary, Unknown, Fail, Project,
     ReportBlocked, Die, Exit, Turn, Goto, Owns, Typed, DriverInv, DriverTyped
<1>2. ASSUME NEW d \in Drivers,
             \/ CheckGate(d) \/ Lose(d) \/ Receive(d) \/ JournalFails(d) \/ Settle(d)
             \/ Tool(d)
      PROVE  DispatchInv'
  BY <1>2, OwnershipKept DEF CheckGate, Lose, Receive, JournalFails, Settle, Tool,
     ToolEnds, ToolAsks, ToolReports, Answer, Turn, With, Goto, Owns, Typed, DriverInv,
     DriverTyped
<1>3. ASSUME NEW d \in Drivers, Classify(d) PROVE DispatchInv'
  <2>1. /\ ~Owns(d)' /\ UNCHANGED <<journal, calls, at>>
        /\ \A e \in Drivers \ {d} : pc'[e] = pc[e]
    BY <1>3, ClassifyMoves DEF Owns
  <2>. QED
    BY <2>1, OwnershipKept DEF Owns
<1>4. ASSUME NEW d \in Drivers, Observe(d) \/ Mark(d) PROVE DispatchInv'
  BY <1>4, MarkStep
<1>5. ASSUME NEW d \in Drivers, Dispatch(d) \/ Reset(d) \/ Commit(d) \/ Refuse(d)
      PROVE  DispatchInv'
  <2>1. Owns(d)
    BY <1>5 DEF Dispatch, Reset, Commit, Refuse, Owns
  <2>. QED
    BY <1>5, <2>1, OwnerStep
<1>6. CASE Operator \/ UNCHANGED vars
  BY <1>6, OwnershipKept DEF Operator, ApproveRun, RejectRun, PauseRun, ResumeRun,
     EditSentinels, Replan, vars, driver, Owns
<1>. QED
  BY <1>1, <1>4, <1>5, <1>6, <1>2, <1>3 DEF Next, Step

LEMMA InitDispatch == Init => DispatchInv
  BY DEF Init, DispatchInv, OwnedUnknown, OneOwner, CallToSpare, AtMostOnceDispatch, Owns,
     NoAttempt

\* Tools are never called twice for one attempt: however often the command is
\* rerun, by how many drivers, after whatever crash or lost answer, a step is
\* called once, and once more for each approval boundary it passed.
THEOREM AtMostOnceDispatchHolds == Spec => []AtMostOnceDispatch
<1>1. DispatchInv => AtMostOnceDispatch
  BY DEF DispatchInv
<1>. QED
  BY <1>1, InitDispatch, InitTyped, TypedInductive, DispatchInductive, PTL DEF Spec

-----------------------------------------------------------------------------
(* Holds *)

\* Only an operator's act or the driver that reports the rest blocked lifts a
\* hold: every other write of a driver looks for what holds the run.
LEMMA DriverKeepsHold ==
    ASSUME NEW d \in Drivers, Start(d) \/ Step(d) \/ Tool(d) \/ Die(d),
           ~ReportBlocked(d), status \in Held
    PROVE  status' \in Held
<1>1. CASE Start(d) \/ Loop(d) \/ Boundary(d) \/ Fail(d) \/ Project(d)
  BY <1>1, HoldKept DEF Start, Loop, Boundary, Fail, Project
<1>2. CASE Die(d)
  BY <1>2, HoldKept DEF Die
<1>3. CASE Ensure(d) \/ Unknown(d)
  BY <1>3 DEF Ensure, Unknown, Held, OperatorHeld, Terminal
<1>4. CASE Tool(d)
  BY <1>4 DEF Tool, ToolEnds, ToolAsks, ToolReports, runState, Held
<1>5. CASE \/ Classify(d) \/ CheckGate(d) \/ Observe(d) \/ Mark(d) \/ Dispatch(d) \/ Lose(d)
           \/ Receive(d) \/ Reset(d) \/ Commit(d) \/ Refuse(d) \/ JournalFails(d) \/ Settle(d)
  BY <1>5 DEF Classify, CheckGate, Observe, Mark, Dispatch, Lose, Receive, Reset, Commit,
     Refuse, JournalFails, Settle, runState
<1>. QED
  BY <1>1, <1>2, <1>3, <1>4, <1>5 DEF Step

\* A hold stands until the operator lifts it, but for the driver that found the rest of the
\* plan blocked and writes that without looking once more.
THEOREM HoldsStandHolds == Spec => HoldsStand
<1>1. Typed /\ [Next]_vars =>
        [(status \in Held /\ status' \notin Held) =>
            \/ UNCHANGED <<driver, plan>>
            \/ \E d \in Drivers :
                  pc[d] = "blocked" /\ pc'[d] = "idle" /\ status' = "failed"]_vars
  <2>. SUFFICES ASSUME Typed, Next, status \in Held, status' \notin Held,
                       ~UNCHANGED <<driver, plan>>
                PROVE  \E d \in Drivers :
                          pc[d] = "blocked" /\ pc'[d] = "idle" /\ status' = "failed"
    OBVIOUS
  <2>1. ~Operator
    BY DEF Operator, ApproveRun, RejectRun, PauseRun, ResumeRun, EditSentinels, Replan,
       Held, OperatorHeld, Terminal
  <2>2. PICK d \in Drivers : Start(d) \/ Step(d) \/ Tool(d) \/ Die(d)
    BY <2>1 DEF Next
  <2>3. ReportBlocked(d)
    BY <2>2, DriverKeepsHold
  <2>4. pc[d] = "blocked" /\ pc'[d] = "idle" /\ status' = "failed"
    BY <2>3 DEF ReportBlocked, Exit, Goto, Typed, DriverInv, DriverTyped
  <2>. QED
    BY <2>4
<1>. QED
  BY <1>1, InitTyped, TypedInductive, PTL DEF Spec, HoldsStand

-----------------------------------------------------------------------------
(* Plan, journal and approvals, with one driver at a time                   *)

\* What follows holds for one driver at a time (MaxActive <= 1), however many come one
\* after the other, die anywhere and leave tools at work.

\* The labels at which a driver works on a step.
InStep == Labels \ {"idle", "ensure", "loop", "blocked"}

Good(s) == journal[s].st = "committed" /\ journal[s].answer = "ok"

\* The last approval boundary of a step, if it has one, has been approved.
Cleared(s) == journal[s].boundary = 0 \/ journal[s].boundary \in approved

Alone == \A d, e \in Drivers : pc[d] # "idle" /\ pc[e] # "idle" => d = e

\* An approval is decided once, and everything names approvals there have been.
Numbered ==
    /\ pending <= seq /\ approved \subseteq 1..seq /\ pending \notin approved
    /\ \A s \in Steps : journal[s].boundary <= seq
    /\ \A d \in Drivers : asked[d] <= seq

\* A step in progress is the one the loop would select again.
OneCurrent == \A s \in Steps : plan[s] = "in_progress" => s = First(Ready(plan))

\* A call is made, or has an answer, only past an approved boundary.
Past(s) ==
    /\ journal[s].count > 0 => journal[s].boundary # 0
    /\ journal[s].st \in {"outcome_unknown", "committed"} => Cleared(s)

\* A result is what the journal says, but for a committed good answer that could not be used.
Matches(s, r) ==
    /\ r = "completed" => Good(s)
    /\ Good(s) => r = "completed" \/ s \in spoiled

\* What a driver at a label knows: its step is the current one, or the plan is new; how
\* far its attempt is; and that the result it carries matches the journal.
Fits(d, label) ==
    /\ label \in InStep =>
          /\ plan[at[d]] \in {"pending", "in_progress"}
          /\ \A s \in Steps : plan[s] = "in_progress" => s = at[d]
    /\ label \in {"gate", "observe"} => journal[at[d]].st \in {"missing", "not_started"}
    /\ label \in {"boundary", "mark"} => journal[at[d]].st = "not_started"
    /\ label \in {"observe", "boundary", "mark", "settle", "project"} => Cleared(at[d])
    /\ label = "answered" /\ resp[d] = "approval" => asked[d] # 0
    /\ label = "reset" => asked[d] # 0
    /\ label = "fail" => Matches(at[d], "failed")
    /\ label \in {"settle", "project"} =>
          /\ Matches(at[d], result[d])
          /\ result[d] = "partial" => Degrade[at[d]] = "partial"

Agreement == PlanMatchesJournal /\ ApprovalKeepsStepUnfinished

OneInv ==
    /\ Alone /\ Numbered /\ OneCurrent /\ Agreement
    /\ \A s \in Steps : Past(s)
    /\ \A d \in Drivers : Fits(d, pc[d])

LEMMA IdleFits ==
    ASSUME NEW d \in Drivers, NEW label \in {"idle", "ensure", "loop", "blocked"}
    PROVE  Fits(d, label) /\ Fits(d, label)'
  BY DEF Fits, InStep

\* The others are idle while one works, and stay so.
LEMMA OthersIdle ==
    ASSUME Alone, NEW d \in Drivers, pc[d] # "idle",
           \A e \in Drivers \ {d} : pc'[e] = pc[e]
    PROVE  /\ Alone' /\ \A e \in Drivers \ {d} : pc'[e] = "idle"
           /\ \A e \in Drivers \ {d} : Fits(e, pc[e])'
<1>1. \A e \in Drivers \ {d} : pc[e] = "idle"
  BY DEF Alone
<1>2. Alone'
  BY <1>1 DEF Alone
<1>3. ASSUME NEW e \in Drivers \ {d} PROVE Fits(e, pc[e])'
  <2>1. Fits(e, "idle")' /\ pc'[e] = "idle"
    BY <1>1, <1>3, IdleFits
  <2>. QED
    BY <2>1 DEF Fits
<1>. QED
  BY <1>1, <1>2, <1>3

\* A driver's step that leaves plan, journal and approvals alone.
LEMMA QuietStep ==
    ASSUME Typed, OneInv, NEW d \in Drivers, pc[d] # "idle",
           \A e \in Drivers \ {d} : pc'[e] = pc[e],
           UNCHANGED <<plan, journal, approvals>>, spoiled \subseteq spoiled',
           \A e \in Drivers : asked'[e] = asked[e] \/ asked'[e] = 0,
           Fits(d, pc[d])'
    PROVE  OneInv'
<1>1. Alone' /\ \A e \in Drivers : Fits(e, pc[e])'
  BY OthersIdle DEF OneInv
<1>2. Numbered'
  BY DEF OneInv, Numbered, approvals, Typed, StateTyped
<1>3. OneCurrent' /\ Agreement' /\ \A s \in Steps : Past(s)'
  BY DEF OneInv, OneCurrent, Agreement, PlanMatchesJournal, ApprovalKeepsStepUnfinished, Past,
     Cleared, approvals
<1>. QED
  BY <1>1, <1>2, <1>3 DEF OneInv

\* The driver goes on at a label that fits.
LEMMA TurnFits ==
    ASSUME Typed, NEW d \in Drivers, NEW label \in Labels, Turn(d, label), Fits(d, label),
           UNCHANGED <<plan, journal, approvals, spoiled>>
    PROVE  Fits(d, pc[d])' /\ \A e \in Drivers \ {d} : pc'[e] = pc[e]
<1>1. pc' = [pc EXCEPT ![d] = label] /\ UNCHANGED <<at, resp, asked, result>>
  BY DEF Turn, Goto
<1>2. pc'[d] = label /\ \A e \in Drivers \ {d} : pc'[e] = pc[e]
  BY <1>1 DEF Typed, DriverInv, DriverTyped
<1>. QED
  BY <1>1, <1>2 DEF Fits, Matches, Good, Cleared, approvals

LEMMA TurnStep ==
    ASSUME Typed, OneInv, NEW d \in Drivers, pc[d] # "idle", NEW label \in Labels,
           Turn(d, label), Fits(d, label), UNCHANGED <<plan, journal, approvals, spoiled>>
    PROVE  OneInv'
<1>1. \A e \in Drivers : asked'[e] = asked[e]
  BY DEF Turn
<1>. QED
  BY <1>1, TurnFits, QuietStep

LEMMA ExitMoves ==
    ASSUME Typed, NEW d \in Drivers, Exit(d)
    PROVE  /\ pc'[d] = "idle" /\ \A e \in Drivers \ {d} : pc'[e] = pc[e]
           /\ \A e \in Drivers : asked'[e] = asked[e] \/ asked'[e] = 0
           /\ Fits(d, pc[d])'
<1>1. /\ pc'[d] = "idle" /\ \A e \in Drivers \ {d} : pc'[e] = pc[e]
      /\ \A e \in Drivers : asked'[e] = asked[e] \/ asked'[e] = 0
  BY DEF Exit, Goto, Typed, DriverInv, DriverTyped
<1>2. Fits(d, "idle")'
  BY IdleFits
<1>3. Fits(d, pc[d])'
  BY <1>1, <1>2 DEF Fits
<1>. QED
  BY <1>1, <1>3

LEMMA ExitStep ==
    ASSUME Typed, OneInv, NEW d \in Drivers, pc[d] # "idle", Exit(d),
           UNCHANGED <<plan, journal, approvals, spoiled>>
    PROVE  OneInv'
  BY ExitMoves, QuietStep

\* It comes to a label with a result, where that is what the journal says.
LEMMA WithStep ==
    ASSUME Typed, OneInv, NEW d \in Drivers, NEW r \in Results,
           NEW label \in {"settle", "project"}, With(d, r, label),
           pc[d] \in InStep, Cleared(at[d]),
           Matches(at[d], r), r = "partial" => Degrade[at[d]] = "partial",
           UNCHANGED <<plan, journal, approvals, spoiled>>
    PROVE  OneInv'
<1>1. /\ pc'[d] = label /\ result'[d] = r /\ UNCHANGED <<at, resp, asked>>
      /\ \A e \in Drivers \ {d} : pc'[e] = pc[e]
  BY DEF With, Goto, Typed, DriverInv, DriverTyped
<1>2. Fits(d, label)'
  BY <1>1 DEF OneInv, Fits, Matches, Good, Cleared, approvals
<1>3. Fits(d, pc[d])'
  BY <1>1, <1>2 DEF Fits
<1>4. pc[d] # "idle"
  BY DEF InStep
<1>. QED
  BY <1>1, <1>3, <1>4, QuietStep

\* Degrading never completes a step.
LEMMA Degraded ==
    ASSUME NEW s \in Steps
    PROVE  Degrade[s] \in Results /\ Degrade[s] # "completed"
  BY DEF Results

\* The command starts only when no other runs.
LEMMA StartStep ==
    ASSUME MaxActive <= 1, Typed, OneInv, NEW d \in Drivers, Start(d)
    PROVE  OneInv'
<1>1. \A e \in Drivers : pc[e] = "idle"
  <2>1. SUFFICES ASSUME NEW e \in Drivers, pc[e] # "idle" PROVE FALSE
    OBVIOUS
  <2>2. Active = {e}
    BY <2>1 DEF Active, OneInv, Alone
  <2>3. Cardinality(Active) = 1
    BY <2>2, FS_Singleton
  <2>. QED
    BY <2>3 DEF Start
<1>2. /\ pc'[d] \in {"idle", "ensure"} /\ \A e \in Drivers \ {d} : pc'[e] = "idle"
      /\ UNCHANGED <<plan, journal, approvals, asked, spoiled>>
  BY <1>1 DEF Start, Turn, Goto, Typed, DriverInv, DriverTyped, inputs
<1>3. Alone'
  BY <1>2 DEF Alone
<1>4. ASSUME NEW e \in Drivers PROVE Fits(e, pc[e])'
  BY <1>2 DEF Fits, InStep
<1>5. Numbered'
  BY <1>2 DEF OneInv, Numbered, approvals
<1>6. OneCurrent' /\ Agreement' /\ \A s \in Steps : Past(s)'
  BY <1>2 DEF OneInv, OneCurrent, Agreement, PlanMatchesJournal, ApprovalKeepsStepUnfinished,
     Past, Cleared, approvals
<1>. QED
  BY <1>3, <1>4, <1>5, <1>6 DEF OneInv

\* The steps that settle or report the run's status, or give up.
LEMMA StatusStep ==
    ASSUME Typed, OneInv, NEW d \in Drivers,
           \/ Ensure(d) \/ Boundary(d) \/ Unknown(d) \/ ReportBlocked(d) \/ Die(d)
    PROVE  OneInv'
<1>1. pc[d] # "idle" /\ UNCHANGED <<plan, journal, approvals, spoiled>>
  BY DEF Ensure, Boundary, Unknown, ReportBlocked, Die, inputs
<1>2. CASE Exit(d)
  BY <1>1, <1>2, ExitStep
<1>3. CASE Ensure(d) /\ Turn(d, "loop")
  <2>1. "loop" \in Labels /\ Fits(d, "loop")
    BY IdleFits DEF Labels
  <2>. QED
    BY <1>1, <1>3, <2>1, TurnStep
<1>4. CASE Boundary(d) /\ Turn(d, "mark")
  <2>1. "mark" \in Labels /\ Fits(d, "mark")
    BY <1>4 DEF Labels, Boundary, OneInv, Fits, InStep
  <2>. QED
    BY <1>1, <1>4, <2>1, TurnStep
<1>. QED
  BY <1>2, <1>3, <1>4 DEF Ensure, Boundary, Unknown, ReportBlocked, Die

\* The plan gives the step another input than the recorded one: it fails.
LEMMA ConflictStep ==
    ASSUME Typed, OneInv, NEW d \in Drivers, pc[d] \in InStep, Turn(d, "fail"),
           spoiled' = spoiled \cup {at[d]}, UNCHANGED <<plan, journal, approvals>>
    PROVE  OneInv'
<1>1. /\ pc'[d] = "fail" /\ UNCHANGED <<at, resp, asked, result>>
      /\ \A e \in Drivers \ {d} : pc'[e] = pc[e]
  BY DEF Turn, Goto, Typed, DriverInv, DriverTyped
<1>2. Fits(d, pc[d])'
  BY <1>1 DEF OneInv, Fits, Matches
<1>3. pc[d] # "idle"
  BY DEF InStep
<1>. QED
  BY <1>1, <1>2, <1>3, QuietStep

\* What a driver finds recorded, and what it may do with it.
LEMMA ClassifyStep ==
    ASSUME Typed, OneInv, NEW d \in Drivers, Classify(d)
    PROVE  OneInv'
<1>. DEFINE a == journal[at[d]]
<1>1. pc[d] = "classify" /\ at[d] \in Steps /\ UNCHANGED <<plan, journal, approvals>>
  BY DEF Classify, runState, Typed, DriverInv, Placed
<1>2. /\ plan[at[d]] \in {"pending", "in_progress"}
      /\ \A s \in Steps : plan[s] = "in_progress" => s = at[d]
  BY <1>1 DEF OneInv, Fits, InStep, Labels
<1>3. CASE Conflict(d)
  <2>1. Turn(d, "fail") /\ spoiled' = spoiled \cup {at[d]}
    BY <1>3 DEF Classify
  <2>. QED
    BY <1>1, <2>1, ConflictStep DEF InStep, Labels
<1>4. ~Conflict(d) => UNCHANGED <<plan, journal, approvals, spoiled>>
  BY <1>1 DEF Classify
<1>5. CASE ~Conflict(d) /\ Turn(d, "unknown")
  <2>1. "unknown" \in Labels /\ Fits(d, "unknown")
    BY <1>2 DEF Labels, Fits
  <2>. QED
    BY <1>1, <1>5, <1>4, <2>1, TurnStep
<1>6. CASE ~Conflict(d) /\ a.answer = "approval" /\ Turn(d, "fail")
  <2>1. "fail" \in Labels /\ Fits(d, "fail")
    BY <1>2, <1>6 DEF Labels, Fits, Matches, Good
  <2>. QED
    BY <1>1, <1>6, <1>4, <2>1, TurnStep
<1>7. CASE ~Conflict(d) /\ a.st \notin {"outcome_unknown", "committed"} /\ Turn(d, "gate")
  <2>1. a \in Attempts
    BY <1>1, AtAttempt
  <2>2. "gate" \in Labels /\ Fits(d, "gate")
    BY <1>2, <1>7, <2>1 DEF Labels, Fits, Attempts
  <2>. QED
    BY <1>1, <1>7, <1>4, <2>2, TurnStep
<1>8. CASE /\ ~Conflict(d) /\ a.st = "committed"
           /\ With(d, Normalized(at[d], a.answer), "project")
  <2>1. Normalized(at[d], a.answer) \in Results
    BY <1>1, NormalizedTyped
  <2>2. Cleared(at[d])
    BY <1>1, <1>8 DEF OneInv, Past
  <2>3. Matches(at[d], Normalized(at[d], a.answer))
    BY <1>1, <1>8, Degraded DEF Normalized, Matches, Good
  <2>4. Normalized(at[d], a.answer) = "partial" => Degrade[at[d]] = "partial"
    BY DEF Normalized
  <2>. QED
    BY <1>1, <1>8, <1>4, <2>1, <2>2, <2>3, <2>4, WithStep DEF InStep, Labels
<1>9. CASE ~Conflict(d)
  <2>1. /\ a.st = "outcome_unknown" \/ (a.st = "missing" /\ was[d] = "in_progress") =>
              Turn(d, "unknown")
        /\ a.st = "committed" /\ a.answer = "approval" => Turn(d, "fail")
        /\ a.st = "committed" /\ a.answer # "approval" =>
              With(d, Normalized(at[d], a.answer), "project")
        /\ a.st \notin {"outcome_unknown", "committed"}
             /\ ~(a.st = "missing" /\ was[d] = "in_progress") => Turn(d, "gate")
    BY <1>9 DEF Classify
  <2>. QED
    BY <1>5, <1>6, <1>7, <1>8, <1>9, <2>1
<1>. QED
  BY <1>3, <1>9

\* What a driver learns from the canonical state.
LEMMA GateStep ==
    ASSUME Typed, OneInv, NEW d \in Drivers, CheckGate(d)
    PROVE  OneInv'
<1>1. pc[d] = "gate" /\ UNCHANGED <<plan, journal, approvals, spoiled>>
  BY DEF CheckGate, runState, inputs
<1>2. CASE Turn(d, "observe") /\ Cleared(at[d])
  <2>1. "observe" \in Labels /\ Fits(d, "observe")
    BY <1>1, <1>2 DEF Labels, OneInv, Fits, InStep
  <2>. QED
    BY <1>1, <1>2, <2>1, TurnStep
<1>3. CASE Turn(d, "fail")
  <2>1. "fail" \in Labels /\ Fits(d, "fail")
    BY <1>1 DEF Labels, OneInv, Fits, InStep, Matches, Good
  <2>. QED
    BY <1>1, <1>3, <2>1, TurnStep
<1>. QED
  BY <1>2, <1>3 DEF CheckGate, Cleared

\* The attempt of a driver that owns it: unknown, and past its boundary.
LEMMA OwnedPast ==
    ASSUME Typed, DispatchInv, OneInv, NEW d \in Drivers, Owns(d)
    PROVE  /\ at[d] \in Steps /\ journal[at[d]].st = "outcome_unknown"
           /\ Cleared(at[d]) /\ ~Good(at[d])
<1>1. at[d] \in Steps /\ journal[at[d]].st = "outcome_unknown"
  BY DEF Owns, DispatchInv, OwnedUnknown, Typed, DriverInv, Placed
<1>. QED
  BY <1>1 DEF OneInv, Past, Good

\* A call is made, lost, or answered.
LEMMA CallStep ==
    ASSUME Typed, DispatchInv, OneInv, NEW d \in Drivers,
           Dispatch(d) \/ Lose(d) \/ Receive(d)
    PROVE  OneInv'
<1>1. /\ pc[d] \in {"dispatch", "wait", "answered"} /\ pc[d] \in InStep
      /\ UNCHANGED <<plan, journal, approvals, spoiled>>
  BY DEF Dispatch, Lose, Receive, runState, InStep, Labels, inputs
<1>2. at[d] \in Steps /\ Cleared(at[d]) /\ ~Good(at[d])
  BY <1>1, OwnedPast DEF Owns
<1>3. /\ plan[at[d]] \in {"pending", "in_progress"}
      /\ \A s \in Steps : plan[s] = "in_progress" => s = at[d]
  BY <1>1 DEF OneInv, Fits
<1>4. CASE Dispatch(d)
  <2>1. /\ pc'[d] = "wait" /\ UNCHANGED <<at, resp, asked, result>>
        /\ \A e \in Drivers \ {d} : pc'[e] = pc[e]
    BY <1>4 DEF Dispatch, Goto, Typed, DriverInv, DriverTyped
  <2>2. Fits(d, pc[d])'
    BY <1>1, <1>3, <2>1 DEF Fits
  <2>. QED
    BY <1>1, <2>1, <2>2, QuietStep
<1>5. CASE Lose(d)
  <2>1. Degrade[at[d]] \in Results /\ Matches(at[d], Degrade[at[d]])
    BY <1>2, Degraded DEF Matches
  <2>. QED
    BY <1>1, <1>2, <1>5, <2>1, WithStep DEF Lose
<1>6. CASE Receive(d)
  <2>1. PICK label \in {"commit", "reset", "refuse"} :
           Turn(d, label) /\ (label = "reset" => resp[d] = "approval")
    BY <1>6 DEF Receive
  <2>2. pc[d] = "answered"
    BY <1>6 DEF Receive
  <2>3. label \in Labels /\ Fits(d, label)
    BY <1>3, <2>1, <2>2 DEF Labels, OneInv, Fits
  <2>. QED
    BY <1>1, <2>1, <2>2, <2>3, TurnStep
<1>. QED
  BY <1>4, <1>5, <1>6

\* The journal cannot be had, or is looked at once more.
LEMMA JournalFailsStep ==
    ASSUME Typed, DispatchInv, OneInv, NEW d \in Drivers, JournalFails(d) \/ Settle(d)
    PROVE  OneInv'
<1>1. /\ pc[d] \in {"observe", "refuse", "reset", "boundary", "mark", "commit", "settle"}
      /\ pc[d] \in InStep /\ pc[d] # "idle" /\ UNCHANGED <<plan, journal, approvals, spoiled>>
  BY DEF JournalFails, Settle, runState, InStep, Labels, inputs
<1>2. /\ plan[at[d]] \in {"pending", "in_progress"}
      /\ \A s \in Steps : plan[s] = "in_progress" => s = at[d]
  BY <1>1 DEF OneInv, Fits
<1>3. at[d] \in Steps
  BY <1>1 DEF Typed, DriverInv, Placed
<1>4. CASE pc[d] \in {"observe", "refuse"} /\ Turn(d, "fail")
  <2>1. ~Good(at[d])
    BY <1>4, OwnedPast DEF Owns, OneInv, Fits, Good
  <2>2. "fail" \in Labels /\ Fits(d, "fail")
    BY <1>2, <2>1 DEF Labels, Fits, Matches
  <2>. QED
    BY <1>1, <1>4, <2>2, TurnStep
<1>5. CASE Turn(d, "refuse") \/ Turn(d, "unknown")
  <2>1. {"refuse", "unknown"} \subseteq Labels /\ Fits(d, "refuse") /\ Fits(d, "unknown")
    BY <1>2 DEF Labels, Fits
  <2>. QED
    BY <1>1, <1>5, <2>1, TurnStep
<1>6. CASE /\ pc[d] \in {"boundary", "mark", "commit"}
           /\ \E r \in {"failed", Degrade[at[d]]} : With(d, r, "settle")
  <2>1. Cleared(at[d]) /\ ~Good(at[d])
    BY <1>6, OwnedPast DEF Owns, OneInv, Fits, Good
  <2>2. \A r \in {"failed", Degrade[at[d]]} :
           r \in Results /\ Matches(at[d], r) /\ (r = "partial" => Degrade[at[d]] = "partial")
    BY <1>3, <2>1, Degraded DEF Results, Matches
  <2>. QED
    BY <1>1, <1>6, <2>1, <2>2, WithStep
<1>7. CASE pc[d] = "settle" /\ Turn(d, "project")
  <2>1. "project" \in Labels /\ Fits(d, "project")
    BY <1>7 DEF Labels, OneInv, Fits, InStep
  <2>. QED
    BY <1>1, <1>7, <2>1, TurnStep
<1>. QED
  BY <1>4, <1>5, <1>6, <1>7 DEF JournalFails, Settle

\* A driver changes its attempt: its step is not done yet, and so plan and approvals
\* agree with whatever the attempt becomes.
LEMMA AttemptStep ==
    ASSUME Typed, OneInv, NEW d \in Drivers, pc[d] \in InStep, NEW a,
           journal' = [journal EXCEPT ![at[d]] = a], a.boundary <= seq,
           \A s \in Steps : s = at[d] => Past(s)',
           UNCHANGED <<plan, approvals>>, spoiled \subseteq spoiled',
           \A e \in Drivers \ {d} : pc'[e] = pc[e],
           \A e \in Drivers : asked'[e] = asked[e] \/ asked'[e] = 0,
           Fits(d, pc[d])'
    PROVE  OneInv'
<1>1. at[d] \in Steps /\ plan[at[d]] \in {"pending", "in_progress"} /\ pc[d] # "idle"
  BY DEF OneInv, Fits, InStep, Typed, DriverInv, Placed
<1>2. Alone' /\ \A e \in Drivers : Fits(e, pc[e])'
  BY <1>1, OthersIdle DEF OneInv
<1>3. journal'[at[d]] = a /\ \A s \in Steps \ {at[d]} : journal'[s] = journal[s]
  BY <1>1 DEF Typed, Rest
<1>4. Numbered'
  BY <1>3 DEF OneInv, Numbered, approvals, Typed, StateTyped
<1>5. OneCurrent'
  BY DEF OneInv, OneCurrent
<1>6. Agreement'
  BY <1>1, <1>3 DEF OneInv, Agreement, PlanMatchesJournal, ApprovalKeepsStepUnfinished, Done,
     approvals
<1>7. \A s \in Steps : Past(s)'
  BY <1>3 DEF OneInv, Past, Cleared, approvals
<1>. QED
  BY <1>2, <1>4, <1>5, <1>6, <1>7 DEF OneInv

\* The attempt is recorded, and marked as dispatched.
LEMMA MarkOne ==
    ASSUME Typed, OneInv, NEW d \in Drivers, Observe(d) \/ Mark(d)
    PROVE  OneInv'
<1>. DEFINE a == journal[at[d]]
<1>1. /\ pc[d] \in {"observe", "mark"} /\ pc[d] \in InStep /\ pc[d] # "idle"
      /\ UNCHANGED <<plan, approvals>> /\ spoiled \subseteq spoiled'
  BY DEF Observe, Mark, runState, InStep, Labels, inputs
<1>2. at[d] \in Steps /\ a \in Attempts
  BY <1>1, AtAttempt DEF Typed, DriverInv, Placed
<1>3. /\ plan[at[d]] \in {"pending", "in_progress"}
      /\ \A s \in Steps : plan[s] = "in_progress" => s = at[d]
      /\ Cleared(at[d]) /\ Past(at[d]) /\ a.boundary <= seq
  BY <1>1, <1>2 DEF OneInv, Fits, Numbered
<1>4. CASE Observe(d) /\ Conflict(d)
  <2>1. Turn(d, "fail") /\ spoiled' = spoiled \cup {at[d]} /\ UNCHANGED journal
    BY <1>4 DEF Observe
  <2>. QED
    BY <1>1, <2>1, ConflictStep
<1>5. CASE Observe(d) /\ ~Conflict(d) /\ a.st # "missing"
  <2>1. a.st = "not_started" /\ Turn(d, "boundary") /\ UNCHANGED <<journal, spoiled>>
    BY <1>1, <1>5 DEF OneInv, Fits, Observe
  <2>2. "boundary" \in Labels /\ Fits(d, "boundary")
    BY <1>3, <2>1 DEF Labels, Fits
  <2>. QED
    BY <1>1, <2>1, <2>2, TurnStep
<1>6. ASSUME NEW b, NEW label \in {"boundary", "dispatch"},
             b.boundary = a.boundary, b.count = a.count,
             b.st \in {"not_started", "outcome_unknown"},
             journal' = [journal EXCEPT ![at[d]] = b], Turn(d, label),
             label = "boundary" => b.st = "not_started"
      PROVE  OneInv'
  <2>1. /\ pc'[d] = label /\ UNCHANGED <<at, resp, asked, result>>
        /\ \A e \in Drivers \ {d} : pc'[e] = pc[e]
    BY <1>6 DEF Turn, Goto, Typed, DriverInv, DriverTyped
  <2>2. journal'[at[d]] = b
    BY <1>2, <1>6 DEF Typed, Rest
  <2>3. \A s \in Steps : s = at[d] => Past(s)'
    BY <1>1, <1>3, <1>6, <2>1, <2>2 DEF Past, Cleared, approvals
  <2>4. Fits(d, pc[d])'
    BY <1>1, <1>3, <1>6, <2>1, <2>2 DEF Fits, Cleared, approvals
  <2>. QED
    BY <1>1, <1>3, <1>6, <2>1, <2>3, <2>4, AttemptStep
<1>7. CASE Observe(d) /\ ~Conflict(d) /\ a.st = "missing"
  <2>. DEFINE b == [a EXCEPT !.st = "not_started", !.input = input[d]]
  <2>1. b.boundary = a.boundary /\ b.count = a.count /\ b.st = "not_started"
    BY <1>2 DEF Attempts
  <2>2. journal' = [journal EXCEPT ![at[d]] = b] /\ Turn(d, "boundary")
    BY <1>7 DEF Observe
  <2>. HIDE DEF b
  <2>. QED
    BY <1>6, <2>1, <2>2
<1>8. CASE Mark(d)
  <2>. DEFINE b == [a EXCEPT !.st = "outcome_unknown"]
  <2>1. b.boundary = a.boundary /\ b.count = a.count /\ b.st = "outcome_unknown"
    BY <1>2 DEF Attempts
  <2>2. a.st = "not_started"
    BY <1>8 DEF OneInv, Fits, Mark
  <2>3. journal' = [journal EXCEPT ![at[d]] = b] /\ Turn(d, "dispatch")
    BY <1>8, <2>2 DEF Mark, Attempt
  <2>. HIDE DEF b
  <2>. QED
    BY <1>6, <2>1, <2>3
<1>. QED
  BY <1>4, <1>5, <1>7, <1>8

\* An answer is committed, or the attempt set back at an approval boundary.
LEMMA OwnerOne ==
    ASSUME Typed, DispatchInv, OneInv, NEW d \in Drivers, Reset(d) \/ Commit(d) \/ Refuse(d)
    PROVE  OneInv'
<1>. DEFINE a == journal[at[d]]
<1>1. /\ Owns(d) /\ pc[d] \in {"reset", "commit", "refuse"} /\ pc[d] \in InStep
      /\ UNCHANGED <<plan, approvals>> /\ spoiled \subseteq spoiled'
  BY DEF Reset, Commit, Refuse, runState, InStep, Labels, Owns, inputs
<1>2. at[d] \in Steps /\ a \in Attempts /\ a.st = "outcome_unknown" /\ Cleared(at[d])
  BY <1>1, OwnedPast, AtAttempt
<1>3. /\ plan[at[d]] \in {"pending", "in_progress"}
      /\ \A s \in Steps : plan[s] = "in_progress" => s = at[d]
      /\ Past(at[d]) /\ a.boundary <= seq
  BY <1>1, <1>2 DEF OneInv, Fits, Numbered
<1>4. CASE Reset(d)
  <2>. DEFINE b == [a EXCEPT !.st = "not_started", !.count = @ + 1, !.boundary = asked[d]]
  <2>1. journal' = [journal EXCEPT ![at[d]] = b] /\ Exit(d)
    BY <1>2, <1>4 DEF Reset
  <2>2. b.st = "not_started" /\ b.boundary = asked[d]
    BY <1>2 DEF Attempts
  <2>3. asked[d] # 0 /\ asked[d] <= seq
    BY <1>4 DEF Reset, OneInv, Fits, Numbered
  <2>4. journal'[at[d]] = b
    BY <1>2, <2>1 DEF Typed, Rest
  <2>. HIDE DEF b
  <2>5. \A s \in Steps : s = at[d] => Past(s)'
    BY <2>2, <2>3, <2>4 DEF Past
  <2>6. /\ \A e \in Drivers \ {d} : pc'[e] = pc[e]
        /\ \A e \in Drivers : asked'[e] = asked[e] \/ asked'[e] = 0
        /\ Fits(d, pc[d])'
    BY <2>1, ExitMoves
  <2>. QED
    BY <1>1, <2>1, <2>2, <2>3, <2>5, <2>6, AttemptStep
<1>5. ASSUME NEW answer \in {resp[d], "approval"}, Committed(at[d], answer),
             UNCHANGED <<at, resp, asked>>, \A e \in Drivers \ {d} : pc'[e] = pc[e],
             \/ /\ pc'[d] = "settle"
                /\ result'[d] = "completed" => answer = "ok"
                /\ answer = "ok" => result'[d] = "completed" \/ at[d] \in spoiled'
                /\ result'[d] = "partial" => Degrade[at[d]] = "partial"
             \/ pc'[d] = "fail" /\ answer = "approval"
      PROVE  OneInv'
  <2>. DEFINE b == [a EXCEPT !.st = "committed", !.answer = answer]
  <2>1. journal' = [journal EXCEPT ![at[d]] = b]
    BY <1>5 DEF Committed
  <2>2. b.st = "committed" /\ b.answer = answer /\ b.boundary = a.boundary /\ b.count = a.count
    BY <1>2 DEF Attempts
  <2>3. journal'[at[d]] = b
    BY <1>2, <2>1 DEF Typed, Rest
  <2>. HIDE DEF b
  <2>4. \A s \in Steps : s = at[d] => Past(s)'
    BY <1>1, <1>2, <1>3, <2>2, <2>3 DEF Past, Cleared, approvals
  <2>5. Good(at[d])' <=> answer = "ok"
    BY <1>5, <2>2, <2>3 DEF Good
  <2>6. Cleared(at[d])'
    BY <1>1, <1>2, <1>5, <2>2, <2>3 DEF Cleared, approvals
  <2>7. Fits(d, pc[d])'
    BY <1>1, <1>3, <1>5, <2>5, <2>6 DEF Fits, Matches
  <2>. QED
    BY <1>1, <1>3, <1>5, <2>1, <2>2, <2>4, <2>7, AttemptStep
<1>6. CASE Commit(d)
  <2>1. PICK r \in {Normalized(at[d], resp[d]), "failed", Degrade[at[d]]} :
           /\ With(d, r, "settle")
           /\ r = Normalized(at[d], resp[d]) \/ at[d] \in spoiled'
    BY <1>6 DEF Commit
  <2>2. /\ Committed(at[d], resp[d]) /\ UNCHANGED <<at, resp, asked>> /\ pc'[d] = "settle"
        /\ result'[d] = r /\ \A e \in Drivers \ {d} : pc'[e] = pc[e]
    BY <1>6, <2>1 DEF Commit, With, Goto, Typed, DriverInv, DriverTyped
  <2>3. /\ result'[d] = "completed" => resp[d] = "ok"
        /\ resp[d] = "ok" => result'[d] = "completed" \/ at[d] \in spoiled'
        /\ result'[d] = "partial" => Degrade[at[d]] = "partial"
    BY <1>2, <2>1, <2>2, Degraded DEF Normalized
  <2>. QED
    BY <1>5, <2>2, <2>3
<1>7. CASE Refuse(d)
  <2>1. /\ Committed(at[d], "approval") /\ UNCHANGED <<at, resp, asked>> /\ pc'[d] = "fail"
        /\ \A e \in Drivers \ {d} : pc'[e] = pc[e]
    BY <1>7 DEF Refuse, Turn, Goto, Typed, DriverInv, DriverTyped
  <2>. QED
    BY <1>5, <2>1
<1>. QED
  BY <1>4, <1>6, <1>7

\* A driver changes the plan at its own step, none other being in progress, and leaves it.
LEMMA LeavePlan ==
    ASSUME Typed, OneInv, NEW d \in Drivers, pc[d] \in InStep,
           NEW end \in {"completed", "skipped", "failed"}, plan' = [plan EXCEPT ![at[d]] = end],
           UNCHANGED <<journal, approvals, spoiled>>,
           end = "completed" /\ Degrade[at[d]] # "partial" => Good(at[d]),
           Good(at[d]) => end = "completed" \/ at[d] \in spoiled,
           end # "failed" => Cleared(at[d]),
           \A e \in Drivers \ {d} : pc'[e] = pc[e],
           \A e \in Drivers : asked'[e] = asked[e] \/ asked'[e] = 0,
           Fits(d, pc[d])'
    PROVE  OneInv'
<1>1. at[d] \in Steps /\ pc[d] # "idle"
      /\ \A s \in Steps : plan[s] = "in_progress" => s = at[d]
  BY DEF OneInv, Fits, InStep, Typed, DriverInv, Placed
<1>2. Alone' /\ \A e \in Drivers : Fits(e, pc[e])'
  BY <1>1, OthersIdle DEF OneInv
<1>3. plan'[at[d]] = end /\ \A s \in Steps \ {at[d]} : plan'[s] = plan[s]
  BY <1>1 DEF Typed, StateTyped
<1>4. Numbered'
  BY DEF OneInv, Numbered, approvals, Typed, StateTyped
<1>5. OneCurrent'
  BY <1>1, <1>3 DEF OneCurrent
<1>6. PlanMatchesJournal'
  BY <1>3 DEF OneInv, Agreement, PlanMatchesJournal, Good
<1>7. ApprovalKeepsStepUnfinished'
  <2>1. ASSUME NEW s \in Steps, journal[s].boundary # 0, pending = journal[s].boundary
        PROVE  ~Done(plan, s)'
    <3>1. CASE s = at[d]
      <4>1. ~Cleared(s)
        BY <2>1 DEF OneInv, Numbered, Cleared
      <4>. QED
        BY <1>3, <3>1, <4>1 DEF Done
    <3>2. CASE s # at[d]
      BY <1>3, <2>1, <3>2 DEF OneInv, Agreement, ApprovalKeepsStepUnfinished, Done
    <3>. QED
      BY <3>1, <3>2
  <2>. QED
    BY <2>1 DEF ApprovalKeepsStepUnfinished, approvals
<1>8. \A s \in Steps : Past(s)'
  BY DEF OneInv, Past, Cleared, approvals
<1>. QED
  BY <1>2, <1>4, <1>5, <1>6, <1>7, <1>8 DEF OneInv, Agreement

\* The result of a step enters the plan.
LEMMA ProjectStep ==
    ASSUME Typed, OneInv, NEW d \in Drivers, Fail(d) \/ Project(d)
    PROVE  OneInv'
<1>1. pc[d] \in {"fail", "project"} /\ pc[d] \in InStep
      /\ UNCHANGED <<journal, approvals, spoiled>>
  BY DEF Fail, Project, InStep, Labels, inputs
<1>2. CASE Fail(d)
  <2>1. /\ plan' = [plan EXCEPT ![at[d]] = "failed"] /\ Exit(d)
        /\ Good(at[d]) => at[d] \in spoiled
    BY <1>2 DEF Fail, OneInv, Fits, Matches
  <2>. QED
    BY <1>1, <2>1, ExitMoves, LeavePlan
<1>3. CASE Project(d)
  <2>. DEFINE end == IF result[d] = "partial" THEN "completed" ELSE result[d]
  <2>1. pc[d] = "project" /\ plan' = [plan EXCEPT ![at[d]] = end] /\ result[d] \in Results
    BY <1>3 DEF Project, Typed, DriverInv, Placed
  <2>2. end \in {"completed", "skipped", "failed"}
    BY <2>1 DEF Results
  <2>3. /\ end = "completed" /\ Degrade[at[d]] # "partial" => Good(at[d])
        /\ Good(at[d]) => end = "completed" \/ at[d] \in spoiled
        /\ Cleared(at[d])
    BY <2>1 DEF OneInv, Fits, Matches
  <2>4. Exit(d) \/ \E label \in {"blocked", "loop"} : Turn(d, label)
    BY <1>3 DEF Project
  <2>5. /\ \A e \in Drivers \ {d} : pc'[e] = pc[e]
        /\ \A e \in Drivers : asked'[e] = asked[e] \/ asked'[e] = 0
        /\ Fits(d, pc[d])'
    <3>1. CASE Exit(d)
      BY <3>1, ExitMoves
    <3>2. ASSUME NEW label \in {"blocked", "loop"}, Turn(d, label)
          PROVE  pc'[d] = label /\ asked' = asked /\ \A e \in Drivers \ {d} : pc'[e] = pc[e]
      BY <3>2 DEF Turn, Goto, Typed, DriverInv, DriverTyped
    <3>3. pc'[d] \in {"blocked", "loop"} => Fits(d, pc[d])'
      BY DEF Fits, InStep
    <3>. QED
      BY <2>4, <3>1, <3>2, <3>3
  <2>. HIDE DEF end
  <2>. QED
    BY <1>1, <2>1, <2>2, <2>3, <2>5, LeavePlan
<1>. QED
  BY <1>2, <1>3

\* Selecting a step changes nothing of what the loop would select.
LEMMA SameSelection ==
    ASSUME NEW p, NEW q, NEW s \in Steps, p[s] \in {"pending", "in_progress"},
           q[s] = "in_progress", \A t \in Steps \ {s} : q[t] = p[t]
    PROVE  Ready(q) = Ready(p) /\ \A t \in Steps : Done(q, t) <=> Done(p, t)
<1>1. \A t \in Steps : Done(q, t) <=> Done(p, t)
  BY DEF Done
<1>2. Open(q) = Open(p)
  BY DEF Open
<1>3. \A t : Done(q, t) <=> Done(p, t)
  BY <1>1 DEF Done
<1>4. ASSUME NEW t \in Steps PROVE t \in Ready(q) <=> t \in Ready(p)
  BY <1>2, <1>3 DEF Ready
<1>5. Ready(p) \subseteq Steps /\ Ready(q) \subseteq Steps
  BY DEF Ready, Open
<1>. QED
  BY <1>1, <1>4, <1>5

\* The loop takes up the step that is in progress, if one is, and so no other step counts
\* as completed because it was left in progress.
LEMMA LoopStep ==
    ASSUME Typed, OneInv, NEW d \in Drivers, Loop(d)
    PROVE  OneInv'
<1>1. pc[d] = "loop" /\ UNCHANGED <<journal, approvals>>
  BY DEF Loop
<1>2. CASE Controlled \/ Ready(plan) = {}
  <2>1. Exit(d) /\ UNCHANGED <<plan, spoiled>>
    BY <1>2 DEF Loop
  <2>. QED
    BY <1>1, <2>1, ExitStep
<1>3. CASE ~(Controlled \/ Ready(plan) = {})
  <2>. DEFINE s == First(Ready(plan))
  <2>1. s \in Steps /\ plan[s] \in {"pending", "in_progress"}
    BY <1>3, SelectedStep
  <2>2. /\ plan' = WithCurrent(plan, s) /\ pc' = [pc EXCEPT ![d] = "classify"]
        /\ at' = [at EXCEPT ![d] = s] /\ UNCHANGED <<resp, asked, result>>
        /\ spoiled' = spoiled \ {s}
    BY <1>3 DEF Loop, Goto
  <2>3. \A t \in Steps : plan[t] = "in_progress" => t = s
    BY DEF OneInv, OneCurrent
  <2>. HIDE DEF s
  <2>4. plan'[s] = "in_progress" /\ \A t \in Steps \ {s} : plan'[t] = plan[t]
    BY <2>1, <2>2, <2>3 DEF WithCurrent
  <2>5. /\ pc'[d] = "classify" /\ at'[d] = s
        /\ \A e \in Drivers \ {d} : pc'[e] = pc[e]
    BY <2>2 DEF Typed, DriverInv, DriverTyped
  <2>6. Ready(plan') = Ready(plan) /\ \A t \in Steps : Done(plan', t) <=> Done(plan, t)
    BY <2>1, <2>4, SameSelection
  <2>7. Fits(d, pc[d])'
    BY <2>3, <2>4, <2>5 DEF Fits
  <2>8. Alone' /\ \A e \in Drivers : Fits(e, pc[e])'
    BY <1>1, <2>5, <2>7, OthersIdle DEF OneInv
  <2>9. OneCurrent'
    <3>1. ASSUME NEW t \in Steps, plan'[t] = "in_progress" PROVE t = First(Ready(plan'))
      BY <2>3, <2>4, <2>6, <3>1 DEF s
    <3>. QED
      BY <3>1 DEF OneCurrent
  <2>10. PlanMatchesJournal'
    BY <1>1, <2>2, <2>4 DEF OneInv, Agreement, PlanMatchesJournal
  <2>11. ApprovalKeepsStepUnfinished'
    BY <1>1, <2>6 DEF OneInv, Agreement, ApprovalKeepsStepUnfinished, approvals
  <2>12. Numbered'
    BY <1>1, <2>2 DEF OneInv, Numbered, approvals
  <2>13. \A t \in Steps : Past(t)'
    BY <1>1 DEF OneInv, Past, Cleared, approvals
  <2>. QED
    BY <2>8, <2>9, <2>10, <2>11, <2>12, <2>13 DEF OneInv, Agreement
<1>. QED
  BY <1>2, <1>3

\* A tool answers: an approval it asks for has a number that no attempt has met yet.
LEMMA ToolStep ==
    ASSUME Typed, OneInv, NEW d \in Drivers, Tool(d)
    PROVE  OneInv'
<1>1. /\ UNCHANGED <<plan, journal, approved, spoiled>>
      /\ \/ UNCHANGED <<pending, seq>>
         \/ seq' = seq + 1 /\ pending' = seq + 1
  BY DEF Tool, ToolEnds, ToolAsks, ToolReports, Answer, runState, approvals, inputs
<1>2. /\ seq \in Nat /\ pending \in Nat /\ seq' \in Nat /\ approved \subseteq Nat
      /\ \A s \in Steps : journal[s].boundary \in Nat
      /\ \A e \in Drivers : asked[e] \in Nat
  BY <1>1 DEF Typed, StateTyped, Rest, Attempts, DriverInv, DriverTyped
<1>3. PICK answer \in Answers, id \in Nat :
         Answer(d, answer, id) /\ id <= seq' /\ (answer = "approval" => id # 0)
  <2>1. CASE ToolEnds(d)
    BY <1>2, <2>1 DEF ToolEnds, Answers
  <2>2. CASE ToolAsks(d)
    BY <1>2, <2>2 DEF ToolAsks, Answers
  <2>3. CASE ToolReports(d)
    BY <1>2, <2>3 DEF ToolReports, Answers, OneInv, Numbered, runState, approvals
  <2>. QED
    BY <2>1, <2>2, <2>3 DEF Tool
<1>4. Numbered'
  <2>1. pending' <= seq' /\ approved' \subseteq 1..seq' /\ pending' \notin approved'
    BY <1>1, <1>2 DEF OneInv, Numbered
  <2>2. \A s \in Steps : journal'[s].boundary <= seq'
    BY <1>1, <1>2 DEF OneInv, Numbered
  <2>3. \A e \in Drivers : asked'[e] <= seq'
    BY <1>1, <1>2, <1>3 DEF OneInv, Numbered, Answer, Typed, DriverInv, DriverTyped
  <2>. QED
    BY <2>1, <2>2, <2>3 DEF Numbered
<1>5. OneCurrent' /\ PlanMatchesJournal' /\ \A s \in Steps : Past(s)'
  BY <1>1 DEF OneInv, Agreement, OneCurrent, PlanMatchesJournal, Past, Cleared
<1>6. ApprovalKeepsStepUnfinished'
  BY <1>1, <1>2 DEF OneInv, Agreement, Numbered, ApprovalKeepsStepUnfinished
<1>7. CASE pc[d] = "wait"
  <2>1. /\ pc'[d] = "answered" /\ \A e \in Drivers \ {d} : pc'[e] = pc[e]
        /\ UNCHANGED <<at, result>> /\ resp'[d] = answer /\ asked'[d] = id
    BY <1>3, <1>7 DEF Answer, Goto, Typed, DriverInv, DriverTyped
  <2>2. Fits(d, pc[d])'
    BY <1>1, <1>3, <1>7, <2>1 DEF OneInv, Fits, InStep, Labels
  <2>3. Alone' /\ \A e \in Drivers : Fits(e, pc[e])'
    BY <1>7, <2>1, <2>2, OthersIdle DEF OneInv
  <2>. QED
    BY <1>4, <1>5, <1>6, <2>3 DEF OneInv, Agreement
<1>8. CASE pc[d] # "wait"
  <2>1. UNCHANGED <<pc, at, resp, asked, result>>
    BY <1>3, <1>8 DEF Answer
  <2>2. Alone'
    BY <2>1 DEF OneInv, Alone
  <2>3. ASSUME NEW e \in Drivers PROVE Fits(e, pc[e])'
    BY <1>1, <2>1 DEF OneInv, Fits, Matches, Good, Cleared
  <2>. QED
    BY <1>4, <1>5, <1>6, <2>2, <2>3 DEF OneInv, Agreement
<1>. QED
  BY <1>7, <1>8

\* The operator decides the pending approval, or starts over with a fresh plan.
LEMMA OperatorStep ==
    ASSUME Typed, OneInv, Operator
    PROVE  OneInv'
<1>1. UNCHANGED <<journal, seq, pc, at, resp, asked, result, spoiled>>
  BY DEF Operator, ApproveRun, RejectRun, PauseRun, ResumeRun, EditSentinels, Replan, driver,
     approvals, inputs
<1>2. plan' = plan \/ plan' = [s \in Steps |-> "pending"]
  BY DEF Operator, ApproveRun, RejectRun, PauseRun, ResumeRun, EditSentinels, Replan
<1>3. \/ UNCHANGED <<pending, approved>>
      \/ pending' = 0 /\ approved' = approved
      \/ pending' = 0 /\ approved' = approved \cup {pending} /\ pending # 0
  BY DEF Operator, ApproveRun, RejectRun, PauseRun, ResumeRun, EditSentinels, Replan, approvals
<1>4. Alone'
  BY <1>1 DEF OneInv, Alone
<1>5. Numbered'
  <2>1. pending \in Nat /\ seq \in Nat
    BY DEF Typed, StateTyped
  <2>2. pending' <= seq' /\ approved' \subseteq 1..seq' /\ pending' \notin approved'
    <3>1. seq' = seq /\ pending <= seq /\ approved \subseteq 1..seq /\ pending \notin approved
      BY <1>1 DEF OneInv, Numbered
    <3>2. 0 \notin 1..seq /\ 0 <= seq /\ (pending # 0 => pending \in 1..seq)
      BY <2>1, <3>1
    <3>. QED
      BY <1>3, <3>1, <3>2
  <2>. QED
    BY <1>1, <2>2 DEF OneInv, Numbered
<1>6. \A s \in Steps : Cleared(s) => Cleared(s)'
  BY <1>1, <1>3 DEF Cleared
<1>7. \A s \in Steps : Past(s)'
  BY <1>1, <1>6 DEF OneInv, Past
<1>8. \A s \in Steps : plan'[s] = plan[s] \/ (plan' # plan /\ plan'[s] = "pending")
  BY <1>2
<1>9. OneCurrent'
  <2>1. CASE plan' = plan
    BY <2>1 DEF OneInv, OneCurrent
  <2>2. CASE plan' # plan
    BY <1>2, <2>2 DEF OneCurrent
  <2>. QED
    BY <2>1, <2>2
<1>10. Agreement'
  <2>1. PlanMatchesJournal'
    BY <1>1, <1>8 DEF OneInv, Agreement, PlanMatchesJournal
  <2>2. ApprovalKeepsStepUnfinished'
    BY <1>1, <1>3, <1>8 DEF OneInv, Agreement, ApprovalKeepsStepUnfinished, Done
  <2>. QED
    BY <2>1, <2>2 DEF Agreement
<1>11. ASSUME NEW e \in Drivers PROVE Fits(e, pc[e])'
  <2>1. Fits(e, pc[e])
    BY DEF OneInv
  <2>2. pc[e] \in InStep => at[e] \in Steps
    BY DEF Typed, DriverInv, Placed, InStep
  <2>3. pc[e] \in InStep =>
           /\ plan'[at[e]] \in {"pending", "in_progress"}
           /\ \A s \in Steps : plan'[s] = "in_progress" => s = at[e]
    BY <1>2, <2>1, <2>2 DEF Fits
  <2>4. pc[e] \in {"observe", "boundary", "mark", "settle", "project"} => Cleared(at[e])'
    BY <1>1, <1>6, <2>1, <2>2 DEF Fits, InStep, Labels
  <2>. QED
    BY <1>1, <2>1, <2>3, <2>4 DEF Fits, Matches, Good
<1>. QED
  BY <1>4, <1>5, <1>7, <1>9, <1>10, <1>11 DEF OneInv

LEMMA OneInductive ==
    ASSUME MaxActive <= 1, Typed, DispatchInv, OneInv, [Next]_vars
    PROVE  OneInv'
<1>1. CASE UNCHANGED vars
  BY <1>1 DEF vars, driver, runState, approvals, OneInv, Alone, Numbered, OneCurrent, Agreement,
     PlanMatchesJournal, ApprovalKeepsStepUnfinished, Past, Cleared, Fits, Matches, Good,
     inputs
<1>2. ASSUME NEW d \in Drivers, Step(d) PROVE OneInv'
  BY <1>2, StatusStep, ClassifyStep, GateStep, CallStep, JournalFailsStep, MarkOne, OwnerOne,
     ProjectStep, LoopStep DEF Step
<1>. QED
  BY <1>1, <1>2, StartStep, StatusStep, ToolStep, OperatorStep DEF Next

\* Nothing has been done, recorded or asked for, and nobody works.
LEMMA InitOne == Init => OneInv
<1>. SUFFICES ASSUME Init PROVE OneInv
  OBVIOUS
<1>1. /\ \A s \in Steps : plan[s] = "pending" /\ journal[s] = NoAttempt
      /\ \A d \in Drivers : pc[d] = "idle" /\ asked[d] = 0
      /\ pending = 0 /\ seq = 0 /\ approved = {}
  BY DEF Init
<1>2. Alone /\ Numbered /\ OneCurrent
  BY <1>1 DEF Alone, Numbered, OneCurrent, NoAttempt
<1>3. Agreement
  BY <1>1 DEF Agreement, PlanMatchesJournal, ApprovalKeepsStepUnfinished, NoAttempt
<1>4. \A s \in Steps : Past(s)
  BY <1>1 DEF Past, NoAttempt
<1>5. ASSUME NEW d \in Drivers PROVE Fits(d, pc[d])
  BY <1>1, IdleFits
<1>. QED
  BY <1>2, <1>3, <1>4, <1>5 DEF OneInv

\* What holds of every state, with one driver at a time.
LEMMA OneInvariant ==
    ASSUME MaxActive <= 1
    PROVE  Spec => [](Typed /\ DispatchInv /\ OneInv)
<1>. DEFINE All == Typed /\ DispatchInv /\ OneInv
<1>1. Init => All
  BY InitTyped, InitDispatch, InitOne
<1>2. All /\ [Next]_vars => All'
  BY TypedInductive, DispatchInductive, OneInductive
<1>. HIDE DEF All
<1>3. Spec => []All
  BY <1>1, <1>2, PTL DEF Spec
<1>. QED
  BY <1>3 DEF All

\* Plan and journal agree on what was done, crash or not: where a failure cannot pass for
\* a partial result, a completed step has a committed good answer; and the step of a
\* committed good answer ends up failed or skipped only if, since the loop last took it up,
\* the plan was found to give it another input than the recorded one or the connection
\* could not be closed.  (One driver at a time: with two, one fails the step whose answer
\* the other has just committed.)
THEOREM PlanMatchesJournalHolds ==
    ASSUME MaxActive <= 1
    PROVE  Spec => []PlanMatchesJournal
<1>1. Typed /\ DispatchInv /\ OneInv => PlanMatchesJournal
  BY DEF OneInv, Agreement
<1>. QED
  BY <1>1, OneInvariant, PTL

\* A step that asked for an approval stays unfinished while that approval is the pending
\* one: no crash, replay, pause or new plan brings its driver to a result.
THEOREM ApprovalKeepsStepUnfinishedHolds ==
    ASSUME MaxActive <= 1
    PROVE  Spec => []ApprovalKeepsStepUnfinished
<1>1. Typed /\ DispatchInv /\ OneInv => ApprovalKeepsStepUnfinished
  BY DEF OneInv, Agreement
<1>. QED
  BY <1>1, OneInvariant, PTL

\* A call repeated after an approval boundary has that very approval granted: resuming the
\* run by other means does not permit it.
THEOREM RedispatchApprovedHolds ==
    ASSUME MaxActive <= 1
    PROVE  Spec => []RedispatchApproved
<1>1. ASSUME Typed, DispatchInv, OneInv PROVE RedispatchApproved
  <2>1. SUFFICES ASSUME NEW s \in Steps, calls[s] = journal[s].count + 1,
                        journal[s].count > 0
                 PROVE  journal[s].boundary \in approved
    BY DEF RedispatchApproved
  <2>2. journal[s] \in Attempts
    BY <1>1 DEF Typed, Rest
  <2>3. ~(calls[s] <= journal[s].count)
    BY <2>1, <2>2 DEF Attempts
  <2>4. journal[s].st \in {"outcome_unknown", "committed"}
    BY <1>1, <2>2, <2>3 DEF DispatchInv, CallToSpare, Attempts
  <2>. QED
    BY <1>1, <2>1, <2>4 DEF OneInv, Past, Cleared
<1>. QED
  BY <1>1, OneInvariant, PTL

-----------------------------------------------------------------------------
(* The refinement of AttemptJournal, for any number of drivers             *)

\* Who owns an attempt knows whether its call was made, and an attempt that may be marked
\* was called once for each boundary.  Of an unknown outcome nobody owns, neither is known.
AccountInv ==
    /\ \A s \in Steps :
          journal[s].st \in {"missing", "not_started"} => calls[s] = journal[s].count
    /\ \A d \in Drivers : Owns(d) =>
          calls[at[d]] = IF pc[d] = "dispatch" THEN journal[at[d]].count
                                               ELSE journal[at[d]].count + 1

RefineInv == Typed /\ DispatchInv /\ AccountInv

\* Steps that touch neither journal nor tools are stutters.
LEMMA QuietRefines ==
    ASSUME UNCHANGED <<journal, calls>>
    PROVE  UNCHANGED AJ!vars
  BY DEF AJ!vars

LEMMA AccountKept ==
    ASSUME AccountInv, UNCHANGED <<journal, calls>>,
           \A d \in Drivers :
              Owns(d)' => /\ Owns(d) /\ at'[d] = at[d]
                          /\ pc'[d] = "dispatch" <=> pc[d] = "dispatch"
    PROVE  AccountInv' /\ UNCHANGED AJ!vars
<1>1. AccountInv'
  BY DEF AccountInv
<1>. QED
  BY <1>1, QuietRefines

\* What a step on the attempt of d leaves alone: the other owners are at other attempts.
LEMMA OthersAccount ==
    ASSUME RefineInv, NEW d \in Drivers, at[d] \in Steps,
           Owns(d) \/ journal[at[d]].st \in {"missing", "not_started"},
           \A e \in Drivers \ {d} : pc'[e] = pc[e] /\ at'[e] = at[e],
           \A s \in Steps \ {at[d]} : journal'[s] = journal[s] /\ calls'[s] = calls[s],
           journal'[at[d]].st \in {"missing", "not_started"} =>
              calls'[at[d]] = journal'[at[d]].count,
           Owns(d)' => /\ at'[d] = at[d]
                       /\ calls'[at[d]] = IF pc'[d] = "dispatch" THEN journal'[at[d]].count
                                          ELSE journal'[at[d]].count + 1
    PROVE  AccountInv'
<1>1. ASSUME NEW s \in Steps, journal'[s].st \in {"missing", "not_started"}
      PROVE  calls'[s] = journal'[s].count
  BY <1>1 DEF RefineInv, AccountInv
<1>2. ASSUME NEW e \in Drivers, Owns(e)'
      PROVE  calls'[at'[e]] = IF pc'[e] = "dispatch" THEN journal'[at'[e]].count
                                                     ELSE journal'[at'[e]].count + 1
  <2>1. CASE e = d
    BY <1>2, <2>1
  <2>2. CASE e # d
    <3>1. Owns(e) /\ at'[e] = at[e] /\ pc'[e] = pc[e] /\ at[e] \in Steps
      BY <1>2, <2>2 DEF Owns, RefineInv, Typed, DriverInv, Placed
    <3>2. at[e] # at[d]
      BY <2>2, <3>1 DEF RefineInv, DispatchInv, OneOwner, OwnedUnknown
    <3>3. journal'[at[e]] = journal[at[e]] /\ calls'[at[e]] = calls[at[e]]
      BY <3>1, <3>2
    <3>. QED
      BY <3>1, <3>3 DEF RefineInv, AccountInv
  <2>. QED
    BY <2>1, <2>2
<1>. QED
  BY <1>1, <1>2 DEF AccountInv

\* An attempt gets another state, and neither another count nor another answer.
LEMMA StateOnly ==
    ASSUME Typed, NEW s \in Steps,
           NEW to \in {"missing", "not_started", "outcome_unknown", "committed"},
           NEW a, a.st = to, a.count = journal[s].count, a.answer = journal[s].answer,
           journal' = [journal EXCEPT ![s] = a]
    PROVE  /\ journal'[s].st = to /\ journal'[s].count = journal[s].count
           /\ \A t \in Steps \ {s} : journal'[t] = journal[t]
           /\ AJ!Becomes({s}, to)
           /\ UNCHANGED [t \in Steps |-> journal[t].count]
           /\ UNCHANGED [t \in Steps |-> journal[t].answer]
<1>1. journal \in [Steps -> Attempts]
  BY DEF Typed, Rest
<1>2. /\ journal'[s].st = to /\ journal'[s].count = journal[s].count
      /\ journal'[s].answer = journal[s].answer
  BY <1>1
<1>3. \A t \in Steps \ {s} : journal'[t] = journal[t]
  BY <1>1
<1>4. AJ!Becomes({s}, to)
  BY <1>2, <1>3 DEF AJ!Becomes
<1>5. \A t \in Steps :
         journal'[t].count = journal[t].count /\ journal'[t].answer = journal[t].answer
  BY <1>2, <1>3
<1>. QED
  BY <1>2, <1>3, <1>4, <1>5

LEMMA ObserveRefines ==
    ASSUME RefineInv, NEW d \in Drivers, Observe(d)
    PROVE  AccountInv' /\ [AJ!Next]_AJ!vars
<1>1. /\ at[d] \in Steps /\ UNCHANGED <<calls, at>> /\ pc'[d] \in {"boundary", "fail"}
      /\ \A e \in Drivers \ {d} : pc'[e] = pc[e]
  BY DEF Observe, Turn, Goto, RefineInv, Typed, DriverInv, DriverTyped, Placed
<1>2. CASE journal' # journal
  <2>. PICK s : s = at[d]
    OBVIOUS
  <2>. DEFINE a == [journal[s] EXCEPT !.st = "not_started", !.input = input[d]]
  <2>1. journal' = [journal EXCEPT ![s] = a] /\ journal[s].st = "missing"
    BY <1>2 DEF Observe
  <2>2. a.st = "not_started" /\ a.count = journal[s].count /\ a.answer = journal[s].answer
    BY <1>1, AtAttempt DEF Attempts, RefineInv
  <2>. HIDE DEF a
  <2>3. /\ journal'[s].st = "not_started" /\ journal'[s].count = journal[s].count
        /\ \A t \in Steps \ {s} : journal'[t] = journal[t]
        /\ AJ!Becomes({s}, "not_started")
        /\ UNCHANGED [t \in Steps |-> journal[t].count]
        /\ UNCHANGED [t \in Steps |-> journal[t].answer]
    <3>1. Typed /\ s \in Steps
      BY <1>1 DEF RefineInv
    <3>. QED
      BY <2>1, <2>2, <3>1, StateOnly
  <2>4. calls[s] = journal[s].count
    BY <1>1, <2>1 DEF RefineInv, AccountInv
  <2>5. AccountInv'
    BY <1>1, <2>1, <2>3, <2>4, OthersAccount DEF Owns
  <2>6. AJ!Observe({s})
    BY <1>1, <2>1, <2>3 DEF AJ!Observe
  <2>7. {s} \in SUBSET Steps
    BY <1>1
  <2>8. \E S \in SUBSET Steps : AJ!Observe(S)
    BY <2>6, <2>7, Zenon
  <2>9. AJ!Next
    BY <2>8, Zenon DEF AJ!Next
  <2>. QED
    BY <2>5, <2>9
<1>3. CASE UNCHANGED journal
  BY <1>1, <1>3, AccountKept DEF Owns, RefineInv
<1>. QED
  BY <1>2, <1>3

LEMMA MarkRefines ==
    ASSUME RefineInv, NEW d \in Drivers, Mark(d)
    PROVE  AccountInv' /\ [AJ!Next]_AJ!vars
<1>1. /\ at[d] \in Steps /\ UNCHANGED <<calls, at>>
      /\ \A e \in Drivers \ {d} : pc'[e] = pc[e]
  BY DEF Mark, Turn, With, Goto, RefineInv, Typed, DriverInv, DriverTyped, Placed
<1>2. CASE journal[at[d]].st = "not_started"
  <2>. PICK s : s = at[d]
    OBVIOUS
  <2>. DEFINE a == [journal[s] EXCEPT !.st = "outcome_unknown"]
  <2>1. journal' = [journal EXCEPT ![s] = a] /\ pc'[d] = "dispatch"
    BY <1>2 DEF Mark, Attempt, Turn, Goto, RefineInv, Typed, DriverInv, DriverTyped
  <2>2. /\ journal'[s].st = "outcome_unknown" /\ journal'[s].count = journal[s].count
        /\ \A t \in Steps \ {s} : journal'[t] = journal[t]
        /\ AJ!Becomes({s}, "outcome_unknown")
        /\ UNCHANGED [t \in Steps |-> journal[t].count]
        /\ UNCHANGED [t \in Steps |-> journal[t].answer]
    <3>1. /\ a.st = "outcome_unknown" /\ a.count = journal[s].count
          /\ a.answer = journal[s].answer
      BY <1>1, AtAttempt DEF Attempts, RefineInv
    <3>2. Typed /\ s \in Steps
      BY <1>1 DEF RefineInv
    <3>. HIDE DEF a
    <3>. QED
      BY <2>1, <3>1, <3>2, StateOnly
  <2>3. calls[s] = journal[s].count
    BY <1>1, <1>2 DEF RefineInv, AccountInv
  <2>4. AccountInv'
    BY <1>1, <1>2, <2>1, <2>2, <2>3, OthersAccount
  <2>5. AJ!Mark({s})
    BY <1>1, <1>2, <2>2 DEF AJ!Mark
  <2>6. {s} \in SUBSET Steps
    BY <1>1
  <2>7. \E S \in SUBSET Steps : AJ!Mark(S)
    BY <2>5, <2>6, Zenon
  <2>8. AJ!Next
    BY <2>7, Zenon DEF AJ!Next
  <2>. QED
    BY <2>4, <2>8
<1>3. CASE journal[at[d]].st # "not_started"
  <2>1. UNCHANGED journal /\ pc'[d] = "settle"
    BY <1>3 DEF Mark, With, Goto, RefineInv, Typed, DriverInv, DriverTyped
  <2>. QED
    BY <1>1, <2>1, AccountKept DEF Owns, RefineInv
<1>. QED
  BY <1>2, <1>3

LEMMA DispatchRefines ==
    ASSUME RefineInv, NEW d \in Drivers, Dispatch(d)
    PROVE  AccountInv' /\ [AJ!Next]_AJ!vars
<1>. PICK s : s = at[d]
  OBVIOUS
<1>1. /\ s \in Steps /\ UNCHANGED <<journal, at>> /\ pc[d] = "dispatch" /\ pc'[d] = "wait"
      /\ \A e \in Drivers \ {d} : pc'[e] = pc[e]
      /\ calls' = [calls EXCEPT ![s] = @ + 1]
  BY DEF Dispatch, Goto, RefineInv, Typed, DriverInv, DriverTyped, Placed
<1>2. calls \in [Steps -> Nat]
  BY DEF RefineInv, Typed, Rest
<1>3. journal[s].st = "outcome_unknown" /\ calls[s] = journal[s].count /\ Owns(d)
  BY <1>1 DEF RefineInv, DispatchInv, OwnedUnknown, AccountInv, Owns
<1>4. calls'[s] = calls[s] + 1 /\ \A t \in Steps \ {s} : calls'[t] = calls[t]
  BY <1>1, <1>2
<1>5. AccountInv'
  BY <1>1, <1>3, <1>4, OthersAccount
<1>6. AJ!Becomes({s}, "outcome_unknown")
  BY <1>1, <1>3 DEF AJ!Becomes
<1>7. calls' = [k \in Steps |-> IF k \in {s} THEN calls[k] + 1 ELSE calls[k]]
  BY <1>1, <1>2
<1>8. AJ!Call({s})
  BY <1>1, <1>3, <1>6, <1>7 DEF AJ!Call
<1>9. {s} \in SUBSET Steps
  BY <1>1
<1>10. \E S \in SUBSET Steps : AJ!Call(S)
  BY <1>8, <1>9, Zenon
<1>11. AJ!Next
  BY <1>10, Zenon DEF AJ!Next
<1>. QED
  BY <1>5, <1>11

\* What an owner that has called knows of its attempt.
LEMMA OwnerMade ==
    ASSUME RefineInv, NEW d \in Drivers, Owns(d), pc[d] # "dispatch"
    PROVE  /\ at[d] \in Steps /\ journal[at[d]].st = "outcome_unknown"
           /\ journal[at[d]] \in Attempts
           /\ calls[at[d]] = journal[at[d]].count + 1 /\ AJ!Made(at[d])
<1>1. at[d] \in Steps /\ journal[at[d]].st = "outcome_unknown"
      /\ calls[at[d]] = journal[at[d]].count + 1
  BY DEF Owns, RefineInv, Typed, DriverInv, Placed, DispatchInv, OwnedUnknown, AccountInv
<1>2. journal[at[d]] \in Attempts
  BY <1>1 DEF RefineInv, Typed, Rest
<1>. QED
  BY <1>1, <1>2 DEF AJ!Made

LEMMA ResetRefines ==
    ASSUME RefineInv, NEW d \in Drivers, Reset(d)
    PROVE  AccountInv' /\ [AJ!Next]_AJ!vars
<1>. PICK s : s = at[d]
  OBVIOUS
<1>1. /\ s \in Steps /\ journal[s].st = "outcome_unknown" /\ journal[s] \in Attempts
      /\ calls[s] = journal[s].count + 1 /\ AJ!Made(s) /\ Owns(d)
  BY OwnerMade DEF Reset, Owns
<1>2. /\ journal' = [journal EXCEPT ![s] =
               [journal[s] EXCEPT !.st = "not_started", !.count = @ + 1, !.boundary = asked[d]]]
      /\ calls' = calls /\ pc' = [pc EXCEPT ![d] = "idle"] /\ at' = [at EXCEPT ![d] = 0]
  BY <1>1 DEF Reset, Exit, Goto
<1>3. /\ journal'[s].st = "not_started" /\ journal'[s].count = journal[s].count + 1
      /\ journal'[s].answer = journal[s].answer
      /\ \A t \in Steps \ {s} : journal'[t] = journal[t]
  BY <1>1, <1>2 DEF RefineInv, Typed, Rest, Attempts
<1>4. pc'[d] = "idle" /\ \A e \in Drivers \ {d} : pc'[e] = pc[e] /\ at'[e] = at[e]
  BY <1>2 DEF RefineInv, Typed, DriverInv, DriverTyped
<1>5. AccountInv'
  BY <1>1, <1>2, <1>3, <1>4, OthersAccount DEF Owns
<1>6. AJ!Becomes({s}, "not_started")
  BY <1>3 DEF AJ!Becomes
<1>7. [t \in Steps |-> journal'[t].count]
        = [[t \in Steps |-> journal[t].count] EXCEPT ![s] = @ + 1]
  BY <1>1, <1>3
<1>8. UNCHANGED [t \in Steps |-> journal[t].answer]
  BY <1>3
<1>9. AJ!SetBack(s)
  BY <1>1, <1>2, <1>6, <1>7, <1>8 DEF AJ!SetBack
<1>. QED
  BY <1>1, <1>5, <1>9 DEF AJ!Next

LEMMA CommitRefines ==
    ASSUME RefineInv, NEW d \in Drivers, Commit(d) \/ Refuse(d)
    PROVE  AccountInv' /\ [AJ!Next]_AJ!vars
<1>. PICK s : s = at[d]
  OBVIOUS
<1>1. /\ s \in Steps /\ journal[s].st = "outcome_unknown" /\ journal[s] \in Attempts
      /\ calls[s] = journal[s].count + 1 /\ AJ!Made(s) /\ Owns(d)
  BY OwnerMade DEF Commit, Refuse, Owns
<1>2. PICK answer : Committed(s, answer)
  BY DEF Commit, Refuse
<1>3. /\ journal'[s].st = "committed" /\ journal'[s].count = journal[s].count
      /\ \A t \in Steps \ {s} : journal'[t] = journal[t]
  BY <1>1, <1>2 DEF Committed, RefineInv, Typed, Rest, Attempts
<1>4. /\ calls' = calls /\ at' = at /\ pc'[d] \in {"settle", "fail"}
      /\ \A e \in Drivers \ {d} : pc'[e] = pc[e]
  BY DEF Commit, Refuse, With, Turn, Goto, RefineInv, Typed, DriverInv, DriverTyped
<1>5. AccountInv'
  BY <1>1, <1>3, <1>4, OthersAccount DEF Owns
<1>6. AJ!Becomes({s}, "committed")
  BY <1>3 DEF AJ!Becomes
<1>7. UNCHANGED [t \in Steps |-> journal[t].count]
  BY <1>3
<1>8. AJ!Commit(s)
  BY <1>1, <1>3, <1>4, <1>6, <1>7 DEF AJ!Commit
<1>. QED
  BY <1>1, <1>5, <1>8 DEF AJ!Next

LEMMA StepRefines == RefineInv /\ [Next]_vars => AccountInv' /\ [AJ!Next]_AJ!vars
<1>. SUFFICES ASSUME RefineInv, [Next]_vars PROVE AccountInv' /\ [AJ!Next]_AJ!vars
  OBVIOUS
<1>1. ASSUME NEW d \in Drivers,
             \/ Start(d) \/ Ensure(d) \/ Loop(d) \/ CheckGate(d) \/ Boundary(d)
             \/ Unknown(d) \/ Fail(d) \/ Project(d) \/ ReportBlocked(d) \/ Die(d)
      PROVE  AccountInv' /\ UNCHANGED AJ!vars
  BY <1>1, AccountKept DEF Start, Ensure, Loop, CheckGate, Boundary, Unknown, Fail,
     Project, ReportBlocked, Die, Exit, Turn, With, Goto, Owns, RefineInv, Typed, DriverInv,
     DriverTyped
<1>2. ASSUME NEW d \in Drivers,
             Lose(d) \/ Receive(d) \/ JournalFails(d) \/ Settle(d) \/ Tool(d)
      PROVE  AccountInv' /\ UNCHANGED AJ!vars
  BY <1>2, AccountKept DEF Lose, Receive, JournalFails, Settle, Tool, ToolEnds, ToolAsks,
     ToolReports, Answer, Turn, With, Goto, Owns, RefineInv, Typed, DriverInv, DriverTyped
<1>3. ASSUME NEW d \in Drivers,
             Observe(d) \/ Mark(d) \/ Dispatch(d) \/ Reset(d) \/ Commit(d) \/ Refuse(d)
      PROVE  AccountInv' /\ [AJ!Next]_AJ!vars
  BY <1>3, ObserveRefines, MarkRefines, DispatchRefines, ResetRefines, CommitRefines
<1>4. ASSUME NEW d \in Drivers, Classify(d)
      PROVE  AccountInv' /\ UNCHANGED AJ!vars
  <2>1. /\ ~Owns(d)' /\ UNCHANGED <<journal, calls, at>>
        /\ \A e \in Drivers \ {d} : pc'[e] = pc[e]
    BY <1>4, ClassifyMoves DEF Owns, RefineInv
  <2>. QED
    BY <2>1, AccountKept DEF Owns, RefineInv
<1>5. CASE Operator \/ UNCHANGED vars
  BY <1>5, AccountKept DEF Operator, ApproveRun, RejectRun, PauseRun, ResumeRun,
     EditSentinels, Replan, vars, driver, Owns, RefineInv
<1>. QED
  BY <1>1, <1>2, <1>3, <1>5, <1>4 DEF Next, Step

LEMMA InitRefines == Init => AccountInv /\ AJ!Init
<1>. SUFFICES ASSUME Init PROVE AccountInv /\ AJ!Init
  OBVIOUS
<1>1. /\ \A s \in Steps : journal[s] = NoAttempt
      /\ calls = [s \in Steps |-> 0]
      /\ \A d \in Drivers : ~Owns(d)
  BY DEF Init, Owns
<1>2. NoAttempt.st = "missing" /\ NoAttempt.count = 0 /\ NoAttempt.answer = "none"
  BY DEF NoAttempt
<1>3. AccountInv
  BY <1>1, <1>2 DEF AccountInv
<1>4. /\ [s \in Steps |-> journal[s].st] = [s \in Steps |-> "missing"]
      /\ [s \in Steps |-> journal[s].count] = [s \in Steps |-> 0]
      /\ [s \in Steps |-> journal[s].answer] = [s \in Steps |-> "none"]
  BY <1>1, <1>2
<1>. QED
  BY <1>1, <1>3, <1>4 DEF AJ!Init

\* Any number of drivers, racing for an attempt, dying and coming back, use the journal as
\* it promises: a step is called once for each mark, an answer is recorded of a call that
\* was made, and a recorded answer stays.
THEOREM JournalRefinement == Spec => ImplementsJournal
<1>1. Typed /\ DispatchInv /\ AccountInv /\ [Next]_vars =>
        (Typed /\ DispatchInv /\ AccountInv)' /\ [AJ!Next]_AJ!vars
  BY TypedInductive, DispatchInductive, StepRefines DEF RefineInv
<1>2. Init => Typed /\ DispatchInv /\ AccountInv /\ AJ!Init
  BY InitTyped, InitDispatch, InitRefines
<1>. QED
  BY <1>1, <1>2, PTL DEF Spec, ImplementsJournal, AJ!Spec
=============================================================================
