----------------------------- MODULE AgentRunner -----------------------------
(***************************************************************************)
(* The delegated agent runner: a language model asks for tools, turn by    *)
(* turn, and the runner executes them against a journal (manifest.json of  *)
(* the delegated run) that outlives it.  The host may submit the run again *)
(* whenever it wants, with a transcript that ends in a turn whose tools    *)
(* have not all been answered.                                             *)
(*                                                                         *)
(* The tools of a turn are executed in groups, one group after the other:  *)
(* neighbouring read-only tools in parallel, any other tool by itself.     *)
(* Inside one process two invocations queue up (the lane); two processes   *)
(* know of each other only through the journal, whose operations exclude   *)
(* each other by a lock.  An invocation that fails leaves its lane while   *)
(* calls of its group are still under way; their answers are recorded.     *)
(*                                                                         *)
(* Every turn has the same slots, one per tool; a call is a slot of a      *)
(* turn.  Left out: the conversation itself (compaction, truncation, texts *)
(* and usage), which only decides when an invocation ends.                 *)
(***************************************************************************)
EXTENDS Integers

CONSTANTS
    Runners,        \* processes, each with one invocation at a time
    Slots,          \* tools of a turn
    NumGroups,      \* groups they are executed in
    GroupOf,        \* slot -> its group
    Producers,      \* slots whose tool may request an approval
    MaxTurns,       \* turns the model produces (bound)
    MaxBoundaries,  \* approval requests of one call (bound)
    NoRunner        \* nobody

\* A tool that may request an approval is not read-only, so it has a group of its own.
ASSUME AgentAssumption ==
    /\ NumGroups \in Nat \ {0} /\ MaxTurns \in Nat /\ MaxBoundaries \in Nat
    /\ GroupOf \in [Slots -> 1..NumGroups]
    /\ Producers \subseteq Slots
    /\ \A s \in Producers, t \in Slots : GroupOf[s] = GroupOf[t] => s = t
    /\ NoRunner \notin Runners

VARIABLES
    manifest,       \* the journal exists
    journal,        \* call -> [state, result, sound, boundaries]
    said,           \* turns there are, all known to the host
    runner,         \* process -> [at, turn, group, first, view]
    calling,        \* call -> the process whose call is under way, or NoRunner
    dispatched,     \* history: how often a call was sent to its tool
    told            \* history: <<call, result>> reported to model and host as the
                    \* call's answer (not the envelope of an approval request)

agentVars == <<manifest, journal, said, runner, calling, dispatched, told>>

Turns == 1..MaxTurns
Calls == Turns \X Slots

\* What a runner holds of a call: the journal's state when it looked, then the outcome.
\* A result is the number of the call that gave it; sound: no approval envelope.
View(state, result, sound) == [state |-> state, result |-> result, sound |-> sound]
Views == [state : {"missing", "not_started", "outcome_unknown", "committed",
                   "called", "approval", "lost"},
          result : Nat, sound : BOOLEAN]

Entry(state, result, sound, boundaries) ==
    [state |-> state, result |-> result, sound |-> sound, boundaries |-> boundaries]
Missing == Entry("missing", 0, TRUE, 0)
Entries == [state : {"missing", "not_started", "outcome_unknown", "committed"},
            result : Nat, sound : BOOLEAN, boundaries : Nat]

Runner(at, turn, group, first, view) ==
    [at |-> at, turn |-> turn, group |-> group, first |-> first, view |-> view]
NoView == [s \in Slots |-> View("missing", 0, TRUE)]
Resting == Runner("idle", 0, 0, FALSE, NoView)
Stages == {"idle", "open", "observe", "classify", "mark", "wait", "ask"}

CallOf(r, s) == <<runner[r].turn, s>>
InGroup(r) == {s \in Slots : GroupOf[s] = runner[r].group}
Seen(r, s) == runner[r].view[s]
Due(r) == {s \in InGroup(r) : Seen(r, s).state = "not_started"}
DueCalls(r) == {CallOf(r, s) : s \in Due(r)}

-----------------------------------------------------------------------------
AgentInit ==
    /\ manifest = FALSE
    /\ journal = [c \in Calls |-> Missing]
    /\ said = 0
    /\ runner = [r \in Runners |-> Resting]
    /\ calling = [c \in Calls |-> NoRunner]
    /\ dispatched = [c \in Calls |-> 0]
    /\ told = {}

Move(r, record) == runner' = [runner EXCEPT ![r] = record]
Stands(r, stage) == runner[r].at = stage
Goto(r, stage) ==
    Move(r, Runner(stage, runner[r].turn, runner[r].group, runner[r].first, runner[r].view))
End(r) == Move(r, Resting)

\* The host submits the run: with no pending turn (0), with one the model or the host
\* itself produced before, or with one it produces now.
Submit(r, turn) ==
    /\ Stands(r, "idle")
    /\ turn \in 0..MaxTurns /\ turn <= said + 1
    /\ said' = IF turn > said THEN turn ELSE said
    /\ Move(r, Runner("open", turn, 0, ~manifest, NoView))
    /\ UNCHANGED <<manifest, journal, calling, dispatched, told>>

\* ensureManifest.  Only who has found no journal records the intents of a pending turn.
Ensure(r) ==
    /\ Stands(r, "open")
    /\ manifest' = TRUE
    /\ Goto(r, CASE runner[r].turn = 0 -> "ask"
                 [] runner[r].turn # 0 /\ runner[r].first -> "observe"
                 [] OTHER -> "classify")
    /\ UNCHANGED <<journal, said, calling, dispatched, told>>

Observe(r) ==
    /\ Stands(r, "observe")
    /\ journal' = [c \in Calls |-> IF c[1] = runner[r].turn /\ journal[c].state = "missing"
                                   THEN Entry("not_started", 0, TRUE, 0) ELSE journal[c]]
    /\ Goto(r, "classify")
    /\ UNCHANGED <<manifest, said, calling, dispatched, told>>

Classification(r) ==
    [s \in Slots |-> View(journal[CallOf(r, s)].state, journal[CallOf(r, s)].result,
                          journal[CallOf(r, s)].sound)]
Unsafe(view) == \E s \in Slots : view[s].state \in {"missing", "outcome_unknown"}

\* One look at the whole turn, without the lock; all later decisions rest on it.
Classify(r) ==
    /\ Stands(r, "classify")
    /\ IF Unsafe(Classification(r)) THEN End(r)
       ELSE Move(r, Runner("mark", runner[r].turn, 1, FALSE, Classification(r)))
    /\ UNCHANGED <<manifest, journal, said, calling, dispatched, told>>

\* Sends the calls of the group that are due; the tools may get them or not.
Send(r) ==
    /\ journal' = [c \in Calls |-> IF c \in DueCalls(r)
                                   THEN Entry("outcome_unknown", 0, TRUE, journal[c].boundaries)
                                   ELSE journal[c]]
    /\ calling' = [c \in Calls |-> IF c \in DueCalls(r) THEN r ELSE calling[c]]
    /\ dispatched' = [c \in Calls |-> IF c \in DueCalls(r) THEN dispatched[c] + 1
                                                           ELSE dispatched[c]]
    /\ Move(r, Runner("wait", runner[r].turn, runner[r].group, FALSE,
                 [s \in Slots |-> IF s \in Due(r) THEN View("called", 0, TRUE) ELSE Seen(r, s)]))
    /\ UNCHANGED <<manifest, said, told>>

\* Mutant: the claim does not look at the journal's present state.
Mark_Unchecked(r) == Stands(r, "mark") /\ Send(r)

\* markToolIntentsDispatched: all of the group or none, then the calls.  A call another
\* process has claimed since the classification ends the invocation.
Mark(r) ==
    /\ Stands(r, "mark")
    /\ \A c \in DueCalls(r) : journal[c].state = "not_started"
    /\ Send(r)

\* A turn that is not permitted, a journal that cannot be written or has changed.
Abandon(r) ==
    /\ runner[r].at \in {"open", "observe", "classify", "mark"}
    /\ End(r)
    /\ UNCHANGED <<manifest, journal, said, calling, dispatched, told>>

(* callDispatchedTool: what happens when a call comes back, whether or not *)
(* its invocation still waits for it.                                      *)

Waits(r, c) ==
    Stands(r, "wait") /\ runner[r].turn = c[1] /\ Seen(r, c[2]).state = "called"

Hear(c, view) ==
    LET r == calling[c] IN
    /\ calling' = [calling EXCEPT ![c] = NoRunner]
    /\ IF Waits(r, c)
         THEN Move(r, Runner("wait", c[1], runner[r].group, FALSE,
                             [runner[r].view EXCEPT ![c[2]] = view]))
         ELSE UNCHANGED runner

UnderWay(c) == calling[c] # NoRunner
PutEntry(c, entry) == journal' = [journal EXCEPT ![c] = entry]

\* commitToolAttempt.  An envelope that is malformed, or asks for another run, is
\* recorded as well, and then thrown.
CommitAnswer(c, sound) ==
    /\ UnderWay(c) /\ journal[c].state = "outcome_unknown"
    /\ PutEntry(c, Entry("committed", dispatched[c], sound, journal[c].boundaries))
    /\ Hear(c, View("committed", dispatched[c], sound))
    /\ UNCHANGED <<manifest, said, dispatched, told>>

\* resetOutcomeUnknownAtApprovalBoundary
RequestApproval(c) ==
    /\ UnderWay(c) /\ journal[c].state = "outcome_unknown"
    /\ c[2] \in Producers /\ journal[c].boundaries < MaxBoundaries
    /\ PutEntry(c, Entry("not_started", 0, TRUE, journal[c].boundaries + 1))
    /\ Hear(c, View("approval", 0, TRUE))
    /\ UNCHANGED <<manifest, said, dispatched, told>>

\* Mutant: an answer that could not be recorded is used all the same.
Lose_Used(c) ==
    /\ UnderWay(c)
    /\ Hear(c, View("committed", dispatched[c], TRUE))
    /\ UNCHANGED <<manifest, journal, said, dispatched, told>>

\* The call fails, or its answer cannot be recorded.
Lose(c) ==
    /\ UnderWay(c)
    /\ Hear(c, View("lost", 0, TRUE))
    /\ UNCHANGED <<manifest, journal, said, dispatched, told>>

(* executePreparedToolUseGroups: the outcomes of a group.  What told gains  *)
(* here is reported when the turn ends, unless a later group is rejected.   *)

Answered(r, s) == Seen(r, s).state = "committed"

\* An envelope that was thrown, just now or when it is read back: the others are not
\* waited for.
Reject(r) ==
    /\ Stands(r, "wait")
    /\ \E s \in InGroup(r) : Answered(r, s) /\ ~Seen(r, s).sound
    /\ End(r)
    /\ UNCHANGED <<manifest, journal, said, calling, dispatched, told>>

Stop(r) ==
    /\ Stands(r, "wait")
    /\ \A s \in InGroup(r) : Seen(r, s).state # "called"
    /\ \E s \in InGroup(r) : Seen(r, s).state \in {"lost", "approval"}
    /\ End(r)
    /\ UNCHANGED <<manifest, journal, said, calling, dispatched, told>>

\* Mutant: only an approval request stops the turn.
Proceed_PastLost(r) ==
    /\ Stands(r, "wait")
    /\ \A s \in InGroup(r) : \/ Answered(r, s) /\ Seen(r, s).sound
                             \/ Seen(r, s).state = "lost"
    /\ told' = told \cup {<<CallOf(r, s), Seen(r, s).result>> : s \in
                            {t \in InGroup(r) : Answered(r, t)}}
    /\ IF runner[r].group = NumGroups THEN Move(r, Runner("ask", 0, 0, FALSE, NoView))
       ELSE Move(r, Runner("mark", runner[r].turn, runner[r].group + 1, FALSE, runner[r].view))
    /\ UNCHANGED <<manifest, journal, said, calling, dispatched>>

Proceed(r) ==
    /\ Stands(r, "wait")
    /\ \A s \in InGroup(r) : Answered(r, s) /\ Seen(r, s).sound
    /\ told' = told \cup {<<CallOf(r, s), Seen(r, s).result>> : s \in InGroup(r)}
    /\ IF runner[r].group = NumGroups THEN Move(r, Runner("ask", 0, 0, FALSE, NoView))
       ELSE Move(r, Runner("mark", runner[r].turn, runner[r].group + 1, FALSE, runner[r].view))
    /\ UNCHANGED <<manifest, journal, said, calling, dispatched>>

\* The model answers with another turn, whose intents are recorded before anything else.
AskModel(r) ==
    /\ Stands(r, "ask") /\ said < MaxTurns
    /\ said' = said + 1
    /\ Move(r, Runner("observe", said + 1, 0, FALSE, NoView))
    /\ UNCHANGED <<manifest, journal, calling, dispatched, told>>

\* A text, the limit of turns, low gain, an error.
Finish(r) ==
    /\ Stands(r, "ask")
    /\ End(r)
    /\ UNCHANGED <<manifest, journal, said, calling, dispatched, told>>

\* The process dies; nobody hears what its calls answer.
Die(r) ==
    /\ ~Stands(r, "idle") \/ \E c \in Calls : calling[c] = r
    /\ End(r)
    /\ calling' = [c \in Calls |-> IF calling[c] = r THEN NoRunner ELSE calling[c]]
    /\ UNCHANGED <<manifest, journal, said, dispatched, told>>

RunnerStep(r) ==
    \/ \E turn \in 0..MaxTurns : Submit(r, turn)
    \/ Ensure(r) \/ Observe(r) \/ Classify(r) \/ Mark(r) \/ Abandon(r)
    \/ Reject(r) \/ Stop(r) \/ Proceed(r) \/ AskModel(r) \/ Finish(r) \/ Die(r)

ToolStep(c) == RequestApproval(c) \/ Lose(c) \/ \E sound \in BOOLEAN : CommitAnswer(c, sound)

AgentNext == (\E r \in Runners : RunnerStep(r)) \/ (\E c \in Calls : ToolStep(c))

AgentSpec == AgentInit /\ [][AgentNext]_agentVars

-----------------------------------------------------------------------------
AgentTypeOK ==
    /\ manifest \in BOOLEAN
    /\ journal \in [Calls -> Entries]
    /\ said \in 0..MaxTurns
    /\ runner \in [Runners -> [at : Stages, turn : 0..MaxTurns, group : 0..NumGroups,
                               first : BOOLEAN, view : [Slots -> Views]]]
    /\ calling \in [Calls -> Runners \cup {NoRunner}]
    /\ dispatched \in [Calls -> Nat]
    /\ \A answer \in told : answer \in Calls \X Nat

\* A tool the model asked for is called once, and once more after each approval it
\* requests: however often the host submits the run, in however many processes, and
\* wherever one of them died ("never automatically retried", docs/ARCHITECTURE.md).
CalledOnce == \A c \in Calls : dispatched[c] <= journal[c].boundaries + 1

\* All processes together use the journal as it promises: a tool is called once for each
\* mark, an answer is recorded of a call that was made, and a recorded answer stays.
AJ == INSTANCE AttemptJournal
        WITH Keys <- Calls, NoOutcome <- <<0, TRUE>>, called <- dispatched,
             attempt <- [c \in Calls |-> journal[c].state],
             boundaries <- [c \in Calls |-> journal[c].boundaries],
             outcome <- [c \in Calls |-> <<journal[c].result, journal[c].sound>>]
\* The refinement of AttemptJournal, under that mapping.
ImplementsJournal == AJ!Spec

\* The groups of a turn keep their order over all invocations: a tool is called only
\* when the answers of all earlier groups are on record, and none of them was rejected.
\* So nothing a model wanted done after an approval is done before it.
TurnInOrder ==
    \A c, d \in Calls :
        c[1] = d[1] /\ GroupOf[c[2]] < GroupOf[d[2]] /\ dispatched[d] > 0
            => journal[c].state = "committed" /\ journal[c].sound

\* What model and host are told a tool answered is what is on record: an answer that
\* could not be recorded is never used, and every invocation replays the same.
ReplayExact ==
    \A answer \in told :
        journal[answer[1]].state = "committed" /\ journal[answer[1]].result = answer[2]
=============================================================================
