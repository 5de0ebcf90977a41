-------------------------- MODULE AgentRunnerProofs --------------------------
(***************************************************************************)
(* The delegated agent runner, for any number of processes, tools, groups, *)
(* turns and approvals: a call is sent once and once more after each       *)
(* approval it requested, the groups of a turn keep their order, what was  *)
(* reported is what is on record, and the journal is used as               *)
(* AttemptJournal says.  Last, the services that share a run: each behaves *)
(* there as it does alone.                                                 *)
(***************************************************************************)
EXTENDS MCServices, FleetQueueProofs, McpClientProofs, IdeaCampaignProofs, TLAPS

USE AgentAssumption DEF AgentAssumption

(* The inductive invariant                                                 *)

\* The stages of an invocation that is at a turn, and of one that is at a group of it.
AtTurn == {"observe", "classify", "mark", "wait"}
AtGroup == {"mark", "wait"}

Placed(r) ==
    /\ runner[r].at \in AtTurn => runner[r].turn \in Turns
    /\ runner[r].at \in AtGroup => runner[r].group \in 1..NumGroups

\* A committed answer in a runner's view is the one on record.
Remembers(r) ==
    runner[r].at \in AtGroup =>
      \A s \in Slots : Seen(r, s).state = "committed" =>
        /\ journal[CallOf(r, s)].state = "committed"
        /\ journal[CallOf(r, s)].result = Seen(r, s).result
        /\ journal[CallOf(r, s)].sound = Seen(r, s).sound

\* It has come to its group over sound answers only.
CameOver(r) ==
    runner[r].at \in AtGroup =>
      \A s \in Slots : GroupOf[s] < runner[r].group =>
        Seen(r, s).state = "committed" /\ Seen(r, s).sound

Counted(c) ==
    /\ dispatched[c] <= journal[c].boundaries + 1
    /\ journal[c].state = "not_started" => dispatched[c] <= journal[c].boundaries
    /\ journal[c].state = "missing" => dispatched[c] = 0

RunnerInv(r) == Placed(r) /\ Remembers(r) /\ CameOver(r)

AgentInv ==
    /\ AgentTypeOK
    /\ \A r \in Runners : RunnerInv(r)
    /\ \A c \in Calls : Counted(c)
    /\ TurnInOrder
    /\ ReplayExact

-----------------------------------------------------------------------------
(* Facts about calls and records                                           *)

RunnerSet == [at : Stages, turn : 0..MaxTurns, group : 0..NumGroups,
              first : BOOLEAN, view : [Slots -> Views]]

LEMMA CallTyped ==
    ASSUME NEW r \in Runners, NEW s \in Slots, runner[r].turn \in Turns
    PROVE  CallOf(r, s) \in Calls /\ CallOf(r, s)[1] = runner[r].turn /\ CallOf(r, s)[2] = s
  BY DEF CallOf, Calls

LEMMA CallParts ==
    ASSUME NEW c \in Calls
    PROVE  c[1] \in Turns /\ c[2] \in Slots /\ c = <<c[1], c[2]>>
  BY DEF Calls

LEMMA RunnerTyped ==
    ASSUME NEW at \in Stages, NEW turn \in 0..MaxTurns, NEW g \in 0..NumGroups,
           NEW first \in BOOLEAN, NEW view \in [Slots -> Views]
    PROVE  /\ Runner(at, turn, g, first, view) \in RunnerSet
           /\ Runner(at, turn, g, first, view).at = at
           /\ Runner(at, turn, g, first, view).turn = turn
           /\ Runner(at, turn, g, first, view).group = g
           /\ Runner(at, turn, g, first, view).view = view
  BY DEF Runner, RunnerSet

LEMMA ViewTyped ==
    ASSUME NEW state \in {"missing", "not_started", "outcome_unknown", "committed",
                          "called", "approval", "lost"},
           NEW result \in Nat, NEW sound \in BOOLEAN
    PROVE  /\ View(state, result, sound) \in Views
           /\ View(state, result, sound).state = state
           /\ View(state, result, sound).result = result
           /\ View(state, result, sound).sound = sound
  BY DEF View, Views

LEMMA EntryTyped ==
    ASSUME NEW state \in {"missing", "not_started", "outcome_unknown", "committed"},
           NEW result \in Nat, NEW sound \in BOOLEAN, NEW boundaries \in Nat
    PROVE  /\ Entry(state, result, sound, boundaries) \in Entries
           /\ Entry(state, result, sound, boundaries).state = state
           /\ Entry(state, result, sound, boundaries).result = result
           /\ Entry(state, result, sound, boundaries).sound = sound
           /\ Entry(state, result, sound, boundaries).boundaries = boundaries
  BY DEF Entry, Entries

LEMMA NoViewTyped == NoView \in [Slots -> Views]
  BY ViewTyped DEF NoView

LEMMA RestingTyped == Resting \in RunnerSet /\ Resting.at = "idle"
<1>1. "idle" \in Stages /\ 0 \in 0..MaxTurns /\ 0 \in 0..NumGroups /\ FALSE \in BOOLEAN
  BY DEF Stages
<1>2. NoView \in [Slots -> Views]
  BY NoViewTyped
<1>3. /\ Runner("idle", 0, 0, FALSE, NoView) \in RunnerSet
      /\ Runner("idle", 0, 0, FALSE, NoView).at = "idle"
  BY <1>1, <1>2 DEF Runner, RunnerSet
<1>. QED
  BY <1>3 DEF Resting

-----------------------------------------------------------------------------
(* What a step keeps                                                       *)

\* An answer on record stays as it is.
Kept == \A c \in Calls : journal[c].state = "committed" => journal'[c] = journal[c]

LEMMA Moved ==
    ASSUME AgentTypeOK, NEW r \in Runners, NEW record \in RunnerSet, Move(r, record)
    PROVE  /\ runner' \in [Runners -> RunnerSet]
           /\ runner'[r] = record
           /\ \A q \in Runners : q # r => runner'[q] = runner[q]
<1>1. runner \in [Runners -> RunnerSet]
  BY DEF AgentTypeOK, RunnerSet
<1>. QED
  BY <1>1 DEF Move

\* A runner that does not move keeps what holds of it.
LEMMA StaysPut ==
    ASSUME NEW q \in Runners, RunnerInv(q), runner'[q] = runner[q], Kept
    PROVE  RunnerInv(q)'
<1>1. Placed(q)' /\ CameOver(q)'
  BY DEF RunnerInv, Placed, CameOver, Seen
<1>2. Remembers(q)'
  <2>. SUFFICES ASSUME runner[q].at \in AtGroup,
                       NEW s \in Slots, Seen(q, s).state = "committed"
                PROVE  /\ journal'[CallOf(q, s)].state = "committed"
                       /\ journal'[CallOf(q, s)].result = Seen(q, s).result
                       /\ journal'[CallOf(q, s)].sound = Seen(q, s).sound
    BY DEF Remembers, Seen, CallOf
  <2>1. CallOf(q, s) \in Calls
    BY CallTyped DEF RunnerInv, Placed, AtGroup, AtTurn
  <2>. QED
    BY <2>1 DEF Kept, RunnerInv, Remembers
<1>. QED
  BY <1>1, <1>2 DEF RunnerInv

\* A runner that is at no group has nothing to remember.
LEMMA AtNoGroup ==
    ASSUME NEW q \in Runners, runner'[q].at \notin AtGroup,
           runner'[q].at \in AtTurn => runner'[q].turn \in Turns
    PROVE  RunnerInv(q)'
  BY DEF RunnerInv, Placed, Remembers, CameOver

LEMMA OthersStay ==
    ASSUME AgentInv, NEW r \in Runners, NEW record \in RunnerSet, Move(r, record), Kept,
           RunnerInv(r)'
    PROVE  \A q \in Runners : RunnerInv(q)'
  BY Moved, StaysPut DEF AgentInv

LEMMA ReportsStand ==
    ASSUME AgentInv, Kept, UNCHANGED told
    PROVE  ReplayExact'
  BY DEF AgentInv, AgentTypeOK, ReplayExact, Kept

\* Steps that leave the journal, the calls and the reports alone.
LEMMA QuietStep ==
    ASSUME AgentInv, UNCHANGED <<journal, dispatched, told>>, AgentTypeOK',
           \A q \in Runners : RunnerInv(q)'
    PROVE  AgentInv'
  BY DEF AgentInv, Counted, TurnInOrder, ReplayExact

LEMMA QuietMove ==
    ASSUME AgentInv, NEW r \in Runners, NEW record \in RunnerSet, Move(r, record),
           UNCHANGED <<journal, dispatched, told>>, manifest' \in BOOLEAN,
           said' \in 0..MaxTurns, calling' \in [Calls -> Runners \cup {NoRunner}],
           RunnerInv(r)'
    PROVE  AgentInv'
<1>1. runner' \in [Runners -> RunnerSet]
  BY Moved DEF AgentInv
<1>2. AgentTypeOK'
  BY <1>1 DEF AgentInv, AgentTypeOK, RunnerSet
<1>3. \A q \in Runners : RunnerInv(q)'
  BY OthersStay DEF Kept
<1>. QED
  BY <1>2, <1>3, QuietStep

LEMMA Rests ==
    ASSUME AgentInv, NEW r \in Runners, End(r), UNCHANGED <<journal, dispatched, told>>,
           manifest' \in BOOLEAN, said' \in 0..MaxTurns,
           calling' \in [Calls -> Runners \cup {NoRunner}]
    PROVE  AgentInv'
<1>1. Resting \in RunnerSet /\ Move(r, Resting) /\ runner'[r] = Resting
  BY RestingTyped, Moved DEF End, AgentInv
<1>2. RunnerInv(r)'
  BY <1>1, RestingTyped, AtNoGroup DEF AtGroup, AtTurn
<1>. QED
  BY <1>1, <1>2, QuietMove

-----------------------------------------------------------------------------
(* One lemma per kind of step                                              *)

LEMMA StepRests ==
    ASSUME AgentInv, NEW r \in Runners,
           Abandon(r) \/ Reject(r) \/ Stop(r) \/ Finish(r) \/ Die(r)
    PROVE  AgentInv'
<1>1. /\ manifest \in BOOLEAN /\ said \in 0..MaxTurns
      /\ calling \in [Calls -> Runners \cup {NoRunner}]
  BY DEF AgentInv, AgentTypeOK
<1>2. End(r) /\ UNCHANGED <<manifest, journal, said, dispatched, told>>
  BY DEF Abandon, Reject, Stop, Finish, Die
<1>3. calling' \in [Calls -> Runners \cup {NoRunner}]
  BY <1>1 DEF Abandon, Reject, Stop, Finish, Die
<1>. QED
  BY <1>1, <1>2, <1>3, Rests

LEMMA StepSubmit ==
    ASSUME AgentInv, NEW r \in Runners, NEW turn \in 0..MaxTurns, Submit(r, turn)
    PROVE  AgentInv'
<1>. DEFINE record == Runner("open", turn, 0, ~manifest, NoView)
<1>1. /\ manifest \in BOOLEAN /\ said \in 0..MaxTurns
      /\ calling \in [Calls -> Runners \cup {NoRunner}]
  BY DEF AgentInv, AgentTypeOK
<1>2. "open" \in Stages /\ 0 \in 0..NumGroups
  BY DEF Stages
<1>3. record \in RunnerSet /\ record.at = "open"
  BY <1>2, NoViewTyped DEF Runner, RunnerSet
<1>4. Move(r, record) /\ said' \in 0..MaxTurns
      /\ UNCHANGED <<manifest, journal, calling, dispatched, told>>
  BY <1>1 DEF Submit
<1>. HIDE DEF record
<1>5. RunnerInv(r)'
  BY <1>3, <1>4, Moved, AtNoGroup DEF AgentInv, AtGroup, AtTurn
<1>. QED
  BY <1>1, <1>3, <1>4, <1>5, QuietMove

LEMMA StepEnsure ==
    ASSUME AgentInv, NEW r \in Runners, Ensure(r)
    PROVE  AgentInv'
<1>1. /\ said \in 0..MaxTurns /\ runner[r] \in RunnerSet
      /\ calling \in [Calls -> Runners \cup {NoRunner}]
  BY DEF AgentInv, AgentTypeOK, RunnerSet
<1>2. PICK at \in {"ask", "observe", "classify"} :
        /\ Goto(r, at)
        /\ at # "ask" => runner[r].turn # 0
  BY DEF Ensure
<1>. DEFINE record == Runner(at, runner[r].turn, runner[r].group, runner[r].first, runner[r].view)
<1>3. record \in RunnerSet /\ record.at = at /\ record.turn = runner[r].turn
  BY <1>1 DEF Runner, RunnerSet, Stages
<1>4. Move(r, record) /\ manifest' = TRUE
      /\ UNCHANGED <<journal, said, calling, dispatched, told>>
  BY <1>2 DEF Ensure, Goto
<1>5. at # "ask" => record.turn \in Turns
  BY <1>1, <1>2, <1>3 DEF RunnerSet, Turns
<1>. HIDE DEF record
<1>6. RunnerInv(r)'
  BY <1>2, <1>3, <1>4, <1>5, Moved, AtNoGroup DEF AgentInv, AtGroup, AtTurn
<1>. QED
  BY <1>1, <1>3, <1>4, <1>6, QuietMove

LEMMA StepAskModel ==
    ASSUME AgentInv, NEW r \in Runners, AskModel(r)
    PROVE  AgentInv'
<1>. DEFINE record == Runner("observe", said + 1, 0, FALSE, NoView)
<1>1. /\ manifest \in BOOLEAN /\ said \in 0..MaxTurns
      /\ calling \in [Calls -> Runners \cup {NoRunner}]
  BY DEF AgentInv, AgentTypeOK
<1>2. "observe" \in Stages /\ 0 \in 0..NumGroups /\ FALSE \in BOOLEAN /\ said + 1 \in Turns
      /\ said + 1 \in 0..MaxTurns
  BY <1>1 DEF Stages, Turns, AskModel
<1>3. record \in RunnerSet /\ record.at = "observe" /\ record.turn \in Turns
  BY <1>2, NoViewTyped DEF Runner, RunnerSet
<1>4. Move(r, record) /\ said' \in 0..MaxTurns
      /\ UNCHANGED <<manifest, journal, calling, dispatched, told>>
  BY <1>2 DEF AskModel
<1>. HIDE DEF record
<1>5. RunnerInv(r)'
  BY <1>3, <1>4, Moved, AtNoGroup DEF AgentInv, AtGroup
<1>. QED
  BY <1>1, <1>3, <1>4, <1>5, QuietMove

\* The view of a turn that is safe to go on with is what is on record.
LEMMA StepClassify ==
    ASSUME AgentInv, NEW r \in Runners, Classify(r)
    PROVE  AgentInv'
<1>. DEFINE record == Runner("mark", runner[r].turn, 1, FALSE, Classification(r))
<1>1. /\ manifest \in BOOLEAN /\ said \in 0..MaxTurns /\ journal \in [Calls -> Entries]
      /\ calling \in [Calls -> Runners \cup {NoRunner}] /\ runner[r] \in RunnerSet
  BY DEF AgentInv, AgentTypeOK, RunnerSet
<1>2. runner[r].turn \in Turns
  BY DEF AgentInv, RunnerInv, Placed, AtTurn, Classify, Stands
<1>3. \A s \in Slots : /\ CallOf(r, s) \in Calls /\ journal[CallOf(r, s)] \in Entries
                       /\ Classification(r)[s] \in Views
                       /\ Classification(r)[s].state = journal[CallOf(r, s)].state
                       /\ Classification(r)[s].result = journal[CallOf(r, s)].result
                       /\ Classification(r)[s].sound = journal[CallOf(r, s)].sound
  <2>. TAKE s \in Slots
  <2>1. CallOf(r, s) \in Calls /\ journal[CallOf(r, s)] \in Entries
    BY <1>1, <1>2, CallTyped
  <2>. QED
    BY <2>1 DEF Classification, Entries, View, Views
<1>4. Classification(r) \in [Slots -> Views]
  BY <1>3 DEF Classification
<1>5. "mark" \in Stages /\ 1 \in 0..NumGroups /\ FALSE \in BOOLEAN
  BY DEF Stages
<1>6. /\ record \in RunnerSet /\ record.at = "mark" /\ record.turn = runner[r].turn
      /\ record.group = 1 /\ record.view = Classification(r)
  BY <1>1, <1>4, <1>5 DEF Runner, RunnerSet
<1>7. UNCHANGED <<manifest, journal, said, calling, dispatched, told>>
  BY DEF Classify
<1>8. CASE End(r)
  BY <1>1, <1>7, <1>8, Rests
<1>9. CASE Move(r, record)
  <2>. HIDE DEF record
  <2>1. runner'[r] = record
    BY <1>6, <1>9, Moved DEF AgentInv
  <2>2. Placed(r)'
    BY <1>2, <1>6, <2>1 DEF Placed
  <2>3. Remembers(r)'
    BY <1>3, <1>6, <1>7, <2>1 DEF Remembers, Seen, CallOf
  <2>4. CameOver(r)'
    BY <1>6, <2>1 DEF CameOver, Seen
  <2>. QED
    BY <1>1, <1>6, <1>7, <1>9, <2>2, <2>3, <2>4, QuietMove DEF RunnerInv
<1>. QED
  BY <1>8, <1>9 DEF Classify

\* A committed answer that is heard is the one on record; nobody else's view changes.
LEMMA HeardInv ==
    ASSUME AgentInv, NEW c \in Calls, NEW view \in Views, UnderWay(c), Hear(c, view), Kept,
           view.state = "committed" =>
             /\ journal'[c].state = "committed"
             /\ journal'[c].result = view.result /\ journal'[c].sound = view.sound
    PROVE  /\ runner' \in [Runners -> RunnerSet]
           /\ calling' \in [Calls -> Runners \cup {NoRunner}]
           /\ \A q \in Runners : RunnerInv(q)'
<1>0. PICK r \in Runners : r = calling[c]
  BY DEF AgentInv, AgentTypeOK, UnderWay
<1>. DEFINE record == Runner("wait", c[1], runner[r].group, FALSE,
                             [runner[r].view EXCEPT ![c[2]] = view])
<1>1. /\ runner \in [Runners -> RunnerSet]
      /\ calling \in [Calls -> Runners \cup {NoRunner}]
  BY DEF AgentInv, AgentTypeOK, RunnerSet, UnderWay
<1>2. calling' \in [Calls -> Runners \cup {NoRunner}]
  BY <1>1 DEF Hear
<1>3. CASE ~Waits(r, c)
  <2>1. runner' = runner
    BY <1>0, <1>3 DEF Hear
  <2>. QED
    BY <1>1, <1>2, <2>1, StaysPut DEF AgentInv
<1>4. CASE Waits(r, c)
  <2>1. /\ runner[r].at = "wait" /\ runner[r].turn = c[1] /\ Seen(r, c[2]).state = "called"
        /\ runner[r] \in RunnerSet /\ c[1] \in Turns /\ c[2] \in Slots /\ c = <<c[1], c[2]>>
    BY <1>1, <1>4, CallParts DEF Waits, Stands
  <2>2. /\ runner[r].view \in [Slots -> Views] /\ runner[r].group \in 0..NumGroups
        /\ "wait" \in Stages /\ c[1] \in 0..MaxTurns /\ FALSE \in BOOLEAN
    BY <2>1 DEF RunnerSet, Stages, Turns
  <2>3. [runner[r].view EXCEPT ![c[2]] = view] \in [Slots -> Views]
    BY <2>2
  <2>4. /\ record \in RunnerSet /\ record.at = "wait" /\ record.turn = runner[r].turn
        /\ record.group = runner[r].group
        /\ record.view = [runner[r].view EXCEPT ![c[2]] = view]
    BY <2>1, <2>2, <2>3 DEF Runner, RunnerSet
  <2>5. Move(r, record)
    BY <1>0, <1>4 DEF Hear
  <2>. HIDE DEF record
  <2>6. runner' \in [Runners -> RunnerSet] /\ runner'[r] = record
    BY <1>1, <2>4, <2>5, Moved DEF AgentInv
  <2>7. /\ RunnerInv(r) /\ runner'[r].at = runner[r].at /\ runner'[r].turn = runner[r].turn
        /\ runner'[r].group = runner[r].group
        /\ runner'[r].view[c[2]] = view
        /\ \A s \in Slots : s # c[2] => runner'[r].view[s] = runner[r].view[s]
    BY <1>1, <2>1, <2>2, <2>4, <2>6 DEF AgentInv
  <2>8. Placed(r)'
    BY <2>7 DEF RunnerInv, Placed
  <2>9. Remembers(r)'
    <3>. SUFFICES ASSUME NEW s \in Slots, runner'[r].view[s].state = "committed"
                  PROVE  /\ journal'[CallOf(r, s)].state = "committed"
                         /\ journal'[CallOf(r, s)].result = runner'[r].view[s].result
                         /\ journal'[CallOf(r, s)].sound = runner'[r].view[s].sound
      BY <2>7 DEF Remembers, Seen, CallOf
    <3>1. CASE s = c[2]
      BY <2>1, <2>7, <3>1 DEF CallOf
    <3>2. CASE s # c[2]
      <4>1. runner[r].view[s].state = "committed" /\ CallOf(r, s) \in Calls
        BY <1>1, <2>1, <2>7, <3>2, CallTyped
      <4>. QED
        BY <2>1, <2>7, <3>2, <4>1 DEF RunnerInv, Remembers, AtGroup, Seen, Kept
    <3>. QED
      BY <3>1, <3>2
  <2>10. CameOver(r)'
    <3>. SUFFICES ASSUME NEW s \in Slots, GroupOf[s] < runner[r].group
                  PROVE  runner'[r].view[s].state = "committed" /\ runner'[r].view[s].sound
      BY <2>7 DEF CameOver, Seen
    <3>1. runner[r].view[s].state = "committed" /\ runner[r].view[s].sound
      BY <2>1, <2>7 DEF RunnerInv, CameOver, AtGroup, Seen
    <3>2. s # c[2]
      BY <2>1, <3>1 DEF Seen
    <3>. QED
      BY <2>7, <3>1, <3>2
  <2>11. RunnerInv(r)'
    BY <2>8, <2>9, <2>10 DEF RunnerInv
  <2>. QED
    BY <1>1, <1>2, <2>4, <2>5, <2>6, <2>11, OthersStay
<1>. QED
  BY <1>3, <1>4

\* Steps that change the journal: what is left to show of each.
LEMMA LoudStep ==
    ASSUME AgentInv, Kept, UNCHANGED <<manifest, said, told>>,
           journal' \in [Calls -> Entries], dispatched' \in [Calls -> Nat],
           runner' \in [Runners -> RunnerSet],
           calling' \in [Calls -> Runners \cup {NoRunner}],
           \A q \in Runners : RunnerInv(q)',
           \A c \in Calls : Counted(c)',
           TurnInOrder'
    PROVE  AgentInv'
<1>1. AgentTypeOK'
  BY DEF AgentInv, AgentTypeOK, RunnerSet
<1>. QED
  BY <1>1, ReportsStand DEF AgentInv

\* Without a new call, the order of the groups stands.
LEMMA OrderStands ==
    ASSUME AgentInv, Kept, UNCHANGED dispatched
    PROVE  TurnInOrder'
  BY DEF AgentInv, TurnInOrder, Kept

LEMMA StepObserve ==
    ASSUME AgentInv, NEW r \in Runners, Observe(r)
    PROVE  AgentInv'
<1>. DEFINE record == Runner("classify", runner[r].turn, runner[r].group, runner[r].first,
                             runner[r].view)
<1>1. /\ journal \in [Calls -> Entries] /\ dispatched \in [Calls -> Nat]
      /\ calling \in [Calls -> Runners \cup {NoRunner}] /\ runner[r] \in RunnerSet
  BY DEF AgentInv, AgentTypeOK, RunnerSet
<1>2. runner[r].turn \in Turns /\ RunnerInv(r)
  BY DEF AgentInv, RunnerInv, Placed, AtTurn, Observe, Stands
<1>3. /\ journal' \in [Calls -> Entries] /\ Kept
      /\ \A c \in Calls : \/ journal'[c] = journal[c]
                          \/ /\ journal[c].state = "missing" /\ journal'[c].state = "not_started"
                             /\ journal'[c].boundaries = 0
  <2>1. Entry("not_started", 0, TRUE, 0) \in Entries
    BY DEF Entry, Entries
  <2>. QED
    BY <1>1, <2>1 DEF Observe, Kept, Entry
<1>4. /\ record \in RunnerSet /\ record.at = "classify" /\ record.turn = runner[r].turn
      /\ Move(r, record) /\ UNCHANGED <<manifest, said, calling, dispatched, told>>
  BY <1>1 DEF Runner, RunnerSet, Stages, Observe, Goto
<1>. HIDE DEF record
<1>5. runner' \in [Runners -> RunnerSet] /\ runner'[r] = record
  BY <1>4, Moved DEF AgentInv
<1>6. RunnerInv(r)'
  BY <1>2, <1>4, <1>5, AtNoGroup DEF AtGroup
<1>7. \A q \in Runners : RunnerInv(q)'
  BY <1>3, <1>4, <1>6, OthersStay
<1>8. \A c \in Calls : Counted(c)'
  BY <1>1, <1>3, <1>4 DEF AgentInv, Counted
<1>. QED
  BY <1>1, <1>3, <1>4, <1>5, <1>7, <1>8, LoudStep, OrderStands

LEMMA StepMark ==
    ASSUME AgentInv, NEW r \in Runners, Mark(r)
    PROVE  AgentInv'
<1>. DEFINE seen == [s \in Slots |-> IF s \in Due(r) THEN View("called", 0, TRUE)
                                     ELSE Seen(r, s)]
            record == Runner("wait", runner[r].turn, runner[r].group, FALSE, seen)
<1>1. /\ journal \in [Calls -> Entries] /\ dispatched \in [Calls -> Nat]
      /\ calling \in [Calls -> Runners \cup {NoRunner}] /\ runner[r] \in RunnerSet
  BY DEF AgentInv, AgentTypeOK, RunnerSet
<1>2. /\ runner[r].at = "mark" /\ runner[r].turn \in Turns
      /\ runner[r].group \in 1..NumGroups /\ RunnerInv(r)
  BY DEF AgentInv, RunnerInv, Placed, AtTurn, AtGroup, Mark, Stands
<1>3. \A c \in DueCalls(r) : journal[c].state = "not_started"
  BY DEF Mark
<1>4. /\ \A c \in Calls : journal'[c] = IF c \in DueCalls(r)
                                        THEN Entry("outcome_unknown", 0, TRUE, journal[c].boundaries)
                                        ELSE journal[c]
      /\ \A c \in Calls : dispatched'[c] = IF c \in DueCalls(r) THEN dispatched[c] + 1
                                                                ELSE dispatched[c]
      /\ Move(r, record) /\ UNCHANGED <<manifest, said, told>>
  BY DEF Mark, Send
<1>5. journal' \in [Calls -> Entries]
  <2>1. \A c \in Calls : Entry("outcome_unknown", 0, TRUE, journal[c].boundaries) \in Entries
    BY <1>1 DEF Entry, Entries
  <2>. QED
    BY <1>1, <2>1 DEF Mark, Send
<1>6. dispatched' \in [Calls -> Nat]
  BY <1>1 DEF Mark, Send
<1>7. calling' \in [Calls -> Runners \cup {NoRunner}]
  BY <1>1 DEF Mark, Send
<1>8. Kept
  BY <1>3, <1>4 DEF Kept
<1>9. \A c \in Calls : Counted(c)'
  <2>. SUFFICES ASSUME NEW c \in Calls PROVE Counted(c)'
    OBVIOUS
  <2>1. journal[c].boundaries \in Nat /\ dispatched[c] \in Nat /\ Counted(c)
    BY <1>1 DEF AgentInv, Entries
  <2>2. CASE c \in DueCalls(r)
    <3>1. /\ journal'[c].state = "outcome_unknown" /\ dispatched'[c] = dispatched[c] + 1
          /\ journal'[c].boundaries = journal[c].boundaries
      <4>1. journal'[c] = Entry("outcome_unknown", 0, TRUE, journal[c].boundaries)
        BY <1>4, <2>2
      <4>2. dispatched'[c] = dispatched[c] + 1
        BY <1>4, <2>2
      <4>. QED
        BY <4>1, <4>2 DEF Entry
    <3>2. dispatched[c] <= journal[c].boundaries
      BY <1>3, <2>1, <2>2 DEF Counted
    <3>. QED
      BY <2>1, <3>1, <3>2 DEF Counted
  <2>3. CASE c \notin DueCalls(r)
    BY <1>4, <2>1, <2>3 DEF Counted
  <2>. QED
    BY <2>2, <2>3
\* What is called now has only sound answers before it.
<1>10. TurnInOrder'
  <2>. SUFFICES ASSUME NEW c \in Calls, NEW d \in Calls, c[1] = d[1],
                       GroupOf[c[2]] < GroupOf[d[2]], dispatched'[d] > 0
                PROVE  journal'[c].state = "committed" /\ journal'[c].sound
    BY DEF TurnInOrder
  <2>1. CASE d \notin DueCalls(r)
    BY <1>4, <1>8, <2>1 DEF AgentInv, TurnInOrder, Kept
  <2>2. CASE d \in DueCalls(r)
    <3>1. PICK s \in Due(r) : d = CallOf(r, s)
      BY <2>2 DEF DueCalls
    <3>2. s \in Slots /\ GroupOf[s] = runner[r].group /\ d[1] = runner[r].turn /\ d[2] = s
      BY <3>1 DEF Due, InGroup, CallOf
    <3>3. c[2] \in Slots /\ c = CallOf(r, c[2])
      BY <3>2, CallParts DEF CallOf
    <3>4. Seen(r, c[2]).state = "committed" /\ Seen(r, c[2]).sound
      BY <1>2, <3>2, <3>3 DEF RunnerInv, CameOver, AtGroup
    <3>5. journal[c].state = "committed" /\ journal[c].sound
      BY <1>2, <3>3, <3>4 DEF RunnerInv, Remembers, AtGroup
    <3>. QED
      BY <1>8, <3>5 DEF Kept
  <2>. QED
    BY <2>1, <2>2
<1>11. /\ seen \in [Slots -> Views]
       /\ \A s \in Slots : \/ seen[s] = Seen(r, s)
                           \/ Seen(r, s).state = "not_started" /\ seen[s].state = "called"
  <2>1. View("called", 0, TRUE) \in Views /\ View("called", 0, TRUE).state = "called"
    BY DEF View, Views
  <2>2. \A s \in Slots : Seen(r, s) \in Views
    BY <1>1 DEF Seen, RunnerSet
  <2>. QED
    BY <2>1, <2>2 DEF Due
<1>. HIDE DEF seen
<1>12. /\ record \in RunnerSet /\ record.at = "wait" /\ record.turn = runner[r].turn
       /\ record.group = runner[r].group /\ record.view = seen
  BY <1>1, <1>2, <1>11 DEF Runner, RunnerSet, Stages
<1>. HIDE DEF record
<1>13. runner' \in [Runners -> RunnerSet] /\ runner'[r] = record
  BY <1>4, <1>12, Moved DEF AgentInv
<1>14. Placed(r)'
  BY <1>2, <1>12, <1>13 DEF Placed
<1>15. Remembers(r)'
  <2>. SUFFICES ASSUME NEW s \in Slots, seen[s].state = "committed"
                PROVE  /\ journal'[CallOf(r, s)].state = "committed"
                       /\ journal'[CallOf(r, s)].result = seen[s].result
                       /\ journal'[CallOf(r, s)].sound = seen[s].sound
    BY <1>12, <1>13 DEF Remembers, Seen, CallOf
  <2>1. seen[s] = Seen(r, s) /\ CallOf(r, s) \in Calls
    BY <1>2, <1>11, CallTyped
  <2>. QED
    BY <1>2, <1>8, <2>1 DEF RunnerInv, Remembers, AtGroup, Kept
<1>16. CameOver(r)'
  <2>. SUFFICES ASSUME NEW s \in Slots, GroupOf[s] < runner[r].group
                PROVE  seen[s].state = "committed" /\ seen[s].sound
    BY <1>12, <1>13 DEF CameOver, Seen
  <2>. QED
    BY <1>2, <1>11 DEF RunnerInv, CameOver, AtGroup
<1>17. \A q \in Runners : RunnerInv(q)'
  BY <1>4, <1>8, <1>12, <1>14, <1>15, <1>16, OthersStay DEF RunnerInv
<1>. QED
  BY <1>4, <1>5, <1>6, <1>7, <1>8, <1>9, <1>10, <1>13, <1>17, LoudStep

LEMMA StepCommitAnswer ==
    ASSUME AgentInv, NEW c \in Calls, NEW sound \in BOOLEAN, CommitAnswer(c, sound)
    PROVE  AgentInv'
<1>. DEFINE entry == Entry("committed", dispatched[c], sound, journal[c].boundaries)
            view == View("committed", dispatched[c], sound)
<1>1. /\ journal \in [Calls -> Entries] /\ dispatched \in [Calls -> Nat]
      /\ journal[c] \in Entries /\ dispatched[c] \in Nat
  BY DEF AgentInv, AgentTypeOK
<1>2. /\ UnderWay(c) /\ journal[c].state = "outcome_unknown" /\ PutEntry(c, entry)
      /\ Hear(c, view) /\ UNCHANGED <<manifest, said, dispatched, told>>
  BY DEF CommitAnswer
<1>3. /\ entry \in Entries /\ entry.state = "committed" /\ entry.result = dispatched[c]
      /\ entry.sound = sound /\ entry.boundaries = journal[c].boundaries
  BY <1>1 DEF Entry, Entries
<1>4. /\ view \in Views /\ view.state = "committed" /\ view.result = dispatched[c]
      /\ view.sound = sound
  BY <1>1 DEF View, Views
<1>. HIDE DEF entry, view
<1>5. /\ journal' \in [Calls -> Entries] /\ journal'[c] = entry
      /\ \A d \in Calls : d # c => journal'[d] = journal[d]
  BY <1>1, <1>2, <1>3 DEF PutEntry
<1>6. Kept
  BY <1>2, <1>5 DEF Kept
<1>7. /\ runner' \in [Runners -> RunnerSet]
      /\ calling' \in [Calls -> Runners \cup {NoRunner}]
      /\ \A q \in Runners : RunnerInv(q)'
  BY <1>2, <1>3, <1>4, <1>5, <1>6, HeardInv
<1>8. ASSUME NEW d \in Calls PROVE Counted(d)'
  BY <1>2, <1>3, <1>5 DEF AgentInv, Counted
<1>9. dispatched' \in [Calls -> Nat]
  BY <1>1, <1>2
<1>10. TurnInOrder'
  BY <1>2, <1>6, OrderStands
<1>. QED
  BY <1>2, <1>5, <1>6, <1>7, <1>8, <1>9, <1>10, LoudStep

LEMMA StepRequestApproval ==
    ASSUME AgentInv, NEW c \in Calls, RequestApproval(c)
    PROVE  AgentInv'
<1>. DEFINE entry == Entry("not_started", 0, TRUE, journal[c].boundaries + 1)
            view == View("approval", 0, TRUE)
<1>1. /\ journal \in [Calls -> Entries] /\ dispatched \in [Calls -> Nat]
      /\ journal[c] \in Entries /\ journal[c].boundaries \in Nat
  BY DEF AgentInv, AgentTypeOK, Entries
<1>2. /\ UnderWay(c) /\ journal[c].state = "outcome_unknown" /\ PutEntry(c, entry)
      /\ Hear(c, view) /\ UNCHANGED <<manifest, said, dispatched, told>>
  BY DEF RequestApproval
<1>3. /\ entry \in Entries /\ entry.state = "not_started"
      /\ entry.boundaries = journal[c].boundaries + 1
  BY <1>1 DEF Entry, Entries
<1>4. view \in Views /\ view.state # "committed"
  BY DEF View, Views
<1>. HIDE DEF entry, view
<1>5. /\ journal' \in [Calls -> Entries] /\ journal'[c] = entry
      /\ \A d \in Calls : d # c => journal'[d] = journal[d]
  BY <1>1, <1>2, <1>3 DEF PutEntry
<1>6. Kept
  BY <1>2, <1>5 DEF Kept
<1>7. /\ runner' \in [Runners -> RunnerSet]
      /\ calling' \in [Calls -> Runners \cup {NoRunner}]
      /\ \A q \in Runners : RunnerInv(q)'
  BY <1>2, <1>4, <1>6, HeardInv
<1>8. ASSUME NEW d \in Calls PROVE Counted(d)'
  <2>1. Counted(d) /\ dispatched[d] \in Nat
    BY <1>1 DEF AgentInv
  <2>2. CASE d = c
    BY <1>1, <1>2, <1>3, <1>5, <2>1, <2>2 DEF Counted
  <2>3. CASE d # c
    BY <1>2, <1>5, <2>1, <2>3 DEF Counted
  <2>. QED
    BY <2>2, <2>3
<1>9. dispatched' \in [Calls -> Nat]
  BY <1>1, <1>2
<1>10. TurnInOrder'
  BY <1>2, <1>6, OrderStands
<1>. QED
  BY <1>2, <1>5, <1>6, <1>7, <1>8, <1>9, <1>10, LoudStep

LEMMA StepLose ==
    ASSUME AgentInv, NEW c \in Calls, Lose(c)
    PROVE  AgentInv'
<1>. DEFINE view == View("lost", 0, TRUE)
<1>1. /\ UnderWay(c) /\ Hear(c, view)
      /\ UNCHANGED <<manifest, journal, said, dispatched, told>>
  BY DEF Lose
<1>2. view \in Views /\ view.state # "committed"
  BY DEF View, Views
<1>. HIDE DEF view
<1>3. Kept
  BY <1>1 DEF Kept
<1>4. /\ runner' \in [Runners -> RunnerSet]
      /\ calling' \in [Calls -> Runners \cup {NoRunner}]
      /\ \A q \in Runners : RunnerInv(q)'
  BY <1>1, <1>2, <1>3, HeardInv
<1>5. AgentTypeOK'
  BY <1>1, <1>4 DEF AgentInv, AgentTypeOK, RunnerSet
<1>. QED
  BY <1>1, <1>4, <1>5, QuietStep

\* What is reported now is what the runner remembers.
LEMMA StepProceed ==
    ASSUME AgentInv, NEW r \in Runners, Proceed(r)
    PROVE  AgentInv'
<1>1. /\ runner[r] \in RunnerSet /\ runner[r].at = "wait" /\ runner[r].turn \in Turns
      /\ runner[r].group \in 1..NumGroups /\ RunnerInv(r)
      /\ calling \in [Calls -> Runners \cup {NoRunner}]
  BY DEF AgentInv, AgentTypeOK, RunnerSet, RunnerInv, Placed, AtTurn, AtGroup, Proceed, Stands
<1>2. /\ \A s \in InGroup(r) : Seen(r, s).state = "committed" /\ Seen(r, s).sound
      /\ told' = told \cup {<<CallOf(r, s), Seen(r, s).result>> : s \in InGroup(r)}
      /\ UNCHANGED <<manifest, journal, said, calling, dispatched>>
  BY DEF Proceed, Answered
<1>3. \A s \in InGroup(r) : /\ CallOf(r, s) \in Calls /\ Seen(r, s).result \in Nat
                            /\ journal[CallOf(r, s)].state = "committed"
                            /\ journal[CallOf(r, s)].result = Seen(r, s).result
  <2>. TAKE s \in InGroup(r)
  <2>1. s \in Slots
    BY DEF InGroup
  <2>2. Seen(r, s) \in Views
    BY <1>1, <2>1 DEF Seen, RunnerSet
  <2>. QED
    BY <1>1, <1>2, <2>1, <2>2, CallTyped DEF Views, RunnerInv, Remembers, AtGroup
<1>4. ReplayExact' /\ \A answer \in told' : answer \in Calls \X Nat
  <2>. SUFFICES ASSUME NEW answer \in told'
                PROVE  /\ answer \in Calls \X Nat
                       /\ journal'[answer[1]].state = "committed"
                       /\ journal'[answer[1]].result = answer[2]
    BY DEF ReplayExact
  <2>1. CASE answer \in told
    BY <1>2, <2>1 DEF AgentInv, AgentTypeOK, ReplayExact
  <2>2. CASE answer \notin told
    <3>1. PICK s \in InGroup(r) : answer = <<CallOf(r, s), Seen(r, s).result>>
      BY <1>2, <2>2
    <3>. QED
      BY <1>2, <1>3, <3>1
  <2>. QED
    BY <2>1, <2>2
<1>5. TurnInOrder' /\ \A c \in Calls : Counted(c)'
  BY <1>2 DEF AgentInv, TurnInOrder, Counted
<1>6. PICK record \in RunnerSet :
        /\ Move(r, record)
        /\ \/ record.at = "ask"
           \/ /\ record.at = "mark" /\ record.turn = runner[r].turn
              /\ record.group = runner[r].group + 1 /\ record.group \in 1..NumGroups
              /\ record.view = runner[r].view
  <2>1. CASE runner[r].group = NumGroups
    <3>1. /\ Runner("ask", 0, 0, FALSE, NoView) \in RunnerSet
          /\ Runner("ask", 0, 0, FALSE, NoView).at = "ask"
      BY NoViewTyped DEF Runner, RunnerSet, Stages
    <3>. QED
      BY <2>1, <3>1 DEF Proceed
  <2>2. CASE runner[r].group # NumGroups
    <3>. DEFINE next == Runner("mark", runner[r].turn, runner[r].group + 1, FALSE,
                               runner[r].view)
    <3>1. runner[r].group + 1 \in 1..NumGroups
      BY <1>1, <2>2
    <3>2. /\ next \in RunnerSet /\ next.at = "mark" /\ next.turn = runner[r].turn
          /\ next.group = runner[r].group + 1 /\ next.view = runner[r].view
      BY <1>1, <3>1 DEF Runner, RunnerSet, Stages
    <3>3. Move(r, next)
      BY <2>2 DEF Proceed
    <3>. HIDE DEF next
    <3>. QED
      BY <3>1, <3>2, <3>3
  <2>. QED
    BY <2>1, <2>2
<1>7. runner' \in [Runners -> RunnerSet] /\ runner'[r] = record
  BY <1>6, Moved DEF AgentInv
<1>8. RunnerInv(r)'
  <2>1. CASE record.at = "ask"
    BY <1>7, <2>1, AtNoGroup DEF AtGroup, AtTurn
  <2>2. CASE record.at # "ask"
    <3>1. /\ runner'[r].at = "mark" /\ runner'[r].turn = runner[r].turn
          /\ runner'[r].group = runner[r].group + 1 /\ runner'[r].group \in 1..NumGroups
          /\ runner'[r].view = runner[r].view
      BY <1>6, <1>7, <2>2
    <3>2. Placed(r)'
      BY <1>1, <3>1 DEF Placed
    <3>3. Remembers(r)'
      BY <1>1, <1>2, <3>1 DEF RunnerInv, Remembers, AtGroup, Seen, CallOf
    <3>4. CameOver(r)'
      <4>. SUFFICES ASSUME NEW s \in Slots, GroupOf[s] < runner[r].group + 1
                    PROVE  Seen(r, s).state = "committed" /\ Seen(r, s).sound
        BY <3>1 DEF CameOver, Seen
      <4>1. CASE GroupOf[s] = runner[r].group
        BY <1>2, <4>1 DEF InGroup
      <4>2. CASE GroupOf[s] # runner[r].group
        <5>1. GroupOf[s] < runner[r].group
          BY <1>1, <4>2
        <5>. QED
          BY <1>1, <5>1 DEF RunnerInv, CameOver, AtGroup
      <4>. QED
        BY <4>1, <4>2
    <3>. QED
      BY <3>2, <3>3, <3>4 DEF RunnerInv
  <2>. QED
    BY <2>1, <2>2
<1>9. \A q \in Runners : RunnerInv(q)'
  BY <1>2, <1>6, <1>8, OthersStay DEF Kept
<1>10. AgentTypeOK'
  BY <1>2, <1>4, <1>7 DEF AgentInv, AgentTypeOK, RunnerSet
<1>. QED
  BY <1>4, <1>5, <1>9, <1>10 DEF AgentInv

-----------------------------------------------------------------------------
(* The invariant, and what follows from it                                 *)

LEMMA InitInv == AgentInit => AgentInv
<1>. SUFFICES ASSUME AgentInit PROVE AgentInv
  OBVIOUS
<1>1. Missing \in Entries /\ Missing.state = "missing" /\ Missing.boundaries = 0
  BY DEF Missing, Entry, Entries
<1>2. \A r \in Runners : runner[r] = Resting
  BY DEF AgentInit
<1>3. AgentTypeOK
  <2>1. journal \in [Calls -> Entries] /\ dispatched \in [Calls -> Nat]
    BY <1>1 DEF AgentInit
  <2>2. runner \in [Runners -> RunnerSet]
    BY RestingTyped DEF AgentInit
  <2>3. calling \in [Calls -> Runners \cup {NoRunner}]
    BY DEF AgentInit
  <2>4. manifest \in BOOLEAN
    BY DEF AgentInit
  <2>5. said \in 0..MaxTurns /\ told = {}
    <3>1. said = 0 /\ told = {}
      BY DEF AgentInit
    <3>2. 0 \in 0..MaxTurns
      OBVIOUS
    <3>. QED
      BY <3>1, <3>2
  <2>. QED
    BY <2>1, <2>2, <2>3, <2>4, <2>5 DEF AgentTypeOK, RunnerSet
<1>4. \A r \in Runners : RunnerInv(r)
  BY <1>2, RestingTyped DEF RunnerInv, Placed, Remembers, CameOver, AtTurn, AtGroup
<1>5. (\A c \in Calls : Counted(c)) /\ TurnInOrder /\ ReplayExact
  BY <1>1 DEF AgentInit, Counted, TurnInOrder, ReplayExact
<1>. QED
  BY <1>3, <1>4, <1>5 DEF AgentInv

LEMMA NextInv == AgentInv /\ [AgentNext]_agentVars => AgentInv'
<1>. SUFFICES ASSUME AgentInv, [AgentNext]_agentVars PROVE AgentInv'
  OBVIOUS
<1>1. ASSUME NEW r \in Runners, RunnerStep(r) PROVE AgentInv'
  BY <1>1, StepSubmit, StepEnsure, StepObserve, StepClassify, StepMark, StepRests,
     StepProceed, StepAskModel DEF RunnerStep
<1>2. ASSUME NEW c \in Calls, ToolStep(c) PROVE AgentInv'
  BY <1>2, StepRequestApproval, StepLose, StepCommitAnswer DEF ToolStep
<1>3. CASE UNCHANGED agentVars
  <2>1. UNCHANGED <<manifest, journal, said, runner, calling, dispatched, told>>
    BY <1>3 DEF agentVars
  <2>2. AgentTypeOK'
    BY <2>1 DEF AgentInv, AgentTypeOK
  <2>3. ASSUME NEW q \in Runners PROVE RunnerInv(q)'
    BY <2>1, StaysPut DEF Kept, AgentInv
  <2>. QED
    BY <2>1, <2>2, <2>3, QuietStep
<1>. QED
  BY <1>1, <1>2, <1>3 DEF AgentNext

LEMMA AgentInvHolds == AgentSpec => []AgentInv
  BY InitInv, NextInv, PTL DEF AgentSpec

\* The journal, the invocations and the history keep their types.
THEOREM AgentTypeCorrect == AgentSpec => []AgentTypeOK
<1>1. AgentInv => AgentTypeOK
  BY DEF AgentInv
<1>. QED
  BY <1>1, AgentInvHolds, PTL

\* For any number of processes, tools and submissions, a tool call is sent once, and once
\* more after each approval it requests: nothing else returns a call to not_started.
THEOREM CalledOnceHolds == AgentSpec => []CalledOnce
<1>1. AgentInv => CalledOnce
  BY DEF AgentInv, Counted, CalledOnce
<1>. QED
  BY <1>1, AgentInvHolds, PTL

\* Groups keep their order over all invocations, although each rests on one look at the
\* journal that is stale by the time it acts.
THEOREM TurnInOrderHolds == AgentSpec => []TurnInOrder
<1>1. AgentInv => TurnInOrder
  BY DEF AgentInv
<1>. QED
  BY <1>1, AgentInvHolds, PTL

\* Whatever was reported of a call is what the journal holds of it, for good.
THEOREM ReplayExactHolds == AgentSpec => []ReplayExact
<1>1. AgentInv => ReplayExact
  BY DEF AgentInv
<1>. QED
  BY <1>1, AgentInvHolds, PTL

-----------------------------------------------------------------------------
(* The refinement of AttemptJournal                                        *)

\* The journal and the tools agree exactly: what is on record tells how often a call was
\* sent, and what is not committed has no answer on record.
Exact(c) ==
    /\ journal[c].state \in {"missing", "not_started"} => dispatched[c] = journal[c].boundaries
    /\ journal[c].state \in {"outcome_unknown", "committed"} =>
         dispatched[c] = journal[c].boundaries + 1
    /\ journal[c].state = "missing" => journal[c].boundaries = 0
    /\ journal[c].state # "committed" => journal[c].result = 0 /\ journal[c].sound = TRUE

ExactInv == \A c \in Calls : Exact(c)

\* What a step does to the journal: some calls get new entries.
JournalBecomes(S, state) ==
    /\ \A c \in Calls \ S : journal'[c] = journal[c] /\ dispatched'[c] = dispatched[c]
    /\ \A c \in S : journal'[c].state = state

LEMMA Reads ==
    ASSUME NEW S \in SUBSET Calls, NEW state, JournalBecomes(S, state)
    PROVE  /\ AJ!Becomes(S, state)
           /\ (\A c \in S : journal'[c].boundaries = journal[c].boundaries) =>
                UNCHANGED [c \in Calls |-> journal[c].boundaries]
           /\ (\A c \in S : /\ journal'[c].result = journal[c].result
                            /\ journal'[c].sound = journal[c].sound) =>
                UNCHANGED [c \in Calls |-> <<journal[c].result, journal[c].sound>>]
<1>1. AJ!Becomes(S, state)
  BY DEF AJ!Becomes, JournalBecomes
<1>2. ASSUME \A c \in S : journal'[c].boundaries = journal[c].boundaries
      PROVE  UNCHANGED [c \in Calls |-> journal[c].boundaries]
  <2>1. \A c \in Calls : journal'[c].boundaries = journal[c].boundaries
    BY <1>2 DEF JournalBecomes
  <2>. QED
    BY <2>1
<1>3. ASSUME \A c \in S : journal'[c].result = journal[c].result /\ journal'[c].sound = journal[c].sound
      PROVE  UNCHANGED [c \in Calls |-> <<journal[c].result, journal[c].sound>>]
  <2>1. \A c \in Calls : journal'[c].result = journal[c].result /\ journal'[c].sound = journal[c].sound
    BY <1>3 DEF JournalBecomes
  <2>. QED
    BY <2>1
<1>. QED
  BY <1>1, <1>2, <1>3

LEMMA QuietRefines ==
    ASSUME ExactInv, UNCHANGED <<journal, dispatched>>
    PROVE  ExactInv' /\ UNCHANGED AJ!vars
  BY DEF ExactInv, Exact, AJ!vars

LEMMA ObserveRefines ==
    ASSUME AgentInv, ExactInv, NEW r \in Runners, Observe(r)
    PROVE  ExactInv' /\ AJ!Next
<1>. PICK S : S = {c \in Calls : c[1] = runner[r].turn /\ journal[c].state = "missing"}
  OBVIOUS
<1>. DEFINE entry == Entry("not_started", 0, TRUE, 0)
<1>1. /\ entry.state = "not_started" /\ entry.boundaries = 0 /\ entry.result = 0
      /\ entry.sound = TRUE
  BY DEF Entry
<1>. HIDE DEF entry
<1>2. /\ \A c \in Calls \ S : journal'[c] = journal[c]
      /\ \A c \in S : journal'[c] = entry /\ journal[c].state = "missing"
      /\ dispatched' = dispatched
  BY DEF Observe, entry
<1>3. S \in SUBSET Calls
  OBVIOUS
<1>4. \A c \in S : /\ journal[c].boundaries = 0 /\ journal[c].result = 0
                   /\ journal[c].sound = TRUE /\ dispatched[c] = 0
  BY <1>2, <1>3 DEF ExactInv, Exact
<1>5. ExactInv'
  <2>. SUFFICES ASSUME NEW c \in Calls PROVE Exact(c)'
    BY DEF ExactInv
  <2>1. CASE c \in S
    BY <1>1, <1>2, <1>4, <2>1 DEF Exact
  <2>2. CASE c \notin S
    BY <1>2, <2>2 DEF Exact, ExactInv
  <2>. QED
    BY <2>1, <2>2
<1>6. JournalBecomes(S, "not_started")
  BY <1>1, <1>2 DEF JournalBecomes
<1>7. AJ!Observe(S)
  <2>1. \A k \in S : [c \in Calls |-> journal[c].state][k] = "missing"
    BY <1>2, <1>3
  <2>2. \A c \in S : /\ journal'[c].boundaries = journal[c].boundaries
                     /\ journal'[c].result = journal[c].result
                     /\ journal'[c].sound = journal[c].sound
    BY <1>1, <1>2, <1>4
  <2>3. /\ AJ!Becomes(S, "not_started")
        /\ UNCHANGED [c \in Calls |-> journal[c].boundaries]
        /\ UNCHANGED [c \in Calls |-> <<journal[c].result, journal[c].sound>>]
    BY <1>3, <1>6, <2>2, Reads
  <2>. QED
    BY <1>2, <2>1, <2>3 DEF AJ!Observe
<1>8. \E T \in SUBSET Calls : AJ!Observe(T)
  BY <1>3, <1>7, Zenon
<1>. QED
  BY <1>5, <1>8, Zenon DEF AJ!Next

\* The mark and the calls of a group are one step: who marked may die before it calls, but
\* nobody can tell that from a call that never comes back.
LEMMA MarkRefines ==
    ASSUME AgentInv, ExactInv, NEW r \in Runners, Mark(r)
    PROVE  ExactInv' /\ AJ!Next
<1>. PICK S : S = DueCalls(r)
  OBVIOUS
<1>1. S \in SUBSET Calls
  BY CallTyped DEF AgentInv, RunnerInv, Placed, AtTurn, Mark, Stands, DueCalls, Due, InGroup
<1>2. \A c \in Calls : journal[c] \in Entries /\ dispatched[c] \in Nat
  BY DEF AgentInv, AgentTypeOK
<1>3. /\ \A c \in S : /\ journal[c].state = "not_started"
                      /\ journal'[c] = Entry("outcome_unknown", 0, TRUE, journal[c].boundaries)
                      /\ dispatched'[c] = dispatched[c] + 1
      /\ \A c \in Calls \ S : journal'[c] = journal[c] /\ dispatched'[c] = dispatched[c]
      /\ dispatched' = [c \in Calls |-> IF c \in S THEN dispatched[c] + 1 ELSE dispatched[c]]
  BY <1>1 DEF Mark, Send
<1>4. \A c \in S : /\ journal'[c].state = "outcome_unknown"
                   /\ journal'[c].boundaries = journal[c].boundaries
                   /\ journal'[c].result = 0 /\ journal'[c].sound = TRUE
  <2>. TAKE c \in S
  <2>1. journal'[c] = Entry("outcome_unknown", 0, TRUE, journal[c].boundaries)
    BY <1>3
  <2>. QED
    BY <2>1 DEF Entry
<1>5. \A c \in S : /\ dispatched[c] = journal[c].boundaries
                   /\ journal[c].result = 0 /\ journal[c].sound = TRUE
  BY <1>1, <1>3 DEF ExactInv, Exact
<1>6. ExactInv'
  <2>. SUFFICES ASSUME NEW c \in Calls PROVE Exact(c)'
    BY DEF ExactInv
  <2>1. CASE c \in S
    BY <1>3, <1>4, <1>5, <2>1 DEF Exact
  <2>2. CASE c \notin S
    BY <1>3, <2>2 DEF Exact, ExactInv
  <2>. QED
    BY <2>1, <2>2
<1>7. AJ!Becomes(S, "outcome_unknown")
      /\ UNCHANGED [c \in Calls |-> journal[c].boundaries]
      /\ UNCHANGED [c \in Calls |-> <<journal[c].result, journal[c].sound>>]
  <2>1. AJ!Becomes(S, "outcome_unknown")
    BY <1>3, <1>4 DEF AJ!Becomes
  <2>2. \A c \in Calls : /\ journal'[c].boundaries = journal[c].boundaries
                         /\ journal'[c].result = journal[c].result
                         /\ journal'[c].sound = journal[c].sound
    <3>. TAKE c \in Calls
    <3>1. CASE c \in S
      BY <1>4, <1>5, <3>1
    <3>2. CASE c \notin S
      BY <1>3, <3>2
    <3>. QED
      BY <3>1, <3>2
  <2>. QED
    BY <2>1, <2>2
<1>8. AJ!Call(S)
  <2>1. \A k \in S : /\ [c \in Calls |-> journal[c].state][k] = "not_started"
                     /\ [c \in Calls |-> journal[c].boundaries][k] = dispatched[k]
    BY <1>1, <1>3, <1>5
  <2>. QED
    BY <1>3, <1>7, <2>1 DEF AJ!Call
<1>9. \E T \in SUBSET Calls : AJ!Call(T)
  BY <1>1, <1>8, Zenon
<1>. QED
  BY <1>6, <1>9, Zenon DEF AJ!Next

\* What both answers to a call that was sent have in common.
LEMMA CallWasMade ==
    ASSUME AgentInv, ExactInv, NEW c \in Calls, journal[c].state = "outcome_unknown"
    PROVE  /\ AJ!Made(c) /\ dispatched[c] = journal[c].boundaries + 1
           /\ dispatched[c] \in Nat /\ journal[c].boundaries \in Nat
           /\ journal[c].result = 0 /\ journal[c].sound = TRUE
<1>1. journal[c] \in Entries /\ dispatched[c] \in Nat
  BY DEF AgentInv, AgentTypeOK
<1>2. dispatched[c] = journal[c].boundaries + 1 /\ journal[c].result = 0
      /\ journal[c].sound = TRUE
  BY DEF ExactInv, Exact
<1>. QED
  BY <1>1, <1>2 DEF AJ!Made, Entries

LEMMA CommitRefines ==
    ASSUME AgentInv, ExactInv, NEW c \in Calls, NEW sound \in BOOLEAN, CommitAnswer(c, sound)
    PROVE  ExactInv' /\ AJ!Next
<1>. DEFINE entry == Entry("committed", dispatched[c], sound, journal[c].boundaries)
<1>1. /\ AJ!Made(c) /\ dispatched[c] = journal[c].boundaries + 1
      /\ dispatched[c] \in Nat /\ journal[c].boundaries \in Nat
  BY CallWasMade DEF CommitAnswer
<1>2. entry.state = "committed" /\ entry.boundaries = journal[c].boundaries
  BY <1>1 DEF Entry
<1>3. journal' = [journal EXCEPT ![c] = entry] /\ dispatched' = dispatched
  BY DEF CommitAnswer, PutEntry
<1>. HIDE DEF entry
<1>4. /\ journal'[c] = entry
      /\ \A d \in Calls \ {c} : journal'[d] = journal[d]
  BY <1>3 DEF AgentInv, AgentTypeOK
<1>5. ExactInv'
  <2>. SUFFICES ASSUME NEW d \in Calls PROVE Exact(d)'
    BY DEF ExactInv
  <2>1. CASE d = c
    BY <1>1, <1>2, <1>3, <1>4, <2>1 DEF Exact
  <2>2. CASE d # c
    BY <1>3, <1>4, <2>2 DEF Exact, ExactInv
  <2>. QED
    BY <2>1, <2>2
<1>6. JournalBecomes({c}, "committed") /\ \A d \in {c} : journal'[d].boundaries = journal[d].boundaries
  BY <1>2, <1>3, <1>4 DEF JournalBecomes
<1>7. AJ!Commit(c)
  <2>1. AJ!Becomes({c}, "committed") /\ UNCHANGED [d \in Calls |-> journal[d].boundaries]
    BY <1>6, Reads
  <2>. QED
    BY <1>1, <1>3, <1>4, <2>1 DEF AJ!Commit
<1>. QED
  BY <1>5, <1>7 DEF AJ!Next

LEMMA ApprovalRefines ==
    ASSUME AgentInv, ExactInv, NEW c \in Calls, RequestApproval(c)
    PROVE  ExactInv' /\ AJ!Next
<1>. DEFINE entry == Entry("not_started", 0, TRUE, journal[c].boundaries + 1)
<1>1. /\ AJ!Made(c) /\ dispatched[c] = journal[c].boundaries + 1
      /\ dispatched[c] \in Nat /\ journal[c].boundaries \in Nat
      /\ journal[c].result = 0 /\ journal[c].sound = TRUE
  BY CallWasMade DEF RequestApproval
<1>2. /\ entry.state = "not_started" /\ entry.boundaries = journal[c].boundaries + 1
      /\ entry.result = 0 /\ entry.sound = TRUE
  BY <1>1 DEF Entry
<1>3. journal' = [journal EXCEPT ![c] = entry] /\ dispatched' = dispatched
  BY DEF RequestApproval, PutEntry
<1>. HIDE DEF entry
<1>4. /\ journal'[c] = entry
      /\ \A d \in Calls \ {c} : journal'[d] = journal[d]
  BY <1>3 DEF AgentInv, AgentTypeOK
<1>5. ExactInv'
  <2>. SUFFICES ASSUME NEW d \in Calls PROVE Exact(d)'
    BY DEF ExactInv
  <2>1. CASE d = c
    BY <1>1, <1>2, <1>3, <1>4, <2>1 DEF Exact
  <2>2. CASE d # c
    BY <1>3, <1>4, <2>2 DEF Exact, ExactInv
  <2>. QED
    BY <2>1, <2>2
<1>6. JournalBecomes({c}, "not_started")
      /\ \A d \in {c} : journal'[d].result = journal[d].result /\ journal'[d].sound = journal[d].sound
  BY <1>1, <1>2, <1>3, <1>4 DEF JournalBecomes
<1>7. AJ!SetBack(c)
  <2>1. /\ AJ!Becomes({c}, "not_started")
        /\ UNCHANGED [d \in Calls |-> <<journal[d].result, journal[d].sound>>]
    BY <1>6, Reads
  <2>2. [d \in Calls |-> journal'[d].boundaries]
          = [[d \in Calls |-> journal[d].boundaries] EXCEPT ![c] = @ + 1]
    BY <1>2, <1>4
  <2>. QED
    BY <1>1, <1>3, <2>1, <2>2 DEF AJ!SetBack
<1>. QED
  BY <1>5, <1>7 DEF AJ!Next

LEMMA StepRefines ==
    ASSUME AgentInv, ExactInv, [AgentNext]_agentVars
    PROVE  ExactInv' /\ [AJ!Next]_AJ!vars
<1>1. ASSUME NEW r \in Runners, RunnerStep(r) PROVE ExactInv' /\ [AJ!Next]_AJ!vars
  <2>1. CASE Observe(r)
    BY <2>1, ObserveRefines
  <2>2. CASE Mark(r)
    BY <2>2, MarkRefines
  <2>3. ASSUME NEW turn \in 0..MaxTurns, Submit(r, turn) PROVE ExactInv' /\ [AJ!Next]_AJ!vars
    BY <2>3, QuietRefines DEF Submit
  <2>4. CASE Ensure(r) \/ Classify(r) \/ Abandon(r) \/ AskModel(r)
    BY <2>4, QuietRefines DEF Ensure, Classify, Abandon, AskModel
  <2>5. CASE Reject(r) \/ Stop(r) \/ Proceed(r) \/ Finish(r) \/ Die(r)
    BY <2>5, QuietRefines DEF Reject, Stop, Proceed, Finish, Die
  <2>. QED
    BY <1>1, <2>1, <2>2, <2>3, <2>4, <2>5 DEF RunnerStep
<1>2. ASSUME NEW c \in Calls, ToolStep(c) PROVE ExactInv' /\ [AJ!Next]_AJ!vars
  <2>1. CASE Lose(c)
    BY <2>1, QuietRefines DEF Lose
  <2>. QED
    BY <1>2, <2>1, ApprovalRefines, CommitRefines DEF ToolStep
<1>3. CASE UNCHANGED agentVars
  BY <1>3, QuietRefines DEF agentVars
<1>. QED
  BY <1>1, <1>2, <1>3 DEF AgentNext

LEMMA InitRefines == AgentInit => ExactInv /\ AJ!Init
<1>. SUFFICES ASSUME AgentInit PROVE ExactInv /\ AJ!Init
  OBVIOUS
<1>1. /\ Missing.state = "missing" /\ Missing.boundaries = 0 /\ Missing.result = 0
      /\ Missing.sound = TRUE
  BY DEF Missing, Entry
<1>2. \A c \in Calls : journal[c] = Missing /\ dispatched[c] = 0
  BY DEF AgentInit
<1>3. ExactInv
  BY <1>1, <1>2 DEF ExactInv, Exact
<1>4. AJ!Init
  <2>1. dispatched = [c \in Calls |-> 0]
    BY DEF AgentInit
  <2>2. [c \in Calls |-> journal[c].state] = [c \in Calls |-> "missing"]
    BY <1>1, <1>2
  <2>3. [c \in Calls |-> journal[c].boundaries] = [c \in Calls |-> 0]
    BY <1>1, <1>2
  <2>4. [c \in Calls |-> <<journal[c].result, journal[c].sound>>] = [c \in Calls |-> <<0, TRUE>>]
    BY <1>1, <1>2
  <2>. QED
    BY <2>1, <2>2, <2>3, <2>4 DEF AJ!Init
<1>. QED
  BY <1>3, <1>4

\* All processes together, however often the host submits the run, use the journal as it
\* promises: a call is sent once for each mark, an answer is recorded of a call that was
\* sent, and nothing changes an answer that is on record.
THEOREM JournalRefinement == AgentSpec => ImplementsJournal
<1>1. AgentInv /\ ExactInv /\ [AgentNext]_agentVars => ExactInv' /\ [AJ!Next]_AJ!vars
  BY StepRefines
<1>2. AgentSpec => []ExactInv
  BY <1>1, InitRefines, AgentInvHolds, PTL DEF AgentSpec
<1>. QED
  BY <1>1, <1>2, InitRefines, AgentInvHolds, PTL DEF AgentSpec, ImplementsJournal, AJ!Spec

-----------------------------------------------------------------------------
(* The services side by side                                               *)

\* Whatever service the initial state chose, the others stay as they began: of each of
\* them, and of the run-state store, what the combined run does is a behaviour.  So each
\* theorem about a service alone is one about the run that checks them together.
THEOREM ServicesApart ==
    ServicesSpec => Store!Spec /\ QueueSpec /\ ClientSpec /\ IdeaSpec /\ AgentSpec
<1>1. ServicesInit => Store!Init /\ QueueInit /\ ClientInit /\ IdeaInit /\ AgentInit
  BY DEF ServicesInit
<1>2. ASSUME [ServicesNext]_servicesVars
      PROVE  /\ [Store!Next]_(Store!vars) /\ [QueueNext]_queueVars
             /\ [ClientNext]_clientVars /\ [IdeaNext]_ideaVars /\ [AgentNext]_agentVars
  <2>1. UNCHANGED storeVars => UNCHANGED Store!vars
    BY DEF storeVars, Store!vars, Store!files, Store!locals
  <2>2. CASE UNCHANGED servicesVars
    BY <2>1, <2>2 DEF servicesVars
  <2>3. CASE ServicesNext
    BY <2>1, <2>3 DEF ServicesNext
  <2>. QED
    BY <1>2, <2>2, <2>3
<1>. QED
  BY <1>1, <1>2, PTL
     DEF ServicesSpec, Store!Spec, QueueSpec, ClientSpec, IdeaSpec, AgentSpec

\* Side by side, every service keeps its types.
THEOREM ServicesTypeCorrect == ServicesSpec => []ServicesTypeOK
<1>1. QueueTypeOK /\ ClientTypeOK /\ IdeaTypeOK /\ AgentTypeOK => ServicesTypeOK
  BY DEF ServicesTypeOK
<1>. QED
  BY <1>1, ServicesApart, QueueTypeCorrect, ClientTypeCorrect, IdeaTypeCorrect,
     AgentTypeCorrect, PTL
=============================================================================
