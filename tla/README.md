# Verification of Nullius

Nullius is an evidence-first harness for agent-assisted research: a project
directory holds a run state, an event ledger, plans, approvals and artifacts,
and several processes - CLI commands, MCP servers, native computation runners,
workflow drivers, a person with an editor - work on it. This directory holds
TLA+ modules of the parts that decide what runs, when, and how often; TLC
configurations that check them on small instances; and TLAPS proofs for every
value of their constants.

Paths below are relative to `packages/` of the repository.

## 1. Inventory

### Run-state store - `orchestrator/src/state-manager.ts`, `shared/src/ledger-lock.ts`

State: `.nullius/state.json`, `ledger.jsonl`, the rendered `plan.md`, the
`.pause` sentinel, the lock file `state.json.lock`; in each process the raw
bytes each state object was read from (`stateReadIdentities`).
Operations: `readState` (no lock), `saveState`, `saveStateWithLedger` (plain,
or guarded with rollback), `appendLedger`. The writers take the `O_EXCL` lock
with a bounded number of attempts and compare the snapshot with the file.
Hard: writers that read before they lock, crashes between any two file
operations, leaked lock files that only a person removes, rollback of one
failing step. Correct when: never two writers inside; nobody overwrites what
he has not read; every visible state has its event; a guarded publication
happens entirely or not at all; every job ends.

### Run lifecycle and approvals - `state-manager.ts`, `cli-run.ts`, `cli-workflow-plan.ts`, `orch-tools/*`, `computation/*`

State: `run_status` with its transition table, `paused_from_status`,
`pending_approval`, `approval_seq`, `gate_satisfied`, `approval_history`, the
sentinels, the native execution status. Operations: create, start, plan,
request (A3 before a computation, A5 before final conclusions), approve,
reject, pause, resume (`--force`), the native runner's admission, pause,
failure and guarded completion, timeout and budget enforcement.
They interact through the store only; several write `run_status` verbatim,
past the transition table. Hard: long sequences of legal calls (pause while
awaiting, plans over finished runs, resets) and races with a running native
computation. Correct when: an id is decided once; a gate is satisfied by an
approval of its own; nothing runs over an undecided approval; what waits can
be decided; a paused native computation is not continued in place.

### Workflow driver and tool-attempt journal - `cli-run.ts`, `run-manifest.ts`, `workflow-runtime.ts`

State: the plan's steps, `current_step`, and per step an attempt in
`artifacts/runs/<id>/manifest.json`: missing, `not_started`,
`outcome_unknown` or committed with its answer, and the approval boundaries it
passed. `nullius run` selects the next ready step, records the intent, marks
it dispatched, calls an MCP tool, commits the answer and projects it into the
plan. Hard: nothing keeps two drivers apart; answers get lost; drivers die
anywhere; approvals and pauses arrive while a tool works. Correct when: no
attempt is dispatched twice without an approval in between; a committed answer
is final and reaches the plan; nothing counts as done without evidence; a hold
stands until the operator lifts it; every driver ends.

### Project MCP delivery - `project-mcp/src/{delivery,execution-lock,supervisor,worker,adapter,files}.ts`

State: the project lock `.nullius/project_mcp_execution.lock`, a journal of
its own (one attempt per delivery id), a request and a response file, and per
delivery a detached supervisor with its worker. Operations: submit (look, lock,
look again, observe, mark, spawn), read, foreground sampling and uploads under
the same lock, the supervisor's deadline, commit and release, the worker's
execution. Hard: clients that reconnect and submit again while the first call
is still under way; the server, the supervisor or the worker dying anywhere; a
deadline that meets a late exit; a lock that passes from the call to the
supervisor and is released by path. Correct when: a delivery executes at most
once; a committed response is genuine; writers exclude each other; an unknown
outcome keeps the project locked until a person has looked.

### Fleet queue - `orchestrator/src/orch-tools/fleet-*.ts`

State: `.nullius/fleet_queue.json` (items: queued, claimed with owner and
lease, or closed) and `.nullius/fleet_workers.json` (workers: slots, whether
they accept claims). Operations: enqueue, claim, release, adjudicate a stale
claim, reassign; heartbeat, claim acceptance, unregister; and the poll, which
writes a heartbeat, renews the worker's own leases, releases expired ones and
claims the next item. Every server started on the project may serve any of
them; the files are replaced whole, and no lock is taken. Hard: two servers
between whose reads and writes the other writes; requests that read the two
files in different orders; leases that run out while their worker polls.
Correct when: a run has one active item; a poll takes no lease that still
runs; slots are not exceeded; an expired lease gives its item back.

### MCP client - `orchestrator/src/mcp-client.ts`, `mcp-jsonrpc.ts`

State: the server process, requests in flight, the reconnect timer, the
termination of the process group, a home directory to be removed. Operations:
start, call, close, and the handlers of answers, timeouts, pipe errors, exits
and the timer. Hard: everything asynchronous meets everything else - `close()`
during a reconnect, a late answer of a dead server, a second failure during the
termination. Correct when: one server group lives at a time; connected means
ready; an answer reaches only who asked; a stopped client lets go of everything.

### idea-engine store - `idea-engine/src/{store,service}`

State per campaign: the lock file, idempotency records (prepared, committed),
the archived packs, the node file and its log, the campaign with its budget.
Operations: requests with an idempotency key, here `node.import_generated` and
`campaign.topup / pause / resume / complete`, each of several file writes; a
retry replays, completes, or starts over. Hard: processes that die between two
writes, other requests before the retry, locks of dead holders. Correct when:
at most one process is inside; a burst is imported once and completely; the
budget is changed once per request.

### Delegated agent runner - `orchestrator/src/agent-runner*.ts`, `research-loop/delegated-agent-runtime.ts`, `tool-approval-envelope.ts`

State: the `manifest.json` of the delegated run, with one attempt per tool use;
the transcript, which may end in a turn whose tools are unanswered; one lane
per run in each process. Operations: submit a run, record a turn's intents,
classify them, mark a group dispatched, call its tools (read-only neighbours in
parallel, others alone), commit answers or set back an attempt at an approval
boundary, go on to the next group, ask the model. Hard: one classification is
acted on over a whole turn; processes share a journal but not a lane; a group
that fails leaves sibling calls in flight; a host submits again whenever it
likes. Correct when: a tool is called once, and once more per approval; groups
keep their order over all invocations; only what is on record is reported.

### Not modelled

| Part | Sources | Why |
| --- | --- | --- |
| Team execution | `orchestrator/src/team-*.ts` | in memory, one synchronous step at a time; checkpoints are whole copies |
| Operator read models | `orchestrator/src/operator-read-model-summary.ts`, `orch-tools/run-read-model.ts` | they derive views and write nothing |
| Decisions and validity ledgers | `orchestrator/src/{decisions,validity}-ledger.ts` | parsers and folds over records: algorithms on large data, without a state of their own |
| Rate limiting, retry, cache | `shared/src/utils/`, the providers' limiters | waiting times of one process; nothing but pace depends on them |
| Data providers | `arxiv-mcp`, `hep-mcp`, `openalex-mcp`, `zotero-mcp`, `pdg-mcp`, `hepdata-mcp` | stateless clients of network services, most of the repository's lines: parsing, formatting, extraction |
| The rest | `literature-workflows`, `project-contracts`, `rep-sdk`, `skills-market`, scaffolds, help texts, exports | data, schemas, packaging, wording |

Of the modelled parts, PROJECT.json says of each what is left out.

## 2. Modules

| Module | What it is |
| --- | --- |
| `StateStore` | the store, one file operation per action |
| `AtomicStore` | what the store promises: a compare-and-set register beside a history |
| `StateStoreRefinement` | the mapping under which the first implements the second |
| `AttemptJournal` | what the tool-attempt journal promises whoever calls tools: one call for each mark, one outcome of a call that was made |
| `LeasedQueue` | what the fleet promises its workers: a queue that changes by one request at a time, until an update is lost |
| `ServerSession` | what an MCP client promises its caller: a session with one server at a time |
| `CampaignStore` | what the idea engine promises who sends it keyed requests: a campaign that changes by one of them at a time |
| `RunLifecycle` | the run's status machine, one entry point per action |
| `WorkflowRun` | drivers, journal, tools and operator of one workflow run |
| `ProjectDelivery` | calls, project lock, supervisors and workers of the project MCP server |
| `FleetQueue` | the handlers of queue and worker registry, on several servers |
| `McpClient` | a client, its server processes and the wire between them |
| `IdeaCampaign` | requests, records, files and the lock of one campaign |
| `AgentRunner` | invocations of a delegated run, its journal and its tools |
| `MCStateStore`, `MCRunLifecycle`, `MCWorkflowRun`, `MCProjectDelivery`, `MCServices`, `MCIdeaCampaign` | instances for TLC |
| `StateStoreProofs`, `RunLifecycleProofs`, `WorkflowRunProofs`, `ProjectDeliveryProofs`, `FleetQueueProofs`, `McpClientProofs`, `IdeaCampaignProofs`, `AgentRunnerProofs` | the theorems |

They compose by abstraction. `StateStore` justifies that `RunLifecycle` and
`WorkflowRun` take a handler's read and its compare-and-set write of
`state.json` as one atomic step: by `NoLostUpdate` the write happens on the
state that was read or not at all. `RunLifecycle` has all entry points and only
the driver's effects on the status; `WorkflowRun` has all of the driver and the
operator's entry points that matter to it. `ProjectDelivery` stands beside
them: its journal is a directory of its own, and what a delivery executes may
be any of the handlers above. `McpClient` is the connection `WorkflowRun`'s
tool calls go over: its `Lose` is the client's timeout, after which, by
`AnswerReachesAsker` and `StopReleasesEverything`, the caller hears no more.
`AgentRunner` uses the same journal operations as `WorkflowRun`, for groups of
attempts in the manifest of a run of its own. What the three users of
`run-manifest.ts` owe it is stated once, in `AttemptJournal`: its operations
`Observe`, `Mark`, `Commit`, `SetBack` are those of `RunManifestManager` (357-469),
beside a count of the calls really made. `WorkflowRun`, `ProjectDelivery` and
`AgentRunner` each implement it (`ImplementsJournal`), with a step, a delivery or
a call of a turn as the key; a call is made by the driver after its mark, by the
worker two processes later, or together with the mark of its group. `FleetQueue`, `IdeaCampaign` and
`AgentRunner` share no state with the others; `MCServices` puts them into one
run beside `McpClient` and the store, each for itself (`ServicesApart`, proved:
what the run does with each is a behaviour of it alone).

Each service implements an abstract specification that has none of its
machinery. `LeasedQueue` has the variables of `FleetQueue` without the handlers
and their snapshots: a request is one step, a poll included, which writes two
files one after the other. `torn` is `overlapped`: from the first write of a
stale snapshot on only one active item per run is promised. `ServerSession` has no
phases, timers or terminations: `open` is the server a call goes to, `asked` the
pending requests, `running` the process groups that are not drained.
`CampaignStore` has no lock, processes or recovery: a request is not begun,
prepared, or committed, and `packed`, `imported`, `logged` are what its key has on
disk, whichever execution drew the ids. The mappings stand at the end of the
detailed modules (`ImplementsLeasedQueue`, `ImplementsSession`,
`ImplementsCampaignStore`).

Operators whose names contain an underscore and a verb (`Acquire_NotExclusive`)
are mutants: plausible mistakes in the code, each defined beside the operator
it would replace, each of which breaks one property.

### `StateStore`

`file`, `ledger`, `planMd`, `pause` and `locked` are the five files. A process
is at a label `pc[p]` of the write job it runs; `snap[p]` is its read identity,
`saved[p]` the control files a guarded job captured. A job is a record: method
(`silent` is `saveState`, `event` and `guarded` are `saveStateWithLedger`,
`note` is `appendLedger`), new content, number of additional events and what
happens to the sentinel. The actions follow the code from `Acquire` to
`Unlock`; `Throw` is an error at any step that can throw, followed by the
rollback `UndoPlan`, `UndoState`, `UndoLedger`, `UndoHook` of a guarded job,
each step of which may itself throw (`UndoFails`: "manual reconciliation
required", and what is not restored stays). `sent[p]` counts the events of the
job in the ledger, which a rollback takes back together; `Crash` leaves the lock file in place; `RepairLock` is the person who removes
it, as the error message asks, "only while quiescent". Contents are opaque
values; equal values are equal bytes. That covers the ABA case: a file changed
and changed back compares as fresh. Fsync and the atomicity of `rename` are
taken from the operating system. `quiet` is a history variable: the contents
`saveState` published without an event, which the coverage property must
exempt.

### `RunLifecycle`

The variables are the fields of `RunState` with the same meaning; approval ids
are records of gate and number. An action is a whole handler, guard and early
returns included. `native`, `stopped` and `live` stand for
`artifacts.native_execution_status`, the runs whose `execution_status.json`
says paused, and the runner process. `enforced` tells whether the deployment
calls `enforceApprovalTimeout` and `enforceApprovalBudget`: they are public, no
production entry point calls them, and two properties hold only without them.
`gateRun` is a history variable. `driver` is where the workflow drivers stand as
far as the status is concerned: a driver that has projected a step and found the
rest of the plan blocked (`FindBlocked`) reads the state again and writes
`failed` without looking at it (`FailBlocked`, `cli-run.ts` 862-866 and 948-952),
whatever run is there by then; every other end of a run (`EndWorkflow`) looks at
the control status in the same read. `overwritten` is history: that write has gone
over a pause or a pending approval that is still in the state. The approval
packets (what an id is bound to)
are abstracted: `RequestA3` may find its packet matching or not.

### `WorkflowRun`

A driver's labels are the points of `runWorkflowCommand` between which another
process can act. `params` is the input the plan gives each step, `input[d]` what
a driver took when it selected its step: a new plan may change it, the journal
keeps the one it was recorded with, and `Classify` and `Observe` throw where they
differ (`Conflict`), which fails the step whatever is on record. `Commit` is the
commit and the closing of the connection after it: where `client.close()` throws,
the answer is committed and yet the step goes on as after a failed call.
`spoiled` is history: the steps whose last execution met one of the two.
`Controlled`, `Control` and `WriteStatus` are
`workflowControlStatus`: a driver that finds a sentinel turns it into a status
and then leaves the status alone. The journal's operations `Observe`, `Mark`,
`Committed`, `Reset` and the classification are atomic under the manifest's own
lock; `JournalFails` is that lock, or the tool server, not being available.
The tool is external: it answers, or requests an approval (as
`orch_run_execute_manifest` does through `ensureA3Approval`), or works on after
its caller is gone (`Lose`, `Die`). `was` is the status the step had when it
was selected, which `missing_durable_intent` depends on. `Die` is also the exit
of a driver whose write was refused as stale.

### `ProjectDelivery`

A call is a connection's request in progress, in any server process; the labels
of `pc` are the file operations of `acquireExecution` and `releaseExecution` and
the journal operations of `submitDelivery`. `owner` is the name the call locks
under: the delivery id, or a name of its own for sampling and uploads. `lock` is
the owner in the lock file, `Blank` between its creation and its first write;
`maker`, the call that created it, is a history variable, as are `runs`
(executions of each delivery), `reconciled` (locks a person has removed) and
`stolen` (a call has removed a lock of another's). `why` tells the release of a
replay, which the catch clause repeats when it fails, from the others. A slot is
a supervisor with its worker: they are detached and die independently, so that
a worker may outlive its supervisor. `late` is `timedOut`. `Reconcile` is the
operator, who removes a lock once all writers have stopped, as the README of the
package demands. Left out: reads and calls answered from the journal (they
change nothing), the binding of paths and identities, and descendants a killed
worker has detached, which that README excludes.

### `FleetQueue`

A handler of a server has no `await`, so it is cut only where it touches a
file: `op[s]` is the handler a server is in with the snapshots it has read;
`Begin` and `ReadSecond` read, `WriteQueue` and `WriteRegistry` replace a file
whole, and everything between is part of the write's action. The arguments of a
request are chosen where they are first used. `GiveUp` is every refusal. `fresh`
and `overlapped` are history: whether the snapshots are still what the files
hold, and whether anybody has written from one that was not. Priorities, notes
and claim ids are left out (section 6 says what claim ids do not check).

### `McpClient`

One JavaScript thread, so a handler is a function of the record `client`, and an
action runs it with the continuations it resolves. `phase` is where `start()`
or the reconnect timer waits; `terminating` and `cleanup` are
`terminationPromise` and who awaits it to remove the home. `pending` maps an id
to the server its request went to; the code keeps only the id. `group` and
`reported` are the servers: alive, exited with descendants left, drained.
`start()` is called once, as its only caller in the repository does
(`withWorkflowToolCaller`, `workflow-runtime.ts` 454-463, which makes a client
for each use). The code's guard (`mcp-client.ts`, 351) asks only for no process and
a client neither unusable nor closed, so that it would accept a second `start()`
in the delay after a failed reconnect; that is not modelled. Sampling requests of
a server and permission views are left out.

### `IdeaCampaign`

A request runs `withLock` (`Open`, `FindStale`, `RemoveStale`, `Reopen`), looks
up its record (`Replay`, `Refuse`, `Prepare...`, `Recover...`) and does one
write per step. `Crash` leaves the lock naming a dead process, `WriteFails`
releases it. A burst is named by key and execution (`Mints`): an execution that
starts over draws new node ids only if the old ones are on disk. `lockFile` names a
process, so that "the lock of a dead holder" is decided as the code decides it,
by the pid. The model ends where a reclamation removes a live process's lock
(`raced`).

### `AgentRunner`

A call is a slot of a turn; every turn has the same slots and groups. `manifest`
says that the journal exists, `journal` is its attempts, `said` the turns there
have been. `runner[r]` is the invocation of a process: the stage it is at, its
turn and group, whether it created the journal (`first`), and `view`, its one
classification of the turn, overwritten by the outcomes it has heard. Stages are
the points of the runner between which other processes act: `Ensure`, `Observe`,
`Classify`, `Mark` (all attempts of a group or none, under the manifest's lock)
and the wait for the group. The answer of a tool (`CommitAnswer`,
`RequestApproval`, `Lose`) is an action of its own, because it is recorded
whether or not its invocation still waits; `calling` names the process it comes
back to. `sound` tells an answer from an approval envelope that is malformed or
for another run. `dispatched` and `told` are history; `told` gains a group's
answers when the group is done, although the code reports them at the end of the
turn: the properties then cover also what a later group's failure withholds.
Where a tool asks for an approval the host is also told the envelope it came in,
which is not committed (`agent-runner-ops.ts`, 281). The call is to be made again
after the approval, the envelope is no answer of it, and the model does not see
it: `told` leaves it out, and `ReplayExact` does not speak of it.
`Abandon` and `Finish` are the ends of an invocation that depend on permissions,
errors, and what the model says. Left out: the conversation (compaction,
truncation, low gain) and the permission rules.

## 3. Runs

| Run | Instance | Shows |
| --- | --- | --- |
| `state_store` | 2 processes, 2 jobs each out of 6, 2 lock attempts, symmetry | safety of the store and the refinement of `AtomicStore` (1.0 M states) |
| `run_lifecycle` | 2 runs, 2 approvals requested in all, budget 2, symmetry | the invariants of approvals, pause and resume (2.6 M states) |
| `workflow_two_drivers` | 2 concurrent drivers, a chain of 2 steps and one that waits for a step the plan does not have, 1 approval, 1 operator edit, 1 new plan that may change the first step's input, symmetry | the refinement of `AttemptJournal` (at-most-once dispatch, committed answers final), and that holds stand (4.0 M states) |
| `workflow_sequential` | one driver at a time (two in turn), 3 steps, the others after the first, with the degrade modes failed, skipped, partial, 2 approvals, 1 operator edit, 1 new plan that may change the first step's input | plan against journal over restarts, and termination (0.9 M states) |
| `project_delivery` | 3 calls, all for one delivery or in the foreground, 2 supervisors | the refinement of `AttemptJournal` (at-most-once execution), genuine responses, the lock while none is stolen, and termination (81 k states) |
| `services` | one of: the store, one job of each process out of 6; the fleet, 2 servers, 2 workers with one slot, 2 items, leases of one tick; the client, 2 reconnects, 2 calls; a campaign, 2 processes, 2 bursts and a top-up, 2 faults; a delegated run, 2 processes, a turn of three tools in two groups, 1 approval | the liveness of the store; safety and liveness of the fleet and the client; the safety of campaigns and of delegated runs; the refinements of `LeasedQueue`, `ServerSession`, `CampaignStore` and `AttemptJournal` (0.33 M states) |
| `gate_of_other_run`, `pending_wedged`, `workflow_approval`, `workflow_failed`, `delivery_stolen_lock`, `idea_topup_repeated` | the smallest instance that shows it | one finding each (section 6) |

Why the bounds are enough. Two processes show every pairwise race, and the lock
makes three no different; two jobs each let a process act on a snapshot that
its own or the other's earlier job made stale. The six jobs are the
combinations of method, sentinel, additional events and plan that callers use.
Two runs let a run be replaced and come back. Two approvals are two A3 requests,
one of which replaces the other, or an A3 and an A5; after that one more behaves
the same. The steps of `workflow_sequential` after the first depend on it alone,
so that a skipped, failed or replaced first step meets two that are open, of
which either may be the last. In `workflow_two_drivers` the last step depends on
one that is not in the plan: `resolveWorkflowRecipe` selects the steps of a phase
and leaves their dependencies as they are (`literature-workflows/src/resolver.ts`,
109-123), and a test runs such a plan (`cli-run-workflow.test.ts`, 407). So a
driver finds the rest of its plan blocked after each chain, and its report
(`ReportBlocked`) meets pauses, requests and the other driver. One step with a changed input (`Changing`) shows
what a conflict does to its own step and to those that follow; another step's
would be the same again. `MaxEdits = 1` lets a pause, a resume or a
sentinel edit fall anywhere; a pause with its resume comes from the other
entry points (reject pauses). `MaxActive` keeps `workflow_sequential` to one driver at
a time: what it checks does not hold for two (section 6). Three calls of one
delivery are what a stolen lock takes: one that settles the delivery, one that
releases twice, one whose lock it reads; and a crashed or foreground call can
use any of the three. A second supervisor is there to be started if anything
dispatched the delivery twice.

For `services` the initial state chooses a part and the others stay as they
began: its behaviours are those of the five parts, each with the fairness its
module justifies. Two servers, one of them entering once while the other is
inside a handler, are one stale snapshot, written back late; a third repeats
it. With one slot per worker, two items and two workers, a reassignment and a
poll compete for the last slot, and each worker may hold what the other wants;
one tick is the difference between a lease that runs and one that has expired.
Two reconnects let a server's late answer meet its successor and the limit be
reached. Two bursts of two nodes fill the budget of two, so that an import
completed late finds the other's nodes; two faults are a crash and one in its
recovery. One turn is enough for a delegated run, because turns have different
calls and share only the process; its first group is a tool that may request
an approval, its second two tools in parallel, so that a group can be waited
for, be half answered, or fail with a sibling in flight.

Deadlock is checked in the runs of the store, the lifecycle, the workflow and
the delivery. It is not in `services` and `idea_topup_repeated`, where parts
come to their end: items and time run out, a client is closed, a campaign
ends with `raced`.

## 4. Fairness

`StateStore`: weak fairness of `Step(p)`, the next file operation of a started
job - one synchronous call of a live process. Nobody has to start a job, crash
or repair the lock, so `JobsEnd` also says that writers behind a leaked lock
give up. `WorkflowRun`: weak fairness of `Step(d)`, which contains the
driver's own steps and `Lose`, because a request to a tool server has a timeout
(`mcp-client.ts`, `request`); tools need not answer and operators need not act.
`ProjectDelivery`: weak fairness of a call's steps, which are synchronous, and of
a supervisor's own (`Timeout`, `Reap`, commit and release), because it has a timer
and hears of its worker's end; workers may hang for ever, and nobody has to call,
to finish a foreground call, to reconcile or to die. A supervisor's death
(`SupervisorDies`) is possible and not fair, so that `CallsEnd` rests on the timer
that kills a hanging worker: a deadline that kills nobody violates it.
`FleetQueue`, for `ExpiredLeaseEnds`: every handler ends - it is synchronous and
has at most three steps, of which one can always be taken, so this is weak
fairness of them - and strong fairness of `PollBegin`, which says that workers go
on polling whatever else the servers are asked in between. `McpClient`, for
`StopReleasesEverything`: weak fairness of the signals (SIGTERM, then SIGKILL),
of the end of a termination, of the report of an exit and of the reconnect
timer. Requests need not time out and servers need not answer. `IdeaCampaign`
states no liveness: nobody has to retry. Nor does `AgentRunner`: nobody has to
submit a run again, and tools need not answer.

## 5. Proofs

`StateStoreProofs`, for any processes, contents, jobs and attempts:

1. `TypeCorrect`, by one case per action.
2. `MutualExclusionHolds`. `MutualExclusion` alone is not inductive: that the
   lock file is there while somebody is inside (`InsideLocked`) has to be part
   of it, because `Acquire` looks at the file and not at the processes.
3. `LedgerCoversHolds` and `NoLostUpdateHolds`, which also says that a write adds
   its event to the ledger only on a fresh snapshot (`FreshEvent`; a rollback only
   shortens the ledger, `TakenBack`). The inductive invariant
   `StoreInv` adds what the writer inside knows (`Knows`): its snapshot is
   current until it publishes; before the rename its event is in the ledger;
   what it captured is what its snapshot says, was covered by the captured
   ledger, and that ledger's events are still there; before the ledger is put
   back the state has been. A step inside leaves the others outside
   (`OthersOutside`, from mutual exclusion), so each step is looked at for its
   own process only, and a process outside has nothing to know.
4. `GuardedAllOrNothingHolds`, also for a rollback that cannot write (it reports
   `broken`, never `conflict`), by `Restores`: at every label of a job that captured
   the control files, how they differ from what it captured. So each step of the
   rollback finds the captured file or what the job itself put there; nobody else
   writes in between, because the lock is held until the rollback has ended.
5. `Refinement`: `Spec => ImplementsAtomicStore`. The register's `turn` is who is
   inside; a step inside is a step of the register's one attempt
   (`InsideStepRefines`) and a step outside opens, closes or leaves it
   (`OutsideStepRefines`). The register remembers what its attempt under way has
   added to the history and which state it has replaced (`added`, `over`), and lets
   it put back only that state, over the one it announced last, and cut only those
   events; the mapping computes both from the label, the captured files and the
   events sent (`StateStoreRefinement`). That a publication finds the state its
   caller read and follows its own event is `Knows`; that a rollback finds what the
   attempt published, and at the end of the ledger the attempt's own events, is
   `Restores`.

`RunLifecycleProofs`, for any runs, numbers of requests and budget: type
correctness and all five properties of the run. `GateBacked` is inductive as it
stands (with the types); `DecidedOnce` needs that no number exceeds `approval_seq`
(`Numbered`); `NothingRunsWhilePending`, that a run left idle with its approval
pending is one a workflow plan has put there (`IdleKeepsPlan`), so that nobody
starts it without looking at the approval; `WaitingHasApproval`, that a saved
`awaiting_approval` still has its approval (`SavedHasApproval`), also after a
driver's report has been written over the pause. That a stopped computation never
runs again in place, the second half of `NativePauseIsFinal`, needs that its run
is paused or was ended by such a report (`StoppedStays`); the first half follows
from the actions alone.

`WorkflowRunProofs`, for any drivers, plans, dependencies, degrade modes and
bounds:

1. `TypeCorrect`. `TypeOK` is not inductive: that a driver in the middle of a
   step is at a step of the plan, and has a result when it comes to project it
   (`Placed`), is part of the invariant. That the loop has a step to select
   rests on every set of steps having a first one (`FirstStep`, from the
   library's well-foundedness of the naturals).
2. `AtMostOnceDispatchHolds`. A driver owns an attempt from its mark until it
   commits it, sets it back or lets go of it. The inductive invariant
   (`DispatchInv`) says that an owned attempt is `outcome_unknown`, so that
   nobody else can mark it; that it has one owner; and that an attempt which
   may still be marked, or was and is not called yet, has a call to spare. An
   owner's step concerns its own attempt (`OwnerStep`), a mark finds an attempt
   nobody owns (`MarkStep`), and every other step takes none (`OwnershipKept`).
3. `CommittedIsFinalHolds` and `HoldsStandHolds` follow from the actions: no
   operation of the journal starts from a committed attempt, and a driver that
   finds the run held writes a status that holds it (`HoldKept`).
4. `JournalRefinement`. `DispatchInv` bounds the calls; to map every step, the
   bound has to be exact where it decides (`AccountInv`): who owns an attempt
   knows whether its call was made, and an attempt that may be marked was called
   once for each boundary. Of an unknown outcome nobody owns, neither is known,
   and no step needs it.
5. `PlanMatchesJournalHolds`, `ApprovalKeepsStepUnfinishedHolds` and
   `RedispatchApprovedHolds`, from `MaxActive <= 1`: at any time one driver, over
   time any number, each finding what the last one left. The hypothesis is
   needed: with two at once all three fail (section 6). None of them is inductive.
   `OneInv` adds that a driver is alone (`Alone`); that approval numbers are drawn
   in order, so that none is decided before it is asked for, and the pending one is
   not decided (`Numbered`); that the step in progress is the one the loop
   would select again (`OneCurrent`), which is why `syncPlanCurrentStep` finds
   nothing else to complete; that a step's tool is called, or its attempt has an
   answer, only past an approved boundary (`Past`); and, for each label, what the
   driver has established by then about its step, attempt and answer (`Fits`); a
   result agrees with the journal, or is that of a step whose answer could not be
   used (`Matches`). Only a conflict (`ConflictStep`) and a close that fails after
   the commit (`OwnerOne`) put a step among these, and selecting it again takes it
   out (`LoopStep`).

`ProjectDeliveryProofs`, for any calls, ids and supervisors:

1. `TypeCorrect`, with `Placed`: what follows the first look is done for a
   delivery, and a supervisor has one.
2. `ExecutedAtMostOnceHolds`. The journal alone says too little: the invariant
   `OnceInv` counts what may still execute a delivery - the call about to spawn
   and the one slot - and says that either exists only after the attempt is
   settled. Three steps concern it (`MarkOnce`, `SpawnOnce`, `WorkOnce`), all
   others take nothing (`NothingTaken`).
3. `CommittedIsGenuineHolds`, because a supervisor with an answer is past the
   deadline's reach.
4. `SerializedUnlessStolenHolds` and `UnknownKeepsLockHolds`. While nothing is
   stolen, the lock belongs to the call between creating and releasing it
   (`HoldersMadeIt`) or is kept for exactly one supervisor, worker or unknown
   outcome, with no call left that could remove it (`KeepersHaveIt`); a
   supervisor releases only when its worker is gone and its answer committed
   (`SupervisorsLast`).
5. `JournalRefinement`. The journal's call is the worker's first step; that its
   attempt is marked, not committed, and not yet executed is `OnceInv` with
   `GenuineInv`. A commit is of an executed delivery because of a worker that has
   begun the delivery was executed (`BegunInv`).

`FleetQueueProofs`, for any servers, workers, items, slots and leases:

1. `QueueTypeCorrect` and `OneActiveItemPerRunHolds`, by `QueueInv`: what holds
   of the queue holds of every snapshot too (`Sound`), because any snapshot may
   become the file, changed in the way its handler checked against itself.
2. `LeaseHonouredHolds` and `GrantsCoveredHolds`. `Current` says what `fresh`
   means: whatever a fresh handler has read, or a poll has written halfway, is
   what the files hold. A write by one server ends the freshness of the others
   that have read the file (`WriteQueueKeeps`, `WriteRegistryKeeps`), so what a
   fresh handler has checked on its snapshots holds of the files. The arithmetic
   of slots is in `LoadGrant` and `GrantFits`.
3. `QueueRefinement`: `QueueSpec => ImplementsLeasedQueue`. A write by a fresh
   handler finds the files as its snapshots have them, so that it is the step of
   the abstract queue the handler computed; a stale one is `Tear`, and that the
   queue it writes still has one active item per run is `Sound`. A poll maps its
   first write to a worker that joins or stays and its second to `Poll`, at the
   time it began. Two facts are new: items beyond the last one enqueued are in
   nobody's copy (`UnbornInv`), so that an enqueue finds its item absent; and a poll
   half done has registered its worker (`JoinedInv`).

`McpClientProofs`, for any numbers of reconnects and calls:

1. `ClientTypeCorrect`. The counters stay in their ranges only because an id is
   drawn for each launch and call and both are limited, and because the timer
   is armed only below the limit (`Base`).
2. `ConnectedToOnlyServerHolds`. The invariant `Settled` says for each phase
   who may be connecting and what is being terminated; `World`, that servers
   before the current one are drained, because a launch waits for the drain.
3. `AnswerReachesAskerHolds`, by `Messages`: what a server holds or has answered
   carries an id below `nextId`, drawn for that very server, so that a pending
   id names the server whose answer it will take.
4. `SessionRefinement`: `ClientSpec => ImplementsSession`. Every handler is a
   step of the session or none, with all the methods it runs: a lost server
   rejects every request at once (`Lose`), a launch finds nothing pending and
   nothing running (`Launch`). `ClientInv` does not say who may be waiting;
   `Outstanding` adds it: while a handshake is under way only its own request is
   pending, and before the first start, in the delay and while a group drains
   none is.
   That a stopped client stays stopped is shown method by method
   (`TerminateStops` to `HandshakeStops`).

`IdeaCampaignProofs`, for any processes, keys, bursts and budgets:

1. `IdeaTypeCorrect` and `CampaignLockedHolds` (`Locked`: who is inside is named
   in the file until the race).
2. `BurstImportedOnceHolds` and `CommittedImportCompleteHolds`. `Disk` says that
   what landed of a burst belongs to the execution its key's record names, and
   that nodes come after their pack; `Usage`, that the counter lags behind the
   nodes only while an import is half done; `Stage`, what a process has done
   before each label. A step of the process inside leaves the others outside,
   in the store.
3. `CampaignRefinement`: `IdeaSpec => ImplementsCampaignStore`. Each write is a
   step of one key. What a process computed when it prepared its request has to
   hold still when it writes: `ForeseenInv` says that a new import, unlike one
   that is recovered, finds the campaign running up to its last write, and that
   any other request finds it as it was when its outcome was foreseen, which only
   the lock ensures. That a key has one burst on disk
   (`LandedKeys`) makes the number of nodes a number of keys (`SizeIsCount`).

`AgentRunnerProofs`, for any processes, slots, groups, turns and approvals:
type correctness and the three properties, by one invariant (`AgentInv`).
`CalledOnce` needs that an attempt which may still be marked has a call to spare
(`Counted`). `TurnInOrder` and `ReplayExact` need that a committed answer in a
view is the one on record (`Remembers`), and that an invocation has come to its
group over sound answers only (`CameOver`). Other processes cannot spoil either,
because no step changes a committed entry (`Kept`); so a step is looked at for
its own process, and the others only have to remember. `JournalRefinement` needs
the counts to be exact (`ExactInv`): mark and call are one step here, so that the
state of an attempt tells how often its call was sent.

The module ends with the services side by side. `ServicesApart`: a step of
`ServicesSpec` is for each service, and for the store, one of its own or none; so
the theorems above hold of the run `services`, `ServicesTypeCorrect` among them.

Assumptions: those of the modules (`ContentAssumption`, `JobsAssumption`,
`LifecycleAssumption`, `WorkflowAssumption`, `DeliveryAssumption`,
`FleetAssumption`, `NobodyAssumption`, `ClientAssumption`, `IdeaAssumption`,
`AgentAssumption`), which say that markers such as `Absent` and `None` are not
values and that parameters have their types; the last also that a tool which may
request an approval has a group of its own, because it is not read-only. The three
theorems about one driver at a time assume `MaxActive <= 1` besides.

Only model-checked: the liveness properties `JobsEnd`, `DriversEnd`, `CallsEnd`,
`ExpiredLeaseEnds` and `StopReleasesEverything`, because TLAPS does no liveness.
Every invariant, every action property and every refinement a passing run checks
is a theorem. Some theorems are in no run, because a refinement a run checks
implies them: `AtMostOnceDispatch`, `ExecutedAtMostOnce`, `CalledOnce` and
`CommittedIsFinal` (`ImplementsJournal`), `GrantsCovered` (`ImplementsLeasedQueue`),
`AnswerReachesAsker` (`ImplementsSession`), and `CommittedImportComplete`
(`ImplementsCampaignStore` with `BurstImportedOnce`).

## 6. Findings and known limits

Six runs end in a violation of what the repository says of itself; PROJECT.json
quotes the lines.

* `gate_of_other_run`: a workflow plan over a finished run leaves the old run's
  gates satisfied for the new one.
* `pending_wedged`: a run paused while it awaits an approval can be neither
  resumed (the approval is pending) nor decided (it does not await approval).
* `workflow_approval`: with two drivers, an attempt set back at an approval
  boundary is dispatched again by the driver that checked the gate before.
* `workflow_failed`: a rerun after a failed step completes the run when another
  step was still open.
* `delivery_stolen_lock`: connections that submit the same delivery share the
  name they lock under, and a release reads the holder before it unlinks by
  path; a release repeated after an error can remove a third party's lock.
* `idea_topup_repeated`: whether a half-done top-up has landed is read off the
  campaign's status and budget; a pause between the crash and the retry makes it
  look as if it had not, and it is added again.

With two drivers at once, two properties of `workflow_sequential` fail too; no
line of the repository promises them for that case, so they are noted here:

* `PlanMatchesJournal`, for a completed step that should have its answer: when a
  driver whose step failed late lets the other start the next step,
  `syncPlanCurrentStep` marks the step still in progress completed, without one.
* `PlanMatchesJournal`, for an answer that should reach the plan, and
  `ApprovalKeepsStepUnfinished`: the driver that loses the race for the mark
  projects its own failed call; if the winner commits, or passes the approval
  boundary, between the loser's mark and its last look at the journal, the step
  is failed or skipped although it has its answer.

Also true of one driver: an approval granted between the tool's request and the
driver's look at the answer leaves "no matching canonical pending approval",
which is committed as evidence and fails the step for good. A committed good
answer does not reach the plan where `client.close()` throws after the commit, or
where a new plan gave the step another input (`run-manifest.ts`, 141-152): the
step fails, and the answer is replayed only after a new plan that gives the step
the recorded input. And a driver
that finds the rest of its plan blocked (`ReportBlocked`, in `RunLifecycle`
`FailBlocked`) overwrites a pause or an approval request that arrived between its
two reads - the one exception in `HoldsStand`. What it leaves is a failed run with
an approval nobody can decide, or with a saved status; `NothingRunsWhilePending`,
`WaitingHasApproval` and `NativePauseIsFinal` say what still holds of it.

Observations on the later modules, also not promised otherwise by the repository:

* The fleet files are replaced without a lock. A server that writes from a stale
  snapshot takes back what another has written: a claim that was answered, a
  release, a heartbeat. `OneActiveItemPerRun` and `LeaseHonoured` hold
  nevertheless; `GrantsCovered` and `ExpiredLeaseEnds` except for it. A release
  names the owner but not the claim, so that an owner's late release can end a
  newer claim of his on the same item.
* A server's exit that is reported after its successor was launched rejects the
  successor's requests and may start another reconnect (`mcp-client.ts`, 422-437):
  `OnExit` does not look whose exit it is. No answer goes astray by it.
* `reclaimStaleLockOrThrow` unlinks by path after it has read the holder: it can
  remove the lock another process has just created (`raced`), and two requests
  run in one campaign. `CampaignLocked` says that this is the only way.
* A recovered import may leave more nodes than `max_nodes`, as its method's
  documentation says; the campaign is then exhausted, never running.
* The comparison in `idea_topup_repeated` errs the other way as well: over budget,
  a small top-up leaves the snapshot unchanged, and one that was prepared but
  not saved is taken as done.
* An approval envelope that is malformed or for another run is committed first and
  thrown then (`agent-runner-ops.ts`, 223, 242). Every later submission of the turn
  finds it and throws again (174); no operation takes it off the journal.
* A group of a delegated run that throws does not wait for its other calls. Their
  answers are recorded all the same, and the next submission replays them.

Hazards that no property covers: an approval packet removed on the error path
although its request succeeded (`final-conclusions.ts`, 860), a run replaced
under a driver (`cli-run.ts`, 810), and the operator's view of a state that was
saved without an event (`operator-read-model-summary.ts`, 116). The modules have
neither packets, nor a second run in `WorkflowRun`, nor views.

## 7. What could follow

All modules of the plan that concern concurrency, crashes or retries are
written. What remains would extend them: a run replaced under a workflow driver
(a second run in `WorkflowRun`); the approval packets and what they bind; the
other methods of the idea engine (`rank.compute`, evaluation, promotion, search
steps), which keep their records the same way with checks of their own; the
status derived from the ledger, composed with the store. The abstract
specifications promise no progress; what the services owe there (an expired
lease, a stopped client) is checked on the detailed modules.
