----------------------------- MODULE StateStore -----------------------------
(***************************************************************************)
(* The run-state store of the orchestrator: .nullius/state.json, its event *)
(* ledger, the rendered plan.md and the .pause sentinel, written by        *)
(* several processes through StateManager (state-manager.ts) under the     *)
(* O_EXCL lock file of withLedgerLock (ledger-lock.ts).                    *)
(*                                                                         *)
(* A process reads state.json without the lock, keeps the bytes it read as *)
(* the identity of its snapshot, and later runs one write job: saveState,  *)
(* saveStateWithLedger (plain or guarded) or appendLedger.  Each job waits *)
(* a bounded number of attempts for the lock, compares the snapshot with   *)
(* the file, and then touches the files one after the other.  Any step may *)
(* throw, and a process may die between any two steps, lock in hand.       *)
(***************************************************************************)
EXTENDS Naturals, Sequences

CONSTANTS
    Proc,         \* processes that write the project
    Content,      \* the contents state.json may hold
    WithPlan,     \* the contents whose plan is a dictionary
    Absent,       \* there is no state.json (and no plan.md)
    Untracked,    \* the identity of a state object no read produced
    Note,         \* a ledger event that announces no state
    Jobs,         \* the write jobs the processes run
    MaxAttempts,  \* LOCK_RETRY_ATTEMPTS
    MaxJobs       \* bound: jobs a process starts

JobKinds == {"silent", "event", "guarded", "note"}
Sentinels == {"keep", "write", "remove"}

\* What a caller passes: the method, the new content, the number of
\* additional events and what happens to the pause sentinel.
JobSet == [kind : JobKinds, val : Content, extra : Nat, sentinel : Sentinels]

ASSUME ContentAssumption == /\ WithPlan \subseteq Content
                            /\ Absent \notin Content
                            /\ Untracked \notin Content \cup {Absent}
                            /\ Note \notin Content
ASSUME JobsAssumption == Jobs \subseteq JobSet /\ Jobs # {}
ASSUME BoundsAssumption == MaxAttempts \in Nat \ {0} /\ MaxJobs \in Nat

VARIABLES
    file,     \* state.json
    ledger,   \* ledger.jsonl: contents announced by state events, and Notes
    planMd,   \* the content whose plan plan.md renders
    pause,    \* does the .pause sentinel exist
    locked,   \* does the lock file exist
    pc,       \* where each process is
    snap,     \* the bytes each process read (stateReadIdentities)
    job,      \* the job each process runs
    tries,    \* lock attempts of the job
    sent,     \* ledger events of the job: appended and not taken back
    saved,    \* the control files captured before a guarded job
    res,      \* how the last job ended
    started,  \* jobs started, for MaxJobs
    quiet     \* history: contents saveState published without an event

files == <<file, ledger, planMd, pause>>
locals == <<snap, job, tries, sent, saved, started>>
vars == <<files, locked, pc, locals, res, quiet>>

WorkSteps == {"before", "append", "rename", "sentinel", "write", "plan", "refresh"}
UndoSteps == {"undo_plan", "undo_state", "undo_ledger", "undo_hook"}
Inside == {"compare", "note", "unlock"} \cup WorkSteps \cup UndoSteps
Results == {"none", "ok", "stale", "failed", "undone", "broken", "conflict"}

Announced(log) == {log[i] : i \in DOMAIN log} \ {Note}

\* The raw comparison of withCurrentState.
Fresh(p) == snap[p] = file \/ (snap[p] = Untracked /\ file = Absent)

\* The events a job appends: additional events first, its own event last; a
\* note announces nothing.
EventAt(j, i) == IF i <= j.extra \/ j.kind = "note" THEN Note ELSE j.val
EventsOf(j, n) == [i \in 1..n |-> EventAt(j, i)]

Goto(p, next) == pc' = [pc EXCEPT ![p] = next]
Stop(p, result) == Goto(p, "unlock") /\ res' = [res EXCEPT ![p] = result]

\* Outside a job its local variables do not exist; they rest at these values.
NoJob == CHOOSE j \in Jobs : TRUE
NoFiles == [file |-> Absent, ledger |-> <<>>, planMd |-> Absent]
Return(p) ==
    /\ Goto(p, "idle")
    /\ job' = [job EXCEPT ![p] = NoJob]
    /\ tries' = [tries EXCEPT ![p] = 0]
    /\ sent' = [sent EXCEPT ![p] = 0]
    /\ saved' = [saved EXCEPT ![p] = NoFiles]
    /\ res' = [res EXCEPT ![p] = "none"]

-----------------------------------------------------------------------------
Init ==
    /\ file = Absent /\ ledger = <<>> /\ planMd = Absent /\ pause = FALSE
    /\ locked = FALSE
    /\ pc = [p \in Proc |-> "idle"]
    /\ snap = [p \in Proc |-> Untracked]
    /\ job = [p \in Proc |-> NoJob]
    /\ tries = [p \in Proc |-> 0]
    /\ sent = [p \in Proc |-> 0]
    /\ saved = [p \in Proc |-> NoFiles]
    /\ res = [p \in Proc |-> "none"]
    /\ started = [p \in Proc |-> 0]
    /\ quiet = {}

\* readState: no lock is taken.
ReadState(p) ==
    /\ pc[p] = "idle"
    /\ snap' = [snap EXCEPT ![p] = file]
    /\ UNCHANGED <<files, locked, pc, job, tries, sent, saved, started, res, quiet>>

\* The caller has computed its next state from the snapshot it holds and
\* calls a write method.
StartJob(p, j) ==
    /\ pc[p] = "idle" /\ started[p] < MaxJobs
    /\ Goto(p, "lock")
    /\ job' = [job EXCEPT ![p] = j]
    /\ started' = [started EXCEPT ![p] = @ + 1]
    /\ UNCHANGED <<files, locked, snap, tries, sent, saved, res, quiet>>

\* Mutant: the lock file is opened without O_EXCL.
Acquire_NotExclusive(p) ==
    /\ pc[p] = "lock"
    /\ locked' = TRUE
    /\ Goto(p, IF job[p].kind = "note" THEN "note" ELSE "compare")
    /\ UNCHANGED <<files, locals, res, quiet>>

\* openSync(lockPath, 'wx') succeeds.
Acquire(p) ==
    /\ pc[p] = "lock" /\ ~locked
    /\ locked' = TRUE
    /\ Goto(p, IF job[p].kind = "note" THEN "note" ELSE "compare")
    /\ UNCHANGED <<files, locals, res, quiet>>

\* The lock is created but its holder record cannot be written: it is removed
\* and the error is thrown.
AcquireFails(p) ==
    /\ pc[p] = "lock" /\ ~locked
    /\ locked' = TRUE
    /\ Stop(p, "failed")
    /\ UNCHANGED <<files, locals, quiet>>

\* Mutant: attempts are not counted.
Wait_Forever(p) ==
    /\ pc[p] = "lock" /\ locked
    /\ UNCHANGED vars

\* EEXIST: sleep and try again, LOCK_RETRY_ATTEMPTS times, then throw.
Wait(p) ==
    /\ pc[p] = "lock" /\ locked
    /\ IF tries[p] + 1 < MaxAttempts
         THEN /\ tries' = [tries EXCEPT ![p] = @ + 1]
              /\ UNCHANGED <<pc, job, sent, saved, res>>
         ELSE Return(p)
    /\ UNCHANGED <<files, locked, snap, started, quiet>>

\* Mutant: the snapshot is not compared.
Compare_Not(p) ==
    /\ pc[p] = "compare"
    /\ Goto(p, IF job[p].kind = "silent" THEN "write" ELSE "before")
    /\ saved' = [saved EXCEPT ![p] =
                    [file |-> file, ledger |-> ledger, planMd |-> planMd]]
    /\ UNCHANGED <<files, locked, snap, job, tries, sent, started, res, quiet>>

\* withCurrentState: compare the raw bytes, refuse a stale snapshot.  A
\* guarded job that wants the sentinel changed is refused before it starts;
\* otherwise it captures the control files.
Compare(p) ==
    /\ pc[p] = "compare"
    /\ IF ~Fresh(p)
         THEN Stop(p, "stale") /\ UNCHANGED saved
         ELSE IF job[p].kind = "silent"
           THEN Goto(p, "write") /\ UNCHANGED <<res, saved>>
           ELSE IF job[p].kind = "guarded" /\ job[p].sentinel # "keep"
             THEN Stop(p, "failed") /\ UNCHANGED saved
             ELSE /\ Goto(p, "before") /\ UNCHANGED res
                  /\ saved' = [saved EXCEPT ![p] =
                        [file |-> file, ledger |-> ledger, planMd |-> planMd]]
    /\ UNCHANGED <<files, locked, snap, job, tries, sent, started, quiet>>

\* Mutant: the new state is written in place, not to a staged sibling.
Stage_InPlace(p) ==
    /\ pc[p] = "before"
    /\ file' = job[p].val
    /\ Goto(p, "append")
    /\ UNCHANGED <<ledger, planMd, pause, locked, locals, res, quiet>>

\* before_commit and the staged copy of the new state.
Stage(p) ==
    /\ pc[p] = "before"
    /\ Goto(p, "append")
    /\ UNCHANGED <<files, locked, locals, res, quiet>>

\* One ledger event, additional events first.
AppendEvent(p) ==
    /\ pc[p] = "append"
    /\ ledger' = Append(ledger, EventAt(job[p], sent[p] + 1))
    /\ sent' = [sent EXCEPT ![p] = @ + 1]
    /\ Goto(p, IF sent[p] = job[p].extra THEN "rename" ELSE "append")
    /\ UNCHANGED <<file, planMd, pause, locked, snap, job, tries, saved, started, res, quiet>>

\* commitStagedFileWithRetry: the staged state becomes state.json.
Rename(p) ==
    /\ pc[p] = "rename"
    /\ file' = job[p].val
    /\ Goto(p, "sentinel")
    /\ UNCHANGED <<ledger, planMd, pause, locked, locals, res, quiet>>

SetSentinel(p) ==
    /\ pc[p] = "sentinel"
    /\ pause' = CASE job[p].sentinel = "write" -> TRUE
                  [] job[p].sentinel = "remove" -> FALSE
                  [] OTHER -> pause
    /\ Goto(p, "plan")
    /\ UNCHANGED <<file, ledger, planMd, locked, locals, res, quiet>>

\* saveState publishes its content without an event.
WriteSilently(p) ==
    /\ pc[p] = "write"
    /\ file' = job[p].val
    /\ quiet' = quiet \cup {job[p].val}
    /\ Goto(p, "plan")
    /\ UNCHANGED <<ledger, planMd, pause, locked, locals, res>>

WritePlan(p) ==
    /\ pc[p] = "plan"
    /\ planMd' = IF job[p].val \in WithPlan THEN job[p].val ELSE planMd
    /\ Goto(p, "refresh")
    /\ UNCHANGED <<file, ledger, pause, locked, locals, res, quiet>>

\* The action returned: the state object's identity becomes the file read back.
Refresh(p) ==
    /\ pc[p] = "refresh"
    /\ snap' = [snap EXCEPT ![p] = file]
    /\ Stop(p, "ok")
    /\ UNCHANGED <<files, locked, job, tries, sent, saved, started, quiet>>

\* appendLedger: an event under the lock, compared with nothing.
AppendNote(p) ==
    /\ pc[p] = "note"
    /\ ledger' = Append(ledger, Note)
    /\ sent' = [sent EXCEPT ![p] = 1]
    /\ Stop(p, "ok")
    /\ UNCHANGED <<file, planMd, pause, locked, snap, job, tries, saved, started, quiet>>

\* Where a step of a job can throw: anywhere for a guarded job (its guard is
\* called between all steps), and for the others where they touch a file.
MayThrow(p) ==
    \/ pc[p] \in {"before", "append", "rename", "write", "note", "refresh"}
    \/ pc[p] \in WorkSteps /\ job[p].kind = "guarded"
    \/ pc[p] = "sentinel" /\ job[p].sentinel # "keep"
    \/ pc[p] = "plan" /\ job[p].val \in WithPlan

\* Mutant: the rollback takes the events back but leaves the state.
Throw_LedgerOnly(p) ==
    /\ MayThrow(p)
    /\ IF job[p].kind = "guarded" THEN Goto(p, "undo_ledger") /\ UNCHANGED res
                                  ELSE Stop(p, "failed")
    /\ UNCHANGED <<files, locked, locals, quiet>>

\* The catch block: a guarded job goes on to restore, the others rethrow
\* with whatever they already wrote left in place.  The file is read back
\* outside that block, so an error there undoes nothing.
Throw(p) ==
    /\ MayThrow(p)
    /\ \/ job[p].kind = "guarded" /\ Goto(p, "undo_plan") /\ UNCHANGED res
       \/ (job[p].kind # "guarded" \/ pc[p] = "refresh") /\ Stop(p, "failed")
    /\ UNCHANGED <<files, locked, locals, quiet>>

\* Mutant: the rollback forgets plan.md.
UndoPlan_Skipped(p) ==
    /\ pc[p] = "undo_plan"
    /\ Goto(p, "undo_state")
    /\ UNCHANGED <<files, locked, locals, res, quiet>>

\* restoreControlFile: nothing to do if the file is as captured; put it back
\* if it holds what this job published; otherwise give up.
UndoPlan(p) ==
    /\ pc[p] = "undo_plan"
    /\ IF job[p].val \notin WithPlan \/ planMd = saved[p].planMd
         THEN Goto(p, "undo_state") /\ UNCHANGED <<planMd, res>>
         ELSE IF planMd = job[p].val
           THEN Goto(p, "undo_state") /\ planMd' = saved[p].planMd /\ UNCHANGED res
           ELSE Stop(p, "conflict") /\ UNCHANGED planMd
    /\ UNCHANGED <<file, ledger, pause, locked, locals, quiet>>

\* Mutant: the rollback writes the caller's identity back instead of the
\* captured bytes.
UndoState_FromIdentity(p) ==
    /\ pc[p] = "undo_state"
    /\ file' = snap[p]
    /\ Goto(p, "undo_ledger")
    /\ UNCHANGED <<ledger, planMd, pause, locked, locals, res, quiet>>

UndoState(p) ==
    /\ pc[p] = "undo_state"
    /\ IF file = saved[p].file
         THEN Goto(p, "undo_ledger") /\ UNCHANGED <<file, res>>
         ELSE IF file = job[p].val
           THEN Goto(p, "undo_ledger") /\ file' = saved[p].file /\ UNCHANGED res
           ELSE Stop(p, "conflict") /\ UNCHANGED file
    /\ UNCHANGED <<ledger, planMd, pause, locked, locals, quiet>>

UndoLedger(p) ==
    /\ pc[p] = "undo_ledger"
    /\ IF ledger = saved[p].ledger
         THEN Goto(p, "undo_hook") /\ UNCHANGED <<ledger, sent, res>>
         ELSE IF ledger = saved[p].ledger \o EventsOf(job[p], sent[p])
           THEN /\ Goto(p, "undo_hook") /\ UNCHANGED res
                /\ ledger' = saved[p].ledger /\ sent' = [sent EXCEPT ![p] = 0]
           ELSE Stop(p, "conflict") /\ UNCHANGED <<ledger, sent>>
    /\ UNCHANGED <<file, planMd, pause, locked, snap, job, tries, saved, started, quiet>>

\* on_commit_failure, then the original error is rethrown.
UndoHook(p) ==
    /\ pc[p] = "undo_hook"
    /\ Stop(p, "undone")
    /\ UNCHANGED <<files, locked, locals, quiet>>

\* A restoration, or on_commit_failure, throws: what is not restored stays,
\* and the error asks for manual reconciliation.
UndoFails(p) ==
    /\ pc[p] \in UndoSteps
    /\ Stop(p, "broken")
    /\ UNCHANGED <<files, locked, locals, quiet>>

\* The finally clause removes the lock file by its path.
Unlock(p) ==
    /\ pc[p] = "unlock"
    /\ locked' = FALSE
    /\ Return(p)
    /\ UNCHANGED <<files, snap, started, quiet>>

\* The process dies: its objects are gone, its lock file stays.
Crash(p) ==
    /\ pc[p] # "idle" \/ snap[p] # Untracked
    /\ Return(p)
    /\ snap' = [snap EXCEPT ![p] = Untracked]
    /\ UNCHANGED <<files, locked, started, quiet>>

\* A human removes a dead holder's lock file, "only while quiescent".
RepairLock ==
    /\ locked
    /\ \A p \in Proc : pc[p] \notin Inside
    /\ locked' = FALSE
    /\ UNCHANGED <<files, pc, locals, res, quiet>>

\* What a running process does next, once it has started a job.
Step(p) ==
    \/ Acquire(p) \/ AcquireFails(p) \/ Wait(p) \/ Compare(p)
    \/ Stage(p) \/ AppendEvent(p) \/ Rename(p) \/ SetSentinel(p)
    \/ WriteSilently(p) \/ WritePlan(p) \/ Refresh(p) \/ AppendNote(p)
    \/ Throw(p)
    \/ UndoPlan(p) \/ UndoState(p) \/ UndoLedger(p) \/ UndoHook(p)
    \/ UndoFails(p) \/ Unlock(p)

Next ==
    \/ \E p \in Proc : ReadState(p) \/ Step(p) \/ Crash(p)
    \/ \E p \in Proc : \E j \in Jobs : StartJob(p, j)
    \/ RepairLock

Spec == Init /\ [][Next]_vars

\* A job is one synchronous call: a live process goes on with it.  Nobody
\* has to start a job, to crash or to repair the lock.
FairSpec == Spec /\ \A p \in Proc : WF_vars(Step(p))

-----------------------------------------------------------------------------
(* Properties *)

\* What captureControlFile can find.
ControlFiles == [file : Content \cup {Absent}, ledger : Seq(Content \cup {Note}),
                 planMd : Content \cup {Absent}]

\* The type invariant.
TypeOK ==
    /\ file \in Content \cup {Absent}
    /\ ledger \in Seq(Content \cup {Note})
    /\ planMd \in Content \cup {Absent}
    /\ pause \in BOOLEAN /\ locked \in BOOLEAN
    /\ pc \in [Proc -> {"idle", "lock"} \cup Inside]
    /\ snap \in [Proc -> Content \cup {Absent, Untracked}]
    /\ job \in [Proc -> Jobs]
    /\ tries \in [Proc -> Nat]
    /\ sent \in [Proc -> Nat]
    /\ saved \in [Proc -> ControlFiles]
    /\ res \in [Proc -> Results]
    /\ started \in [Proc -> Nat]
    /\ quiet \in SUBSET Content

\* withLedgerLock gives mutual exclusion although crashes leak the lock file
\* and the finally clause removes it by path: never two processes between
\* acquiring and releasing.
MutualExclusion ==
    \A p, q \in Proc : pc[p] \in Inside /\ pc[q] \in Inside => p = q

\* The ledger covers the state: whatever a crash, an error or a rollback
\* leaves behind, the visible state was announced by an event still in the
\* ledger, or was published by saveState, which announces nothing.
LedgerCovers == file \in Announced(ledger) \cup quiet \cup {Absent}

\* A guarded job that throws its own error after its rollback leaves state,
\* ledger and plan exactly as it captured them, and the rollback never finds
\* foreign bytes: "manual reconciliation required" is only ever said because
\* a restoration could not be written ("broken"), never because of a writer
\* that got in between.
GuardedAllOrNothing ==
    \A p \in Proc :
        /\ res[p] # "conflict"
        /\ (pc[p] = "unlock" /\ res[p] = "undone") =>
              /\ file = saved[p].file
              /\ ledger = saved[p].ledger
              /\ planMd = saved[p].planMd

\* No lost update: state.json changes only from the very content its writer
\* had read, or back to it when the writer rolls its own write back.
OwnUpdate ==
    file' # file =>
      \E p \in Proc :
         \/ pc[p] \in {"rename", "write"} /\ Fresh(p) /\ file' = job[p].val
         \/ /\ pc[p] = "undo_state" /\ file = job[p].val
            /\ \/ file' = snap[p]
               \/ snap[p] = Untracked /\ file' = Absent

\* "stale state snapshot ... no state event was appended": an event that
\* announces a state is appended only while its writer's snapshot is current,
\* so a writer that is refused has appended none.
FreshEvent ==
    \A c \in Content :
        ledger' = Append(ledger, c) => \E p \in Proc : pc[p] = "append" /\ Fresh(p)

\* Only the writer whose snapshot is current publishes: neither a state nor an event that
\* announces one is ever written on the strength of a state that has been replaced.
NoLostUpdate == [][OwnUpdate /\ FreshEvent]_vars

\* No writer hangs: even when a dead process left its lock file behind and
\* nobody repairs it, every job that was started comes to an end.
JobsEnd == \A p \in Proc : pc[p] # "idle" ~> pc[p] = "idle"
=============================================================================
