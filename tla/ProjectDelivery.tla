--------------------------- MODULE ProjectDelivery --------------------------
(***************************************************************************)
(* Background calls of the project MCP server: submitDelivery of            *)
(* delivery.ts, the project lock of execution-lock.ts, the detached         *)
(* supervisor and worker, the foreground calls (sampling, file uploads)     *)
(* that take the same lock, and the person who reconciles a lock that was   *)
(* left.                                                                    *)
(*                                                                         *)
(* Connections are calls in progress, in any number of server processes:    *)
(* a client that reconnects submits the same delivery id again.  The lock   *)
(* is a file that is created, named after its owner, read and unlinked one  *)
(* file operation at a time.  The journal's operations are atomic (they     *)
(* have a lock of their own, see WorkflowRun).  Reading a delivery changes  *)
(* nothing and is left out, as is a call that is answered from the journal. *)
(***************************************************************************)
EXTENDS Naturals, FiniteSets

CONSTANTS
    Conns,      \* calls
    Ids,        \* delivery ids
    MaySubmit,  \* the ids each call may submit
    Slots,      \* supervisors, each with its worker
    None, Blank \* no lock file; a lock file not yet written

ASSUME DeliveryAssumption ==
    /\ MaySubmit \in [Conns -> SUBSET Ids]
    /\ Conns \cap Ids = {} /\ Conns \cap Slots = {}
    /\ None # Blank /\ {None, Blank} \cap (Conns \cup Ids) = {}

VARIABLES
    lock, maker,     \* the owner in the lock file, and the call that created it
    journal,         \* the state of each delivery's attempt
    pc, owner, why,  \* of a call: label, owner it locks for, why it releases
    sup, of,         \* of a supervisor: label and delivery
    worker, late,    \* its worker's state; has its deadline passed
    runs,            \* history: executions of each delivery
    reconciled,      \* history: deliveries whose lock a person removed
    stolen           \* history: was a lock removed by a call that did not hold it

lockFile == <<lock, maker, stolen>>
call == <<pc, owner, why>>
slots == <<sup, of, worker, late>>
vars == <<lockFile, journal, call, slots, runs, reconciled>>

Alive == {"starting", "working", "answered"}
Gone == {"exited", "failed"}   \* with status 0, and otherwise
Settled == {"committed", "outcome_unknown"}

Init ==
    /\ lock = None /\ maker = None /\ stolen = FALSE
    /\ journal = [d \in Ids |-> "missing"]
    /\ pc = [c \in Conns |-> "idle"] /\ owner = [c \in Conns |-> None]
    /\ why = [c \in Conns |-> "none"]
    /\ sup = [s \in Slots |-> "none"] /\ of = [s \in Slots |-> None]
    /\ worker = [s \in Slots |-> "none"] /\ late = [s \in Slots |-> FALSE]
    /\ runs = [d \in Ids |-> 0] /\ reconciled = {}

Goto(c, label) == pc' = [pc EXCEPT ![c] = label] /\ UNCHANGED <<owner, why>>
End(c) ==
    /\ pc' = [pc EXCEPT ![c] = "idle"]
    /\ owner' = [owner EXCEPT ![c] = None] /\ why' = [why EXCEPT ![c] = "none"]
ReleaseFor(c, reason) ==
    /\ pc' = [pc EXCEPT ![c] = "release"]
    /\ why' = [why EXCEPT ![c] = reason] /\ UNCHANGED owner
Remove == lock' = None /\ maker' = None

-----------------------------------------------------------------------------
(* Taking the lock *)

\* A call that finds its delivery settled answers at once; others lock.
Submit(c, d) ==
    /\ pc[c] = "idle" /\ d \in MaySubmit[c] /\ journal[d] \notin Settled
    /\ pc' = [pc EXCEPT ![c] = "acquire"] /\ owner' = [owner EXCEPT ![c] = d]
    /\ UNCHANGED <<lockFile, journal, why, slots, runs, reconciled>>

\* Sampling and uploads own the lock under a name nobody else uses.
Foreground(c) ==
    /\ pc[c] = "idle"
    /\ pc' = [pc EXCEPT ![c] = "acquire"] /\ owner' = [owner EXCEPT ![c] = c]
    /\ UNCHANGED <<lockFile, journal, why, slots, runs, reconciled>>

\* openSync(target, 'wx'): created, or busy.
Create(c) ==
    /\ pc[c] = "acquire"
    /\ IF lock = None THEN lock' = Blank /\ maker' = c /\ UNCHANGED stolen /\ Goto(c, "own")
                      ELSE UNCHANGED lockFile /\ End(c)
    /\ UNCHANGED <<journal, slots, runs, reconciled>>

\* Mutant: the owner is written by path.
Own_ByPath(c) ==
    /\ pc[c] = "own"
    /\ lock' = owner[c]
    /\ Goto(c, IF owner[c] = c THEN "working" ELSE "check")
    /\ UNCHANGED <<maker, stolen, journal, slots, runs, reconciled>>

\* The owner is written to the file that was opened, linked or not.
Own(c) ==
    /\ pc[c] = "own"
    /\ lock' = IF maker = c THEN owner[c] ELSE lock
    /\ Goto(c, IF owner[c] = c THEN "working" ELSE "check")
    /\ UNCHANGED <<maker, stolen, journal, slots, runs, reconciled>>

\* The metadata cannot be made durable: whatever lock is there is unlinked.
OwnFails(c) ==
    /\ pc[c] = "own"
    /\ lock' \in {lock, IF maker = c THEN owner[c] ELSE lock}
    /\ Goto(c, "abandon")
    /\ UNCHANGED <<maker, stolen, journal, slots, runs, reconciled>>

Abandon(c) ==
    /\ pc[c] = "abandon"
    /\ Remove /\ stolen' = (stolen \/ (lock # None /\ maker # c))
    /\ End(c)
    /\ UNCHANGED <<journal, slots, runs, reconciled>>

FinishForeground(c) ==
    /\ pc[c] = "working"
    /\ ReleaseFor(c, "end")
    /\ UNCHANGED <<lockFile, journal, slots, runs, reconciled>>

-----------------------------------------------------------------------------
(* submitDelivery, under the lock *)

\* Another connection may have settled the delivery since it was looked at.
Check(c) ==
    /\ pc[c] = "check"
    /\ IF journal[owner[c]] \in Settled THEN ReleaseFor(c, "replay") ELSE Goto(c, "observe")
    /\ UNCHANGED <<lockFile, journal, slots, runs, reconciled>>

Observe(c) ==
    /\ pc[c] = "observe"
    /\ journal' = [journal EXCEPT ![owner[c]] = IF @ = "missing" THEN "not_started" ELSE @]
    /\ Goto(c, "mark")
    /\ UNCHANGED <<lockFile, slots, runs, reconciled>>

\* Mutant: the attempt is not marked before it is dispatched.
Mark_Forgotten(c) ==
    /\ pc[c] = "mark"
    /\ UNCHANGED journal /\ Goto(c, "spawn")
    /\ UNCHANGED <<lockFile, slots, runs, reconciled>>

\* The request is written and the attempt marked, by one owner only.
Mark(c) ==
    /\ pc[c] = "mark"
    /\ IF journal[owner[c]] = "not_started"
         THEN journal' = [journal EXCEPT ![owner[c]] = "outcome_unknown"] /\ Goto(c, "spawn")
         ELSE UNCHANGED journal /\ ReleaseFor(c, "end")
    /\ UNCHANGED <<lockFile, slots, runs, reconciled>>

\* Mutant: the lock is released as in the foreground calls.
Spawn_Finally(c) ==
    /\ pc[c] = "spawn"
    /\ \E s \in Slots :
          /\ sup[s] = "none"
          /\ sup' = [sup EXCEPT ![s] = "wait"] /\ of' = [of EXCEPT ![s] = owner[c]]
          /\ worker' = [worker EXCEPT ![s] = "starting"] /\ UNCHANGED late
    /\ ReleaseFor(c, "end")
    /\ UNCHANGED <<lockFile, journal, runs, reconciled>>

\* The supervisor starts the worker and inherits the lock, or is not launched,
\* and attempt and lock stay as they are.
Spawn(c) ==
    /\ pc[c] = "spawn"
    /\ \/ UNCHANGED slots
       \/ \E s \in Slots :
             /\ sup[s] = "none"
             /\ sup' = [sup EXCEPT ![s] = "wait"] /\ of' = [of EXCEPT ![s] = owner[c]]
             /\ worker' = [worker EXCEPT ![s] = "starting"] /\ UNCHANGED late
    /\ End(c)
    /\ UNCHANGED <<lockFile, journal, runs, reconciled>>

\* An operation throws before the dispatch, perhaps after the rename of the
\* manifest, and the lock is released; also reading the answer of a replay,
\* whose lock is released already.
Throws(c) ==
    /\ pc[c] \in {"check", "observe", "mark", "reread"}
    /\ \/ UNCHANGED journal
       \/ /\ pc[c] = "observe" /\ journal[owner[c]] = "missing"
          /\ journal' = [journal EXCEPT ![owner[c]] = "not_started"]
       \/ /\ pc[c] = "mark" /\ journal[owner[c]] = "not_started"
          /\ journal' = [journal EXCEPT ![owner[c]] = "outcome_unknown"]
    /\ ReleaseFor(c, "end")
    /\ UNCHANGED <<lockFile, slots, runs, reconciled>>

\* readDelivery of a replay throws when it meets a lock that is still blank.
Reread(c) ==
    /\ pc[c] = "reread"
    /\ IF lock = Blank /\ journal[owner[c]] = "committed" THEN ReleaseFor(c, "end") ELSE End(c)
    /\ UNCHANGED <<lockFile, journal, slots, runs, reconciled>>

-----------------------------------------------------------------------------
(* releaseExecution: read the holder, then unlink *)

\* In the body of the try an error leads to the release of the catch clause.
ReleaseFails(c) == IF why[c] = "replay" THEN ReleaseFor(c, "end") ELSE End(c)

Release(c) ==
    /\ pc[c] = "release"
    /\ IF lock = owner[c] THEN Goto(c, "unlink") ELSE ReleaseFails(c)
    /\ UNCHANGED <<lockFile, journal, slots, runs, reconciled>>

\* The unlink fails if there is no file, and the fsync after it may.
Unlink(c) ==
    /\ pc[c] = "unlink"
    /\ Remove /\ stolen' = (stolen \/ (lock # None /\ maker # c))
    /\ \/ ReleaseFails(c)
       \/ lock # None /\ IF why[c] = "replay" THEN Goto(c, "reread") ELSE End(c)
    /\ UNCHANGED <<journal, slots, runs, reconciled>>

\* The server process dies.
Crash(c) ==
    /\ pc[c] # "idle"
    /\ End(c)
    /\ UNCHANGED <<lockFile, journal, slots, runs, reconciled>>

-----------------------------------------------------------------------------
(* The worker, and the supervisor that waits for it *)

Becomes(s, state) == worker' = [worker EXCEPT ![s] = state]
Turn(s, label) == sup' = [sup EXCEPT ![s] = label]

Work(s) ==
    /\ worker[s] = "starting" /\ Becomes(s, "working")
    /\ runs' = [runs EXCEPT ![of[s]] = @ + 1]
    /\ UNCHANGED <<lockFile, journal, call, sup, of, late, reconciled>>

\* The response file is written; an error is a response, too.
WriteResponse(s) ==
    /\ worker[s] = "working" /\ Becomes(s, "answered")
    /\ UNCHANGED <<lockFile, journal, call, sup, of, late, runs, reconciled>>

WorkerExits(s) ==
    /\ \/ worker[s] = "answered" /\ Becomes(s, "exited")
       \/ worker[s] \in Alive /\ Becomes(s, "failed")
    /\ UNCHANGED <<lockFile, journal, call, sup, of, late, runs, reconciled>>

\* Mutant: the deadline kills the wrong process; the worker's group lives on.
Timeout_KillsNobody(s) ==
    /\ sup[s] = "wait" /\ ~late[s]
    /\ late' = [late EXCEPT ![s] = TRUE]
    /\ UNCHANGED <<lockFile, journal, call, sup, of, worker, runs, reconciled>>

\* The deadline: the process group is killed, unless it is gone and the
\* supervisor has not heard of it yet.
Timeout(s) ==
    /\ sup[s] = "wait" /\ ~late[s]
    /\ late' = [late EXCEPT ![s] = TRUE]
    /\ IF worker[s] \in Alive THEN Becomes(s, "failed") ELSE UNCHANGED worker
    /\ UNCHANGED <<lockFile, journal, call, sup, of, runs, reconciled>>

\* Mutant: the response file is taken for the worker's success.
Reap_IgnoresExit(s) ==
    /\ sup[s] = "wait" /\ worker[s] \in Gone
    /\ Turn(s, IF ~late[s] THEN "commit" ELSE "ended")
    /\ UNCHANGED <<lockFile, journal, call, of, worker, late, runs, reconciled>>

\* Mutant: the lock is released whatever became of the worker.
Reap_Releases(s) ==
    /\ sup[s] = "wait" /\ worker[s] \in Gone
    /\ Turn(s, IF ~late[s] /\ worker[s] = "exited" THEN "commit" ELSE "release")
    /\ UNCHANGED <<lockFile, journal, call, of, worker, late, runs, reconciled>>

\* The worker is gone.  Late or not successful, its attempt stays unknown.
Reap(s) ==
    /\ sup[s] = "wait" /\ worker[s] \in Gone
    /\ Turn(s, IF ~late[s] /\ worker[s] = "exited" THEN "commit" ELSE "ended")
    /\ UNCHANGED <<lockFile, journal, call, of, worker, late, runs, reconciled>>

CommitDelivery(s) ==
    /\ sup[s] = "commit" /\ journal[of[s]] \in Settled
    /\ journal' = [journal EXCEPT ![of[s]] = "committed"]
    /\ Turn(s, "release")
    /\ UNCHANGED <<lockFile, call, of, worker, late, runs, reconciled>>

ReleaseDelivery(s) ==
    /\ sup[s] = "release"
    /\ Turn(s, IF lock = of[s] THEN "unlink" ELSE "ended")
    /\ UNCHANGED <<lockFile, journal, call, of, worker, late, runs, reconciled>>

UnlinkDelivery(s) ==
    /\ sup[s] = "unlink"
    /\ Remove /\ UNCHANGED stolen /\ Turn(s, "ended")
    /\ UNCHANGED <<journal, call, of, worker, late, runs, reconciled>>

\* The supervisor dies, or the commit throws, perhaps after the rename.
SupervisorDies(s) ==
    /\ sup[s] \notin {"none", "ended"}
    /\ Turn(s, "ended")
    /\ \/ UNCHANGED journal
       \/ /\ sup[s] = "commit" /\ journal[of[s]] \in Settled
          /\ journal' = [journal EXCEPT ![of[s]] = "committed"]
    /\ UNCHANGED <<lockFile, call, of, worker, late, runs, reconciled>>

-----------------------------------------------------------------------------
\* A person removes a lock once all writers have stopped.
Reconcile ==
    /\ lock # None
    /\ \A c \in Conns : pc[c] \in {"idle", "acquire"}
    /\ \A s \in Slots : sup[s] \in {"none", "ended"} /\ worker[s] \notin Alive
    /\ Remove /\ UNCHANGED stolen
    /\ reconciled' = reconciled \cup {d \in Ids : lock = d}
    /\ UNCHANGED <<journal, call, slots, runs>>

CallStep(c) ==
    \/ Create(c) \/ Own(c) \/ OwnFails(c) \/ Abandon(c) \/ Check(c) \/ Observe(c) \/ Mark(c)
    \/ Spawn(c) \/ Throws(c) \/ Reread(c) \/ Release(c) \/ Unlink(c)

SupervisorStep(s) ==
    \/ Timeout(s) \/ Reap(s) \/ CommitDelivery(s) \/ ReleaseDelivery(s) \/ UnlinkDelivery(s)

WorkerStep(s) == Work(s) \/ WriteResponse(s) \/ WorkerExits(s)

Next ==
    \/ \E c \in Conns : \/ CallStep(c) \/ Foreground(c) \/ FinishForeground(c) \/ Crash(c)
                        \/ \E d \in Ids : Submit(c, d)
    \/ \E s \in Slots : SupervisorStep(s) \/ SupervisorDies(s) \/ WorkerStep(s)
    \/ Reconcile

Spec == Init /\ [][Next]_vars

\* A call's steps are synchronous, and a supervisor has a timer and hears of
\* its worker's end.  Workers may hang, and nobody has to call, to finish a
\* foreground call, to reconcile or to die.
FairSpec ==
    /\ Spec
    /\ \A c \in Conns : WF_vars(CallStep(c))
    /\ \A s \in Slots : WF_vars(SupervisorStep(s))

-----------------------------------------------------------------------------
(* Properties *)

\* The type invariant.
TypeOK ==
    /\ lock \in {None, Blank} \cup Ids \cup Conns /\ maker \in Conns \cup {None}
    /\ (lock = None <=> maker = None) /\ stolen \in BOOLEAN
    /\ journal \in [Ids -> {"missing", "not_started", "outcome_unknown", "committed"}]
    /\ pc \in [Conns -> {"idle", "acquire", "own", "abandon", "working", "check", "observe",
                         "mark", "spawn", "reread", "release", "unlink"}]
    /\ owner \in [Conns -> Ids \cup Conns \cup {None}]
    /\ why \in [Conns -> {"none", "replay", "end"}]
    /\ sup \in [Slots -> {"none", "wait", "commit", "release", "unlink", "ended"}]
    /\ of \in [Slots -> Ids \cup {None}]
    /\ worker \in [Slots -> {"none"} \cup Alive \cup Gone] /\ late \in [Slots -> BOOLEAN]
    /\ runs \in [Ids -> Nat] /\ reconciled \in SUBSET Ids

\* A delivery is executed at most once, however often it is submitted, by how
\* many connections, after whatever crash and reconciliation; and an attempt
\* that says it was not started was not.
ExecutedAtMostOnce ==
    \A d \in Ids : runs[d] <= IF journal[d] \in Settled THEN 1 ELSE 0

\* Executions are the calls of the journal: one for each mark, none without, and a
\* delivery is committed only after it was executed.
AJ == INSTANCE AttemptJournal
        WITH Keys <- Ids, NoOutcome <- "none", called <- runs, attempt <- journal,
             boundaries <- [d \in Ids |-> 0],
             outcome <- [d \in Ids |-> IF journal[d] = "committed" THEN "response" ELSE "none"]
\* The refinement of AttemptJournal, under that mapping.
ImplementsJournal == AJ!Spec

\* A committed response is that of an execution that ended well and in time.
CommittedIsGenuine ==
    \A d \in Ids : journal[d] = "committed" =>
        \E s \in Slots : of[s] = d /\ worker[s] = "exited" /\ ~late[s]

Writers == {c \in Conns : pc[c] = "working"} \cup {s \in Slots : worker[s] \in Alive}

\* The project lock serializes the calls that write to the project.
WritersSerialized == Cardinality(Writers) <= 1

\* That holds as long as no call removes a lock it does not hold.
SerializedUnlessStolen == ~stolen => WritersSerialized

\* After a timeout, a crash or a bad exit of a worker the project stays locked
\* until a person has reconciled it.
UnknownKeepsLock ==
    \A s \in Slots : ~stolen /\ sup[s] # "none" /\ journal[of[s]] = "outcome_unknown" =>
        lock = of[s] \/ of[s] \in reconciled

\* No call hangs between taking and releasing the lock, and every supervisor
\* ends, whatever its worker does: the timer ends a worker that hangs, and
\* nothing that follows the worker's end waits for anybody.
CallsEnd ==
    /\ \A c \in Conns : pc[c] \notin {"idle", "working"} ~> pc[c] \in {"idle", "working"}
    /\ \A s \in Slots : sup[s] # "none" ~> sup[s] = "ended"
=============================================================================
