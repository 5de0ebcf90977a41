---------------------------- MODULE IdeaCampaign ----------------------------
(***************************************************************************)
(* The idea engine's campaign store: requests with an idempotency key that *)
(* change several files under the campaign's mutation lock, processes that *)
(* die between two of those writes, and retries that find a half-done      *)
(* request and complete it, or find that nothing was done and start over.  *)
(*                                                                         *)
(* Modelled requests: node.import_generated (a burst of new nodes) and     *)
(* campaign.topup / pause / resume / complete.  One campaign; the nodes    *)
(* dimension of its budget.  The campaign starts with no nodes.            *)
(*                                                                         *)
(* The lock is a file created exclusively, which names its holder's pid.   *)
(* The file of a dead holder is removed, then created again.  Locks whose  *)
(* pid was never written are reclaimed by age, as those of a dead holder.  *)
(* What two holders at once do to the files is not followed: the model     *)
(* ends where a live process has lost its lock (`raced').                  *)
(***************************************************************************)
EXTENDS Integers, FiniteSets

CONSTANTS
    IdeaProcs,      \* processes that call the engine
    Keys,           \* idempotency keys
    Method,         \* key -> the method it is used with
    BurstSize,      \* candidates of an import
    Budget,         \* max_nodes at campaign.init
    TopUp,          \* add_nodes of a top-up
    MaxFaults,      \* crashes and failing writes (bound)
    FreeLock,       \* no lock file
    DeadLock,       \* the lock file of a process that died
    NoKey           \* the request of an idle process

Methods == {"import", "topup", "pause", "resume", "complete"}

ASSUME IdeaAssumption ==
    /\ Method \in [Keys -> Methods]
    /\ BurstSize \in Nat \ {0} /\ Budget \in Nat \ {0} /\ TopUp \in Nat \ {0}
    /\ MaxFaults \in Nat
    /\ NoKey \notin Keys
    /\ FreeLock \notin IdeaProcs /\ DeadLock \notin IdeaProcs /\ FreeLock # DeadLock

VARIABLES
    lockFile,       \* FreeLock, DeadLock or the process it names
    step,           \* process -> where it stands in its request
    request,        \* process -> key of its request
    recovering,     \* process -> it completes an earlier execution
    records,        \* key -> idempotency record: state, mint, expected campaign status
    archive,        \* archived packs: <<key, mint>>
    nodes,          \* bursts whose nodes are in the node file
    nodeLog,        \* <<key, mint>> -> create entries in the node log
    campaign,       \* [status, max, used]
    applied,        \* history: how often a top-up was added
    raced,          \* history: a live process's lock was removed as stale
    faults          \* crashes and failed writes so far

ideaVars == <<lockFile, step, request, recovering, records, archive, nodes, nodeLog,
              campaign, applied, raced, faults>>
diskVars == <<records, archive, nodes, nodeLog, campaign, applied>>
procVars == <<step, request, recovering>>

\* Ids minted by the executions of one key; a burst is named by its first execution,
\* or by another one if the ids of the first are on disk (drawUniqueId).
Mints == {1, 2}
Bursts == Keys \X Mints
CampaignStatuses == {"running", "exhausted", "paused", "completed"}
Outside == {"idle", "stale", "reopen"}
Steps == Outside \cup {"inside", "archive", "nodes", "log", "usage", "save", "commit", "release"}

Count == BurstSize * Cardinality(nodes)

\* Mutant: what is left of the budget is not cut off at zero.
Left_Signed(c) == c.max - c.used

Left(c) == IF c.max > c.used THEN c.max - c.used ELSE 0
Exhausted(c) == Left(c) = 0
StatusOf(c) == [status |-> c.status, used |-> c.used, left |-> Left(c)]
NoStatus == [status |-> "running", used |-> 0, left |-> 0]
RecordOf(state, mint, expected) == [state |-> state, mint |-> mint, expected |-> expected]
NoRecord == RecordOf("none", 1, NoStatus)
Landed(b) == b \in archive \/ b \in nodes \/ nodeLog[b] > 0
BurstOf(p) == <<request[p], records[request[p]].mint>>

\* mutateCampaign
Allowed(c, m) ==
    \/ m = "topup" /\ c.status # "completed"
    \/ m = "pause" /\ c.status \in {"running", "exhausted"}
    \/ m = "resume" /\ c.status = "paused" /\ ~Exhausted(c)
    \/ m = "complete"

Mutated(c, m) ==
    LET max == IF m = "topup" THEN c.max + TopUp ELSE c.max IN
    [max |-> max, used |-> c.used,
     status |-> CASE m = "topup" -> IF c.status = "exhausted" /\ max > c.used
                                    THEN "running" ELSE c.status
                  [] m = "pause" -> "paused"
                  [] m = "resume" -> "running"
                  [] OTHER -> "completed"]

-----------------------------------------------------------------------------
IdeaInit ==
    /\ lockFile = FreeLock
    /\ step = [p \in IdeaProcs |-> "idle"]
    /\ request = [p \in IdeaProcs |-> NoKey]
    /\ recovering = [p \in IdeaProcs |-> FALSE]
    /\ records = [k \in Keys |-> NoRecord]
    /\ archive = {} /\ nodes = {}
    /\ nodeLog = [b \in Bursts |-> 0]
    /\ campaign = [status |-> "running", max |-> Budget, used |-> 0]
    /\ applied = [k \in Keys |-> 0]
    /\ raced = FALSE /\ faults = 0

(* withLock.                                                               *)

GoTo(p, s) == step' = [step EXCEPT ![p] = s]

GoIdle(p) ==
    /\ GoTo(p, "idle")
    /\ request' = [request EXCEPT ![p] = NoKey]
    /\ recovering' = [recovering EXCEPT ![p] = FALSE]

Open(p, k) ==
    /\ step[p] = "idle" /\ lockFile = FreeLock
    /\ lockFile' = p
    /\ request' = [request EXCEPT ![p] = k]
    /\ GoTo(p, "inside")
    /\ UNCHANGED <<recovering, diskVars, raced, faults>>

\* the file exists and names a dead process; one that names a live process ends the request
FindStale(p, k) ==
    /\ step[p] = "idle" /\ lockFile = DeadLock
    /\ request' = [request EXCEPT ![p] = k]
    /\ GoTo(p, "stale")
    /\ UNCHANGED <<lockFile, recovering, diskVars, raced, faults>>

\* removes whatever file is there by now
RemoveStale(p) ==
    /\ step[p] = "stale"
    /\ lockFile' = FreeLock
    /\ raced' = (raced \/ lockFile \in IdeaProcs)
    /\ GoTo(p, "reopen")
    /\ UNCHANGED <<request, recovering, diskVars, faults>>

\* Mutant: the second creation is not exclusive.
Reopen_Overwrites(p) ==
    /\ step[p] = "reopen"
    /\ lockFile' = p
    /\ GoTo(p, "inside")
    /\ UNCHANGED <<request, recovering, diskVars, raced, faults>>

Reopen(p) ==
    /\ step[p] = "reopen"
    /\ \/ lockFile = FreeLock /\ lockFile' = p /\ GoTo(p, "inside") /\ UNCHANGED <<request, recovering>>
       \/ lockFile # FreeLock /\ lockFile' = lockFile /\ GoIdle(p)
    /\ UNCHANGED <<diskVars, raced, faults>>

Release(p) ==
    /\ step[p] = "release"
    /\ lockFile' = FreeLock
    /\ GoIdle(p)
    /\ UNCHANGED <<diskVars, raced, faults>>

-----------------------------------------------------------------------------
(* Under the lock.  Each step is one file write.                           *)

At(p, s) == step[p] = s
Rest == <<lockFile, request, raced, faults>>
Record(p, r) == records' = [records EXCEPT ![request[p]] = r]
Committed(p) ==
    Record(p, RecordOf("committed", records[request[p]].mint, records[request[p]].expected))

Replay(p) ==
    /\ At(p, "inside") /\ records[request[p]].state = "committed"
    /\ GoTo(p, "release")
    /\ UNCHANGED <<recovering, diskVars, Rest>>

Accepted(p) ==
    IF Method[request[p]] = "import"
    THEN campaign.status = "running" /\ Count + BurstSize <= campaign.max
    ELSE Allowed(campaign, Method[request[p]])

Refuse(p) ==
    /\ At(p, "inside") /\ records[request[p]].state = "none" /\ ~Accepted(p)
    /\ GoTo(p, "release")
    /\ UNCHANGED <<recovering, diskVars, Rest>>

PrepareImport(p) ==
    /\ At(p, "inside") /\ records[request[p]].state = "none" /\ Accepted(p)
    /\ Method[request[p]] = "import"
    /\ \E m \in Mints :
          /\ ~Landed(<<request[p], m>>)
          /\ \A n \in Mints : n < m => Landed(<<request[p], n>>)
          /\ Record(p, RecordOf("prepared", m, NoStatus))
    /\ GoTo(p, "archive")
    /\ UNCHANGED <<recovering, archive, nodes, nodeLog, campaign, applied, Rest>>

PrepareMutation(p) ==
    /\ At(p, "inside") /\ records[request[p]].state = "none" /\ Accepted(p)
    /\ Method[request[p]] # "import"
    /\ Record(p, RecordOf("prepared", 1, StatusOf(Mutated(campaign, Method[request[p]]))))
    /\ GoTo(p, "save")
    /\ UNCHANGED <<recovering, archive, nodes, nodeLog, campaign, applied, Rest>>

\* Mutant: what an earlier execution left is not looked for.
RecoverImport_StartsOver(p) ==
    /\ At(p, "inside") /\ records[request[p]].state = "prepared" /\ Method[request[p]] = "import"
    /\ Record(p, NoRecord)
    /\ UNCHANGED <<step, recovering, archive, nodes, nodeLog, campaign, applied, Rest>>

\* Mutant: a recovery recomputes the usage and nothing else.
RecoverImport_UsageOnly(p) ==
    /\ At(p, "inside") /\ records[request[p]].state = "prepared" /\ Method[request[p]] = "import"
    /\ \/ /\ BurstOf(p) \notin archive \cup nodes
          /\ Record(p, NoRecord)
          /\ UNCHANGED <<step, recovering>>
       \/ /\ BurstOf(p) \in archive
          /\ recovering' = [recovering EXCEPT ![p] = TRUE]
          /\ GoTo(p, "usage")
          /\ UNCHANGED records
    /\ UNCHANGED <<archive, nodes, nodeLog, campaign, applied, Rest>>

\* recoverImportGenerated: nothing landed, so the record is deleted and the request runs
\* again; or the archived pack is there to complete from.  Nodes without their pack would
\* be a conflict that ends the request: BurstImportedOnce shows there are none.
RecoverImport(p) ==
    /\ At(p, "inside") /\ records[request[p]].state = "prepared" /\ Method[request[p]] = "import"
    /\ \/ /\ BurstOf(p) \notin archive \cup nodes
          /\ Record(p, NoRecord)
          /\ UNCHANGED <<step, recovering>>
       \/ /\ BurstOf(p) \in archive
          /\ recovering' = [recovering EXCEPT ![p] = TRUE]
          /\ GoTo(p, "nodes")
          /\ UNCHANGED records
    /\ UNCHANGED <<archive, nodes, nodeLog, campaign, applied, Rest>>

\* preparedSideEffectsCommitted for campaign mutations: the effect is taken to have
\* landed if the campaign's status and budget are those the record expects
RecoverMutation(p) ==
    /\ At(p, "inside") /\ records[request[p]].state = "prepared" /\ Method[request[p]] # "import"
    /\ \/ /\ StatusOf(campaign) = records[request[p]].expected
          /\ Committed(p)
          /\ GoTo(p, "release")
       \/ /\ StatusOf(campaign) # records[request[p]].expected
          /\ Record(p, NoRecord)
          /\ UNCHANGED step
    /\ UNCHANGED <<recovering, archive, nodes, nodeLog, campaign, applied, Rest>>

WriteArchive(p) ==
    /\ At(p, "archive")
    /\ archive' = archive \cup {BurstOf(p)}
    /\ GoTo(p, "nodes")
    /\ UNCHANGED <<recovering, records, nodes, nodeLog, campaign, applied, Rest>>

SaveNodes(p) ==
    /\ At(p, "nodes")
    /\ nodes' = nodes \cup {BurstOf(p)}
    /\ GoTo(p, "log")
    /\ UNCHANGED <<recovering, records, archive, nodeLog, campaign, applied, Rest>>

\* one create entry per node; a recovery appends those that are missing
AppendNodeLog(p) ==
    /\ At(p, "log")
    /\ \/ /\ nodeLog[BurstOf(p)] < BurstSize
          /\ nodeLog' = [nodeLog EXCEPT ![BurstOf(p)] = @ + 1]
          /\ UNCHANGED step
       \/ /\ nodeLog[BurstOf(p)] >= BurstSize
          /\ GoTo(p, "usage")
          /\ UNCHANGED nodeLog
    /\ UNCHANGED <<recovering, records, archive, nodes, campaign, applied, Rest>>

\* usage.nodes_used is the number of nodes; a recovery only ever exhausts a running campaign
SaveUsage(p) ==
    LET status == IF Exhausted([campaign EXCEPT !.used = Count]) THEN "exhausted" ELSE "running"
        kept == recovering[p] /\ (campaign.used = Count \/ campaign.status # "running")
    IN
    /\ At(p, "usage")
    /\ campaign' = [max |-> campaign.max, used |-> Count,
                    status |-> IF kept THEN campaign.status ELSE status]
    /\ GoTo(p, "commit")
    /\ UNCHANGED <<recovering, records, archive, nodes, nodeLog, applied, Rest>>

SaveMutation(p) ==
    /\ At(p, "save")
    /\ campaign' = Mutated(campaign, Method[request[p]])
    /\ applied' = [applied EXCEPT ![request[p]] = @ + IF Method[request[p]] = "topup" THEN 1 ELSE 0]
    /\ GoTo(p, "commit")
    /\ UNCHANGED <<recovering, records, archive, nodes, nodeLog, Rest>>

Commit(p) ==
    /\ At(p, "commit")
    /\ Committed(p)
    /\ GoTo(p, "release")
    /\ UNCHANGED <<recovering, archive, nodes, nodeLog, campaign, applied, Rest>>

(* Faults.  A crash leaves the lock file behind; a write that throws does  *)
(* not, the lock being removed on the way out.                             *)

Crash(p) ==
    /\ step[p] # "idle" /\ faults < MaxFaults
    /\ lockFile' = IF lockFile = p THEN DeadLock ELSE lockFile
    /\ GoIdle(p)
    /\ faults' = faults + 1
    /\ UNCHANGED <<diskVars, raced>>

WriteFails(p) ==
    /\ step[p] \notin Outside \cup {"release"} /\ faults < MaxFaults
    /\ GoTo(p, "release")
    /\ faults' = faults + 1
    /\ UNCHANGED <<lockFile, request, recovering, diskVars, raced>>

IdeaStep(p) ==
    \/ \E k \in Keys : Open(p, k) \/ FindStale(p, k)
    \/ RemoveStale(p) \/ Reopen(p) \/ Release(p)
    \/ Replay(p) \/ Refuse(p) \/ PrepareImport(p) \/ PrepareMutation(p)
    \/ RecoverImport(p) \/ RecoverMutation(p)
    \/ WriteArchive(p) \/ SaveNodes(p) \/ AppendNodeLog(p) \/ SaveUsage(p)
    \/ SaveMutation(p) \/ Commit(p) \/ Crash(p) \/ WriteFails(p)

IdeaNext == ~raced /\ \E p \in IdeaProcs : IdeaStep(p)

IdeaSpec == IdeaInit /\ [][IdeaNext]_ideaVars

-----------------------------------------------------------------------------
IdeaTypeOK ==
    /\ lockFile \in IdeaProcs \cup {FreeLock, DeadLock}
    /\ step \in [IdeaProcs -> Steps]
    /\ request \in [IdeaProcs -> Keys \cup {NoKey}]
    /\ recovering \in [IdeaProcs -> BOOLEAN]
    /\ records \in [Keys -> [state : {"none", "prepared", "committed"}, mint : Mints,
                             expected : [status : CampaignStatuses, used : Nat, left : Nat]]]
    /\ archive \subseteq Bursts /\ nodes \subseteq Bursts
    /\ nodeLog \in [Bursts -> Nat]
    /\ campaign \in [status : CampaignStatuses, max : Nat, used : Nat]
    /\ applied \in [Keys -> Nat]
    /\ raced \in BOOLEAN /\ faults \in 0..MaxFaults

\* At most one process is inside the lock, unless a reclaim removed the lock of a live
\* process: one that found the dead holder's file removes it only after another process
\* has already replaced it (reclaimStaleLockOrThrow).
CampaignLocked ==
    raced \/ \A p, q \in IdeaProcs : step[p] \notin Outside /\ step[q] \notin Outside => p = q

\* However often a request is retried after a crash, its burst is in the campaign once:
\* nodes and log entries carry the ids of one execution, each logged at most once, and
\* nodes are there only with the archived pack a retry completes from.
BurstImportedOnce ==
    /\ \A b, c \in Bursts : (b \in nodes \/ nodeLog[b] > 0) /\ c \in nodes /\ b[1] = c[1] => b = c
    /\ \A b \in Bursts : nodeLog[b] <= BurstSize
    /\ nodes \subseteq archive

\* A committed import is complete: pack, nodes and one log entry per node are on disk.
\* When no import is half done, the usage counter is the number of nodes and a campaign
\* at or over its budget (recovery may overshoot) does not say it runs.
CommittedImportComplete ==
    /\ \A k \in Keys :
          Method[k] = "import" /\ records[k].state = "committed" =>
              LET burst == <<k, records[k].mint>>
              IN burst \in archive /\ burst \in nodes /\ nodeLog[burst] = BurstSize
    /\ (\A k \in Keys : Method[k] = "import" => records[k].state # "prepared")
       => campaign.used = Count /\ (campaign.status = "running" => ~Exhausted(campaign))

\* What a caller may see of the store, whichever executions the bursts on disk carry the
\* ids of.
RecordStages == [k \in Keys |-> records[k].state]
Promises == [k \in Keys |-> records[k].expected]
Packed == {b[1] : b \in archive}
Imported == {b[1] : b \in nodes}
Logged == [k \in Keys |-> nodeLog[<<k, records[k].mint>>]]

CS == INSTANCE CampaignStore WITH
        stage <- RecordStages, promised <- Promises,
        packed <- Packed, imported <- Imported, logged <- Logged
\* The refinement of CampaignStore: with any number of processes under the lock, crashes
\* and failing writes, a request starts when the campaign admits it, an import lands once
\* and ends whole and counted, and any other request changes the campaign as it promised.
ImplementsCampaignStore == CS!Spec

\* A top-up is added to the budget once, however often its request is repeated, and its
\* request does not count as done without it.
ToppedUpOnce ==
    \A k \in Keys : Method[k] = "topup" =>
        applied[k] <= 1 /\ (records[k].state = "committed" => applied[k] = 1)
=============================================================================
