------------------------- MODULE IdeaCampaignProofs -------------------------
(***************************************************************************)
(* Proofs about IdeaCampaign for any processes, keys, burst size, budget   *)
(* and number of faults: the lock, imports that land once and completely,  *)
(* and the usage counter; and that the store is that of CampaignStore.     *)
(***************************************************************************)
EXTENDS IdeaCampaign, FiniteSetTheorems, TLAPS

USE IdeaAssumption DEF IdeaAssumption

Inside(p) == step[p] \notin Outside

\* A process inside the lock is named by the lock file.
Locked == ~raced => \A p \in IdeaProcs : Inside(p) => lockFile = p

\* What landed of an import belongs to the execution its record names.
Disk ==
    /\ nodes \subseteq archive
    /\ \A b \in Bursts : nodeLog[b] <= BurstSize /\ (nodeLog[b] > 0 => b \in nodes)
    /\ \A b \in archive : /\ Method[b[1]] = "import"
                          /\ records[b[1]].state # "none" /\ records[b[1]].mint = b[2]
    /\ \A k \in Keys : Method[k] = "import" /\ records[k].state = "committed" =>
          LET b == <<k, records[k].mint>>
          IN b \in nodes /\ nodeLog[b] = BurstSize

HalfDone(k) ==
    Method[k] = "import" /\ records[k].state = "prepared" /\ <<k, records[k].mint>> \in nodes

\* The usage counter lags only behind the nodes of a half-done import.
Usage ==
    /\ IsFiniteSet(nodes) /\ campaign.used <= Count
    /\ campaign.used = Count /\ campaign.status = "running" => campaign.used < campaign.max
    /\ campaign.used = Count \/ \E k \in Keys : HalfDone(k)

\* What a process inside the lock has written so far.
Importing(p) == step[p] = "commit" /\ Method[request[p]] = "import"

Stage(p) ==
    /\ step[p] # "idle" => request[p] \in Keys
    /\ step[p] \notin Outside \cup {"inside", "release"} => records[request[p]].state = "prepared"
    /\ step[p] \in {"archive", "nodes", "log", "usage"} => Method[request[p]] = "import"
    /\ step[p] = "save" => /\ Method[request[p]] # "import"
                           /\ Allowed(campaign, Method[request[p]])
    /\ step[p] \in {"nodes", "log", "usage"} \/ Importing(p) => BurstOf(p) \in archive
    /\ step[p] \in {"log", "usage"} \/ Importing(p) => BurstOf(p) \in nodes
    /\ step[p] = "usage" \/ Importing(p) => nodeLog[BurstOf(p)] = BurstSize
    /\ Importing(p) => campaign.used = Count

CampaignInv ==
    /\ IdeaTypeOK /\ Locked /\ Disk /\ Usage
    /\ \A p \in IdeaProcs : Stage(p)

-----------------------------------------------------------------------------
LEMMA CountNatural ==
    ASSUME IsFiniteSet(nodes)
    PROVE  Count \in Nat
  BY FS_CardinalityType DEF Count

LEMMA CountGrows ==
    ASSUME IsFiniteSet(nodes), NEW b, nodes' = nodes \cup {b}
    PROVE  /\ IsFiniteSet(nodes')
           /\ Count' = IF b \in nodes THEN Count ELSE Count + BurstSize
<1>1. /\ IsFiniteSet(nodes')
      /\ Cardinality(nodes') = IF b \in nodes THEN Cardinality(nodes) ELSE Cardinality(nodes) + 1
  BY FS_AddElement
<1>2. Cardinality(nodes) \in Nat
  BY FS_CardinalityType
<1>3. CASE b \in nodes
  BY <1>1, <1>3 DEF Count
<1>4. CASE b \notin nodes
  BY <1>1, <1>2, <1>4 DEF Count
<1>. QED
  BY <1>1, <1>3, <1>4

LEMMA ExhaustedMeans ==
    ASSUME NEW c, c.max \in Nat, c.used \in Nat
    PROVE  Exhausted(c) <=> c.used >= c.max
  BY DEF Exhausted, Left

\* Nobody else is inside, and what is outside does not depend on the files.
LEMMA OthersOutside ==
    ASSUME CampaignInv, ~raced, NEW p \in IdeaProcs, Inside(p), NEW q \in IdeaProcs, q # p,
           step'[q] = step[q], request'[q] = request[q]
    PROVE  step[q] \in Outside /\ Stage(q)'
<1>1. step[q] \in Outside
  BY DEF CampaignInv, Locked, Inside
<1>. QED
  BY <1>1 DEF CampaignInv, Stage, Outside, Importing

\* A step that leaves the files alone disturbs only where its process stands.
LEMMA FilesAlone ==
    ASSUME CampaignInv, UNCHANGED diskVars
    PROVE  Disk' /\ Usage'
<1>1. UNCHANGED <<records, archive, nodes, nodeLog, campaign>>
  BY DEF diskVars
<1>2. Disk'
  BY <1>1 DEF CampaignInv, Disk
<1>3. Usage'
  BY <1>1 DEF CampaignInv, Usage, Count, HalfDone
<1>. QED
  BY <1>2, <1>3

LEMMA StageKept ==
    ASSUME NEW q \in IdeaProcs, Stage(q), UNCHANGED diskVars,
           step'[q] = step[q], request'[q] = request[q]
    PROVE  Stage(q)'
<1>1. UNCHANGED <<records, archive, nodes, nodeLog, campaign>>
  BY DEF diskVars
<1>2. /\ BurstOf(q)' = BurstOf(q)
      /\ Importing(q)' = Importing(q)
      /\ Allowed(campaign, Method[request[q]])' = Allowed(campaign, Method[request[q]])
      /\ Count' = Count
  BY <1>1 DEF BurstOf, Importing, Allowed, Count, Exhausted, Left
<1>. QED
  BY <1>1, <1>2 DEF Stage

-----------------------------------------------------------------------------
(* Types *)

Campaigns == [status : CampaignStatuses, max : Nat, used : Nat]
RecordSet == [state : {"none", "prepared", "committed"}, mint : Mints,
              expected : [status : CampaignStatuses, used : Nat, left : Nat]]

LEMMA StatusTyped ==
    ASSUME NEW c \in Campaigns
    PROVE  StatusOf(c) \in [status : CampaignStatuses, used : Nat, left : Nat]
<1>1. Left(c) \in Nat
  BY DEF Left, Campaigns
<1>. QED
  BY <1>1 DEF StatusOf, Campaigns

LEMMA MutatedTyped ==
    ASSUME NEW c \in Campaigns, NEW m \in Methods
    PROVE  /\ Mutated(c, m) \in Campaigns
           /\ Mutated(c, m).used = c.used
           /\ Mutated(c, m).max >= c.max
<1>1. c.max \in Nat /\ c.used \in Nat /\ c.status \in CampaignStatuses
  BY DEF Campaigns
<1>2. Mutated(c, m).max = (IF m = "topup" THEN c.max + TopUp ELSE c.max)
      /\ Mutated(c, m).used = c.used
  BY DEF Mutated
<1>3. Mutated(c, m).status \in CampaignStatuses
  BY <1>1 DEF Mutated, CampaignStatuses, Methods
<1>4. Mutated(c, m) = [max |-> Mutated(c, m).max, used |-> Mutated(c, m).used,
                       status |-> Mutated(c, m).status]
  BY DEF Mutated
<1>. QED
  BY <1>1, <1>2, <1>3, <1>4 DEF Campaigns

\* An allowed mutation does not leave a campaign running at its limit.
LEMMA MutatedStatus ==
    ASSUME NEW c \in Campaigns, NEW m \in Methods, Allowed(c, m),
           c.status = "running" => c.used < c.max,
           Mutated(c, m).status = "running"
    PROVE  Mutated(c, m).used < Mutated(c, m).max
<1>1. c.max \in Nat /\ c.used \in Nat
  BY DEF Campaigns
<1>2. Mutated(c, m).max = (IF m = "topup" THEN c.max + TopUp ELSE c.max)
      /\ Mutated(c, m).used = c.used
  BY DEF Mutated
<1>3. CASE m = "topup"
  BY <1>1, <1>2, <1>3 DEF Mutated
<1>4. CASE m = "resume"
  BY <1>1, <1>2, <1>4, ExhaustedMeans DEF Allowed
<1>5. CASE m \notin {"topup", "resume"}
  BY <1>5 DEF Mutated, Methods
<1>. QED
  BY <1>3, <1>4, <1>5

LEMMA CampaignInit ==
    ASSUME IdeaInit
    PROVE  CampaignInv
<1>1. IdeaTypeOK
  <2>1. NoRecord \in RecordSet
    BY DEF NoRecord, RecordOf, NoStatus, RecordSet, Mints, CampaignStatuses
  <2>1a. step \in [IdeaProcs -> Steps]
    BY DEF IdeaInit, Steps, Outside
  <2>1b. request \in [IdeaProcs -> Keys \cup {NoKey}]
    BY DEF IdeaInit
  <2>1c. recovering \in [IdeaProcs -> BOOLEAN]
    BY DEF IdeaInit
  <2>2. /\ lockFile \in IdeaProcs \cup {FreeLock, DeadLock}
        /\ archive \subseteq Bursts /\ nodes \subseteq Bursts
        /\ faults \in 0..MaxFaults
    BY DEF IdeaInit
  <2>2a. raced \in BOOLEAN
    BY DEF IdeaInit
  <2>3. nodeLog \in [Bursts -> Nat] /\ applied \in [Keys -> Nat]
    BY DEF IdeaInit
  <2>4. campaign \in Campaigns
    BY DEF IdeaInit, Campaigns, CampaignStatuses
  <2>5. records \in [Keys -> RecordSet]
    BY <2>1 DEF IdeaInit
  <2>. QED
    BY <2>1a, <2>1b, <2>1c, <2>2, <2>2a, <2>3, <2>4, <2>5 DEF IdeaTypeOK, RecordSet, Campaigns
<1>2. Locked
  BY DEF IdeaInit, Locked, Inside, Outside
<1>3. Disk
  BY DEF IdeaInit, Disk, NoRecord, RecordOf
<1>4. Usage
  <2>1. IsFiniteSet(nodes) /\ Count = 0
    BY FS_EmptySet DEF IdeaInit, Count
  <2>. QED
    BY <2>1 DEF IdeaInit, Usage
<1>5. ASSUME NEW p \in IdeaProcs PROVE Stage(p)
  BY DEF IdeaInit, Stage, Outside, Importing
<1>. QED
  BY <1>1, <1>2, <1>3, <1>4, <1>5 DEF CampaignInv

LEMMA TypeStep ==
    ASSUME CampaignInv, NEW p \in IdeaProcs, IdeaStep(p)
    PROVE  IdeaTypeOK'
<1>. DEFINE Procs == /\ step' \in [IdeaProcs -> Steps]
                     /\ request' \in [IdeaProcs -> Keys \cup {NoKey}]
                     /\ recovering' \in [IdeaProcs -> BOOLEAN]
                     /\ lockFile' \in IdeaProcs \cup {FreeLock, DeadLock}
                     /\ faults' \in 0..MaxFaults
<1>0. /\ lockFile \in IdeaProcs \cup {FreeLock, DeadLock}
      /\ step \in [IdeaProcs -> Steps]
      /\ request \in [IdeaProcs -> Keys \cup {NoKey}]
      /\ recovering \in [IdeaProcs -> BOOLEAN]
      /\ records \in [Keys -> RecordSet]
      /\ archive \subseteq Bursts /\ nodes \subseteq Bursts
      /\ nodeLog \in [Bursts -> Nat]
      /\ campaign \in Campaigns
      /\ applied \in [Keys -> Nat]
      /\ raced \in BOOLEAN /\ faults \in 0..MaxFaults
  BY DEF CampaignInv, IdeaTypeOK, RecordSet, Campaigns
<1>1. step[p] # "idle" => request[p] \in Keys /\ records[request[p]] \in RecordSet
                          /\ Method[request[p]] \in Methods
  BY <1>0 DEF CampaignInv, Stage
<1>2. ASSUME step[p] # "idle", NEW m \in Mints, NEW state \in {"none", "prepared", "committed"},
             NEW e \in [status : CampaignStatuses, used : Nat, left : Nat],
             Record(p, RecordOf(state, m, e))
      PROVE  records' \in [Keys -> RecordSet]
  BY <1>0, <1>1, <1>2 DEF Record, RecordOf, RecordSet
<1>3. NoStatus \in [status : CampaignStatuses, used : Nat, left : Nat] /\ 1 \in Mints
  BY DEF NoStatus, CampaignStatuses, Mints
<1>4. ASSUME step[p] # "idle", Record(p, NoRecord)
      PROVE  records' \in [Keys -> RecordSet]
  BY <1>2, <1>3, <1>4 DEF NoRecord
<1>5. ASSUME step[p] # "idle", Committed(p)
      PROVE  records' \in [Keys -> RecordSet]
  <2>1. /\ records[request[p]].mint \in Mints
        /\ records[request[p]].expected \in [status : CampaignStatuses, used : Nat, left : Nat]
    BY <1>1, <1>5 DEF RecordSet
  <2>. QED
    BY <1>2, <1>5, <2>1 DEF Committed
<1>6. step[p] # "idle" => BurstOf(p) \in Bursts
  BY <1>1 DEF BurstOf, Bursts, RecordSet
<1>7. Count \in Nat
  BY CountNatural DEF CampaignInv, Usage
<1>8. raced' \in BOOLEAN
  <2>1. CASE RemoveStale(p)
    BY <1>0, <2>1 DEF RemoveStale
  <2>2. CASE ~RemoveStale(p)
    <3>1. raced' = raced
      BY <2>2 DEF IdeaStep, Open, FindStale, Reopen, Release, Replay, Refuse, PrepareImport,
         PrepareMutation, RecoverImport, RecoverMutation, WriteArchive, SaveNodes, AppendNodeLog,
         SaveUsage, SaveMutation, Commit, Crash, WriteFails, Rest
    <3>. QED
      BY <1>0, <3>1
  <2>. QED
    BY <2>1, <2>2
<1>. USE <1>0
<1>9. Procs
  <2>1. CASE \E k \in Keys : Open(p, k) \/ FindStale(p, k)
    BY <2>1 DEF Open, FindStale, GoTo, Steps, Outside
  <2>2. CASE RemoveStale(p) \/ Reopen(p) \/ Release(p)
    BY <2>2 DEF RemoveStale, Reopen, Release, GoTo, GoIdle, Steps, Outside
  <2>3. CASE Replay(p) \/ Refuse(p) \/ PrepareImport(p) \/ PrepareMutation(p)
    BY <2>3 DEF Replay, Refuse, PrepareImport, PrepareMutation, GoTo, Steps, Outside, Rest
  <2>4. CASE RecoverImport(p) \/ RecoverMutation(p)
    BY <2>4 DEF RecoverImport, RecoverMutation, GoTo, Steps, Outside, Rest
  <2>5. CASE WriteArchive(p) \/ SaveNodes(p) \/ AppendNodeLog(p)
    BY <2>5 DEF WriteArchive, SaveNodes, AppendNodeLog, GoTo, Steps, Outside, Rest
  <2>6. CASE SaveUsage(p) \/ SaveMutation(p) \/ Commit(p)
    BY <2>6 DEF SaveUsage, SaveMutation, Commit, GoTo, Steps, Outside, Rest
  <2>7. CASE Crash(p)
    <3>1. lockFile' \in IdeaProcs \cup {FreeLock, DeadLock}
      BY <2>7 DEF Crash
    <3>2. faults' \in 0..MaxFaults
      BY <2>7 DEF Crash
    <3>. QED
      BY <2>7, <3>1, <3>2 DEF Crash, GoTo, GoIdle, Steps, Outside
  <2>8. CASE WriteFails(p)
    <3>1. faults' \in 0..MaxFaults
      BY <2>8 DEF WriteFails
    <3>. QED
      BY <2>8, <3>1 DEF WriteFails, GoTo, Steps, Outside
  <2>. QED
    BY <2>1, <2>2, <2>3, <2>4, <2>5, <2>6, <2>7, <2>8 DEF IdeaStep
<1>10. records' \in [Keys -> RecordSet]
  <2>1. CASE PrepareImport(p)
    <3>1. PICK m \in Mints : Record(p, RecordOf("prepared", m, NoStatus))
      BY <2>1 DEF PrepareImport
    <3>. QED
      BY <1>2, <1>3, <2>1, <3>1 DEF PrepareImport, At
  <2>2. CASE PrepareMutation(p)
    <3>1. StatusOf(Mutated(campaign, Method[request[p]]))
             \in [status : CampaignStatuses, used : Nat, left : Nat]
      BY <1>1, <2>2, MutatedTyped, StatusTyped DEF PrepareMutation, At
    <3>. QED
      BY <1>2, <1>3, <2>2, <3>1 DEF PrepareMutation, At
  <2>3. CASE RecoverImport(p)
    BY <1>4, <2>3 DEF RecoverImport, At
  <2>4. CASE RecoverMutation(p)
    BY <1>4, <1>5, <2>4 DEF RecoverMutation, At
  <2>5. CASE Commit(p)
    BY <1>5, <2>5 DEF Commit, At
  <2>6. CASE ~(PrepareImport(p) \/ PrepareMutation(p) \/ RecoverImport(p)
               \/ RecoverMutation(p) \/ Commit(p))
    <3>1. records' = records
      BY <2>6 DEF IdeaStep, Open, FindStale, RemoveStale, Reopen, Release, Replay, Refuse,
         WriteArchive, SaveNodes, AppendNodeLog, SaveUsage, SaveMutation, Crash, WriteFails,
         diskVars
    <3>. QED
      BY <3>1
  <2>. QED
    BY <2>1, <2>2, <2>3, <2>4, <2>5, <2>6
<1>11. /\ archive' \subseteq Bursts /\ nodes' \subseteq Bursts
       /\ nodeLog' \in [Bursts -> Nat]
  <2>1. CASE WriteArchive(p) \/ SaveNodes(p)
    BY <1>6, <2>1 DEF WriteArchive, SaveNodes, At
  <2>2. CASE AppendNodeLog(p)
    <3>1. nodeLog[BurstOf(p)] + 1 \in Nat
      BY <1>6, <2>2 DEF AppendNodeLog, At
    <3>. QED
      BY <2>2, <3>1 DEF AppendNodeLog
  <2>3. CASE ~(WriteArchive(p) \/ SaveNodes(p) \/ AppendNodeLog(p))
    <3>1. UNCHANGED <<archive, nodes, nodeLog>>
      BY <2>3 DEF IdeaStep, Open, FindStale, RemoveStale, Reopen, Release, Replay, Refuse,
         PrepareImport, PrepareMutation, RecoverImport, RecoverMutation,
         SaveUsage, SaveMutation, Commit, Crash, WriteFails, diskVars
    <3>. QED
      BY <3>1
  <2>. QED
    BY <2>1, <2>2, <2>3
<1>12. campaign' \in Campaigns
  <2>1. CASE SaveUsage(p)
    <3>1. campaign.max \in Nat /\ campaign.status \in CampaignStatuses
      BY DEF Campaigns
    <3>. QED
      BY <1>7, <2>1, <3>1 DEF SaveUsage, Campaigns, CampaignStatuses
  <2>2. CASE SaveMutation(p)
    BY <1>1, <2>2, MutatedTyped DEF SaveMutation, At
  <2>3. CASE ~(SaveUsage(p) \/ SaveMutation(p))
    <3>1. campaign' = campaign
      BY <2>3 DEF IdeaStep, Open, FindStale, RemoveStale, Reopen, Release, Replay, Refuse,
         PrepareImport, PrepareMutation, RecoverImport, RecoverMutation,
         WriteArchive, SaveNodes, AppendNodeLog, Commit, Crash, WriteFails, diskVars
    <3>. QED
      BY <3>1
  <2>. QED
    BY <2>1, <2>2, <2>3
<1>13. applied' \in [Keys -> Nat]
  <2>1. CASE SaveMutation(p)
    <3>1. applied[request[p]] + (IF Method[request[p]] = "topup" THEN 1 ELSE 0) \in Nat
      BY <1>1, <2>1 DEF SaveMutation, At
    <3>. QED
      BY <2>1, <3>1 DEF SaveMutation
  <2>2. CASE ~SaveMutation(p)
    <3>1. applied' = applied
      BY <2>2 DEF IdeaStep, Open, FindStale, RemoveStale, Reopen, Release, Replay, Refuse,
         PrepareImport, PrepareMutation, RecoverImport, RecoverMutation,
         WriteArchive, SaveNodes, AppendNodeLog, SaveUsage, Commit, Crash, WriteFails, diskVars
    <3>. QED
      BY <3>1
  <2>. QED
    BY <2>1, <2>2
<1>. QED
  BY <1>8, <1>9, <1>10, <1>11, <1>12, <1>13 DEF IdeaTypeOK, RecordSet, Campaigns

-----------------------------------------------------------------------------
(* Steps outside the files                                                 *)

\* The lock moves as the file says: who enters found it free.
LEMMA LockStep ==
    ASSUME CampaignInv, ~raced, NEW p \in IdeaProcs, IdeaStep(p)
    PROVE  /\ Locked'
           /\ \A q \in IdeaProcs : q # p => step'[q] = step[q] /\ request'[q] = request[q]
<1>0. /\ step \in [IdeaProcs -> Steps] /\ request \in [IdeaProcs -> Keys \cup {NoKey}]
      /\ \A q \in IdeaProcs : Inside(q) => lockFile = q
  BY DEF CampaignInv, IdeaTypeOK, Locked
<1>. USE <1>0
<1>1. CASE \E k \in Keys : Open(p, k) \/ FindStale(p, k)
  BY <1>1 DEF Open, FindStale, GoTo, Locked, Inside, Outside
<1>2. CASE RemoveStale(p)
  BY <1>2 DEF RemoveStale, GoTo, Locked, Inside, Outside
<1>3. CASE Reopen(p)
  BY <1>3 DEF Reopen, GoTo, GoIdle, Locked, Inside, Outside
<1>4. CASE Release(p)
  BY <1>4 DEF Release, GoIdle, GoTo, Locked, Inside, Outside
<1>5. CASE Crash(p)
  BY <1>5 DEF Crash, GoIdle, GoTo, Locked, Inside, Outside
<1>6. CASE ~(\/ \E k \in Keys : Open(p, k) \/ FindStale(p, k)
             \/ RemoveStale(p) \/ Reopen(p) \/ Release(p) \/ Crash(p))
  <2>1. /\ step[p] \notin Outside /\ UNCHANGED <<lockFile, request, raced>>
        /\ \/ UNCHANGED step
           \/ \E s \in Steps : step' = [step EXCEPT ![p] = s]
    BY <1>6 DEF IdeaStep, Replay, Refuse, PrepareImport, PrepareMutation, RecoverImport,
       RecoverMutation, WriteArchive, SaveNodes, AppendNodeLog, SaveUsage, SaveMutation,
       Commit, WriteFails, Rest, At, GoTo, Outside, Steps
  <2>. QED
    BY <2>1 DEF Locked, Inside
<1>. QED
  BY <1>1, <1>2, <1>3, <1>4, <1>5, <1>6

\* What a step that leaves the files alone, or only fails, does to its process.
LEMMA QuietIdeaStep ==
    ASSUME CampaignInv, ~raced, NEW p \in IdeaProcs,
           \/ \E k \in Keys : Open(p, k) \/ FindStale(p, k)
           \/ RemoveStale(p) \/ Reopen(p) \/ Release(p) \/ Replay(p) \/ Refuse(p)
           \/ Crash(p) \/ WriteFails(p)
    PROVE  CampaignInv'
<1>1. IdeaStep(p)
  BY DEF IdeaStep
<1>2. /\ UNCHANGED diskVars
      /\ step'[p] \in Outside \cup {"inside", "release"}
      /\ step'[p] # "idle" => request'[p] \in Keys
  <2>1. /\ step \in [IdeaProcs -> Steps] /\ request \in [IdeaProcs -> Keys \cup {NoKey}]
        /\ Stage(p)
    BY DEF CampaignInv, IdeaTypeOK
  <2>. QED
    BY <2>1 DEF Open, FindStale, RemoveStale, Reopen, Release, Replay, Refuse, Crash, WriteFails,
       GoTo, GoIdle, Stage, Rest, Outside, At
<1>3. IdeaTypeOK'
  BY <1>1, TypeStep
<1>4. Locked' /\ \A q \in IdeaProcs : q # p => step'[q] = step[q] /\ request'[q] = request[q]
  BY <1>1, LockStep
<1>5. Disk' /\ Usage'
  BY <1>2, FilesAlone
<1>6. Stage(p)'
  BY <1>2 DEF Stage, Importing, Outside
<1>7. ASSUME NEW q \in IdeaProcs, q # p PROVE Stage(q)'
  BY <1>2, <1>4, <1>7, StageKept DEF CampaignInv
<1>. QED
  BY <1>3, <1>4, <1>5, <1>6, <1>7 DEF CampaignInv

-----------------------------------------------------------------------------
(* Steps that write a file: their process is the only one inside.          *)

LEMMA WriterStep ==
    ASSUME CampaignInv, ~raced, NEW p \in IdeaProcs, IdeaStep(p), Inside(p),
           Disk', Usage', Stage(p)'
    PROVE  CampaignInv'
<1>1. IdeaTypeOK'
  BY TypeStep
<1>2. Locked' /\ \A q \in IdeaProcs : q # p => step'[q] = step[q] /\ request'[q] = request[q]
  BY LockStep
<1>3. ASSUME NEW q \in IdeaProcs, q # p PROVE Stage(q)'
  BY <1>2, <1>3, OthersOutside
<1>. QED
  BY <1>1, <1>2, <1>3 DEF CampaignInv

LEMMA WriterFacts ==
    ASSUME CampaignInv, NEW p \in IdeaProcs, Inside(p)
    PROVE  /\ request[p] \in Keys /\ Method[request[p]] \in Methods
           /\ records[request[p]] \in RecordSet
           /\ BurstOf(p) \in Bursts /\ BurstOf(p)[1] = request[p]
           /\ BurstOf(p)[2] = records[request[p]].mint
           /\ BurstOf(p) = <<request[p], records[request[p]].mint>>
           /\ step \in [IdeaProcs -> Steps] /\ records \in [Keys -> RecordSet]
           /\ Stage(p)
<1>1. step \in [IdeaProcs -> Steps] /\ records \in [Keys -> RecordSet] /\ Stage(p)
  BY DEF CampaignInv, IdeaTypeOK, RecordSet
<1>2. request[p] \in Keys
  BY <1>1 DEF Stage, Inside, Outside
<1>3. records[request[p]] \in RecordSet /\ Method[request[p]] \in Methods
  BY <1>1, <1>2
<1>4. records[request[p]].mint \in Mints
  BY <1>3 DEF RecordSet
<1>. QED
  BY <1>1, <1>2, <1>3, <1>4 DEF BurstOf, Bursts

\* Replacing the record of a key none of whose nodes, pack or usage it governs.
LEMMA RecordReplaced ==
    ASSUME CampaignInv, NEW k \in Keys, NEW r \in RecordSet,
           records' = [records EXCEPT ![k] = r],
           UNCHANGED <<archive, nodes, nodeLog, campaign>>,
           r.state # "committed" \/ Method[k] # "import",
           \A b \in archive : b[1] # k
    PROVE  Disk' /\ Usage'
<1>1. records \in [Keys -> RecordSet] /\ archive \subseteq Bursts /\ nodes \subseteq archive
  BY DEF CampaignInv, IdeaTypeOK, RecordSet, Disk
<1>2. \A x \in Keys : x # k => records'[x] = records[x]
  BY <1>1
<1>3. records'[k] = r
  BY <1>1
<1>4. Disk'
  <2>1. \A b \in archive : b[1] \in Keys /\ b[1] # k
    BY <1>1 DEF Bursts
  <2>2. \A b \in archive : /\ Method[b[1]] = "import"
                            /\ records'[b[1]].state # "none" /\ records'[b[1]].mint = b[2]
    BY <1>2, <2>1 DEF CampaignInv, Disk
  <2>3. \A x \in Keys : Method[x] = "import" /\ records'[x].state = "committed" =>
          LET b == <<x, records'[x].mint>>
          IN b \in nodes /\ nodeLog[b] = BurstSize
    BY <1>2, <1>3 DEF CampaignInv, Disk
  <2>. QED
    BY <2>2, <2>3 DEF CampaignInv, Disk
<1>5. Usage'
  <2>1. ASSUME NEW x \in Keys, HalfDone(x) PROVE HalfDone(x)'
    <3>1. <<x, records[x].mint>> \in archive
      BY <1>1, <2>1 DEF HalfDone
    <3>2. x # k
      BY <3>1
    <3>. QED
      BY <1>2, <2>1, <3>2 DEF HalfDone
  <2>2. Count' = Count
    BY DEF Count
  <2>. QED
    BY <2>1, <2>2 DEF CampaignInv, Usage
<1>. QED
  BY <1>4, <1>5

LEMMA PrepareImportKeeps ==
    ASSUME CampaignInv, ~raced, NEW p \in IdeaProcs, PrepareImport(p)
    PROVE  CampaignInv'
<1>. DEFINE k == request[p]
<1>0. Inside(p) /\ IdeaStep(p)
  BY DEF Inside, PrepareImport, At, Outside, IdeaStep
<1>1. PICK m \in Mints : Record(p, RecordOf("prepared", m, NoStatus))
  BY DEF PrepareImport
<1>2. RecordOf("prepared", m, NoStatus) \in RecordSet
      /\ RecordOf("prepared", m, NoStatus).state = "prepared"
  BY DEF RecordOf, RecordSet, NoStatus, CampaignStatuses
<1>3. \A b \in archive : b[1] # k
  BY DEF CampaignInv, Disk, PrepareImport
<1>4. Disk' /\ Usage'
  BY <1>0, <1>1, <1>2, <1>3, WriterFacts, RecordReplaced DEF Record, PrepareImport
<1>5. Stage(p)'
  <2>1. step'[p] = "archive" /\ request'[p] = k /\ records'[k].state = "prepared"
        /\ Method[k] = "import"
    BY <1>0, <1>1, <1>2, WriterFacts DEF PrepareImport, GoTo, Rest, Record
  <2>. QED
    BY <1>0, <2>1, WriterFacts DEF Stage, Importing, Outside
<1>. QED
  BY <1>0, <1>4, <1>5, WriterStep

LEMMA PrepareMutationKeeps ==
    ASSUME CampaignInv, ~raced, NEW p \in IdeaProcs, PrepareMutation(p)
    PROVE  CampaignInv'
<1>. DEFINE k == request[p]
            r == RecordOf("prepared", 1, StatusOf(Mutated(campaign, Method[k])))
<1>0. Inside(p) /\ IdeaStep(p)
  BY DEF Inside, PrepareMutation, At, Outside, IdeaStep
<1>1. campaign \in Campaigns
  BY DEF CampaignInv, IdeaTypeOK, Campaigns
<1>2. StatusOf(Mutated(campaign, Method[k])) \in [status : CampaignStatuses, used : Nat, left : Nat]
  BY <1>0, <1>1, WriterFacts, MutatedTyped, StatusTyped
<1>3. r \in RecordSet /\ r.state = "prepared"
  BY <1>2 DEF RecordOf, RecordSet, Mints
<1>4. Method[k] # "import" /\ records' = [records EXCEPT ![k] = r]
      /\ UNCHANGED <<archive, nodes, nodeLog, campaign>>
  BY DEF PrepareMutation, Record
<1>5. \A b \in archive : b[1] # k
  BY <1>4 DEF CampaignInv, Disk
<1>. HIDE DEF r
<1>6. Disk' /\ Usage'
  BY <1>0, <1>3, <1>4, <1>5, WriterFacts, RecordReplaced
<1>7. Stage(p)'
  <2>1. step'[p] = "save" /\ request'[p] = k /\ records'[k].state = "prepared"
    BY <1>0, <1>3, <1>4, WriterFacts DEF PrepareMutation, GoTo, Rest
  <2>2. Allowed(campaign, Method[k])
    BY <1>4 DEF PrepareMutation, Accepted
  <2>3. Allowed(campaign, Method[k])'
    BY <1>4, <2>1, <2>2 DEF Allowed, Exhausted, Left
  <2>. QED
    BY <1>0, <1>4, <2>1, <2>3, WriterFacts DEF Stage, Importing, Outside
<1>. QED
  BY <1>0, <1>6, <1>7, WriterStep

LEMMA RecoverImportKeeps ==
    ASSUME CampaignInv, ~raced, NEW p \in IdeaProcs, RecoverImport(p)
    PROVE  CampaignInv'
<1>. DEFINE k == request[p]
<1>0. Inside(p) /\ IdeaStep(p)
  BY DEF Inside, RecoverImport, At, Outside, IdeaStep
<1>1. /\ records[k].state = "prepared" /\ Method[k] = "import" /\ step[p] = "inside"
      /\ UNCHANGED <<archive, nodes, nodeLog, campaign, applied, request>>
  BY DEF RecoverImport, At, Rest
<1>2. CASE BurstOf(p) \notin archive \cup nodes /\ Record(p, NoRecord) /\ UNCHANGED step
  <2>1. NoRecord \in RecordSet /\ NoRecord.state = "none"
    BY DEF NoRecord, RecordOf, RecordSet, NoStatus, CampaignStatuses, Mints
  <2>2. \A b \in archive : b[1] # k
    <3>1. ASSUME NEW b \in archive, b[1] = k PROVE b = BurstOf(p)
      <4>1. b \in Bursts /\ records[k].mint = b[2]
        BY <3>1 DEF CampaignInv, IdeaTypeOK, Disk
      <4>. QED
        BY <3>1, <4>1 DEF Bursts, BurstOf
    <3>. QED
      BY <1>2, <3>1
  <2>3. Disk' /\ Usage'
    BY <1>0, <1>1, <1>2, <2>1, <2>2, WriterFacts, RecordReplaced DEF Record
  <2>4. Stage(p)'
    BY <1>0, <1>1, <1>2, WriterFacts DEF Stage, Importing, Outside
  <2>. QED
    BY <1>0, <2>3, <2>4, WriterStep
<1>3. CASE BurstOf(p) \in archive /\ GoTo(p, "nodes") /\ UNCHANGED records
  <2>1. UNCHANGED diskVars
    BY <1>1, <1>3 DEF diskVars
  <2>2. step'[p] = "nodes" /\ request'[p] = k /\ BurstOf(p)' = BurstOf(p)
    BY <1>0, <1>1, <1>3, WriterFacts DEF GoTo, BurstOf
  <2>3. Stage(p)'
    BY <1>0, <1>1, <1>3, <2>1, <2>2, WriterFacts DEF Stage, Importing, Outside, diskVars
  <2>. QED
    BY <1>0, <2>1, <2>3, FilesAlone, WriterStep
<1>. QED
  BY <1>2, <1>3 DEF RecoverImport

LEMMA RecoverMutationKeeps ==
    ASSUME CampaignInv, ~raced, NEW p \in IdeaProcs, RecoverMutation(p)
    PROVE  CampaignInv'
<1>. DEFINE k == request[p]
<1>0. Inside(p) /\ IdeaStep(p)
  BY DEF Inside, RecoverMutation, At, Outside, IdeaStep
<1>1. PICK r \in RecordSet : /\ records' = [records EXCEPT ![k] = r]
                             /\ \/ step' = [step EXCEPT ![p] = "release"]
                                \/ UNCHANGED step
  <2>1. NoRecord \in RecordSet
    BY DEF NoRecord, RecordOf, RecordSet, NoStatus, CampaignStatuses, Mints
  <2>2. RecordOf("committed", records[k].mint, records[k].expected) \in RecordSet
    BY <1>0, WriterFacts DEF RecordOf, RecordSet
  <2>. QED
    BY <2>1, <2>2 DEF RecoverMutation, Record, Committed, GoTo
<1>2. /\ Method[k] # "import" /\ step[p] = "inside"
      /\ UNCHANGED <<archive, nodes, nodeLog, campaign, request>>
  BY DEF RecoverMutation, At, Rest
<1>3. \A b \in archive : b[1] # k
  BY <1>2 DEF CampaignInv, Disk
<1>4. Disk' /\ Usage'
  BY <1>0, <1>1, <1>2, <1>3, WriterFacts, RecordReplaced
<1>5. Stage(p)'
  <2>1. step'[p] \in {"inside", "release"} /\ request'[p] \in Keys
    BY <1>0, <1>1, <1>2, WriterFacts
  <2>. QED
    BY <2>1 DEF Stage, Importing, Outside
<1>. QED
  BY <1>0, <1>4, <1>5, WriterStep

LEMMA WriteArchiveKeeps ==
    ASSUME CampaignInv, ~raced, NEW p \in IdeaProcs, WriteArchive(p)
    PROVE  CampaignInv'
<1>. DEFINE k == request[p]
<1>0. Inside(p) /\ IdeaStep(p)
  BY DEF Inside, WriteArchive, At, Outside, IdeaStep
<1>1. /\ archive' = archive \cup {BurstOf(p)} /\ step' = [step EXCEPT ![p] = "nodes"]
      /\ UNCHANGED <<records, nodes, nodeLog, campaign, request>> /\ step[p] = "archive"
  BY DEF WriteArchive, GoTo, Rest, At
<1>2. Method[k] = "import" /\ records[k].state = "prepared"
  BY <1>0, <1>1, WriterFacts DEF Stage, Outside
<1>3. Disk'
  <2>1. \A b \in archive' : /\ Method[b[1]] = "import"
                             /\ records[b[1]].state # "none" /\ records[b[1]].mint = b[2]
    BY <1>0, <1>1, <1>2, WriterFacts DEF CampaignInv, Disk
  <2>. QED
    BY <1>1, <2>1 DEF CampaignInv, Disk
<1>4. Usage'
  BY <1>1 DEF CampaignInv, Usage, HalfDone, Count
<1>5. Stage(p)'
  <2>1. step'[p] = "nodes" /\ BurstOf(p)' = BurstOf(p) /\ BurstOf(p) \in archive'
    BY <1>0, <1>1, WriterFacts DEF BurstOf
  <2>. QED
    BY <1>0, <1>1, <1>2, <2>1, WriterFacts DEF Stage, Importing, Outside
<1>. QED
  BY <1>0, <1>3, <1>4, <1>5, WriterStep

LEMMA SaveNodesKeeps ==
    ASSUME CampaignInv, ~raced, NEW p \in IdeaProcs, SaveNodes(p)
    PROVE  CampaignInv'
<1>. DEFINE k == request[p]
<1>0. Inside(p) /\ IdeaStep(p)
  BY DEF Inside, SaveNodes, At, Outside, IdeaStep
<1>1. /\ nodes' = nodes \cup {BurstOf(p)} /\ step' = [step EXCEPT ![p] = "log"]
      /\ UNCHANGED <<records, archive, nodeLog, campaign, request>> /\ step[p] = "nodes"
  BY DEF SaveNodes, GoTo, Rest, At
<1>2. Method[k] = "import" /\ records[k].state = "prepared" /\ BurstOf(p) \in archive
  BY <1>0, <1>1, WriterFacts DEF Stage, Outside
<1>3. Disk'
  BY <1>1, <1>2 DEF CampaignInv, Disk
<1>4. Usage'
  <2>1. IsFiniteSet(nodes) /\ campaign.used <= Count /\ Count \in Nat /\ campaign.used \in Nat
    BY CountNatural DEF CampaignInv, Usage, IdeaTypeOK
  <2>2. /\ IsFiniteSet(nodes')
        /\ Count' = IF BurstOf(p) \in nodes THEN Count ELSE Count + BurstSize
    BY <1>1, <2>1, CountGrows
  <2>3. HalfDone(k)' /\ k \in Keys
    BY <1>0, <1>1, <1>2, WriterFacts DEF HalfDone
  <2>4. CASE BurstOf(p) \in nodes
    BY <1>1, <2>1, <2>2, <2>3, <2>4 DEF CampaignInv, Usage
  <2>5. CASE BurstOf(p) \notin nodes
    BY <1>1, <2>1, <2>2, <2>3, <2>5 DEF Usage
  <2>. QED
    BY <2>4, <2>5
<1>5. Stage(p)'
  <2>1. step'[p] = "log" /\ BurstOf(p)' = BurstOf(p) /\ BurstOf(p) \in nodes'
    BY <1>0, <1>1, WriterFacts DEF BurstOf
  <2>. QED
    BY <1>0, <1>1, <1>2, <2>1, WriterFacts DEF Stage, Importing, Outside
<1>. QED
  BY <1>0, <1>3, <1>4, <1>5, WriterStep

LEMMA AppendNodeLogKeeps ==
    ASSUME CampaignInv, ~raced, NEW p \in IdeaProcs, AppendNodeLog(p)
    PROVE  CampaignInv'
<1>. DEFINE k == request[p]
<1>0. Inside(p) /\ IdeaStep(p)
  BY DEF Inside, AppendNodeLog, At, Outside, IdeaStep
<1>1. /\ UNCHANGED <<records, archive, nodes, campaign, request>> /\ step[p] = "log"
      /\ nodeLog \in [Bursts -> Nat]
  BY DEF AppendNodeLog, Rest, At, CampaignInv, IdeaTypeOK
<1>2. /\ Method[k] = "import" /\ records[k].state = "prepared"
      /\ BurstOf(p) \in archive /\ BurstOf(p) \in nodes
  BY <1>0, <1>1, WriterFacts DEF Stage, Outside
<1>3. Usage'
  BY <1>1 DEF CampaignInv, Usage, HalfDone, Count
<1>4. BurstOf(p)' = BurstOf(p)
  BY <1>1 DEF BurstOf
<1>5. CASE /\ nodeLog[BurstOf(p)] < BurstSize
           /\ nodeLog' = [nodeLog EXCEPT ![BurstOf(p)] = @ + 1]
           /\ UNCHANGED step
  <2>1. nodeLog[BurstOf(p)] \in Nat /\ nodeLog'[BurstOf(p)] = nodeLog[BurstOf(p)] + 1
        /\ \A b \in Bursts : b # BurstOf(p) => nodeLog'[b] = nodeLog[b]
    BY <1>0, <1>1, <1>5, WriterFacts
  <2>2. \A b \in Bursts : nodeLog'[b] <= BurstSize /\ (nodeLog'[b] > 0 => b \in nodes)
    BY <1>2, <1>5, <2>1 DEF CampaignInv, Disk
  <2>3. ASSUME NEW x \in Keys, Method[x] = "import", records[x].state = "committed"
        PROVE  <<x, records[x].mint>> \in nodes /\ nodeLog'[<<x, records[x].mint>>] = BurstSize
    <3>1. x # k
      BY <1>2, <2>3
    <3>2. <<x, records[x].mint>> # BurstOf(p)
      BY <3>1 DEF BurstOf
    <3>3. <<x, records[x].mint>> \in nodes /\ nodeLog[<<x, records[x].mint>>] = BurstSize
      BY <2>3 DEF CampaignInv, Disk
    <3>4. <<x, records[x].mint>> \in Bursts
      BY <3>3 DEF CampaignInv, IdeaTypeOK
    <3>. QED
      BY <2>1, <3>2, <3>3, <3>4
  <2>4. Disk'
    BY <1>1, <2>2, <2>3 DEF CampaignInv, Disk
  <2>5. Stage(p)'
    BY <1>0, <1>1, <1>2, <1>4, <1>5, WriterFacts DEF Stage, Importing, Outside
  <2>. QED
    BY <1>0, <1>3, <2>4, <2>5, WriterStep
<1>6. CASE /\ nodeLog[BurstOf(p)] >= BurstSize
           /\ step' = [step EXCEPT ![p] = "usage"]
           /\ UNCHANGED nodeLog
  <2>1. Disk'
    BY <1>1, <1>6 DEF CampaignInv, Disk
  <2>2. nodeLog[BurstOf(p)] <= BurstSize /\ nodeLog[BurstOf(p)] \in Nat
    BY <1>0, <1>1, WriterFacts DEF CampaignInv, Disk
  <2>3. nodeLog[BurstOf(p)] = BurstSize
    BY <1>6, <2>2
  <2>4. step'[p] = "usage"
    BY <1>0, <1>6, WriterFacts
  <2>5. Stage(p)'
    BY <1>0, <1>1, <1>2, <1>4, <1>6, <2>3, <2>4, WriterFacts DEF Stage, Importing, Outside
  <2>. QED
    BY <1>0, <1>3, <2>1, <2>5, WriterStep
<1>. QED
  BY <1>5, <1>6 DEF AppendNodeLog, GoTo

LEMMA SaveUsageKeeps ==
    ASSUME CampaignInv, ~raced, NEW p \in IdeaProcs, SaveUsage(p)
    PROVE  CampaignInv'
<1>. DEFINE k == request[p]
            c == [campaign EXCEPT !.used = Count]
            kept == recovering[p] /\ (campaign.used = Count \/ campaign.status # "running")
<1>0. Inside(p) /\ IdeaStep(p)
  BY DEF Inside, SaveUsage, At, Outside, IdeaStep
<1>1. /\ UNCHANGED <<records, archive, nodes, nodeLog, request>> /\ step[p] = "usage"
      /\ step' = [step EXCEPT ![p] = "commit"]
  BY DEF SaveUsage, GoTo, Rest, At
<1>2. /\ Method[k] = "import" /\ records[k].state = "prepared"
      /\ BurstOf(p) \in archive /\ BurstOf(p) \in nodes /\ nodeLog[BurstOf(p)] = BurstSize
  BY <1>0, <1>1, WriterFacts DEF Stage, Outside
<1>3. campaign \in Campaigns /\ Count \in Nat /\ Count' = Count /\ IsFiniteSet(nodes)
  BY <1>1, CountNatural DEF CampaignInv, IdeaTypeOK, Usage, Count, Campaigns
<1>4. /\ campaign'.used = Count /\ campaign'.max = campaign.max
      /\ campaign'.status = IF kept THEN campaign.status
                            ELSE IF Exhausted(c) THEN "exhausted" ELSE "running"
  BY DEF SaveUsage
<1>5. c.used = Count /\ c.max = campaign.max /\ campaign.max \in Nat
  BY <1>3 DEF Campaigns
<1>6. Exhausted(c) <=> Count >= campaign.max
  <2>. HIDE DEF c
  <2>. QED
    BY <1>3, <1>5, ExhaustedMeans
<1>7. campaign'.status = "running" => Count < campaign.max
  <2>1. CASE kept
    BY <1>4, <2>1 DEF CampaignInv, Usage
  <2>2. CASE ~kept
    <3>. HIDE DEF c, kept
    <3>. QED
      BY <1>3, <1>4, <1>5, <1>6, <2>2
  <2>. QED
    BY <2>1, <2>2
<1>8. Disk'
  BY <1>1 DEF CampaignInv, Disk
<1>9. Usage'
  BY <1>1, <1>3, <1>4, <1>7 DEF Usage
<1>10. Stage(p)'
  <2>1. step'[p] = "commit" /\ BurstOf(p)' = BurstOf(p)
    BY <1>0, <1>1, WriterFacts DEF BurstOf
  <2>. QED
    BY <1>0, <1>1, <1>2, <1>3, <1>4, <2>1, WriterFacts DEF Stage, Importing, Outside
<1>. QED
  BY <1>0, <1>8, <1>9, <1>10, WriterStep

LEMMA SaveMutationKeeps ==
    ASSUME CampaignInv, ~raced, NEW p \in IdeaProcs, SaveMutation(p)
    PROVE  CampaignInv'
<1>. DEFINE k == request[p]
<1>0. Inside(p) /\ IdeaStep(p)
  BY DEF Inside, SaveMutation, At, Outside, IdeaStep
<1>1. /\ UNCHANGED <<records, archive, nodes, nodeLog, request>> /\ step[p] = "save"
      /\ step' = [step EXCEPT ![p] = "commit"] /\ campaign' = Mutated(campaign, Method[k])
  BY DEF SaveMutation, GoTo, Rest, At
<1>2. /\ Method[k] # "import" /\ records[k].state = "prepared" /\ Allowed(campaign, Method[k])
      /\ k \in Keys /\ Method[k] \in Methods
  BY <1>0, <1>1, WriterFacts DEF Stage, Outside
<1>3. campaign \in Campaigns
  BY DEF CampaignInv, IdeaTypeOK, Campaigns
<1>4. campaign'.used = campaign.used
  BY <1>1, <1>2, <1>3, MutatedTyped
<1>5. Count' = Count
  BY <1>1 DEF Count
<1>6. Disk'
  BY <1>1 DEF CampaignInv, Disk
<1>7. Usage'
  <2>1. campaign.used = Count /\ campaign'.status = "running" => campaign'.used < campaign'.max
    BY <1>1, <1>2, <1>3, MutatedStatus DEF CampaignInv, Usage
  <2>2. \A x \in Keys : HalfDone(x)' = HalfDone(x)
    BY <1>1 DEF HalfDone
  <2>. QED
    BY <1>1, <1>4, <1>5, <2>1, <2>2 DEF CampaignInv, Usage
<1>8. Stage(p)'
  <2>1. step'[p] = "commit"
    BY <1>0, <1>1, WriterFacts
  <2>. QED
    BY <1>0, <1>1, <1>2, <2>1, WriterFacts DEF Stage, Importing, Outside
<1>. QED
  BY <1>0, <1>6, <1>7, <1>8, WriterStep

LEMMA CommitKeeps ==
    ASSUME CampaignInv, ~raced, NEW p \in IdeaProcs, Commit(p)
    PROVE  CampaignInv'
<1>. DEFINE k == request[p]
            r == RecordOf("committed", records[k].mint, records[k].expected)
<1>0. Inside(p) /\ IdeaStep(p)
  BY DEF Inside, Commit, At, Outside, IdeaStep
<1>1. /\ UNCHANGED <<archive, nodes, nodeLog, campaign, request>> /\ step[p] = "commit"
      /\ step' = [step EXCEPT ![p] = "release"] /\ records' = [records EXCEPT ![k] = r]
  BY DEF Commit, Committed, Record, GoTo, Rest, At
<1>2. /\ records[k].state = "prepared" /\ k \in Keys /\ records[k] \in RecordSet
      /\ Method[k] = "import" => /\ BurstOf(p) \in nodes /\ nodeLog[BurstOf(p)] = BurstSize
                                 /\ campaign.used = Count
  BY <1>0, <1>1, WriterFacts DEF Stage, Importing, Outside
<1>3. r.state = "committed" /\ r.mint = records[k].mint
  BY DEF RecordOf
<1>. HIDE DEF r
<1>4. records'[k] = r /\ \A x \in Keys : x # k => records'[x] = records[x]
  BY <1>0, <1>1, WriterFacts
<1>5. Count' = Count
  BY <1>1 DEF Count
<1>6. Disk'
  <2>1. \A b \in archive : /\ Method[b[1]] = "import"
                            /\ records'[b[1]].state # "none" /\ records'[b[1]].mint = b[2]
    <3>1. \A b \in archive : b[1] \in Keys
      BY DEF CampaignInv, IdeaTypeOK, Bursts
    <3>. QED
      BY <1>3, <1>4, <3>1 DEF CampaignInv, Disk
  <2>2. ASSUME NEW x \in Keys, Method[x] = "import", records'[x].state = "committed"
        PROVE  <<x, records'[x].mint>> \in nodes /\ nodeLog[<<x, records'[x].mint>>] = BurstSize
    <3>1. CASE x = k
      BY <1>2, <1>3, <1>4, <2>2, <3>1 DEF BurstOf
    <3>2. CASE x # k
      BY <1>4, <2>2, <3>2 DEF CampaignInv, Disk
    <3>. QED
      BY <3>1, <3>2
  <2>. QED
    BY <1>1, <2>1, <2>2 DEF CampaignInv, Disk
<1>7. Usage'
  <2>1. ASSUME campaign.used # Count PROVE \E x \in Keys : HalfDone(x)'
    <3>1. Method[k] # "import"
      BY <1>2, <2>1
    <3>2. PICK x \in Keys : HalfDone(x)
      BY <2>1 DEF CampaignInv, Usage
    <3>3. x # k
      BY <3>1, <3>2 DEF HalfDone
    <3>4. HalfDone(x)'
      BY <1>1, <1>4, <3>2, <3>3 DEF HalfDone
    <3>. QED
      BY <3>4
  <2>. QED
    BY <1>1, <1>5, <2>1 DEF CampaignInv, Usage
<1>8. Stage(p)'
  <2>1. step'[p] = "release" /\ request'[p] \in Keys
    BY <1>0, <1>1, <1>2, WriterFacts
  <2>. QED
    BY <2>1 DEF Stage, Importing, Outside
<1>. QED
  BY <1>0, <1>6, <1>7, <1>8, WriterStep

-----------------------------------------------------------------------------
LEMMA CampaignInvStep ==
    ASSUME CampaignInv, [IdeaNext]_ideaVars
    PROVE  CampaignInv'
<1>1. CASE UNCHANGED ideaVars
  <2>1. UNCHANGED <<lockFile, step, request, recovering, records, archive, nodes, nodeLog,
                    campaign, applied, raced, faults>> /\ UNCHANGED diskVars
    BY <1>1 DEF ideaVars, diskVars
  <2>2. IdeaTypeOK' /\ Locked'
    BY <2>1 DEF CampaignInv, IdeaTypeOK, Locked, Inside
  <2>3. Disk' /\ Usage'
    BY <2>1, FilesAlone
  <2>4. ASSUME NEW q \in IdeaProcs PROVE Stage(q)'
    BY <2>1, StageKept DEF CampaignInv
  <2>. QED
    BY <2>2, <2>3, <2>4 DEF CampaignInv
<1>2. ASSUME ~raced, NEW p \in IdeaProcs, IdeaStep(p)
      PROVE  CampaignInv'
  BY <1>2, QuietIdeaStep, PrepareImportKeeps, PrepareMutationKeeps, RecoverImportKeeps,
     RecoverMutationKeeps, WriteArchiveKeeps, SaveNodesKeeps, AppendNodeLogKeeps,
     SaveUsageKeeps, SaveMutationKeeps, CommitKeeps DEF IdeaStep
<1>. QED
  BY <1>1, <1>2 DEF IdeaNext

LEMMA CampaignInvHolds == IdeaSpec => []CampaignInv
<1>1. IdeaInit => CampaignInv
  BY CampaignInit
<1>2. CampaignInv /\ [IdeaNext]_ideaVars => CampaignInv'
  BY CampaignInvStep
<1>. QED
  BY <1>1, <1>2, PTL DEF IdeaSpec

-----------------------------------------------------------------------------
(* The store keeps what CampaignStore promises.                            *)

\* While a process is inside, nobody else touches the campaign: a new import still finds
\* it running, and any other request finds it as it was when its outcome was foreseen.
Foreseen(p) ==
    /\ step[p] = "archive" \/ (step[p] \in {"nodes", "log", "usage"} /\ ~recovering[p])
       => campaign.status = "running"
    /\ step[p] = "save" =>
          records[request[p]].expected = StatusOf(Mutated(campaign, Method[request[p]]))
    /\ step[p] = "commit" /\ Method[request[p]] # "import" =>
          StatusOf(campaign) = records[request[p]].expected

ForeseenInv == \A p \in IdeaProcs : Foreseen(p)

LEMMA ForeseenOthers ==
    ASSUME CampaignInv, ForeseenInv, ~raced, NEW p \in IdeaProcs, IdeaStep(p),
           NEW q \in IdeaProcs, q # p, Inside(p) \/ UNCHANGED diskVars
    PROVE  Foreseen(q)'
<1>1. step'[q] = step[q] /\ request'[q] = request[q]
  BY LockStep
<1>2. recovering'[q] = recovering[q]
  <2>1. recovering \in [IdeaProcs -> BOOLEAN]
    BY DEF CampaignInv, IdeaTypeOK
  <2>. QED
    BY <2>1 DEF IdeaStep, Open, FindStale, RemoveStale, Reopen, Release, Replay, Refuse,
       PrepareImport, PrepareMutation, RecoverImport, RecoverMutation, WriteArchive, SaveNodes,
       AppendNodeLog, SaveUsage, SaveMutation, Commit, Crash, WriteFails, GoIdle
<1>3. CASE Inside(p)
  <2>1. step[q] \in Outside
    BY <1>1, <1>3, OthersOutside
  <2>. QED
    BY <1>1, <2>1 DEF Foreseen, Outside
<1>4. CASE UNCHANGED diskVars
  <2>1. UNCHANGED <<records, campaign>>
    BY <1>4 DEF diskVars
  <2>2. StatusOf(Mutated(campaign, Method[request[q]]))' = StatusOf(Mutated(campaign, Method[request[q]]))
        /\ StatusOf(campaign)' = StatusOf(campaign)
    BY <1>1, <2>1 DEF StatusOf, Mutated, Left
  <2>. QED
    BY <1>1, <1>2, <2>1, <2>2 DEF ForeseenInv, Foreseen
<1>. QED
  BY <1>3, <1>4

LEMMA ForeseenOwn ==
    ASSUME CampaignInv, ForeseenInv, NEW p \in IdeaProcs, IdeaStep(p)
    PROVE  Foreseen(p)'
<1>0. /\ step \in [IdeaProcs -> Steps] /\ request \in [IdeaProcs -> Keys \cup {NoKey}]
      /\ recovering \in [IdeaProcs -> BOOLEAN]
      /\ Foreseen(p)
  BY DEF CampaignInv, IdeaTypeOK, ForeseenInv
<1>1. CASE step'[p] \in {"idle", "stale", "reopen", "inside", "release"}
  BY <1>1 DEF Foreseen
<1>2. CASE PrepareImport(p)
  <2>1. step'[p] = "archive" /\ campaign' = campaign /\ campaign.status = "running"
    BY <1>0, <1>2 DEF PrepareImport, Accepted, GoTo
  <2>. QED
    BY <2>1 DEF Foreseen
<1>3. CASE PrepareMutation(p)
  <2>. DEFINE r == RecordOf("prepared", 1, StatusOf(Mutated(campaign, Method[request[p]])))
  <2>1. /\ step'[p] = "save" /\ campaign' = campaign /\ request' = request
        /\ records' = [records EXCEPT ![request[p]] = r]
    BY <1>0, <1>3 DEF PrepareMutation, GoTo, Rest, Record
  <2>2. request[p] \in Keys /\ records \in [Keys -> RecordSet]
    BY <1>3, WriterFacts DEF PrepareMutation, At, Inside, Outside
  <2>3. r.expected = StatusOf(Mutated(campaign, Method[request[p]]))
    BY DEF RecordOf
  <2>. HIDE DEF r
  <2>4. records'[request'[p]].expected = StatusOf(Mutated(campaign, Method[request[p]]))
    BY <2>1, <2>2, <2>3
  <2>5. StatusOf(Mutated(campaign, Method[request[p]]))' = StatusOf(Mutated(campaign, Method[request[p]]))
    BY <2>1 DEF StatusOf, Mutated, Left
  <2>. QED
    BY <2>1, <2>4, <2>5 DEF Foreseen
<1>4. CASE RecoverImport(p)
  <2>1. CASE UNCHANGED step
    BY <1>0, <1>4, <2>1 DEF RecoverImport, At, Foreseen
  <2>2. CASE recovering' = [recovering EXCEPT ![p] = TRUE] /\ GoTo(p, "nodes")
    BY <1>0, <2>2 DEF GoTo, Foreseen
  <2>. QED
    BY <1>4, <2>1, <2>2 DEF RecoverImport
<1>5. CASE WriteArchive(p) \/ SaveNodes(p) \/ AppendNodeLog(p)
  <2>1. /\ UNCHANGED <<records, campaign, recovering, request>>
        /\ \/ step[p] \in {"archive", "nodes"} /\ step'[p] \in {"nodes", "log"}
           \/ step[p] = "log" /\ step'[p] \in {"log", "usage"}
    BY <1>0, <1>5 DEF WriteArchive, SaveNodes, AppendNodeLog, GoTo, At, Rest
  <2>. QED
    BY <1>0, <2>1 DEF Foreseen
<1>6. CASE SaveUsage(p)
  <2>1. step'[p] = "commit" /\ Method[request'[p]] = "import"
    BY <1>0, <1>6, WriterFacts DEF SaveUsage, GoTo, At, Rest, Stage, Inside, Outside
  <2>. QED
    BY <2>1 DEF Foreseen
<1>7. CASE SaveMutation(p)
  <2>1. /\ step'[p] = "commit" /\ step[p] = "save" /\ UNCHANGED <<records, request>>
        /\ campaign' = Mutated(campaign, Method[request[p]])
    BY <1>0, <1>7 DEF SaveMutation, GoTo, At, Rest
  <2>2. StatusOf(campaign)' = StatusOf(Mutated(campaign, Method[request[p]]))
    BY <2>1 DEF StatusOf, Left
  <2>. QED
    BY <1>0, <2>1, <2>2 DEF Foreseen
<1>8. CASE step'[p] \notin {"idle", "stale", "reopen", "inside", "release"}
  <2>1. ~(\/ \E k \in Keys : Open(p, k) \/ FindStale(p, k)
          \/ RemoveStale(p) \/ Reopen(p) \/ Release(p) \/ Replay(p) \/ Refuse(p)
          \/ Commit(p) \/ Crash(p) \/ WriteFails(p))
    BY <1>0, <1>8 DEF Open, FindStale, RemoveStale, Reopen, Release, Replay, Refuse, Commit,
       Crash, WriteFails, GoTo, GoIdle
  <2>2. CASE RecoverMutation(p)
    BY <1>0, <1>8, <2>2 DEF RecoverMutation, GoTo, At
  <2>. QED
    BY <1>2, <1>3, <1>4, <1>5, <1>6, <1>7, <2>1, <2>2 DEF IdeaStep
<1>. QED
  BY <1>1, <1>8

LEMMA OutsideQuiet ==
    ASSUME NEW p \in IdeaProcs, IdeaStep(p)
    PROVE  Inside(p) \/ UNCHANGED diskVars
BY DEF IdeaStep, Open, FindStale, RemoveStale, Reopen, Release, Replay, Refuse, PrepareImport,
   PrepareMutation, RecoverImport, RecoverMutation, WriteArchive, SaveNodes, AppendNodeLog,
   SaveUsage, SaveMutation, Commit, Crash, WriteFails, At, Inside, Outside

LEMMA ForeseenHolds == IdeaSpec => []ForeseenInv
<1>1. IdeaInit => ForeseenInv
  BY DEF IdeaInit, ForeseenInv, Foreseen
<1>2. CampaignInv /\ ForeseenInv /\ [IdeaNext]_ideaVars => ForeseenInv'
  <2>. SUFFICES ASSUME CampaignInv, ForeseenInv, [IdeaNext]_ideaVars PROVE ForeseenInv'
    OBVIOUS
  <2>1. CASE UNCHANGED ideaVars
    BY <2>1 DEF ideaVars, ForeseenInv, Foreseen, StatusOf, Mutated, Left
  <2>2. ASSUME ~raced, NEW p \in IdeaProcs, IdeaStep(p) PROVE ForeseenInv'
    BY <2>2, ForeseenOthers, ForeseenOwn, OutsideQuiet DEF ForeseenInv
  <2>. QED
    BY <2>1, <2>2 DEF IdeaNext
<1>. QED
  BY <1>1, <1>2, CampaignInvHolds, PTL DEF IdeaSpec

\* What a caller sees of the files.
LEMMA LandedKeys ==
    ASSUME CampaignInv, NEW k \in Keys
    PROVE  /\ k \in Packed <=> <<k, records[k].mint>> \in archive
           /\ k \in Imported <=> <<k, records[k].mint>> \in nodes
           /\ records[k].state = "none" =>
                 k \notin Packed /\ k \notin Imported /\ \A m \in Mints : nodeLog[<<k, m>>] = 0
<1>1. archive \subseteq Bursts /\ nodes \subseteq archive
  BY DEF CampaignInv, IdeaTypeOK, Disk
<1>2. ASSUME NEW b \in archive, b[1] = k
      PROVE  b = <<k, records[k].mint>> /\ records[k].state # "none"
  <2>1. b \in Bursts /\ records[k].mint = b[2] /\ records[k].state # "none"
    BY <1>1, <1>2 DEF CampaignInv, Disk
  <2>. QED
    BY <1>2, <2>1 DEF Bursts
<1>3. ASSUME NEW m \in Mints, nodeLog[<<k, m>>] # 0
      PROVE  <<k, m>> \in archive
  <2>1. <<k, m>> \in Bursts /\ nodeLog[<<k, m>>] \in Nat
    BY DEF Bursts, CampaignInv, IdeaTypeOK
  <2>. QED
    BY <1>1, <1>3, <2>1 DEF CampaignInv, Disk
<1>4. k \in Packed <=> <<k, records[k].mint>> \in archive
  BY <1>2 DEF Packed
<1>5. k \in Imported <=> <<k, records[k].mint>> \in nodes
  BY <1>1, <1>2 DEF Imported
<1>6. ASSUME records[k].state = "none" PROVE \A m \in Mints : nodeLog[<<k, m>>] = 0
  BY <1>2, <1>3, <1>6
<1>. QED
  BY <1>1, <1>2, <1>4, <1>5, <1>6

LEMMA SizeIsCount ==
    ASSUME CampaignInv
    PROVE  CS!Size = Count
<1>1. IsFiniteSet(nodes) /\ nodes \subseteq archive /\ archive \subseteq Bursts
  BY DEF CampaignInv, Usage, Disk, IdeaTypeOK
<1>. DEFINE f == [b \in nodes |-> b[1]]
<1>2. f \in Bijection(nodes, Imported)
  <2>1. f \in Surjection(nodes, Imported)
    BY DEF Surjection, Imported
  <2>2. ASSUME NEW b \in nodes, NEW c \in nodes, f[b] = f[c] PROVE b = c
    <3>1. b[1] = c[1] /\ b \in Bursts /\ c \in Bursts
      BY <1>1, <2>2
    <3>2. records[b[1]].mint = b[2] /\ records[c[1]].mint = c[2]
      BY <1>1 DEF CampaignInv, Disk
    <3>. QED
      BY <3>1, <3>2 DEF Bursts
  <2>. QED
    BY <2>1, <2>2 DEF Bijection, Injection, IsInjective, Surjection
<1>3. Cardinality(Imported) = Cardinality(nodes)
  BY <1>1, <1>2, FS_Bijection DEF ExistsBijection
<1>4. CS!Cardinality(Imported) = Cardinality(Imported)
  BY DEF Cardinality, CS!Cardinality
<1>. QED
  BY <1>3, <1>4 DEF Count, CS!Size

LEMMA StandingIsStatus ==
    ASSUME NEW c \in Campaigns
    PROVE  CS!Standing(c) = StatusOf(c)
BY DEF CS!Standing, CS!Stand, StatusOf, Left, Campaigns

LEMMA AdmitsIsAllowed ==
    ASSUME NEW c \in Campaigns, NEW m, m # "import"
    PROVE  CS!Admits(c, m) <=> Allowed(c, m)
<1>1. c.max \in Nat /\ c.used \in Nat
  BY DEF Campaigns
<1>. QED
  BY <1>1, ExhaustedMeans DEF CS!Admits, Allowed

LEMMA ChangedIsMutated ==
    ASSUME NEW c \in Campaigns, NEW m
    PROVE  CS!Changed(c, m) = Mutated(c, m)
<1>1. c.max \in Nat /\ c.used \in Nat
      /\ c = [status |-> c.status, max |-> c.max, used |-> c.used]
  BY DEF Campaigns
<1>2. CASE m = "topup"
  BY <1>1, <1>2 DEF CS!Changed, Mutated, Campaigns
<1>3. CASE m = "pause"
  BY <1>1, <1>3 DEF CS!Changed, Mutated, Campaigns
<1>4. CASE m = "resume"
  BY <1>1, <1>4 DEF CS!Changed, Mutated, Campaigns
<1>5. CASE m \notin {"topup", "pause", "resume"}
  BY <1>1, <1>5 DEF CS!Changed, Mutated, Campaigns
<1>. QED
  BY <1>2, <1>3, <1>4, <1>5

LEMMA RecordSeen ==
    ASSUME records \in [Keys -> RecordSet], NEW k \in Keys, NEW r \in RecordSet,
           records' = [records EXCEPT ![k] = r]
    PROVE  /\ RecordStages' = [RecordStages EXCEPT ![k] = r.state]
           /\ Promises' = [Promises EXCEPT ![k] = r.expected]
BY DEF RecordStages, Promises

LEMMA LogSeen ==
    ASSUME records \in [Keys -> RecordSet], NEW k \in Keys, NEW r \in RecordSet,
           records' = [records EXCEPT ![k] = r], nodeLog' = nodeLog,
           r.mint = records[k].mint \/ \A m \in Mints : nodeLog[<<k, m>>] = 0
    PROVE  Logged' = Logged
<1>1. ASSUME NEW x \in Keys
      PROVE  nodeLog[<<x, records'[x].mint>>] = nodeLog[<<x, records[x].mint>>]
  <2>1. CASE x # k
    BY <2>1
  <2>2. CASE x = k
    <3>1. records'[k] = r /\ r.mint \in Mints /\ records[k].mint \in Mints
      BY DEF RecordSet
    <3>. QED
      BY <2>2, <3>1
  <2>. QED
    BY <2>1, <2>2
<1>. QED
  BY <1>1 DEF Logged

LEMMA AloneRefines ==
    ASSUME UNCHANGED diskVars
    PROVE  UNCHANGED CS!vars
BY DEF diskVars, CS!vars, RecordStages, Promises, Packed, Imported, Logged

LEMMA PrepareImportRefines ==
    ASSUME CampaignInv, NEW p \in IdeaProcs, PrepareImport(p)
    PROVE  CS!Start(request[p])
<1>. DEFINE k == request[p]
<1>1. /\ k \in Keys /\ records \in [Keys -> RecordSet]
      /\ records[k].state = "none" /\ Method[k] = "import"
      /\ UNCHANGED <<archive, nodes, nodeLog, campaign>>
  BY WriterFacts DEF PrepareImport, Inside, At, Outside
<1>2. PICK m \in Mints : Record(p, RecordOf("prepared", m, NoStatus))
  BY DEF PrepareImport
<1>. DEFINE r == RecordOf("prepared", m, NoStatus)
<1>3. r \in RecordSet /\ r.state = "prepared" /\ r.expected = NoStatus
  BY DEF RecordOf, RecordSet, NoStatus, CampaignStatuses
<1>4. records' = [records EXCEPT ![k] = r]
  BY <1>2 DEF Record
<1>5. RecordStages' = [RecordStages EXCEPT ![k] = "prepared"] /\ Promises' = [Promises EXCEPT ![k] = NoStatus]
  <2>. HIDE DEF r
  <2>. QED
    BY <1>1, <1>3, <1>4, RecordSeen
<1>6. Logged' = Logged
  <2>. HIDE DEF r
  <2>. QED
    BY <1>1, <1>3, <1>4, LandedKeys, LogSeen
<1>7. Packed' = Packed /\ Imported' = Imported
  BY <1>1 DEF Packed, Imported
<1>8. RecordStages[k] = "none"
  BY <1>1 DEF RecordStages
<1>9. CS!Admits(campaign, Method[k])
  BY <1>1, SizeIsCount DEF PrepareImport, Accepted, CS!Admits
<1>10. CS!Unpromised = NoStatus
  BY DEF CS!Unpromised, CS!Stand, NoStatus
<1>. QED
  BY <1>1, <1>5, <1>6, <1>7, <1>8, <1>9, <1>10 DEF CS!Start, CS!Files, CS!IsImport

LEMMA PrepareMutationRefines ==
    ASSUME CampaignInv, NEW p \in IdeaProcs, PrepareMutation(p)
    PROVE  CS!Start(request[p])
<1>. DEFINE k == request[p]
            r == RecordOf("prepared", 1, StatusOf(Mutated(campaign, Method[k])))
<1>1. /\ k \in Keys /\ records \in [Keys -> RecordSet] /\ Method[k] \in Methods
      /\ records[k].state = "none" /\ Method[k] # "import"
      /\ UNCHANGED <<archive, nodes, nodeLog, campaign>>
      /\ campaign \in Campaigns
  BY WriterFacts DEF PrepareMutation, Inside, At, Outside, CampaignInv, IdeaTypeOK, Campaigns
<1>2. Mutated(campaign, Method[k]) \in Campaigns
  BY <1>1, MutatedTyped
<1>3. StatusOf(Mutated(campaign, Method[k])) \in [status : CampaignStatuses, used : Nat, left : Nat]
  BY <1>2, StatusTyped
<1>4. /\ r \in RecordSet /\ r.state = "prepared"
      /\ r.expected = StatusOf(Mutated(campaign, Method[k]))
  BY <1>3 DEF RecordOf, RecordSet, Mints
<1>5. records' = [records EXCEPT ![k] = r]
  BY DEF PrepareMutation, Record
<1>6. /\ RecordStages' = [RecordStages EXCEPT ![k] = "prepared"]
      /\ Promises' = [Promises EXCEPT ![k] = StatusOf(Mutated(campaign, Method[k]))]
  <2>. DEFINE expected == StatusOf(Mutated(campaign, Method[k]))
  <2>. HIDE DEF r
  <2>1. /\ RecordStages' = [RecordStages EXCEPT ![k] = r.state]
        /\ Promises' = [Promises EXCEPT ![k] = r.expected]
    <3>1. records \in [Keys -> RecordSet] /\ k \in Keys /\ r \in RecordSet
      BY <1>1, <1>4
    <3>. QED
      BY <1>5, <3>1, RecordSeen
  <2>2. r.state = "prepared" /\ r.expected = expected
    BY <1>4
  <2>. HIDE DEF expected
  <2>3. /\ RecordStages' = [RecordStages EXCEPT ![k] = "prepared"]
        /\ Promises' = [Promises EXCEPT ![k] = expected]
    BY <2>1, <2>2
  <2>. QED
    BY <2>3 DEF expected
<1>7. Logged' = Logged
  <2>. HIDE DEF r
  <2>. QED
    BY <1>1, <1>4, <1>5, LandedKeys, LogSeen
<1>8. Packed' = Packed /\ Imported' = Imported
  BY <1>1 DEF Packed, Imported
<1>9. RecordStages[k] = "none"
  BY <1>1 DEF RecordStages
<1>10. CS!Admits(campaign, Method[k])
  BY <1>1, AdmitsIsAllowed DEF PrepareMutation, Accepted
<1>11. CS!Standing(CS!Changed(campaign, Method[k])) = StatusOf(Mutated(campaign, Method[k]))
  BY <1>1, <1>2, ChangedIsMutated, StandingIsStatus
<1>. QED
  BY <1>1, <1>6, <1>7, <1>8, <1>9, <1>10, <1>11 DEF CS!Start, CS!Files, CS!IsImport

\* A record taken back, or made final.
LEMMA GiveUpRefines ==
    ASSUME CampaignInv, NEW p \in IdeaProcs, Inside(p), Record(p, NoRecord),
           records[request[p]].state = "prepared",
           UNCHANGED <<archive, nodes, nodeLog, campaign>>,
           IF Method[request[p]] = "import"
           THEN BurstOf(p) \notin archive \cup nodes
           ELSE StatusOf(campaign) # records[request[p]].expected
    PROVE  CS!GiveUp(request[p])
<1>. DEFINE k == request[p]
<1>1. /\ k \in Keys /\ records \in [Keys -> RecordSet] /\ campaign \in Campaigns
      /\ BurstOf(p) = <<k, records[k].mint>>
  BY WriterFacts DEF CampaignInv, IdeaTypeOK, Campaigns
<1>2. /\ NoRecord \in RecordSet /\ NoRecord.state = "none" /\ NoRecord.expected = NoStatus
  BY DEF NoRecord, RecordOf, RecordSet, NoStatus, CampaignStatuses, Mints
<1>3. records' = [records EXCEPT ![k] = NoRecord]
  BY DEF Record
<1>4. RecordStages' = [RecordStages EXCEPT ![k] = "none"] /\ Promises' = [Promises EXCEPT ![k] = NoStatus]
  BY <1>1, <1>2, <1>3, RecordSeen
<1>5. k \notin Packed /\ k \notin Imported
  <2>1. CASE Method[k] = "import"
    BY <1>1, <2>1, LandedKeys
  <2>2. CASE Method[k] # "import"
    <3>1. \A b \in archive : b[1] # k
      BY <2>2 DEF CampaignInv, Disk
    <3>. QED
      BY <3>1 DEF CampaignInv, Disk, Packed, Imported
  <2>. QED
    BY <2>1, <2>2
<1>6. \A m \in Mints : nodeLog[<<k, m>>] = 0
  <2>1. ASSUME NEW m \in Mints, nodeLog[<<k, m>>] # 0 PROVE k \in Packed
    <3>1. <<k, m>> \in Bursts /\ nodeLog[<<k, m>>] \in Nat
      BY <1>1 DEF Bursts, CampaignInv, IdeaTypeOK
    <3>2. <<k, m>> \in archive
      BY <2>1, <3>1 DEF CampaignInv, Disk
    <3>. QED
      BY <3>2 DEF Packed
  <2>. QED
    BY <1>5, <2>1
<1>7. Logged' = Logged
  BY <1>1, <1>2, <1>3, <1>6, LogSeen
<1>8. Packed' = Packed /\ Imported' = Imported
  BY DEF Packed, Imported
<1>9. RecordStages[k] = "prepared" /\ Promises[k] = records[k].expected
  BY <1>1 DEF RecordStages, Promises
<1>10. CS!Unpromised = NoStatus
  BY DEF CS!Unpromised, CS!Stand, NoStatus
<1>11. IF CS!IsImport(k) THEN k \notin Packed /\ k \notin Imported
                         ELSE CS!Standing(campaign) # Promises[k]
  BY <1>1, <1>5, <1>9, StandingIsStatus DEF CS!IsImport
<1>. QED
  BY <1>4, <1>7, <1>8, <1>9, <1>10, <1>11 DEF CS!GiveUp, CS!Files

LEMMA FinishRefines ==
    ASSUME CampaignInv, NEW p \in IdeaProcs, Inside(p), Committed(p),
           records[request[p]].state = "prepared",
           UNCHANGED <<archive, nodes, nodeLog, campaign>>,
           IF Method[request[p]] = "import"
           THEN BurstOf(p) \in nodes /\ nodeLog[BurstOf(p)] = BurstSize /\ campaign.used = Count
           ELSE StatusOf(campaign) = records[request[p]].expected
    PROVE  CS!Finish(request[p])
<1>. DEFINE k == request[p]
<1>1. /\ k \in Keys /\ records \in [Keys -> RecordSet] /\ campaign \in Campaigns
      /\ BurstOf(p) = <<k, records[k].mint>> /\ records[k] \in RecordSet
  BY WriterFacts DEF CampaignInv, IdeaTypeOK, Campaigns
<1>2. PICK r \in RecordSet : /\ r.state = "committed" /\ r.expected = records[k].expected
                             /\ r.mint = records[k].mint
                             /\ records' = [records EXCEPT ![k] = r]
  <2>1. RecordOf("committed", records[k].mint, records[k].expected) \in RecordSet
    BY <1>1 DEF RecordOf, RecordSet
  <2>. QED
    BY <2>1 DEF Committed, Record, RecordOf
<1>4. RecordStages' = [RecordStages EXCEPT ![k] = "committed"]
  BY <1>1, <1>2 DEF RecordStages
<1>5. Promises' = Promises
  <2>1. \A x \in Keys : records'[x].expected = records[x].expected
    BY <1>1, <1>2
  <2>. QED
    BY <2>1 DEF Promises
<1>6. Logged' = Logged
  BY <1>1, <1>2, LogSeen
<1>7. Packed' = Packed /\ Imported' = Imported
  BY DEF Packed, Imported
<1>8. /\ RecordStages[k] = "prepared" /\ Promises[k] = records[k].expected
      /\ Logged[k] = nodeLog[<<k, records[k].mint>>]
  BY <1>1 DEF RecordStages, Promises, Logged
<1>9. IF CS!IsImport(k) THEN CS!Whole(k) /\ campaign.used = CS!Size
                        ELSE CS!Standing(campaign) = Promises[k]
  BY <1>1, <1>8, LandedKeys, SizeIsCount, StandingIsStatus DEF CS!IsImport, CS!Whole
<1>. QED
  BY <1>4, <1>5, <1>6, <1>7, <1>8, <1>9 DEF CS!Finish, CS!Files

\* The writes of an import and of a mutation.
LEMMA WriteArchiveRefines ==
    ASSUME CampaignInv, NEW p \in IdeaProcs, WriteArchive(p)
    PROVE  CS!Pack(request[p])
<1>. DEFINE k == request[p]
<1>1. /\ Method[k] = "import" /\ records[k].state = "prepared" /\ k \in Keys
      /\ BurstOf(p)[1] = k
  BY WriterFacts DEF Stage, WriteArchive, At, Inside, Outside
<1>2. /\ archive' = archive \cup {BurstOf(p)}
      /\ UNCHANGED <<records, nodes, nodeLog, campaign>>
  BY DEF WriteArchive
<1>3. Packed' = Packed \cup {k}
  BY <1>1, <1>2 DEF Packed
<1>4. RecordStages[k] = "prepared" /\ UNCHANGED <<RecordStages, Promises, Imported, Logged>>
  BY <1>1, <1>2 DEF RecordStages, Promises, Imported, Logged
<1>. QED
  BY <1>1, <1>2, <1>3, <1>4 DEF CS!Pack, CS!IsImport

LEMMA SaveNodesRefines ==
    ASSUME CampaignInv, NEW p \in IdeaProcs, SaveNodes(p)
    PROVE  CS!Land(request[p])
<1>. DEFINE k == request[p]
<1>1. /\ records[k].state = "prepared" /\ k \in Keys
      /\ BurstOf(p)[1] = k /\ BurstOf(p) \in archive
  BY WriterFacts DEF Stage, SaveNodes, At, Inside, Outside
<1>2. /\ nodes' = nodes \cup {BurstOf(p)}
      /\ UNCHANGED <<records, archive, nodeLog, campaign>>
  BY DEF SaveNodes
<1>3. Imported' = Imported \cup {k}
  BY <1>1, <1>2 DEF Imported
<1>4. RecordStages[k] = "prepared" /\ k \in Packed /\ UNCHANGED <<RecordStages, Promises, Packed, Logged>>
  BY <1>1, <1>2 DEF RecordStages, Promises, Packed, Logged
<1>. QED
  BY <1>2, <1>3, <1>4 DEF CS!Land

LEMMA AppendNodeLogRefines ==
    ASSUME CampaignInv, NEW p \in IdeaProcs, AppendNodeLog(p)
    PROVE  CS!LogNode(request[p]) \/ UNCHANGED CS!vars
<1>. DEFINE k == request[p]
<1>1. /\ records[k].state = "prepared" /\ k \in Keys
      /\ BurstOf(p) = <<k, records[k].mint>> /\ BurstOf(p) \in nodes /\ BurstOf(p) \in Bursts
      /\ nodeLog \in [Bursts -> Nat] /\ records \in [Keys -> RecordSet]
  BY WriterFacts DEF Stage, AppendNodeLog, At, Inside, Outside, CampaignInv, IdeaTypeOK
<1>2. UNCHANGED <<records, archive, nodes, campaign>>
  BY DEF AppendNodeLog
<1>3. CASE nodeLog' = nodeLog
  BY <1>2, <1>3 DEF CS!vars, RecordStages, Promises, Packed, Imported, Logged
<1>4. CASE /\ nodeLog[BurstOf(p)] < BurstSize
           /\ nodeLog' = [nodeLog EXCEPT ![BurstOf(p)] = @ + 1]
  <2>1. Logged' = [Logged EXCEPT ![k] = @ + 1]
    <3>1. ASSUME NEW x \in Keys
          PROVE  nodeLog'[<<x, records[x].mint>>]
                    = IF x = k THEN Logged[k] + 1 ELSE Logged[x]
      <4>1. records[x].mint \in Mints
        BY <1>1 DEF RecordSet
      <4>2. <<x, records[x].mint>> \in Bursts
        BY <4>1 DEF Bursts
      <4>3. <<x, records[x].mint>> = BurstOf(p) <=> x = k
        BY <1>1
      <4>. QED
        BY <1>1, <1>4, <4>2, <4>3 DEF Logged
    <3>. QED
      BY <1>1, <1>2, <3>1 DEF Logged
  <2>2. RecordStages[k] = "prepared" /\ k \in Imported /\ Logged[k] < BurstSize
    BY <1>1, <1>4 DEF RecordStages, Imported, Logged
  <2>3. UNCHANGED <<RecordStages, Promises, Packed, Imported>>
    BY <1>2 DEF RecordStages, Promises, Packed, Imported
  <2>. QED
    BY <1>2, <2>1, <2>2, <2>3 DEF CS!LogNode
<1>. QED
  BY <1>3, <1>4 DEF AppendNodeLog

LEMMA SaveUsageRefines ==
    ASSUME CampaignInv, ForeseenInv, NEW p \in IdeaProcs, SaveUsage(p)
    PROVE  CS!Settle(request[p])
<1>. DEFINE k == request[p]
            c == [campaign EXCEPT !.used = Count]
            kept == recovering[p] /\ (campaign.used = Count \/ campaign.status # "running")
<1>1. /\ records[k].state = "prepared" /\ k \in Keys
      /\ BurstOf(p) = <<k, records[k].mint>> /\ BurstOf(p) \in nodes
      /\ nodeLog[BurstOf(p)] = BurstSize
  BY WriterFacts DEF Stage, SaveUsage, At, Inside, Outside
<1>2. UNCHANGED <<records, archive, nodes, nodeLog>>
  BY DEF SaveUsage
<1>3. campaign \in Campaigns /\ Count \in Nat
  BY CountNatural DEF CampaignInv, IdeaTypeOK, Usage, Campaigns
<1>4. campaign.max \in Nat /\ c.used = Count /\ c.max = campaign.max
  BY <1>3 DEF Campaigns
<1>5. Exhausted(c) <=> Count >= campaign.max
  <2>. HIDE DEF c
  <2>. QED
    BY <1>3, <1>4, ExhaustedMeans
<1>6. campaign' = [max |-> campaign.max, used |-> Count,
                   status |-> IF kept THEN campaign.status
                              ELSE IF Exhausted(c) THEN "exhausted" ELSE "running"]
  BY DEF SaveUsage
<1>7. ~recovering[p] => campaign.status = "running"
  BY DEF ForeseenInv, Foreseen, SaveUsage, At
<1>8. campaign.used = Count /\ campaign.status = "running" => campaign.used < campaign.max
  BY DEF CampaignInv, Usage
<1>9. (IF kept THEN campaign.status ELSE IF Exhausted(c) THEN "exhausted" ELSE "running")
      = (IF campaign.status = "running" /\ Count >= campaign.max THEN "exhausted"
         ELSE campaign.status)
  <2>. HIDE DEF c
  <2>1. CASE kept
    BY <1>3, <1>4, <1>8, <2>1
  <2>2. CASE ~kept
    <3>1. campaign.status = "running"
      BY <1>7, <2>2
    <3>. QED
      BY <1>5, <2>2, <3>1
  <2>. QED
    BY <2>1, <2>2
<1>10. campaign' = [status |-> IF campaign.status = "running" /\ Count >= campaign.max
                               THEN "exhausted" ELSE campaign.status,
                    max |-> campaign.max, used |-> Count]
  <2>. HIDE DEF c, kept
  <2>. QED
    BY <1>6, <1>9
<1>11. CS!Whole(k) /\ RecordStages[k] = "prepared"
  BY <1>1, LandedKeys DEF CS!Whole, RecordStages, Logged
<1>12. UNCHANGED <<RecordStages, Promises, Packed, Imported, Logged>>
  BY <1>2 DEF RecordStages, Promises, Packed, Imported, Logged
<1>. QED
  BY <1>10, <1>11, <1>12, SizeIsCount DEF CS!Settle, CS!Files

LEMMA SaveMutationRefines ==
    ASSUME CampaignInv, ForeseenInv, NEW p \in IdeaProcs, SaveMutation(p)
    PROVE  CS!Apply(request[p])
<1>. DEFINE k == request[p]
<1>1. /\ records[k].state = "prepared" /\ k \in Keys /\ Method[k] \in Methods
      /\ Method[k] # "import" /\ Allowed(campaign, Method[k]) /\ campaign \in Campaigns
  BY WriterFacts
  DEF Stage, SaveMutation, At, Inside, Outside, CampaignInv, IdeaTypeOK, Campaigns
<1>2. /\ UNCHANGED <<records, archive, nodes, nodeLog>>
      /\ campaign' = Mutated(campaign, Method[k])
  BY DEF SaveMutation
<1>3. records[k].expected = StatusOf(Mutated(campaign, Method[k]))
  BY DEF ForeseenInv, Foreseen, SaveMutation, At
<1>4. campaign' = CS!Changed(campaign, Method[k])
  BY <1>1, <1>2, ChangedIsMutated
<1>5. CS!Standing(campaign') = records[k].expected
  BY <1>1, <1>2, <1>3, MutatedTyped, StandingIsStatus
<1>6. CS!Admits(campaign, Method[k])
  BY <1>1, AdmitsIsAllowed
<1>7. RecordStages[k] = "prepared" /\ Promises[k] = records[k].expected
  BY <1>1 DEF RecordStages, Promises
<1>8. UNCHANGED <<RecordStages, Promises, Packed, Imported, Logged>>
  BY <1>2 DEF RecordStages, Promises, Packed, Imported, Logged
<1>. QED
  BY <1>1, <1>4, <1>5, <1>6, <1>7, <1>8 DEF CS!Apply, CS!Files, CS!IsImport

LEMMA CommitRequestRefines ==
    ASSUME CampaignInv, ForeseenInv, NEW p \in IdeaProcs, Commit(p)
    PROVE  CS!Finish(request[p])
<1>1. Inside(p)
  BY DEF Commit, At, Inside, Outside
<1>2. Committed(p) /\ UNCHANGED <<archive, nodes, nodeLog, campaign>>
  BY DEF Commit
<1>3. records[request[p]].state = "prepared"
  BY <1>1, WriterFacts DEF Stage, Commit, At, Outside
<1>4. Method[request[p]] = "import" =>
        BurstOf(p) \in nodes /\ nodeLog[BurstOf(p)] = BurstSize /\ campaign.used = Count
  BY <1>1, WriterFacts DEF Stage, Importing, Commit, At
<1>5. Method[request[p]] # "import" => StatusOf(campaign) = records[request[p]].expected
  BY DEF ForeseenInv, Foreseen, Commit, At
<1>. QED
  BY <1>1, <1>2, <1>3, <1>4, <1>5, FinishRefines

LEMMA RecoverRefines ==
    ASSUME CampaignInv, NEW p \in IdeaProcs, RecoverImport(p) \/ RecoverMutation(p)
    PROVE  \/ CS!GiveUp(request[p]) \/ CS!Finish(request[p]) \/ UNCHANGED CS!vars
<1>1. /\ Inside(p) /\ records[request[p]].state = "prepared"
      /\ UNCHANGED <<archive, nodes, nodeLog, campaign>>
  BY DEF RecoverImport, RecoverMutation, At, Inside, Outside
<1>2. CASE RecoverImport(p)
  <2>1. CASE UNCHANGED records
    BY <1>1, <2>1 DEF CS!vars, RecordStages, Promises, Packed, Imported, Logged
  <2>2. CASE BurstOf(p) \notin archive \cup nodes /\ Record(p, NoRecord)
    BY <1>1, <1>2, <2>2, GiveUpRefines DEF RecoverImport
  <2>. QED
    BY <1>2, <2>1, <2>2 DEF RecoverImport
<1>3. CASE RecoverMutation(p)
  BY <1>1, <1>3, GiveUpRefines, FinishRefines DEF RecoverMutation
<1>. QED
  BY <1>2, <1>3

LEMMA IdeaStepRefines ==
    ASSUME CampaignInv, ForeseenInv, NEW p \in IdeaProcs, IdeaStep(p)
    PROVE  CS!Next \/ UNCHANGED CS!vars
<1>1. CASE ~Inside(p)
  BY <1>1, OutsideQuiet, AloneRefines
<1>2. CASE Inside(p)
  <2>1. PICK k \in Keys : k = request[p]
    BY <1>2, WriterFacts
  <2>2. CASE Release(p) \/ Replay(p) \/ Refuse(p) \/ Crash(p) \/ WriteFails(p)
    <3>1. UNCHANGED diskVars
      BY <2>2 DEF Release, Replay, Refuse, Crash, WriteFails
    <3>. QED
      BY <3>1, AloneRefines
  <2>3. ASSUME \/ CS!Start(k) \/ CS!GiveUp(k) \/ CS!Pack(k) \/ CS!Land(k) \/ CS!LogNode(k)
               \/ CS!Settle(k) \/ CS!Apply(k) \/ CS!Finish(k)
        PROVE  CS!Next
    BY <2>3, Zenon DEF CS!Next
  <2>4. CASE PrepareImport(p) \/ PrepareMutation(p)
    BY <2>1, <2>3, <2>4, PrepareImportRefines, PrepareMutationRefines
  <2>5. CASE RecoverImport(p) \/ RecoverMutation(p)
    BY <2>1, <2>3, <2>5, RecoverRefines
  <2>6. CASE WriteArchive(p) \/ SaveNodes(p) \/ AppendNodeLog(p)
    BY <2>1, <2>3, <2>6, WriteArchiveRefines, SaveNodesRefines, AppendNodeLogRefines
  <2>7. CASE SaveUsage(p) \/ SaveMutation(p) \/ Commit(p)
    BY <2>1, <2>3, <2>7, SaveUsageRefines, SaveMutationRefines, CommitRequestRefines
  <2>8. CASE (\E x \in Keys : Open(p, x) \/ FindStale(p, x)) \/ RemoveStale(p) \/ Reopen(p)
    BY <1>2, <2>8 DEF Open, FindStale, RemoveStale, Reopen, Inside, Outside
  <2>. QED
    BY <2>2, <2>4, <2>5, <2>6, <2>7, <2>8 DEF IdeaStep
<1>. QED
  BY <1>1, <1>2

-----------------------------------------------------------------------------
(* The theorems *)

\* Every variable of the campaign store keeps its type.
THEOREM IdeaTypeCorrect == IdeaSpec => []IdeaTypeOK
<1>1. CampaignInv => IdeaTypeOK
  BY DEF CampaignInv
<1>. QED
  BY <1>1, CampaignInvHolds, PTL

\* At most one process is inside the campaign's lock, unless a reclaim of a stale lock
\* (reclaimStaleLockOrThrow) has removed the lock of a live process.
THEOREM CampaignLockedHolds == IdeaSpec => []CampaignLocked
<1>1. CampaignInv => CampaignLocked
  BY DEF CampaignInv, Locked, Inside, CampaignLocked
<1>. QED
  BY <1>1, CampaignInvHolds, PTL

\* However an import is interrupted and retried, one execution of it lands, and its nodes
\* are there only with the archived pack.
THEOREM BurstImportedOnceHolds == IdeaSpec => []BurstImportedOnce
<1>1. ASSUME CampaignInv PROVE BurstImportedOnce
  <2>1. archive \subseteq Bursts /\ nodes \subseteq archive
    BY <1>1 DEF CampaignInv, IdeaTypeOK, Disk
  <2>2. ASSUME NEW b \in Bursts, NEW c \in Bursts, b \in nodes \/ nodeLog[b] > 0, c \in nodes,
               b[1] = c[1]
        PROVE  b = c
    <3>1. b \in archive /\ c \in archive
      BY <1>1, <2>1, <2>2 DEF CampaignInv, Disk
    <3>2. b[2] = c[2]
      BY <1>1, <2>2, <3>1 DEF CampaignInv, Disk
    <3>. QED
      BY <2>2, <3>2 DEF Bursts
  <2>. QED
    BY <1>1, <2>1, <2>2 DEF CampaignInv, Disk, BurstImportedOnce
<1>. QED
  BY <1>1, CampaignInvHolds, PTL

\* A committed import is complete on disk, and when none is half done the usage counter
\* is the number of nodes and a campaign at its limit does not say it runs.
THEOREM CommittedImportCompleteHolds == IdeaSpec => []CommittedImportComplete
<1>1. ASSUME CampaignInv PROVE CommittedImportComplete
  <2>1. ASSUME NEW k \in Keys, Method[k] = "import", records[k].state = "committed"
        PROVE  LET b == <<k, records[k].mint>>
               IN b \in archive /\ b \in nodes /\ nodeLog[b] = BurstSize
    BY <1>1, <2>1 DEF CampaignInv, Disk
  <2>2. ASSUME \A k \in Keys : Method[k] = "import" => records[k].state # "prepared"
        PROVE  campaign.used = Count /\ (campaign.status = "running" => ~Exhausted(campaign))
    <3>1. campaign.used = Count
      BY <1>1, <2>2 DEF CampaignInv, Usage, HalfDone
    <3>2. campaign.used \in Nat /\ campaign.max \in Nat
      BY <1>1 DEF CampaignInv, IdeaTypeOK
    <3>3. campaign.status = "running" => campaign.used < campaign.max
      BY <1>1, <3>1 DEF CampaignInv, Usage
    <3>. QED
      BY <3>1, <3>2, <3>3, ExhaustedMeans
  <2>. QED
    BY <2>1, <2>2 DEF CommittedImportComplete
<1>. QED
  BY <1>1, CampaignInvHolds, PTL

\* The engine implements the campaign store: however many processes take turns under the
\* lock, whichever of them die between two writes and whatever a retry then finds, callers
\* see requests that start when admitted, imports that land once, whole and counted, and
\* mutations that end in the campaign they promised.
THEOREM CampaignRefinement == IdeaSpec => ImplementsCampaignStore
<1>1. IdeaInit => CS!Init
  <2>. SUFFICES ASSUME IdeaInit PROVE CS!Init
    OBVIOUS
  <2>1. Packed = {} /\ Imported = {}
    BY DEF IdeaInit, Packed, Imported
  <2>2. /\ RecordStages = [k \in Keys |-> "none"] /\ Promises = [k \in Keys |-> NoStatus]
        /\ NoStatus = CS!Unpromised
    BY DEF IdeaInit, RecordStages, Promises, NoRecord, RecordOf, NoStatus, CS!Unpromised, CS!Stand
  <2>3. Logged = [k \in Keys |-> 0]
    BY DEF IdeaInit, Logged, NoRecord, RecordOf, Bursts, Mints
  <2>. QED
    BY <2>1, <2>2, <2>3 DEF IdeaInit, CS!Init
<1>2. CampaignInv /\ ForeseenInv /\ [IdeaNext]_ideaVars => [CS!Next]_(CS!vars)
  <2>. SUFFICES ASSUME CampaignInv, ForeseenInv, [IdeaNext]_ideaVars
                PROVE  CS!Next \/ UNCHANGED CS!vars
    OBVIOUS
  <2>1. CASE UNCHANGED ideaVars
    BY <2>1, AloneRefines DEF ideaVars, diskVars
  <2>2. CASE IdeaNext
    BY <2>2, IdeaStepRefines DEF IdeaNext
  <2>. QED
    BY <2>1, <2>2
<1>. QED
  BY <1>1, <1>2, CampaignInvHolds, ForeseenHolds, PTL
  DEF IdeaSpec, ImplementsCampaignStore, CS!Spec
=============================================================================
