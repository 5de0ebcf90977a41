----------------------- MODULE ProjectDeliveryProofs ------------------------
(***************************************************************************)
(* Deliveries of the project MCP server: types, at most one execution,      *)
(* genuine responses, what the project lock guarantees while nobody has     *)
(* removed a lock of another's, and the refinement of AttemptJournal, for   *)
(* any number of calls, ids and supervisors.                                *)
(***************************************************************************)
EXTENDS ProjectDelivery, FiniteSetTheorems, TLAPS

USE DeliveryAssumption

-----------------------------------------------------------------------------
(* Types *)

\* Every call in progress locks for a delivery or for itself; what follows the
\* first look is done for a delivery; supervisors and workers have one.
Placed ==
    /\ \A c \in Conns : pc[c] # "idle" => owner[c] \in Ids \cup {c}
    /\ \A c \in Conns :
          \/ pc[c] \in {"check", "observe", "mark", "spawn", "reread"}
          \/ pc[c] \in {"release", "unlink"} /\ why[c] = "replay"
          => owner[c] \in Ids
    /\ \A s \in Slots : sup[s] # "none" => of[s] \in Ids
    /\ \A s \in Slots : worker[s] # "none" => sup[s] # "none"

Typed == TypeOK /\ Placed

LEMMA InitTyped ==
    Init => Typed
<1>. SUFFICES ASSUME Init PROVE Typed
  OBVIOUS
<1>1. TypeOK
  BY DEF Init, TypeOK
<1>2. Placed
  BY DEF Init, Placed
<1>. QED
  BY <1>1, <1>2 DEF Typed

LEMMA CallTyped ==
    ASSUME Typed, NEW c \in Conns,
           CallStep(c) \/ Foreground(c) \/ FinishForeground(c) \/ Crash(c)
             \/ \E d \in Ids : Submit(c, d)
    PROVE  Typed'
<1>. USE DEF Typed, TypeOK, Placed, lockFile, call, slots, Goto, End, ReleaseFor, Remove, Settled
<1>1. CASE Create(c) \/ Own(c) \/ OwnFails(c)
  <2>1. CASE Create(c)
    BY <2>1 DEF Create
  <2>2. CASE Own(c)
    BY <2>2 DEF Own
  <2>3. CASE OwnFails(c)
    BY <2>3 DEF OwnFails
  <2>. QED
    BY <1>1, <2>1, <2>2, <2>3
<1>2. CASE Abandon(c)
  BY <1>2 DEF Abandon
<1>3. CASE Check(c)
  BY <1>3 DEF Check
<1>4. CASE Observe(c)
  BY <1>4 DEF Observe
<1>5. CASE Mark(c)
  BY <1>5 DEF Mark
<1>6. CASE Spawn(c)
  BY <1>6 DEF Spawn, Alive, Gone
<1>7. CASE Throws(c)
  BY <1>7 DEF Throws
<1>8. CASE Reread(c)
  BY <1>8 DEF Reread
<1>9. CASE Release(c)
  BY <1>9 DEF Release, ReleaseFails
<1>10. CASE Unlink(c)
  <2>1. /\ pc[c] = "unlink" /\ lock' = None /\ maker' = None /\ stolen' \in BOOLEAN
        /\ UNCHANGED <<journal, slots, runs, reconciled>>
    BY <1>10 DEF Unlink
  <2>2. CASE ReleaseFails(c)
    <3>1. CASE ReleaseFor(c, "end")
      BY <2>1, <3>1
    <3>2. CASE End(c)
      BY <2>1, <3>2
    <3>. QED
      BY <2>2, <3>1, <3>2 DEF ReleaseFails
  <2>3. CASE IF why[c] = "replay" THEN Goto(c, "reread") ELSE End(c)
    BY <2>1, <2>3
  <2>4. ReleaseFails(c) \/ (IF why[c] = "replay" THEN Goto(c, "reread") ELSE End(c))
    BY <1>10 DEF Unlink, ReleaseFails
  <2>. QED
    BY <2>2, <2>3, <2>4
<1>11. CASE Foreground(c)
  BY <1>11 DEF Foreground
<1>12. CASE FinishForeground(c)
  BY <1>12 DEF FinishForeground
<1>13. CASE Crash(c)
  BY <1>13 DEF Crash
<1>14. CASE \E d \in Ids : Submit(c, d)
  BY <1>14 DEF Submit
<1>. QED
  BY <1>1, <1>2, <1>3, <1>4, <1>5, <1>6, <1>7, <1>8, <1>9, <1>10, <1>11, <1>12, <1>13, <1>14
  DEF CallStep

\* A step of a supervisor, its death included, or of its worker.
SlotStep(s) == SupervisorStep(s) \/ SupervisorDies(s) \/ WorkerStep(s)

LEMMA SlotTyped ==
    ASSUME Typed, NEW s \in Slots, SlotStep(s)
    PROVE  Typed'
<1>. USE DEF Typed, TypeOK, Placed, lockFile, call, Becomes, Turn, Remove, Settled, Alive, Gone
<1>1. CASE Timeout(s)
  BY <1>1 DEF Timeout
<1>2. CASE Reap(s)
  BY <1>2 DEF Reap
<1>3. CASE CommitDelivery(s)
  BY <1>3 DEF CommitDelivery
<1>4. CASE ReleaseDelivery(s)
  BY <1>4 DEF ReleaseDelivery
<1>5. CASE UnlinkDelivery(s)
  BY <1>5 DEF UnlinkDelivery
<1>6. CASE SupervisorDies(s)
  BY <1>6 DEF SupervisorDies
<1>7. CASE Work(s)
  BY <1>7 DEF Work
<1>8. CASE WriteResponse(s)
  BY <1>8 DEF WriteResponse
<1>9. CASE WorkerExits(s)
  BY <1>9 DEF WorkerExits
<1>. QED
  BY <1>1, <1>2, <1>3, <1>4, <1>5, <1>6, <1>7, <1>8, <1>9 DEF SlotStep, SupervisorStep, WorkerStep

LEMMA NextTyped ==
    Typed /\ [Next]_vars => Typed'
<1>. SUFFICES ASSUME Typed, [Next]_vars PROVE Typed'
  OBVIOUS
<1>1. CASE UNCHANGED vars
  BY <1>1 DEF vars, lockFile, call, slots, Typed, TypeOK, Placed
<1>2. CASE Reconcile
  BY <1>2 DEF Reconcile, Remove, call, slots, Typed, TypeOK, Placed
<1>. QED
  BY <1>1, <1>2, CallTyped, SlotTyped DEF Next, SlotStep

\* The types of calls, lock, journal and supervisors, under every step.
THEOREM TypeCorrect == Spec => []TypeOK
<1>1. Typed => TypeOK
  BY DEF Typed
<1>. QED
  BY <1>1, InitTyped, NextTyped, PTL DEF Spec

-----------------------------------------------------------------------------
(* At most one execution *)

Used(s, d) == sup[s] # "none" /\ of[s] = d

SlotsOnce ==
    /\ \A s \in Slots : sup[s] # "none" => journal[of[s]] \in Settled
    /\ \A s, t \in Slots : sup[s] # "none" /\ Used(t, of[s]) => s = t

\* A call about to spawn is the one that marked the attempt.
SpawnsOnce ==
    /\ \A c \in Conns : pc[c] = "spawn" =>
          journal[owner[c]] \in Settled /\ \A s \in Slots : ~Used(s, owner[c])
    /\ \A c, e \in Conns :
          pc[c] = "spawn" /\ pc[e] = "spawn" /\ owner[c] = owner[e] => c = e

RunsOnce ==
    \A d \in Ids :
        \/ runs[d] = 0
        \/ runs[d] = 1 /\ \E s \in Slots : Used(s, d) /\ worker[s] \notin {"none", "starting"}

OnceInv == Typed /\ SlotsOnce /\ SpawnsOnce /\ RunsOnce

\* What all steps but three have in common.
NothingTaken ==
    /\ UNCHANGED <<of, runs>>
    /\ \A s \in Slots : sup'[s] = "none" <=> sup[s] = "none"
    /\ \A s \in Slots : worker[s] \notin {"none", "starting"} => worker'[s] \notin {"none", "starting"}
    /\ \A d \in Ids : journal[d] \in Settled => journal'[d] \in Settled
    /\ \A c \in Conns : pc'[c] = "spawn" => pc[c] = "spawn" /\ owner'[c] = owner[c]

LEMMA OnceKept ==
    ASSUME OnceInv, Typed', NothingTaken
    PROVE  OnceInv'
<1>. USE DEF OnceInv, NothingTaken, Used
<1>1. SlotsOnce'
  BY DEF SlotsOnce, Typed, Placed
<1>2. SpawnsOnce'
  BY DEF SpawnsOnce, Typed, Placed
<1>3. RunsOnce'
  BY DEF RunsOnce
<1>. QED
  BY <1>1, <1>2, <1>3

LEMMA CallTakesNothing ==
    ASSUME Typed, NEW c \in Conns,
           CallStep(c) \/ Foreground(c) \/ FinishForeground(c) \/ Crash(c)
             \/ \E d \in Ids : Submit(c, d)
    PROVE  \/ NothingTaken
           \/ Mark(c) /\ journal[owner[c]] = "not_started"
           \/ Spawn(c) /\ ~UNCHANGED slots
<1>. USE DEF Typed, TypeOK, slots, call, Goto, End, ReleaseFor, Settled, NothingTaken
<1>1. CASE Create(c) \/ Own(c) \/ OwnFails(c) \/ Abandon(c)
  BY <1>1 DEF Create, Own, OwnFails, Abandon
<1>2. CASE Check(c) \/ Observe(c) \/ Throws(c) \/ Reread(c)
  BY <1>2 DEF Check, Observe, Throws, Reread
<1>3. CASE Mark(c)
  BY <1>3 DEF Mark
<1>4. CASE Spawn(c)
  BY <1>4 DEF Spawn
<1>5. CASE Release(c) \/ Unlink(c)
  BY <1>5 DEF Release, Unlink, ReleaseFails
<1>6. CASE Foreground(c) \/ FinishForeground(c) \/ Crash(c) \/ \E d \in Ids : Submit(c, d)
  BY <1>6 DEF Foreground, FinishForeground, Crash, Submit
<1>. QED
  BY <1>1, <1>2, <1>3, <1>4, <1>5, <1>6 DEF CallStep

LEMMA SlotTakesNothing ==
    ASSUME Typed, NEW s \in Slots, SlotStep(s)
    PROVE  NothingTaken \/ Work(s)
<1>. USE DEF Typed, TypeOK, Placed, call, Turn, Becomes, Settled, Alive, Gone, NothingTaken
<1>1. CASE Timeout(s) \/ Reap(s)
  BY <1>1 DEF Timeout, Reap
<1>2. CASE CommitDelivery(s) \/ ReleaseDelivery(s) \/ UnlinkDelivery(s) \/ SupervisorDies(s)
  BY <1>2 DEF CommitDelivery, ReleaseDelivery, UnlinkDelivery, SupervisorDies
<1>3. CASE WriteResponse(s) \/ WorkerExits(s)
  BY <1>3 DEF WriteResponse, WorkerExits
<1>. QED
  BY <1>1, <1>2, <1>3 DEF SlotStep, SupervisorStep, WorkerStep

\* A marked attempt was not started, so nobody has or is about to spawn it.
LEMMA MarkOnce ==
    ASSUME OnceInv, Typed', NEW c \in Conns, Mark(c), journal[owner[c]] = "not_started"
    PROVE  OnceInv'
<1>. USE DEF OnceInv, Mark, Goto, slots, Used, Typed, TypeOK, Placed, Settled
<1>1. SlotsOnce'
  BY DEF SlotsOnce
<1>2. SpawnsOnce'
  BY DEF SpawnsOnce, SlotsOnce
<1>3. RunsOnce'
  BY DEF RunsOnce
<1>. QED
  BY <1>1, <1>2, <1>3

LEMMA SpawnOnce ==
    ASSUME OnceInv, Typed', NEW c \in Conns, Spawn(c), ~UNCHANGED slots
    PROVE  OnceInv'
<1>. USE DEF OnceInv, Spawn, End, slots, Used, Typed, TypeOK, Placed
<1>1. PICK s \in Slots :
        /\ sup[s] = "none" /\ sup' = [sup EXCEPT ![s] = "wait"]
        /\ of' = [of EXCEPT ![s] = owner[c]]
        /\ worker' = [worker EXCEPT ![s] = "starting"]
  OBVIOUS
<1>2. SlotsOnce'
  BY <1>1 DEF SlotsOnce, SpawnsOnce
<1>3. SpawnsOnce'
  BY <1>1 DEF SpawnsOnce
<1>4. RunsOnce'
  BY <1>1 DEF RunsOnce, SpawnsOnce
<1>. QED
  BY <1>2, <1>3, <1>4

\* A starting worker is the only one of its delivery, which has not run.
LEMMA WorkOnce ==
    ASSUME OnceInv, Typed', NEW s \in Slots, Work(s)
    PROVE  OnceInv'
<1>. USE DEF OnceInv, Work, Becomes, call, Used, Typed, TypeOK, Placed
<1>1. SlotsOnce' /\ SpawnsOnce'
  BY DEF SlotsOnce, SpawnsOnce
<1>2. runs[of[s]] = 0
  BY DEF RunsOnce, SlotsOnce
<1>3. RunsOnce'
  <2>. SUFFICES ASSUME NEW d \in Ids
                PROVE  \/ runs'[d] = 0
                       \/ /\ runs'[d] = 1
                          /\ \E t \in Slots : /\ sup'[t] # "none" /\ of'[t] = d
                                            /\ worker'[t] \notin {"none", "starting"}
    BY DEF RunsOnce
  <2>1. CASE d = of[s]
    BY <1>2, <2>1
  <2>2. CASE d # of[s]
    BY <2>2 DEF RunsOnce
  <2>. QED
    BY <2>1, <2>2
<1>. QED
  BY <1>1, <1>3

LEMMA InitOnce ==
    Init => OnceInv
<1>. SUFFICES ASSUME Init PROVE OnceInv
  OBVIOUS
<1>1. SlotsOnce /\ SpawnsOnce /\ RunsOnce
  BY DEF Init, SlotsOnce, SpawnsOnce, RunsOnce, Used
<1>. QED
  BY <1>1, InitTyped DEF OnceInv

LEMMA NextOnce ==
    OnceInv /\ [Next]_vars => OnceInv'
<1>. SUFFICES ASSUME OnceInv, [Next]_vars PROVE OnceInv'
  OBVIOUS
<1>. USE DEF OnceInv
<1>1. Typed /\ Typed'
  BY NextTyped
<1>2. CASE UNCHANGED vars \/ Reconcile
  <2>1. NothingTaken
    BY <1>2 DEF vars, call, slots, Reconcile, NothingTaken
  <2>. QED
    BY <1>1, <2>1, OnceKept
<1>3. ASSUME NEW c \in Conns,
             CallStep(c) \/ Foreground(c) \/ FinishForeground(c) \/ Crash(c)
               \/ \E d \in Ids : Submit(c, d)
      PROVE  OnceInv'
  <2>1. CASE NothingTaken
    BY <1>1, <2>1, OnceKept
  <2>2. CASE Mark(c) /\ journal[owner[c]] = "not_started"
    BY <1>1, <2>2, MarkOnce
  <2>3. CASE Spawn(c) /\ ~UNCHANGED slots
    BY <1>1, <2>3, SpawnOnce
  <2>. QED
    BY <1>1, <1>3, <2>1, <2>2, <2>3, CallTakesNothing
<1>4. ASSUME NEW s \in Slots, SlotStep(s)
      PROVE  OnceInv'
  BY <1>1, <1>4, SlotTakesNothing, OnceKept, WorkOnce
<1>. QED
  BY <1>2, <1>3, <1>4 DEF Next, SlotStep

\* A delivery is executed at most once, for any number of connections that
\* submit it, deaths and reconciliations.
THEOREM ExecutedAtMostOnceHolds == Spec => []ExecutedAtMostOnce
<1>1. OnceInv => ExecutedAtMostOnce
  BY DEF OnceInv, RunsOnce, SlotsOnce, Used, ExecutedAtMostOnce, Typed, TypeOK
<1>. QED
  BY <1>1, InitOnce, NextOnce, PTL DEF Spec

-----------------------------------------------------------------------------
(* Genuine responses *)

Genuine(s) == worker[s] = "exited" /\ ~late[s] /\ sup[s] \notin {"none", "wait"}

GenuineInv ==
    /\ \A s \in Slots : sup[s] = "commit" => Genuine(s)
    /\ \A d \in Ids : journal[d] = "committed" => \E s \in Slots : of[s] = d /\ Genuine(s)

\* No call commits, and what is genuine stays so.
LEMMA CallGenuine ==
    ASSUME Typed, GenuineInv, NEW c \in Conns,
           CallStep(c) \/ Foreground(c) \/ FinishForeground(c) \/ Crash(c)
             \/ \E d \in Ids : Submit(c, d)
    PROVE  GenuineInv'
<1>1. UNCHANGED slots \/ Spawn(c)
  BY DEF CallStep, Create, Own, OwnFails, Abandon, Check, Observe, Mark, Throws, Reread, Release,
         Unlink, Foreground, FinishForeground, Crash, Submit
<1>2. ASSUME NEW d \in Ids, journal'[d] = "committed" PROVE journal[d] = "committed"
  BY <1>2
  DEF CallStep, Create, Own, OwnFails, Abandon, Check, Observe, Mark, Spawn, Throws, Reread,
      Release, Unlink, Foreground, FinishForeground, Crash, Submit, Typed, TypeOK
<1>3. \A s \in Slots : Genuine(s) => Genuine(s)' /\ of'[s] = of[s]
  BY <1>1 DEF Spawn, slots, Genuine, Typed, TypeOK
<1>4. \A s \in Slots : sup'[s] = "commit" => sup[s] = "commit"
  BY <1>1 DEF Spawn, slots, Typed, TypeOK
<1>. QED
  BY <1>2, <1>3, <1>4 DEF GenuineInv

LEMMA SlotGenuine ==
    ASSUME Typed, GenuineInv, NEW s \in Slots, SlotStep(s)
    PROVE  GenuineInv'
<1>. USE DEF GenuineInv, Genuine, Typed, TypeOK, Placed, call, Turn, Becomes, Alive, Gone
<1>1. CASE Timeout(s)
  BY <1>1 DEF Timeout
<1>2. CASE Reap(s)
  BY <1>2 DEF Reap
<1>3. CASE CommitDelivery(s)
  BY <1>3 DEF CommitDelivery
<1>4. CASE ReleaseDelivery(s) \/ UnlinkDelivery(s)
  BY <1>4 DEF ReleaseDelivery, UnlinkDelivery
<1>5. CASE SupervisorDies(s)
  BY <1>5 DEF SupervisorDies
<1>6. CASE Work(s) \/ WriteResponse(s) \/ WorkerExits(s)
  BY <1>6 DEF Work, WriteResponse, WorkerExits
<1>. QED
  BY <1>1, <1>2, <1>3, <1>4, <1>5, <1>6 DEF SlotStep, SupervisorStep, WorkerStep

LEMMA NextGenuine ==
    Typed /\ GenuineInv /\ [Next]_vars => GenuineInv'
<1>. SUFFICES ASSUME Typed, GenuineInv, [Next]_vars PROVE GenuineInv'
  OBVIOUS
<1>1. CASE UNCHANGED vars \/ Reconcile
  BY <1>1 DEF vars, call, slots, Reconcile, GenuineInv, Genuine
<1>. QED
  BY <1>1, CallGenuine, SlotGenuine DEF Next, SlotStep

\* A committed response is that of a worker that exited well and in time.
THEOREM CommittedIsGenuineHolds == Spec => []CommittedIsGenuine
<1>1. Init => GenuineInv
  BY DEF Init, GenuineInv
<1>2. GenuineInv => CommittedIsGenuine
  BY DEF GenuineInv, Genuine, CommittedIsGenuine
<1>. QED
  BY <1>1, <1>2, InitTyped, NextTyped, NextGenuine, PTL DEF Spec

-----------------------------------------------------------------------------
(* The project lock *)

\* Labels of a call that has the lock, and those that still may remove one.
Holding == {"own", "abandon", "working", "check", "observe", "mark", "spawn"}
Removing == {"release", "unlink", "reread"}

\* For whom the lock is kept after the call that took it: a supervisor or a
\* worker at work, or an unknown outcome nobody has reconciled.
Keeper(s) ==
    \/ sup[s] \notin {"none", "ended"}
    \/ worker[s] \in Alive
    \/ sup[s] # "none" /\ journal[of[s]] = "outcome_unknown" /\ of[s] \notin reconciled

HoldersMadeIt ==
    \A c \in Conns :
        /\ pc[c] \in Holding => maker = c
        /\ pc[c] \in Holding \ {"own", "abandon"} => lock = owner[c]
        /\ pc[c] = "reread" => maker # c

KeepersHaveIt ==
    /\ \A s \in Slots : Keeper(s) =>
          /\ lock = of[s]
          /\ \A c \in Conns : pc[c] \in Holding \cup Removing => maker # c
    /\ \A s, t \in Slots : Keeper(s) /\ Keeper(t) => s = t

\* A supervisor with an answer has outlived its worker.
SupervisorsLast ==
    \A s \in Slots :
        /\ sup[s] \in {"commit", "release", "unlink"} => worker[s] \notin Alive
        /\ sup[s] \in {"release", "unlink"} => journal[of[s]] = "committed"

LockInv == SupervisorsLast /\ (~stolen => HoldersMadeIt /\ KeepersHaveIt)

LockState == HoldersMadeIt /\ KeepersHaveIt

\* Steps that leave the lock and every keeper alone: nobody enters, and who may
\* have to remove the lock later had to before.
LockLeft ==
    /\ UNCHANGED <<lock, maker, stolen>>
    /\ \A s \in Slots : Keeper(s)' => Keeper(s) /\ of'[s] = of[s]
    /\ \A c \in Conns :
          /\ pc'[c] \in Holding => pc[c] \in Holding
          /\ pc'[c] \in Holding \ {"own", "abandon"} =>
                pc[c] \in Holding \ {"own", "abandon"} /\ owner'[c] = owner[c]
          /\ pc'[c] \in Removing => pc[c] \in Holding \cup Removing
          /\ pc'[c] = "reread" => pc[c] = "reread"

LEMMA LockKept ==
    ASSUME LockState, LockLeft
    PROVE  LockState'
<1>1. HoldersMadeIt'
  BY DEF LockState, LockLeft, HoldersMadeIt
<1>2. KeepersHaveIt'
  BY DEF LockState, LockLeft, KeepersHaveIt, Holding, Removing
<1>. QED
  BY <1>1, <1>2 DEF LockState

LEMMA KeeperPlaced ==
    ASSUME Typed, NEW s \in Slots, Keeper(s)
    PROVE  of[s] \in Ids
  BY DEF Typed, Placed, Keeper, Alive

\* Only a spawn makes a keeper, and no call touches a settled attempt.
LEMMA CallKeepers ==
    ASSUME OnceInv, NEW c \in Conns,
           CallStep(c) \/ Foreground(c) \/ FinishForeground(c) \/ Crash(c)
             \/ \E d \in Ids : Submit(c, d)
    PROVE  /\ \A d \in Ids : journal[d] \in Settled => journal'[d] = journal[d]
           /\ UNCHANGED slots => \A s \in Slots : Keeper(s)' => Keeper(s) /\ of'[s] = of[s]
<1>. USE DEF CallStep, Create, Own, OwnFails, Abandon, Check, Observe, Mark, Spawn, Throws,
      Reread, Release, Unlink, Foreground, FinishForeground, Crash, Submit
<1>1. \A d \in Ids : journal[d] \in Settled => journal'[d] = journal[d]
  BY DEF OnceInv, Typed, TypeOK, Settled
<1>2. UNCHANGED reconciled
  OBVIOUS
<1>. QED
  BY <1>1, <1>2 DEF Keeper, slots, OnceInv, SlotsOnce, Typed, Placed

LEMMA CallLeavesLock ==
    ASSUME OnceInv, NEW c \in Conns,
           \/ Create(c) /\ lock # None
           \/ Spawn(c) /\ UNCHANGED slots
           \/ Check(c) \/ Observe(c) \/ Mark(c) \/ Throws(c) \/ Reread(c) \/ Release(c)
           \/ Foreground(c) \/ FinishForeground(c) \/ Crash(c)
           \/ \E d \in Ids : Submit(c, d)
    PROVE  LockLeft
<1>1. UNCHANGED <<lock, maker, stolen, slots>>
  BY DEF Create, Check, Observe, Mark, Spawn, Throws, Reread, Release, Foreground,
         FinishForeground, Crash, Submit, lockFile
<1>2. \A s \in Slots : Keeper(s)' => Keeper(s) /\ of'[s] = of[s]
  BY <1>1, CallKeepers DEF CallStep
<1>3. \A e \in Conns :
          /\ pc'[e] \in Holding => pc[e] \in Holding
          /\ pc'[e] \in Holding \ {"own", "abandon"} =>
                pc[e] \in Holding \ {"own", "abandon"} /\ owner'[e] = owner[e]
          /\ pc'[e] \in Removing => pc[e] \in Holding \cup Removing
          /\ pc'[e] = "reread" => pc[e] = "reread"
  <2>. USE DEF Holding, Removing, Goto, End, ReleaseFor, call, OnceInv, Typed, TypeOK
  <2>1. CASE (Create(c) /\ lock # None) \/ Check(c) \/ Observe(c) \/ Mark(c)
    BY <2>1 DEF Create, Check, Observe, Mark
  <2>2. CASE (Spawn(c) /\ UNCHANGED slots) \/ Throws(c) \/ Reread(c)
    BY <2>2 DEF Spawn, Throws, Reread
  <2>3. CASE Release(c)
    BY <2>3 DEF Release, ReleaseFails
  <2>4. CASE Foreground(c) \/ FinishForeground(c) \/ Crash(c) \/ \E d \in Ids : Submit(c, d)
    BY <2>4 DEF Foreground, FinishForeground, Crash, Submit
  <2>. QED
    BY <2>1, <2>2, <2>3, <2>4
<1>. QED
  BY <1>1, <1>2, <1>3 DEF LockLeft

LEMMA SlotLeavesLock ==
    ASSUME OnceInv, NEW s \in Slots, SlotStep(s), ~UnlinkDelivery(s)
    PROVE  LockLeft
<1>1. UNCHANGED <<lock, maker, stolen, pc, owner, of, reconciled>>
  BY DEF SlotStep, SupervisorStep, WorkerStep, Timeout, Reap, CommitDelivery, ReleaseDelivery,
         SupervisorDies, Work, WriteResponse, WorkerExits, lockFile, call
<1>2. \A t \in Slots : Keeper(t)' => Keeper(t)
  <2>. USE <1>1 DEF Keeper, Turn, Becomes, Alive, Gone, Settled, OnceInv, SlotsOnce, Typed,
        TypeOK, Placed
  <2>1. CASE Timeout(s) \/ Reap(s)
    BY <2>1 DEF Timeout, Reap
  <2>2. CASE CommitDelivery(s)
    BY <2>2 DEF CommitDelivery
  <2>3. CASE ReleaseDelivery(s) \/ SupervisorDies(s)
    BY <2>3 DEF ReleaseDelivery, SupervisorDies
  <2>4. CASE Work(s) \/ WriteResponse(s) \/ WorkerExits(s)
    BY <2>4 DEF Work, WriteResponse, WorkerExits
  <2>. QED
    BY <2>1, <2>2, <2>3, <2>4 DEF SlotStep, SupervisorStep, WorkerStep
<1>. QED
  BY <1>1, <1>2 DEF LockLeft, Removing

\* The file is created only when nobody has it.
LEMMA CreateLocks ==
    ASSUME OnceInv, LockState, NEW c \in Conns, Create(c), lock = None
    PROVE  LockState'
<1>. USE DEF LockState, OnceInv, Typed, TypeOK, Placed, Create, Goto, slots
<1>1. maker = None /\ maker' = c /\ pc' = [pc EXCEPT ![c] = "own"]
  OBVIOUS
<1>2. \A s \in Slots : ~Keeper(s)'
  <2>1. \A s \in Slots : ~Keeper(s)
    BY KeeperPlaced DEF KeepersHaveIt
  <2>. QED
    BY <2>1 DEF Keeper
<1>3. HoldersMadeIt'
  BY <1>1 DEF HoldersMadeIt, Holding
<1>. QED
  BY <1>2, <1>3 DEF KeepersHaveIt

\* Naming the owner, or failing to, by the call that made the file.
LEMMA OwnLocks ==
    ASSUME OnceInv, LockState, NEW c \in Conns, Own(c) \/ OwnFails(c)
    PROVE  LockState'
<1>. USE DEF LockState, OnceInv, Typed, TypeOK, Own, OwnFails, Goto
<1>1. maker = c /\ maker' = c
  BY DEF HoldersMadeIt, Holding
<1>2. \A s \in Slots : ~Keeper(s)'
  BY <1>1, CallKeepers DEF KeepersHaveIt, Holding, CallStep
<1>3. HoldersMadeIt'
  BY <1>1 DEF HoldersMadeIt, Holding
<1>. QED
  BY <1>2, <1>3 DEF KeepersHaveIt

\* A call that removes the lock it made leaves none, and nobody needs it.
LEMMA RemoveLocks ==
    ASSUME OnceInv, LockState, ~stolen', NEW c \in Conns, Abandon(c) \/ Unlink(c)
    PROVE  LockState'
<1>. USE DEF LockState, OnceInv, Typed, TypeOK, Remove
<1>1. /\ lock' = None /\ maker' = None /\ (lock = None \/ maker = c)
      /\ UNCHANGED <<journal, slots, runs, reconciled>>
  BY DEF Abandon, Unlink
<1>2. /\ \A e \in Conns \ {c} : pc'[e] = pc[e] /\ owner'[e] = owner[e]
      /\ pc'[c] \notin Holding
  BY DEF Abandon, Unlink, ReleaseFails, ReleaseFor, Goto, End, Holding
<1>3. \A s \in Slots : ~Keeper(s)'
  <2>1. \A s \in Slots : ~Keeper(s)
    BY <1>1, KeeperPlaced DEF KeepersHaveIt, Holding, Removing, Abandon, Unlink
  <2>. QED
    BY <2>1, <1>1, CallKeepers DEF CallStep
<1>4. HoldersMadeIt'
  BY <1>1, <1>2 DEF HoldersMadeIt, Holding
<1>. QED
  BY <1>3, <1>4 DEF KeepersHaveIt

\* The lock passes from the call to the supervisor.
LEMMA SpawnLocks ==
    ASSUME OnceInv, LockState, NEW c \in Conns, Spawn(c), ~UNCHANGED slots
    PROVE  LockState'
<1>. USE DEF LockState, OnceInv, Typed, TypeOK, Spawn, slots, lockFile
<1>1. maker = c /\ lock = owner[c] /\ UNCHANGED <<lock, maker>>
  BY DEF HoldersMadeIt, Holding
<1>2. \A s \in Slots : ~Keeper(s)
  BY <1>1 DEF KeepersHaveIt, Holding
<1>3. pc' = [pc EXCEPT ![c] = "idle"] /\ owner' = [owner EXCEPT ![c] = None]
  BY DEF End
<1>4. PICK s \in Slots : /\ sup' = [sup EXCEPT ![s] = "wait"] /\ of' = [of EXCEPT ![s] = owner[c]]
                         /\ worker' = [worker EXCEPT ![s] = "starting"]
  OBVIOUS
<1>5. \A t \in Slots : Keeper(t)' => t = s
  BY <1>2, <1>4 DEF Keeper
<1>6. HoldersMadeIt'
  BY <1>1, <1>3 DEF HoldersMadeIt, Holding
<1>7. \A e \in Conns : pc'[e] \in Holding \cup Removing => maker' # e
  BY <1>1, <1>3 DEF Holding, Removing
<1>. QED
  BY <1>1, <1>4, <1>5, <1>6, <1>7 DEF KeepersHaveIt

\* A supervisor that releases is the only keeper, and none afterwards.
LEMMA UnlinkDeliveryLocks ==
    ASSUME OnceInv, SupervisorsLast, LockState, NEW s \in Slots, UnlinkDelivery(s)
    PROVE  LockState'
<1>. USE DEF LockState, OnceInv, Typed, TypeOK, UnlinkDelivery, Remove, Turn, call
<1>1. Keeper(s)
  BY DEF Keeper
<1>2. \A t \in Slots : ~Keeper(t)'
  <2>1. \A t \in Slots : Keeper(t)' => Keeper(t)
    BY DEF Keeper
  <2>2. ~Keeper(s)'
    BY DEF Keeper, SupervisorsLast
  <2>. QED
    BY <1>1, <2>1, <2>2 DEF KeepersHaveIt
<1>3. \A c \in Conns : pc[c] \notin Holding
  BY <1>1 DEF KeepersHaveIt, HoldersMadeIt
<1>4. HoldersMadeIt'
  BY <1>3 DEF HoldersMadeIt, Holding
<1>. QED
  BY <1>2, <1>4 DEF KeepersHaveIt

LEMMA ReconcileLocks ==
    ASSUME OnceInv, LockState, Reconcile
    PROVE  LockState'
<1>. USE DEF LockState, OnceInv, Typed, TypeOK, Reconcile, Remove, call, slots
<1>1. \A s \in Slots : ~Keeper(s)'
  BY KeeperPlaced DEF KeepersHaveIt, Keeper
<1>2. HoldersMadeIt'
  BY DEF HoldersMadeIt, Holding
<1>. QED
  BY <1>1, <1>2 DEF KeepersHaveIt

LEMMA LastKept ==
    OnceInv /\ SupervisorsLast /\ [Next]_vars => SupervisorsLast'
<1>. SUFFICES ASSUME OnceInv, SupervisorsLast, [Next]_vars PROVE SupervisorsLast'
  OBVIOUS
<1>. USE DEF SupervisorsLast, OnceInv
<1>1. CASE UNCHANGED vars \/ Reconcile
  BY <1>1 DEF vars, call, slots, Reconcile
<1>2. ASSUME NEW c \in Conns,
             CallStep(c) \/ Foreground(c) \/ FinishForeground(c) \/ Crash(c)
               \/ \E d \in Ids : Submit(c, d)
      PROVE  SupervisorsLast'
  <2>1. UNCHANGED slots \/ Spawn(c)
    BY <1>2 DEF CallStep, Create, Own, OwnFails, Abandon, Check, Observe, Mark, Throws, Reread,
       Release, Unlink, Foreground, FinishForeground, Crash, Submit
  <2>2. \A d \in Ids : journal[d] = "committed" => journal'[d] = "committed"
    BY <1>2, CallKeepers DEF Settled
  <2>3. \A s \in Slots : sup'[s] \in {"commit", "release", "unlink"} =>
            sup'[s] = sup[s] /\ of'[s] = of[s] /\ worker'[s] = worker[s]
    BY <2>1 DEF Spawn, slots, Typed, TypeOK
  <2>. QED
    BY <2>2, <2>3 DEF Typed, Placed
<1>3. ASSUME NEW s \in Slots, SlotStep(s)
      PROVE  SupervisorsLast'
  <2>. USE DEF Typed, TypeOK, Placed, call, Turn, Becomes, Alive, Gone
  <2>1. CASE Timeout(s) \/ Reap(s)
    BY <2>1 DEF Timeout, Reap
  <2>2. CASE CommitDelivery(s)
    BY <2>2 DEF CommitDelivery
  <2>3. CASE ReleaseDelivery(s) \/ UnlinkDelivery(s) \/ SupervisorDies(s)
    BY <2>3 DEF ReleaseDelivery, UnlinkDelivery, SupervisorDies
  <2>4. CASE Work(s) \/ WriteResponse(s) \/ WorkerExits(s)
    BY <2>4 DEF Work, WriteResponse, WorkerExits
  <2>. QED
    BY <1>3, <2>1, <2>2, <2>3, <2>4 DEF SlotStep, SupervisorStep, WorkerStep
<1>. QED
  BY <1>1, <1>2, <1>3 DEF Next, SlotStep

LEMMA NextLocked ==
    OnceInv /\ LockInv /\ [Next]_vars => LockInv'
<1>. SUFFICES ASSUME OnceInv, LockInv, [Next]_vars PROVE LockInv'
  OBVIOUS
<1>1. SupervisorsLast /\ SupervisorsLast'
  BY LastKept DEF LockInv
<1>2. SUFFICES ASSUME ~stolen' PROVE LockState'
  BY <1>1 DEF LockInv, LockState
<1>3. ~stolen
  BY <1>2 DEF Next, vars, CallStep, SlotStep, SupervisorStep, WorkerStep, lockFile,
     Create, Own, OwnFails, Abandon, Check, Observe, Mark, Spawn, Throws, Reread, Release, Unlink,
     Foreground, FinishForeground, Crash, Submit, Timeout, Reap, CommitDelivery, ReleaseDelivery,
     UnlinkDelivery, SupervisorDies, Work, WriteResponse, WorkerExits, Reconcile
<1>4. LockState
  BY <1>3 DEF LockInv, LockState
<1>5. CASE UNCHANGED vars
  <2>1. LockLeft
    BY <1>5 DEF vars, lockFile, call, slots, LockLeft, Keeper, Removing
  <2>. QED
    BY <1>4, <2>1, LockKept
<1>6. ASSUME NEW c \in Conns,
             CallStep(c) \/ Foreground(c) \/ FinishForeground(c) \/ Crash(c)
               \/ \E d \in Ids : Submit(c, d)
      PROVE  LockState'
  <2>1. CASE Create(c) /\ lock = None
    BY <1>4, <2>1, CreateLocks
  <2>2. CASE Own(c) \/ OwnFails(c)
    BY <1>4, <2>2, OwnLocks
  <2>3. CASE Abandon(c) \/ Unlink(c)
    BY <1>2, <1>4, <2>3, RemoveLocks
  <2>4. CASE Spawn(c) /\ ~UNCHANGED slots
    BY <1>4, <2>4, SpawnLocks
  <2>. QED
    BY <1>4, <1>6, <2>1, <2>2, <2>3, <2>4, CallLeavesLock, LockKept DEF CallStep
<1>7. ASSUME NEW s \in Slots, SlotStep(s)
      PROVE  LockState'
  BY <1>1, <1>4, <1>7, SlotLeavesLock, LockKept, UnlinkDeliveryLocks
<1>. QED
  BY <1>4, <1>5, <1>6, <1>7, ReconcileLocks DEF Next, SlotStep

LEMMA InitLocked ==
    Init => LockInv
<1>. SUFFICES ASSUME Init PROVE LockInv
  OBVIOUS
<1>1. SupervisorsLast
  BY DEF Init, SupervisorsLast
<1>2. HoldersMadeIt
  BY DEF Init, HoldersMadeIt, Holding
<1>3. KeepersHaveIt
  BY DEF Init, KeepersHaveIt, Keeper, Alive
<1>. QED
  BY <1>1, <1>2, <1>3 DEF LockInv

LEMMA LockAlways == Spec => [](OnceInv /\ LockInv)
  BY InitOnce, InitLocked, NextOnce, NextLocked, PTL DEF Spec

\* The holder of the lock is the one writer, and while there is a worker no
\* call has the lock.
LEMMA OneWriter ==
    ASSUME HoldersMadeIt, KeepersHaveIt, NEW x \in Writers, NEW y \in Writers
    PROVE  x = y
  BY DEF HoldersMadeIt, KeepersHaveIt, Keeper, Writers, Holding

\* The project lock serializes calls and workers as long as nobody has removed
\* a lock of another's.
THEOREM SerializedUnlessStolenHolds == Spec => []SerializedUnlessStolen
<1>1. LockInv => SerializedUnlessStolen
  <2>. SUFFICES ASSUME LockInv, ~stolen PROVE Cardinality(Writers) <= 1
    BY DEF SerializedUnlessStolen, WritersSerialized
  <2>1. \A x, y \in Writers : x = y
    BY OneWriter DEF LockInv
  <2>2. CASE Writers = {}
    BY <2>2, FS_EmptySet
  <2>3. CASE Writers # {}
    <3>1. PICK x : Writers = {x}
      BY <2>1, <2>3
    <3>. QED
      BY <3>1, FS_Singleton
  <2>. QED
    BY <2>2, <2>3
<1>. QED
  BY <1>1, LockAlways, PTL

\* An attempt whose outcome is unknown keeps the project locked until a person
\* has reconciled it, as long as nobody has removed a lock of another's.
THEOREM UnknownKeepsLockHolds == Spec => []UnknownKeepsLock
<1>1. LockInv => UnknownKeepsLock
  BY DEF LockInv, KeepersHaveIt, Keeper, UnknownKeepsLock
<1>. QED
  BY <1>1, LockAlways, PTL

-----------------------------------------------------------------------------
(* The refinement of AttemptJournal *)

\* Of a worker that has begun, its delivery was executed.
Begun == {"working", "answered", "exited"}
BegunInv == \A s \in Slots : worker[s] \in Begun => runs[of[s]] = 1

\* An attempt that is not settled was not executed; a starting worker's is not yet; a
\* committed one was.
LEMMA RunsTold ==
    ASSUME OnceInv, GenuineInv, BegunInv
    PROVE  /\ \A d \in Ids : journal[d] \notin Settled => runs[d] = 0
           /\ \A d \in Ids : journal[d] = "committed" => runs[d] = 1
           /\ \A s \in Slots : worker[s] = "starting" =>
                of[s] \in Ids /\ journal[of[s]] = "outcome_unknown" /\ runs[of[s]] = 0
           /\ \A s \in Slots : sup[s] = "commit" => of[s] \in Ids /\ runs[of[s]] = 1
<1>1. ASSUME NEW d \in Ids, journal[d] \notin Settled PROVE runs[d] = 0
  BY <1>1 DEF OnceInv, RunsOnce, SlotsOnce, Used
<1>2. ASSUME NEW d \in Ids, journal[d] = "committed" PROVE runs[d] = 1
  BY <1>2 DEF GenuineInv, Genuine, BegunInv, Begun
<1>3. ASSUME NEW s \in Slots, worker[s] = "starting"
      PROVE  of[s] \in Ids /\ journal[of[s]] = "outcome_unknown" /\ runs[of[s]] = 0
  <2>1. sup[s] # "none" /\ of[s] \in Ids /\ journal[of[s]] \in Settled
    BY <1>3 DEF OnceInv, Typed, Placed, SlotsOnce
  <2>2. \A t \in Slots : Used(t, of[s]) => t = s
    BY <2>1 DEF OnceInv, SlotsOnce
  <2>3. runs[of[s]] = 0
    BY <1>3, <2>1, <2>2 DEF OnceInv, RunsOnce
  <2>. QED
    BY <1>2, <2>1, <2>3 DEF Settled
<1>4. ASSUME NEW s \in Slots, sup[s] = "commit" PROVE of[s] \in Ids /\ runs[of[s]] = 1
  BY <1>4 DEF OnceInv, Typed, Placed, GenuineInv, Genuine, BegunInv, Begun
<1>. QED
  BY <1>1, <1>2, <1>3, <1>4

LEMMA InitBegun ==
    Init => BegunInv
  BY DEF Init, BegunInv, Begun

LEMMA NextBegun ==
    OnceInv /\ GenuineInv /\ BegunInv /\ [Next]_vars => BegunInv'
<1>. SUFFICES ASSUME OnceInv, GenuineInv, BegunInv, [Next]_vars PROVE BegunInv'
  OBVIOUS
<1>. USE DEF BegunInv, Begun
<1>1. CASE UNCHANGED vars \/ Reconcile
  BY <1>1 DEF vars, slots, Reconcile
<1>2. ASSUME NEW c \in Conns,
             CallStep(c) \/ Foreground(c) \/ FinishForeground(c) \/ Crash(c)
               \/ \E d \in Ids : Submit(c, d)
      PROVE  BegunInv'
  <2>1. UNCHANGED runs /\ (UNCHANGED slots \/ Spawn(c))
    BY <1>2 DEF CallStep, Create, Own, OwnFails, Abandon, Check, Observe, Mark, Spawn, Throws,
       Reread, Release, Unlink, Foreground, FinishForeground, Crash, Submit
  <2>2. \A s \in Slots : worker'[s] \in Begun => worker'[s] = worker[s] /\ of'[s] = of[s]
    BY <2>1 DEF Spawn, slots, OnceInv, Typed, TypeOK
  <2>. QED
    BY <2>1, <2>2
<1>3. ASSUME NEW s \in Slots, SlotStep(s)
      PROVE  BegunInv'
  <2>. USE DEF OnceInv, Typed, TypeOK, Turn, Becomes
  <2>1. CASE Timeout(s) \/ Reap(s) \/ CommitDelivery(s) \/ ReleaseDelivery(s)
    BY <2>1 DEF Timeout, Reap, CommitDelivery, ReleaseDelivery
  <2>2. CASE UnlinkDelivery(s) \/ SupervisorDies(s) \/ WriteResponse(s) \/ WorkerExits(s)
    BY <2>2 DEF UnlinkDelivery, SupervisorDies, WriteResponse, WorkerExits
  <2>3. CASE Work(s)
    <3>1. of[s] \in Ids /\ runs[of[s]] = 0 /\ of' = of
      BY <2>3, RunsTold DEF Work
    <3>2. runs' = [runs EXCEPT ![of[s]] = 1] /\ worker' = [worker EXCEPT ![s] = "working"]
      BY <2>3, <3>1 DEF Work
    <3>3. \A t \in Slots : worker[t] \in Begun => of[t] # of[s]
      BY <3>1
    <3>. QED
      BY <3>1, <3>2, <3>3
  <2>. QED
    BY <1>3, <2>1, <2>2, <2>3 DEF SlotStep, SupervisorStep, WorkerStep
<1>. QED
  BY <1>1, <1>2, <1>3 DEF Next, SlotStep

\* A step that does not touch journal and executions is a stutter.
LEMMA QuietRefines ==
    ASSUME UNCHANGED <<journal, runs>>
    PROVE  [AJ!Next]_AJ!vars
  BY DEF AJ!vars

\* An attempt that changes its state, and no outcome.
LEMMA Recorded ==
    ASSUME Typed, NEW d \in Ids, NEW state \in {"not_started", "outcome_unknown"},
           journal[d] # "committed", journal' = [journal EXCEPT ![d] = state]
    PROVE  /\ AJ!Becomes({d}, state)
           /\ UNCHANGED [e \in Ids |-> 0]
           /\ UNCHANGED [e \in Ids |-> IF journal[e] = "committed" THEN "response" ELSE "none"]
<1>1. journal \in [Ids -> {"missing", "not_started", "outcome_unknown", "committed"}]
  BY DEF Typed, TypeOK
<1>2. AJ!Becomes({d}, state)
  BY <1>1 DEF AJ!Becomes
<1>3. \A e \in Ids : journal'[e] = "committed" <=> journal[e] = "committed"
  BY <1>1
<1>. QED
  BY <1>2, <1>3

LEMMA ObservedRefines ==
    ASSUME Typed, NEW d \in Ids, journal[d] = "missing", UNCHANGED runs,
           journal' = [journal EXCEPT ![d] = "not_started"]
    PROVE  AJ!Next
<1>1. AJ!Observe({d})
  BY Recorded DEF AJ!Observe
<1>2. {d} \in SUBSET Ids
  OBVIOUS
<1>3. \E T \in SUBSET Ids : AJ!Observe(T)
  BY <1>1, <1>2, Zenon
<1>. QED
  BY <1>3, Zenon DEF AJ!Next

LEMMA MarkedRefines ==
    ASSUME Typed, NEW d \in Ids, journal[d] = "not_started", UNCHANGED runs,
           journal' = [journal EXCEPT ![d] = "outcome_unknown"]
    PROVE  AJ!Next
<1>1. AJ!Mark({d})
  BY Recorded DEF AJ!Mark
<1>2. {d} \in SUBSET Ids
  OBVIOUS
<1>3. \E T \in SUBSET Ids : AJ!Mark(T)
  BY <1>1, <1>2, Zenon
<1>. QED
  BY <1>3, Zenon DEF AJ!Next

\* The call is made when the worker begins; its mark was that of another process.
LEMMA WorkRefines ==
    ASSUME OnceInv, GenuineInv, BegunInv, NEW s \in Slots, Work(s)
    PROVE  AJ!Next
<1>. PICK d : d = of[s]
  OBVIOUS
<1>1. d \in Ids /\ journal[d] = "outcome_unknown" /\ runs[d] = 0
  BY RunsTold DEF Work
<1>2. /\ journal \in [Ids -> {"missing", "not_started", "outcome_unknown", "committed"}]
      /\ runs \in [Ids -> Nat]
  BY DEF OnceInv, Typed, TypeOK
<1>3. journal' = journal /\ runs' = [runs EXCEPT ![d] = @ + 1]
  BY DEF Work
<1>4. AJ!Becomes({d}, "outcome_unknown")
  BY <1>1, <1>2, <1>3 DEF AJ!Becomes
<1>5. runs' = [k \in Ids |-> IF k \in {d} THEN runs[k] + 1 ELSE runs[k]]
  BY <1>2, <1>3
<1>6. AJ!Call({d})
  BY <1>1, <1>3, <1>4, <1>5 DEF AJ!Call
<1>7. {d} \in SUBSET Ids
  BY <1>1
<1>8. \E T \in SUBSET Ids : AJ!Call(T)
  BY <1>6, <1>7, Zenon
<1>. QED
  BY <1>8, Zenon DEF AJ!Next

\* Only the supervisor of the one worker commits, and its worker has run.
LEMMA CommittedRefines ==
    ASSUME OnceInv, GenuineInv, BegunInv, NEW s \in Slots, sup[s] = "commit",
           journal[of[s]] \in Settled, UNCHANGED runs,
           journal' = [journal EXCEPT ![of[s]] = "committed"]
    PROVE  [AJ!Next]_AJ!vars
<1>. PICK d : d = of[s]
  OBVIOUS
<1>1. d \in Ids /\ runs[d] = 1
  BY RunsTold
<1>2. journal \in [Ids -> {"missing", "not_started", "outcome_unknown", "committed"}]
  BY DEF OnceInv, Typed, TypeOK
<1>3. CASE journal[d] = "committed"
  <2>1. journal' = journal
    BY <1>2, <1>3
  <2>. QED
    BY <2>1, QuietRefines
<1>4. CASE journal[d] = "outcome_unknown"
  <2>1. AJ!Becomes({d}, "committed")
    BY <1>1, <1>2 DEF AJ!Becomes
  <2>2. \A e \in Ids \ {d} : journal'[e] = journal[e]
    BY <1>2
  <2>3. AJ!Made(d)
    BY <1>1, <1>4 DEF AJ!Made
  <2>4. AJ!Commit(d)
    BY <2>1, <2>2, <2>3 DEF AJ!Commit
  <2>. QED
    BY <1>1, <2>4 DEF AJ!Next
<1>. QED
  BY <1>3, <1>4 DEF Settled

LEMMA CallRefines ==
    ASSUME Typed, NEW c \in Conns,
           CallStep(c) \/ Foreground(c) \/ FinishForeground(c) \/ Crash(c)
             \/ \E d \in Ids : Submit(c, d)
    PROVE  [AJ!Next]_AJ!vars
<1>1. CASE Observe(c)
  <2>1. owner[c] \in Ids /\ UNCHANGED runs
    BY <1>1 DEF Observe, Typed, Placed
  <2>2. journal' = [journal EXCEPT ![owner[c]] = IF @ = "missing" THEN "not_started" ELSE @]
    BY <1>1 DEF Observe
  <2>3. CASE journal[owner[c]] = "missing"
    BY <2>1, <2>2, <2>3, ObservedRefines
  <2>4. CASE journal[owner[c]] # "missing"
    BY <2>1, <2>2, <2>4, QuietRefines DEF Typed, TypeOK
  <2>. QED
    BY <2>3, <2>4
<1>2. CASE Mark(c)
  <2>1. owner[c] \in Ids /\ UNCHANGED runs
    BY <1>2 DEF Mark, Typed, Placed
  <2>. QED
    BY <1>2, <2>1, MarkedRefines, QuietRefines DEF Mark
<1>3. CASE Throws(c)
  <2>1. owner[c] \in Ids /\ UNCHANGED runs
    BY <1>3 DEF Throws, Typed, Placed
  <2>. QED
    BY <1>3, <2>1, ObservedRefines, MarkedRefines, QuietRefines DEF Throws
<1>4. CASE ~(Observe(c) \/ Mark(c) \/ Throws(c))
  <2>1. UNCHANGED <<journal, runs>>
    BY <1>4 DEF CallStep, Create, Own, OwnFails, Abandon, Check, Spawn, Reread, Release, Unlink,
       Foreground, FinishForeground, Crash, Submit
  <2>. QED
    BY <2>1, QuietRefines
<1>. QED
  BY <1>1, <1>2, <1>3, <1>4

LEMMA SlotRefines ==
    ASSUME OnceInv, GenuineInv, BegunInv, NEW s \in Slots, SlotStep(s)
    PROVE  [AJ!Next]_AJ!vars
<1>1. CASE CommitDelivery(s)
  BY <1>1, CommittedRefines DEF CommitDelivery
<1>2. CASE SupervisorDies(s)
  BY <1>2, CommittedRefines, QuietRefines DEF SupervisorDies
<1>3. CASE Work(s)
  BY <1>3, WorkRefines
<1>4. CASE ~(CommitDelivery(s) \/ SupervisorDies(s) \/ Work(s))
  <2>1. UNCHANGED <<journal, runs>>
    BY <1>4 DEF SlotStep, SupervisorStep, WorkerStep, Timeout, Reap, ReleaseDelivery,
       UnlinkDelivery,
       WriteResponse, WorkerExits
  <2>. QED
    BY <2>1, QuietRefines
<1>. QED
  BY <1>1, <1>2, <1>3, <1>4

LEMMA StepRefines ==
    OnceInv /\ GenuineInv /\ BegunInv /\ [Next]_vars => [AJ!Next]_AJ!vars
<1>. SUFFICES ASSUME OnceInv, GenuineInv, BegunInv, [Next]_vars PROVE [AJ!Next]_AJ!vars
  OBVIOUS
<1>1. CASE UNCHANGED vars \/ Reconcile
  BY <1>1, QuietRefines DEF vars, Reconcile
<1>. QED
  BY <1>1, CallRefines, SlotRefines DEF Next, SlotStep, OnceInv

LEMMA InitRefines ==
    Init => AJ!Init
<1>. SUFFICES ASSUME Init PROVE AJ!Init
  OBVIOUS
<1>1. journal = [d \in Ids |-> "missing"] /\ runs = [d \in Ids |-> 0]
  BY DEF Init
<1>. QED
  BY <1>1 DEF AJ!Init

\* A delivery's executions are the calls of the journal, whoever marked it, died, or
\* reconciled the lock: one for each mark, none without, and a response is committed only
\* of an execution, and for good.
THEOREM JournalRefinement == Spec => ImplementsJournal
<1>1. Init => OnceInv /\ GenuineInv /\ BegunInv
  BY InitOnce, InitBegun DEF Init, GenuineInv
<1>2. OnceInv /\ GenuineInv /\ BegunInv /\ [Next]_vars => (OnceInv /\ GenuineInv /\ BegunInv)'
  BY NextOnce, NextGenuine, NextBegun DEF OnceInv
<1>. QED
  BY <1>1, <1>2, InitRefines, StepRefines, PTL DEF Spec, ImplementsJournal, AJ!Spec
=============================================================================
