----------------------------- MODULE FleetQueue -----------------------------
(***************************************************************************)
(* The fleet: a queue of runs (.nullius/fleet_queue.json) and a registry   *)
(* of workers (.nullius/fleet_workers.json) of one project, shared by      *)
(* every orchestrator server started on that project.                      *)
(*                                                                         *)
(* A handler has no await, so inside one server it runs to its end; but    *)
(* two servers share the files and take no lock.  A handler is therefore   *)
(* cut at its file accesses: it reads one or both files whole, decides,    *)
(* and replaces one or both whole (rename of a temporary file).  Nothing   *)
(* stops another server from writing in between.                           *)
(*                                                                         *)
(* The arguments of a request that only its last step uses are chosen      *)
(* there.  Claim ids are left out: they are fresh, and the requests that   *)
(* name one (adjudicate, reassign) are refused unless it is the claim of   *)
(* the snapshot.  A crash inside a handler leaves a prefix of its writes:  *)
(* nothing, or (poll) what a heartbeat writes; it needs no action.         *)
(***************************************************************************)
EXTENDS Integers, FiniteSets

CONSTANTS
    NumServers,     \* server processes on the project
    Workers,        \* worker ids, also the owners of direct claims
    NumItems,       \* queue items ever created (bound)
    Capacity,       \* max_concurrent_claims every worker announces
    Lease,          \* lease_duration_seconds of every claim
    MaxTime,        \* the clock stops here (bound)
    MaxOverlaps,    \* handlers begun while another server is inside one (bound)
    Nobody          \* absence: of an owner, a run, a snapshot

ASSUME FleetAssumption ==
    /\ NumServers \in Nat /\ NumItems \in Nat /\ Capacity \in Nat
    /\ Lease \in Nat \ {0} /\ MaxTime \in Nat /\ MaxOverlaps \in Nat
    /\ Nobody \notin Workers

VARIABLES
    queue,          \* the queue file: item -> [run, status, owner, expires]
    registry,       \* the registry file: worker -> "absent", "accepting", "closed"
    lastItem,       \* items created so far
    clock,          \* wall clock
    op,             \* server -> the handler it is in, with what it has read
    overlaps,       \* handlers begun so far while another server was inside one
    overlapped      \* history: some server has written from a stale snapshot

queueVars == <<queue, registry, lastItem, clock, op, overlaps, overlapped>>

Servers == 1..NumServers
Items == 1..NumItems
QueueRuns == Items          \* run ids, numbered in the order of their first use
Statuses == {"absent", "queued", "claimed", "closed"}  \* closed: completed, failed, cancelled
Kinds == {"queue", "registry", "reassign", "unregister", "poll"}  \* by files read

NoItem == [run |-> 0, status |-> "absent", owner |-> Nobody, expires |-> 0]

\* fresh (history): what the handler has read is still in the files
Handler(kind, at, now, q, r) ==
    [kind |-> kind, at |-> at, worker |-> Nobody, now |-> now, q |-> q, r |-> r, fresh |-> TRUE]
Idle == Handler("idle", "idle", 0, Nobody, Nobody)

ItemRecords == [run : {0} \cup QueueRuns, status : Statuses,
                owner : Workers \cup {Nobody}, expires : Nat]
Queues == [Items -> ItemRecords]
Registries == [Workers -> {"absent", "accepting", "closed"}]
\* an absent snapshot is not one of an empty file
ASSUME NobodyAssumption == Nobody \notin Queues /\ Nobody \notin Registries

Ops == [kind : Kinds \cup {"idle"}, at : {"idle", "first", "read", "half"},
        worker : Workers \cup {Nobody}, now : Nat,
        q : Queues \cup {Nobody}, r : Registries \cup {Nobody}, fresh : BOOLEAN]

-----------------------------------------------------------------------------
(* What the handlers compute from a queue they have read.                  *)

Claimed(q, i) == q[i].status = "claimed"
Active(q, i) == q[i].status \in {"queued", "claimed"}
Queued(q) == {i \in Items : q[i].status = "queued"}
Expired(item, now) == item.expires <= now

\* sortQueuedItems: equal priorities, so by time of enqueueing
First(i, S) == i \in S /\ \A j \in S : i <= j

Load(q, w) == Cardinality({i \in Items : Claimed(q, i) /\ q[i].owner = w})

ClaimOf(item, w, now) ==
    [run |-> item.run, status |-> "claimed", owner |-> w, expires |-> now + Lease]

ClearClaim(item, status) ==
    [run |-> item.run, status |-> status, owner |-> Nobody, expires |-> 0]

RenewOwned(q, w, now) ==
    [i \in Items |-> IF Claimed(q, i) /\ q[i].owner = w /\ ~Expired(q[i], now)
                     THEN [q[i] EXCEPT !.expires = now + Lease] ELSE q[i]]

\* Mutant: whatever is claimed is released.
AutoRelease_All(q, now) ==
    [i \in Items |-> IF Claimed(q, i) THEN ClearClaim(q[i], "queued") ELSE q[i]]

AutoRelease(q, now) ==
    [i \in Items |-> IF Claimed(q, i) /\ Expired(q[i], now)
                     THEN ClearClaim(q[i], "queued") ELSE q[i]]

\* Mutant: what a poll released is written only with something else.
Touched_OwnOnly(q, w, now) == \E i \in Items : Claimed(q, i) /\ q[i].owner = w

\* the poll renewed or released something, so it writes even without a claim
Touched(q, w, now) ==
    \E i \in Items : Claimed(q, i) /\ (q[i].owner = w \/ Expired(q[i], now))

Upsert(r, w) == [r EXCEPT ![w] = IF @ = "absent" THEN "accepting" ELSE @]

-----------------------------------------------------------------------------
QueueInit ==
    /\ queue = [i \in Items |-> NoItem]
    /\ registry = [w \in Workers |-> "absent"]
    /\ lastItem = 0 /\ clock = 0
    /\ op = [s \in Servers |-> Idle]
    /\ overlaps = 0 /\ overlapped = FALSE

Tick ==
    /\ clock < MaxTime
    /\ clock' = clock + 1
    /\ UNCHANGED <<queue, registry, lastItem, op, overlaps, overlapped>>

(* Reading.  A server keeps nothing between handlers, so which of the idle *)
(* ones takes a request makes no difference: the first.                    *)

Begin(s, record) ==
    /\ op[s] = Idle
    /\ \A t \in Servers : t < s => op[t] # Idle
    /\ op' = [op EXCEPT ![s] = record]
    /\ \/ overlaps' = overlaps /\ \A t \in Servers : op[t] = Idle
       \/ /\ overlaps' = overlaps + 1 /\ overlaps < MaxOverlaps
          /\ \E t \in Servers : op[t] # Idle
    /\ UNCHANGED <<queue, registry, lastItem, clock, overlapped>>

ReadQueue(s) ==
    Begin(s, Handler("queue", "read", 0, queue, Nobody))

ReadRegistry(s) ==
    Begin(s, Handler("registry", "read", 0, Nobody, registry))

ReassignBegin(s) ==
    Begin(s, Handler("reassign", "first", 0, queue, Nobody))

UnregisterBegin(s) ==
    Begin(s, Handler("unregister", "first", 0, Nobody, registry))

PollBegin(s) ==
    Begin(s, Handler("poll", "first", clock, Nobody, registry))

ReadSecond(s) ==
    /\ op[s].at = "first"
    /\ op' = [op EXCEPT ![s].at = "read",
                        ![s].q = IF op[s].kind = "reassign" THEN @ ELSE queue,
                        ![s].r = IF op[s].kind = "reassign" THEN registry ELSE @]
    /\ UNCHANGED <<queue, registry, lastItem, clock, overlaps, overlapped>>

(* Writing.  A handler that is refused ends without a write.               *)

WriteQueue(s, q) ==
    /\ queue' = q
    /\ op' = [t \in Servers |-> CASE t = s -> Idle
                                 [] t # s /\ op[t].q = Nobody -> op[t]
                                 [] OTHER -> [op[t] EXCEPT !.fresh = FALSE]]
    /\ overlapped' = (overlapped \/ ~op[s].fresh)
    /\ UNCHANGED <<registry, clock, overlaps>>

WriteRegistry(s, r, next) ==
    /\ registry' = r
    /\ op' = [t \in Servers |-> CASE t = s -> next
                                 [] t # s /\ op[t].r = Nobody -> op[t]
                                 [] OTHER -> [op[t] EXCEPT !.fresh = FALSE]]
    /\ overlapped' = (overlapped \/ ~op[s].fresh)
    /\ UNCHANGED <<queue, lastItem, clock, overlaps>>

GiveUp(s) ==
    /\ op[s].at = "read"
    /\ op[s].kind # "poll"
    /\ op' = [op EXCEPT ![s] = Idle]
    /\ UNCHANGED <<queue, registry, lastItem, clock, overlaps, overlapped>>

HasRead(s, kind) == op[s].kind = kind /\ op[s].at = "read"

\* Mutant: a claimed item does not count as active.
Enqueue_OnlyQueued(s, run) ==
    /\ HasRead(s, "queue")
    /\ lastItem < NumItems /\ run <= lastItem + 1
    /\ \A i \in Items : ~(op[s].q[i].run = run /\ op[s].q[i].status = "queued")
    /\ lastItem' = lastItem + 1
    /\ WriteQueue(s, [op[s].q EXCEPT ![lastItem + 1] =
                          [NoItem EXCEPT !.run = run, !.status = "queued"]])

Enqueue(s, run) ==
    /\ HasRead(s, "queue")
    /\ lastItem < NumItems /\ run <= lastItem + 1
    /\ \A i \in Items : ~(op[s].q[i].run = run /\ Active(op[s].q, i))
    /\ lastItem' = lastItem + 1
    /\ WriteQueue(s, [op[s].q EXCEPT ![lastItem + 1] =
                          [NoItem EXCEPT !.run = run, !.status = "queued"]])

\* a direct claim: any owner, registered or not, whatever it holds already
Claim(s, w) ==
    /\ HasRead(s, "queue")
    /\ \E S \in {Queued(op[s].q)}
            \cup {{i \in Queued(op[s].q) : op[s].q[i].run = run} : run \in QueueRuns} :
        \E i \in Items :
            /\ First(i, S)
            /\ WriteQueue(s, [op[s].q EXCEPT ![i] = ClaimOf(@, w, clock)])
    /\ UNCHANGED lastItem

\* release by the owner, and adjudication by an operator who names claim and owner
ReleaseItem(s, i, status) ==
    /\ HasRead(s, "queue")
    /\ Claimed(op[s].q, i)
    /\ WriteQueue(s, [op[s].q EXCEPT ![i] = ClearClaim(@, status)])
    /\ UNCHANGED lastItem

\* Mutant: the target may be full.
Reassign_Full(s, i, w) ==
    /\ HasRead(s, "reassign")
    /\ Claimed(op[s].q, i)
    /\ op[s].q[i].owner # w
    /\ op[s].r[op[s].q[i].owner] # "absent"
    /\ op[s].r[w] = "accepting"
    /\ Load(op[s].q, w) <= Capacity
    /\ WriteQueue(s, [op[s].q EXCEPT ![i] = ClaimOf(@, w, clock)])
    /\ UNCHANGED lastItem

Reassign(s, i, w) ==
    /\ HasRead(s, "reassign")
    /\ Claimed(op[s].q, i)
    /\ op[s].q[i].owner # w
    /\ op[s].r[op[s].q[i].owner] # "absent"
    /\ op[s].r[w] = "accepting"
    /\ Load(op[s].q, w) < Capacity
    /\ WriteQueue(s, [op[s].q EXCEPT ![i] = ClaimOf(@, w, clock)])
    /\ UNCHANGED lastItem

Heartbeat(s, w) ==
    /\ HasRead(s, "registry")
    /\ WriteRegistry(s, Upsert(op[s].r, w), Idle)

SetClaimAcceptance(s, w, accepts) ==
    /\ HasRead(s, "registry")
    /\ op[s].r[w] # "absent"
    /\ WriteRegistry(s, [op[s].r EXCEPT ![w] = IF accepts THEN "accepting" ELSE "closed"], Idle)

Unregister(s, w) ==
    /\ HasRead(s, "unregister")
    /\ op[s].r[w] = "closed"
    /\ Load(op[s].q, w) = 0
    /\ WriteRegistry(s, [op[s].r EXCEPT ![w] = "absent"], Idle)

PollWriteRegistry(s, w) ==
    LET r == Upsert(op[s].r, w) IN
    /\ HasRead(s, "poll")
    /\ WriteRegistry(s, r, [op[s] EXCEPT !.at = "half", !.worker = w, !.r = r])

PollFinish(s) ==
    LET w == op[s].worker
        q == AutoRelease(RenewOwned(op[s].q, w, op[s].now), op[s].now)
        mayClaim == /\ op[s].r[w] = "accepting"
                    /\ Load(q, w) < Capacity
                    /\ Queued(q) # {}
    IN
    /\ op[s].at = "half"
    /\ \/ /\ mayClaim
          /\ \E i \in Items :
                /\ First(i, Queued(q))
                /\ WriteQueue(s, [q EXCEPT ![i] = ClaimOf(@, w, op[s].now)])
          /\ UNCHANGED lastItem
       \/ /\ ~mayClaim
          /\ Touched(op[s].q, w, op[s].now)
          /\ WriteQueue(s, q)
          /\ UNCHANGED lastItem
       \/ /\ ~mayClaim
          /\ ~Touched(op[s].q, w, op[s].now)
          /\ op' = [op EXCEPT ![s] = Idle]
          /\ UNCHANGED <<queue, registry, lastItem, clock, overlaps, overlapped>>

BeginStep(s) ==
    \/ ReadQueue(s) \/ ReadRegistry(s) \/ ReassignBegin(s) \/ UnregisterBegin(s) \/ PollBegin(s)

HandlerStep(s) ==
    \/ ReadSecond(s) \/ GiveUp(s)
    \/ \E run \in QueueRuns : Enqueue(s, run)
    \/ \E w \in Workers : Claim(s, w)
    \/ \E i \in Items, status \in {"queued", "closed"} : ReleaseItem(s, i, status)
    \/ \E i \in Items, w \in Workers : Reassign(s, i, w)
    \/ \E w \in Workers : Heartbeat(s, w) \/ Unregister(s, w) \/ PollWriteRegistry(s, w)
    \/ \E w \in Workers, accepts \in BOOLEAN : SetClaimAcceptance(s, w, accepts)
    \/ PollFinish(s)

QueueNext == Tick \/ \E s \in Servers : BeginStep(s) \/ HandlerStep(s)

QueueSpec == QueueInit /\ [][QueueNext]_queueVars

-----------------------------------------------------------------------------
QueueTypeOK ==
    /\ queue \in Queues /\ registry \in Registries
    /\ lastItem \in 0..NumItems /\ clock \in 0..MaxTime
    /\ op \in [Servers -> Ops]
    /\ overlaps \in 0..MaxOverlaps /\ overlapped \in BOOLEAN

\* No run has two active items, in the file or in what any server has read: whole-file
\* replacement keeps the enqueue check (findActiveItem) sound even when updates are
\* lost, and a claim is on an item exactly while the item is claimed.
OneItemPerRun(q) ==
    /\ \A i, j \in Items : Active(q, i) /\ Active(q, j) /\ q[i].run = q[j].run => i = j
    /\ \A i \in Items : (q[i].owner # Nobody) <=> Claimed(q, i)

OneActiveItemPerRun ==
    /\ OneItemPerRun(queue)
    /\ \A s \in Servers : op[s].q # Nobody => OneItemPerRun(op[s].q)

\* A poll takes no lease that still runs: unless another server wrote in between, the
\* items a poll finds claimed and unexpired keep their owner (fleet-lease.ts: renew
\* before release, release on expiry only).
LeaseHonoured ==
    [][\A s \in Servers, i \in Items :
          /\ op[s].at = "half" /\ op[s].fresh /\ op'[s] = Idle
          /\ Claimed(queue, i) /\ ~Expired(queue[i], clock)
          => Claimed(queue', i) /\ queue'[i].owner = queue[i].owner]_queueVars

\* As long as no server has written from a stale snapshot, a worker that is granted an
\* item by a poll or a reassignment is registered and within its capacity, and a worker
\* is unregistered only when it holds nothing: although these requests read the two files
\* in different orders, and a poll writes one before the other, they do not cross.
Grants(s, w) ==
    /\ op[s].kind \in {"poll", "reassign"} /\ op'[s] = Idle
    /\ \E i \in Items : Claimed(queue', i) /\ queue'[i].owner = w /\ queue[i].owner # w

GrantsCovered ==
    [][~overlapped' => \A w \in Workers :
          /\ (\E s \in Servers : Grants(s, w))
                => registry'[w] # "absent" /\ Load(queue', w) <= Capacity
          /\ registry[w] # "absent" /\ registry'[w] = "absent" => Load(queue', w) = 0]_queueVars

\* The servers that share the two files act as one, cut handlers and all, until one of
\* them writes from a stale snapshot: every write is then a step of the leased queue.
LQ == INSTANCE LeasedQueue WITH torn <- overlapped
\* The refinement of LeasedQueue, under that mapping.
ImplementsLeasedQueue == LQ!Spec

\* An expired lease does not hold its item for ever: as long as workers go on polling,
\* the item is requeued (or its claim ended otherwise).  Only a server that writes an
\* old queue back could prevent it.
ExpiredLeaseEnds ==
    \A i \in Items :
        (Claimed(queue, i) /\ Expired(queue[i], clock))
            ~> (~(Claimed(queue, i) /\ Expired(queue[i], clock)) \/ overlapped)
=============================================================================
