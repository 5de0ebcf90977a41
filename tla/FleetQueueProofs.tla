--------------------------- MODULE FleetQueueProofs -------------------------
(***************************************************************************)
(* Proofs about FleetQueue for any number of servers, workers and items,   *)
(* any capacity and lease: its types, one active item per run although     *)
(* updates are lost, leases that polls honour, grants that stay within     *)
(* what the two files allow, and the queue that LeasedQueue promises.      *)
(***************************************************************************)
EXTENDS FleetQueue, FiniteSetTheorems, TLAPS

USE FleetAssumption DEF FleetAssumption

\* What a server holds of the two files, by its handler `o'.
HasQueue(o) ==
    \/ o.kind \in {"queue", "reassign"}
    \/ o.kind \in {"unregister", "poll"} /\ o.at \in {"read", "half"}
HasRegistry(o) ==
    \/ o.kind \in {"registry", "unregister", "poll"}
    \/ o.kind = "reassign" /\ o.at = "read"

Sound(o) ==
    /\ o \in Ops
    /\ (o.kind = "idle") <=> (o.at = "idle")
    /\ o.at = "half" => o.kind = "poll" /\ o.worker \in Workers
    /\ HasQueue(o) => o.q \in Queues
    /\ HasRegistry(o) => o.r \in Registries
    /\ o.q # Nobody => OneItemPerRun(o.q)

\* A fresh handler has what is in the files, and read it in the past.
Current(o) ==
    /\ o.fresh /\ HasQueue(o) => o.q = queue
    /\ o.fresh /\ HasRegistry(o) => o.r = registry
    /\ o.now <= clock

Holds == \A s \in Servers : Sound(op[s]) /\ Current(op[s])

QueueInv == QueueTypeOK /\ OneItemPerRun(queue) /\ Holds

-----------------------------------------------------------------------------
(* What the handlers compute *)

LEMMA ItemFields ==
    ASSUME NEW item \in ItemRecords, NEW w \in Workers, NEW now \in Nat,
           NEW status \in Statuses
    PROVE  ClaimOf(item, w, now) \in ItemRecords /\ ClearClaim(item, status) \in ItemRecords
  BY DEF ClaimOf, ClearClaim, ItemRecords, Statuses

LEMMA PutTyped ==
    ASSUME NEW q \in Queues, NEW i \in Items, NEW item \in ItemRecords
    PROVE  [q EXCEPT ![i] = item] \in Queues
  BY DEF Queues

LEMMA FreshItemTyped ==
    ASSUME NEW run \in QueueRuns
    PROVE  [NoItem EXCEPT !.run = run, !.status = "queued"] \in ItemRecords
  BY DEF NoItem, ItemRecords, Statuses

LEMMA RenewTyped ==
    ASSUME NEW q \in Queues, NEW w \in Workers, NEW now \in Nat
    PROVE  RenewOwned(q, w, now) \in Queues
<1>1. ASSUME NEW i \in Items PROVE [q[i] EXCEPT !.expires = now + Lease] \in ItemRecords
  BY DEF Queues, ItemRecords
<1>. QED
  BY <1>1 DEF RenewOwned, Queues

LEMMA ReleaseTyped ==
    ASSUME NEW q \in Queues, NEW now \in Nat
    PROVE  AutoRelease(q, now) \in Queues
<1>1. ASSUME NEW i \in Items PROVE ClearClaim(q[i], "queued") \in ItemRecords
  BY DEF Queues, ItemRecords, ClearClaim, Statuses
<1>. QED
  BY <1>1 DEF AutoRelease, Queues

LEMMA UpsertTyped ==
    ASSUME NEW r \in Registries, NEW w \in Workers
    PROVE  Upsert(r, w) \in Registries
  BY DEF Upsert, Registries

-----------------------------------------------------------------------------
(* One active item per run *)

LEMMA EnqueueKeeps ==
    ASSUME NEW q \in Queues, OneItemPerRun(q), NEW i \in Items, NEW run \in QueueRuns,
           \A j \in Items : ~(q[j].run = run /\ Active(q, j))
    PROVE  OneItemPerRun([q EXCEPT ![i] = [NoItem EXCEPT !.run = run, !.status = "queued"]])
<1>1. DEFINE n == [NoItem EXCEPT !.run = run, !.status = "queued"]
<1>2. n.run = run /\ n.status = "queued" /\ n.owner = Nobody
  BY DEF NoItem
<1>3. DEFINE p == [q EXCEPT ![i] = n]
<1>4. \A j \in Items : p[j] = IF j = i THEN n ELSE q[j]
  BY DEF Queues
<1>. HIDE DEF n, p
<1>. QED
  BY <1>2, <1>4 DEF OneItemPerRun, Active, Claimed, n, p

LEMMA ClaimKeeps ==
    ASSUME NEW q \in Queues, OneItemPerRun(q), NEW i \in Items, Active(q, i),
           NEW w \in Workers, NEW now \in Nat
    PROVE  OneItemPerRun([q EXCEPT ![i] = ClaimOf(q[i], w, now)])
<1>1. DEFINE p == [q EXCEPT ![i] = ClaimOf(q[i], w, now)]
<1>2. \A j \in Items : p[j] = IF j = i THEN ClaimOf(q[i], w, now) ELSE q[j]
  BY DEF Queues
<1>. HIDE DEF p
<1>3. /\ p[i].run = q[i].run /\ p[i].status = "claimed" /\ p[i].owner = w
      /\ \A j \in Items : j # i => p[j] = q[j]
  BY <1>2 DEF ClaimOf
<1>4. OneItemPerRun(p)
  BY <1>3 DEF OneItemPerRun, Active, Claimed
<1>. QED
  BY <1>4 DEF p

LEMMA ReleaseKeeps ==
    ASSUME NEW q \in Queues, OneItemPerRun(q), NEW i \in Items, Claimed(q, i),
           NEW status \in {"queued", "closed"}
    PROVE  OneItemPerRun([q EXCEPT ![i] = ClearClaim(q[i], status)])
<1>1. DEFINE p == [q EXCEPT ![i] = ClearClaim(q[i], status)]
<1>2. \A j \in Items : p[j] = IF j = i THEN ClearClaim(q[i], status) ELSE q[j]
  BY DEF Queues
<1>. HIDE DEF p
<1>3. /\ p[i].run = q[i].run /\ p[i].status = status /\ p[i].owner = Nobody
      /\ \A j \in Items : j # i => p[j] = q[j]
  BY <1>2 DEF ClearClaim
<1>4. OneItemPerRun(p)
  BY <1>3 DEF OneItemPerRun, Active, Claimed
<1>. QED
  BY <1>4 DEF p

\* What a poll makes of the queue: owners change only from one to none.
LEMMA PolledItem ==
    ASSUME NEW q \in Queues, NEW w \in Workers, NEW now \in Nat, NEW i \in Items
    PROVE  LET p == AutoRelease(RenewOwned(q, w, now), now) IN
           /\ p[i].run = q[i].run
           /\ \/ p[i].status = q[i].status /\ p[i].owner = q[i].owner
              \/ Claimed(q, i) /\ p[i].status = "queued" /\ p[i].owner = Nobody
           /\ Claimed(q, i) /\ ~Expired(q[i], now) => Claimed(p, i)
<1>1. DEFINE m == RenewOwned(q, w, now)
<1>2. /\ m[i].run = q[i].run /\ m[i].status = q[i].status /\ m[i].owner = q[i].owner
      /\ Claimed(q, i) /\ ~Expired(q[i], now) => ~Expired(m[i], now)
  <2>1. q[i] \in ItemRecords
    BY DEF Queues
  <2>2. now + Lease > now
    OBVIOUS
  <2>. QED
    BY <2>1, <2>2 DEF RenewOwned, ItemRecords, Expired, Claimed
<1>. HIDE DEF m
<1>3. AutoRelease(m, now)[i] = IF Claimed(m, i) /\ Expired(m[i], now)
                               THEN ClearClaim(m[i], "queued") ELSE m[i]
  BY DEF AutoRelease
<1>4. AutoRelease(m, now)[i].run = m[i].run
  BY <1>3 DEF ClearClaim
<1>5. \/ AutoRelease(m, now)[i] = m[i]
      \/ /\ Claimed(m, i) /\ Expired(m[i], now)
         /\ AutoRelease(m, now)[i].status = "queued" /\ AutoRelease(m, now)[i].owner = Nobody
  BY <1>3 DEF ClearClaim
<1>6. Claimed(m, i) <=> Claimed(q, i)
  BY <1>2 DEF Claimed
<1>7. Claimed(q, i) /\ ~Expired(q[i], now) => Claimed(AutoRelease(m, now), i)
  BY <1>2, <1>3, <1>6 DEF Claimed
<1>. QED
  BY <1>2, <1>4, <1>5, <1>6, <1>7 DEF m

LEMMA PollKeeps ==
    ASSUME NEW q \in Queues, OneItemPerRun(q), NEW w \in Workers, NEW now \in Nat
    PROVE  OneItemPerRun(AutoRelease(RenewOwned(q, w, now), now))
<1>1. DEFINE p == AutoRelease(RenewOwned(q, w, now), now)
<1>2. ASSUME NEW i \in Items
      PROVE  /\ p[i].run = q[i].run
             /\ \/ p[i].status = q[i].status /\ p[i].owner = q[i].owner
                \/ Claimed(q, i) /\ p[i].status = "queued" /\ p[i].owner = Nobody
  BY PolledItem
<1>. HIDE DEF p
<1>3. OneItemPerRun(p)
  BY <1>2 DEF OneItemPerRun, Active, Claimed
<1>. QED
  BY <1>3 DEF p

-----------------------------------------------------------------------------
(* The shared steps keep the invariant *)

LEMMA FreshTyped ==
    ASSUME NEW o, Sound(o)
    PROVE  /\ Sound([o EXCEPT !.fresh = FALSE])
           /\ [o EXCEPT !.fresh = FALSE].now = o.now
           /\ [o EXCEPT !.fresh = FALSE].fresh = FALSE
<1>1. o \in Ops
  BY DEF Sound
<1>2. DEFINE n == [o EXCEPT !.fresh = FALSE]
<1>3. /\ n \in Ops /\ n.kind = o.kind /\ n.at = o.at /\ n.worker = o.worker
      /\ n.q = o.q /\ n.r = o.r /\ n.now = o.now /\ n.fresh = FALSE
  BY <1>1 DEF Ops
<1>. HIDE DEF n
<1>4. Sound(n)
  BY <1>3 DEF Sound, HasQueue, HasRegistry
<1>. QED
  BY <1>3, <1>4 DEF n

LEMMA IdleSound == Sound(Idle) /\ ~HasQueue(Idle) /\ ~HasRegistry(Idle) /\ Idle.now = 0
  BY DEF Idle, Handler, Ops, Kinds, Sound, HasQueue, HasRegistry

LEMMA BeginKeeps ==
    ASSUME QueueInv, NEW s \in Servers, NEW record, Sound(record), Current(record),
           Begin(s, record)
    PROVE  QueueInv'
<1>1. overlaps' \in 0..MaxOverlaps
  BY DEF Begin, QueueInv, QueueTypeOK
<1>2. ASSUME NEW t \in Servers PROVE Sound(op'[t]) /\ Current(op'[t])
  BY DEF Begin, QueueInv, QueueTypeOK, Holds
<1>3. op' \in [Servers -> Ops]
  BY <1>2 DEF Begin, QueueInv, QueueTypeOK, Sound
<1>4. QueueTypeOK'
  BY <1>1, <1>3 DEF Begin, QueueInv, QueueTypeOK
<1>5. Holds'
  BY <1>2 DEF Holds, Current, Begin
<1>. QED
  BY <1>4, <1>5 DEF QueueInv, Begin

LEMMA WriteQueueKeeps ==
    ASSUME QueueInv, NEW s \in Servers, NEW q \in Queues, OneItemPerRun(q),
           WriteQueue(s, q), lastItem' \in 0..NumItems
    PROVE  QueueInv'
<1>1. ASSUME NEW t \in Servers PROVE Sound(op'[t]) /\ Current(op[t])'
  <2>1. Sound(op[t]) /\ Current(op[t])
    BY DEF QueueInv, Holds
  <2>2. CASE t = s
    <3>1. op'[t] = Idle
      BY <2>2 DEF WriteQueue
    <3>2. clock \in Nat /\ clock' = clock
      BY DEF QueueInv, QueueTypeOK, WriteQueue
    <3>3. ~HasQueue(op'[t]) /\ ~HasRegistry(op'[t]) /\ op'[t].now = 0 /\ Sound(op'[t])
      BY <3>1, IdleSound
    <3>. QED
      BY <3>2, <3>3 DEF Current, HasQueue, HasRegistry
  <2>3. CASE t # s /\ op[t].q = Nobody
    <3>1. op'[t] = op[t]
      BY <2>3 DEF WriteQueue
    <3>2. ~HasQueue(op[t])
      BY <2>1, <2>3, NobodyAssumption DEF Sound
    <3>. QED
      BY <2>1, <3>1, <3>2 DEF Current, WriteQueue
  <2>4. CASE t # s /\ op[t].q # Nobody
    <3>1. op'[t] = [op[t] EXCEPT !.fresh = FALSE]
      BY <2>4 DEF WriteQueue
    <3>. QED
      BY <2>1, <3>1, FreshTyped DEF Current, WriteQueue
  <2>. QED
    BY <2>2, <2>3, <2>4
<1>2. op' \in [Servers -> Ops]
  BY <1>1 DEF WriteQueue, Sound
<1>3. overlapped' \in BOOLEAN
  BY DEF WriteQueue, QueueInv, QueueTypeOK
<1>4. QueueTypeOK'
  BY <1>2, <1>3 DEF WriteQueue, QueueInv, QueueTypeOK
<1>. QED
  BY <1>1, <1>4 DEF QueueInv, Holds, WriteQueue

LEMMA WriteRegistryKeeps ==
    ASSUME QueueInv, NEW s \in Servers, NEW r \in Registries, NEW next, Sound(next),
           WriteRegistry(s, r, next), next.now <= clock,
           next.fresh /\ HasQueue(next) => next.q = queue,
           HasRegistry(next) => next.r = r
    PROVE  QueueInv'
<1>1. ASSUME NEW t \in Servers PROVE Sound(op'[t]) /\ Current(op[t])'
  <2>1. Sound(op[t]) /\ Current(op[t])
    BY DEF QueueInv, Holds
  <2>2. CASE t = s
    <3>1. op'[t] = next
      BY <2>2 DEF WriteRegistry
    <3>. QED
      BY <3>1 DEF Current, WriteRegistry
  <2>3. CASE t # s /\ op[t].r = Nobody
    <3>1. op'[t] = op[t]
      BY <2>3 DEF WriteRegistry
    <3>2. ~HasRegistry(op[t])
      BY <2>1, <2>3, NobodyAssumption DEF Sound
    <3>. QED
      BY <2>1, <3>1, <3>2 DEF Current, WriteRegistry
  <2>4. CASE t # s /\ op[t].r # Nobody
    <3>1. op'[t] = [op[t] EXCEPT !.fresh = FALSE]
      BY <2>4 DEF WriteRegistry
    <3>. QED
      BY <2>1, <3>1, FreshTyped DEF Current, WriteRegistry
  <2>. QED
    BY <2>2, <2>3, <2>4
<1>2. op' \in [Servers -> Ops]
  BY <1>1 DEF WriteRegistry, Sound
<1>3. overlapped' \in BOOLEAN
  BY DEF WriteRegistry, QueueInv, QueueTypeOK
<1>4. QueueTypeOK'
  BY <1>2, <1>3 DEF WriteRegistry, QueueInv, QueueTypeOK
<1>. QED
  BY <1>1, <1>4 DEF QueueInv, Holds, WriteRegistry

LEMMA MoveKeeps ==
    ASSUME QueueInv, NEW s \in Servers, NEW o, Sound(o), Current(o), op' = [op EXCEPT ![s] = o],
           UNCHANGED <<queue, registry, lastItem, clock, overlaps, overlapped>>
    PROVE  QueueInv'
<1>1. ASSUME NEW t \in Servers PROVE Sound(op'[t]) /\ Current(op'[t])
  BY DEF QueueInv, QueueTypeOK, Holds
<1>2. op' \in [Servers -> Ops]
  BY <1>1 DEF QueueInv, QueueTypeOK, Sound
<1>3. QueueTypeOK'
  BY <1>2 DEF QueueInv, QueueTypeOK
<1>4. Holds'
  BY <1>1 DEF Holds, Current
<1>. QED
  BY <1>3, <1>4 DEF QueueInv

-----------------------------------------------------------------------------
(* Every step keeps the invariant *)

LEMMA HandlerSound ==
    ASSUME QueueInv, NEW kind, NEW at, NEW now \in {0, clock}, NEW q, NEW r,
           \/ kind = "queue" /\ at = "read" /\ q = queue /\ r = Nobody
           \/ kind = "reassign" /\ at = "first" /\ q = queue /\ r = Nobody
           \/ kind = "registry" /\ at = "read" /\ q = Nobody /\ r = registry
           \/ kind \in {"unregister", "poll"} /\ at = "first" /\ q = Nobody /\ r = registry
    PROVE  Sound(Handler(kind, at, now, q, r)) /\ Current(Handler(kind, at, now, q, r))
<1>1. queue \in Queues /\ registry \in Registries /\ clock \in Nat /\ OneItemPerRun(queue)
  BY DEF QueueInv, QueueTypeOK
<1>2. DEFINE o == Handler(kind, at, now, q, r)
<1>3. /\ o.kind = kind /\ o.at = at /\ o.now = now /\ o.q = q /\ o.r = r
      /\ o.worker = Nobody /\ o \in Ops
  BY <1>1 DEF Handler, Ops, Kinds
<1>. HIDE DEF o
<1>4. Sound(o) /\ Current(o)
  BY <1>1, <1>3 DEF Sound, Current, HasQueue, HasRegistry
<1>. QED
  BY <1>4 DEF o

LEMMA BeginStepKeeps ==
    ASSUME QueueInv, NEW s \in Servers, BeginStep(s)
    PROVE  QueueInv'
<1>1. CASE ReadQueue(s)
  <2>1. Sound(Handler("queue", "read", 0, queue, Nobody)) /\ Current(Handler("queue", "read", 0, queue, Nobody))
    BY HandlerSound
  <2>2. Begin(s, Handler("queue", "read", 0, queue, Nobody))
    BY <1>1 DEF ReadQueue
  <2>. QED
    BY <2>1, <2>2, BeginKeeps
<1>2. CASE ReadRegistry(s)
  <2>1. Sound(Handler("registry", "read", 0, Nobody, registry)) /\ Current(Handler("registry", "read", 0, Nobody, registry))
    BY HandlerSound
  <2>2. Begin(s, Handler("registry", "read", 0, Nobody, registry))
    BY <1>2 DEF ReadRegistry
  <2>. QED
    BY <2>1, <2>2, BeginKeeps
<1>3. CASE ReassignBegin(s)
  <2>1. Sound(Handler("reassign", "first", 0, queue, Nobody)) /\ Current(Handler("reassign", "first", 0, queue, Nobody))
    BY HandlerSound
  <2>2. Begin(s, Handler("reassign", "first", 0, queue, Nobody))
    BY <1>3 DEF ReassignBegin
  <2>. QED
    BY <2>1, <2>2, BeginKeeps
<1>4. CASE UnregisterBegin(s)
  <2>1. Sound(Handler("unregister", "first", 0, Nobody, registry)) /\ Current(Handler("unregister", "first", 0, Nobody, registry))
    BY HandlerSound
  <2>2. Begin(s, Handler("unregister", "first", 0, Nobody, registry))
    BY <1>4 DEF UnregisterBegin
  <2>. QED
    BY <2>1, <2>2, BeginKeeps
<1>5. CASE PollBegin(s)
  <2>1. Sound(Handler("poll", "first", clock, Nobody, registry)) /\ Current(Handler("poll", "first", clock, Nobody, registry))
    BY HandlerSound
  <2>2. Begin(s, Handler("poll", "first", clock, Nobody, registry))
    BY <1>5 DEF PollBegin
  <2>. QED
    BY <2>1, <2>2, BeginKeeps
<1>. QED
  BY <1>1, <1>2, <1>3, <1>4, <1>5 DEF BeginStep

LEMMA ReadSecondKeeps ==
    ASSUME QueueInv, NEW s \in Servers, ReadSecond(s)
    PROVE  QueueInv'
<1>1. queue \in Queues /\ registry \in Registries /\ OneItemPerRun(queue)
      /\ Sound(op[s]) /\ Current(op[s]) /\ op[s].at = "first" /\ op \in [Servers -> Ops]
  BY DEF QueueInv, QueueTypeOK, Holds, ReadSecond
<1>2. DEFINE o == op'[s]
<1>3. op' = [op EXCEPT ![s] = o]
  BY <1>1 DEF ReadSecond
<1>4. /\ o \in Ops
      /\ o.kind = op[s].kind /\ o.at = "read" /\ o.now = op[s].now
      /\ o.worker = op[s].worker /\ o.fresh = op[s].fresh
      /\ o.q = IF op[s].kind = "reassign" THEN op[s].q ELSE queue
      /\ o.r = IF op[s].kind = "reassign" THEN registry ELSE op[s].r
  <2>. DEFINE x == op[s]
              q == IF x.kind = "reassign" THEN x.q ELSE queue
              r == IF x.kind = "reassign" THEN registry ELSE x.r
  <2>1. x \in Ops
    BY <1>1
  <2>2. o = [x EXCEPT !.at = "read", !.q = q, !.r = r]
    BY <1>1 DEF ReadSecond
  <2>3. q \in Queues \cup {Nobody} /\ r \in Registries \cup {Nobody}
    BY <1>1, <2>1 DEF Ops
  <2>. HIDE DEF x, q, r, o
  <2>4. /\ o \in Ops /\ o.kind = x.kind /\ o.at = "read" /\ o.now = x.now
        /\ o.worker = x.worker /\ o.fresh = x.fresh /\ o.q = q /\ o.r = r
    BY <2>1, <2>2, <2>3 DEF Ops
  <2>. QED
    BY <2>4 DEF x, q, r
<1>. HIDE DEF o
<1>5. Sound(o)
  BY <1>1, <1>4 DEF Sound, HasQueue, HasRegistry, Ops, Kinds
<1>6. Current(o)
  BY <1>1, <1>4 DEF Sound, Current, HasQueue, HasRegistry, Ops, Kinds
<1>. QED
  BY <1>3, <1>5, <1>6, MoveKeeps DEF ReadSecond

LEMMA GiveUpKeeps ==
    ASSUME QueueInv, NEW s \in Servers, GiveUp(s)
    PROVE  QueueInv'
<1>1. clock \in Nat
  BY DEF QueueInv, QueueTypeOK
<1>2. Sound(Idle) /\ Current(Idle)
  BY <1>1, IdleSound DEF Current, HasQueue, HasRegistry
<1>. QED
  BY <1>2, MoveKeeps DEF GiveUp

\* What a handler that has read the queue holds.
LEMMA QueueRead ==
    ASSUME QueueInv, NEW s \in Servers, HasRead(s, "queue") \/ HasRead(s, "reassign")
    PROVE  op[s].q \in Queues /\ OneItemPerRun(op[s].q) /\ clock \in Nat /\ lastItem \in 0..NumItems
<1>1. Sound(op[s]) /\ HasQueue(op[s])
  BY DEF QueueInv, Holds, HasRead, HasQueue
<1>2. op[s].q \in Queues /\ op[s].q # Nobody
  BY <1>1, NobodyAssumption DEF Sound
<1>. QED
  BY <1>1, <1>2 DEF Sound, QueueInv, QueueTypeOK

LEMMA EnqueueStep ==
    ASSUME QueueInv, NEW s \in Servers, NEW run \in QueueRuns, Enqueue(s, run)
    PROVE  QueueInv'
<1>1. op[s].q \in Queues /\ OneItemPerRun(op[s].q) /\ lastItem \in 0..NumItems
  BY QueueRead DEF Enqueue
<1>2. lastItem + 1 \in Items /\ lastItem' \in 0..NumItems
  BY <1>1 DEF Enqueue, Items
<1>3. DEFINE n == [NoItem EXCEPT !.run = run, !.status = "queued"]
<1>4. n \in ItemRecords
  BY FreshItemTyped
<1>5. DEFINE q == [op[s].q EXCEPT ![lastItem + 1] = n]
<1>6. q \in Queues
  BY <1>1, <1>2, <1>4, PutTyped
<1>7. OneItemPerRun(q)
  BY <1>1, <1>2, EnqueueKeeps DEF Enqueue
<1>8. WriteQueue(s, q)
  BY DEF Enqueue
<1>. QED
  BY <1>2, <1>6, <1>7, <1>8, WriteQueueKeeps

LEMMA ClaimStep ==
    ASSUME QueueInv, NEW s \in Servers, NEW w \in Workers, Claim(s, w)
    PROVE  QueueInv'
<1>1. op[s].q \in Queues /\ OneItemPerRun(op[s].q) /\ lastItem \in 0..NumItems /\ clock \in Nat
  BY QueueRead DEF Claim
<1>2. PICK i \in Items :
          /\ i \in Queued(op[s].q)
          /\ WriteQueue(s, [op[s].q EXCEPT ![i] = ClaimOf(op[s].q[i], w, clock)])
  BY DEF Claim, First
<1>3. Active(op[s].q, i) /\ op[s].q[i] \in ItemRecords
  BY <1>1, <1>2 DEF Queued, Active, Queues
<1>4. DEFINE q == [op[s].q EXCEPT ![i] = ClaimOf(op[s].q[i], w, clock)]
<1>5. ClaimOf(op[s].q[i], w, clock) \in ItemRecords
  BY <1>1, <1>3, ItemFields DEF Statuses
<1>6. q \in Queues
  BY <1>1, <1>5, PutTyped
<1>7. OneItemPerRun(q)
  BY <1>1, <1>3, ClaimKeeps
<1>. QED
  BY <1>1, <1>2, <1>6, <1>7, WriteQueueKeeps DEF Claim

LEMMA ReleaseStep ==
    ASSUME QueueInv, NEW s \in Servers, NEW i \in Items, NEW status \in {"queued", "closed"},
           ReleaseItem(s, i, status)
    PROVE  QueueInv'
<1>1. op[s].q \in Queues /\ OneItemPerRun(op[s].q) /\ lastItem \in 0..NumItems
  BY QueueRead DEF ReleaseItem
<1>2. op[s].q[i] \in ItemRecords /\ Claimed(op[s].q, i)
  BY <1>1 DEF ReleaseItem, Queues
<1>3. DEFINE q == [op[s].q EXCEPT ![i] = ClearClaim(op[s].q[i], status)]
<1>4. ClearClaim(op[s].q[i], status) \in ItemRecords
  BY <1>2 DEF ClearClaim, ItemRecords, Statuses
<1>5. q \in Queues
  BY <1>1, <1>4, PutTyped
<1>6. OneItemPerRun(q)
  BY <1>1, <1>2, ReleaseKeeps
<1>7. WriteQueue(s, q) /\ lastItem' = lastItem
  BY DEF ReleaseItem
<1>. QED
  BY <1>1, <1>5, <1>6, <1>7, WriteQueueKeeps

LEMMA ReassignStep ==
    ASSUME QueueInv, NEW s \in Servers, NEW i \in Items, NEW w \in Workers, Reassign(s, i, w)
    PROVE  QueueInv'
<1>1. op[s].q \in Queues /\ OneItemPerRun(op[s].q) /\ lastItem \in 0..NumItems /\ clock \in Nat
  BY QueueRead DEF Reassign
<1>2. op[s].q[i] \in ItemRecords /\ Active(op[s].q, i)
  BY <1>1 DEF Reassign, Queues, Active, Claimed
<1>3. DEFINE q == [op[s].q EXCEPT ![i] = ClaimOf(op[s].q[i], w, clock)]
<1>4. ClaimOf(op[s].q[i], w, clock) \in ItemRecords
  BY <1>1, <1>2, ItemFields DEF Statuses
<1>5. q \in Queues
  BY <1>1, <1>4, PutTyped
<1>6. OneItemPerRun(q)
  BY <1>1, <1>2, ClaimKeeps
<1>7. WriteQueue(s, q) /\ lastItem' = lastItem
  BY DEF Reassign
<1>. QED
  BY <1>1, <1>5, <1>6, <1>7, WriteQueueKeeps

LEMMA RegistryRead ==
    ASSUME QueueInv, NEW s \in Servers,
           HasRead(s, "registry") \/ HasRead(s, "unregister") \/ HasRead(s, "poll")
    PROVE  op[s].r \in Registries /\ clock \in Nat
<1>1. Sound(op[s]) /\ HasRegistry(op[s])
  BY DEF QueueInv, Holds, HasRead, HasRegistry
<1>. QED
  BY <1>1 DEF Sound, QueueInv, QueueTypeOK

LEMMA RegistryStep ==
    ASSUME QueueInv, NEW s \in Servers, NEW w \in Workers,
           \/ Heartbeat(s, w) \/ Unregister(s, w)
           \/ \E accepts \in BOOLEAN : SetClaimAcceptance(s, w, accepts)
    PROVE  QueueInv'
<1>1. op[s].r \in Registries /\ clock \in Nat
  BY RegistryRead DEF Heartbeat, Unregister, SetClaimAcceptance
<1>2. PICK r \in Registries : WriteRegistry(s, r, Idle)
  <2>1. CASE Heartbeat(s, w)
    BY <1>1, <2>1, UpsertTyped DEF Heartbeat
  <2>2. CASE Unregister(s, w)
    BY <1>1, <2>2 DEF Unregister, Registries
  <2>3. ASSUME NEW accepts \in BOOLEAN, SetClaimAcceptance(s, w, accepts)
        PROVE  \E r \in Registries : WriteRegistry(s, r, Idle)
    BY <1>1, <2>3 DEF SetClaimAcceptance, Registries
  <2>. QED
    BY <2>1, <2>2, <2>3
<1>. QED
  BY <1>1, <1>2, IdleSound, WriteRegistryKeeps

\* Between its two writes a poll holds what it wrote and what it read.
LEMMA PollWriteStep ==
    ASSUME QueueInv, NEW s \in Servers, NEW w \in Workers, PollWriteRegistry(s, w)
    PROVE  QueueInv'
<1>1. op[s].r \in Registries /\ Sound(op[s]) /\ Current(op[s]) /\ op[s] \in Ops
      /\ op[s].kind = "poll" /\ op[s].at = "read"
  BY RegistryRead DEF PollWriteRegistry, QueueInv, Holds, Sound, HasRead
<1>2. DEFINE r == Upsert(op[s].r, w)
             o == [op[s] EXCEPT !.at = "half", !.worker = w, !.r = r]
<1>3. r \in Registries
  BY <1>1, UpsertTyped
<1>4. WriteRegistry(s, r, o)
  BY DEF PollWriteRegistry
<1>. HIDE DEF r
<1>5. /\ o.kind = "poll" /\ o.at = "half" /\ o.worker = w /\ o.q = op[s].q /\ o.r = r
      /\ o.now = op[s].now /\ o.fresh = op[s].fresh
  BY <1>1 DEF Ops
<1>6. o \in Ops
  BY <1>1, <1>3 DEF Ops
<1>. HIDE DEF o
<1>7. Sound(o)
  BY <1>1, <1>3, <1>5, <1>6 DEF Sound, HasQueue, HasRegistry
<1>8. o.now <= clock /\ (o.fresh /\ HasQueue(o) => o.q = queue)
  BY <1>1, <1>5 DEF Current, HasQueue
<1>. QED
  BY <1>3, <1>4, <1>5, <1>7, <1>8, WriteRegistryKeeps

\* What a poll holds before its last write.
LEMMA HalfPoll ==
    ASSUME QueueInv, NEW s \in Servers, op[s].at = "half"
    PROVE  /\ op[s].q \in Queues /\ OneItemPerRun(op[s].q) /\ op[s].worker \in Workers
           /\ op[s].r \in Registries /\ op[s].kind = "poll"
           /\ op[s].now \in Nat /\ op[s].now <= clock /\ clock \in Nat /\ lastItem \in 0..NumItems
           /\ op[s].fresh => op[s].q = queue /\ op[s].r = registry
<1>1. /\ Sound(op[s]) /\ Current(op[s]) /\ HasQueue(op[s]) /\ HasRegistry(op[s])
      /\ op[s].kind = "poll" /\ op[s] \in Ops
  BY DEF QueueInv, Holds, Sound, HasQueue, HasRegistry
<1>2. op[s].q \in Queues /\ op[s].q # Nobody
  BY <1>1, NobodyAssumption DEF Sound
<1>. QED
  BY <1>1, <1>2 DEF Sound, Current, QueueInv, QueueTypeOK, Ops

LEMMA PollFinishStep ==
    ASSUME QueueInv, NEW s \in Servers, PollFinish(s)
    PROVE  QueueInv'
<1>1. op[s].at = "half"
  BY DEF PollFinish
<1>2. /\ op[s].q \in Queues /\ OneItemPerRun(op[s].q) /\ op[s].worker \in Workers
      /\ op[s].now \in Nat /\ clock \in Nat /\ lastItem \in 0..NumItems
  BY <1>1, HalfPoll
<1>3. DEFINE w == op[s].worker
             now == op[s].now
             q == AutoRelease(RenewOwned(op[s].q, w, now), now)
<1>4. q \in Queues /\ OneItemPerRun(q)
  BY <1>2, RenewTyped, ReleaseTyped, PollKeeps
<1>5. \/ \E i \in Items : /\ i \in Queued(q)
                          /\ WriteQueue(s, [q EXCEPT ![i] = ClaimOf(q[i], w, now)])
                          /\ UNCHANGED lastItem
      \/ WriteQueue(s, q) /\ UNCHANGED lastItem
      \/ op' = [op EXCEPT ![s] = Idle]
         /\ UNCHANGED <<queue, registry, lastItem, clock, overlaps, overlapped>>
  BY DEF PollFinish, First
<1>. HIDE DEF q
<1>6. ASSUME NEW i \in Items, i \in Queued(q), UNCHANGED lastItem,
             WriteQueue(s, [q EXCEPT ![i] = ClaimOf(q[i], w, now)])
      PROVE  QueueInv'
  <2>1. q[i] \in ItemRecords /\ Active(q, i)
    BY <1>4, <1>6 DEF Queues, Queued, Active
  <2>2. ClaimOf(q[i], w, now) \in ItemRecords
    BY <1>2, <2>1, ItemFields DEF Statuses
  <2>3. DEFINE p == [q EXCEPT ![i] = ClaimOf(q[i], w, now)]
  <2>4. p \in Queues
    BY <1>4, <2>2, PutTyped
  <2>5. OneItemPerRun(p)
    BY <1>2, <1>4, <2>1, ClaimKeeps
  <2>. QED
    BY <1>2, <1>6, <2>4, <2>5, WriteQueueKeeps
<1>7. CASE WriteQueue(s, q) /\ UNCHANGED lastItem
  BY <1>2, <1>4, <1>7, WriteQueueKeeps
<1>8. CASE op' = [op EXCEPT ![s] = Idle]
           /\ UNCHANGED <<queue, registry, lastItem, clock, overlaps, overlapped>>
  <2>1. Sound(Idle) /\ Current(Idle)
    BY <1>2, IdleSound DEF Current, HasQueue, HasRegistry
  <2>. QED
    BY <1>8, <2>1, MoveKeeps
<1>. QED
  BY <1>5, <1>6, <1>7, <1>8

LEMMA HandlerStepKeeps ==
    ASSUME QueueInv, NEW s \in Servers, HandlerStep(s)
    PROVE  QueueInv'
  BY ReadSecondKeeps, GiveUpKeeps, EnqueueStep, ClaimStep, ReleaseStep, ReassignStep,
     RegistryStep, PollWriteStep, PollFinishStep DEF HandlerStep

LEMMA TickKeeps ==
    ASSUME QueueInv, Tick
    PROVE  QueueInv'
<1>1. clock \in Nat /\ clock' = clock + 1 /\ clock' \in 0..MaxTime
  BY DEF QueueInv, QueueTypeOK, Tick
<1>2. ASSUME NEW s \in Servers PROVE Sound(op[s]) /\ Current(op[s])'
  <2>1. Sound(op[s]) /\ Current(op[s]) /\ op[s].now \in Nat
    BY DEF QueueInv, QueueTypeOK, Holds, Ops
  <2>2. op[s].now <= clock'
    BY <1>1, <2>1 DEF Current
  <2>. QED
    BY <2>1, <2>2 DEF Current, Tick
<1>3. QueueTypeOK'
  BY <1>1 DEF QueueInv, QueueTypeOK, Tick
<1>. QED
  BY <1>2, <1>3 DEF QueueInv, Holds, Tick

LEMMA QueueInvHolds == QueueSpec => []QueueInv
<1>1. QueueInit => QueueInv
  <2> SUFFICES ASSUME QueueInit PROVE QueueInv
    OBVIOUS
  <2>1. NoItem \in ItemRecords
    BY DEF NoItem, ItemRecords, Statuses
  <2>2. Sound(Idle) /\ Idle \in Ops
    BY IdleSound DEF Sound
  <2>3. QueueTypeOK
    <3>1. queue \in Queues /\ registry \in Registries
      BY <2>1 DEF QueueInit, Queues, Registries
    <3>2. op \in [Servers -> Ops]
      BY <2>2 DEF QueueInit
    <3>3. lastItem \in 0..NumItems /\ clock \in 0..MaxTime /\ overlaps \in 0..MaxOverlaps
      BY DEF QueueInit
    <3>4. overlapped \in BOOLEAN
      BY DEF QueueInit
    <3>. QED
      BY <3>1, <3>2, <3>3, <3>4 DEF QueueTypeOK
  <2>4. OneItemPerRun(queue)
    BY DEF QueueInit, OneItemPerRun, Active, Claimed, NoItem
  <2>5. ASSUME NEW s \in Servers PROVE Sound(op[s]) /\ Current(op[s])
    BY IdleSound DEF QueueInit, Current, HasQueue, HasRegistry
  <2>. QED
    BY <2>3, <2>4, <2>5 DEF QueueInv, Holds
<1>2. QueueInv /\ [QueueNext]_queueVars => QueueInv'
  <2>1. QueueInv /\ UNCHANGED queueVars => QueueInv'
    BY DEF QueueInv, QueueTypeOK, Holds, Current, queueVars
  <2>. QED
    BY <2>1, TickKeeps, BeginStepKeeps, HandlerStepKeeps DEF QueueNext
<1>. QED
  BY <1>1, <1>2, PTL DEF QueueSpec

-----------------------------------------------------------------------------
(* Whose step it is *)

\* The record of a server changes only in its own steps, but for `fresh'.
LEMMA OthersKeep ==
    ASSUME QueueInv, NEW s \in Servers, NEW t \in Servers, t # s, HandlerStep(s)
    PROVE  op'[t].kind = op[t].kind
<1>1. Sound(op[t]) /\ op \in [Servers -> Ops]
  BY DEF QueueInv, QueueTypeOK, Holds
<1>2. [op[t] EXCEPT !.fresh = FALSE].kind = op[t].kind
  BY <1>1 DEF QueueInv, QueueTypeOK, Ops
<1>3. ASSUME NEW q, WriteQueue(s, q) PROVE op'[t].kind = op[t].kind
  BY <1>2, <1>3 DEF WriteQueue
<1>4. ASSUME NEW r, NEW next, WriteRegistry(s, r, next) PROVE op'[t].kind = op[t].kind
  BY <1>2, <1>4 DEF WriteRegistry
<1>5. ASSUME NEW o, op' = [op EXCEPT ![s] = o] PROVE op'[t].kind = op[t].kind
  BY <1>1, <1>5
<1>6. \/ \E q : WriteQueue(s, q)
      \/ \E r, next : WriteRegistry(s, r, next)
      \/ op' = [op EXCEPT ![s] = op'[s]]
  <2>1. CASE ReadSecond(s) \/ GiveUp(s)
    BY <1>1, <2>1 DEF ReadSecond, GiveUp
  <2>2. CASE \/ \E run \in QueueRuns : Enqueue(s, run)
             \/ \E w \in Workers : Claim(s, w)
             \/ \E i \in Items, status \in {"queued", "closed"} : ReleaseItem(s, i, status)
             \/ \E i \in Items, w \in Workers : Reassign(s, i, w)
    BY <2>2 DEF Enqueue, Claim, ReleaseItem, Reassign
  <2>3. CASE \/ \E w \in Workers : Heartbeat(s, w) \/ Unregister(s, w) \/ PollWriteRegistry(s, w)
             \/ \E w \in Workers, accepts \in BOOLEAN : SetClaimAcceptance(s, w, accepts)
    BY <2>3 DEF Heartbeat, Unregister, PollWriteRegistry, SetClaimAcceptance
  <2>4. CASE PollFinish(s)
    BY <1>1, <2>4 DEF PollFinish
  <2>. QED
    BY <2>1, <2>2, <2>3, <2>4 DEF HandlerStep
<1>. QED
  BY <1>3, <1>4, <1>5, <1>6

\* A poll half done ends by its own last step.
LEMMA HalfStep ==
    ASSUME QueueInv, QueueNext, NEW s \in Servers, op[s].at = "half", op'[s] = Idle
    PROVE  PollFinish(s)
<1>1. op[s].kind = "poll" /\ op'[s].kind = "idle" /\ op[s] # Idle
  BY HalfPoll DEF Idle, Handler
<1>2. CASE Tick
  BY <1>1, <1>2 DEF Tick
<1>3. ASSUME NEW t \in Servers, BeginStep(t) PROVE FALSE
  <2>1. op[t] = Idle /\ \E o : op' = [op EXCEPT ![t] = o]
    BY <1>3 DEF BeginStep, ReadQueue, ReadRegistry, ReassignBegin, UnregisterBegin, PollBegin, Begin
  <2>2. t # s
    BY <1>1, <2>1
  <2>3. op'[s] = op[s]
    BY <2>1, <2>2 DEF QueueInv, QueueTypeOK
  <2>. QED
    BY <1>1, <2>3
<1>4. ASSUME NEW t \in Servers, HandlerStep(t) PROVE PollFinish(s)
  <2>1. t = s
    BY <1>1, <1>4, OthersKeep
  <2>2. HandlerStep(s)
    BY <1>4, <2>1
  <2>3. ~ReadSecond(s) /\ ~GiveUp(s) /\ \A kind : ~HasRead(s, kind)
    BY DEF ReadSecond, GiveUp, HasRead
  <2>. QED
    BY <2>2, <2>3 DEF HandlerStep, Enqueue, Claim, ReleaseItem, Reassign, Heartbeat, Unregister,
                      PollWriteRegistry, SetClaimAcceptance
<1>. QED
  BY <1>2, <1>3, <1>4 DEF QueueNext

-----------------------------------------------------------------------------
(* Grants and capacity *)

LEMMA LoadTyped ==
    ASSUME NEW q, NEW w
    PROVE  Load(q, w) \in Nat
<1>1. IsFiniteSet(Items)
  BY FS_Interval DEF Items
<1>2. IsFiniteSet({i \in Items : Claimed(q, i) /\ q[i].owner = w})
  BY <1>1, FS_Subset
<1>. QED
  BY <1>2, FS_CardinalityType DEF Load

\* One more claim is at most one more item.
LEMMA LoadGrant ==
    ASSUME NEW q \in Queues, NEW i \in Items, NEW w, NEW item
    PROVE  Load([q EXCEPT ![i] = item], w) <= Load(q, w) + 1
<1>. DEFINE p == [q EXCEPT ![i] = item]
            S == {j \in Items : Claimed(q, j) /\ q[j].owner = w}
            T == {j \in Items : Claimed(p, j) /\ p[j].owner = w}
<1>1. IsFiniteSet(Items)
  BY FS_Interval DEF Items
<1>2. IsFiniteSet(S)
  BY <1>1, FS_Subset
<1>3. IsFiniteSet(S \cup {i}) /\ Cardinality(S \cup {i}) <= Cardinality(S) + 1
  <2>1. Cardinality(S) \in Nat
    BY <1>2, FS_CardinalityType
  <2>2. /\ IsFiniteSet(S \cup {i})
        /\ Cardinality(S \cup {i}) = IF i \in S THEN Cardinality(S) ELSE Cardinality(S) + 1
    BY <1>2, FS_AddElement
  <2>. QED
    BY <2>1, <2>2
<1>4. T \subseteq S \cup {i}
  <2>1. ASSUME NEW j \in T, j # i PROVE j \in S
    <3>1. p[j] = q[j]
      BY <2>1 DEF Queues
    <3>. QED
      BY <2>1, <3>1 DEF Claimed
  <2>. QED
    BY <2>1
<1>5. Cardinality(T) <= Cardinality(S \cup {i})
  BY <1>3, <1>4, FS_Subset
<1>6. Cardinality(S) \in Nat /\ Cardinality(T) \in Nat /\ Cardinality(S \cup {i}) \in Nat
  <2>1. IsFiniteSet(T)
    BY <1>3, <1>4, FS_Subset
  <2>. QED
    BY <1>2, <1>3, <2>1, FS_CardinalityType
<1>7. Load(p, w) = Cardinality(T) /\ Load(q, w) = Cardinality(S)
  BY DEF Load
<1>. HIDE DEF p, S, T
<1>8. Load(p, w) <= Load(q, w) + 1
  BY <1>3, <1>5, <1>6, <1>7
<1>. QED
  BY <1>8 DEF p

\* A worker that had fewer than its capacity is within it after one claim.
LEMMA GrantFits ==
    ASSUME NEW q \in Queues, NEW i \in Items, NEW w, NEW item, Load(q, w) < Capacity
    PROVE  Load([q EXCEPT ![i] = item], w) <= Capacity
<1>1. /\ Load(q, w) \in Nat /\ Load([q EXCEPT ![i] = item], w) \in Nat
      /\ Load([q EXCEPT ![i] = item], w) <= Load(q, w) + 1
  BY LoadTyped, LoadGrant
<1>. QED
  BY <1>1

Granted(w) == \E i \in Items : Claimed(queue', i) /\ queue'[i].owner = w /\ queue[i].owner # w

LEMMA ReassignGrant ==
    ASSUME QueueInv, NEW s \in Servers, NEW i \in Items, NEW v \in Workers, Reassign(s, i, v),
           op[s].fresh, NEW w \in Workers, Granted(w)
    PROVE  registry'[w] # "absent" /\ Load(queue', w) <= Capacity
<1>1. op[s].q \in Queues /\ clock \in Nat /\ Current(op[s]) /\ HasQueue(op[s]) /\ HasRegistry(op[s])
  BY QueueRead DEF Reassign, HasRead, QueueInv, Holds, HasQueue, HasRegistry
<1>2. op[s].q = queue /\ op[s].r = registry
  BY <1>1 DEF Current
<1>3. /\ queue' = [queue EXCEPT ![i] = ClaimOf(queue[i], v, clock)] /\ registry' = registry
      /\ registry[v] = "accepting" /\ Load(queue, v) < Capacity
  BY <1>2 DEF Reassign, WriteQueue
<1>4. w = v
  <2>1. PICK j \in Items : queue'[j].owner = w /\ queue[j].owner # w
    BY DEF Granted
  <2>2. j = i
    BY <1>1, <1>2, <1>3, <2>1 DEF Queues
  <2>3. queue'[i] = ClaimOf(queue[i], v, clock)
    BY <1>1, <1>2, <1>3 DEF Queues
  <2>. QED
    BY <2>1, <2>2, <2>3 DEF ClaimOf
<1>5. Load(queue', v) <= Capacity
  BY <1>1, <1>2, <1>3, GrantFits
<1>. QED
  BY <1>3, <1>4, <1>5

LEMMA PollGrant ==
    ASSUME QueueInv, NEW s \in Servers, PollFinish(s), op[s].fresh, NEW w \in Workers, Granted(w)
    PROVE  registry'[w] # "absent" /\ Load(queue', w) <= Capacity
<1>1. /\ op[s].q = queue /\ op[s].r = registry /\ queue \in Queues /\ op[s].worker \in Workers
      /\ op[s].now \in Nat
  BY HalfPoll DEF PollFinish
<1>. DEFINE v == op[s].worker
            now == op[s].now
            q == AutoRelease(RenewOwned(queue, v, now), now)
<1>2. PICK j \in Items : Claimed(queue', j) /\ queue'[j].owner = w /\ queue[j].owner # w
  BY DEF Granted
<1>3. q \in Queues
  BY <1>1, RenewTyped, ReleaseTyped
<1>4. q[j].owner # w
  <2>1. q[j].owner \in {queue[j].owner, Nobody}
    BY <1>1, PolledItem
  <2>. QED
    BY <1>2, <2>1
<1>5. \/ \E i \in Items : /\ queue' = [q EXCEPT ![i] = ClaimOf(q[i], v, now)]
                          /\ registry[v] = "accepting" /\ Load(q, v) < Capacity
                          /\ registry' = registry
      \/ queue' = q \/ queue' = queue
  BY <1>1 DEF PollFinish, WriteQueue
<1>. HIDE DEF q
<1>6. PICK i \in Items : /\ queue' = [q EXCEPT ![i] = ClaimOf(q[i], v, now)]
                         /\ registry[v] = "accepting" /\ Load(q, v) < Capacity
                         /\ registry' = registry
  BY <1>2, <1>4, <1>5
<1>7. w = v
  <2>1. j = i
    BY <1>2, <1>3, <1>4, <1>6 DEF Queues
  <2>2. queue'[i] = ClaimOf(q[i], v, now)
    BY <1>3, <1>6 DEF Queues
  <2>. QED
    BY <1>2, <2>1, <2>2 DEF ClaimOf
<1>8. Load(queue', v) <= Capacity
  BY <1>3, <1>6, GrantFits
<1>. QED
  BY <1>6, <1>7, <1>8

\* A poll or a reassignment ends in a step of its own server.
LEMMA GrantStep ==
    ASSUME QueueInv, QueueNext, NEW s \in Servers, op[s].kind \in {"poll", "reassign"},
           op'[s] = Idle
    PROVE  HandlerStep(s)
<1>1. op'[s].kind = "idle" /\ op[s] # Idle
  BY DEF Idle, Handler
<1>2. CASE Tick
  BY <1>1, <1>2 DEF Tick
<1>3. ASSUME NEW t \in Servers, BeginStep(t) PROVE FALSE
  <2>1. op[t] = Idle /\ \E o : op' = [op EXCEPT ![t] = o]
    BY <1>3 DEF BeginStep, ReadQueue, ReadRegistry, ReassignBegin, UnregisterBegin, PollBegin, Begin
  <2>2. op'[s] = op[s]
    BY <1>1, <2>1 DEF QueueInv, QueueTypeOK
  <2>. QED
    BY <1>1, <2>2
<1>4. ASSUME NEW t \in Servers, HandlerStep(t) PROVE t = s
  BY <1>1, <1>4, OthersKeep
<1>. QED
  BY <1>2, <1>3, <1>4 DEF QueueNext

LEMMA GrantCase ==
    ASSUME QueueInv, QueueNext, ~overlapped', NEW s \in Servers, NEW w \in Workers, Grants(s, w)
    PROVE  registry'[w] # "absent" /\ Load(queue', w) <= Capacity
<1>1. HandlerStep(s) /\ Granted(w) /\ op[s].kind \in {"poll", "reassign"} /\ op'[s] = Idle
  BY GrantStep DEF Grants, Granted
<1>2. queue' # queue
  BY <1>1 DEF Granted
<1>3. \/ PollFinish(s)
      \/ \E i \in Items, v \in Workers : Reassign(s, i, v)
  BY <1>1, <1>2 DEF HandlerStep, ReadSecond, GiveUp, Enqueue, Claim, ReleaseItem, Heartbeat,
     Unregister, PollWriteRegistry, SetClaimAcceptance, HasRead, WriteRegistry
<1>4. op[s].fresh
  BY <1>2, <1>3 DEF PollFinish, Reassign, WriteQueue
<1>. QED
  BY <1>1, <1>3, <1>4, PollGrant, ReassignGrant

\* Only an unregistration makes a worker absent, and of one that holds nothing.
LEMMA AbsentCase ==
    ASSUME QueueInv, QueueNext, ~overlapped', NEW w \in Workers,
           registry[w] # "absent", registry'[w] = "absent"
    PROVE  Load(queue', w) = 0
<1>1. CASE Tick
  BY <1>1 DEF Tick
<1>2. ASSUME NEW s \in Servers, BeginStep(s) PROVE FALSE
  BY <1>2 DEF BeginStep, ReadQueue, ReadRegistry, ReassignBegin, UnregisterBegin, PollBegin, Begin
<1>3. ASSUME NEW s \in Servers, HandlerStep(s) PROVE Load(queue', w) = 0
  <2>0. Sound(op[s]) /\ Current(op[s])
    BY DEF QueueInv, Holds
  <2>1. ASSUME NEW v \in Workers, Heartbeat(s, v) \/ PollWriteRegistry(s, v) PROVE FALSE
    <3>1. HasRegistry(op[s]) /\ op[s].fresh /\ registry' = Upsert(op[s].r, v)
      BY <2>1 DEF Heartbeat, PollWriteRegistry, HasRead, HasRegistry, WriteRegistry
    <3>2. op[s].r = registry /\ registry \in Registries
      BY <2>0, <3>1 DEF Current, QueueInv, QueueTypeOK
    <3>. QED
      BY <3>1, <3>2 DEF Upsert, Registries
  <2>2. ASSUME NEW v \in Workers, NEW accepts \in BOOLEAN, SetClaimAcceptance(s, v, accepts)
        PROVE  FALSE
    <3>1. HasRegistry(op[s]) /\ op[s].fresh
          /\ registry' = [op[s].r EXCEPT ![v] = IF accepts THEN "accepting" ELSE "closed"]
      BY <2>2 DEF SetClaimAcceptance, HasRead, HasRegistry, WriteRegistry
    <3>2. op[s].r = registry /\ registry \in Registries
      BY <2>0, <3>1 DEF Current, QueueInv, QueueTypeOK
    <3>. QED
      BY <3>1, <3>2 DEF Registries
  <2>3. ASSUME NEW v \in Workers, Unregister(s, v) PROVE Load(queue', w) = 0
    <3>1. HasRegistry(op[s]) /\ HasQueue(op[s]) /\ op[s].fresh
          /\ registry' = [op[s].r EXCEPT ![v] = "absent"] /\ queue' = queue
          /\ Load(op[s].q, v) = 0
      BY <2>3 DEF Unregister, HasRead, HasRegistry, HasQueue, WriteRegistry
    <3>2. op[s].r = registry /\ op[s].q = queue /\ registry \in Registries
      BY <2>0, <3>1 DEF Current, QueueInv, QueueTypeOK
    <3>3. v = w
      BY <3>1, <3>2 DEF Registries
    <3>. QED
      BY <3>1, <3>2, <3>3
  <2>4. CASE \/ ReadSecond(s) \/ GiveUp(s) \/ PollFinish(s)
             \/ \E run \in QueueRuns : Enqueue(s, run)
             \/ \E v \in Workers : Claim(s, v)
             \/ \E i \in Items, status \in {"queued", "closed"} : ReleaseItem(s, i, status)
             \/ \E i \in Items, v \in Workers : Reassign(s, i, v)
    <3>1. registry' = registry
      BY <2>4 DEF ReadSecond, GiveUp, PollFinish, Enqueue, Claim, ReleaseItem, Reassign, WriteQueue
    <3>. QED
      BY <3>1
  <2>. QED
    BY <1>3, <2>1, <2>2, <2>3, <2>4 DEF HandlerStep
<1>. QED
  BY <1>1, <1>2, <1>3 DEF QueueNext

-----------------------------------------------------------------------------
(* The servers implement the leased queue                                   *)

\* An item that was not enqueued yet is in nobody's copy of the queue.
Unborn(q) == \A i \in Items : i > lastItem => q[i] = NoItem

UnbornInv == Unborn(queue) /\ \A s \in Servers : HasQueue(op[s]) => Unborn(op[s].q)

\* A server has the queue it had, or the one in the file.
Copies(s) ==
    HasQueue(op'[s]) => \/ HasQueue(op[s]) /\ op'[s].q = op[s].q
                        \/ op'[s].q = queue

LEMMA CopiesKeep ==
    ASSUME UnbornInv, \A s \in Servers : Copies(s), UNCHANGED <<queue, lastItem>>
    PROVE  UnbornInv'
  BY DEF UnbornInv, Unborn, Copies

LEMMA FreshKeeps ==
    ASSUME NEW o \in Ops
    PROVE  LET n == [o EXCEPT !.fresh = FALSE] IN n.q = o.q /\ (HasQueue(n) <=> HasQueue(o))
  BY DEF Ops, HasQueue

\* What a handler writes to the queue file is younger than nothing it created.
LEMMA WriteQueueUnborn ==
    ASSUME QueueInv, UnbornInv, NEW s \in Servers, NEW q, WriteQueue(s, q),
           lastItem' \in Nat, lastItem' >= lastItem,
           \A i \in Items : i > lastItem' => q[i] = NoItem
    PROVE  UnbornInv'
<1>1. op \in [Servers -> Ops] /\ lastItem \in Nat
  BY DEF QueueInv, QueueTypeOK
<1>2. Unborn(queue)'
  BY DEF WriteQueue, Unborn
<1>3. ASSUME NEW t \in Servers, HasQueue(op'[t]) PROVE Unborn(op[t].q)'
  <2>1. t # s
    BY <1>3, IdleSound DEF WriteQueue
  <2>2. HasQueue(op[t]) /\ op'[t].q = op[t].q
    BY <1>1, <1>3, <2>1, FreshKeeps DEF WriteQueue
  <2>3. Unborn(op[t].q)
    BY <2>2 DEF UnbornInv
  <2>4. ASSUME NEW i \in Items, i > lastItem' PROVE i > lastItem
    BY <1>1, <2>4 DEF Items
  <2>. QED
    BY <2>2, <2>3, <2>4 DEF Unborn
<1>. QED
  BY <1>2, <1>3 DEF UnbornInv

LEMMA WriteRegistryCopies ==
    ASSUME QueueInv, NEW s \in Servers, NEW r, NEW next, WriteRegistry(s, r, next),
           HasQueue(next) => HasQueue(op[s]) /\ next.q = op[s].q
    PROVE  \A t \in Servers : Copies(t)
<1>1. op \in [Servers -> Ops]
  BY DEF QueueInv, QueueTypeOK
<1>. QED
  BY <1>1, FreshKeeps DEF WriteRegistry, Copies

LEMMA MoveCopies ==
    ASSUME QueueInv, NEW s \in Servers, NEW o, op' = [op EXCEPT ![s] = o],
           HasQueue(o) => o.q = queue \/ (HasQueue(op[s]) /\ o.q = op[s].q)
    PROVE  \A t \in Servers : Copies(t)
  BY DEF QueueInv, QueueTypeOK, Copies

LEMMA BeginUnborn ==
    ASSUME QueueInv, UnbornInv, NEW s \in Servers, BeginStep(s)
    PROVE  UnbornInv'
<1>1. PICK o : /\ op' = [op EXCEPT ![s] = o]
               /\ HasQueue(o) => o.q = queue
  <2>1. ASSUME NEW kind, NEW at, NEW now, NEW r,
               \/ kind = "registry"
               \/ kind \in {"unregister", "poll"} /\ at = "first"
        PROVE  ~HasQueue(Handler(kind, at, now, Nobody, r))
    BY <2>1 DEF Handler, HasQueue
  <2>2. ASSUME NEW kind, NEW at, NEW now, NEW r
        PROVE  Handler(kind, at, now, queue, r).q = queue
    BY DEF Handler
  <2>3. CASE ReadQueue(s) \/ ReassignBegin(s)
    BY <2>2, <2>3 DEF ReadQueue, ReassignBegin, Begin
  <2>4. CASE ReadRegistry(s) \/ UnregisterBegin(s) \/ PollBegin(s)
    BY <2>1, <2>4 DEF ReadRegistry, UnregisterBegin, PollBegin, Begin
  <2>. QED
    BY <2>3, <2>4 DEF BeginStep
<1>2. UNCHANGED <<queue, lastItem>>
  BY DEF BeginStep, ReadQueue, ReadRegistry, ReassignBegin, UnregisterBegin, PollBegin, Begin
<1>. QED
  BY <1>1, <1>2, MoveCopies, CopiesKeep

LEMMA EnqueueUnborn ==
    ASSUME QueueInv, UnbornInv, NEW s \in Servers, NEW run \in QueueRuns, Enqueue(s, run)
    PROVE  UnbornInv'
<1>1. op[s].q \in Queues /\ lastItem \in 0..NumItems /\ HasQueue(op[s])
  BY QueueRead DEF Enqueue, HasRead, HasQueue
<1>2. PICK item : WriteQueue(s, [op[s].q EXCEPT ![lastItem + 1] = item])
  BY DEF Enqueue
<1>3. lastItem' = lastItem + 1 /\ lastItem' \in Nat /\ lastItem' >= lastItem
  BY <1>1 DEF Enqueue
<1>. DEFINE q == [op[s].q EXCEPT ![lastItem + 1] = item]
<1>4. ASSUME NEW i \in Items, i > lastItem' PROVE q[i] = NoItem
  <2>1. i # lastItem + 1 /\ i > lastItem
    BY <1>1, <1>3, <1>4 DEF Items
  <2>. QED
    BY <1>1, <2>1 DEF UnbornInv, Unborn, Queues
<1>5. WriteQueue(s, q)
  BY <1>2
<1>. HIDE DEF q
<1>. QED
  BY <1>3, <1>4, <1>5, WriteQueueUnborn

\* A handler changes items that were enqueued.
LEMMA PutUnborn ==
    ASSUME QueueInv, UnbornInv, NEW s \in Servers, NEW q \in Queues, NEW i \in Items, NEW item,
           Unborn(q), q[i] # NoItem, WriteQueue(s, [q EXCEPT ![i] = item]), lastItem' = lastItem
    PROVE  UnbornInv'
<1>1. lastItem' \in Nat /\ lastItem' >= lastItem
  BY DEF QueueInv, QueueTypeOK
<1>. DEFINE p == [q EXCEPT ![i] = item]
<1>2. \A j \in Items : j > lastItem' => p[j] = NoItem
  BY DEF Unborn, Queues
<1>3. WriteQueue(s, p)
  OBVIOUS
<1>. HIDE DEF p
<1>. QED
  BY <1>1, <1>2, <1>3, WriteQueueUnborn

LEMMA SweptUnborn ==
    ASSUME NEW q \in Queues, NEW w, NEW now, Unborn(q)
    PROVE  Unborn(AutoRelease(RenewOwned(q, w, now), now))
<1>. SUFFICES ASSUME NEW i \in Items, i > lastItem
              PROVE  AutoRelease(RenewOwned(q, w, now), now)[i] = NoItem
  BY DEF Unborn
<1>1. q[i] = NoItem /\ NoItem.status = "absent"
  BY DEF Unborn, NoItem
<1>2. RenewOwned(q, w, now)[i] = NoItem
  BY <1>1 DEF RenewOwned, Claimed
<1>. QED
  BY <1>1, <1>2 DEF AutoRelease, Claimed

LEMMA HandlerUnborn ==
    ASSUME QueueInv, UnbornInv, NEW s \in Servers, HandlerStep(s)
    PROVE  UnbornInv'
<1>0. NoItem.status = "absent" /\ lastItem \in Nat /\ op[s] \in Ops
  BY DEF NoItem, QueueInv, QueueTypeOK
<1>1. CASE ReadSecond(s)
  <2>1. op' = [op EXCEPT ![s] = op'[s]] /\ UNCHANGED <<queue, lastItem>>
    BY <1>1 DEF ReadSecond, QueueInv, QueueTypeOK
  <2>2. op'[s].q = queue \/ (HasQueue(op[s]) /\ op'[s].q = op[s].q)
    BY <1>0, <1>1 DEF ReadSecond, QueueInv, QueueTypeOK, Ops, HasQueue
  <2>. QED
    BY <2>1, <2>2, MoveCopies, CopiesKeep
<1>2. CASE GiveUp(s)
  <2>1. op' = [op EXCEPT ![s] = Idle] /\ UNCHANGED <<queue, lastItem>>
    BY <1>2 DEF GiveUp
  <2>. QED
    BY <2>1, IdleSound, MoveCopies, CopiesKeep
<1>3. ASSUME NEW run \in QueueRuns, Enqueue(s, run) PROVE UnbornInv'
  BY <1>3, EnqueueUnborn
<1>4. ASSUME HasRead(s, "queue") \/ HasRead(s, "reassign")
      PROVE  op[s].q \in Queues /\ Unborn(op[s].q)
  BY <1>4, QueueRead DEF UnbornInv, HasRead, HasQueue
<1>5. ASSUME NEW w \in Workers, Claim(s, w) PROVE UnbornInv'
  <2>1. PICK i \in Items :
            /\ i \in Queued(op[s].q)
            /\ WriteQueue(s, [op[s].q EXCEPT ![i] = ClaimOf(op[s].q[i], w, clock)])
    BY <1>5 DEF Claim, First
  <2>. QED
    BY <1>0, <1>4, <1>5, <2>1, PutUnborn DEF Claim, Queued
<1>6. ASSUME NEW i \in Items, NEW status \in {"queued", "closed"}, ReleaseItem(s, i, status)
      PROVE  UnbornInv'
  BY <1>0, <1>4, <1>6, PutUnborn DEF ReleaseItem, Claimed
<1>7. ASSUME NEW i \in Items, NEW w \in Workers, Reassign(s, i, w) PROVE UnbornInv'
  BY <1>0, <1>4, <1>7, PutUnborn DEF Reassign, Claimed
<1>8. ASSUME NEW w \in Workers,
             \/ Heartbeat(s, w) \/ Unregister(s, w)
             \/ \E accepts \in BOOLEAN : SetClaimAcceptance(s, w, accepts)
      PROVE  UnbornInv'
  <2>1. PICK r : WriteRegistry(s, r, Idle)
    BY <1>8 DEF Heartbeat, Unregister, SetClaimAcceptance
  <2>. QED
    BY <2>1, IdleSound, WriteRegistryCopies, CopiesKeep DEF WriteRegistry
<1>9. ASSUME NEW w \in Workers, PollWriteRegistry(s, w) PROVE UnbornInv'
  <2>1. DEFINE r == Upsert(op[s].r, w)
               o == [op[s] EXCEPT !.at = "half", !.worker = w, !.r = r]
  <2>2. WriteRegistry(s, r, o)
    BY <1>9 DEF PollWriteRegistry
  <2>3. o.q = op[s].q /\ HasQueue(op[s])
    BY <1>0, <1>9 DEF PollWriteRegistry, HasRead, HasQueue, Ops
  <2>. HIDE DEF r, o
  <2>. QED
    BY <2>2, <2>3, WriteRegistryCopies, CopiesKeep DEF WriteRegistry
<1>10. CASE PollFinish(s)
  <2>1. op[s].at = "half" /\ op[s].kind = "poll" /\ op[s].q \in Queues /\ HasQueue(op[s])
        /\ op[s].worker \in Workers /\ op[s].now \in Nat
    BY <1>10, HalfPoll DEF PollFinish, HasQueue
  <2>2. DEFINE w == op[s].worker
               now == op[s].now
               q == AutoRelease(RenewOwned(op[s].q, w, now), now)
  <2>3. q \in Queues /\ Unborn(q)
    BY <2>1, SweptUnborn, RenewTyped, ReleaseTyped DEF UnbornInv
  <2>4. \/ \E i \in Items : /\ i \in Queued(q)
                            /\ WriteQueue(s, [q EXCEPT ![i] = ClaimOf(q[i], w, now)])
                            /\ UNCHANGED lastItem
        \/ WriteQueue(s, q) /\ UNCHANGED lastItem
        \/ op' = [op EXCEPT ![s] = Idle] /\ UNCHANGED <<queue, lastItem>>
    BY <1>10 DEF PollFinish, First
  <2>. HIDE DEF q
  <2>5. ASSUME NEW i \in Items, i \in Queued(q), UNCHANGED lastItem,
               WriteQueue(s, [q EXCEPT ![i] = ClaimOf(q[i], w, now)])
        PROVE  UnbornInv'
    BY <1>0, <2>3, <2>5, PutUnborn DEF Queued
  <2>6. CASE WriteQueue(s, q) /\ UNCHANGED lastItem
    BY <1>0, <2>3, <2>6, WriteQueueUnborn DEF Unborn
  <2>7. CASE op' = [op EXCEPT ![s] = Idle] /\ UNCHANGED <<queue, lastItem>>
    BY <2>7, IdleSound, MoveCopies, CopiesKeep
  <2>. QED
    BY <2>4, <2>5, <2>6, <2>7
<1>. QED
  BY <1>1, <1>2, <1>3, <1>5, <1>6, <1>7, <1>8, <1>9, <1>10 DEF HandlerStep

LEMMA UnbornHolds == QueueSpec => []UnbornInv
<1>1. QueueInit => UnbornInv
  BY IdleSound DEF QueueInit, UnbornInv, Unborn
<1>2. QueueInv /\ UnbornInv /\ [QueueNext]_queueVars => UnbornInv'
  <2>1. UnbornInv /\ (Tick \/ UNCHANGED queueVars) => UnbornInv'
    BY DEF UnbornInv, Unborn, Tick, queueVars
  <2>. QED
    BY <2>1, BeginUnborn, HandlerUnborn DEF QueueNext
<1>. QED
  BY <1>1, <1>2, QueueInvHolds, PTL DEF QueueSpec

\* What a handler that is refused, reads, or is torn, is to the leased queue.
LEMMA TornStep ==
    ASSUME QueueInv', NEW s \in Servers, HandlerStep(s), overlapped'
    PROVE  LQ!Tear
<1>1. UNCHANGED clock
  BY DEF HandlerStep, ReadSecond, GiveUp, Enqueue, Claim, ReleaseItem, Reassign, Heartbeat,
     Unregister, SetClaimAcceptance, PollWriteRegistry, PollFinish, WriteQueue, WriteRegistry
<1>2. registry' \in Registries /\ OneItemPerRun(queue')
  BY DEF QueueInv, QueueTypeOK
<1>3. LQ!OneActiveItem(queue')
  BY <1>2 DEF LQ!OneActiveItem, OneItemPerRun, Active
<1>. QED
  BY <1>1, <1>2, <1>3 DEF LQ!Tear, Registries

\* A write that does not tear is a change of what is in the file.
LEMMA FreshQueue ==
    ASSUME QueueInv, NEW s \in Servers, NEW q, WriteQueue(s, q), ~overlapped', HasQueue(op[s])
    PROVE  /\ op[s].q = queue /\ queue \in Queues /\ queue' = q
           /\ HasRegistry(op[s]) => op[s].r = registry
           /\ UNCHANGED <<registry, clock, overlapped>>
  BY DEF WriteQueue, QueueInv, QueueTypeOK, Holds, Current

LEMMA FreshRegistry ==
    ASSUME QueueInv, NEW s \in Servers, NEW r, NEW next, WriteRegistry(s, r, next), ~overlapped',
           HasRegistry(op[s])
    PROVE  /\ op[s].r = registry /\ registry \in Registries /\ registry' = r
           /\ HasQueue(op[s]) => op[s].q = queue
           /\ UNCHANGED <<queue, clock, overlapped>>
  BY DEF WriteRegistry, QueueInv, QueueTypeOK, Holds, Current

\* LeasedQueue counts as FleetQueue does.
LEMMA SameCount ==
    ASSUME NEW S
    PROVE  Cardinality(S) = LQ!Cardinality(S)
  BY DEF Cardinality, LQ!Cardinality

LEMMA SameLoad ==
    ASSUME NEW q, NEW w
    PROVE  Load(q, w) = LQ!Cardinality(LQ!Held(q, w)) /\ IsFiniteSet(LQ!Held(q, w))
<1>1. IsFiniteSet(Items)
  BY FS_Interval DEF Items
<1>2. IsFiniteSet(LQ!Held(q, w))
  BY <1>1, FS_Subset DEF LQ!Held
<1>. QED
  BY <1>2, SameCount DEF Load, LQ!Held, Claimed

LEMMA EnqueueRefines ==
    ASSUME QueueInv, UnbornInv, NEW s \in Servers, NEW run \in QueueRuns, Enqueue(s, run),
           ~overlapped'
    PROVE  \E i \in Items : LQ!Enqueue(i, run)
<1>1. HasQueue(op[s]) /\ lastItem \in 0..NumItems /\ lastItem + 1 \in Items /\ lastItem + 1 > lastItem
  BY DEF Enqueue, HasRead, HasQueue, QueueInv, QueueTypeOK, Items
<1>. DEFINE n == [NoItem EXCEPT !.run = run, !.status = "queued"]
<1>2. PICK q : WriteQueue(s, q) /\ q = [op[s].q EXCEPT ![lastItem + 1] = n]
  BY DEF Enqueue
<1>3. /\ op[s].q = queue /\ queue' = [queue EXCEPT ![lastItem + 1] = n]
      /\ UNCHANGED <<registry, clock, overlapped>>
  <2>1. op[s].q = queue /\ queue' = q /\ UNCHANGED <<registry, clock, overlapped>>
    BY <1>1, <1>2, FreshQueue
  <2>. QED
    BY <1>2, <2>1
<1>4. n = LQ!Entry(run, "queued", Nobody, 0)
  <2>1. /\ n \in ItemRecords /\ n.run = run /\ n.status = "queued"
        /\ n.owner = Nobody /\ n.expires = 0
    BY FreshItemTyped DEF NoItem
  <2>. HIDE DEF n
  <2>. QED
    BY <2>1 DEF ItemRecords, LQ!Entry
<1>5. queue[lastItem + 1].status = "absent"
  BY <1>1 DEF UnbornInv, Unborn, NoItem
<1>6. \A j \in Items : queue[j].run = run => queue[j].status # "queued" /\ queue[j].status # "claimed"
  BY <1>3 DEF Enqueue, Active
<1>. HIDE DEF n
<1>7. LQ!Enqueue(lastItem + 1, run)
  BY <1>3, <1>4, <1>5, <1>6 DEF LQ!Enqueue, LQ!Is, LQ!Put
<1>. QED
  BY <1>1, <1>7

LEMMA ClaimRefines ==
    ASSUME QueueInv, NEW s \in Servers, NEW w \in Workers, Claim(s, w), ~overlapped'
    PROVE  \E i \in Items : LQ!Claim(i, w)
<1>1. HasQueue(op[s])
  BY DEF Claim, HasRead, HasQueue
<1>2. PICK i \in Items :
          /\ i \in Queued(op[s].q)
          /\ WriteQueue(s, [op[s].q EXCEPT ![i] = ClaimOf(op[s].q[i], w, clock)])
  BY DEF Claim, First
<1>3. /\ op[s].q = queue /\ queue' = [queue EXCEPT ![i] = ClaimOf(queue[i], w, clock)]
      /\ UNCHANGED <<registry, clock, overlapped>>
  BY <1>1, <1>2, FreshQueue
<1>4. LQ!Claim(i, w)
  BY <1>2, <1>3 DEF LQ!Claim, LQ!Is, LQ!Put, LQ!Entry, ClaimOf, Queued
<1>. QED
  BY <1>4

LEMMA ReleaseRefines ==
    ASSUME QueueInv, NEW s \in Servers, NEW i \in Items, NEW status \in {"queued", "closed"},
           ReleaseItem(s, i, status), ~overlapped'
    PROVE  LQ!Release(i, status)
<1>1. HasQueue(op[s]) /\ WriteQueue(s, [op[s].q EXCEPT ![i] = ClearClaim(op[s].q[i], status)])
  BY DEF ReleaseItem, HasRead, HasQueue
<1>2. /\ op[s].q = queue /\ queue' = [queue EXCEPT ![i] = ClearClaim(queue[i], status)]
      /\ UNCHANGED <<registry, clock, overlapped>>
  BY <1>1, FreshQueue
<1>. QED
  BY <1>2 DEF ReleaseItem, Claimed, LQ!Release, LQ!Is, LQ!Put, LQ!Entry, ClearClaim

LEMMA ReassignRefines ==
    ASSUME QueueInv, NEW s \in Servers, NEW i \in Items, NEW w \in Workers, Reassign(s, i, w),
           ~overlapped'
    PROVE  LQ!Reassign(i, w)
<1>1. /\ HasQueue(op[s]) /\ HasRegistry(op[s])
      /\ WriteQueue(s, [op[s].q EXCEPT ![i] = ClaimOf(op[s].q[i], w, clock)])
  BY DEF Reassign, HasRead, HasQueue, HasRegistry
<1>2. /\ op[s].q = queue /\ op[s].r = registry
      /\ queue' = [queue EXCEPT ![i] = ClaimOf(queue[i], w, clock)]
      /\ UNCHANGED <<registry, clock, overlapped>>
  BY <1>1, FreshQueue
<1>3. LQ!HasRoom(queue, w)
  <2>1. Load(queue, w) = LQ!Cardinality(LQ!Held(queue, w))
    BY SameLoad
  <2>2. Load(queue, w) < Capacity /\ registry[w] = "accepting"
    BY <1>2 DEF Reassign
  <2>. QED
    BY <2>1, <2>2 DEF LQ!HasRoom
<1>. QED
  BY <1>2, <1>3 DEF Reassign, Claimed, LQ!Reassign, LQ!Is, LQ!Put, LQ!Entry, ClaimOf

LEMMA JoinRefines ==
    ASSUME NEW w \in Workers, registry \in Registries, registry' = Upsert(registry, w),
           UNCHANGED <<queue, clock, overlapped>>
    PROVE  LQ!Join(w) \/ UNCHANGED LQ!vars
<1>1. CASE registry[w] = "absent"
  BY <1>1 DEF Upsert, LQ!Join, LQ!Register
<1>2. CASE registry[w] # "absent"
  <2>1. registry' = registry
    BY <1>2 DEF Upsert, Registries
  <2>. QED
    BY <2>1 DEF LQ!vars
<1>. QED
  BY <1>1, <1>2

LEMMA RegistryRefines ==
    ASSUME QueueInv, NEW s \in Servers, NEW w \in Workers, ~overlapped',
           \/ Heartbeat(s, w) \/ Unregister(s, w) \/ PollWriteRegistry(s, w)
           \/ \E accepts \in BOOLEAN : SetClaimAcceptance(s, w, accepts)
    PROVE  \/ LQ!Join(w) \/ LQ!Leave(w) \/ UNCHANGED LQ!vars
           \/ \E state \in {"accepting", "closed"} : LQ!SetWilling(w, state)
<1>1. CASE Heartbeat(s, w) \/ PollWriteRegistry(s, w)
  <2>1. HasRegistry(op[s]) /\ \E next : WriteRegistry(s, Upsert(op[s].r, w), next)
    BY <1>1 DEF Heartbeat, PollWriteRegistry, HasRead, HasRegistry
  <2>. QED
    BY <2>1, FreshRegistry, JoinRefines
<1>2. CASE Unregister(s, w)
  <2>1. HasRegistry(op[s]) /\ HasQueue(op[s])
        /\ WriteRegistry(s, [op[s].r EXCEPT ![w] = "absent"], Idle)
    BY <1>2 DEF Unregister, HasRead, HasRegistry, HasQueue
  <2>2. /\ op[s].r = registry /\ op[s].q = queue
        /\ registry' = [registry EXCEPT ![w] = "absent"] /\ UNCHANGED <<queue, clock, overlapped>>
    BY <2>1, FreshRegistry
  <2>3. Cardinality(LQ!Held(queue, w)) = 0 /\ IsFiniteSet(LQ!Held(queue, w))
    BY <1>2, <2>2, SameLoad, SameCount DEF Unregister
  <2>4. LQ!Held(queue, w) = {}
    BY <2>3, FS_EmptySet
  <2>. QED
    BY <1>2, <2>2, <2>4 DEF Unregister, LQ!Leave, LQ!Register
<1>3. ASSUME NEW accepts \in BOOLEAN, SetClaimAcceptance(s, w, accepts)
      PROVE  \E state \in {"accepting", "closed"} : LQ!SetWilling(w, state)
  <2>1. PICK state \in {"accepting", "closed"} : state = IF accepts THEN "accepting" ELSE "closed"
    OBVIOUS
  <2>2. HasRegistry(op[s]) /\ WriteRegistry(s, [op[s].r EXCEPT ![w] = state], Idle)
    BY <1>3, <2>1 DEF SetClaimAcceptance, HasRead, HasRegistry
  <2>3. /\ op[s].r = registry /\ registry' = [registry EXCEPT ![w] = state]
        /\ UNCHANGED <<queue, clock, overlapped>>
    BY <2>2, FreshRegistry
  <2>4. LQ!SetWilling(w, state)
    BY <1>3, <2>3 DEF SetClaimAcceptance, LQ!SetWilling, LQ!Register
  <2>. QED
    BY <2>4
<1>. QED
  BY <1>1, <1>2, <1>3

\* Renewing and releasing one after the other is one sweep.
LEMMA PollSweeps ==
    ASSUME queue \in Queues, NEW w \in Workers, NEW now \in Nat
    PROVE  AutoRelease(RenewOwned(queue, w, now), now) = LQ!Swept(w, now)
<1>. SUFFICES ASSUME NEW i \in Items
              PROVE  AutoRelease(RenewOwned(queue, w, now), now)[i] = LQ!Swept(w, now)[i]
  BY DEF AutoRelease, LQ!Swept
<1>. DEFINE m == RenewOwned(queue, w, now)
<1>1. queue[i] \in ItemRecords
  BY DEF Queues
<1>2. m[i] = IF Claimed(queue, i) /\ queue[i].owner = w /\ ~Expired(queue[i], now)
             THEN [queue[i] EXCEPT !.expires = now + Lease] ELSE queue[i]
  BY DEF RenewOwned
<1>3. AutoRelease(m, now)[i] = IF Claimed(m, i) /\ Expired(m[i], now)
                               THEN ClearClaim(m[i], "queued") ELSE m[i]
  BY DEF AutoRelease
<1>4. LQ!Swept(w, now)[i] =
        IF Claimed(queue, i) /\ Expired(queue[i], now)
        THEN ClearClaim(queue[i], "queued")
        ELSE IF Claimed(queue, i) /\ queue[i].owner = w
             THEN [queue[i] EXCEPT !.expires = now + Lease] ELSE queue[i]
  BY DEF LQ!Swept, LQ!Is, LQ!Entry, Claimed, Expired, ClearClaim
<1>. HIDE DEF m
<1>5. CASE Claimed(queue, i) /\ queue[i].owner = w /\ ~Expired(queue[i], now)
  <2>1. m[i] = [queue[i] EXCEPT !.expires = now + Lease]
    BY <1>2, <1>5
  <2>2. m[i].expires = now + Lease
    BY <1>1, <2>1 DEF ItemRecords
  <2>3. ~Expired(m[i], now)
    BY <2>2 DEF Expired
  <2>4. AutoRelease(m, now)[i] = m[i]
    BY <1>3, <2>3
  <2>5. LQ!Swept(w, now)[i] = [queue[i] EXCEPT !.expires = now + Lease]
    BY <1>4, <1>5
  <2>. QED
    BY <2>1, <2>4, <2>5 DEF m
<1>6. CASE ~(Claimed(queue, i) /\ queue[i].owner = w /\ ~Expired(queue[i], now))
  <2>1. m[i] = queue[i] /\ (Claimed(m, i) <=> Claimed(queue, i))
    BY <1>2, <1>6 DEF Claimed
  <2>. QED
    BY <1>3, <1>4, <1>6, <2>1 DEF m
<1>. QED
  BY <1>5, <1>6

\* A poll half done has registered its worker.
Joined(o) == o.at = "half" => o.r[o.worker] # "absent"
JoinedInv == \A s \in Servers : Joined(op[s])

LEMMA StaleJoined ==
    ASSUME NEW o \in Ops, Joined(o)
    PROVE  Joined([o EXCEPT !.fresh = FALSE])
<1>. DEFINE n == [o EXCEPT !.fresh = FALSE]
<1>1. n.at = o.at /\ n.r = o.r /\ n.worker = o.worker
  BY DEF Ops
<1>. HIDE DEF n
<1>2. Joined(n)
  BY <1>1 DEF Joined
<1>. QED
  BY <1>2 DEF n

LEMMA JoinedStep ==
    ASSUME QueueInv, JoinedInv, QueueNext
    PROVE  JoinedInv'
<1>0. op \in [Servers -> Ops] /\ Joined(Idle)
  BY DEF QueueInv, QueueTypeOK, Joined, Idle, Handler
<1>1. ASSUME NEW s \in Servers, NEW q, WriteQueue(s, q) PROVE JoinedInv'
  BY <1>0, <1>1, StaleJoined DEF WriteQueue, JoinedInv
<1>2. ASSUME NEW s \in Servers, NEW r, NEW next, Joined(next), WriteRegistry(s, r, next)
      PROVE  JoinedInv'
  BY <1>0, <1>2, StaleJoined DEF WriteRegistry, JoinedInv
<1>3. ASSUME NEW s \in Servers, NEW o, Joined(o), op' = [op EXCEPT ![s] = o] PROVE JoinedInv'
  BY <1>0, <1>3 DEF JoinedInv
<1>4. CASE Tick
  BY <1>4 DEF Tick, JoinedInv
<1>5. ASSUME NEW s \in Servers, BeginStep(s) PROVE JoinedInv'
  <2>1. ASSUME NEW kind, NEW at, at # "half", NEW now, NEW q, NEW r
        PROVE  Joined(Handler(kind, at, now, q, r))
    BY <2>1 DEF Joined, Handler
  <2>2. \E o : Joined(o) /\ op' = [op EXCEPT ![s] = o]
    BY <1>5, <2>1 DEF BeginStep, ReadQueue, ReadRegistry, ReassignBegin, UnregisterBegin,
       PollBegin, Begin
  <2>. QED
    BY <1>3, <2>2
<1>6. ASSUME NEW s \in Servers, HandlerStep(s) PROVE JoinedInv'
  <2>1. CASE ReadSecond(s)
    <3>1. op' = [op EXCEPT ![s] = op'[s]] /\ op'[s].at = "read"
      BY <1>0, <2>1 DEF ReadSecond, Ops
    <3>. QED
      BY <1>3, <3>1 DEF Joined
  <2>2. CASE GiveUp(s)
    BY <1>0, <1>3, <2>2 DEF GiveUp
  <2>3. CASE \/ \E run \in QueueRuns : Enqueue(s, run)
             \/ \E w \in Workers : Claim(s, w)
             \/ \E i \in Items, status \in {"queued", "closed"} : ReleaseItem(s, i, status)
             \/ \E i \in Items, w \in Workers : Reassign(s, i, w)
    BY <1>1, <2>3 DEF Enqueue, Claim, ReleaseItem, Reassign
  <2>4. CASE \/ \E w \in Workers : Heartbeat(s, w) \/ Unregister(s, w)
             \/ \E w \in Workers, accepts \in BOOLEAN : SetClaimAcceptance(s, w, accepts)
    <3>1. \E r : WriteRegistry(s, r, Idle)
      BY <2>4 DEF Heartbeat, Unregister, SetClaimAcceptance
    <3>. QED
      BY <1>0, <1>2, <3>1
  <2>5. ASSUME NEW w \in Workers, PollWriteRegistry(s, w) PROVE JoinedInv'
    <3>. DEFINE r == Upsert(op[s].r, w)
                o == [op[s] EXCEPT !.at = "half", !.worker = w, !.r = r]
    <3>1. WriteRegistry(s, r, o)
      BY <2>5 DEF PollWriteRegistry
    <3>2. o.r = r /\ o.worker = w
      BY <1>0 DEF Ops
    <3>3. r[w] # "absent"
      BY <2>5, RegistryRead DEF PollWriteRegistry, Upsert, Registries
    <3>. HIDE DEF r, o
    <3>. QED
      BY <1>2, <3>1, <3>2, <3>3 DEF Joined
  <2>6. CASE PollFinish(s)
    BY <1>0, <1>1, <1>3, <2>6 DEF PollFinish
  <2>. QED
    BY <1>6, <2>1, <2>2, <2>3, <2>4, <2>5, <2>6 DEF HandlerStep
<1>. QED
  BY <1>4, <1>5, <1>6 DEF QueueNext

LEMMA JoinedHolds == QueueSpec => []JoinedInv
<1>1. QueueInit => JoinedInv
  BY DEF QueueInit, JoinedInv, Joined, Idle, Handler
<1>2. QueueInv /\ JoinedInv /\ [QueueNext]_queueVars => JoinedInv'
  BY JoinedStep DEF JoinedInv, queueVars
<1>. QED
  BY <1>1, <1>2, QueueInvHolds, PTL DEF QueueSpec

LEMMA PollRefines ==
    ASSUME QueueInv, JoinedInv, NEW s \in Servers, PollFinish(s), ~overlapped'
    PROVE  \/ UNCHANGED LQ!vars
           \/ \E w \in Workers, t \in 0..clock : LQ!Poll(w, t)
<1>. DEFINE w == op[s].worker
            now == op[s].now
            p == AutoRelease(RenewOwned(op[s].q, w, now), now)
            mayClaim == op[s].r[w] = "accepting" /\ Load(p, w) < Capacity /\ Queued(p) # {}
<1>1. /\ w \in Workers /\ now \in 0..clock /\ now \in Nat /\ op[s].r[w] # "absent"
      /\ HasQueue(op[s]) /\ HasRegistry(op[s])
  BY HalfPoll DEF PollFinish, JoinedInv, Joined, HasQueue, HasRegistry
<1>2. \/ /\ mayClaim
         /\ \E i \in Items : /\ First(i, Queued(p))
                             /\ WriteQueue(s, [p EXCEPT ![i] = ClaimOf(p[i], w, now)])
      \/ ~mayClaim /\ WriteQueue(s, p)
      \/ UNCHANGED <<queue, registry, clock, overlapped>>
  BY DEF PollFinish
<1>3. ASSUME NEW q, WriteQueue(s, q)
      PROVE  /\ queue \in Queues /\ p = LQ!Swept(w, now)
             /\ op[s].r = registry /\ queue' = q /\ UNCHANGED <<registry, clock, overlapped>>
  <2>1. /\ op[s].q = queue /\ queue \in Queues /\ queue' = q /\ op[s].r = registry
        /\ UNCHANGED <<registry, clock, overlapped>>
    BY <1>1, <1>3, FreshQueue
  <2>. QED
    BY <1>1, <2>1, PollSweeps
<1>. HIDE DEF p, w, now
<1>4. ASSUME op[s].r = registry
      PROVE  LQ!HasRoom(p, w) <=> op[s].r[w] = "accepting" /\ Load(p, w) < Capacity
  <2>1. Load(p, w) = LQ!Cardinality(LQ!Held(p, w))
    BY SameLoad
  <2>. QED
    BY <1>4, <2>1 DEF LQ!HasRoom
<1>5. ASSUME NEW i \in Items, First(i, Queued(p)), mayClaim,
             WriteQueue(s, [p EXCEPT ![i] = ClaimOf(p[i], w, now)])
      PROVE  LQ!Poll(w, now)
  <2>1. /\ p = LQ!Swept(w, now) /\ op[s].r = registry
        /\ queue' = [p EXCEPT ![i] = ClaimOf(p[i], w, now)]
        /\ UNCHANGED <<registry, clock, overlapped>>
    BY <1>3, <1>5
  <2>2. LQ!HasRoom(p, w)
    BY <1>4, <1>5, <2>1
  <2>3. LQ!Oldest(p, i)
    BY <1>5 DEF LQ!Oldest, First, Queued
  <2>4. ClaimOf(p[i], w, now) = LQ!Entry(p[i].run, "claimed", w, now + Lease)
    BY DEF ClaimOf, LQ!Entry
  <2>5. now <= clock /\ registry[w] # "absent"
    BY <1>1, <2>1 DEF QueueInv, QueueTypeOK
  <2>. QED
    BY <2>1, <2>2, <2>3, <2>4, <2>5 DEF LQ!Poll
<1>6. ASSUME ~mayClaim, WriteQueue(s, p)
      PROVE  LQ!Poll(w, now)
  <2>1. /\ p = LQ!Swept(w, now) /\ op[s].r = registry /\ queue' = p
        /\ UNCHANGED <<registry, clock, overlapped>>
    BY <1>3, <1>6
  <2>2. ~LQ!HasRoom(p, w) \/ \A i \in Items : p[i].status # "queued"
    BY <1>4, <1>6, <2>1 DEF Queued
  <2>3. now <= clock /\ registry[w] # "absent"
    BY <1>1, <2>1 DEF QueueInv, QueueTypeOK
  <2>. QED
    BY <2>1, <2>2, <2>3 DEF LQ!Poll
<1>7. UNCHANGED <<queue, registry, clock, overlapped>> => UNCHANGED LQ!vars
  BY DEF LQ!vars
<1>. QED
  BY <1>1, <1>2, <1>5, <1>6, <1>7

LEMMA HandlerRefines ==
    ASSUME QueueInv, QueueInv', UnbornInv, JoinedInv, NEW s \in Servers, HandlerStep(s)
    PROVE  LQ!Next \/ UNCHANGED LQ!vars
<1>1. CASE overlapped'
  BY <1>1, TornStep DEF LQ!Next
<1>2. CASE ~overlapped'
  <2>1. CASE ReadSecond(s) \/ GiveUp(s)
    BY <2>1 DEF ReadSecond, GiveUp, LQ!vars
  <2>2. ASSUME NEW run \in QueueRuns, Enqueue(s, run) PROVE LQ!Next
    <3>1. PICK i \in Items : LQ!Enqueue(i, run)
      BY <1>2, <2>2, EnqueueRefines
    <3>. QED
      BY <3>1, Zenon DEF LQ!Next
  <2>3. ASSUME NEW w \in Workers, Claim(s, w) PROVE LQ!Next
    <3>1. PICK i \in Items : LQ!Claim(i, w)
      BY <1>2, <2>3, ClaimRefines
    <3>. QED
      BY <3>1, Zenon DEF LQ!Next
  <2>4. ASSUME NEW i \in Items, NEW status \in {"queued", "closed"}, ReleaseItem(s, i, status)
        PROVE  LQ!Next
    <3>1. LQ!Release(i, status)
      BY <1>2, <2>4, ReleaseRefines
    <3>. QED
      BY <3>1, Zenon DEF LQ!Next
  <2>5. ASSUME NEW i \in Items, NEW w \in Workers, Reassign(s, i, w) PROVE LQ!Next
    <3>1. LQ!Reassign(i, w)
      BY <1>2, <2>5, ReassignRefines
    <3>. QED
      BY <3>1, Zenon DEF LQ!Next
  <2>6. ASSUME NEW w \in Workers,
               \/ Heartbeat(s, w) \/ Unregister(s, w) \/ PollWriteRegistry(s, w)
               \/ \E accepts \in BOOLEAN : SetClaimAcceptance(s, w, accepts)
        PROVE  LQ!Next \/ UNCHANGED LQ!vars
    <3>1. \/ LQ!Join(w) \/ LQ!Leave(w) \/ UNCHANGED LQ!vars
          \/ \E state \in {"accepting", "closed"} : LQ!SetWilling(w, state)
      BY <1>2, <2>6, RegistryRefines
    <3>. QED
      BY <3>1, Zenon DEF LQ!Next
  <2>7. CASE PollFinish(s)
    <3>1. \/ UNCHANGED LQ!vars
          \/ \E w \in Workers, t \in 0..clock : LQ!Poll(w, t)
      BY <1>2, <2>7, PollRefines
    <3>. QED
      BY <3>1, Zenon DEF LQ!Next
  <2>. QED
    BY <2>1, <2>2, <2>3, <2>4, <2>5, <2>6, <2>7 DEF HandlerStep
<1>. QED
  BY <1>1, <1>2

-----------------------------------------------------------------------------
(* The theorems *)

\* The two files, and what every server holds of them, keep their types.
THEOREM QueueTypeCorrect == QueueSpec => []QueueTypeOK
<1>1. QueueInv => QueueTypeOK
  BY DEF QueueInv
<1>. QED
  BY <1>1, QueueInvHolds, PTL

\* No run has two active items, whatever is lost between the servers.
THEOREM OneActiveItemPerRunHolds == QueueSpec => []OneActiveItemPerRun
<1>1. QueueInv => OneActiveItemPerRun
  BY DEF QueueInv, Holds, Sound, OneActiveItemPerRun
<1>. QED
  BY <1>1, QueueInvHolds, PTL

\* A poll whose reading is current takes no lease that still runs: renewing comes before
\* releasing, the releasing compares with a time that has passed, and what is claimed for
\* the worker was queued.
THEOREM LeaseHonouredHolds == QueueSpec => LeaseHonoured
<1>. DEFINE A == \A s \in Servers, i \in Items :
          /\ op[s].at = "half" /\ op[s].fresh /\ op'[s] = Idle
          /\ Claimed(queue, i) /\ ~Expired(queue[i], clock)
          => Claimed(queue', i) /\ queue'[i].owner = queue[i].owner
<1>1. QueueInv /\ [QueueNext]_queueVars => [A]_queueVars
  <2> SUFFICES ASSUME QueueInv, QueueNext, NEW s \in Servers, NEW i \in Items,
                      op[s].at = "half", op[s].fresh, op'[s] = Idle,
                      Claimed(queue, i), ~Expired(queue[i], clock)
               PROVE  Claimed(queue', i) /\ queue'[i].owner = queue[i].owner
    OBVIOUS
  <2>1. PollFinish(s)
    BY HalfStep
  <2>2. /\ op[s].q = queue /\ queue \in Queues /\ op[s].worker \in Workers
        /\ op[s].now \in Nat /\ op[s].now <= clock /\ clock \in Nat
    BY HalfPoll
  <2>3. DEFINE now == op[s].now
               w == op[s].worker
               q == AutoRelease(RenewOwned(queue, w, now), now)
  <2>4. ~Expired(queue[i], now)
    <3>1. queue[i].expires \in Nat
      BY <2>2 DEF Queues, ItemRecords
    <3>. QED
      BY <2>2, <3>1 DEF Expired
  <2>5. Claimed(q, i) /\ q[i].owner = queue[i].owner
    BY <2>2, <2>4, PolledItem DEF Claimed
  <2>6. q \in Queues
    BY <2>2, RenewTyped, ReleaseTyped
  <2>. HIDE DEF q
  <2>7. CASE queue' = queue
    BY <2>7
  <2>8. CASE queue' = q
    BY <2>5, <2>8
  <2>9. ASSUME NEW j \in Items, j \in Queued(q), queue' = [q EXCEPT ![j] = ClaimOf(q[j], w, now)]
        PROVE  Claimed(queue', i) /\ queue'[i].owner = queue[i].owner
    <3>1. i # j
      BY <2>5, <2>9 DEF Queued, Claimed
    <3>2. queue'[i] = q[i]
      BY <2>6, <2>9, <3>1 DEF Queues
    <3>. QED
      BY <2>5, <3>2 DEF Claimed
  <2>. QED
    BY <2>1, <2>2, <2>7, <2>8, <2>9 DEF PollFinish, WriteQueue, First, q
<1>. QED
  BY <1>1, QueueInvHolds, PTL DEF QueueSpec, LeaseHonoured

\* As long as no server has written from a stale snapshot, what polls and reassignments
\* grant is covered by both files, and only idle workers are unregistered.
THEOREM GrantsCoveredHolds == QueueSpec => GrantsCovered
<1>. DEFINE A == ~overlapped' => \A w \in Workers :
          /\ (\E s \in Servers : Grants(s, w))
                => registry'[w] # "absent" /\ Load(queue', w) <= Capacity
          /\ registry[w] # "absent" /\ registry'[w] = "absent" => Load(queue', w) = 0
<1>1. QueueInv /\ [QueueNext]_queueVars => [A]_queueVars
  BY GrantCase, AbsentCase
<1>. QED
  BY <1>1, QueueInvHolds, PTL DEF QueueSpec, GrantsCovered

\* The servers, cut handlers and all, act as one on the leased queue until one of them
\* writes from a stale snapshot; and then what it writes still has one active item per run.
THEOREM QueueRefinement == QueueSpec => ImplementsLeasedQueue
<1>1. QueueInit => LQ!Init
  BY DEF QueueInit, LQ!Init, NoItem, LQ!Entry
<1>2. QueueInv /\ QueueInv' /\ UnbornInv /\ JoinedInv /\ [QueueNext]_queueVars
        => [LQ!Next]_(LQ!vars)
  <2>. SUFFICES ASSUME QueueInv, QueueInv', UnbornInv, JoinedInv, [QueueNext]_queueVars
                PROVE  LQ!Next \/ UNCHANGED LQ!vars
    OBVIOUS
  <2>1. CASE Tick
    BY <2>1 DEF Tick, LQ!Tick, LQ!Next
  <2>2. ASSUME NEW s \in Servers, BeginStep(s) PROVE UNCHANGED LQ!vars
    BY <2>2 DEF BeginStep, ReadQueue, ReadRegistry, ReassignBegin, UnregisterBegin, PollBegin,
       Begin, LQ!vars
  <2>3. CASE UNCHANGED queueVars
    BY <2>3 DEF queueVars, LQ!vars
  <2>. QED
    BY <2>1, <2>2, <2>3, HandlerRefines DEF QueueNext
<1>. QED
  BY <1>1, <1>2, QueueInvHolds, UnbornHolds, JoinedHolds, PTL
  DEF QueueSpec, ImplementsLeasedQueue, LQ!Spec
=============================================================================
