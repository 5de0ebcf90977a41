----------------------------- MODULE LeasedQueue ----------------------------
(***************************************************************************)
(* What the fleet promises its workers: a queue of items and a register of *)
(* workers that change in one step per request, as if one server had them  *)
(* for itself.  A run has one active item; an item is claimed by one owner *)
(* for a lease; a poll renews the leases of its worker, ends those that    *)
(* have run out, and grants the oldest queued item to a worker that is     *)
(* registered, willing and not full; and a worker leaves empty-handed.     *)
(*                                                                         *)
(* A server that writes what it read before another one wrote tears this:  *)
(* what it writes is still a queue with one active item per run, but not   *)
(* the next one.                                                           *)
(***************************************************************************)
EXTENDS Integers, FiniteSets

CONSTANTS Items, QueueRuns, Workers, Capacity, Lease, Nobody

VARIABLES
    queue,      \* item -> [run, status, owner, expires]
    registry,   \* worker -> "absent", "accepting" or "closed"
    clock,
    torn        \* a server has overwritten what it had not read

vars == <<queue, registry, clock, torn>>

Is(i, status) == queue[i].status = status
Entry(run, status, owner, expires) ==
    [run |-> run, status |-> status, owner |-> owner, expires |-> expires]

\* The items a queue says are claimed by w.
Held(q, w) == {i \in Items : q[i].status = "claimed" /\ q[i].owner = w}
HasRoom(q, w) == registry[w] = "accepting" /\ Cardinality(Held(q, w)) < Capacity

OneActiveItem(q) ==
    \A i, j \in Items :
        /\ {q[i].status, q[j].status} \subseteq {"queued", "claimed"}
        /\ q[i].run = q[j].run
        => i = j

Init ==
    /\ queue = [i \in Items |-> Entry(0, "absent", Nobody, 0)]
    /\ registry = [w \in Workers |-> "absent"]
    /\ clock = 0 /\ torn = FALSE

Put(i, entry) ==
    /\ queue' = [queue EXCEPT ![i] = entry]
    /\ UNCHANGED <<registry, clock, torn>>

Enqueue(i, run) ==
    /\ Is(i, "absent")
    /\ \A j \in Items : queue[j].run = run => ~Is(j, "queued") /\ ~Is(j, "claimed")
    /\ Put(i, Entry(run, "queued", Nobody, 0))

\* whoever asks gets it, a registered worker or not
Claim(i, w) ==
    /\ Is(i, "queued")
    /\ Put(i, Entry(queue[i].run, "claimed", w, clock + Lease))

Release(i, status) ==
    /\ Is(i, "claimed")
    /\ Put(i, Entry(queue[i].run, status, Nobody, 0))

Reassign(i, w) ==
    /\ Is(i, "claimed") /\ queue[i].owner # w
    /\ registry[queue[i].owner] # "absent"
    /\ HasRoom(queue, w)
    /\ Put(i, Entry(queue[i].run, "claimed", w, clock + Lease))

\* What a poll at time t leaves of the leases.
Swept(w, t) ==
    [i \in Items |->
        IF Is(i, "claimed") /\ queue[i].expires <= t
        THEN Entry(queue[i].run, "queued", Nobody, 0)
        ELSE IF Is(i, "claimed") /\ queue[i].owner = w
             THEN [queue[i] EXCEPT !.expires = t + Lease]
             ELSE queue[i]]

Oldest(q, i) ==
    /\ q[i].status = "queued"
    /\ \A j \in Items : q[j].status = "queued" => i <= j

\* A poll judges leases by a time that has come, and grants an item if it can.
Poll(w, t) ==
    LET swept == Swept(w, t) IN
    /\ t <= clock
    /\ registry[w] # "absent"
    /\ \/ \E i \in Items :
              /\ HasRoom(swept, w) /\ Oldest(swept, i)
              /\ queue' = [swept EXCEPT ![i] = Entry(swept[i].run, "claimed", w, t + Lease)]
       \/ /\ ~HasRoom(swept, w) \/ \A i \in Items : swept[i].status # "queued"
          /\ queue' = swept
    /\ UNCHANGED <<registry, clock, torn>>

Register(w, state) ==
    /\ registry' = [registry EXCEPT ![w] = state]
    /\ UNCHANGED <<queue, clock, torn>>

Join(w) == registry[w] = "absent" /\ Register(w, "accepting")
SetWilling(w, state) == registry[w] # "absent" /\ Register(w, state)
Leave(w) == registry[w] = "closed" /\ Held(queue, w) = {} /\ Register(w, "absent")

Tick == clock' = clock + 1 /\ UNCHANGED <<queue, registry, torn>>

Tear ==
    /\ OneActiveItem(queue')
    /\ registry' \in [Workers -> {"absent", "accepting", "closed"}]
    /\ torn' = TRUE
    /\ UNCHANGED clock

Next ==
    \/ \E i \in Items :
          \/ \E run \in QueueRuns : Enqueue(i, run)
          \/ \E w \in Workers : Claim(i, w) \/ Reassign(i, w)
          \/ \E status \in {"queued", "closed"} : Release(i, status)
    \/ \E w \in Workers :
          \/ Join(w) \/ Leave(w)
          \/ \E state \in {"accepting", "closed"} : SetWilling(w, state)
          \/ \E t \in 0..clock : Poll(w, t)
    \/ Tick \/ Tear

Spec == Init /\ [][Next]_vars
=============================================================================
