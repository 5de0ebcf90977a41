---------------------------- MODULE AtomicStore ----------------------------
(***************************************************************************)
(* What the run-state store promises its callers: a compare-and-set        *)
(* register beside an append-only history.  Attempts to write are serial;  *)
(* an attempt may add events to the history and replace the state only     *)
(* while the state is the one its caller read; a state enters the register *)
(* after the event that announces it, or quietly; a failed attempt may     *)
(* take back the state it has put and then the events it has added, never  *)
(* another's: the register remembers both as long as the attempt lasts.    *)
(* An attempt may stop anywhere: there is no crash atomicity.              *)
(***************************************************************************)
EXTENDS Naturals, Sequences

CONSTANTS Proc, Content, Absent, Untracked, Note

VARIABLES
    st,     \* the register
    log,    \* the history
    view,   \* what each process believes the register holds
    turn,   \* the processes with an attempt under way
    added,  \* the events the attempt of each process has added
    over,   \* the state it has replaced by an announced one, if any
    quiet   \* contents published without an event

vars == <<st, log, view, turn, added, over, quiet>>

Seen(p) == IF view[p] = Untracked THEN Absent ELSE view[p]
Announces(p, c) == added[p] # <<>> /\ added[p][Len(added[p])] = c

Init ==
    /\ st = Absent /\ log = <<>> /\ quiet = {}
    /\ view = [p \in Proc |-> Untracked]
    /\ turn = {}
    /\ added = [p \in Proc |-> <<>>]
    /\ over = [p \in Proc |-> {}]

\* An attempt that is over has nothing left that could be taken back.
Done(p) ==
    /\ turn' = turn \ {p}
    /\ added' = [added EXCEPT ![p] = <<>>]
    /\ over' = [over EXCEPT ![p] = {}]

\* A caller reads the register, or loses what it read when it dies.
Learn(p) ==
    /\ view' = [view EXCEPT ![p] = st]
    /\ UNCHANGED <<st, log, turn, added, over, quiet>>

Forget(p) ==
    /\ view' = [view EXCEPT ![p] = Untracked]
    /\ Done(p)
    /\ UNCHANGED <<st, log, quiet>>

\* One attempt at a time.
Open(p) ==
    /\ turn = {} /\ turn' = {p}
    /\ UNCHANGED <<st, log, view, added, over, quiet>>

Close(p) == p \in turn /\ Done(p) /\ UNCHANGED <<st, log, view, quiet>>

Add(p, e) ==
    /\ log' = Append(log, e)
    /\ added' = [added EXCEPT ![p] = Append(@, e)]
    /\ UNCHANGED <<st, view, turn, over, quiet>>

\* History alone: a note, whatever the register holds.
Remark(p) == p \in turn /\ Add(p, Note)

\* A state is announced while the register holds what the caller read.
Announce(p, c) == p \in turn /\ st = Seen(p) /\ Add(p, c)

\* The state this attempt announced last, and no other, replaces what the
\* caller read.
Publish(p, c) ==
    /\ p \in turn /\ st = Seen(p) /\ Announces(p, c)
    /\ st' = c
    /\ over' = [over EXCEPT ![p] = {st} \ {c}]
    /\ UNCHANGED <<log, view, turn, added, quiet>>

PublishQuietly(p, c) ==
    /\ p \in turn /\ st = Seen(p) /\ added[p] = <<>>
    /\ st' = c /\ quiet' = quiet \cup {c}
    /\ UNCHANGED <<log, view, turn, added, over>>

\* A failed attempt puts back the very state it replaced ...
Withdraw(p) ==
    /\ p \in turn /\ Announces(p, st)
    /\ st' \in over[p]
    /\ over' = [over EXCEPT ![p] = {}]
    /\ UNCHANGED <<log, view, turn, added, quiet>>

\* ... and then removes its own events, all of them and no others, from the
\* end of the history.
Retract(p) ==
    /\ p \in turn /\ over[p] = {}
    /\ log = log' \o added[p]
    /\ added' = [added EXCEPT ![p] = <<>>]
    /\ UNCHANGED <<st, view, turn, over, quiet>>

Next == \E p \in Proc :
    \/ Learn(p) \/ Forget(p) \/ Open(p) \/ Close(p)
    \/ Remark(p) \/ Withdraw(p) \/ Retract(p)
    \/ \E c \in Content : Announce(p, c) \/ Publish(p, c) \/ PublishQuietly(p, c)

Spec == Init /\ [][Next]_vars
=============================================================================
