---------------------------- MODULE ServerSession ---------------------------
(***************************************************************************)
(* What an MCP client promises its caller: a session with one server at a  *)
(* time, restarted a bounded number of times.                              *)
(*                                                                         *)
(* A server is started only when nothing of an earlier one runs and no     *)
(* request to an earlier one is still awaited.  Calls go to the server     *)
(* that has answered the first request made to it.  An answer ends the     *)
(* request it answers, made of the server it comes from, or nothing.  Who  *)
(* waits when the server is lost is told; and a session that has stopped   *)
(* starts no server and takes no call.                                     *)
(***************************************************************************)
EXTENDS Integers

CONSTANTS MaxReconnects, MaxCalls

VARIABLES
    started,    \* servers started so far, numbered as they come
    running,    \* servers of whose process group something runs
    open,       \* the server a call goes to, 0 if calls are refused
    stopped,    \* closed or given up, for good
    issued,     \* requests made so far, numbered as they come
    asked,      \* request -> the server whose answer to it is awaited, 0 if none is
    held,       \* request -> the server that has still to answer it, 0 if none
    answers     \* answers on their way

vars == <<started, running, open, stopped, issued, asked, held, answers>>

Requests == 1..(1 + MaxReconnects + MaxCalls)
NoneAwaited == [n \in Requests |-> 0]

Init ==
    /\ started = 0 /\ running = {} /\ open = 0 /\ stopped = FALSE
    /\ issued = 0 /\ asked = NoneAwaited /\ held = NoneAwaited /\ answers = {}

Ask(k) ==
    /\ issued' = issued + 1
    /\ asked' = [asked EXCEPT ![issued + 1] = k]
    /\ held' = [held EXCEPT ![issued + 1] = k]

Launch ==
    /\ ~stopped /\ open = 0 /\ running = {} /\ asked = NoneAwaited
    /\ started <= MaxReconnects
    /\ started' = started + 1 /\ running' = {started + 1}
    /\ Ask(started + 1)
    /\ UNCHANGED <<open, stopped, answers>>

Call ==
    /\ open # 0 /\ issued - started < MaxCalls
    /\ Ask(open)
    /\ UNCHANGED <<started, running, open, stopped, answers>>

Answer(n) ==
    /\ held[n] \in running
    /\ answers' = answers \cup {[from |-> held[n], id |-> n]}
    /\ held' = [held EXCEPT ![n] = 0]
    /\ UNCHANGED <<started, running, open, stopped, issued, asked>>

\* The answer to the first request of the latest server, while it runs, opens the session;
\* one that is no answer to it may end it.
Settle(m) ==
    /\ asked[m.id] = m.from
    /\ answers' = answers \ {m}
    /\ asked' = [asked EXCEPT ![m.id] = 0]
    /\ \/ UNCHANGED <<open, stopped>>
       \/ /\ open = 0 /\ ~stopped /\ m.from = started /\ m.from \in running /\ asked' = NoneAwaited
          /\ open' = m.from /\ UNCHANGED stopped
       \/ open = 0 /\ stopped' = TRUE /\ UNCHANGED open
    /\ UNCHANGED <<started, running, issued, held>>

Ignore(m) ==
    /\ asked[m.id] = 0
    /\ answers' = answers \ {m}
    /\ UNCHANGED <<started, running, open, stopped, issued, asked, held>>

\* the server is lost: every request is rejected at once
Lose ==
    /\ open' = 0 /\ asked' = NoneAwaited /\ stopped' \in {stopped, TRUE}
    /\ UNCHANGED <<started, running, issued, held, answers>>

Stop ==
    /\ open' = 0 /\ stopped' = TRUE
    /\ UNCHANGED <<started, running, issued, asked, held, answers>>

\* the process group is killed: nobody is sent calls to it
Kill ==
    /\ open = 0 /\ running' = {}
    /\ UNCHANGED <<started, open, stopped, issued, asked, held, answers>>

Next ==
    \/ Launch \/ Call \/ Lose \/ Stop \/ Kill
    \/ \E n \in Requests : Answer(n)
    \/ \E m \in answers : Settle(m) \/ Ignore(m)

Spec == Init /\ [][Next]_vars
=============================================================================
