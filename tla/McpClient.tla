------------------------------ MODULE McpClient ------------------------------
(***************************************************************************)
(* The client half of an MCP connection (orchestrator, mcp-client.ts): one *)
(* server process at a time, JSON-RPC requests in flight, a server that    *)
(* dies and is started again, requests that time out, pipes that fail, and *)
(* close().                                                                *)
(*                                                                         *)
(* The client is one JavaScript thread.  What it holds is the record       *)
(* `client'; a handler is a function of that record and runs in one step,  *)
(* with the promise continuations it resolves.  The world outside is the   *)
(* servers' process groups, the exits they have reported, the requests in  *)
(* their hands and the answers on the wire.                                *)
(*                                                                         *)
(* A server that fails to start is one that exits before it answers.       *)
(*                                                                         *)
(* start() is called once, as by its caller, withWorkflowToolCaller of     *)
(* workflow-runtime.ts, which makes a client for each use.  The code's own *)
(* guard is weaker: it would accept a second start() while no server is    *)
(* there, between a failed reconnect and the next one.                     *)
(***************************************************************************)
EXTENDS Integers, FiniteSets

CONSTANTS
    MaxReconnects,  \* option maxReconnects
    MaxCalls        \* tool calls made (bound)

ASSUME ClientAssumption == MaxReconnects \in Nat /\ MaxCalls \in Nat

VARIABLES
    client,         \* the fields of McpClient (record below)
    group,          \* server -> "none", "up", "gone" (its descendants remain), "drained"
    reported,       \* servers whose exit the client has handled
    held,           \* id -> server that holds the request unanswered, 0 if none
    answers         \* answers written by a server and not yet read

clientVars == <<client, group, reported, held, answers>>

Procs == 1..(1 + MaxReconnects)
Ids == 1..(1 + MaxReconnects + MaxCalls)
Phases == {"new", "starting", "idle", "delay", "draining", "restarting", "failing"}

\* phase      where start() or the reconnect timer stands; the last four are `reconnecting'
\* terminating  the server of terminationPromise; cleanup: a waiter removes the home after it
\* pending    id -> the server it was sent to (history: the code keeps only the id)
Clients == [phase : Phases, proc : {0} \cup Procs, terminating : {0} \cup Procs,
            cleanup : BOOLEAN, initialized : BOOLEAN, closed : BOOLEAN, unusable : BOOLEAN,
            home : BOOLEAN, reconnectCount : 0..MaxReconnects, servers : {0} \cup Procs,
            nextId : 1..(2 + MaxReconnects + MaxCalls), initId : {0} \cup Ids,
            pending : [Ids -> {0} \cup Procs]]

NoneOf == [n \in Ids |-> 0]
Stopped(c) == c.closed \/ c.unusable
Connecting(c) == c.initId # 0 /\ c.pending[c.initId] # 0
IsConnected(c) == c.initialized /\ c.proc # 0 /\ ~Stopped(c)

-----------------------------------------------------------------------------
(* The methods, as functions of the client's fields.                       *)

\* Mutant: who finds a termination under way does not wait to remove the home.
Terminate_Forgets(c, clean) ==
    IF c.terminating # 0 THEN c
    ELSE IF c.proc = 0 THEN [c EXCEPT !.home = @ /\ ~clean]
    ELSE [c EXCEPT !.terminating = c.proc, !.cleanup = clean]

\* terminateProcessTree, and removeControlledHome after it when `clean'
Terminate(c, clean) ==
    IF c.terminating # 0 THEN [c EXCEPT !.cleanup = @ \/ clean]
    ELSE IF c.proc = 0 THEN [c EXCEPT !.home = @ /\ ~clean]
    ELSE [c EXCEPT !.terminating = c.proc, !.cleanup = clean]

ScheduleReconnect(c) ==
    IF c.reconnectCount >= MaxReconnects
    THEN Terminate([c EXCEPT !.unusable = TRUE, !.phase = "idle"], TRUE)
    ELSE [c EXCEPT !.phase = "delay", !.reconnectCount = @ + 1]

\* the end of the reconnect timer's catch block
AfterFailing(c) ==
    IF Stopped(c) THEN [c EXCEPT !.phase = "idle"] ELSE ScheduleReconnect(c)

\* doStart has thrown: the catch blocks of start() and of the reconnect timer
FailStart(c) ==
    IF c.phase = "starting"
    THEN Terminate([c EXCEPT !.unusable = TRUE, !.phase = "idle"], TRUE)
    ELSE LET d == Terminate([c EXCEPT !.phase = "failing"], FALSE)
         IN IF d.terminating = 0 THEN AfterFailing(d) ELSE d

FailPending(c) ==
    LET d == [c EXCEPT !.initialized = FALSE, !.pending = NoneOf]
    IN IF Connecting(c) THEN FailStart(d) ELSE d

InvalidateAndTerminate(c) ==
    LET d == Terminate([c EXCEPT !.unusable = TRUE, !.initialized = FALSE,
                                 !.pending = NoneOf], TRUE)
    IN IF Connecting(c) THEN FailStart(d) ELSE d

Request(c, to) ==
    [c EXCEPT !.pending[c.nextId] = to, !.nextId = @ + 1]

\* doStart up to the initialize request
DoStart(c, phase) ==
    [Request(c, c.servers + 1) EXCEPT !.phase = phase, !.servers = @ + 1,
                                      !.proc = c.servers + 1, !.initId = c.nextId]

\* the initialize request is answered; the client writes to a server it has let go of
\* only to see the write throw
Handshake(c, valid) ==
    IF valid /\ c.proc # 0 THEN [c EXCEPT !.initialized = TRUE, !.phase = "idle"]
    ELSE FailStart(c)

OnExit(c) ==
    LET d == FailPending(c)
    IN IF c.initialized /\ ~Stopped(c) /\ c.phase = "idle" THEN ScheduleReconnect(d) ELSE d

-----------------------------------------------------------------------------
ClientInit ==
    /\ client = [phase |-> "new", proc |-> 0, terminating |-> 0, cleanup |-> FALSE,
                 initialized |-> FALSE, closed |-> FALSE, unusable |-> FALSE, home |-> FALSE,
                 reconnectCount |-> 0, servers |-> 0, nextId |-> 1, initId |-> 0,
                 pending |-> NoneOf]
    /\ group = [k \in Procs |-> "none"]
    /\ reported = {}
    /\ held = NoneOf
    /\ answers = {}

\* Mutant: every connection numbers its requests from 1.
Launch_ResetIds(c, phase) ==
    /\ client' = DoStart([c EXCEPT !.nextId = 1], phase)
    /\ group' = [group EXCEPT ![c.servers + 1] = "up"]
    /\ held' = [held EXCEPT ![1] = c.servers + 1]
    /\ UNCHANGED <<reported, answers>>

Launch(c, phase) ==
    /\ client' = DoStart(c, phase)
    /\ group' = [group EXCEPT ![c.servers + 1] = "up"]
    /\ held' = [held EXCEPT ![c.nextId] = c.servers + 1]
    /\ UNCHANGED <<reported, answers>>

Only(c) == client' = c /\ UNCHANGED <<group, reported, held, answers>>

Start ==
    /\ client.phase = "new" /\ client.proc = 0 /\ ~Stopped(client)
    /\ Launch([client EXCEPT !.home = TRUE], "starting")

Close ==
    /\ ~client.closed
    /\ Only(Terminate([client EXCEPT !.closed = TRUE], TRUE))

\* stdin is writable until it is ended (termination) or destroyed (exit handled)
CallTool ==
    /\ IsConnected(client)
    /\ client.terminating = 0 /\ client.proc \notin reported
    /\ client.nextId - 1 - client.servers < MaxCalls
    /\ client' = Request(client, client.proc)
    /\ held' = [held EXCEPT ![client.nextId] = client.proc]
    /\ UNCHANGED <<group, reported, answers>>

RequestTimeout(n) ==
    /\ client.pending[n] # 0
    /\ Only(InvalidateAndTerminate(client))

\* the pipes of the current server; of a client already unusable nothing is left to fail
FailTransport ==
    /\ client.proc # 0 /\ client.proc \notin reported /\ ~client.unusable
    /\ Only(InvalidateAndTerminate(client))

\* consumeJsonRpcLine: the answer is looked up by its id alone
ConsumeAnswer(m) ==
    /\ answers' = answers \ {m}
    /\ IF client.pending[m.id] = 0
       THEN client' = client
       ELSE LET c == [client EXCEPT !.pending[m.id] = 0] IN
            IF Connecting(client) /\ m.id = client.initId
            THEN \E valid \in BOOLEAN : client' = Handshake(c, valid)
            ELSE client' = c
    /\ UNCHANGED <<group, reported, held>>

ExitReported(k) ==
    /\ group[k] \in {"gone", "drained"} /\ k \notin reported
    /\ client' = OnExit(client)
    /\ reported' = reported \cup {k}
    /\ UNCHANGED <<group, held, answers>>

\* Mutant: the exited server's descendants are not waited for.
TimerFires_NoDrain ==
    /\ client.phase = "delay"
    /\ \/ client.closed /\ Only([client EXCEPT !.phase = "idle"])
       \/ ~Stopped(client) /\ Launch(client, "restarting")

\* a client does not become unusable while it waits for the timer, only closed
TimerFires ==
    LET c == Terminate([client EXCEPT !.phase = "draining"], FALSE) IN
    /\ client.phase = "delay"
    /\ \/ client.closed /\ Only([client EXCEPT !.phase = "idle"])
       \/ ~client.closed /\ c.terminating # 0 /\ Only(c)
       \/ ~Stopped(client) /\ c.terminating = 0 /\ Launch(c, "restarting")

\* doTerminateProcessTree, finally, and what was waiting for it
TerminationEnds ==
    LET k == client.terminating
        c == [client EXCEPT !.proc = IF @ = k THEN 0 ELSE @, !.initialized = FALSE,
                            !.terminating = 0, !.cleanup = FALSE,
                            !.home = @ /\ ~client.cleanup]
    IN
    /\ k # 0 /\ group[k] = "drained"
    /\ \/ c.phase = "draining" /\ Stopped(c) /\ Only([c EXCEPT !.phase = "idle"])
       \/ c.phase = "draining" /\ ~Stopped(c) /\ Launch(c, "restarting")
       \/ c.phase = "failing" /\ Only(AfterFailing(c))
       \/ c.phase \notin {"draining", "failing"} /\ Only(c)

(* The servers: each exits by itself, answers or does not, and its group   *)
(* is ended by the signals of a termination.                               *)

ServerExits(k) ==
    /\ group[k] = "up"
    /\ group' = [group EXCEPT ![k] = "gone"]
    /\ UNCHANGED <<client, reported, held, answers>>

Signal ==
    /\ client.terminating # 0 /\ group[client.terminating] \in {"up", "gone"}
    /\ group' = [group EXCEPT ![client.terminating] = "drained"]
    /\ UNCHANGED <<client, reported, held, answers>>

ServerAnswers(n) ==
    /\ held[n] # 0 /\ group[held[n]] = "up"
    /\ answers' = answers \cup {[from |-> held[n], id |-> n]}
    /\ held' = [held EXCEPT ![n] = 0]
    /\ UNCHANGED <<client, group, reported>>

ClientNext ==
    \/ Start \/ Close \/ CallTool \/ FailTransport \/ TimerFires \/ TerminationEnds \/ Signal
    \/ \E n \in Ids : RequestTimeout(n) \/ ServerAnswers(n)
    \/ \E m \in answers : ConsumeAnswer(m)
    \/ \E k \in Procs : ServerExits(k) \/ ExitReported(k)

ClientSpec == ClientInit /\ [][ClientNext]_clientVars

-----------------------------------------------------------------------------
ClientTypeOK ==
    /\ client \in Clients
    /\ group \in [Procs -> {"none", "up", "gone", "drained"}]
    /\ reported \subseteq Procs
    /\ held \in [Ids -> {0} \cup Procs]
    /\ answers \subseteq [from : Procs, id : Ids]

\* At most one server group is running, the one the client holds: the group of a server
\* that has exited is drained (its descendants killed) before the next one is started.
OneServerGroup ==
    \A k \in Procs : group[k] \in {"up", "gone"} => k = client.proc

\* A client that says it is connected has finished the handshake with the server it now
\* holds: that server's exit has not been handled, nothing is tearing it down and no
\* reconnect is under way, so a call goes to a server that knows the client.
ConnectedIsReady ==
    IsConnected(client) =>
        /\ client.phase = "idle" /\ client.terminating = 0 /\ ~Connecting(client)
        /\ client.proc = client.servers
        /\ client.proc \notin reported /\ group[client.proc] \in {"up", "gone"}

\* Both at once: a connected client talks to the only server there is.
ConnectedToOnlyServer == OneServerGroup /\ ConnectedIsReady

\* An answer settles only the request that was sent to the server it comes from: ids
\* are not used again after a reconnect, so the late answer of a replaced server, or to
\* a request that timed out, reaches nobody.
AnswerReachesAsker ==
    [][\A m \in answers, n \in Ids :
          /\ answers' = answers \ {m}
          /\ client.pending[n] # 0 /\ client'.pending[n] = 0
          => m.id = n /\ m.from = client.pending[n]]_clientVars

\* A client closed or made unusable lets go of everything, without waiting for the
\* timeouts of its requests: no request stays pending, every server group ends and the
\* controlled home directory is removed.
Released ==
    /\ client.pending = NoneOf /\ client.phase \in {"new", "idle"}
    /\ \A k \in Procs : group[k] \in {"none", "drained"}
    /\ ~client.home
StopReleasesEverything == Stopped(client) ~> Released

\* The session a caller has of it.
Alive == {k \in Procs : group[k] \in {"up", "gone"}}
OpenServer == IF IsConnected(client) THEN client.proc ELSE 0

SS == INSTANCE ServerSession WITH
        started <- client.servers, running <- Alive, open <- OpenServer,
        stopped <- Stopped(client), issued <- client.nextId - 1, asked <- client.pending

\* The refinement of ServerSession: whatever exits, answers, failures, timeouts and close()
\* are interleaved with a reconnect, there is one server at a time, calls go to one that
\* has shaken hands, and an answer reaches who asked that server or nobody.
ImplementsSession == SS!Spec
=============================================================================
