----------------------------- MODULE MCServices -----------------------------
(* Five parts of the system that share no state, in one run: the initial    *)
(* state chooses the part, the others stay as they began.  The fleet queue, *)
(* the MCP client, the idea engine's campaign store and the delegated agent *)
(* runner are checked here (the campaign store also in MCIdeaCampaign), the *)
(* run-state store for its liveness, with one job of each kind.             *)
EXTENDS FleetQueue, McpClient, IdeaCampaign, AgentRunner, Sequences

CONSTANTS
    a, b,                                    \* contents of the run state
    Proc, Content, WithPlan, Jobs, MaxAttempts, MaxJobs, Absent, Untracked, Note,
    b1, b2, t,                               \* idempotency keys
    s1, s2, s3                               \* tools of a turn

VARIABLES
    part,
    file, ledger, planMd, pause, locked, pc, snap, job, tries, sent, saved, res, started, quiet

Store == INSTANCE StateStore

storeVars == <<file, ledger, planMd, pause, locked, pc, snap, job, tries, sent, saved, res,
               started, quiet>>
servicesVars == <<part, queueVars, clientVars, ideaVars, agentVars, storeVars>>

MCContent == {a, b}
MCWithPlan == {b}

J(kind, val, extra, sentinel) ==
    [kind |-> kind, val |-> val, extra |-> extra, sentinel |-> sentinel]

MCJobs == { J("event", a, 0, "write"), J("event", b, 1, "remove"),
            J("guarded", b, 1, "keep"), J("guarded", a, 0, "write"),
            J("silent", a, 0, "keep"), J("note", a, 0, "keep") }

\* Two bursts and a top-up.
MCKeys == {b1, b2, t}
MCMethod == [k \in MCKeys |-> IF k = t THEN "topup" ELSE "import"]

\* A tool that may request an approval, then two that are executed in parallel.
MCSlots == {s1, s2, s3}
MCGroupOf == [s \in MCSlots |-> IF s = s1 THEN 1 ELSE 2]
MCProducers == {s1}

ServicesInit ==
    /\ part \in {"store", "fleet", "client", "idea", "agent"}
    /\ Store!Init /\ QueueInit /\ ClientInit /\ IdeaInit /\ AgentInit

ServicesNext ==
    /\ UNCHANGED part
    /\ \/ part = "store" /\ Store!Next /\ UNCHANGED <<queueVars, clientVars, ideaVars, agentVars>>
       \/ part = "fleet" /\ QueueNext /\ UNCHANGED <<clientVars, ideaVars, agentVars, storeVars>>
       \/ part = "client" /\ ClientNext /\ UNCHANGED <<queueVars, ideaVars, agentVars, storeVars>>
       \/ part = "idea" /\ IdeaNext /\ UNCHANGED <<queueVars, clientVars, agentVars, storeVars>>
       \/ part = "agent" /\ AgentNext /\ UNCHANGED <<queueVars, clientVars, ideaVars, storeVars>>

\* The fairness of each part, as its module states it; that of the polls is for the run
\* in which there are polls.  A handler of the fleet is synchronous and has at most three
\* steps, of which one can always be taken: weak fairness of them says that it ends.
ServicesSpec ==
    /\ ServicesInit /\ [][ServicesNext]_servicesVars
    /\ \A p \in Proc : WF_storeVars(part = "store" /\ Store!Step(p))
    /\ SF_queueVars(part = "fleet" /\ \E s \in Servers : PollBegin(s))
    /\ \A s \in Servers : []<>(part = "fleet" => op[s] = Idle)
    /\ WF_clientVars(part = "client" /\ Signal)
    /\ WF_clientVars(part = "client" /\ TerminationEnds)
    /\ WF_clientVars(part = "client" /\ \E k \in Procs : ExitReported(k))
    /\ WF_clientVars(part = "client" /\ TimerFires)

ServicesTypeOK == QueueTypeOK /\ ClientTypeOK /\ IdeaTypeOK /\ AgentTypeOK

JobsEnd == Store!JobsEnd
=============================================================================
