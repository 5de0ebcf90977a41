--------------------------- MODULE McpClientProofs --------------------------
(***************************************************************************)
(* Proofs about McpClient for any number of reconnects and calls.  The     *)
(* methods are functions of the client's record, so the facts about them   *)
(* are facts about records; the invariant adds the world outside.  The     *)
(* client implements the session of ServerSession.                         *)
(***************************************************************************)
EXTENDS McpClient, TLAPS

USE ClientAssumption DEF ClientAssumption

\* What every record the client passes through satisfies, inside a handler too.
Base(c) ==
    /\ c \in Clients
    /\ c.terminating \in {0, c.proc} /\ c.proc \in {0, c.servers}
    /\ c.servers <= c.reconnectCount + 1
    /\ c.nextId <= 1 + c.servers + MaxCalls /\ c.initId < c.nextId
    /\ \A n \in Ids : c.pending[n] # 0 => n < c.nextId

\* Neither connected nor on the way to it.
Off(c) == ~c.initialized /\ ~Connecting(c)

\* What holds of it between handlers.
Settled(c) ==
    /\ Base(c)
    /\ c.phase = "new" => c.servers = 0 /\ c.reconnectCount = 0 /\ ~c.initialized
    /\ c.phase \in {"delay", "draining"} => c.servers <= c.reconnectCount
    /\ Connecting(c) <=> c.phase \in {"starting", "restarting"}
    /\ c.initialized => c.phase = "idle"
    /\ ~Off(c) /\ ~Stopped(c) => c.terminating = 0 /\ c.proc = c.servers /\ c.proc # 0

\* A method leaves the server and the requests as they are.
SameRequests(c, d) ==
    /\ d.proc = c.proc /\ d.servers = c.servers
    /\ d.nextId = c.nextId /\ d.initId = c.initId /\ d.pending = c.pending

LEMMA TerminateFacts ==
    ASSUME NEW c, Base(c), NEW clean \in BOOLEAN
    PROVE  LET d == Terminate(c, clean)
           IN /\ Base(d) /\ SameRequests(c, d)
              /\ d.phase = c.phase /\ d.initialized = c.initialized
              /\ d.closed = c.closed /\ d.unusable = c.unusable
              /\ d.reconnectCount = c.reconnectCount
              /\ d.terminating = IF c.terminating # 0 THEN c.terminating ELSE c.proc
<1>1. c \in Clients
  BY DEF Base
<1>2. ASSUME NEW d \in Clients, SameRequests(c, d),
             d.reconnectCount = c.reconnectCount, d.terminating \in {0, c.proc}
      PROVE  Base(d)
  BY <1>2 DEF Base, SameRequests
<1>3. CASE c.terminating # 0
  <2>. DEFINE d == [c EXCEPT !.cleanup = @ \/ clean]
  <2>1. Terminate(c, clean) = d
    BY <1>3 DEF Terminate
  <2>2. d \in Clients
    BY <1>1 DEF Clients
  <2>3. /\ SameRequests(c, d) /\ d.phase = c.phase /\ d.initialized = c.initialized
        /\ d.closed = c.closed /\ d.unusable = c.unusable
        /\ d.reconnectCount = c.reconnectCount /\ d.terminating = c.terminating
    BY <1>1 DEF Clients, SameRequests
  <2>. HIDE DEF d
  <2>4. c.terminating \in {0, c.proc}
    BY DEF Base
  <2>. QED
    BY <1>2, <1>3, <2>1, <2>2, <2>3, <2>4
<1>4. CASE c.terminating = 0 /\ c.proc = 0
  <2>. DEFINE home == c.home /\ ~clean
              d == [c EXCEPT !.home = home]
  <2>1. Terminate(c, clean) = d
    BY <1>4 DEF Terminate
  <2>2. d \in Clients
    <3>1. home \in BOOLEAN
      BY <1>1 DEF Clients
    <3>. HIDE DEF home
    <3>. QED
      BY <1>1, <3>1 DEF Clients
  <2>3. /\ SameRequests(c, d) /\ d.phase = c.phase /\ d.initialized = c.initialized
        /\ d.closed = c.closed /\ d.unusable = c.unusable
        /\ d.reconnectCount = c.reconnectCount /\ d.terminating = c.terminating
    BY <1>1 DEF Clients, SameRequests
  <2>. HIDE DEF d
  <2>. QED
    BY <1>2, <1>4, <2>1, <2>2, <2>3
<1>5. CASE c.terminating = 0 /\ c.proc # 0
  <2>. DEFINE d == [c EXCEPT !.terminating = c.proc, !.cleanup = clean]
  <2>1. Terminate(c, clean) = d
    BY <1>5 DEF Terminate
  <2>2. d \in Clients
    BY <1>1 DEF Clients
  <2>3. /\ SameRequests(c, d) /\ d.phase = c.phase /\ d.initialized = c.initialized
        /\ d.closed = c.closed /\ d.unusable = c.unusable
        /\ d.reconnectCount = c.reconnectCount /\ d.terminating = c.proc
    BY <1>1 DEF Clients, SameRequests
  <2>. HIDE DEF d
  <2>. QED
    BY <1>2, <1>5, <2>1, <2>2, <2>3
<1>. QED
  BY <1>3, <1>4, <1>5

LEMMA ScheduleFacts ==
    ASSUME NEW c, Base(c), Off(c), c.phase # "new"
    PROVE  LET d == ScheduleReconnect(c)
           IN Settled(d) /\ Off(d) /\ SameRequests(c, d)
<1>1. CASE c.reconnectCount >= MaxReconnects
  <2>. DEFINE e == [c EXCEPT !.unusable = TRUE, !.phase = "idle"]
  <2>1. e \in Clients
    BY DEF Base, Clients, Phases
  <2>2. /\ SameRequests(c, e) /\ e.phase = "idle" /\ e.unusable = TRUE
        /\ e.initialized = c.initialized /\ e.terminating = c.terminating
        /\ e.reconnectCount = c.reconnectCount
    BY DEF Base, Clients, SameRequests
  <2>. HIDE DEF e
  <2>3. Base(e) /\ Off(e)
    BY <2>1, <2>2 DEF Base, Off, Connecting, SameRequests
  <2>4. ScheduleReconnect(c) = Terminate(e, TRUE)
    BY <1>1 DEF ScheduleReconnect, e
  <2>5. /\ Base(Terminate(e, TRUE)) /\ SameRequests(e, Terminate(e, TRUE))
        /\ Terminate(e, TRUE).phase = "idle" /\ ~Terminate(e, TRUE).initialized
    BY <2>2, <2>3, TerminateFacts DEF Off
  <2>6. Off(Terminate(e, TRUE)) /\ SameRequests(c, Terminate(e, TRUE))
    BY <2>2, <2>3, <2>5 DEF Off, Connecting, SameRequests
  <2>. QED
    BY <2>4, <2>5, <2>6 DEF Settled, Off
<1>2. CASE c.reconnectCount < MaxReconnects
  <2>. DEFINE e == [c EXCEPT !.phase = "delay", !.reconnectCount = @ + 1]
  <2>0. c.reconnectCount + 1 \in 0..MaxReconnects
    BY <1>2 DEF Base, Clients
  <2>1. e \in Clients
    <3>. DEFINE n == c.reconnectCount + 1
    <3>1. n \in 0..MaxReconnects
      BY <2>0
    <3>2. e = [c EXCEPT !.phase = "delay", !.reconnectCount = n]
      OBVIOUS
    <3>. HIDE DEF n
    <3>. QED
      BY <3>1, <3>2 DEF Base, Clients, Phases
  <2>2. /\ SameRequests(c, e) /\ e.phase = "delay"
        /\ e.initialized = c.initialized /\ e.terminating = c.terminating
        /\ e.reconnectCount = c.reconnectCount + 1
    BY DEF Base, Clients, SameRequests
  <2>2a. c.reconnectCount \in Nat /\ c.servers \in Nat
    BY DEF Base, Clients, Procs
  <2>. HIDE DEF e
  <2>3. Base(e) /\ Off(e) /\ e.servers <= e.reconnectCount
    BY <2>1, <2>2, <2>2a DEF Base, Off, Connecting, SameRequests
  <2>4. ScheduleReconnect(c) = e
    <3>1. ~(c.reconnectCount >= MaxReconnects)
      BY <1>2, <2>2a
    <3>. QED
      BY <3>1 DEF ScheduleReconnect, e
  <2>. QED
    BY <2>2, <2>3, <2>4 DEF Settled, Off
<1>3. c.reconnectCount \in Nat
  BY DEF Base, Clients
<1>. QED
  BY <1>1, <1>2, <1>3

LEMMA AfterFailingFacts ==
    ASSUME NEW c, Base(c), Off(c), c.phase # "new"
    PROVE  LET d == AfterFailing(c)
           IN Settled(d) /\ Off(d) /\ SameRequests(c, d)
<1>1. CASE Stopped(c)
  <2>. DEFINE e == [c EXCEPT !.phase = "idle"]
  <2>1. e \in Clients
    BY DEF Base, Clients, Phases
  <2>2. /\ SameRequests(c, e) /\ e.phase = "idle"
        /\ e.initialized = c.initialized /\ e.terminating = c.terminating
        /\ e.reconnectCount = c.reconnectCount
    BY DEF Base, Clients, SameRequests
  <2>. HIDE DEF e
  <2>3. Base(e) /\ Off(e)
    BY <2>1, <2>2 DEF Base, Off, Connecting, SameRequests
  <2>4. AfterFailing(c) = e
    BY <1>1 DEF AfterFailing, e
  <2>. QED
    BY <2>2, <2>3, <2>4 DEF Settled, Off
<1>2. CASE ~Stopped(c)
  BY <1>2, ScheduleFacts DEF AfterFailing
<1>. QED
  BY <1>1, <1>2

LEMMA FailStartFacts ==
    ASSUME NEW c, Base(c), Off(c), c.phase # "new"
    PROVE  LET d == FailStart(c)
           IN Settled(d) /\ Off(d) /\ SameRequests(c, d)
<1>1. CASE c.phase = "starting"
  <2>. DEFINE e == [c EXCEPT !.unusable = TRUE, !.phase = "idle"]
  <2>1. e \in Clients
    BY DEF Base, Clients, Phases
  <2>2. /\ SameRequests(c, e) /\ e.phase = "idle"
        /\ e.initialized = c.initialized /\ e.terminating = c.terminating
        /\ e.reconnectCount = c.reconnectCount
    BY DEF Base, Clients, SameRequests
  <2>. HIDE DEF e
  <2>3. Base(e) /\ Off(e)
    BY <2>1, <2>2 DEF Base, Off, Connecting, SameRequests
  <2>4. FailStart(c) = Terminate(e, TRUE)
    BY <1>1 DEF FailStart, e
  <2>5. /\ Base(Terminate(e, TRUE)) /\ SameRequests(e, Terminate(e, TRUE))
        /\ Terminate(e, TRUE).phase = "idle" /\ ~Terminate(e, TRUE).initialized
    BY <2>2, <2>3, TerminateFacts DEF Off
  <2>6. Off(Terminate(e, TRUE)) /\ SameRequests(c, Terminate(e, TRUE))
    BY <2>2, <2>3, <2>5 DEF Off, Connecting, SameRequests
  <2>. QED
    BY <2>4, <2>5, <2>6 DEF Settled, Off
<1>2. CASE c.phase # "starting"
  <2>. DEFINE e == [c EXCEPT !.phase = "failing"]
              d == Terminate(e, FALSE)
  <2>1. e \in Clients
    BY DEF Base, Clients, Phases
  <2>2. /\ SameRequests(c, e) /\ e.phase = "failing"
        /\ e.initialized = c.initialized /\ e.terminating = c.terminating
        /\ e.reconnectCount = c.reconnectCount
    BY DEF Base, Clients, SameRequests
  <2>3. FailStart(c) = IF d.terminating = 0 THEN AfterFailing(d) ELSE d
    BY <1>2 DEF FailStart
  <2>. HIDE DEF e
  <2>4. Base(e) /\ Off(e)
    BY <2>1, <2>2 DEF Base, Off, Connecting, SameRequests
  <2>5. Base(d) /\ SameRequests(e, d) /\ d.phase = "failing" /\ ~d.initialized
    BY <2>2, <2>4, TerminateFacts DEF Off
  <2>. HIDE DEF d
  <2>6. Off(d) /\ SameRequests(c, d)
    BY <2>2, <2>4, <2>5 DEF Off, Connecting, SameRequests
  <2>7. CASE d.terminating = 0
    <3>1. /\ Settled(AfterFailing(d)) /\ Off(AfterFailing(d)) /\ SameRequests(d, AfterFailing(d))
      BY <2>5, <2>6, AfterFailingFacts
    <3>2. SameRequests(c, AfterFailing(d))
      BY <2>6, <3>1 DEF SameRequests
    <3>. QED
      BY <2>3, <2>7, <3>1, <3>2
  <2>8. CASE d.terminating # 0
    <3>1. Settled(d)
      BY <2>5, <2>6 DEF Settled, Off
    <3>. QED
      BY <2>3, <2>6, <2>8, <3>1
  <2>. QED
    BY <2>7, <2>8
<1>. QED
  BY <1>1, <1>2

\* The client after its requests have been rejected.
Cleared(c, d) ==
    /\ Settled(d) /\ Off(d) /\ d.pending = NoneOf
    /\ d.proc = c.proc /\ d.servers = c.servers /\ d.nextId = c.nextId

LEMMA NoneConnecting ==
    ASSUME NEW c, c \in Clients, c.pending = NoneOf
    PROVE  ~Connecting(c)
  BY DEF Connecting, NoneOf, Clients

LEMMA NoneOfTyped == NoneOf \in [Ids -> {0} \cup Procs]
  BY DEF NoneOf

LEMMA FailPendingFacts ==
    ASSUME NEW c, Settled(c)
    PROVE  Cleared(c, FailPending(c)) /\ (~Connecting(c) => FailPending(c).phase = c.phase)
<1>. DEFINE d == [c EXCEPT !.initialized = FALSE, !.pending = NoneOf]
<1>1. c \in Clients /\ Base(c)
  BY DEF Settled, Base
<1>2. d \in Clients
  BY <1>1, NoneOfTyped DEF Clients
<1>3. /\ d.proc = c.proc /\ d.servers = c.servers /\ d.nextId = c.nextId /\ d.pending = NoneOf
      /\ d.phase = c.phase /\ d.initialized = FALSE /\ d.terminating = c.terminating
      /\ d.reconnectCount = c.reconnectCount /\ d.initId = c.initId
  BY <1>1 DEF Clients
<1>4. FailPending(c) = IF Connecting(c) THEN FailStart(d) ELSE d
  BY DEF FailPending
<1>. HIDE DEF d
<1>5. Base(d) /\ Off(d)
  <2>1. \A n \in Ids : d.pending[n] = 0
    BY <1>3 DEF NoneOf
  <2>. QED
    BY <1>1, <1>2, <1>3, <2>1, NoneConnecting DEF Base, Off
<1>6. CASE Connecting(c)
  <2>1. d.phase # "new"
    BY <1>3, <1>6 DEF Settled
  <2>. QED
    BY <1>3, <1>4, <1>5, <1>6, <2>1, FailStartFacts DEF Cleared, SameRequests
<1>7. CASE ~Connecting(c)
  <2>1. Settled(d)
    BY <1>3, <1>5, <1>7 DEF Settled, Off
  <2>. QED
    BY <1>3, <1>4, <1>5, <1>7, <2>1 DEF Cleared
<1>. QED
  BY <1>6, <1>7

LEMMA InvalidateFacts ==
    ASSUME NEW c, Settled(c)
    PROVE  Cleared(c, InvalidateAndTerminate(c))
<1>. DEFINE e == [c EXCEPT !.unusable = TRUE, !.initialized = FALSE, !.pending = NoneOf]
            d == Terminate(e, TRUE)
<1>1. c \in Clients /\ Base(c)
  BY DEF Settled, Base
<1>2. e \in Clients
  BY <1>1, NoneOfTyped DEF Clients
<1>3. /\ e.proc = c.proc /\ e.servers = c.servers /\ e.nextId = c.nextId /\ e.pending = NoneOf
      /\ e.phase = c.phase /\ e.initialized = FALSE /\ e.terminating = c.terminating
      /\ e.reconnectCount = c.reconnectCount /\ e.initId = c.initId
  BY <1>1 DEF Clients
<1>4. InvalidateAndTerminate(c) = IF Connecting(c) THEN FailStart(d) ELSE d
  BY DEF InvalidateAndTerminate
<1>. HIDE DEF e
<1>5. Base(e) /\ Off(e)
  <2>1. \A n \in Ids : e.pending[n] = 0
    BY <1>3 DEF NoneOf
  <2>. QED
    BY <1>1, <1>2, <1>3, <2>1, NoneConnecting DEF Base, Off
<1>6. /\ Base(d) /\ SameRequests(e, d) /\ d.phase = e.phase /\ d.initialized = FALSE
      /\ d.reconnectCount = e.reconnectCount
  BY <1>3, <1>5, TerminateFacts
<1>. HIDE DEF d
<1>7. Off(d)
  BY <1>3, <1>5, <1>6 DEF Off, Connecting, SameRequests
<1>8. CASE Connecting(c)
  <2>1. d.phase # "new"
    BY <1>3, <1>6, <1>8 DEF Settled
  <2>. QED
    BY <1>3, <1>4, <1>6, <1>7, <1>8, <2>1, FailStartFacts DEF Cleared, SameRequests
<1>9. CASE ~Connecting(c)
  <2>1. Settled(d)
    BY <1>3, <1>6, <1>7, <1>9 DEF Settled, Off, SameRequests
  <2>. QED
    BY <1>3, <1>4, <1>6, <1>7, <1>9, <2>1 DEF Cleared, SameRequests
<1>. QED
  BY <1>8, <1>9

LEMMA ExitFacts ==
    ASSUME NEW c, Settled(c)
    PROVE  Cleared(c, OnExit(c))
<1>. DEFINE d == FailPending(c)
<1>1. Cleared(c, d) /\ (~Connecting(c) => d.phase = c.phase)
  BY FailPendingFacts
<1>2. OnExit(c) = IF c.initialized /\ ~Stopped(c) /\ c.phase = "idle"
                  THEN ScheduleReconnect(d) ELSE d
  BY DEF OnExit
<1>. HIDE DEF d
<1>3. CASE c.initialized /\ ~Stopped(c) /\ c.phase = "idle"
  <2>1. ~Connecting(c)
    BY <1>3 DEF Settled
  <2>2. d.phase = "idle" /\ Base(d) /\ Off(d)
    BY <1>1, <1>3, <2>1 DEF Cleared, Settled
  <2>3. LET x == ScheduleReconnect(d) IN Settled(x) /\ Off(x) /\ SameRequests(d, x)
    BY <2>2, ScheduleFacts
  <2>. QED
    BY <1>1, <1>2, <1>3, <2>3 DEF Cleared, SameRequests
<1>4. CASE ~(c.initialized /\ ~Stopped(c) /\ c.phase = "idle")
  BY <1>1, <1>2, <1>4
<1>. QED
  BY <1>3, <1>4

\* One request is settled; if it is the initialize request, the handshake goes on.
Settle(c, n) == [c EXCEPT !.pending[n] = 0]

LEMMA SettleFacts ==
    ASSUME NEW c, Settled(c), NEW n \in Ids
    PROVE  LET d == Settle(c, n)
           IN /\ Base(d)
              /\ d.proc = c.proc /\ d.servers = c.servers /\ d.nextId = c.nextId
              /\ d.pending = [c.pending EXCEPT ![n] = 0] /\ d.initId = c.initId
              /\ d.phase = c.phase /\ d.initialized = c.initialized
              /\ d.terminating = c.terminating /\ d.reconnectCount = c.reconnectCount
              /\ d.closed = c.closed /\ d.unusable = c.unusable
<1>. DEFINE pending == [c.pending EXCEPT ![n] = 0]
<1>1. c \in Clients /\ Base(c) /\ c.pending \in [Ids -> {0} \cup Procs]
  BY DEF Settled, Base, Clients
<1>2. pending \in [Ids -> {0} \cup Procs] /\ \A k \in Ids : pending[k] # 0 => c.pending[k] # 0
  BY <1>1
<1>3. Settle(c, n) = [c EXCEPT !.pending = pending]
  BY <1>1 DEF Settle, Clients
<1>. HIDE DEF pending
<1>4. Settle(c, n) \in Clients
  BY <1>1, <1>2, <1>3 DEF Clients
<1>5. LET d == Settle(c, n)
      IN /\ d.proc = c.proc /\ d.servers = c.servers /\ d.nextId = c.nextId
         /\ d.pending = pending /\ d.initId = c.initId
         /\ d.phase = c.phase /\ d.initialized = c.initialized
         /\ d.terminating = c.terminating /\ d.reconnectCount = c.reconnectCount
         /\ d.closed = c.closed /\ d.unusable = c.unusable
  BY <1>1, <1>3 DEF Clients
<1>6. Base(Settle(c, n))
  BY <1>1, <1>2, <1>4, <1>5 DEF Base
<1>. QED
  BY <1>5, <1>6 DEF pending

LEMMA AnswerFacts ==
    ASSUME NEW c, Settled(c), NEW n \in Ids, ~(Connecting(c) /\ n = c.initId)
    PROVE  Settled(Settle(c, n)) /\ (Off(c) => Off(Settle(c, n)))
<1>. DEFINE d == Settle(c, n)
<1>1. /\ Base(d)
      /\ d.proc = c.proc /\ d.servers = c.servers /\ d.nextId = c.nextId
      /\ d.pending = [c.pending EXCEPT ![n] = 0] /\ d.initId = c.initId
      /\ d.phase = c.phase /\ d.initialized = c.initialized
      /\ d.terminating = c.terminating /\ d.reconnectCount = c.reconnectCount
      /\ d.closed = c.closed /\ d.unusable = c.unusable
  BY SettleFacts
<1>. HIDE DEF d
<1>2. c.pending \in [Ids -> {0} \cup Procs] /\ c.initId \in {0} \cup Ids
  BY DEF Settled, Base, Clients
<1>3. Connecting(d) <=> Connecting(c)
  BY <1>1, <1>2 DEF Connecting
<1>. QED
  BY <1>1, <1>3 DEF Settled, Off, Stopped, d

LEMMA HandshakeFacts ==
    ASSUME NEW c, Settled(c), Connecting(c), NEW valid \in BOOLEAN
    PROVE  LET d == Handshake(Settle(c, c.initId), valid)
           IN /\ Settled(d) /\ d.proc = c.proc /\ d.servers = c.servers /\ d.nextId = c.nextId
              /\ d.pending = [c.pending EXCEPT ![c.initId] = 0]
<1>. DEFINE e == Settle(c, c.initId)
<1>1. c.initId \in Ids /\ c.phase \in {"starting", "restarting"} /\ ~c.initialized
      /\ c.pending \in [Ids -> {0} \cup Procs]
  BY DEF Settled, Base, Clients, Connecting
<1>2. /\ Base(e)
      /\ e.proc = c.proc /\ e.servers = c.servers /\ e.nextId = c.nextId
      /\ e.pending = [c.pending EXCEPT ![c.initId] = 0] /\ e.initId = c.initId
      /\ e.phase = c.phase /\ e.initialized = c.initialized
      /\ e.terminating = c.terminating /\ e.reconnectCount = c.reconnectCount
      /\ e.closed = c.closed /\ e.unusable = c.unusable
  BY <1>1, SettleFacts
<1>. HIDE DEF e
<1>3. ~Connecting(e)
  BY <1>1, <1>2 DEF Connecting
<1>4. CASE valid /\ e.proc # 0
  <2>. DEFINE d == [e EXCEPT !.initialized = TRUE, !.phase = "idle"]
  <2>1. d \in Clients
    BY <1>2 DEF Base, Clients, Phases
  <2>2. /\ SameRequests(e, d) /\ d.phase = "idle" /\ d.initialized = TRUE
        /\ d.terminating = e.terminating /\ d.reconnectCount = e.reconnectCount
        /\ d.closed = e.closed /\ d.unusable = e.unusable
    BY <1>2 DEF Base, Clients, SameRequests
  <2>3. Handshake(e, valid) = d
    BY <1>4 DEF Handshake
  <2>. HIDE DEF d
  <2>4. Base(d)
    BY <1>2, <2>1, <2>2 DEF Base, SameRequests
  <2>5. ~Connecting(d)
    BY <1>3, <2>2 DEF Connecting, SameRequests
  <2>6. ~Stopped(d) => d.terminating = 0 /\ d.proc = d.servers /\ d.proc # 0
    BY <1>2, <1>4, <2>2 DEF Settled, Off, Stopped, SameRequests
  <2>7. Settled(d)
    BY <2>2, <2>4, <2>5, <2>6 DEF Settled
  <2>. QED
    BY <1>2, <2>2, <2>3, <2>7 DEF SameRequests, e
<1>5. CASE ~(valid /\ e.proc # 0)
  <2>1. Handshake(e, valid) = FailStart(e)
    BY <1>5 DEF Handshake
  <2>2. Off(e) /\ e.phase # "new"
    BY <1>1, <1>2, <1>3 DEF Off
  <2>3. LET x == FailStart(e) IN Settled(x) /\ SameRequests(e, x)
    BY <1>2, <2>2, FailStartFacts
  <2>. QED
    BY <1>2, <2>1, <2>3 DEF SameRequests, e
<1>. QED
  BY <1>4, <1>5

LEMMA HandshakeStopped ==
    ASSUME NEW c, Settled(c), Connecting(c), Stopped(c), NEW valid \in BOOLEAN
    PROVE  LET d == Handshake(Settle(c, c.initId), valid) IN Off(d) \/ Stopped(d)
<1>. DEFINE e == Settle(c, c.initId)
<1>1. c.initId \in Ids /\ c.phase \in {"starting", "restarting"} /\ ~c.initialized
      /\ c.pending \in [Ids -> {0} \cup Procs]
  BY DEF Settled, Base, Clients, Connecting
<1>2. /\ Base(e) /\ e.pending = [c.pending EXCEPT ![c.initId] = 0] /\ e.initId = c.initId
      /\ e.phase = c.phase /\ e.initialized = c.initialized
      /\ e.closed = c.closed /\ e.unusable = c.unusable
  BY <1>1, SettleFacts
<1>. HIDE DEF e
<1>3. CASE valid /\ e.proc # 0
  <2>1. Handshake(e, valid) = [e EXCEPT !.initialized = TRUE, !.phase = "idle"]
    BY <1>3 DEF Handshake
  <2>2. Stopped([e EXCEPT !.initialized = TRUE, !.phase = "idle"])
    BY <1>2 DEF Base, Clients, Stopped
  <2>. QED
    BY <2>1, <2>2 DEF e
<1>4. CASE ~(valid /\ e.proc # 0)
  <2>1. Handshake(e, valid) = FailStart(e)
    BY <1>4 DEF Handshake
  <2>2. Off(e) /\ e.phase # "new"
    BY <1>1, <1>2 DEF Off, Connecting
  <2>. QED
    BY <1>2, <2>1, <2>2, FailStartFacts DEF e
<1>. QED
  BY <1>3, <1>4

\* A new server and its initialize request, under the next number and the next id.
LEMMA StartFacts ==
    ASSUME NEW c, Base(c), c.terminating = 0, c.proc = 0, ~c.initialized,
           c.servers <= c.reconnectCount, NEW phase \in {"starting", "restarting"}
    PROVE  LET d == DoStart(c, phase)
           IN /\ Settled(d) /\ c.nextId \in Ids /\ c.servers + 1 \in Procs
              /\ d.proc = c.servers + 1 /\ d.servers = c.servers + 1
              /\ d.nextId = c.nextId + 1
              /\ d.pending = [c.pending EXCEPT ![c.nextId] = c.servers + 1]
<1>. DEFINE k == c.servers + 1
            n == c.nextId
            next == c.nextId + 1
            pending == [c.pending EXCEPT ![n] = k]
            d == DoStart(c, phase)
<1>1. /\ c \in Clients /\ c.servers \in Nat /\ c.reconnectCount \in 0..MaxReconnects
      /\ c.nextId \in Nat /\ c.nextId >= 1 /\ c.pending \in [Ids -> {0} \cup Procs]
  BY DEF Base, Clients, Procs
<1>2. k \in Procs /\ n \in Ids /\ n <= 1 + c.servers + MaxCalls
  BY <1>1 DEF Base, Procs, Ids
<1>3. next \in 1..(2 + MaxReconnects + MaxCalls) /\ next <= 1 + k + MaxCalls /\ n < next
  BY <1>1, <1>2 DEF Ids
<1>4. pending \in [Ids -> {0} \cup Procs] /\ pending[n] = k /\ k # 0
      /\ \A x \in Ids : pending[x] # 0 => x < next
  <2>1. \A x \in Ids : c.pending[x] # 0 => x < n
    BY DEF Base
  <2>2. \A x \in Ids : x < n => x < next
    BY <1>1 DEF Ids
  <2>3. k # 0
    BY <1>1
  <2>. HIDE DEF k, n, next
  <2>. QED
    BY <1>1, <1>2, <1>3, <2>1, <2>2, <2>3
<1>5. d = [c EXCEPT !.pending = pending, !.nextId = next, !.phase = phase, !.servers = k,
                    !.proc = k, !.initId = n]
  BY <1>1 DEF DoStart, Request, Clients
<1>6. k <= c.reconnectCount + 1
  BY <1>1
<1>. HIDE DEF k, n, next, pending
<1>7. d \in Clients
  BY <1>1, <1>2, <1>3, <1>4, <1>5 DEF Clients, Phases
<1>8. /\ d.proc = k /\ d.servers = k /\ d.nextId = next /\ d.pending = pending /\ d.initId = n
      /\ d.phase = phase /\ d.initialized = c.initialized /\ d.terminating = c.terminating
      /\ d.reconnectCount = c.reconnectCount
  BY <1>1, <1>5 DEF Clients
<1>. HIDE DEF d
<1>9. Base(d)
  BY <1>3, <1>4, <1>6, <1>7, <1>8 DEF Base
<1>10. Connecting(d)
  <2>1. n # 0
    BY <1>2 DEF Ids
  <2>. QED
    BY <1>4, <1>8, <2>1 DEF Connecting
<1>11. Settled(d)
  BY <1>4, <1>8, <1>9, <1>10 DEF Settled
<1>. QED
  BY <1>2, <1>8, <1>11 DEF d, k, n, next, pending

-----------------------------------------------------------------------------
(* The client and the world outside                                        *)

World ==
    /\ OneServerGroup
    /\ \A k \in Procs : k > client.servers => group[k] = "none" /\ k \notin reported
    /\ ~Off(client) /\ ~Stopped(client) =>
          client.proc \notin reported /\ group[client.proc] \in {"up", "gone"}

\* A request in a server's hands, or its answer, is the one the client may still wait for.
Messages ==
    /\ \A n \in Ids : held[n] # 0 =>
          n < client.nextId /\ client.pending[n] \in {0, held[n]}
    /\ \A m \in answers : m.id < client.nextId /\ client.pending[m.id] \in {0, m.from}

ClientInv == ClientTypeOK /\ Settled(client) /\ World /\ Messages

LEMMA ClientInitial ==
    ASSUME ClientInit
    PROVE  ClientInv
<1>1. client \in Clients
  BY NoneOfTyped DEF ClientInit, Clients, Phases
<1>2. ClientTypeOK
  BY <1>1, NoneOfTyped DEF ClientInit, ClientTypeOK
<1>3. Settled(client)
  <2>1. \A n \in Ids : client.pending[n] = 0
    BY DEF ClientInit, NoneOf
  <2>2. ~Connecting(client)
    BY DEF ClientInit, Connecting
  <2>3. Base(client)
    BY <1>1, <2>1 DEF Base, ClientInit
  <2>. QED
    BY <2>2, <2>3 DEF Settled, Off, ClientInit
<1>4. World
  BY DEF World, OneServerGroup, ClientInit, Off, Connecting
<1>5. Messages
  BY DEF Messages, ClientInit, NoneOf
<1>. QED
  BY <1>2, <1>3, <1>4, <1>5 DEF ClientInv

\* The client settles or drops requests, and is not connected where it was not.
LEMMA WorldKept ==
    ASSUME ClientInv, Settled(client'),
           client'.proc = client.proc, client'.servers = client.servers,
           client'.nextId = client.nextId,
           \A n \in Ids : client'.pending[n] \in {0, client.pending[n]},
           Off(client') \/ Stopped(client') \/ (~Off(client) /\ ~Stopped(client)),
           UNCHANGED <<group, reported, held>>, answers' \subseteq answers
    PROVE  ClientInv'
<1>1. ClientTypeOK'
  <2>1. client' \in Clients
    BY DEF Settled, Base
  <2>. QED
    BY <2>1 DEF ClientInv, ClientTypeOK
<1>2. World'
  BY DEF ClientInv, World, OneServerGroup
<1>3. Messages'
  <2>1. ASSUME NEW n \in Ids, held[n] # 0
        PROVE  n < client'.nextId /\ client'.pending[n] \in {0, held[n]}
    BY <2>1 DEF ClientInv, Messages
  <2>2. ASSUME NEW m \in answers'
        PROVE  m.id < client'.nextId /\ client'.pending[m.id] \in {0, m.from}
    <3>1. m \in answers /\ m.id \in Ids
      BY <2>2 DEF ClientInv, ClientTypeOK
    <3>. QED
      BY <3>1 DEF ClientInv, Messages
  <2>. QED
    BY <2>1, <2>2 DEF Messages
<1>. QED
  BY <1>1, <1>2, <1>3 DEF ClientInv

LEMMA WorldCleared ==
    ASSUME ClientInv, Cleared(client, client'),
           UNCHANGED <<group, held, answers>>,
           reported' = reported \/ \E k \in Procs : /\ reported' = reported \cup {k}
                                                    /\ group[k] \in {"gone", "drained"}
    PROVE  ClientInv'
<1>1. \A n \in Ids : client'.pending[n] = 0
  BY DEF Cleared, NoneOf
<1>2. ClientTypeOK'
  <2>1. client' \in Clients
    BY DEF Cleared, Settled, Base
  <2>. QED
    BY <2>1 DEF ClientInv, ClientTypeOK
<1>3. World'
  <2>1. \A k \in Procs : k > client.servers => group[k] = "none" /\ k \notin reported
    BY DEF ClientInv, World
  <2>2. \A k \in Procs : k > client'.servers => group'[k] = "none" /\ k \notin reported'
    BY <2>1 DEF Cleared
  <2>. QED
    BY <2>2 DEF ClientInv, World, OneServerGroup, Cleared
<1>4. Messages'
  <2>1. \A m \in answers : m.id \in Ids
    BY DEF ClientInv, ClientTypeOK
  <2>. QED
    BY <1>1, <2>1 DEF ClientInv, Messages, Cleared
<1>5. Settled(client)'
  BY DEF Cleared
<1>. QED
  BY <1>2, <1>3, <1>4, <1>5 DEF ClientInv

\* A new server, when no group runs: the next one, with the next id for its request.
LEMMA WorldLaunch ==
    ASSUME ClientInv, NEW c, NEW phase \in {"starting", "restarting"}, Launch(c, phase),
           Base(c), c.terminating = 0, c.proc = 0, ~c.initialized, c.servers <= c.reconnectCount,
           c.servers = client.servers, c.nextId = client.nextId, c.pending = client.pending,
           \A k \in Procs : group[k] \notin {"up", "gone"}
    PROVE  ClientInv'
<1>. DEFINE k == c.servers + 1
            n == c.nextId
<1>1. /\ client' = DoStart(c, phase) /\ group' = [group EXCEPT ![k] = "up"]
      /\ held' = [held EXCEPT ![n] = k] /\ UNCHANGED <<reported, answers>>
  BY DEF Launch
<1>2. /\ Settled(client') /\ n \in Ids /\ k \in Procs
      /\ client'.proc = k /\ client'.servers = k /\ client'.nextId = n + 1
      /\ client'.pending = [client.pending EXCEPT ![n] = k]
  BY <1>1, StartFacts
<1>3. /\ client.pending \in [Ids -> {0} \cup Procs] /\ group \in [Procs -> {"none", "up", "gone", "drained"}]
      /\ held \in [Ids -> {0} \cup Procs] /\ \A m \in answers : m.id \in Ids /\ m.from \in Procs
  BY DEF ClientInv, ClientTypeOK, Clients
<1>4. ClientTypeOK'
  <2>1. client' \in Clients
    BY <1>2 DEF Settled, Base
  <2>2. group' \in [Procs -> {"none", "up", "gone", "drained"}] /\ held' \in [Ids -> {0} \cup Procs]
    BY <1>1, <1>2, <1>3
  <2>. QED
    BY <1>1, <2>1, <2>2 DEF ClientInv, ClientTypeOK
<1>5. World'
  <2>1. group'[k] = "up" /\ \A x \in Procs : x # k => group'[x] = group[x]
    BY <1>1, <1>2, <1>3
  <2>2. k > client.servers /\ \A x \in Procs : x > k => x > client.servers /\ x # k
    BY <1>2 DEF Procs, Base, Clients
  <2>3. k \notin reported
    BY <1>2, <2>2 DEF ClientInv, World
  <2>4. \A x \in Procs : x > client'.servers => group'[x] = "none" /\ x \notin reported'
    BY <1>1, <1>2, <2>1, <2>2 DEF ClientInv, World
  <2>5. OneServerGroup'
    BY <1>2, <2>1 DEF OneServerGroup
  <2>. QED
    BY <1>1, <1>2, <2>1, <2>3, <2>4, <2>5 DEF World
<1>6. Messages'
  <2>1. n \in Nat /\ Ids \subseteq Nat
    BY <1>2 DEF Ids
  <2>2. ASSUME NEW x \in Ids, held'[x] # 0
        PROVE  x < client'.nextId /\ client'.pending[x] \in {0, held'[x]}
    <3>1. CASE x = n
      BY <1>1, <1>2, <1>3, <2>1, <3>1
    <3>2. CASE x # n
      <4>1. held[x] # 0 /\ held'[x] = held[x] /\ client'.pending[x] = client.pending[x]
        BY <1>1, <1>2, <1>3, <2>2, <3>2
      <4>2. x < n /\ client.pending[x] \in {0, held[x]}
        BY <4>1 DEF ClientInv, Messages
      <4>. QED
        BY <1>2, <2>1, <4>1, <4>2
    <3>. QED
      BY <3>1, <3>2
  <2>3. ASSUME NEW m \in answers
        PROVE  m.id < client'.nextId /\ client'.pending[m.id] \in {0, m.from}
    <3>1. m.id < n /\ client.pending[m.id] \in {0, m.from} /\ m.id \in Ids
      BY <1>3 DEF ClientInv, Messages
    <3>1a. \A i \in Nat : i < n => i # n /\ i < n + 1
      BY <2>1
    <3>2. m.id # n /\ m.id < n + 1
      BY <2>1, <3>1, <3>1a
    <3>3. client'.pending[m.id] = client.pending[m.id]
      BY <1>2, <1>3, <3>1, <3>2
    <3>. QED
      BY <1>2, <3>1, <3>2, <3>3
  <2>. QED
    BY <1>1, <2>2, <2>3 DEF Messages
<1>. QED
  BY <1>2, <1>4, <1>5, <1>6 DEF ClientInv

-----------------------------------------------------------------------------
(* The actions                                                             *)

LEMMA StartKeeps ==
    ASSUME ClientInv, Start
    PROVE  ClientInv'
<1>. DEFINE c == [client EXCEPT !.home = TRUE]
<1>1. client \in Clients /\ Base(client) /\ Settled(client) /\ client.phase = "new"
      /\ client.proc = 0 /\ Launch(c, "starting")
  BY DEF ClientInv, Settled, Base, Start
<1>2. c \in Clients
  BY <1>1 DEF Clients
<1>3. /\ SameRequests(client, c) /\ c.initialized = client.initialized
      /\ c.terminating = client.terminating /\ c.reconnectCount = client.reconnectCount
  BY <1>1 DEF Clients, SameRequests
<1>. HIDE DEF c
<1>4. Base(c) /\ c.terminating = 0 /\ c.proc = 0
  BY <1>1, <1>2, <1>3 DEF Base, SameRequests
<1>5. ~c.initialized /\ c.servers <= c.reconnectCount
  BY <1>1, <1>3 DEF Settled, SameRequests
<1>6. \A k \in Procs : group[k] \notin {"up", "gone"}
  <2>1. \A k \in Procs : k # 0
    BY DEF Procs
  <2>. QED
    BY <1>1, <2>1 DEF ClientInv, World, OneServerGroup
<1>. QED
  BY <1>1, <1>3, <1>4, <1>5, <1>6, WorldLaunch DEF SameRequests

LEMMA CloseKeeps ==
    ASSUME ClientInv, Close
    PROVE  ClientInv'
<1>. DEFINE c == [client EXCEPT !.closed = TRUE]
            d == Terminate(c, TRUE)
<1>1. client \in Clients /\ Base(client) /\ Settled(client) /\ client' = d
      /\ UNCHANGED <<group, reported, held, answers>>
  BY DEF ClientInv, Settled, Base, Close, Only
<1>2. c \in Clients
  BY <1>1 DEF Clients
<1>3. /\ SameRequests(client, c) /\ c.initialized = client.initialized /\ c.phase = client.phase
      /\ c.terminating = client.terminating /\ c.reconnectCount = client.reconnectCount
      /\ c.closed = TRUE
  BY <1>1 DEF Clients, SameRequests
<1>. HIDE DEF c
<1>4. Base(c)
  BY <1>1, <1>2, <1>3 DEF Base, SameRequests
<1>5. /\ Base(d) /\ SameRequests(c, d) /\ d.phase = c.phase /\ d.initialized = c.initialized
      /\ d.closed = c.closed /\ d.reconnectCount = c.reconnectCount
  BY <1>4, TerminateFacts
<1>. HIDE DEF d
<1>6. Settled(d) /\ Stopped(d)
  <2>1. Connecting(d) <=> Connecting(client)
    BY <1>3, <1>5 DEF Connecting, SameRequests
  <2>. QED
    BY <1>1, <1>3, <1>5, <2>1 DEF Settled, Stopped, SameRequests
<1>7. \A n \in Ids : client'.pending[n] \in {0, client.pending[n]}
  BY <1>1, <1>3, <1>5 DEF SameRequests
<1>. QED
  BY <1>1, <1>3, <1>5, <1>6, <1>7, WorldKept DEF SameRequests

LEMMA CallToolKeeps ==
    ASSUME ClientInv, CallTool
    PROVE  ClientInv'
<1>. DEFINE n == client.nextId
            next == client.nextId + 1
            pending == [client.pending EXCEPT ![n] = client.proc]
<1>1. /\ client \in Clients /\ Base(client) /\ Settled(client)
      /\ IsConnected(client) /\ client.nextId - 1 - client.servers < MaxCalls
      /\ held' = [held EXCEPT ![n] = client.proc] /\ UNCHANGED <<group, reported, answers>>
  BY DEF ClientInv, Settled, Base, CallTool
<1>2. /\ client' = [client EXCEPT !.pending = pending, !.nextId = next]
  BY <1>1 DEF CallTool, Request, Clients
<1>3. /\ client.servers \in 0..(1 + MaxReconnects) /\ n \in Nat /\ n >= 1
      /\ client.pending \in [Ids -> {0} \cup Procs] /\ client.proc \in Procs
      /\ client.initId # n
      /\ \A x \in Ids : client.pending[x] # 0 => x < n
  <2>1. /\ client.servers \in {0} \cup Procs /\ client.proc \in {0} \cup Procs
        /\ client.initId \in {0} \cup Ids /\ n \in 1..(2 + MaxReconnects + MaxCalls)
        /\ client.pending \in [Ids -> {0} \cup Procs]
    BY <1>1 DEF Clients
  <2>2. client.proc # 0
    BY <1>1 DEF IsConnected
  <2>3. client.initId < n /\ \A x \in Ids : client.pending[x] # 0 => x < n
    BY <1>1 DEF Base
  <2>4. client.initId # n
    BY <2>1, <2>3 DEF Ids
  <2>5. client.servers \in 0..(1 + MaxReconnects) /\ n \in Nat /\ n >= 1
    BY <2>1 DEF Procs
  <2>. QED
    BY <2>1, <2>2, <2>3, <2>4, <2>5
<1>4. /\ n \in Ids /\ next \in 1..(2 + MaxReconnects + MaxCalls)
      /\ next <= 1 + client.servers + MaxCalls /\ n < next /\ \A x \in Ids : x < n => x < next
  <2>1. n - 1 - client.servers < MaxCalls
    BY <1>1
  <2>2. n <= 1 + MaxReconnects + MaxCalls /\ n + 1 <= 1 + client.servers + MaxCalls
    BY <1>3, <2>1
  <2>. QED
    BY <1>3, <2>2 DEF Ids
<1>5. /\ pending \in [Ids -> {0} \cup Procs] /\ pending[n] = client.proc
      /\ \A x \in Ids : x # n => pending[x] = client.pending[x]
  BY <1>3, <1>4
<1>. HIDE DEF n, next, pending
<1>6. client' \in Clients
  BY <1>1, <1>2, <1>4, <1>5 DEF Clients
<1>7. /\ client'.proc = client.proc /\ client'.servers = client.servers /\ client'.nextId = next
      /\ client'.pending = pending /\ client'.initId = client.initId
      /\ client'.phase = client.phase /\ client'.initialized = client.initialized
      /\ client'.terminating = client.terminating
      /\ client'.reconnectCount = client.reconnectCount
      /\ client'.closed = client.closed /\ client'.unusable = client.unusable
  BY <1>1, <1>2 DEF Clients
<1>8. Base(client')
  <2>1. \A x \in Ids : pending[x] # 0 => x < next
    BY <1>3, <1>4, <1>5
  <2>2. client.initId < next
    <3>1. client.initId < n /\ client.initId \in Nat
      BY <1>1 DEF Base, Clients, Ids, n
    <3>. QED
      BY <1>3, <1>4, <3>1 DEF next, n
  <2>. QED
    BY <1>1, <1>4, <1>6, <1>7, <2>1, <2>2 DEF Base
<1>9. Connecting(client') <=> Connecting(client)
  <2>1. client.initId \in {0} \cup Ids
    BY <1>1 DEF Clients
  <2>. QED
    BY <1>3, <1>5, <1>7, <2>1 DEF Connecting
<1>10. Settled(client') /\ (Off(client') <=> Off(client)) /\ (Stopped(client') <=> Stopped(client))
  BY <1>1, <1>7, <1>8, <1>9 DEF Settled, Off, Stopped
<1>11. ClientTypeOK'
  <2>1. held' \in [Ids -> {0} \cup Procs]
    BY <1>1, <1>3, <1>4 DEF ClientInv, ClientTypeOK
  <2>. QED
    BY <1>1, <1>6, <2>1 DEF ClientInv, ClientTypeOK
<1>12. World'
  BY <1>1, <1>7, <1>10 DEF ClientInv, World, OneServerGroup
<1>13. Messages'
  <2>1. \A m \in answers : m.id \in Ids
    BY DEF ClientInv, ClientTypeOK
  <2>2. \A x \in Ids : x # n => held'[x] = held[x]
    BY <1>1, <1>4 DEF ClientInv, ClientTypeOK
  <2>3. held'[n] = client.proc
    BY <1>1, <1>4 DEF ClientInv, ClientTypeOK
  <2>4. ASSUME NEW x \in Ids, held'[x] # 0
        PROVE  x < client'.nextId /\ client'.pending[x] \in {0, held'[x]}
    <3>1. CASE x = n
      BY <1>4, <1>5, <1>7, <2>3, <3>1
    <3>2. CASE x # n
      <4>1. x < n /\ client.pending[x] \in {0, held[x]}
        BY <2>2, <2>4, <3>2 DEF ClientInv, Messages, n
      <4>. QED
        BY <1>4, <1>5, <1>7, <2>2, <3>2, <4>1
    <3>. QED
      BY <3>1, <3>2
  <2>5. ASSUME NEW m \in answers
        PROVE  m.id < client'.nextId /\ client'.pending[m.id] \in {0, m.from}
    <3>1. m.id < n /\ client.pending[m.id] \in {0, m.from} /\ m.id \in Ids
      BY <2>1 DEF ClientInv, Messages, n
    <3>2. m.id # n
      BY <1>3, <3>1 DEF Ids
    <3>. QED
      BY <1>4, <1>5, <1>7, <3>1, <3>2
  <2>. QED
    BY <1>1, <2>4, <2>5 DEF Messages
<1>. QED
  BY <1>10, <1>11, <1>12, <1>13 DEF ClientInv

LEMMA FailureKeeps ==
    ASSUME ClientInv,
           FailTransport \/ (\E n \in Ids : RequestTimeout(n)) \/ \E k \in Procs : ExitReported(k)
    PROVE  ClientInv'
<1>1. Settled(client)
  BY DEF ClientInv
<1>2. CASE FailTransport \/ \E n \in Ids : RequestTimeout(n)
  <2>1. client' = InvalidateAndTerminate(client) /\ UNCHANGED <<group, reported, held, answers>>
    BY <1>2 DEF FailTransport, RequestTimeout, Only
  <2>. QED
    BY <1>1, <2>1, InvalidateFacts, WorldCleared
<1>3. ASSUME NEW k \in Procs, ExitReported(k)
      PROVE  ClientInv'
  <2>1. /\ client' = OnExit(client) /\ UNCHANGED <<group, held, answers>>
        /\ reported' = reported \cup {k} /\ group[k] \in {"gone", "drained"}
    BY <1>3 DEF ExitReported
  <2>. QED
    BY <1>1, <2>1, ExitFacts, WorldCleared
<1>. QED
  BY <1>2, <1>3

LEMMA ConsumeKeeps ==
    ASSUME ClientInv, NEW m \in answers, ConsumeAnswer(m)
    PROVE  /\ ClientInv'
           /\ \A n \in Ids : client.pending[n] # 0 /\ client'.pending[n] = 0 =>
                 m.id = n /\ m.from = client.pending[n]
<1>. DEFINE c == Settle(client, m.id)
<1>1. /\ m.id \in Ids /\ Settled(client) /\ answers' \subseteq answers
      /\ UNCHANGED <<group, reported, held>> /\ client.pending \in [Ids -> {0} \cup Procs]
  BY DEF ClientInv, ClientTypeOK, ConsumeAnswer, Clients
<1>2. client.pending[m.id] \in {0, m.from}
  BY DEF ClientInv, Messages
<1>3. CASE client' = client
  BY <1>1, <1>3, WorldKept
<1>4. CASE client.pending[m.id] # 0 /\ client' # client
  <2>1. IF Connecting(client) /\ m.id = client.initId
        THEN \E valid \in BOOLEAN : client' = Handshake(c, valid)
        ELSE client' = c
    BY <1>4 DEF ConsumeAnswer, Settle
  <2>2. /\ Settled(client') /\ client'.proc = client.proc /\ client'.servers = client.servers
        /\ client'.nextId = client.nextId
        /\ client'.pending = [client.pending EXCEPT ![m.id] = 0]
        /\ Off(client') \/ ~Off(client)
    <3>1. CASE Connecting(client) /\ m.id = client.initId
      BY <1>1, <2>1, <3>1, HandshakeFacts DEF Off
    <3>2. CASE ~(Connecting(client) /\ m.id = client.initId)
      BY <1>1, <2>1, <3>2, AnswerFacts, SettleFacts
    <3>. QED
      BY <3>1, <3>2
  <2>3. Off(client') \/ Stopped(client') \/ (~Off(client) /\ ~Stopped(client))
    <3>1. CASE Connecting(client) /\ m.id = client.initId
      <4>1. PICK valid \in BOOLEAN : client' = Handshake(c, valid)
        BY <2>1, <3>1
      <4>2. CASE Stopped(client)
        BY <1>1, <3>1, <4>1, <4>2, HandshakeStopped
      <4>3. CASE ~Stopped(client)
        BY <3>1, <4>3 DEF Off
      <4>. QED
        BY <4>2, <4>3
    <3>2. CASE ~(Connecting(client) /\ m.id = client.initId)
      <4>1. Stopped(client') <=> Stopped(client)
        <5>1. client' = c /\ c.closed = client.closed /\ c.unusable = client.unusable
          BY <1>1, <2>1, <3>2, SettleFacts
        <5>. HIDE DEF c
        <5>. QED
          BY <5>1 DEF Stopped
      <4>. QED
        BY <2>2, <4>1
    <3>. QED
      BY <3>1, <3>2
  <2>4. \A n \in Ids : client'.pending[n] = IF n = m.id THEN 0 ELSE client.pending[n]
    BY <1>1, <2>2
  <2>5. ClientInv'
    BY <1>1, <2>2, <2>3, <2>4, WorldKept
  <2>. QED
    BY <1>2, <2>4, <2>5
<1>. QED
  BY <1>3, <1>4 DEF ConsumeAnswer

LEMMA TimerKeeps ==
    ASSUME ClientInv, TimerFires
    PROVE  ClientInv'
<1>. DEFINE e == [client EXCEPT !.phase = "draining"]
            c == Terminate(e, FALSE)
            x == [client EXCEPT !.phase = "idle"]
<1>1. /\ client \in Clients /\ Base(client) /\ Settled(client) /\ client.phase = "delay"
      /\ client.servers <= client.reconnectCount /\ Off(client)
  BY DEF ClientInv, Settled, Base, Off, TimerFires
<1>2. e \in Clients /\ x \in Clients
  BY <1>1 DEF Clients, Phases
<1>3. /\ SameRequests(client, e) /\ e.phase = "draining" /\ e.initialized = client.initialized
      /\ e.terminating = client.terminating /\ e.reconnectCount = client.reconnectCount
      /\ e.closed = client.closed /\ e.unusable = client.unusable
  BY <1>1 DEF Clients, SameRequests
<1>4. /\ SameRequests(client, x) /\ x.phase = "idle" /\ x.initialized = client.initialized
      /\ x.terminating = client.terminating /\ x.reconnectCount = client.reconnectCount
  BY <1>1 DEF Clients, SameRequests
<1>5. \/ client.closed /\ Only(x)
      \/ c.terminating # 0 /\ Only(c)
      \/ c.terminating = 0 /\ Launch(c, "restarting")
  BY DEF TimerFires
<1>. HIDE DEF e, x
<1>6. Base(e) /\ Off(e)
  BY <1>1, <1>2, <1>3 DEF Base, Off, Connecting, SameRequests
<1>7. Settled(x) /\ Off(x)
  <2>1. Base(x)
    BY <1>1, <1>2, <1>4 DEF Base, SameRequests
  <2>2. Off(x)
    BY <1>1, <1>4 DEF Off, Connecting, SameRequests
  <2>. QED
    BY <1>4, <2>1, <2>2 DEF Settled, Off
<1>8. /\ Base(c) /\ SameRequests(e, c) /\ c.phase = "draining" /\ c.initialized = e.initialized
      /\ c.reconnectCount = e.reconnectCount
      /\ c.terminating = IF e.terminating # 0 THEN e.terminating ELSE e.proc
  BY <1>3, <1>6, TerminateFacts
<1>. HIDE DEF c
<1>9. Off(c) /\ Settled(c)
  <2>1. Off(c)
    BY <1>6, <1>8 DEF Off, Connecting, SameRequests
  <2>. QED
    BY <1>1, <1>3, <1>8, <2>1 DEF Settled, Off, SameRequests
<1>10. CASE Only(x)
  <2>1. \A n \in Ids : client'.pending[n] \in {0, client.pending[n]}
    BY <1>4, <1>10 DEF Only, SameRequests
  <2>. QED
    BY <1>4, <1>7, <1>10, <2>1, WorldKept DEF Only, SameRequests
<1>11. CASE Only(c)
  <2>1. \A n \in Ids : client'.pending[n] \in {0, client.pending[n]}
    BY <1>3, <1>8, <1>11 DEF Only, SameRequests
  <2>. QED
    BY <1>3, <1>8, <1>9, <1>11, <2>1, WorldKept DEF Only, SameRequests
<1>12. CASE c.terminating = 0 /\ Launch(c, "restarting")
  <2>1. e.terminating \in {0, e.proc}
    BY <1>6 DEF Base
  <2>2. c.proc = 0
    BY <1>8, <1>12, <2>1 DEF SameRequests
  <2>3. \A k \in Procs : group[k] \notin {"up", "gone"}
    <3>1. client.proc = 0 /\ \A k \in Procs : k # 0
      BY <1>3, <1>8, <2>2 DEF SameRequests, Procs
    <3>. QED
      BY <3>1 DEF ClientInv, World, OneServerGroup
  <2>. QED
    BY <1>1, <1>3, <1>8, <1>9, <1>12, <2>2, <2>3, WorldLaunch DEF SameRequests, Off
<1>. QED
  BY <1>5, <1>10, <1>11, <1>12

LEMMA TerminationKeeps ==
    ASSUME ClientInv, TerminationEnds
    PROVE  ClientInv'
<1>. DEFINE k == client.terminating
            home == client.home /\ ~client.cleanup
            c == [client EXCEPT !.proc = IF @ = k THEN 0 ELSE @, !.initialized = FALSE,
                                !.terminating = 0, !.cleanup = FALSE,
                                !.home = @ /\ ~client.cleanup]
            x == [c EXCEPT !.phase = "idle"]
<1>1. /\ client \in Clients /\ Base(client) /\ Settled(client) /\ k # 0 /\ group[k] = "drained"
      /\ k = client.proc
  BY DEF ClientInv, Settled, Base, TerminationEnds
<1>2. \/ c.phase = "draining" /\ Only(x)
      \/ c.phase = "draining" /\ ~Stopped(c) /\ Launch(c, "restarting")
      \/ c.phase = "failing" /\ Only(AfterFailing(c))
      \/ c.phase \notin {"draining", "failing"} /\ Only(c)
  BY DEF TerminationEnds
<1>3. c = [client EXCEPT !.proc = 0, !.initialized = FALSE, !.terminating = 0,
                         !.cleanup = FALSE, !.home = home]
  BY <1>1 DEF Clients
<1>4. home \in BOOLEAN
  BY <1>1 DEF Clients
<1>. HIDE DEF c, home
<1>5. c \in Clients
  BY <1>1, <1>3, <1>4 DEF Clients
<1>6. /\ c.proc = 0 /\ c.initialized = FALSE /\ c.terminating = 0
      /\ c.servers = client.servers /\ c.nextId = client.nextId /\ c.initId = client.initId
      /\ c.pending = client.pending /\ c.phase = client.phase
      /\ c.reconnectCount = client.reconnectCount
      /\ c.closed = client.closed /\ c.unusable = client.unusable
  BY <1>1, <1>3 DEF Clients
<1>7. Base(c)
  BY <1>1, <1>5, <1>6 DEF Base
<1>8. Connecting(c) <=> Connecting(client)
  BY <1>6 DEF Connecting
<1>9. Settled(c)
  <2>1. Connecting(client) => Stopped(client)
    BY <1>1 DEF Settled, Off
  <2>2. ~Off(c) => Stopped(c)
    BY <1>6, <1>8, <2>1 DEF Off, Stopped
  <2>. QED
    BY <1>1, <1>6, <1>7, <1>8, <2>2 DEF Settled
<1>10. Off(c) \/ Stopped(c)
  BY <1>6, <1>9 DEF Settled
<1>11. \A j \in Procs : group[j] \notin {"up", "gone"}
  <2>1. ASSUME NEW j \in Procs, group[j] \in {"up", "gone"} PROVE FALSE
    <3>1. j = client.proc
      BY <2>1 DEF ClientInv, World, OneServerGroup
    <3>. QED
      BY <1>1, <2>1, <3>1
  <2>. QED
    BY <2>1
<1>12. ASSUME NEW d, Settled(d), Off(d) \/ Stopped(d), SameRequests(c, d), Only(d)
       PROVE  ClientInv'
  <2>1. /\ client' = d /\ UNCHANGED <<group, reported, held, answers>>
    BY <1>12 DEF Only
  <2>2. /\ d.servers = client.servers /\ d.nextId = client.nextId /\ d.pending = client.pending
    BY <1>6, <1>12 DEF SameRequests
  <2>3. ClientTypeOK'
    <3>1. d \in Clients
      BY <1>12 DEF Settled, Base
    <3>. QED
      BY <2>1, <3>1 DEF ClientInv, ClientTypeOK
  <2>4. World'
    <3>1. \A j \in Procs : j > client.servers => group[j] = "none" /\ j \notin reported
      BY DEF ClientInv, World
    <3>2. OneServerGroup'
      BY <1>11, <2>1 DEF OneServerGroup
    <3>3. Off(client') \/ Stopped(client')
      BY <1>12, <2>1
    <3>. QED
      BY <2>1, <2>2, <3>1, <3>2, <3>3 DEF World
  <2>5. Messages'
    BY <2>1, <2>2 DEF ClientInv, Messages
  <2>. QED
    BY <1>12, <2>1, <2>3, <2>4, <2>5 DEF ClientInv
<1>13. CASE c.phase = "draining" /\ Only(x)
  <2>1. x \in Clients
    BY <1>5 DEF Clients, Phases
  <2>2. /\ SameRequests(c, x) /\ x.phase = "idle" /\ x.initialized = c.initialized
        /\ x.terminating = c.terminating /\ x.reconnectCount = c.reconnectCount
    BY <1>5 DEF Clients, SameRequests
  <2>3. Off(c)
    BY <1>6, <1>9, <1>13 DEF Settled, Off
  <2>. HIDE DEF x
  <2>4. Base(x) /\ Off(x)
    BY <1>7, <2>1, <2>2, <2>3 DEF Base, Off, Connecting, SameRequests
  <2>5. Settled(x)
    BY <2>2, <2>4 DEF Settled, Off
  <2>. QED
    BY <1>12, <1>13, <2>2, <2>4, <2>5
<1>14. CASE c.phase = "draining" /\ ~Stopped(c) /\ Launch(c, "restarting")
  <2>1. c.servers <= c.reconnectCount
    BY <1>9, <1>14 DEF Settled
  <2>. QED
    BY <1>6, <1>7, <1>11, <1>14, <2>1, WorldLaunch
<1>15. CASE c.phase = "failing" /\ Only(AfterFailing(c))
  <2>1. Off(c)
    BY <1>6, <1>9, <1>15 DEF Settled, Off
  <2>2. LET d == AfterFailing(c) IN Settled(d) /\ Off(d) /\ SameRequests(c, d)
    BY <1>7, <1>15, <2>1, AfterFailingFacts
  <2>. QED
    BY <1>12, <1>15, <2>2
<1>16. CASE Only(c)
  BY <1>9, <1>10, <1>12, <1>16 DEF SameRequests
<1>. QED
  BY <1>2, <1>13, <1>14, <1>15, <1>16

LEMMA ServersKeep ==
    ASSUME ClientInv,
           Signal \/ (\E k \in Procs : ServerExits(k)) \/ \E n \in Ids : ServerAnswers(n)
    PROVE  ClientInv'
<1>1. CASE Signal
  <2>. DEFINE k == client.terminating
  <2>1. /\ k # 0 /\ k \in Procs /\ group' = [group EXCEPT ![k] = "drained"]
        /\ group[k] \in {"up", "gone"}
        /\ UNCHANGED <<client, reported, held, answers>>
    BY <1>1 DEF Signal, ClientInv, Settled, Base, Clients
  <2>2. k = client.proc
    BY <2>1 DEF ClientInv, Settled, Base
  <2>. HIDE DEF k
  <2>3. ClientTypeOK'
    BY <2>1 DEF ClientInv, ClientTypeOK
  <2>4. \A j \in Procs : j # k => group'[j] = group[j]
    BY <2>1 DEF ClientInv, ClientTypeOK
  <2>5. group'[k] = "drained"
    BY <2>1 DEF ClientInv, ClientTypeOK
  <2>6. Off(client) \/ Stopped(client)
    BY <2>1 DEF ClientInv, Settled, k
  <2>7. World'
    <3>1. OneServerGroup'
      BY <2>1, <2>4, <2>5 DEF ClientInv, World, OneServerGroup
    <3>2. ~(k > client.servers)
      BY <2>1 DEF ClientInv, World
    <3>3. \A j \in Procs : j > client'.servers => group'[j] = "none" /\ j \notin reported'
      BY <2>1, <2>4, <3>2 DEF ClientInv, World
    <3>. QED
      BY <2>1, <2>6, <3>1, <3>3 DEF World
  <2>8. Messages' /\ Settled(client)'
    BY <2>1 DEF ClientInv, Messages
  <2>. QED
    BY <2>3, <2>7, <2>8 DEF ClientInv
<1>2. ASSUME NEW k \in Procs, ServerExits(k)
      PROVE  ClientInv'
  <2>1. group' = [group EXCEPT ![k] = "gone"] /\ group[k] = "up"
        /\ UNCHANGED <<client, reported, held, answers>>
    BY <1>2 DEF ServerExits
  <2>2. ClientTypeOK'
    BY <2>1 DEF ClientInv, ClientTypeOK
  <2>3. group'[k] = "gone" /\ \A j \in Procs : j # k => group'[j] = group[j]
    BY <2>1 DEF ClientInv, ClientTypeOK
  <2>4. World'
    <3>1. OneServerGroup'
      BY <2>1, <2>3 DEF ClientInv, World, OneServerGroup
    <3>2. ~(k > client.servers)
      BY <2>1 DEF ClientInv, World
    <3>3. \A j \in Procs : j > client'.servers => group'[j] = "none" /\ j \notin reported'
      BY <2>1, <2>3, <3>2 DEF ClientInv, World
    <3>4. ~Off(client) /\ ~Stopped(client) =>
             client.proc \notin reported /\ group'[client.proc] \in {"up", "gone"}
      <4>1. ~Off(client) /\ ~Stopped(client) => client.proc \in Procs
        BY DEF ClientInv, Settled, Base, Clients
      <4>. QED
        BY <2>3, <4>1 DEF ClientInv, World
    <3>. QED
      BY <2>1, <3>1, <3>3, <3>4 DEF World
  <2>5. Messages' /\ Settled(client)'
    BY <2>1 DEF ClientInv, Messages
  <2>. QED
    BY <2>2, <2>4, <2>5 DEF ClientInv
<1>3. ASSUME NEW n \in Ids, ServerAnswers(n)
      PROVE  ClientInv'
  <2>. DEFINE answer == [from |-> held[n], id |-> n]
  <2>1. held[n] # 0 /\ answers' = answers \cup {answer} /\ held' = [held EXCEPT ![n] = 0]
        /\ UNCHANGED <<client, group, reported>> /\ held \in [Ids -> {0} \cup Procs]
    BY <1>3 DEF ServerAnswers, ClientInv, ClientTypeOK
  <2>2. answer \in [from : Procs, id : Ids]
    BY <2>1
  <2>3. answer.id = n /\ answer.from = held[n]
    OBVIOUS
  <2>. HIDE DEF answer
  <2>4. ClientTypeOK'
    BY <2>1, <2>2 DEF ClientInv, ClientTypeOK
  <2>5. World' /\ Settled(client)'
    BY <2>1 DEF ClientInv, World, OneServerGroup
  <2>6. Messages'
    <3>1. \A j \in Ids : held'[j] # 0 => j < client.nextId /\ client.pending[j] \in {0, held'[j]}
      BY <2>1 DEF ClientInv, Messages
    <3>2. answer.id < client.nextId /\ client.pending[answer.id] \in {0, answer.from}
      BY <2>1, <2>3 DEF ClientInv, Messages
    <3>. QED
      BY <2>1, <3>1, <3>2 DEF ClientInv, Messages
  <2>. QED
    BY <2>4, <2>5, <2>6 DEF ClientInv
<1>. QED
  BY <1>1, <1>2, <1>3

LEMMA ClientInvStep ==
    ASSUME ClientInv, [ClientNext]_clientVars
    PROVE  ClientInv'
<1>1. CASE UNCHANGED clientVars
  <2>1. UNCHANGED <<client, group, reported, held, answers>>
    BY <1>1 DEF clientVars
  <2>. QED
    BY <2>1 DEF ClientInv, ClientTypeOK, World, OneServerGroup, Messages
<1>2. CASE ClientNext
  BY <1>2, StartKeeps, CloseKeeps, CallToolKeeps, FailureKeeps, ConsumeKeeps, TimerKeeps,
     TerminationKeeps, ServersKeep DEF ClientNext
<1>. QED
  BY <1>1, <1>2

LEMMA ClientInvHolds == ClientSpec => []ClientInv
<1>1. ClientInit => ClientInv
  BY ClientInitial
<1>2. ClientInv /\ [ClientNext]_clientVars => ClientInv'
  BY ClientInvStep
<1>. QED
  BY <1>1, <1>2, PTL DEF ClientSpec

-----------------------------------------------------------------------------
(* The session a caller has: what is awaited when, and stopping for good.  *)

\* While no server is being started nothing is awaited of one, and while one is, nothing
\* but its answer to the first request.
Outstanding(c) ==
    /\ c.phase \in {"new", "delay", "draining", "failing"} => \A n \in Ids : c.pending[n] = 0
    /\ c.phase \in {"starting", "restarting"} =>
          \A n \in Ids : c.pending[n] # 0 => n = c.initId /\ c.pending[n] = c.servers

LEMMA TerminateStops ==
    ASSUME NEW c \in Clients, NEW clean \in BOOLEAN
    PROVE  /\ Terminate(c, clean) \in Clients
           /\ Stopped(Terminate(c, clean)) <=> Stopped(c)
<1>1. CASE c.terminating # 0
  <2>1. Terminate(c, clean) = [c EXCEPT !.cleanup = @ \/ clean]
    BY <1>1 DEF Terminate
  <2>. QED
    BY <2>1 DEF Clients, Stopped
<1>2. CASE c.terminating = 0 /\ c.proc = 0
  <2>1. Terminate(c, clean) = [c EXCEPT !.home = @ /\ ~clean]
    BY <1>2 DEF Terminate
  <2>. QED
    BY <2>1 DEF Clients, Stopped
<1>3. CASE c.terminating = 0 /\ c.proc # 0
  <2>1. Terminate(c, clean) = [c EXCEPT !.terminating = c.proc, !.cleanup = clean]
    BY <1>3 DEF Terminate
  <2>. QED
    BY <2>1 DEF Clients, Stopped
<1>. QED
  BY <1>1, <1>2, <1>3

LEMMA GivenUp ==
    ASSUME NEW c \in Clients
    PROVE  /\ Terminate([c EXCEPT !.unusable = TRUE, !.phase = "idle"], TRUE) \in Clients
           /\ Stopped(Terminate([c EXCEPT !.unusable = TRUE, !.phase = "idle"], TRUE))
<1>. DEFINE e == [c EXCEPT !.unusable = TRUE, !.phase = "idle"]
<1>1. e \in Clients
  BY DEF Clients, Phases
<1>2. Stopped(e)
  BY DEF Clients, Stopped
<1>. HIDE DEF e
<1>3. Terminate(e, TRUE) \in Clients /\ Stopped(Terminate(e, TRUE))
  BY <1>1, <1>2, TerminateStops
<1>. QED
  BY <1>3 DEF e

LEMMA AfterFailingStops ==
    ASSUME NEW c \in Clients, Stopped(c)
    PROVE  Stopped(AfterFailing(c))
<1>1. AfterFailing(c) = [c EXCEPT !.phase = "idle"]
  BY DEF AfterFailing
<1>. QED
  BY <1>1 DEF Clients, Stopped

LEMMA FailStartStops ==
    ASSUME NEW c \in Clients, Stopped(c)
    PROVE  Stopped(FailStart(c))
<1>1. CASE c.phase = "starting"
  BY <1>1, GivenUp DEF FailStart
<1>2. CASE c.phase # "starting"
  <2>. DEFINE e == [c EXCEPT !.phase = "failing"]
              d == Terminate(e, FALSE)
  <2>1. e \in Clients /\ Stopped(e)
    BY DEF Clients, Phases, Stopped
  <2>2. FailStart(c) = IF d.terminating = 0 THEN AfterFailing(d) ELSE d
    BY <1>2 DEF FailStart
  <2>. HIDE DEF e
  <2>3. d \in Clients /\ Stopped(d)
    BY <2>1, TerminateStops
  <2>. HIDE DEF d
  <2>. QED
    BY <2>2, <2>3, AfterFailingStops
<1>. QED
  BY <1>1, <1>2

LEMMA InvalidateStops ==
    ASSUME NEW c \in Clients
    PROVE  Stopped(InvalidateAndTerminate(c))
<1>. DEFINE e == [c EXCEPT !.unusable = TRUE, !.initialized = FALSE, !.pending = NoneOf]
            d == Terminate(e, TRUE)
<1>1. e \in Clients
  BY NoneOfTyped DEF Clients
<1>2. Stopped(e)
  BY DEF Clients, Stopped
<1>3. InvalidateAndTerminate(c) = IF Connecting(c) THEN FailStart(d) ELSE d
  BY DEF InvalidateAndTerminate
<1>. HIDE DEF e
<1>4. d \in Clients /\ Stopped(d)
  BY <1>1, <1>2, TerminateStops
<1>. HIDE DEF d
<1>. QED
  BY <1>3, <1>4, FailStartStops

LEMMA ExitStops ==
    ASSUME NEW c \in Clients, Stopped(c)
    PROVE  Stopped(OnExit(c))
<1>. DEFINE d == [c EXCEPT !.initialized = FALSE, !.pending = NoneOf]
<1>1. d \in Clients
  BY NoneOfTyped DEF Clients
<1>2. Stopped(d)
  BY DEF Clients, Stopped
<1>3. OnExit(c) = IF Connecting(c) THEN FailStart(d) ELSE d
  BY DEF OnExit, FailPending
<1>. HIDE DEF d
<1>. QED
  BY <1>1, <1>2, <1>3, FailStartStops

LEMMA HandshakeStops ==
    ASSUME NEW c \in Clients, NEW valid \in BOOLEAN, Stopped(c)
    PROVE  Stopped(Handshake(c, valid))
<1>1. CASE valid /\ c.proc # 0
  <2>1. Handshake(c, valid) = [c EXCEPT !.initialized = TRUE, !.phase = "idle"]
    BY <1>1 DEF Handshake
  <2>. QED
    BY <2>1 DEF Clients, Stopped
<1>2. CASE ~(valid /\ c.proc # 0)
  BY <1>2, FailStartStops DEF Handshake
<1>. QED
  BY <1>1, <1>2

LEMMA NotConnected ==
    ASSUME NEW c, Off(c) \/ Stopped(c)
    PROVE  ~IsConnected(c)
BY DEF Off, IsConnected

\* The client moves between handlers without a request or a server: it is the same
\* session, or one that has stopped.
LEMMA MoveRefines ==
    ASSUME UNCHANGED <<group, held, answers>>,
           client'.servers = client.servers, client'.nextId = client.nextId,
           client'.pending = client.pending,
           Stopped(client) => Stopped(client'),
           Stopped(client') \/ (~IsConnected(client) /\ ~IsConnected(client'))
    PROVE  SS!Stop \/ UNCHANGED SS!vars
<1>1. UNCHANGED <<Alive, client.servers, client.nextId - 1, client.pending, held, answers>>
  BY DEF Alive
<1>2. CASE Stopped(client')
  <2>1. OpenServer' = 0
    BY <1>2 DEF OpenServer, IsConnected
  <2>. QED
    BY <1>1, <1>2, <2>1 DEF SS!Stop
<1>3. CASE ~Stopped(client')
  <2>1. OpenServer' = 0 /\ OpenServer = 0
    BY <1>3 DEF OpenServer
  <2>2. Stopped(client)' = Stopped(client)
    BY <1>3 DEF Stopped
  <2>. QED
    BY <1>1, <2>1, <2>2 DEF SS!vars
<1>. QED
  BY <1>2, <1>3

LEMMA StartFields ==
    ASSUME NEW c \in Clients, NEW phase
    PROVE  LET d == DoStart(c, phase)
           IN /\ d.phase = phase /\ d.initId = c.nextId /\ d.initialized = c.initialized
              /\ d.closed = c.closed /\ d.unusable = c.unusable
BY DEF DoStart, Request, Clients

LEMMA LaunchRefines ==
    ASSUME ClientInv, NEW c, NEW phase \in {"starting", "restarting"}, Launch(c, phase),
           Base(c), c.terminating = 0, c.proc = 0, ~c.initialized, c.servers <= c.reconnectCount,
           c.servers = client.servers, c.nextId = client.nextId, c.pending = client.pending,
           Stopped(c) <=> Stopped(client), ~Stopped(client), Off(client), \A n \in Ids : client.pending[n] = 0,
           \A k \in Procs : group[k] \notin {"up", "gone"}
    PROVE  SS!Launch /\ Outstanding(client')
<1>. DEFINE k == client.servers + 1
            n == client.nextId
<1>1. /\ client' = DoStart(c, phase) /\ group' = [group EXCEPT ![k] = "up"]
      /\ held' = [held EXCEPT ![n] = k] /\ UNCHANGED <<reported, answers>>
  BY DEF Launch
<1>2. /\ n \in Ids /\ k \in Procs
      /\ client'.servers = k /\ client'.nextId = n + 1
      /\ client'.pending = [client.pending EXCEPT ![n] = k]
  BY <1>1, StartFacts
<1>3. /\ c \in Clients /\ client.pending \in [Ids -> {0} \cup Procs]
      /\ group \in [Procs -> {"none", "up", "gone", "drained"}] /\ client.nextId \in Int
      /\ c.servers \in Int /\ c.reconnectCount \in 0..MaxReconnects
  BY DEF Base, ClientInv, ClientTypeOK, Clients, Procs
<1>4. /\ client'.phase = phase /\ client'.initId = n /\ ~client'.initialized
      /\ Stopped(client') <=> Stopped(client)
  BY <1>1, <1>3, StartFields DEF Stopped
<1>5. Outstanding(client')
  <2>1. \A x \in Ids : client'.pending[x] # 0 => x = n /\ client'.pending[x] = k
    BY <1>2, <1>3
  <2>. QED
    BY <1>2, <1>4, <2>1 DEF Outstanding
<1>6. Alive = {} /\ Alive' = {k}
  BY <1>1, <1>2, <1>3 DEF Alive
<1>7. OpenServer = 0 /\ OpenServer' = 0
  BY <1>4 DEF OpenServer, IsConnected, Off
<1>8. client.pending = SS!NoneAwaited
  <2>1. client.pending = [x \in Ids |-> 0]
    BY <1>3
  <2>. QED
    BY <2>1 DEF SS!NoneAwaited, SS!Requests, Ids
<1>9. client.servers <= MaxReconnects
  BY <1>3
<1>10. client.nextId - 1 + 1 = n /\ (n + 1) - 1 = client.nextId - 1 + 1
  BY <1>3
<1>11. Stopped(client)' = Stopped(client)
  BY <1>4 DEF Stopped
<1>. HIDE DEF k, n
<1>12. SS!Ask(k)
  BY <1>1, <1>2, <1>10 DEF SS!Ask
<1>. QED
  BY <1>1, <1>2, <1>5, <1>6, <1>7, <1>8, <1>9, <1>11, <1>12 DEF SS!Launch, k

LEMMA StartRefines ==
    ASSUME ClientInv, Outstanding(client), Start
    PROVE  SS!Launch /\ Outstanding(client')
<1>. DEFINE c == [client EXCEPT !.home = TRUE]
<1>1. client \in Clients /\ Base(client) /\ Settled(client) /\ client.phase = "new"
      /\ client.proc = 0 /\ Launch(c, "starting") /\ ~Stopped(client)
  BY DEF ClientInv, Settled, Base, Start
<1>2. c \in Clients
  BY <1>1 DEF Clients
<1>3. /\ SameRequests(client, c) /\ c.initialized = client.initialized
      /\ c.terminating = client.terminating /\ c.reconnectCount = client.reconnectCount
      /\ Stopped(c) <=> Stopped(client)
  BY <1>1 DEF Clients, SameRequests, Stopped
<1>. HIDE DEF c
<1>4. Base(c) /\ c.terminating = 0 /\ c.proc = 0
  BY <1>1, <1>2, <1>3 DEF Base, SameRequests
<1>5. ~c.initialized /\ c.servers <= c.reconnectCount /\ Off(client)
  BY <1>1, <1>3 DEF Settled, SameRequests, Off
<1>6. \A k \in Procs : group[k] \notin {"up", "gone"}
  <2>1. \A k \in Procs : k # 0
    BY DEF Procs
  <2>. QED
    BY <1>1, <2>1 DEF ClientInv, World, OneServerGroup
<1>7. \A n \in Ids : client.pending[n] = 0
  BY <1>1 DEF Outstanding
<1>. QED
  BY <1>1, <1>3, <1>4, <1>5, <1>6, <1>7, LaunchRefines DEF SameRequests

LEMMA CloseRefines ==
    ASSUME ClientInv, Outstanding(client), Close
    PROVE  (SS!Stop \/ UNCHANGED SS!vars) /\ Outstanding(client')
<1>. DEFINE c == [client EXCEPT !.closed = TRUE]
            d == Terminate(c, TRUE)
<1>1. client \in Clients /\ Base(client) /\ client' = d /\ UNCHANGED <<group, held, answers>>
  BY DEF ClientInv, Settled, Base, Close, Only
<1>2. c \in Clients
  BY <1>1 DEF Clients
<1>3. /\ SameRequests(client, c) /\ c.phase = client.phase
      /\ c.terminating = client.terminating /\ c.reconnectCount = client.reconnectCount
      /\ c.closed = TRUE
  BY <1>1 DEF Clients, SameRequests
<1>. HIDE DEF c
<1>4. Base(c)
  BY <1>1, <1>2, <1>3 DEF Base, SameRequests
<1>5. SameRequests(c, d) /\ d.phase = c.phase /\ d.closed = c.closed
  BY <1>4, TerminateFacts
<1>. HIDE DEF d
<1>6. Stopped(client')
  BY <1>1, <1>3, <1>5 DEF Stopped
<1>7. SS!Stop \/ UNCHANGED SS!vars
  BY <1>1, <1>3, <1>5, <1>6, MoveRefines DEF SameRequests
<1>8. Outstanding(client')
  BY <1>1, <1>3, <1>5 DEF Outstanding, SameRequests
<1>. QED
  BY <1>7, <1>8

LEMMA CallToolRefines ==
    ASSUME ClientInv, Outstanding(client), CallTool
    PROVE  SS!Call /\ Outstanding(client')
<1>. DEFINE n == client.nextId
            d == Request(client, client.proc)
<1>1. /\ client \in Clients /\ Settled(client) /\ IsConnected(client)
      /\ client.nextId - 1 - client.servers < MaxCalls
      /\ client' = d /\ held' = [held EXCEPT ![n] = client.proc]
      /\ UNCHANGED <<group, reported, answers>>
  BY DEF ClientInv, Settled, Base, CallTool
<1>2. /\ d.phase = client.phase /\ d.initialized = client.initialized /\ d.proc = client.proc
      /\ d.servers = client.servers /\ d.nextId = n + 1
      /\ d.pending = [client.pending EXCEPT ![n] = client.proc]
      /\ d.closed = client.closed /\ d.unusable = client.unusable
  BY <1>1 DEF Request, Clients
<1>3. client.nextId \in Int /\ client.phase = "idle" /\ client.proc # 0
  BY <1>1 DEF Clients, Settled, IsConnected
<1>. HIDE DEF d
<1>4. Stopped(client)' = Stopped(client) /\ OpenServer' = OpenServer /\ OpenServer = client.proc
  BY <1>1, <1>2 DEF Stopped, OpenServer, IsConnected
<1>5. client.nextId - 1 + 1 = n /\ (n + 1) - 1 = client.nextId - 1 + 1
  BY <1>3
<1>6. Outstanding(client')
  BY <1>1, <1>2, <1>3 DEF Outstanding
<1>. HIDE DEF n
<1>7. SS!Ask(OpenServer)
  BY <1>1, <1>2, <1>4, <1>5 DEF SS!Ask
<1>8. Alive' = Alive
  BY <1>1 DEF Alive
<1>. QED
  BY <1>1, <1>2, <1>3, <1>4, <1>6, <1>7, <1>8 DEF SS!Call

LEMMA FailureRefines ==
    ASSUME ClientInv,
           FailTransport \/ (\E n \in Ids : RequestTimeout(n)) \/ \E k \in Procs : ExitReported(k)
    PROVE  SS!Lose /\ Outstanding(client')
<1>1. /\ client \in Clients /\ Settled(client)
      /\ UNCHANGED <<group, held, answers>>
      /\ client' = InvalidateAndTerminate(client) \/ client' = OnExit(client)
  BY DEF ClientInv, ClientTypeOK, FailTransport, RequestTimeout, ExitReported, Only
<1>2. Cleared(client, client')
  BY <1>1, InvalidateFacts, ExitFacts
<1>3. Stopped(client) => Stopped(client')
  BY <1>1, InvalidateStops, ExitStops
<1>4. /\ client'.servers = client.servers /\ client'.nextId = client.nextId
      /\ client'.pending = NoneOf /\ ~IsConnected(client')
  BY <1>2, NotConnected DEF Cleared
<1>5. OpenServer' = 0
  BY <1>4 DEF OpenServer
<1>6. NoneOf = SS!NoneAwaited
  BY DEF NoneOf, SS!NoneAwaited, SS!Requests, Ids
<1>7. Stopped(client)' \in {Stopped(client), TRUE}
  <2>1. CASE Stopped(client')
    BY <2>1
  <2>2. CASE ~Stopped(client')
    BY <1>3, <2>2 DEF Stopped
  <2>. QED
    BY <2>1, <2>2
<1>8. Alive' = Alive
  BY <1>1 DEF Alive
<1>9. Outstanding(client')
  BY <1>4 DEF Outstanding, NoneOf
<1>. QED
  BY <1>1, <1>4, <1>5, <1>6, <1>7, <1>8, <1>9 DEF SS!Lose

LEMMA ConsumeRefines ==
    ASSUME ClientInv, Outstanding(client), NEW m \in answers, ConsumeAnswer(m)
    PROVE  (SS!Settle(m) \/ SS!Ignore(m)) /\ Outstanding(client')
<1>. DEFINE c == Settle(client, m.id)
<1>1. /\ m.id \in Ids /\ client \in Clients /\ Settled(client)
      /\ client.pending \in [Ids -> {0} \cup Procs]
      /\ answers' = answers \ {m} /\ UNCHANGED <<group, reported, held>>
      /\ client.pending[m.id] \in {0, m.from}
  BY DEF ClientInv, ClientTypeOK, ConsumeAnswer, Clients, Messages
<1>2. Alive' = Alive
  BY <1>1 DEF Alive
<1>3. CASE client.pending[m.id] = 0
  <2>1. client' = client
    BY <1>3 DEF ConsumeAnswer
  <2>2. OpenServer' = OpenServer
    BY <2>1 DEF OpenServer
  <2>. QED
    BY <1>1, <1>2, <1>3, <2>1, <2>2 DEF SS!Ignore
<1>4. CASE client.pending[m.id] # 0
  <2>1. IF Connecting(client) /\ m.id = client.initId
        THEN \E valid \in BOOLEAN : client' = Handshake(c, valid)
        ELSE client' = c
    BY <1>4 DEF ConsumeAnswer, Settle
  <2>2. client.pending[m.id] = m.from
    BY <1>1, <1>4
  <2>3. CASE ~(Connecting(client) /\ m.id = client.initId)
    <3>1. client' = c
      BY <2>1, <2>3
    <3>2. /\ client'.proc = client.proc /\ client'.servers = client.servers
          /\ client'.nextId = client.nextId
          /\ client'.pending = [client.pending EXCEPT ![m.id] = 0]
          /\ client'.initId = client.initId
          /\ client'.phase = client.phase /\ client'.initialized = client.initialized
          /\ client'.closed = client.closed /\ client'.unusable = client.unusable
      BY <1>1, <3>1, SettleFacts
    <3>. HIDE DEF c
    <3>3. Stopped(client)' = Stopped(client) /\ OpenServer' = OpenServer
      BY <3>2 DEF Stopped, OpenServer, IsConnected
    <3>4. Outstanding(client')
      BY <1>1, <3>2 DEF Outstanding
    <3>. QED
      BY <1>1, <1>2, <2>2, <3>2, <3>3, <3>4 DEF SS!Settle
  <2>4. CASE Connecting(client) /\ m.id = client.initId
    <3>1. PICK valid \in BOOLEAN : client' = Handshake(c, valid)
      BY <2>1, <2>4
    <3>2. /\ client'.proc = client.proc /\ client'.servers = client.servers
          /\ client'.nextId = client.nextId
          /\ client'.pending = [client.pending EXCEPT ![m.id] = 0]
          /\ client.phase \in {"starting", "restarting"} /\ ~client.initialized
      BY <1>1, <2>4, <3>1, HandshakeFacts DEF Settled
    <3>3. \A n \in Ids : client'.pending[n] = 0
      BY <1>1, <2>4, <3>2 DEF Outstanding
    <3>4. Outstanding(client')
      BY <3>3 DEF Outstanding
    <3>5. m.from = client.servers /\ OpenServer = 0
      BY <1>1, <1>4, <2>2, <3>2 DEF Outstanding, OpenServer, IsConnected
    <3>6. Stopped(client) => Stopped(client')
      <4>1. Base(c) /\ c.closed = client.closed /\ c.unusable = client.unusable
        BY <1>1, SettleFacts
      <4>. HIDE DEF c
      <4>2. c \in Clients /\ (Stopped(c) <=> Stopped(client))
        BY <4>1 DEF Base, Stopped
      <4>. QED
        BY <3>1, <4>2, HandshakeStops
    <3>. HIDE DEF c
    <3>7. CASE IsConnected(client')
      <4>1. ~Stopped(client') /\ ~Stopped(client)
        BY <3>6, <3>7 DEF IsConnected
      <4>2. client.proc = client.servers /\ client.proc # 0 /\ client.proc \in Procs
            /\ group[client.proc] \in {"up", "gone"}
        BY <1>1, <2>4, <4>1 DEF ClientInv, World, Settled, Off, Clients
      <4>3. OpenServer' = m.from /\ m.from \in Alive
        BY <3>2, <3>5, <3>7, <4>2 DEF OpenServer, Alive
      <4>4. client'.pending = SS!NoneAwaited
        <5>1. client'.pending = [n \in Ids |-> 0]
          BY <1>1, <3>2, <3>3
        <5>. QED
          BY <5>1 DEF SS!NoneAwaited, SS!Requests, Ids
      <4>5. Stopped(client)' = Stopped(client)
        BY <4>1 DEF Stopped
      <4>. QED
        BY <1>1, <1>2, <2>2, <3>2, <3>4, <3>5, <4>1, <4>3, <4>4, <4>5 DEF SS!Settle
    <3>8. CASE ~IsConnected(client')
      <4>1. OpenServer' = OpenServer
        BY <3>5, <3>8 DEF OpenServer
      <4>2. Stopped(client)' = Stopped(client) \/ Stopped(client)' = TRUE
        BY <3>6 DEF Stopped
      <4>. QED
        BY <1>1, <1>2, <2>2, <3>2, <3>4, <3>5, <4>1, <4>2 DEF SS!Settle
    <3>. QED
      BY <3>7, <3>8
  <2>. QED
    BY <2>3, <2>4
<1>. QED
  BY <1>3, <1>4

LEMMA TimerRefines ==
    ASSUME ClientInv, Outstanding(client), TimerFires
    PROVE  (SS!Launch \/ SS!Stop \/ UNCHANGED SS!vars) /\ Outstanding(client')
<1>. DEFINE e == [client EXCEPT !.phase = "draining"]
            c == Terminate(e, FALSE)
            x == [client EXCEPT !.phase = "idle"]
<1>1. /\ client \in Clients /\ Base(client) /\ Settled(client) /\ client.phase = "delay"
      /\ client.servers <= client.reconnectCount /\ Off(client)
      /\ \A n \in Ids : client.pending[n] = 0
  BY DEF ClientInv, Settled, Base, Off, TimerFires, Outstanding
<1>2. e \in Clients /\ x \in Clients
  BY <1>1 DEF Clients, Phases
<1>3. /\ SameRequests(client, e) /\ e.initialized = client.initialized
      /\ e.terminating = client.terminating /\ e.reconnectCount = client.reconnectCount
      /\ Stopped(e) <=> Stopped(client)
  BY <1>1 DEF Clients, SameRequests, Stopped
<1>4. SameRequests(client, x) /\ (Stopped(x) <=> Stopped(client)) /\ ~x.initialized
  BY <1>1 DEF Clients, SameRequests, Stopped, Off
<1>5. \/ client.closed /\ Only(x)
      \/ c.terminating # 0 /\ Only(c)
      \/ ~Stopped(client) /\ c.terminating = 0 /\ Launch(c, "restarting")
  BY DEF TimerFires
<1>. HIDE DEF e, x
<1>6. Base(e)
  BY <1>1, <1>2, <1>3 DEF Base, SameRequests
<1>7. /\ Base(c) /\ SameRequests(e, c) /\ c.initialized = e.initialized
      /\ c.reconnectCount = e.reconnectCount
      /\ c.terminating = IF e.terminating # 0 THEN e.terminating ELSE e.proc
      /\ Stopped(c) <=> Stopped(e)
  BY <1>2, <1>3, <1>6, TerminateFacts, TerminateStops
<1>. HIDE DEF c
<1>8. ASSUME NEW d, SameRequests(client, d), Stopped(d) <=> Stopped(client), ~d.initialized, Only(d)
      PROVE  (SS!Stop \/ UNCHANGED SS!vars) /\ Outstanding(client')
  <2>1. client' = d /\ UNCHANGED <<group, held, answers>>
    BY <1>8 DEF Only
  <2>2. ~IsConnected(client) /\ ~IsConnected(client')
    BY <1>1, <1>8, <2>1 DEF IsConnected, Off
  <2>3. Outstanding(client')
    BY <1>1, <1>8, <2>1 DEF Outstanding, SameRequests
  <2>. QED
    BY <1>8, <2>1, <2>2, <2>3, MoveRefines DEF SameRequests
<1>9. CASE Only(x)
  BY <1>4, <1>8, <1>9
<1>10. CASE Only(c)
  <2>1. SameRequests(client, c) /\ ~c.initialized
    BY <1>1, <1>3, <1>7 DEF SameRequests, Off
  <2>. QED
    BY <1>3, <1>7, <1>8, <1>10, <2>1
<1>11. CASE ~Stopped(client) /\ c.terminating = 0 /\ Launch(c, "restarting")
  <2>1. e.terminating \in {0, e.proc}
    BY <1>6 DEF Base
  <2>2. c.proc = 0
    BY <1>7, <1>11, <2>1 DEF SameRequests
  <2>3. \A k \in Procs : group[k] \notin {"up", "gone"}
    <3>1. client.proc = 0 /\ \A k \in Procs : k # 0
      BY <1>3, <1>7, <2>2 DEF SameRequests, Procs
    <3>. QED
      BY <3>1 DEF ClientInv, World, OneServerGroup
  <2>4. SameRequests(client, c) /\ ~c.initialized /\ c.servers <= c.reconnectCount
    BY <1>1, <1>3, <1>7 DEF SameRequests, Off
  <2>. QED
    BY <1>1, <1>3, <1>7, <1>11, <2>2, <2>3, <2>4, LaunchRefines DEF SameRequests
<1>. QED
  BY <1>5, <1>9, <1>10, <1>11

LEMMA TerminationRefines ==
    ASSUME ClientInv, Outstanding(client), TerminationEnds
    PROVE  (SS!Launch \/ SS!Stop \/ UNCHANGED SS!vars) /\ Outstanding(client')
<1>. DEFINE k == client.terminating
            home == client.home /\ ~client.cleanup
            c == [client EXCEPT !.proc = IF @ = k THEN 0 ELSE @, !.initialized = FALSE,
                                !.terminating = 0, !.cleanup = FALSE,
                                !.home = @ /\ ~client.cleanup]
            x == [c EXCEPT !.phase = "idle"]
<1>1. /\ client \in Clients /\ Base(client) /\ Settled(client) /\ k # 0 /\ group[k] = "drained"
      /\ k = client.proc
  BY DEF ClientInv, Settled, Base, TerminationEnds
<1>2. \/ c.phase = "draining" /\ Only(x)
      \/ c.phase = "draining" /\ ~Stopped(c) /\ Launch(c, "restarting")
      \/ c.phase = "failing" /\ Only(AfterFailing(c))
      \/ c.phase \notin {"draining", "failing"} /\ Only(c)
  BY DEF TerminationEnds
<1>3. c = [client EXCEPT !.proc = 0, !.initialized = FALSE, !.terminating = 0,
                         !.cleanup = FALSE, !.home = home]
  BY <1>1 DEF Clients
<1>4. home \in BOOLEAN
  BY <1>1 DEF Clients
<1>. HIDE DEF c, home
<1>5. c \in Clients
  BY <1>1, <1>3, <1>4 DEF Clients
<1>6. /\ c.proc = 0 /\ c.initialized = FALSE /\ c.terminating = 0
      /\ c.servers = client.servers /\ c.nextId = client.nextId /\ c.initId = client.initId
      /\ c.pending = client.pending /\ c.phase = client.phase
      /\ c.reconnectCount = client.reconnectCount
      /\ c.closed = client.closed /\ c.unusable = client.unusable
  BY <1>1, <1>3 DEF Clients
<1>7. Base(c) /\ (Stopped(c) <=> Stopped(client)) /\ (Connecting(c) <=> Connecting(client))
  BY <1>1, <1>5, <1>6 DEF Base, Stopped, Connecting
<1>8. ~IsConnected(client)
  BY <1>1 DEF Settled, Off, IsConnected
<1>9. \A j \in Procs : group[j] \notin {"up", "gone"}
  <2>1. ASSUME NEW j \in Procs, group[j] \in {"up", "gone"} PROVE FALSE
    <3>1. j = client.proc
      BY <2>1 DEF ClientInv, World, OneServerGroup
    <3>. QED
      BY <1>1, <2>1, <3>1
  <2>. QED
    BY <2>1
<1>10. ASSUME NEW d, Only(d), d.servers = c.servers, d.nextId = c.nextId,
              d.pending = c.pending, Stopped(c) => Stopped(d), ~IsConnected(d)
       PROVE  SS!Stop \/ UNCHANGED SS!vars
  <2>1. client' = d /\ UNCHANGED <<group, held, answers>>
    BY <1>10 DEF Only
  <2>. QED
    BY <1>6, <1>7, <1>8, <1>10, <2>1, MoveRefines
<1>11. CASE c.phase = "draining" /\ Only(x)
  <2>1. /\ SameRequests(c, x) /\ x.phase = "idle" /\ ~x.initialized
        /\ Stopped(x) <=> Stopped(c)
    BY <1>5, <1>6 DEF Clients, SameRequests, Stopped
  <2>. HIDE DEF x
  <2>2. Outstanding(x)
    BY <2>1 DEF Outstanding
  <2>. QED
    BY <1>10, <1>11, <2>1, <2>2 DEF SameRequests, IsConnected, Only
<1>12. CASE c.phase = "draining" /\ ~Stopped(c) /\ Launch(c, "restarting")
  <2>1. c.servers <= c.reconnectCount /\ Off(client)
    BY <1>1, <1>6, <1>12 DEF Settled, Off
  <2>2. \A n \in Ids : client.pending[n] = 0
    BY <1>6, <1>12 DEF Outstanding
  <2>3. c.servers = client.servers /\ c.nextId = client.nextId /\ c.pending = client.pending
    BY <1>6
  <2>4. ~Stopped(client)
    BY <1>7, <1>12
  <2>5. PICK e : e = c
    OBVIOUS
  <2>6. /\ Launch(e, "restarting") /\ Base(e)
        /\ e.servers = client.servers /\ e.nextId = client.nextId /\ e.pending = client.pending
        /\ e.terminating = 0 /\ e.proc = 0 /\ ~e.initialized
        /\ e.servers <= e.reconnectCount /\ (Stopped(e) <=> Stopped(client))
    BY <1>6, <1>7, <1>12, <2>1, <2>3, <2>5
  <2>. QED
    BY <1>9, <2>1, <2>2, <2>4, <2>6, LaunchRefines
<1>13. CASE c.phase = "failing" /\ Only(AfterFailing(c))
  <2>1. Off(c)
    BY <1>1, <1>6, <1>7, <1>13 DEF Settled, Off
  <2>2. LET d == AfterFailing(c) IN Settled(d) /\ Off(d) /\ SameRequests(c, d)
    BY <1>7, <1>13, <2>1, AfterFailingFacts
  <2>3. Stopped(c) => Stopped(AfterFailing(c))
    BY <1>5, AfterFailingStops
  <2>4. Outstanding(AfterFailing(c))
    <3>1. \A n \in Ids : AfterFailing(c).pending[n] = 0
      BY <1>6, <1>13, <2>2 DEF Outstanding, SameRequests
    <3>. QED
      BY <3>1 DEF Outstanding
  <2>. QED
    BY <1>10, <1>13, <2>2, <2>3, <2>4, NotConnected DEF SameRequests, Only
<1>14. CASE Only(c)
  <2>1. Outstanding(c)
    BY <1>6 DEF Outstanding
  <2>. QED
    BY <1>6, <1>10, <1>14, <2>1 DEF IsConnected, Only
<1>. QED
  BY <1>2, <1>11, <1>12, <1>13, <1>14

LEMMA ServersRefine ==
    ASSUME ClientInv,
           Signal \/ (\E k \in Procs : ServerExits(k)) \/ \E n \in Ids : ServerAnswers(n)
    PROVE  SS!Kill \/ (\E n \in SS!Requests : SS!Answer(n)) \/ UNCHANGED SS!vars
<1>1. group \in [Procs -> {"none", "up", "gone", "drained"}]
  BY DEF ClientInv, ClientTypeOK
<1>2. CASE Signal
  <2>. DEFINE k == client.terminating
  <2>1. /\ k # 0 /\ k \in Procs /\ k = client.proc /\ group' = [group EXCEPT ![k] = "drained"]
        /\ UNCHANGED <<client, reported, held, answers>> /\ ~IsConnected(client)
    BY <1>2 DEF Signal, ClientInv, Settled, Base, Clients, Off, IsConnected
  <2>2. Alive' = {}
    <3>1. ASSUME NEW j \in Procs, group'[j] \in {"up", "gone"} PROVE FALSE
      <4>1. j # k /\ group[j] \in {"up", "gone"}
        BY <1>1, <2>1, <3>1
      <4>. QED
        BY <2>1, <4>1 DEF ClientInv, World, OneServerGroup
    <3>. QED
      BY <3>1 DEF Alive
  <2>3. OpenServer = 0 /\ OpenServer' = OpenServer
    BY <2>1 DEF OpenServer
  <2>. QED
    BY <2>1, <2>2, <2>3 DEF SS!Kill
<1>3. ASSUME NEW k \in Procs, ServerExits(k) PROVE UNCHANGED SS!vars
  <2>1. group' = [group EXCEPT ![k] = "gone"] /\ group[k] = "up"
        /\ UNCHANGED <<client, reported, held, answers>>
    BY <1>3 DEF ServerExits
  <2>2. Alive' = Alive
    BY <1>1, <2>1 DEF Alive
  <2>. QED
    BY <2>1, <2>2 DEF SS!vars, OpenServer
<1>4. ASSUME NEW n \in Ids, ServerAnswers(n) PROVE \E x \in SS!Requests : SS!Answer(x)
  <2>1. /\ held[n] # 0 /\ group[held[n]] = "up" /\ held \in [Ids -> {0} \cup Procs]
        /\ answers' = answers \cup {[from |-> held[n], id |-> n]}
        /\ held' = [held EXCEPT ![n] = 0] /\ UNCHANGED <<client, group>>
    BY <1>4 DEF ServerAnswers, ClientInv, ClientTypeOK
  <2>2. held[n] \in Alive /\ Alive' = Alive /\ OpenServer' = OpenServer
    BY <2>1 DEF Alive, OpenServer
  <2>3. SS!Answer(n)
    BY <2>1, <2>2 DEF SS!Answer
  <2>4. n \in SS!Requests
    BY DEF SS!Requests, Ids
  <2>. QED
    BY <2>3, <2>4, Zenon
<1>. QED
  BY <1>2, <1>3, <1>4

LEMMA ClientStepRefines ==
    ASSUME ClientInv, Outstanding(client), ClientNext
    PROVE  (SS!Next \/ UNCHANGED SS!vars) /\ Outstanding(client')
<1>1. CASE Start
  BY <1>1, StartRefines, Zenon DEF SS!Next
<1>2. CASE Close
  BY <1>2, CloseRefines, Zenon DEF SS!Next
<1>3. CASE CallTool
  BY <1>3, CallToolRefines, Zenon DEF SS!Next
<1>4. CASE FailTransport \/ (\E n \in Ids : RequestTimeout(n)) \/ \E k \in Procs : ExitReported(k)
  BY <1>4, FailureRefines, Zenon DEF SS!Next
<1>5. ASSUME NEW m \in answers, ConsumeAnswer(m)
      PROVE  SS!Next /\ Outstanding(client')
  BY <1>5, ConsumeRefines, Zenon DEF SS!Next
<1>6. CASE TimerFires
  BY <1>6, TimerRefines, Zenon DEF SS!Next
<1>7. CASE TerminationEnds
  BY <1>7, TerminationRefines, Zenon DEF SS!Next
<1>8. CASE Signal \/ (\E k \in Procs : ServerExits(k)) \/ \E n \in Ids : ServerAnswers(n)
  <2>1. client' = client
    BY <1>8 DEF Signal, ServerExits, ServerAnswers
  <2>2. SS!Next \/ UNCHANGED SS!vars
    BY <1>8, ServersRefine, Zenon DEF SS!Next
  <2>. QED
    BY <2>1, <2>2
<1>. QED
  BY <1>1, <1>2, <1>3, <1>4, <1>5, <1>6, <1>7, <1>8 DEF ClientNext

-----------------------------------------------------------------------------
(* The theorems *)

\* Every variable of the client keeps its type: in particular there are never more
\* servers, and never more requests, than reconnects and calls account for.
THEOREM ClientTypeCorrect == ClientSpec => []ClientTypeOK
<1>1. ClientInv => ClientTypeOK
  BY DEF ClientInv
<1>. QED
  BY <1>1, ClientInvHolds, PTL

\* A client that says it is connected has finished the handshake with the only server
\* group there is, and no exit, termination or reconnect is pending for it.
THEOREM ConnectedToOnlyServerHolds == ClientSpec => []ConnectedToOnlyServer
<1>1. ASSUME ClientInv PROVE ConnectedToOnlyServer
  <2>1. OneServerGroup
    BY <1>1 DEF ClientInv, World
  <2>2. ConnectedIsReady
    BY <1>1 DEF ClientInv, Settled, World, Off, IsConnected, ConnectedIsReady
  <2>. QED
    BY <2>1, <2>2 DEF ConnectedToOnlyServer
<1>. QED
  BY <1>1, ClientInvHolds, PTL

\* An answer settles only the request that was sent to the server it comes from.
THEOREM AnswerReachesAskerHolds == ClientSpec => AnswerReachesAsker
<1>. DEFINE P == \A m \in answers, n \in Ids :
                    /\ answers' = answers \ {m}
                    /\ client.pending[n] # 0 /\ client'.pending[n] = 0
                    => m.id = n /\ m.from = client.pending[n]
<1>1. ASSUME ClientInv, [ClientNext]_clientVars PROVE [P]_clientVars
  <2>1. SUFFICES ASSUME NEW m \in answers, NEW n \in Ids, answers' = answers \ {m},
                        client.pending[n] # 0, client'.pending[n] = 0
                 PROVE  m.id = n /\ m.from = client.pending[n]
    OBVIOUS
  <2>2. PICK a \in answers : ConsumeAnswer(a)
    <3>1. ASSUME UNCHANGED answers PROVE FALSE
      BY <2>1, <3>1
    <3>2. ASSUME NEW j \in Ids, ServerAnswers(j) PROVE FALSE
      BY <2>1, <3>2 DEF ServerAnswers
    <3>. QED
      BY <1>1, <3>1, <3>2 DEF ClientNext, clientVars, Start, Close, CallTool, FailTransport,
         TimerFires, TerminationEnds, Signal, RequestTimeout, ServerExits, ExitReported,
         Launch, Only
  <2>3. a = m
    BY <2>1, <2>2 DEF ConsumeAnswer
  <2>. QED
    BY <1>1, <2>1, <2>2, <2>3, ConsumeKeeps
<1>. QED
  BY <1>1, ClientInvHolds, PTL DEF ClientSpec, AnswerReachesAsker

\* The client keeps a session: however exits, late answers, timeouts, failing pipes and
\* close() fall into a reconnect, its caller sees one server at a time, calls that go to a
\* server that has shaken hands, requests rejected before the next server is started, and
\* no server started after it has stopped.
THEOREM SessionRefinement == ClientSpec => ImplementsSession
<1>1. ClientInit => SS!Init /\ Outstanding(client)
  <2>. SUFFICES ASSUME ClientInit PROVE SS!Init /\ Outstanding(client)
    OBVIOUS
  <2>1. /\ client.servers = 0 /\ client.nextId = 1 /\ client.pending = NoneOf
        /\ client.phase = "new" /\ ~IsConnected(client) /\ ~Stopped(client)
        /\ held = NoneOf /\ answers = {}
    BY DEF ClientInit, IsConnected, Stopped
  <2>2. Alive = {} /\ OpenServer = 0
    BY <2>1 DEF ClientInit, Alive, OpenServer
  <2>3. NoneOf = SS!NoneAwaited /\ client.nextId - 1 = 0
    BY <2>1 DEF NoneOf, SS!NoneAwaited, SS!Requests, Ids
  <2>4. Stopped(client) = FALSE
    BY <2>1
  <2>5. Outstanding(client)
    BY <2>1 DEF Outstanding, NoneOf
  <2>. QED
    BY <2>1, <2>2, <2>3, <2>4, <2>5 DEF SS!Init
<1>2. ClientInv /\ Outstanding(client) /\ [ClientNext]_clientVars
        => [SS!Next]_(SS!vars) /\ Outstanding(client')
  <2>. SUFFICES ASSUME ClientInv, Outstanding(client), [ClientNext]_clientVars
                PROVE  (SS!Next \/ UNCHANGED SS!vars) /\ Outstanding(client')
    OBVIOUS
  <2>1. CASE UNCHANGED clientVars
    BY <2>1 DEF clientVars, SS!vars, Alive, OpenServer
  <2>. QED
    BY <2>1, ClientStepRefines
<1>3. Outstanding(client)' <=> Outstanding(client')
  OBVIOUS
<1>. QED
  BY <1>1, <1>2, <1>3, ClientInvHolds, PTL DEF ClientSpec, ImplementsSession, SS!Spec
=============================================================================
