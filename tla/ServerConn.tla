----------------------------- MODULE ServerConn -----------------------------
(***************************************************************************)
(* The runtime server's connections: the accept loop, the slots of         *)
(* Server.conns, one Connection.Run read loop and one heartbeat monitor    *)
(* per connection, the dispatch gate, and Shutdown with its WaitGroup.     *)
(*                                                                         *)
(* A connection's peer is any client: it dials, writes requests, reads and *)
(* closes.  HarnessConn replaces it with the harness's own manager.        *)
(*                                                                         *)
(* Time is the heartbeat monitor's ticker: a connection fails at the tick  *)
(* that finds MissedTicks earlier ones since the last ping.                *)
(***************************************************************************)
EXTENDS Naturals, Sequences, FiniteSets

CONSTANTS
    Conns,            \* accepted net.Conns, each used once
    MaxConnections,   \* ServerConfig.MaxConnections; 0 is no limit
    MissedTicks,      \* HeartbeatTimeout in monitor ticks
    MaxUnread,        \* frames a socket holds before its writer blocks
    MaxStarts         \* bound: how often the server process is started

ASSUME ServerConnAssumption ==
    /\ IsFiniteSet(Conns)
    /\ MaxConnections \in Nat
    /\ MissedTicks \in Nat
    /\ MaxUnread \in Nat \ {0}
    /\ MaxStarts \in Nat

VARIABLES
    process,     \* the server process and how far its Shutdown got
    starts,      \* how often it was started
    accepting,   \* the accept loop's goroutine exists
    wg,          \* Server.wg
    slots,       \* Server.conns
    stage,       \* per conn: where it is, with Connection.state once it runs
    open,        \* per conn: the server's end of the transport is open
    peerOpen,    \* per conn: the peer's end is open
    inbox,       \* per conn: frames written by the peer, not yet read
    outbox,      \* per conn: frames written by the server, not yet read
    serving,     \* per conn: the read loop is inside a slow handler
    age,         \* per conn: monitor ticks since lastPing
    catalogue    \* per conn: capabilities.register has filled the manager

serverVars == <<process, starts, accepting, wg, slots, stage, open, peerOpen,
                inbox, outbox, serving, age, catalogue>>

\* "register" carries the server's protocol version, "register_other" another
\* one.  A ping whose caller gave up is still a ping to the server; its answer
\* is then one nobody waits for.
Requests == {"register", "register_other", "ping", "ping_given_up", "call"}
Answers  == {"registered", "mismatch", "not_ready", "pong", "pong_unwanted"}

Running == {"registering", "ready", "failed"}
Stages  == {"new", "backlog", "accepted", "gone"} \cup Running

ServerTypeOK ==
    /\ process \in {"down", "running", "closing", "waiting", "clean", "late"}
    /\ starts \in 0..MaxStarts
    /\ accepting \in BOOLEAN
    /\ wg \in Nat
    /\ slots \in SUBSET Conns
    /\ stage \in [Conns -> Stages]
    /\ open \in [Conns -> BOOLEAN]
    /\ peerOpen \in [Conns -> BOOLEAN]
    /\ inbox \in [Conns -> Seq(Requests)]
    /\ outbox \in [Conns -> Seq(Answers)]
    /\ serving \in [Conns -> BOOLEAN]
    /\ age \in [Conns -> 0..MissedTicks]
    /\ catalogue \in [Conns -> BOOLEAN]

ServerInit ==
    /\ process = "down"
    /\ starts = 0
    /\ accepting = FALSE
    /\ wg = 0
    /\ slots = {}
    /\ stage = [c \in Conns |-> "new"]
    /\ open = [c \in Conns |-> FALSE]
    /\ peerOpen = [c \in Conns |-> FALSE]
    /\ inbox = [c \in Conns |-> <<>>]
    /\ outbox = [c \in Conns |-> <<>>]
    /\ serving = [c \in Conns |-> FALSE]
    /\ age = [c \in Conns |-> 0]
    /\ catalogue = [c \in Conns |-> FALSE]

-----------------------------------------------------------------------------
\* The peer.

\* net.Dial: the kernel completes it while the listener is bound.
Dial(c) ==
    /\ process = "running"
    /\ stage[c] = "new"
    /\ stage' = [stage EXCEPT ![c] = "backlog"]
    /\ open' = [open EXCEPT ![c] = TRUE]
    /\ peerOpen' = [peerOpen EXCEPT ![c] = TRUE]
    /\ UNCHANGED <<process, starts, accepting, wg, slots, inbox, outbox,
                   serving, age, catalogue>>

\* A frame written by the peer; a closed server end takes none, a full socket
\* none yet.
Write(c, m) ==
    /\ peerOpen[c] /\ open[c]
    /\ Len(inbox[c]) < MaxUnread
    /\ inbox' = [inbox EXCEPT ![c] = Append(@, m)]
    /\ UNCHANGED <<process, starts, accepting, wg, slots, stage, open, peerOpen,
                   outbox, serving, age, catalogue>>

\* The peer's read loop takes the next frame.
PeerReads(c) ==
    /\ peerOpen[c] /\ outbox[c] # <<>>
    /\ outbox' = [outbox EXCEPT ![c] = Tail(@)]
    /\ UNCHANGED <<process, starts, accepting, wg, slots, stage, open, peerOpen,
                   inbox, serving, age, catalogue>>

PeerCloses(c) ==
    /\ peerOpen[c]
    /\ peerOpen' = [peerOpen EXCEPT ![c] = FALSE]
    /\ outbox' = [outbox EXCEPT ![c] = <<>>]
    /\ UNCHANGED <<process, starts, accepting, wg, slots, stage, open, inbox,
                   serving, age, catalogue>>

\* The requests of a ping that its caller gave up: the id has left the
\* client's pending map, so the answer will find no waiter.
GiveUp(c) ==
    /\ inbox' = [inbox EXCEPT ![c] =
                    [i \in DOMAIN @ |-> IF @[i] = "ping" THEN "ping_given_up" ELSE @[i]]]
    /\ outbox' = [outbox EXCEPT ![c] =
                    [i \in DOMAIN @ |-> IF @[i] = "pong" THEN "pong_unwanted" ELSE @[i]]]
    /\ UNCHANGED <<process, starts, accepting, wg, slots, stage, open, peerOpen,
                   serving, age, catalogue>>

-----------------------------------------------------------------------------
\* Accepting.

\* acceptLoop adds to the WaitGroup before it starts the handler's goroutine.
Accept(c) ==
    /\ accepting /\ process = "running"
    /\ stage[c] = "backlog"
    /\ stage' = [stage EXCEPT ![c] = "accepted"]
    /\ wg' = wg + 1
    /\ UNCHANGED <<process, starts, accepting, slots, open, peerOpen, inbox,
                   outbox, serving, age, catalogue>>

\* Mutant: one connection too many.
FullLate == MaxConnections > 0 /\ Cardinality(slots) > MaxConnections

\* The limit of MaxConnections, read under s.mu.
Full == MaxConnections > 0 /\ Cardinality(slots) >= MaxConnections

\* handleConnection: the limit and the slot are under one lock.  Run's
\* initialize is included: nothing reads the connection before it is
\* registering, over TLS (by way of authenticating) or not.
HandleConnection(c) ==
    /\ stage[c] = "accepted"
    /\ \/ /\ Full
          /\ stage' = [stage EXCEPT ![c] = "gone"]
          /\ open' = [open EXCEPT ![c] = FALSE]
          /\ wg' = wg - 1
          /\ UNCHANGED <<slots, age>>
       \/ /\ ~Full
          /\ stage' = [stage EXCEPT ![c] = "registering"]
          /\ slots' = slots \cup {c}
          /\ age' = [age EXCEPT ![c] = 0]
          /\ UNCHANGED <<open, wg>>
    /\ UNCHANGED <<process, starts, accepting, peerOpen, inbox, outbox, serving,
                   catalogue>>

-----------------------------------------------------------------------------
\* One connection.

\* Mutant: the monitor is started by the registration.
MonitoredOnceReady(c) == stage[c] = "ready" /\ open[c]

\* The monitor runs from the start of Run, before anything is registered.
Monitored(c) == stage[c] \in Running /\ open[c]

\* Mutant: a comparison that lets one more tick pass.
MonitorTickLate(c) ==
    /\ Monitored(c)
    /\ \/ /\ age[c] <= MissedTicks
          /\ age' = [age EXCEPT ![c] = @ + 1]
          /\ UNCHANGED <<stage, open>>
       \/ /\ age[c] > MissedTicks
          /\ stage' = [stage EXCEPT ![c] = "failed"]
          /\ open' = [open EXCEPT ![c] = FALSE]
          /\ UNCHANGED age
    /\ UNCHANGED <<process, starts, accepting, wg, slots, peerOpen, inbox, outbox,
                   serving, catalogue>>

\* One tick of startHeartbeatMonitor.
MonitorTick(c) ==
    /\ Monitored(c)
    /\ \/ /\ age[c] < MissedTicks
          /\ age' = [age EXCEPT ![c] = @ + 1]
          /\ UNCHANGED <<stage, open>>
       \/ /\ age[c] = MissedTicks
          /\ stage' = [stage EXCEPT ![c] = "failed"]
          /\ open' = [open EXCEPT ![c] = FALSE]
          /\ UNCHANGED age
    /\ UNCHANGED <<process, starts, accepting, wg, slots, peerOpen, inbox, outbox,
                   serving, catalogue>>

\* Mutant: a connection that is registering lets every method in.
GateOpen(st, m) == st \in {"ready", "registering"}

\* gateMethodLocked.
Gate(st, m) ==
    \/ st = "ready"
    \/ st = "registering" /\ m # "call"

\* What is answered with CodeNotReady: a method the gate keeps out, and, by its
\* own handler, a second registration.
Refused(st, m) ==
    \/ ~Gate(st, m)
    \/ m \in {"register", "register_other"} /\ st # "registering"

\* SendResponse and SendError: a peer that has closed reads nothing.
Replied(c, a) ==
    IF peerOpen[c] THEN [outbox EXCEPT ![c] = Append(@, a)] ELSE outbox

\* The read loop takes the next request: what handleRequest does up to the
\* response of a quick handler, or up to the call of a slow one.
ReadRequest(c) ==
    /\ stage[c] \in Running /\ open[c] /\ ~serving[c]
    /\ inbox[c] # <<>>
    /\ Len(outbox[c]) < MaxUnread
    /\ inbox' = [inbox EXCEPT ![c] = Tail(@)]
    /\ LET m == Head(inbox[c])
       IN  \/ /\ Refused(stage[c], m)
              /\ outbox' = Replied(c, "not_ready")
              /\ UNCHANGED <<stage, catalogue, serving, age>>
           \/ /\ ~Refused(stage[c], m) /\ m = "register"
              /\ stage' = [stage EXCEPT ![c] = "ready"]
              /\ catalogue' = [catalogue EXCEPT ![c] = TRUE]
              /\ outbox' = Replied(c, "registered")
              /\ UNCHANGED <<serving, age>>
           \/ /\ ~Refused(stage[c], m) /\ m = "register_other"
              /\ stage' = [stage EXCEPT ![c] = "failed"]
              /\ outbox' = Replied(c, "mismatch")
              /\ UNCHANGED <<catalogue, serving, age>>
           \/ /\ ~Refused(stage[c], m) /\ m \in {"ping", "ping_given_up"}
              /\ age' = [age EXCEPT ![c] = 0]
              /\ outbox' = Replied(c, IF m = "ping" THEN "pong" ELSE "pong_unwanted")
              /\ UNCHANGED <<stage, catalogue, serving>>
           \/ /\ ~Refused(stage[c], m) /\ m = "call"
              /\ serving' = [serving EXCEPT ![c] = TRUE]
              /\ UNCHANGED <<stage, catalogue, outbox, age>>
    /\ UNCHANGED <<process, starts, accepting, wg, slots, open, peerOpen>>

\* The handler returns; the answer to a call is not told apart here.
FinishCall(c) ==
    /\ serving[c]
    /\ serving' = [serving EXCEPT ![c] = FALSE]
    /\ UNCHANGED <<process, starts, accepting, wg, slots, stage, open, peerOpen,
                   inbox, outbox, age, catalogue>>

\* Run's deferred calls and handleConnection's: the read loop met the peer's
\* EOF or its own closed transport.
RunExits(c) ==
    /\ stage[c] \in Running /\ ~serving[c]
    /\ ~open[c] \/ (~peerOpen[c] /\ inbox[c] = <<>>)
    /\ stage' = [stage EXCEPT ![c] = "gone"]
    /\ open' = [open EXCEPT ![c] = FALSE]
    /\ inbox' = [inbox EXCEPT ![c] = <<>>]
    /\ slots' = slots \ {c}
    /\ wg' = wg - 1
    /\ age' = [age EXCEPT ![c] = 0]
    /\ UNCHANGED <<process, starts, accepting, peerOpen, outbox, serving,
                   catalogue>>

-----------------------------------------------------------------------------
\* The process.

\* Server.Start; a socket file left by a crash is found stale and replaced.
Start ==
    /\ process = "down" /\ starts < MaxStarts
    /\ process' = "running"
    /\ starts' = starts + 1
    /\ accepting' = TRUE
    /\ wg' = 1
    /\ UNCHANGED <<slots, stage, open, peerOpen, inbox, outbox, serving, age,
                   catalogue>>

\* Shutdown closes the listener: the kernel resets what nobody accepted.
CloseListener ==
    /\ process = "running"
    /\ process' = "closing"
    /\ stage' = [c \in Conns |-> IF stage[c] = "backlog" THEN "gone" ELSE stage[c]]
    /\ open' = [c \in Conns |-> open[c] /\ stage[c] # "backlog"]
    /\ UNCHANGED <<starts, accepting, wg, slots, peerOpen, inbox, outbox, serving,
                   age, catalogue>>

\* Accept returns net.ErrClosed.
AcceptLoopEnds ==
    /\ accepting /\ process # "running"
    /\ accepting' = FALSE
    /\ wg' = wg - 1
    /\ UNCHANGED <<process, starts, slots, stage, open, peerOpen, inbox, outbox,
                   serving, age, catalogue>>

\* Shutdown closes the transports of Server.conns, under s.mu.
CloseTransports ==
    /\ process = "closing"
    /\ process' = "waiting"
    /\ open' = [c \in Conns |-> open[c] /\ c \notin slots]
    /\ UNCHANGED <<starts, accepting, wg, slots, stage, peerOpen, inbox, outbox,
                   serving, age, catalogue>>

\* Mutant: Shutdown waits for Server.conns to be empty.
DrainedSlots == slots = {}

\* s.wg.Wait has returned.
Drained == wg = 0

\* Shutdown returns nil, or ctx.Err() when its deadline comes first.
ShutdownReturns ==
    /\ process = "waiting"
    /\ \/ Drained /\ process' = "clean"
       \/ ~Drained /\ process' = "late"
    /\ UNCHANGED <<starts, accepting, wg, slots, stage, open, peerOpen, inbox,
                   outbox, serving, age, catalogue>>

\* The process ends, after Shutdown or by a crash, and its goroutines with it.
ProcessEnds ==
    /\ process # "down"
    /\ process' = "down"
    /\ accepting' = FALSE
    /\ wg' = 0
    /\ slots' = {}
    /\ stage' = [c \in Conns |-> IF stage[c] = "new" THEN "new" ELSE "gone"]
    /\ open' = [c \in Conns |-> FALSE]
    /\ inbox' = [c \in Conns |-> <<>>]
    /\ serving' = [c \in Conns |-> FALSE]
    /\ age' = [c \in Conns |-> 0]
    /\ UNCHANGED <<starts, peerOpen, outbox, catalogue>>

-----------------------------------------------------------------------------
Goroutine(c) ==
    Accept(c) \/ HandleConnection(c) \/ MonitorTick(c) \/ ReadRequest(c)
        \/ FinishCall(c) \/ RunExits(c)

ServerProcess ==
    Start \/ CloseListener \/ AcceptLoopEnds \/ CloseTransports
        \/ ShutdownReturns \/ ProcessEnds

ServerStep == ServerProcess \/ \E c \in Conns : Goroutine(c)

Peer(c) ==
    \/ Dial(c) \/ PeerReads(c) \/ PeerCloses(c) \/ GiveUp(c)
    \/ \E m \in Requests : Write(c, m)

ServerNext == ServerStep \/ \E c \in Conns : Peer(c)

ServerSpec == ServerInit /\ [][ServerNext]_serverVars

\* The Go scheduler runs every runnable goroutine, tickers tick, handlers are
\* bounded by their own timeouts.  Nothing obliges a peer to do anything, or
\* anyone to stop the server.
ServerFairness ==
    \A c \in Conns :
        /\ WF_serverVars(HandleConnection(c))
        /\ WF_serverVars(MonitorTick(c))
        /\ WF_serverVars(ReadRequest(c))
        /\ WF_serverVars(FinishCall(c))
        /\ WF_serverVars(RunExits(c))

-----------------------------------------------------------------------------
(* A request other than registration and ping is handled only on a         *)
(* connection whose capabilities are registered (connection.go:333-350     *)
(* with capabilities.go:178-236): a turn never runs against an empty tool  *)
(* catalogue, however early the client writes it.                          *)
ServedAfterRegistration == \A c \in Conns : serving[c] => catalogue[c]

(* Server.conns never holds more than MaxConnections (server.go:400-426),  *)
(* and a connection that has no slot runs no read loop.                    *)
SlotsAreCounted ==
    /\ MaxConnections > 0 => Cardinality(slots) <= MaxConnections
    /\ \A c \in Conns : stage[c] \in Running => c \in slots

(* When Shutdown returns nil, no goroutine of an accepted connection is    *)
(* left, not even one that has not reached Server.conns yet, and no        *)
(* request is being handled (server.go:266-277 with :383-388).             *)
CleanShutdownIsDrained ==
    process = "clean" =>
        /\ ~accepting
        /\ slots = {}
        /\ \A c \in Conns : stage[c] \notin Running \cup {"accepted"} /\ ~serving[c]

\* The read loop takes a ping and renews lastPing.
PingRead(c) ==
    /\ inbox[c] # <<>> /\ Head(inbox[c]) \in {"ping", "ping_given_up"}
    /\ Len(inbox'[c]) < Len(inbox[c]) /\ age'[c] = 0

(* A connection keeps its slot for ever only if its pings keep arriving    *)
(* (connection.go:237-266 and :377-384): one whose peer falls silent,      *)
(* registered or not, is dropped.                                          *)
SilentPeerLosesSlot ==
    \A c \in Conns : <>[](c \in slots) => []<><<PingRead(c)>>_serverVars
=============================================================================
