---------------------------- MODULE HarnessConn ----------------------------
(***************************************************************************)
(* The harness's ConnectionManager against the server of ServerConn: the   *)
(* first connect, the heartbeat goroutines, the disconnect watchers, the   *)
(* reconnect loops and Disconnect, each a thread of its own, as the code   *)
(* starts them.                                                            *)
(*                                                                         *)
(* Everything a connection starts is named by that connection: its         *)
(* heartbeat, its watcher, and the two loops these may turn into.          *)
(***************************************************************************)
EXTENDS ServerConn

CONSTANTS
    MaxRetries,    \* ConnectionConfig.ReconnectMaxRetries
    DegradedAt,    \* missedPongsDegraded
    ReconnectAt,   \* missedPongsReconnecting
    None           \* no connection

ASSUME HarnessConnAssumption ==
    /\ MaxRetries \in Nat
    /\ DegradedAt \in Nat /\ ReconnectAt \in Nat /\ DegradedAt < ReconnectAt
    /\ None \notin Conns

VARIABLES
    state,       \* ConnectionManager.state
    client,      \* its current client
    closed,      \* Disconnect was called
    missed,      \* missedPongs
    attempt,     \* reconnectAttempt, one field for every loop
    done,        \* per client: its Done channel is closed
    heartbeat,   \* whose heartbeat heartbeatCancel cancels
    beat,        \* per conn: its heartbeat goroutine and the client it pings
    lastWatch,   \* whose watcher loopCancel cancels
    cancelled,   \* the watchers and loops whose context was cancelled
    thread       \* per thread of ConnectSync: where it is, and its client

harnessVars == <<state, client, closed, missed, attempt, done, heartbeat, beat,
                 lastWatch, cancelled, thread>>
vars == <<serverVars, harnessVars>>

\* The threads that run ConnectSync: Start, the loop a disconnect watcher
\* becomes, and the loop a heartbeat starts.
Main       == <<"main", None>>
Watcher(c) == <<"watcher", c>>
Loop(c)    == <<"loop", c>>
Threads == {Main} \cup {Watcher(c) : c \in Conns} \cup {Loop(c) : c \in Conns}

States == {"discovering", "starting", "connecting", "registering", "ready",
           "degraded", "reconnecting", "failed"}

TypeOK ==
    /\ ServerTypeOK
    /\ state \in States
    /\ client \in Conns \cup {None}
    /\ closed \in BOOLEAN
    /\ missed \in 0..ReconnectAt
    /\ attempt \in Nat
    /\ done \in [Conns -> BOOLEAN]
    /\ heartbeat \in Conns \cup {None}
    /\ beat \in [Conns -> [at : {"off", "waiting", "pinging"}, to : Conns \cup {None}]]
    /\ lastWatch \in Conns \cup {None}
    /\ cancelled \in SUBSET Threads
    /\ thread \in [Threads ->
           [at : {"idle", "backoff", "probe", "start", "dial", "register",
                  "answer", "arm", "watch", "over"},
            of : Conns \cup {None}]]

Init ==
    /\ ServerInit
    /\ state = "discovering"
    /\ client = None
    /\ closed = FALSE
    /\ missed = 0
    /\ attempt = 0
    /\ done = [c \in Conns |-> FALSE]
    /\ heartbeat = None
    /\ beat = [c \in Conns |-> [at |-> "off", to |-> None]]
    /\ lastWatch = None
    /\ cancelled = {}
    /\ thread = [t \in Threads |->
                    [at |-> IF t = Main THEN "probe" ELSE "idle", of |-> None]]

-----------------------------------------------------------------------------
\* validHarnessTransitions.
Successors ==
    [discovering  |-> {"starting", "connecting", "failed"},
     starting     |-> {"connecting", "failed"},
     connecting   |-> {"registering", "failed", "reconnecting"},
     registering  |-> {"ready", "failed", "reconnecting"},
     ready        |-> {"degraded", "reconnecting", "failed"},
     degraded     |-> {"ready", "reconnecting", "failed"},
     reconnecting |-> {"connecting", "failed"},
     failed       |-> {}]

\* transition: an edge the table does not have is ignored.
After(from, to) == IF to \in Successors[from] THEN to ELSE from

Goes(t, at) == thread' = [thread EXCEPT ![t].at = at]

\* The head of reconnectLoop's body, for its n-th attempt, from state st.
Looping(t, n, st) ==
    /\ attempt' = n
    /\ \/ /\ n <= MaxRetries /\ ~closed
          /\ Goes(t, "backoff") /\ state' = After(st, "reconnecting")
       \/ /\ n <= MaxRetries /\ closed
          /\ Goes(t, "over") /\ state' = st
       \/ /\ n > MaxRetries
          /\ Goes(t, "over") /\ state' = After(st, "failed")

\* What becomes of a thread whose ConnectSync returned an error and left st:
\* Start reports it, a loop goes on to its next attempt.
Failing(t, st) ==
    \/ t = Main /\ Goes(t, "over") /\ state' = st /\ UNCHANGED attempt
    \/ t # Main /\ Looping(t, attempt + 1, st)

\* ConnectionManager.fail.
Fails(t) == Failing(t, After(state, "failed"))

-----------------------------------------------------------------------------
\* reconnectLoop waits, and leaves when its context was cancelled.
BackedOff(t) ==
    /\ thread[t].at = "backoff"
    /\ \/ Goes(t, "probe")
       \/ t \in cancelled /\ Goes(t, "over")
    /\ UNCHANGED <<serverVars, state, client, closed, missed, attempt, done,
                   heartbeat, beat, lastWatch, cancelled>>

\* ConnectSync, up to the dial: a closed manager, the probe of the socket.
Probe(t) ==
    /\ thread[t].at = "probe"
    /\ \/ closed /\ Failing(t, state)
       \/ /\ ~closed /\ process = "running"
          /\ state' = After(state, "connecting")
          /\ Goes(t, "dial")
          /\ UNCHANGED attempt
       \/ /\ ~closed /\ process # "running"
          /\ state' = After(state, "starting")
          /\ Goes(t, "start")
          /\ UNCHANGED attempt
    /\ UNCHANGED <<serverVars, client, closed, missed, done, heartbeat, beat,
                   lastWatch, cancelled>>

\* autoStartServer: a server, whoever launched it, answers in time or not.  A
\* manager whose AutoStart is off fails at once.
AutoStarted(t) ==
    /\ thread[t].at = "start"
    /\ \/ /\ process = "running"
          /\ state' = After(state, "connecting")
          /\ Goes(t, "dial")
          /\ UNCHANGED attempt
       \/ Fails(t)
    /\ UNCHANGED <<serverVars, client, closed, missed, done, heartbeat, beat,
                   lastWatch, cancelled>>

\* A connection not used before; which one is of no consequence.
Fresh == CHOOSE c \in Conns : stage[c] = "new"

\* Dial and the assignment of cm.client.
Dials(t) ==
    /\ thread[t].at = "dial"
    /\ \/ /\ t \notin cancelled
          /\ \E c \in Conns : stage[c] = "new"
          /\ Dial(Fresh)
          /\ client' = Fresh
          /\ thread' = [thread EXCEPT ![t] = [at |-> "register", of |-> Fresh]]
          /\ UNCHANGED <<state, attempt>>
       \/ /\ process # "running" \/ t \in cancelled
          /\ Fails(t)
          /\ UNCHANGED <<serverVars, client>>
    /\ UNCHANGED <<closed, missed, done, heartbeat, beat, lastWatch, cancelled>>

\* The state, and the registration's frame.
WritesRegistration(t) ==
    /\ thread[t].at = "register"
    /\ LET c == thread[t].of
       IN  \/ /\ \E m \in {"register", "register_other"} : Write(c, m)
              /\ state' = After(state, "registering")
              /\ Goes(t, "answer")
              /\ UNCHANGED attempt
           \/ /\ ~(open[c] /\ peerOpen[c])
              /\ Failing(t, After(After(state, "registering"), "failed"))
              /\ UNCHANGED serverVars
    /\ UNCHANGED <<client, closed, missed, done, heartbeat, beat, lastWatch,
                   cancelled>>

\* Mutant: an error of Register other than a version mismatch is let pass.
RegisteredAnyway(t) ==
    /\ thread[t].at = "answer"
    /\ LET c == thread[t].of
       IN  \/ /\ PeerReads(c) /\ Head(outbox[c]) = "mismatch"
              /\ Fails(t)
              /\ UNCHANGED missed
           \/ /\ \/ PeerReads(c) /\ Head(outbox[c]) = "registered"
                 \/ UNCHANGED serverVars
              /\ state' = After(state, "ready")
              /\ attempt' = 0
              /\ missed' = 0
              /\ Goes(t, "arm")
    /\ UNCHANGED <<client, closed, done, heartbeat, beat, lastWatch, cancelled>>

\* Register's answer; it also fails by its timeout, by a client that is done
\* and by a cancelled context, and the dialled client is then left open.
\* Success is Ready and the two resets.
Registered(t) ==
    /\ thread[t].at = "answer"
    /\ LET c == thread[t].of
       IN  \/ /\ PeerReads(c) /\ Head(outbox[c]) = "registered"
              /\ state' = After(state, "ready")
              /\ attempt' = 0
              /\ missed' = 0
              /\ Goes(t, "arm")
           \/ /\ PeerReads(c) /\ Head(outbox[c]) = "mismatch"
              /\ Fails(t)
              /\ UNCHANGED missed
           \/ /\ Fails(t)
              /\ UNCHANGED <<serverVars, missed>>
    /\ UNCHANGED <<client, closed, done, heartbeat, beat, lastWatch, cancelled>>

\* startHeartbeat does nothing while there is one; startDisconnectWatcher
\* starts one more each time, and both are for the manager's current client.
NewHeartbeat(c) ==
    IF heartbeat = None
    THEN /\ heartbeat' = c
         /\ beat' = [beat EXCEPT ![c] = [at |-> "waiting", to |-> client]]
    ELSE UNCHANGED <<heartbeat, beat>>

NewWatcher(t, c) ==
    IF client = None
    THEN Goes(t, "over") /\ UNCHANGED lastWatch
    ELSE /\ lastWatch' = c
         /\ thread' = [thread EXCEPT ![t].at = "over",
                                     ![Watcher(c)] = [at |-> "watch", of |-> client]]

Arms(t) ==
    /\ thread[t].at = "arm"
    /\ NewHeartbeat(thread[t].of)
    /\ NewWatcher(t, thread[t].of)
    /\ UNCHANGED <<serverVars, state, client, closed, missed, attempt, done,
                   cancelled>>

-----------------------------------------------------------------------------
\* Heartbeats.

\* stopHeartbeat: the cancelled goroutine leaves at its next select; a ping
\* under way fails first.
Stopped(b) ==
    [c \in Conns |-> IF c = heartbeat /\ b[c].at = "waiting"
                     THEN [b[c] EXCEPT !.at = "off"] ELSE b[c]]

\* sendHeartbeat after the ping: m misses, counted up to the last threshold.
Judges(c, m) ==
    /\ missed' = IF m > ReconnectAt THEN ReconnectAt ELSE m
    /\ LET b == [beat EXCEPT ![c].at = IF heartbeat = c THEN "waiting" ELSE "off"]
       IN  \/ /\ m >= ReconnectAt /\ state # "reconnecting"
              /\ heartbeat' = None
              /\ beat' = Stopped(b)
              /\ Looping(Loop(c), 1, After(state, "reconnecting"))
           \/ /\ m >= ReconnectAt /\ state = "reconnecting"
              /\ beat' = b
              /\ UNCHANGED <<heartbeat, thread, attempt, state>>
           \/ /\ m \in DegradedAt..ReconnectAt - 1
              /\ beat' = b
              /\ state' = IF state = "ready" THEN "degraded" ELSE state
              /\ UNCHANGED <<heartbeat, thread, attempt>>
           \/ /\ m < DegradedAt
              /\ beat' = b
              /\ state' = IF state = "degraded" THEN "ready" ELSE state
              /\ UNCHANGED <<heartbeat, thread, attempt>>

\* A tick: the ping's frame, or the error of writing it.
Pings(c) ==
    /\ beat[c].at = "waiting" /\ beat[c].to # None
    /\ \/ /\ Write(beat[c].to, "ping")
          /\ beat' = [beat EXCEPT ![c].at = "pinging"]
          /\ UNCHANGED <<state, missed, attempt, heartbeat, thread>>
       \/ /\ ~(open[beat[c].to] /\ peerOpen[beat[c].to])
          /\ Judges(c, missed + 1)
          /\ UNCHANGED serverVars
    /\ UNCHANGED <<client, closed, done, lastWatch, cancelled>>

\* The pong, or the ping's timeout, its client's end, its cancellation.
Ponged(c) ==
    /\ beat[c].at = "pinging"
    /\ LET d == beat[c].to
       IN  \/ PeerReads(d) /\ Head(outbox[d]) = "pong" /\ Judges(c, 0)
           \/ GiveUp(d) /\ Judges(c, missed + 1)
    /\ UNCHANGED <<client, closed, done, lastWatch, cancelled>>

-----------------------------------------------------------------------------
\* The end of a client.

\* Its read loop drops an answer that no call waits for.
Unwanted(c) ==
    LET waited == CASE Head(outbox[c]) \in {"registered", "mismatch"} ->
                         \E t \in Threads : thread[t].at = "answer" /\ thread[t].of = c
                    [] Head(outbox[c]) = "pong" ->
                         \E d \in Conns : beat[d].at = "pinging" /\ beat[d].to = c
                    [] OTHER -> FALSE
    IN  /\ outbox[c] # <<>> /\ ~waited
        /\ PeerReads(c)
        /\ UNCHANGED harnessVars

\* Its read loop meets EOF and closes Done; the socket stays open.
MeetsEOF(c) ==
    /\ peerOpen[c] /\ ~open[c] /\ outbox[c] = <<>> /\ ~done[c]
    /\ done' = [done EXCEPT ![c] = TRUE]
    /\ UNCHANGED <<serverVars, state, client, closed, missed, attempt, heartbeat,
                   beat, lastWatch, cancelled, thread>>

\* The watcher's select.
Watches(t) ==
    /\ thread[t].at = "watch"
    /\ \/ /\ done[thread[t].of] /\ ~closed
          /\ heartbeat' = None
          /\ beat' = Stopped(beat)
          /\ Looping(t, 1, After(state, "reconnecting"))
       \/ /\ t \in cancelled \/ (done[thread[t].of] /\ closed)
          /\ Goes(t, "over")
          /\ UNCHANGED <<state, attempt, heartbeat, beat>>
    /\ UNCHANGED <<serverVars, client, closed, missed, done, lastWatch, cancelled>>

Disconnect ==
    /\ ~closed
    /\ closed' = TRUE
    /\ heartbeat' = None
    /\ beat' = Stopped(beat)
    /\ cancelled' = IF lastWatch = None THEN cancelled
                    ELSE cancelled \cup {Watcher(lastWatch)}
    /\ client' = None
    /\ IF client = None
       THEN UNCHANGED <<serverVars, done>>
       ELSE /\ PeerCloses(client)
            /\ done' = [done EXCEPT ![client] = TRUE]
    /\ UNCHANGED <<state, missed, attempt, lastWatch, thread>>

\* The host calls through the current client, whatever its state; at most one
\* unread call per connection is modelled.
Calls ==
    /\ client # None
    /\ \A i \in DOMAIN inbox[client] : inbox[client][i] # "call"
    /\ Write(client, "call")
    /\ UNCHANGED harnessVars

-----------------------------------------------------------------------------
ThreadStep(t) ==
    \/ BackedOff(t) \/ Probe(t) \/ AutoStarted(t) \/ Dials(t)
    \/ WritesRegistration(t) \/ Registered(t) \/ Arms(t) \/ Watches(t)

ClientStep(c) == Pings(c) \/ Ponged(c) \/ Unwanted(c) \/ MeetsEOF(c)

Next ==
    \/ ServerStep /\ UNCHANGED harnessVars
    \/ \E t \in Threads : ThreadStep(t)
    \/ \E c \in Conns : ClientStep(c)
    \/ Disconnect
    \/ Calls

Spec == Init /\ [][Next]_vars

\* Only the server's goroutines are promised to run.
FairSpec == Spec /\ ServerFairness

-----------------------------------------------------------------------------
(* When the manager shows Ready or Degraded and no connect is under way,   *)
(* the server has registered the very client that calls will go to         *)
(* (connection.go:192-271 against capabilities.go:178-236).                *)
ReadyIsRegistered ==
    /\ state \in {"ready", "degraded"}
    /\ client # None
    /\ \A t \in Threads : thread[t].at \notin {"register", "answer"}
    => catalogue[client]
=============================================================================
