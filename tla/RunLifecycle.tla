---------------------------- MODULE RunLifecycle ----------------------------
(***************************************************************************)
(* The durable run of the runtime server: its row and event log in SQLite, *)
(* the requests that create, control and observe it, and the stream relay  *)
(* that advances it (internal/runtime run_*.go, turn.go, streaming.go over *)
(* internal/storage/runs.go).                                              *)
(*                                                                         *)
(* A connection handles one request at a time, on its read goroutine; the  *)
(* relays and the other connections run concurrently with it.  A handler   *)
(* that reads the store and writes it later is one action per access.  A   *)
(* store call is atomic here; RunStore refines it into transactions.       *)
(*                                                                         *)
(* A run and its turn share an identity: the turn's id is a primary key    *)
(* and CreateRunWithTurn inserts both rows or none.                        *)
(***************************************************************************)
EXTENDS Naturals, Sequences, FiniteSets

CONSTANTS
    Conn,          \* connection ids; an id is never reused
    Run,           \* run ids available to uuid.NewString
    Key,           \* idempotency keys of one (user, project)
    None,          \* the empty string or the nil pointer
    Methods,       \* the requests the clients send
    MaxRequests,   \* bound: requests per connection
    MaxChunks,     \* bound: text and tool events of one provider stream
    MaxTracked,    \* maxTrackedRuns and maxTrackedTurns
    MaxCrashes,    \* bound: crashes of the server process
    ConnsDrop,     \* whether connections may be lost
    StoreMayFail   \* whether a store call may return an error of its own

AllMethods == {"turn.submit", "run.create", "run.fork", "run.cancel", "turn.cancel",
               "run.attach", "run.detach", "run.heartbeat"}

ASSUME LifecycleAssumption ==
    /\ None \notin Conn /\ None \notin Run /\ None \notin Key
    /\ Methods \subseteq AllMethods
    /\ MaxRequests \in Nat /\ MaxChunks \in Nat /\ MaxCrashes \in Nat
    /\ MaxTracked \in Nat \ {0}
    /\ ConnsDrop \in BOOLEAN /\ StoreMayFail \in BOOLEAN

Terminal == {"completed", "failed", "cancelled"}
Status   == {"absent", "queued", "running"} \cup Terminal

(***************************************************************************)
(* Events.  "token" is the run.progress of a streamed delta and "beat" the *)
(* run.progress of a heartbeat.  A lifecycle event carries a state update; *)
(* the others only advance the log.                                        *)
(***************************************************************************)
LifecycleType == {"started", "stage", "tool"} \cup Terminal
EventType     == LifecycleType \cup {"token", "beat", "attached", "detached"}
Event         == [type : EventType, status : Status]

VARIABLES
    \* durable
    status,      \* runs.status, "absent" before the row exists
    keyOf,       \* runs.idempotency_key; None stands for a fresh uuid key
    attached,    \* runs.attached_connection_id
    terminalAt,  \* whether runs.terminal_at is set
    log,         \* run_events of the run in sequence order
    saved,       \* whether the assistant turn's row is in the turns table
    billed,      \* whether the model call's row is in run_model_calls
    \* volatile
    conn,        \* the connection: "new", "up" or "down"
    req,         \* the request its read goroutine is handling
    left,        \* requests it may still send
    runs,        \* runRegistry: runs with a registered cancel function
    turns,       \* turnTracker: turns with a registered cancel function
    killed,      \* whether the relay's cancel function was called
    relay,       \* where the relay goroutine is, and what the stream came to
    by,          \* the connection whose context the relay's derives from
    chunks,      \* events left in the provider's stream
    crashes

durable  == <<status, keyOf, attached, terminalAt, log, saved, billed>>
registry == <<runs, turns, killed>>
volatile == <<conn, req, left, registry, relay, by, chunks>>
vars     == <<durable, volatile, crashes>>

Present(r)    == status[r] # "absent"
IsTerminal(r) == status[r] \in Terminal

\* The relay's context: its own cancel function, under its connection's context.
CtxDead(r) == killed[r] \/ \E c \in Conn : by[r] = c /\ conn[c] # "up"

Idle == [at |-> "idle", run |-> None, key |-> None, seen |-> "absent"]

\* The relay goroutine is past its launch and before its last deferred call.
RelayLive == {"top", "read", "persist", "bill", "terminal", "fallback", "relay_failed",
              "deregister_run", "deregister_turn"}
Outcome   == {"ok", "failed", "cancelled"}
RelayState == [at : RelayLive \cup {"none", "done"}, outcome : Outcome]

\* A handler that has begun: where it is, its run or key, the row as it was read.
Request == [at : {"idle", "create_turn", "create_run", "route", "call", "dispatch",
                  "cancel", "cancel_append", "attach", "detach", "heartbeat"},
            run : Run \cup {None}, key : Key \cup {None}, seen : Status]

TypeOK ==
    /\ status \in [Run -> Status]
    /\ keyOf \in [Run -> Key \cup {None}]
    /\ attached \in [Run -> Conn \cup {None}]
    /\ terminalAt \in [Run -> BOOLEAN]
    /\ log \in [Run -> Seq(Event)]
    /\ saved \in [Run -> BOOLEAN]
    /\ billed \in [Run -> BOOLEAN]
    /\ conn \in [Conn -> {"new", "up", "down"}]
    /\ req \in [Conn -> Request]
    /\ left \in [Conn -> Nat]
    /\ runs \in SUBSET Run
    /\ turns \in SUBSET Run
    /\ killed \in [Run -> BOOLEAN]
    /\ relay \in [Run -> RelayState]
    /\ by \in [Run -> Conn \cup {None}]
    /\ chunks \in [Run -> Nat]
    /\ crashes \in Nat

Init ==
    /\ status = [r \in Run |-> "absent"]
    /\ keyOf = [r \in Run |-> None]
    /\ attached = [r \in Run |-> None]
    /\ terminalAt = [r \in Run |-> FALSE]
    /\ log = [r \in Run |-> <<>>]
    /\ saved = [r \in Run |-> FALSE]
    /\ billed = [r \in Run |-> FALSE]
    /\ conn = [c \in Conn |-> "new"]
    /\ req = [c \in Conn |-> Idle]
    /\ left = [c \in Conn |-> MaxRequests]
    /\ runs = {}
    /\ turns = {}
    /\ killed = [r \in Run |-> FALSE]
    /\ relay = [r \in Run |-> [at |-> "none", outcome |-> "ok"]]
    /\ by = [r \in Run |-> None]
    /\ chunks = [r \in Run |-> MaxChunks]
    /\ crashes = 0

-----------------------------------------------------------------------------
(* Store calls *)

StoreUnchanged == UNCHANGED <<status, attached, terminalAt, log>>

\* Mutant: a terminal row keeps its status but still takes the event.
AppendToTerminal(r, typ, st, conn_id) ==
    /\ log' = [log EXCEPT ![r] = Append(@, [type |-> typ, status |-> st])]
    /\ status' = IF typ \in LifecycleType /\ ~IsTerminal(r) THEN [status EXCEPT ![r] = st] ELSE status
    /\ terminalAt' = [terminalAt EXCEPT ![r] = @ \/ typ \in Terminal]
    /\ attached' = [attached EXCEPT ![r] = conn_id]

\* AppendRunEvent: one event, and the state update that comes with it.
AppendRunEvent(r, typ, st, conn_id) ==
    /\ log' = [log EXCEPT ![r] = Append(@, [type |-> typ, status |-> st])]
    /\ status' = IF typ \in LifecycleType THEN [status EXCEPT ![r] = st] ELSE status
    /\ terminalAt' = [terminalAt EXCEPT ![r] = @ \/ typ \in Terminal]
    /\ attached' = [attached EXCEPT ![r] = conn_id]

\* A call that may fail leaves the store as it was: the transaction rolls back.
TryAppend(r, typ, st, conn_id) ==
    \/ AppendRunEvent(r, typ, st, conn_id)
    \/ StoreMayFail /\ StoreUnchanged

\* A lifecycle event leaves the attachment alone.
TryLifecycle(r, typ, st) == TryAppend(r, typ, st, attached[r])

\* Mutant: the relay writes under a context that outlives its cancellation.
RelayAppendBackground(r, typ, st) == TryLifecycle(r, typ, st)

\* The same under the relay's context: a cancelled context fails the call.
RelayAppend(r, typ, st) ==
    IF CtxDead(r) THEN StoreUnchanged ELSE TryLifecycle(r, typ, st)

KeyTaken(k) == k # None /\ \E r \in Run : Present(r) /\ keyOf[r] = k

\* Mutant: no unique index.
NoUniqueIndex(k) == TRUE

\* The unique index on (user_id, project, idempotency_key).
UniqueIndexAdmits(k) == ~KeyTaken(k)

\* CreateRun and CreateRunWithTurn: the row, its first event and the links.
CreateRun(r, k, st, c) ==
    /\ ~Present(r)
    /\ UniqueIndexAdmits(k)
    /\ status' = [status EXCEPT ![r] = st]
    /\ keyOf' = [keyOf EXCEPT ![r] = k]
    /\ attached' = [attached EXCEPT ![r] = c]
    /\ log' = [log EXCEPT ![r] = <<[type |-> "started", status |-> st]>>]
    /\ UNCHANGED <<terminalAt, saved, billed>>

-----------------------------------------------------------------------------
(* Connections *)

Connect(c) ==
    /\ conn[c] = "new"
    /\ conn' = [conn EXCEPT ![c] = "up"]
    /\ UNCHANGED <<durable, req, left, registry, relay, by, chunks, crashes>>

\* Connection.Run returns once the current handler has; only then is the
\* connection's context cancelled.
Drop(c) ==
    /\ ConnsDrop
    /\ conn[c] = "up" /\ req[c] = Idle
    /\ conn' = [conn EXCEPT ![c] = "down"]
    /\ UNCHANGED <<durable, req, left, registry, relay, by, chunks, crashes>>

\* The process dies: nothing on the durable side is touched, then or at the
\* next start.
Crash ==
    /\ crashes < MaxCrashes
    /\ crashes' = crashes + 1
    /\ conn' = [c \in Conn |-> IF conn[c] = "up" THEN "down" ELSE conn[c]]
    /\ req' = [c \in Conn |-> Idle]
    /\ runs' = {}
    /\ turns' = {}
    /\ relay' = [r \in Run |-> IF relay[r].at \in RelayLive
                              THEN [at |-> "done", outcome |-> relay[r].outcome] ELSE relay[r]]
    /\ UNCHANGED <<durable, left, killed, by, chunks>>

Receive(c, m) ==
    /\ m \in Methods
    /\ conn[c] = "up" /\ req[c] = Idle
    /\ left[c] > 0
    /\ left' = [left EXCEPT ![c] = @ - 1]

Goto(c, at) == req' = [req EXCEPT ![c].at = at]
Start(c, at, r, k, st) == req' = [req EXCEPT ![c] = [at |-> at, run |-> r, key |-> k, seen |-> st]]
Reply(c) == req' = [req EXCEPT ![c] = Idle]

-----------------------------------------------------------------------------
(* turn.submit and run.create *)

\* GetRunByIdempotency: a run with the key answers the request; otherwise the
\* handler goes on to create one, on the strength of what it read.
Lookup(c, m, next) ==
    \E k \in Key \cup (IF m = "run.create" THEN {None} ELSE {}) :
        /\ Receive(c, m)
        /\ IF KeyTaken(k) THEN Reply(c) ELSE Start(c, next, None, k, "absent")
        /\ UNCHANGED <<durable, conn, registry, relay, by, chunks, crashes>>

SubmitLookup(c)    == Lookup(c, "turn.submit", "create_turn")
RunCreateLookup(c) == Lookup(c, "run.create", "create_run")

\* createForegroundRunWithTurn: the run is running and attached to c.
CreateForegroundRunWithTurn(c) ==
    /\ req[c].at = "create_turn"
    /\ \E r \in Run :
        /\ CreateRun(r, req[c].key, "running", c)
        /\ Start(c, "route", r, None, "running")
    /\ UNCHANGED <<conn, left, registry, relay, by, chunks, crashes>>

\* createRunRecord for run.create: queued and detached, no turn, no dispatch.
CreateRunRecord(c) ==
    /\ req[c].at = "create_run"
    /\ \E r \in Run : CreateRun(r, req[c].key, "queued", None)
    /\ Reply(c)
    /\ UNCHANGED <<conn, left, registry, relay, by, chunks, crashes>>

\* The transaction is refused: the key was taken since the lookup, the turn's
\* sequence is not the next one of its conversation, or the store fails.
CreateFails(c) ==
    /\ req[c].at \in {"create_turn", "create_run"}
    /\ Reply(c)
    /\ UNCHANGED <<durable, conn, left, registry, relay, by, chunks, crashes>>

\* Mutant: the error is answered and the run is left as it was.
RouteFailsSilently(c) ==
    /\ req[c].at = "route"
    /\ Reply(c)
    /\ UNCHANGED <<durable, conn, left, registry, relay, by, chunks, crashes>>

\* No model, several models, or a model the registry does not have.
RouteFails(c) ==
    /\ req[c].at = "route"
    /\ TryLifecycle(req[c].run, "failed", "failed")
    /\ Reply(c)
    /\ UNCHANGED <<keyOf, saved, billed, conn, left, registry, relay, by, chunks, crashes>>

\* run.stage_changed to prompt_plan and then to model_call, each written with
\* status running whatever the row says.
StageChanged(c, from, to) ==
    /\ req[c].at = from
    /\ TryLifecycle(req[c].run, "stage", "running")
    /\ Goto(c, to)
    /\ UNCHANGED <<keyOf, saved, billed, conn, left, registry, relay, by, chunks, crashes>>

PromptPlan(c) == StageChanged(c, "route", "call")
ModelCall(c)  == StageChanged(c, "call", "dispatch")

DispatchFails(c) ==
    /\ req[c].at = "dispatch"
    /\ TryLifecycle(req[c].run, "failed", "failed")
    /\ Reply(c)
    /\ UNCHANGED <<keyOf, saved, billed, conn, left, registry, relay, by, chunks, crashes>>

\* Mutant: the table counts as full one entry early.
RegisterEarly(table, r) ==
    IF r \in table \/ Cardinality(table) + 1 < MaxTracked
    THEN {table \cup {r}}
    ELSE {(table \ {old}) \cup {r} : old \in table}

\* A full table first drops some entry of its own; its relay goes on untracked.
Register(table, r) ==
    IF r \in table \/ Cardinality(table) < MaxTracked
    THEN {table \cup {r}}
    ELSE {(table \ {old}) \cup {r} : old \in table}

\* The stream is open: register the cancel function, start the relay, answer.
Dispatched(c) ==
    /\ req[c].at = "dispatch"
    /\ LET r == req[c].run IN
        /\ turns' \in Register(turns, r)
        /\ runs' \in Register(runs, r)
        /\ relay' = [relay EXCEPT ![r].at = "top"]
        /\ by' = [by EXCEPT ![r] = c]
    /\ Reply(c)
    /\ UNCHANGED <<durable, conn, left, killed, chunks, crashes>>

-----------------------------------------------------------------------------
(* Run controls *)

\* run.fork: a queued, detached child under a key of its own.
Fork(c) ==
    /\ Receive(c, "run.fork")
    /\ \E parent, child \in Run : Present(parent) /\ CreateRun(child, None, "queued", None)
    /\ UNCHANGED <<conn, req, registry, relay, by, chunks, crashes>>

\* Mutant: the status is not kept with the row.
ReadWithoutStatus(c, m, r, next) ==
    /\ Present(r)
    /\ Receive(c, m)
    /\ Start(c, next, r, None, None)
    /\ UNCHANGED <<durable, conn, registry, relay, by, chunks, crashes>>

\* getAuthorizedRun: a handler that goes on acts on the row as it was read.
Read(c, m, r, next) ==
    /\ Present(r)
    /\ Receive(c, m)
    /\ Start(c, next, r, None, status[r])
    /\ UNCHANGED <<durable, conn, registry, relay, by, chunks, crashes>>

\* A terminal run is answered Accepted: false and nothing happens.
CancelRead(c) == \E r \in Run : ~IsTerminal(r) /\ Read(c, "run.cancel", r, "cancel")

\* Mutant: the entry is forgotten and its cancel function never called.
RegistryForget(r) ==
    /\ runs' = runs \ {r}
    /\ UNCHANGED killed

\* runRegistry.cancel: call the cancel function and forget the entry.
RegistryCancel(r) ==
    /\ killed' = [killed EXCEPT ![r] = @ \/ r \in runs]
    /\ runs' = runs \ {r}

CancelRegistry(c) ==
    /\ req[c].at = "cancel"
    /\ RegistryCancel(req[c].run)
    /\ Goto(c, "cancel_append")
    /\ UNCHANGED <<durable, conn, left, turns, relay, by, chunks, crashes>>

CancelAppend(c) ==
    /\ req[c].at = "cancel_append"
    /\ TryLifecycle(req[c].run, "cancelled", "cancelled")
    /\ Reply(c)
    /\ UNCHANGED <<keyOf, saved, billed, conn, left, registry, relay, by, chunks, crashes>>

\* turn.cancel: through the run registry, else through the turn tracker; the
\* store is left to the relay.
TurnCancel(c) ==
    /\ Receive(c, "turn.cancel")
    /\ \E r \in runs \cup turns :
        IF r \in runs
        THEN RegistryCancel(r) /\ UNCHANGED turns
        ELSE /\ killed' = [killed EXCEPT ![r] = TRUE]
             /\ turns' = turns \ {r}
             /\ UNCHANGED runs
    /\ UNCHANGED <<durable, conn, req, relay, by, chunks, crashes>>

\* A terminal run, or one attached to another connection, is refused.
AttachRead(c) ==
    \E r \in Run :
        /\ ~IsTerminal(r)
        /\ attached[r] \in {None, c}
        /\ Read(c, "run.attach", r, "attach")

AttachAppend(c) ==
    /\ req[c].at = "attach"
    /\ TryAppend(req[c].run, "attached", req[c].seen, c)
    /\ Reply(c)
    /\ UNCHANGED <<keyOf, saved, billed, conn, left, registry, relay, by, chunks, crashes>>

\* Neither the status nor the owner is looked at.
DetachRead(c) == \E r \in Run : Read(c, "run.detach", r, "detach")

DetachAppend(c) ==
    /\ req[c].at = "detach"
    /\ TryAppend(req[c].run, "detached", req[c].seen, None)
    /\ Reply(c)
    /\ UNCHANGED <<keyOf, saved, billed, conn, left, registry, relay, by, chunks, crashes>>

HeartbeatRead(c) == \E r \in Run : ~IsTerminal(r) /\ Read(c, "run.heartbeat", r, "heartbeat")

HeartbeatAppend(c) ==
    /\ req[c].at = "heartbeat"
    /\ TryAppend(req[c].run, "beat", req[c].seen, attached[req[c].run])
    /\ Reply(c)
    /\ UNCHANGED <<keyOf, saved, billed, conn, left, registry, relay, by, chunks, crashes>>

-----------------------------------------------------------------------------
(* The stream relay goroutine of run r *)

RelayAt(r, from, to) ==
    /\ relay[r].at = from
    /\ relay' = [relay EXCEPT ![r].at = to]

RelayEnds(r, from, to, outcome) ==
    /\ relay[r].at = from
    /\ relay' = [relay EXCEPT ![r] = [at |-> to, outcome |-> outcome]]

\* The select at the top of the read loop.
RelayTop(r) ==
    /\ IF CtxDead(r)
       THEN RelayEnds(r, "top", "persist", "cancelled")
       ELSE RelayAt(r, "top", "read")
    /\ UNCHANGED <<durable, conn, req, left, registry, by, chunks, crashes>>

\* A text delta or a finished tool call; a tool call sets the status again.  The
\* delta's event copies the status read just before it, which no property looks at.
RelayEvent(r) ==
    /\ chunks[r] > 0
    /\ chunks' = [chunks EXCEPT ![r] = @ - 1]
    /\ RelayAt(r, "read", "top")
    /\ \/ RelayAppend(r, "token", status[r])
       \/ RelayAppend(r, "tool", "running")
    /\ UNCHANGED <<keyOf, saved, billed, conn, req, left, registry, by, crashes>>

\* End of stream.
RelayEOF(r) ==
    /\ RelayEnds(r, "read", "persist", "ok")
    /\ UNCHANGED <<durable, conn, req, left, registry, by, chunks, crashes>>

\* A provider error, the client's 300 s timeout, or the request's own context.
RelayError(r) ==
    /\ RelayEnds(r, "read", "persist", "failed")
    /\ UNCHANGED <<durable, conn, req, left, registry, by, chunks, crashes>>

\* Mutant: the error of CreateTurn is dropped.
PersistIgnoringError(r) ==
    /\ RelayAt(r, "persist", "bill")
    /\ \/ ~CtxDead(r) /\ saved' = [saved EXCEPT ![r] = TRUE]
       \/ (CtxDead(r) \/ StoreMayFail) /\ UNCHANGED saved
    /\ UNCHANGED <<status, keyOf, attached, terminalAt, log, billed,
                   conn, req, left, registry, by, chunks, crashes>>

\* persistAssistant: a failed CreateTurn becomes the stream's error, unless
\* there is one already.
PersistAssistant(r) ==
    /\ \/ /\ ~CtxDead(r)
          /\ saved' = [saved EXCEPT ![r] = TRUE]
          /\ RelayAt(r, "persist", "bill")
       \/ /\ CtxDead(r) \/ StoreMayFail
          /\ RelayEnds(r, "persist", "bill",
                       IF relay[r].outcome = "ok" THEN "failed" ELSE relay[r].outcome)
          /\ UNCHANGED saved
    /\ UNCHANGED <<status, keyOf, attached, terminalAt, log, billed,
                   conn, req, left, registry, by, chunks, crashes>>

\* RecordRunModelCall, after turn.complete is sent; its error is dropped.
RecordRunModelCall(r) ==
    /\ RelayAt(r, "bill", "terminal")
    /\ \/ ~CtxDead(r) /\ billed' = [billed EXCEPT ![r] = TRUE]
       \/ (CtxDead(r) \/ StoreMayFail) /\ UNCHANGED billed
    /\ UNCHANGED <<status, keyOf, attached, terminalAt, log, saved,
                   conn, req, left, registry, by, chunks, crashes>>

\* The terminal event, under the relay's own context; only a failed stream
\* makes Relay return an error.
TerminalEvent == [ok |-> "completed", failed |-> "failed", cancelled |-> "cancelled"]

AppendTerminalRunEvent(r) ==
    LET typ == TerminalEvent[relay[r].outcome] IN
    /\ RelayAt(r, "terminal", IF relay[r].outcome = "failed" THEN "fallback" ELSE "deregister_run")
    /\ RelayAppend(r, typ, typ)
    /\ UNCHANGED <<keyOf, saved, billed, conn, req, left, registry, by, chunks, crashes>>

\* The goroutine's own handling of a relay error: read the row, and if it is
\* not terminal append run.failed under a background context.
FallbackRead(r) ==
    /\ RelayAt(r, "fallback", IF IsTerminal(r) THEN "deregister_run" ELSE "relay_failed")
    /\ UNCHANGED <<durable, conn, req, left, registry, by, chunks, crashes>>

FallbackAppend(r) ==
    /\ RelayAt(r, "relay_failed", "deregister_run")
    /\ TryLifecycle(r, "failed", "failed")
    /\ UNCHANGED <<keyOf, saved, billed, conn, req, left, registry, by, chunks, crashes>>

DeregisterRun(r) ==
    /\ RelayAt(r, "deregister_run", "deregister_turn")
    /\ runs' = runs \ {r}
    /\ UNCHANGED <<durable, conn, req, left, turns, killed, by, chunks, crashes>>

DeregisterTurn(r) ==
    /\ RelayAt(r, "deregister_turn", "done")
    /\ turns' = turns \ {r}
    /\ UNCHANGED <<durable, conn, req, left, runs, killed, by, chunks, crashes>>

-----------------------------------------------------------------------------

NewRequest(c) ==
    \/ SubmitLookup(c) \/ RunCreateLookup(c) \/ Fork(c)
    \/ CancelRead(c) \/ TurnCancel(c)
    \/ AttachRead(c) \/ DetachRead(c) \/ HeartbeatRead(c)

\* The steps of a handler that has begun.
Handle(c) ==
    \/ CreateForegroundRunWithTurn(c) \/ CreateRunRecord(c) \/ CreateFails(c)
    \/ RouteFails(c) \/ PromptPlan(c) \/ ModelCall(c) \/ DispatchFails(c) \/ Dispatched(c)
    \/ CancelRegistry(c) \/ CancelAppend(c)
    \/ AttachAppend(c) \/ DetachAppend(c) \/ HeartbeatAppend(c)

Relay(r) ==
    \/ RelayTop(r) \/ RelayEvent(r) \/ RelayEOF(r) \/ RelayError(r)
    \/ PersistAssistant(r) \/ RecordRunModelCall(r) \/ AppendTerminalRunEvent(r)
    \/ FallbackRead(r) \/ FallbackAppend(r)
    \/ DeregisterRun(r) \/ DeregisterTurn(r)

Next ==
    \/ \E c \in Conn : Connect(c) \/ Drop(c) \/ NewRequest(c) \/ Handle(c)
    \/ \E r \in Run : Relay(r)
    \/ Crash

\* A goroutine that can run does: a handler that has begun and a relay go on.
\* The read of the stream returns because the HTTP client times out.  Nothing
\* obliges a client to send a request or a connection to drop.
Fairness == (\A c \in Conn : WF_vars(Handle(c))) /\ (\A r \in Run : WF_vars(Relay(r)))

Spec     == Init /\ [][Next]_vars
FairSpec == Spec /\ Fairness

-----------------------------------------------------------------------------
(* What the code promises, and holds *)

\* At most one run exists under an idempotency key, although the lookup and the
\* insert of turn.submit and run.create are two store calls and two connections
\* may be between them (createRunRecord, handleTurnSubmit).
OneRunPerKey ==
    \A r, s \in Run :
        Present(r) /\ Present(s) /\ keyOf[r] = keyOf[s] /\ keyOf[r] # None => r = s

\* The row agrees with the log a client replays: its status is the one of the
\* last lifecycle event and terminal_at is set once some terminal event is
\* there, whichever handlers and relays raced to append (AppendRunEvent).
LastLifecycle(r, i) ==
    /\ log[r][i].type \in LifecycleType
    /\ \A j \in DOMAIN log[r] : j > i => log[r][j].type \notin LifecycleType
StatusFollowsLog ==
    \A r \in Run : Present(r) =>
        /\ \E i \in DOMAIN log[r] : LastLifecycle(r, i) /\ status[r] = log[r][i].status
        /\ terminalAt[r] <=> \E i \in DOMAIN log[r] : log[r][i].type \in Terminal

\* A run.completed event is only ever in the log of a run whose assistant turn
\* is in the turns table, across lost connections, crashes and failing store
\* calls (Relay, persistAssistant).
CompletedIsSaved ==
    \A r \in Run : (\E i \in DOMAIN log[r] : log[r][i].type = "completed") => saved[r]

\* While the tables have room, a relay that has not been cancelled can be, and a
\* registered run has a relay (runs.register, runs.deregister).
Cancellable == RelayLive \ {"deregister_run", "deregister_turn"}
RegistryTracksRelays ==
    \A r \in Run :
        /\ relay[r].at \in Cancellable => killed[r] \/ r \in runs \cap turns
        /\ r \in runs => relay[r].at \in RelayLive
        /\ r \in turns => relay[r].at \in RelayLive

\* With one client, nothing the provider still streams enters the log once
\* run.cancelled is there (handleRunCancel calls runs.cancel first).
NoWorkAfterCancelled ==
    \A r \in Run : \A i, j \in DOMAIN log[r] :
        i < j /\ log[r][i].type = "cancelled" => log[r][j].type \notin {"stage", "token", "tool", "completed"}

\* With one client the outcome of a run is kept, but for two races in which the
\* status was read before it ended and is written over afterwards
\* (appendRunLifecycle looks at no status): a run.cancel that read an active run
\* turns completed or failed into cancelled, and the fallback after Relay turns
\* that cancelled into failed.  In particular no ended run is queued or running
\* again, no relay completes a run that was cancelled or has failed, and nothing
\* but a run.cancel in flight undoes a completed run.  With two clients it does
\* not hold: the stage events of a turn.submit reopen the run that the other
\* client has cancelled.
OutcomeIsKept ==
    [][\A r \in Run : IsTerminal(r) /\ status'[r] # status[r] =>
            \/ /\ status'[r] = "cancelled"
               /\ \E c \in Conn : req[c].at = "cancel_append" /\ req[c].run = r
            \/ /\ status[r] = "cancelled" /\ status'[r] = "failed"
               /\ relay[r].at = "relay_failed"]_vars

\* While the store answers, every run that starts running comes to a terminal
\* status, unless its relay's context dies: its client cancelled the turn or was
\* lost (handleTurnSubmit's error paths, Relay, and the fallback after it).
RunsSettle == \A r \in Run : status[r] = "running" ~> IsTerminal(r) \/ CtxDead(r)

\* The abstract log: every step of the server creates a run, appends one event
\* to one run, or leaves every log alone.
Log == INSTANCE RunLog
ImplementsRunLog == Log!Spec
=============================================================================
