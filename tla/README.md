# TLA+ models of modeltap

modeltap is a local proxy and runtime for language models: a reverse proxy that
captures requests, a JSON-RPC runtime server that owns sessions, conversations
and durable runs in SQLite, and a terminal harness that talks to the server and
runs tools. This directory holds TLA+ models of its stateful parts, the TLC
configurations that check them on small instances, and TLAPS proofs that hold for
every instance. Paths below are relative to `src/internal/`.

## 1. The system

```
 shell (bubbletea) -- actions / events --> host adapter + production runtime
                                                |  Call / notifications
              connection manager, client, tool dispatcher -- tools, MCP servers
                                                |  unix socket or TLS, one JSON frame per line
   runtime server: accept loop -> one read loop per connection -> handlers
          |  one relay goroutine per turn               |
          |                                        SQLite store (WAL)
   capture proxy  --->  provider                         |
          `------------- captured requests --------------'
```

| Component | State it keeps | Operations | Talks to | What is hard |
|---|---|---|---|---|
| Run lifecycle: `runtime/` run_*.go, turn.go, streaming.go | run rows and events (durable); two registries of cancel functions; one relay per turn | turn.submit, turn.cancel, run.create, fork, cancel, attach, detach, heartbeat; the relay's events | store, provider, its connection's context | a handler reads the store and writes it later, while relays and other connections do the same; contexts die under both |
| Run storage: `storage/runs.go`, `turns.go` | runs, events, checkpoints, links, model calls | CreateRun(WithTurn), AppendRunEvent, LinkTurnToRun, RecordRunModelCall | SQLite | deferred transactions on snapshots that another commit overtakes |
| Sessions: `runtime/session.go`, `storage/sessions.go`, `cost.go`, `routing.go` | session rows with a lock; live sessions; grace timers | create, resume, fork, clear, model.switch, cost update | connections, store | a lock with an owner, an expiry, a timer and writers of the whole row |
| Conversation: `runtime/conversation.go`, `compact.go`, `sync.go` | messages and two counters in memory; the turns table | submit, assistant turn, tool result, clear, restore, fork, compact | sessions, relays, store | memory and table advance separately and one may miss what the other has |
| Server connections: `runtime/server.go`, `connection.go`, `capabilities.go` | slots, WaitGroup, protocol state, last ping, catalogue | accept, register, ping, gate, heartbeat monitor, Shutdown | every client | a peer that is silent, early or late; shutdown at any moment |
| Connection manager: `harness/connection.go`, `client.go` | state, current client, heartbeat, watcher, attempt counter | ConnectSync, heartbeat, watcher, reconnect loop, Disconnect | server, host | goroutines of an earlier connection act on the state of the next |
| Host session: `harnesshost/production_runtime.go` | session id, sequence, active run, mode | SubmitTurn, slash commands, bootstrap, tool loop | manager, server, shell | the host keeps its own idea of what the server counts |
| Shell and host adapter: `harnessshell/`, `harnesshost/adapter.go` | queue, transcript rows, permission dialog; attached run, pause buffer, detached text | keys, host events, actions | host session | events of a run before its acceptance or after its end; actions that overtake each other |
| Tool dispatcher, permissions, tools: `harness/tool_dispatcher.go`, `tools/` | remembered call ids, approvals, plan steps, files read | HandleToolCall, Execute, prompt, plan mode | server, shell, files | calls announced twice, deadlines, prompts under way, edits of one file |
| MCP: `harness/mcp*.go` | servers, clients, pending calls, registered tools | Launch, Reconnect, Shutdown, Call | subprocesses, tool registry | launches that overlap, end late, or lose their process |
| Proxy: `proxy/`, `correlation/` | none of its own; writes captured requests | detect, forward, copy, capture, save | providers, store | two readers of one stream; the save is asynchronous |
| Request storage: `storage/sqlite.go`, `pruner.go` | requests, hourly and daily totals, schema version | SaveRequest, RebuildMetrics, migrate | SQLite, other processes | totals beside rows; a file that two processes migrate |
| Providers: `runtime/providers.go`, `registry.go`, `dispatch.go`, `routing.go`; `provider/` | health, model catalogue, routing overrides | health checks, refresh, resolve, dispatch, format, parse | proxy or provider | windows that cut between a call and its result; five names for one endpoint |
| Command line, configuration, service, dashboard, rendering, spike, demo | files | wiring, queries, layout | all | start and shutdown order |

What makes each component correct: a run's log is append-only and gapless, its
row says what the log says, a completed run has its answer stored, a
cancelled one stops working and an outcome stays; at most one run per idempotency key; a lock is freed and
taken only by its owner, its expiry or the loss of its owner; turns come back in
the order they were made; no request is served before its connection is
registered, slots are bounded and come back, a clean shutdown leaves nothing
running; the harness shows Ready only for a registered client, and numbers turns
as the server does; what the user types is submitted once and in order, what is
asked can be answered and a decision serves the request it was made for; a tool
runs once per call, with the approval its kind asks for, and every call is
answered; a request reaches the endpoint it was routed to in a shape the provider
accepts, a turn that was sent ends, and its capture says what the run says. The
hazards list in PROJECT.json has the lines at which each of these could break.

## 2. Modules

| Module | Models | Extends / instantiates |
|---|---|---|
| `RunLog` | the abstract store of event logs: create, append, nothing else | |
| `RunLifecycle` | run handlers and relays over an atomic store | instance of `RunLog` |
| `RunLifecycleProofs` | its proofs | `RunLifecycle` |
| `RunStore` | the same tables as concurrent SQLite transactions | instance of `RunLog` with a mapping |
| `RunStoreProofs` | its proofs | `RunStore` |
| `Sessions` | the session lock | |
| `SessionsProofs` | its proofs | `Sessions` |
| `Conversation` | messages, counters and turns table | |
| `ConversationProofs` | its proofs | `Conversation` |
| `HostSession` | the host's counters beside the conversations | `Conversation` |
| `ServerConn` | connections of the server against any peer | |
| `HarnessConn` | the connection manager as that peer | `ServerConn` |
| `HarnessConnProofs` | proofs about both | `HarnessConn` |
| `Shell` | the shell's state as functions of a record | |
| `HostAdapter` | the adapter in front of it | `Shell` |
| `TerminalHost` | event loop, user, host goroutines and server events around the two | `HostAdapter` |
| `TerminalHostProofs` | its proofs | `TerminalHost` |
| `McpManager` | launches, clients and the registry of one MCP server | |
| `ToolDispatch` | tool calls from their announcement to their answer | `McpManager` |
| `ToolDispatchProofs` | proofs about both | `ToolDispatch` |
| `Wire` | truncation, message shapes and the two readings of a stream | |
| `RequestStore` | the database file: migration, requests, totals | |
| `Gateway` | a turn from routing to relay and capture, in one process | `Wire`, `RequestStore` |
| `GatewayProofs` | proofs about the three | `Gateway` |
| `MC*` | instances, symmetry sets, state constraints | the module of the name |

Conventions: a handler that touches the store twice is two actions, so that others
get in between; what happens under one mutex, or in one statement or transaction,
is one action. A goroutine starts running when it is created. A `None` stands for a
nil pointer or an empty string. Names follow the source. History variables, read by
properties only, are named as such where they are declared.

### RunLifecycle

`status`, `keyOf`, `attached`, `terminalAt` are columns of the `runs` row, `log` its
`run_events` in order, `saved` and `billed` whether the assistant turn's and the
model call's rows exist. They survive `Crash`. `conn`, `req` (the request a
connection's read goroutine is in, with the row it has read), `runs` and `turns`
(the two registries), `killed` (the cancel function was called), `relay`, `by` and
`chunks` (what is left of the provider's stream) do not.

* `Receive`, `SubmitLookup`, `RunCreateLookup`, `CreateForegroundRunWithTurn`,
  `CreateRunRecord`, `RouteFails`, `StageChanged`, `PromptPlan`, `ModelCall`,
  `DispatchFails` and the dispatch follow `handleTurnSubmit` and `createRunRecord`
  store call by store call; the control actions follow `run_controls.go` the same way.
* The relay's actions follow `Relay` in `streaming.go` and the deferred calls of
  the goroutine in `turn.go`: text and tool events, the assistant turn, the bill,
  the terminal event, the fallback when that failed, and the two deregistrations.
* `CtxDead` is the context of a relay, a child of its connection's: cancelled by
  turn.cancel, run.cancel or a lost connection. A store call under a dead context
  fails (`RelayAppend`); with `StoreMayFail` any may.

### RunStore

Rows as sets, and `tx`, the open AppendRunEvent of each writer: it reads
`last_event_seq` first and writes later, and a snapshot another commit has
overtaken makes the write fail with SQLITE_BUSY, which the busy timeout does not
retry. `LogOf` reads the rows as a sequence: that mapping takes every transaction
to a step of `RunLog`, as `RunLifecycle` takes every handler step.

### Sessions

`rows` has presence, owner and expiry of each session's row; `bound`, `timer` and
`req` the connection's session, its grace timer and its handler; `turns` the turns
in flight. `session.create`, `resume`, `fork`, `turn.submit` and `model.switch` are
modelled with the lock calls and row writes they make in order, `CostUpdate` as the
write of the whole row it is. Time is two events: a lock's TTL passes (`LockExpires`), or
a grace period does, whose release of the lock succeeds (`GraceFires`) or fails for
good (`GraceFails`: connection.go:311-313 drops the error).

### Conversation and HostSession

`conv` is the conversation in memory with `userSequence` and `storageSequence`,
`turns` the table, `relays` the streams that will add an assistant turn, `todo` the
tool calls a client knows of. A submit appends to memory first and stores run and
turn later; resume lists, then replaces; compaction lists, deletes and inserts.
`lost` remembers which conversations missed a turn of theirs (see section 5).
`HostSession` adds the host's `sid`, `sequence`, `activeRun`, and `refused`, whether
the server has turned a submission down for its number.

### ServerConn and HarnessConn

`process` is the server process and how far Shutdown got, `wg` and `slots` are
`Server.wg` and `Server.conns`, `stage` a connection's way from the dial to its end
with `Connection.state` in the middle, `open` and `peerOpen` the two ends of a
socket, `inbox` and `outbox` the frames in it, `serving` a slow handler under way,
`age` the monitor ticks since the last ping, `catalogue` whether capabilities.register
filled the manager. The peer of `ServerConn` is any program. `HarnessConn` is the
peer the repository has: a set of threads that run `ConnectSync` (`Start`, the loop
a disconnect watcher becomes, the loop a heartbeat starts), one heartbeat and one
watcher per client, and `Disconnect`. Each of its actions on a socket is one of
`ServerConn`'s.

A ping that its caller gave up loses its id from the client's pending map; here it
becomes `ping_given_up` (or `pong_unwanted`) on the wire, and its answer is dropped.

### Shell, HostAdapter and TerminalHost

The terminal program runs `Update` on one goroutine, so `Shell` and `HostAdapter` have
no actions: each operator is one call (`SubmitText`, `RunStarted`, `RunEnded`, `Esc`,
`MovePermission`; `ForwardDelta`, `ForwardResolved`, ...) that maps the record to the next one.
`TerminalHost` holds the pair in `ui` and has the concurrency: `tasks` are the goroutines
that the shell's actions start (submit, interrupt, resolve, the slash commands, the
replay after a reconnect), each with its place in `production_runtime.go`; `prompts`
the callbacks that wait for a decision with their channel of one; `runs` what the
server does, whose events the client's read loop hands over. `Program.Send` blocks
until its message is taken, so an event and the update it causes are one step.
Tasks of one batch may overtake each other.

### McpManager and ToolDispatch

`launches` are the goroutines of `Launch` and `Reconnect` with what they have listed and
registered, `entry` the `managedServer`, `alive` and `closed` processes and clients, `registry`
who serves a tool. Only the entry is protected by the manager's lock: registration
(`RegisterTool`) and `Install` are separate steps, and an overlapping launch gets between.
`calls` are the goroutines of `HandleEvent`: looked up, remembered or refused (`ToolCall`,
with the ring of `seenCapacity`), queued in plan mode (`Look`), judged (`Gate`, `Check`),
prompted, run, answered. The file that `Read`, `Edit` and `Write` share is the set of calls
that left their trace in it; `Edit` reads and writes it in two steps.

### Wire, RequestStore and Gateway

`Wire` is functions: `Truncate` with `Reconcile`, the three `Format*` shapes, the parsing of
stream events and the two foldings of them, the relay's `Accumulate` and the capture's
`ReassembleStream`. `Shapes` and `Streams` are what a conversation and a provider may produce.
`RequestStore` has `opener`, a process in `NewSQLiteStore` with the version it has read, and
the steps of the migration as the transactions they are; `SaveRequest` and `RebuildMetrics`
change rows and totals together. `Gateway` follows one turn: the catalogue, `ResolveForTurn`,
the dispatch, the proxy that looks the endpoint up again from path and headers (`Detect`,
`Director`), the copy, the capture and its save by a goroutine of its own, the relay that reads the
same stream and may leave it first, turn.cancel, a lost client, and the process that
drains, stops or crashes around it. The provider is external: it answers, delivers
events one by one, ends, breaks off, or does nothing.

## 3. Runs

Twelve runs, each under three minutes on two workers. Three of them are expected to
find a violation.

| Run | Instance | Shows |
|---|---|---|
| `run_lifecycle` | 2 connections, 2 runs, 1 key, 1 request each, drops, failing store, 1 crash | one run per key, row follows log, completed implies saved, and every step is a step of `RunLog` |
| `run_controls` | 1 connection, 2 runs, 3 requests of six kinds, drops; fair | cancellation stops the work, registries match relays, an outcome is kept but for two races, running runs settle |
| `run_store` | 2 writers, 2 runs, 2 turns, 3 events | gapless log, checkpoints, links, totals; refines `RunLog` |
| `sessions` | 2 connections, 2 sessions, 2 requests each, 1 crash; fair | the lock passes only as acquire and release allow; a lost connection does not keep a session for ever |
| `conversation` | 1 client, 2 sessions, 3 messages, 1 loss, KeepFloor 1 | table order is the order of making, counters right, recent turns survive compaction |
| `connections` | 2 sockets, limit 1, 2 starts of the server, 1 retry; fair | gate, slots, drainage, silent peers dropped, Ready only for a registered client |
| `shell` | 2 runs, 2 permission requests, 3 inputs of any kind, 1 text event per run | typed text is submitted once and in order; adapter and shell agree on what is asked; a decision serves its own request; a streaming shell has something to wait for |
| `tools` | 3 calls or launches, 2 ids, 5 tools (one MCP), memory of 1 id, 1 mode change | no id runs twice, nothing queued, denied or unapproved runs, edits of one file, every call answered, the MCP entry's tools served |
| `gateway` | 1 turn, 1 other client, 4 models on 3 endpoints, 1 hour, 3 opens of the file; fair | paired requests, capture agrees with run, totals count rows, open is migrated, right upstream, turns settle |
| `lock_kept` (violation) | 1 connection, 1 session | the cost update of a turn erases the lock of a connected client |
| `host_sequence` (violation) | 1 host, 2 sessions | after /clear the host's next turn is refused |
| `metrics_rebuild` (violation) | as `gateway`, 2 opens | after a rebuild no hour has its requests |

A type invariant is a property of a run where the module states one (`RunLifecycle`,
`HarnessConn`); elsewhere it is a part of the inductive invariant in the module's proofs.

### Bounds

* Two connections and two runs (or sessions, or writers) give every race between a
  pair of handlers, or a handler and a relay; the properties speak of one run, or
  of a pair of them.
* `MaxRequests`, `MaxChunks`, `MaxMessages`, `MaxEvents` cap what is sent, not what
  the code does with it. One chunk is enough to have the relay past its first
  event; three messages are a user turn, its answer and a second submit.
* `MaxTracked` 1 with two runs fills the registries and makes them evict; 2 is the
  instance in which nothing is evicted and every relay can be cancelled.
* `MaxCrashes`, `MaxLosses`, `MaxStarts` 1 or 2: a second crash finds the durable
  state a first one left, which is a state a first crash may also find.
* `KeepFloor` is 3 in the code; 1 makes a compaction happen within three messages.
* `MissedTicks` 1: the monitor's ticks are its clock, and one tick is the shortest
  timeout that lets a ping arrive in time or not. `DegradedAt` and `ReconnectAt`
  1 and 2 keep the code's order of 3 and 5.
* `MaxUnread` 1: a writer blocks while the socket holds an unread frame, so that a
  slow reader is felt at once. `Calls` keeps one unread call per connection.
* `MaxConnections` 1 with two sockets reaches the limit.
* The constraint of `conversation` stops at states in which a conversation missed a
  turn; its properties say nothing beyond that point.
* `MaxInputs` 3 counts messages, keys, commands and lost connections together: two
  messages and the key that releases or interrupts them, or a command around each.
  Two runs are the one that ends and the one the queue starts; two requests are the
  fewest whose order and whose active one can change.
* `MaxCalls`, `MaxWork` 3 and `MaxLaunches` 2: two overlapping edits and a Write, an id
  announced again after another, or a call beside two launches. `SeenCapacity` is 1024
  in the code; 1 makes the memory forget within three calls.
* Conversations of up to four messages and two tool calls, the last one with or without results, against `Windows` 0 to 3 put
  the cut before, inside and after every pair of call and result.
* `MaxOpens` 3: two processes that migrate one file, and one that comes back after a
  crash. One hour is enough where the day has the same code; the client's request
  fills the totals beside the turn's.
* `Switched` is one model: an override is there or not, and which of two known models
  it names changes nothing.
* Deadlock is not checked where requests, sockets, inputs or retries run out and the
  system may rest; it is in `run_store`.
* Symmetry is used only for identifiers that no definition tells apart, and in no run
  that checks a liveness property.

### Fairness

Weak fairness, and only of what Go, the operating system or a timeout runs: a handler that
has begun and a relay (`RunLifecycle`; the stream's read returns because the HTTP
client has a timeout of 300 s), a grace timer that is set and the time of a lock
(`Sessions`: the timer fires, but its store call may fail each time; five minutes after its
acquisition a lock may be taken by anyone), the
server's connection goroutines (`ServerConn`: the handler, the monitor's ticker,
the read loop, the end of a slow handler, the end of `Run`), and in `Gateway` the relay's
reads, the same timeout, the proxy's handler and the goroutine that saves. No client, user,
provider, crash or reconnect is obliged to happen. The harness's and the terminal's
threads have no fairness: the properties about them are safety properties.

## 4. Proofs

Every invariant and every action property that a passing run checks is also a theorem,
for any sets of connections, runs, sessions, calls, requests and processes and any value
of the bounds; three about runs have a hypothesis, which is named with them below. Each module proves that an inductive invariant holds first and every
step keeps it (one lemma per action, or per group of actions that disturb the same
part), and reads the properties off it.

Assumptions on the constants are named in the module that declares them. Most say that a
bound is a natural number and that `None` is no id. Those that say more:

* `ServerConnAssumption`: finitely many sockets. `RequestStoreAssumption`: finitely many
  hours, as one may add up a table only if it is finite.
* `HarnessConnAssumption`: `DegradedAt < ReconnectAt`; they are 3 and 5 in the code.
* `ToolAssumption`: no MCP tool has the name of a built-in one; the names of MCP tools
  begin with `mcp/` (mcp_tool.go:36).
* `HostAssumption`: a decision is not the absence of one.
* `GatewayAssumption`: an endpoint's key is unique, as the configuration is a map by
  key; keys the proxy has no adapter for are all `"other"`, and several may be.
* `WireAssumption`, of the conversations a turn is submitted with (`Submitted`): the
  assistant makes the calls, the user's messages answer them, later, and the last message is what
  the user has said, perhaps with results, and not empty because the shell submits no empty line (queue.go:123).
  Nothing bounds their length, and calls without an answer are allowed.

`RunLifecycleProofs`:

* `Invariance`: `IInv == TypeOK /\ InFlight`. TypeOK alone is not inductive: a handler
  appends to the run it read, so one must know that this run exists and has a log
  (`ActsOn`), that a relay's run exists, and that a run without a row has neither key
  nor log. One lemma per action shows `Good`: that the invariant is kept and that the
  step is a creation, an append or neither on the durable part.
* `TypeCorrect`, `IdempotentCreation` (`OneRunPerKey`), `RefinesRunLog`
  (`ImplementsRunLog`) and `RowFollowsLog` (`StatusFollowsLog`) all follow from
  `Good`: they speak of the durable part only, whichever handler wrote it.
* `CompletedMeansSaved` (`CompletedIsSaved`): a relay that is about to write
  run.completed has stored the turn (`SavedFirst`), and nobody else writes that event.
* `RelaysStayTracked` (`RegistryTracksRelays`) needs `HasRoom`: when a relay is registered,
  neither table is full. The code evicts an entry from a full table, and the relay of that
  entry cannot be cancelled through it any more, which is just what the property denies,
  so that it needs this hypothesis or another that keeps live entries in the table.
  `BoundedRelaysStayTracked` discharges it where there are no more runs than
  `MaxTracked`. `TrackInv` adds that a run is launched by one request only, once.
* `CancelledStopsWork` (`NoWorkAfterCancelled`) and `RunsKeepTheirOutcome` (`OutcomeIsKept`) hold
  under `OneClient` and room in the tables, which is how `run_controls` checks them: with a second
  connection they are false, as a run.cancel between two stage events of a turn.submit is
  overwritten (section 5). One client has one read loop, so it cannot cancel what
  it is still submitting. `ClientInv`: a run being launched is `running`; a handler about
  to append run.cancelled has stopped the relay (`RequestInv`); the relay of a terminal
  run has a dead context and so appends nothing (`StreamInv`); and dead contexts stay
  dead (`ContextsDie`). The two writes that may change an outcome, a run.cancel that read the run
  before it ended and the fallback that did, are excepted in `OutcomeIsKept` itself.

`RunStoreProofs`:

* `StoreInvariance`. What makes it inductive is `SnapshotsHold`: an append reads
  `last_event_seq` in one step and writes in another, and the two agree only because a
  write needs a snapshot that no commit has overtaken, in which the run's row is still
  what was read. Around it stand the facts on the rows: a run without a row has no
  key (`AbsentIsBlank`), a link names a turn that exists (`LinksKnown`), the events of a
  run are numbered 1 to `last_event_seq` without a gap, and its latest checkpoint has
  the number of its last event.
* `EventsAreNumbered` (`LogIsGapless`), `CheckpointIsLatest` (`CheckpointsMatchLog`),
  `TurnHasOneRun` (`OneRunPerTurn`), `BilledOnce` (`TotalsCountCallsOnce`).
* `TransactionsImplementLog` (`ImplementsRunLog`): a gapless set of numbered rows reads
  as one sequence (`Reads`), and inserting the next number appends to it
  (`LogGrows`); every other step leaves the sequences alone.

`SessionsProofs`:

* `SessionInvariance`: a connection whose handler is under way is up, a pending grace timer
  is for the session that a lost connection was bound to, and whoever owns a lock, in a row
  or in the copy of a row that a handler carries, has been connected. That the owner still is, or
  has a timer, is not true: a failed session.resume, a change of session, a failed release
  and model.switch leave locks behind, which only their TTL frees (`SessionIsFreed`).
* `LockIsDisciplined` (`LockDiscipline`) is proved along the same case split, because it
  speaks of steps: outside the writers of whole rows, `UPDATE ... WHERE` decides in
  the statement itself, so that what a handler read before does not matter.

`ConversationProofs`:

* `ConversationInvariance`: `ConversationInv == Structure /\ Numbers /\ InOrder`. All a session has of a turn is put in
  one record, its view: the message in memory, the row, the request or the relay that
  carries it. `Numbers`: at most one carrier has a sequence, and the number of a message
  tells its sequence. `InOrder`: while no memory missed a turn, sequences are in the order of
  making and the counter is past all of them. Lemmas about views without variables
  say what submitting, storing, restoring and compacting do, and each action is one of them.
* `TurnsAreInOrder` (`StoredInOrder`), `SequenceIsCounted` (`SequenceCountsUserTurns`:
  what each way of filling a conversation does to the number of its user messages) and
  `RecentTurnsAreKept` (`RecentTurnsSurvive`: what compaction deletes was old when it was
  listed, and turns have only been added since).

`HarnessConnProofs`:

* `ServerInvariance`, against any peers: `Counted` says that the WaitGroup is the accept
  loop plus the connections that have a goroutine, that `Server.conns` is exactly the
  set of running read loops, and that a clean shutdown has a WaitGroup of zero; without
  the first, `wg = 0` says nothing about goroutines. `CatalogueKnown` adds that a ready
  connection has its catalogue, without which the gate's check of the state means
  nothing. The counting rests on `BusyCount`, four facts about the cardinality of a finite set.
  `NothingServedEarly`, `SlotsBounded`, `ShutdownDrains` are its consequences.
* `ConnInvariance`: `AnsweredTruly` says that a registration's answer on the wire comes with a catalogue
  that is filled, and `Threading` that a connection is dialled by one thread, which arms
  its heartbeat and its watcher once, so that no goroutine's place is taken twice.
  `ClientKnown`: the current client is registered, or a thread is still registering it, or
  the manager has failed. `HarnessTypesOK` (`TypeOK`) and `ReadyMeansRegistered`
  (`ReadyIsRegistered`) follow.
* `HarnessImplementsServer`: `Spec => ServerSpec`. Each step of the manager is one of a
  peer of the server, or none; so `ServerSafeUnderHarness` has the server's three
  properties for the composed system without a second proof.

`TerminalHostProofs`:

* `HostInvariance`: adapter and shell have the same requests, each once, and text is held
  back for no other reason (`AdapterInv`); a goroutine carries what its kind needs, and
  an approval only if the user gave it (`TasksInv`, `ApprovedInv`); a request not yet made is
  not pending (`AskedInv`); a shell that streams waits for a call or a run (`StreamInv`);
  what was sent, followed by what is queued, is in the order typed (`SaidInv`). As `Shell`
  and `HostAdapter` are functions of a record, each has a lemma of its own
  that says which parts of the invariant it keeps, and an action cites one or two.
* `TypedStaysInOrder` (`TypedIsKeptInOrder`), `PromptsStayAgreed` (`PromptsAgree`),
  `ToolsRunOnApproval` (`OnlyApprovedToolsRun`), `StreamsCanEnd` (`StreamingHasAnEnd`).

`ToolDispatchProofs`:

* `ToolInvariance`: `IInv == McpInv /\ CallInv`. `McpOwned` is the heart of the first: the
  client in the manager's entry belongs to a launch that has ended and was not
  closed, so that a launch under way is neither replaced nor closed by another and
  what it registered is its own. Of the second, an approval is given at most once
  and before the call starts, and what is remembered is in memory (`Approvals`);
  and of the edits of one file (`Edits`), two that are open together are both
  marked as overlapping, and an unmarked edit has read every change that an
  unmarked edit before it has made.
* `ApprovedBeforeRun` (`RunsAreApproved`: also no call that plan mode queued or the user
  denied is run, since each call that runs has gone from `Look` through `Check` to its
  own approval or a remembered one), `LoneEditsStay` (`EditsStay`: an edit that
  overlapped no other is not lost) and `EntryServesItsTools` (`ListedToolsAreServed`).
* `MemoryInvariance`: every id behind a call's own in the ring was announced after that
  call (`RingFollows`), so an id that has left a ring of `SeenCapacity` has that many others
  after it. `RepeatedIdsAreCaught` (`IdsRunOnce`) and `EveryCallIsAnswered`
  (`CallsAreAnswered`) follow for every capacity, 1024 included.

`GatewayProofs`:

* `GatewayInvariance`: `SchemaInv` relates the step a process is at, the version in the file and the
  tables that exist: a process that has passed a step has its tables, whoever puts the version
  back. `TotalsInv`: both tables of totals sum to the rows. `RunsInv`, for each run: the
  `Stage` of its turn against its exchange (idle, sent, streaming, done), what the copy and
  the save hold (`Saving`), and what a row tells (`Saved`).
* `OpenerHasItsTables` (`OpenIsMigrated`), `TotalsAgreeWithRows` (`TotalsCountRows`),
  `RequestReachesItsUpstream` (`ReachesItsUpstream`).
* `CaptureTellsTheSame` (`CaptureAgrees`): for each stream a provider may send, what the
  relay has accumulated at the terminal event is what the capture reassembles from the
  whole; streams have a bounded number of events in the model, so that this is
  a computation, while where each reader has got to is the invariant's business.
* `RequestsKeepPairs` (`RequestsArePaired`) is about `Wire` and conversations of any length: the
  suffix the cut keeps ends with the user's message; after `Reconcile` the calls and the results
  of the whole are the same set; removing empty messages keeps every pair and its order;
  and no adapter's format loses one without the other. Of what the user said last, OpenAI's
  format keeps the results alone when there are any, as the theorem says.

Recursion. `FlattenSeq`, `FoldLeft` and the sums over sets are recursive in the
library, and its induction theorems take an operator as a parameter, which the
provers cannot instantiate. What these operators compute for every argument is proved by
the least counterexample instead: a formula that fails for some natural number fails for
a least one (`WFMin` with `NatLessThanWellFounded`), and there one unfolding of the
recursion contradicts it. That needs the operator's definition, so `NotEmpty`, the last stage
of `Truncate`, is a `FoldLeft` and not a `SelectSeq`, of which the prover has no definition.

Only model-checked. The properties under fairness (`RunsSettle`, `SessionIsFreed`,
`SilentPeerLosesSlot`, `TurnsSettle`), as liveness is out of the prover's reach; and
`HostSession`, whose only property is the one the code violates.

## 5. Where code and documents part

Shown by a violation run, quoted in PROJECT.json "findings": the lock of a connected
client erased by the cost update (cost.go:62), the host's counter after /clear
(production_runtime.go:134), the rebuild whose format has every `%` doubled, so that all
rows fall into one hour that is none (sqlite.go:900).

Modelled, with no run of their own.

Runs and conversations:

* A run cancelled while its turn.submit is being prepared is reopened: the stage
  events write the status `running` over `cancelled` (turn.go:227). `OutcomeIsKept` and
  `NoWorkAfterCancelled` are therefore stated for one client.
* No append looks at the status it replaces. A run.cancel that read an active run writes
  `cancelled` over `completed` or `failed` (run_controls.go:181), and the fallback after a
  relay that failed writes `failed` over `cancelled` (turn.go:277-278): the last writer wins, as
  the project's own review found (v0.3.0-implementation-review.md:159-160, put off at :258).
  `OutcomeIsKept` excepts these two and nothing else.
* turn.cancel cancels the context first and appends the terminal event under it, so
  that the append fails, its error is dropped and the run stays `running`
  (streaming.go:335).
* The partial text of a cancelled or failed stream is not stored. A lost
  connection kills the relay, and its run stays `running`; nothing recovers it
  after a restart.
* run.attach does not repeat its check in the append, so two attaches both win;
  an attachment to a lost connection is never given up.
* SQLITE_BUSY makes an append fail, and the callers drop the error: events and
  even the terminal event may be missing (the log stays gapless).
* model.switch writes back the row it read, with a stale lock. A connection that
  changes session frees only its last one. A ping does not refresh the lock.
  `LockDiscipline` exempts writers of whole rows for this reason.
* The release of a lost connection's lock is tried once and its error dropped
  (connection.go:311-313). After that, as after a crash, the lock keeps other clients out
  until its TTL has passed: that much is what `SessionIsFreed` promises.
* turn.submit and session.clear do not look at the lock, so two clients may work on
  one conversation and answer one tool call twice.
* session.clear, a restart without resume, or a resume while a relay is storing make
  the sequences of new turns collide with old ones: `StoredInOrder` is conditional
  on `lost = {}`.
* A tool.result that arrives before its stream has ended is refused, because the
  assistant turn with the call is stored at the end (streaming.go:248, sync.go:39-40).
* Compaction deletes, then inserts: a failure in between loses the turns.

Connections and the terminal:

* `validHarnessTransitions` (harness/connection.go:104) has no transition out of
  `failed`, and what the table does not list is dropped: a connect that succeeds
  after a failure registers its client and the state stays `failed`.
* A heartbeat-driven reconnect leaves the old client's watcher armed; when the server
  drops the old client it stops the new heartbeat and reconnects once more.
* Disconnect during a connect leaves a live client. Shutdown does not close a
  connection that has not reached `Server.conns`, and then waits for its deadline.
* A slow turn.submit holds the read loop: pings queue behind it and the monitor may
  drop a healthy connection.
* The host never forgets the active run, so /clear is refused until /detach.
* Every turn.complete becomes RunCompleted, that of a failed or cancelled turn and
  that of a run in the background too (harness/connection.go:624); the shell then
  releases its queue (harnessshell/events.go:280-282).

Tools:

* The executor remembers every approval for its tool and the session
  (tools/framework.go:270-275), against three texts: an approve-once is "for the current
  invocation only" (harnessshell/types.go:79); of an MCP tool "every call prompts in
  non-autonomous modes" (harness/mcp_tool.go:53-56); and "approving example.com doesn't
  blanket-approve the whole WebFetch tool" (tools/permission.go:39-41). `RunsAreApproved` says
  what is left: nothing queued or denied runs, a dangerous command has an approval of
  its own, and any other gated call one of its tool.
* Plan mode is read once, before the prompt; a call approved while the mode changes
  runs under the old one. A permission request that times out stays on the screen.
* Two edits of one file that overlap lose one of the changes: `EditsStay` speaks of the
  others.
* The MCP reader does not fail the pending calls at the end of its stream; each waits
  for its own deadline. A launch that overtakes another leaves the first one's tools
  registered with a client whose process is gone: `ListedToolsAreServed` speaks of those the
  entry has.

Gateway:

* An OpenAI-compatible endpoint under a key other than the known ones, or one without
  `upstream:`, goes through the proxy to the default upstream (proxy/server.go:80,
  start.go:92-97; usage-guide.md:643 shows such endpoints). `ReachesItsUpstream` speaks
  of the rest.
* Two processes that open a fresh file: the second runs the first migration after
  the first process is done, sets `user_version` back to 1, fails in the next one, and so does every
  later open (sqlite.go:133-189).
* A capture is saved by a goroutine that shutdown does not wait for, and a stream that was
  aborted or cancelled is not captured. A compressed answer is captured without text
  and tokens.
* A window of 0 means that the length is unknown, and then calls without results stay in
  the request: `RequestsArePaired` speaks of requests that were cut.
* The OpenAI adapter makes tool messages of a user's message with tool results and drops
  the text that came with them (provider/openai.go:412-415, 525-540), so such a request ends with
  the results: `RequestsArePaired` excepts it.
* The catalogue is built once from the first health checks; what later checks find
  reaches no turn. The dispatch drops the request's tools and capabilities.
* A cancelled relay that waits in `Next` learns of it with the next event, or with the
  client's timeout of 300 s.

## 6. Not modelled

PROJECT.json lists every component with its status. Left out as a whole, because no
step of theirs depends on another: prompt assembly, command history, context
references, protocol types, diagnostics, the dashboard, rendering, spike and demo.

Of the modelled components: authentication over TLS (one step with initialisation),
frame decoding, the wording of errors, token and cost amounts, read-only methods,
editing of the input line and layout, what a command or a search returns, the text of JSON
fields and headers, service files. A manager whose AutoStart is off fails where
`AutoStarted` may fail.

Code that nothing in production calls: `ConnectionManager.Reconnect`,
`ForceReleaseSessionLock`, `DeleteSessionsBefore`, `Deactivate`; the pruner, though
README.md:87 and usage-guide.md:229 document its `retention_days`; `Steps` and `Clear` of
`PlanAccumulator`; the MCP manager itself, whose model follows its own code and
tests. `waiting_permission` is never written, so that run.resolve_permission, retry
and continue only refuse.

Seen while reading, below the models' level of detail: of several parallel tool calls
the OpenAI adapter announces only the last, and Anthropic's `content_block_stop` announces the
last one again; an error in the middle of an Anthropic stream counts as its end;
Ollama's last event loses its usage; a chunk with text and usage at once would make relay and capture
differ; the cost update also erases `model_override`; MLX has no adapter.

## 7. Plan

1. *Done*: run lifecycle and storage, sessions, conversation, host session,
   connections on both sides, shell and adapter, tools and MCP, routing, proxy,
   capture and request storage; proofs of every invariant and action property
   that the passing runs check.
2. Proofs left: `EntryServesItsTools` and the approvals restated over the composed
   terminal and dispatcher; `Truncate` against a specification of the longest suffix
   that fits; an abstract session lock that `Sessions` implements.
3. Models left: prompt trimming and the history cursor as algorithms against reference
   definitions; several MCP servers; connections and gateway in one composition.
