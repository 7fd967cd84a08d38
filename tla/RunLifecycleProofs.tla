------------------------- MODULE RunLifecycleProofs -------------------------
(***************************************************************************)
(* Safety of RunLifecycle for every set of connections, runs and keys and  *)
(* every value of the bounds.                                              *)
(***************************************************************************)
EXTENDS RunLifecycle, SequenceTheorems, FiniteSetTheorems, TLAPS


\* What the handlers and relays in flight rely on: the run they act on exists,
\* and has events; a run that does not exist has neither key nor events.
HasRun == {"route", "call", "dispatch", "cancel", "cancel_append", "attach", "detach", "heartbeat"}
ActsOn(q) == q.at \in HasRun => q.run \in Run /\ Present(q.run) /\ q.seen # "absent"
WillActOn(q) == q.at \in HasRun => q.run \in Run /\ status'[q.run] # "absent" /\ q.seen # "absent"
InFlight ==
    /\ \A c \in Conn : ActsOn(req[c])
    /\ \A r \in Run : relay[r].at # "none" => Present(r)
    /\ \A r \in Run : IF Present(r) THEN log[r] # <<>>
                      ELSE log[r] = <<>> /\ keyOf[r] = None /\ ~terminalAt[r]

IInv == TypeOK /\ InFlight

\* The invariant by the state it is about: the store, the requests, the relays
\* and the rest.
StoreOK ==
    /\ status \in [Run -> Status]
    /\ keyOf \in [Run -> Key \cup {None}]
    /\ attached \in [Run -> Conn \cup {None}]
    /\ terminalAt \in [Run -> BOOLEAN]
    /\ log \in [Run -> Seq(Event)]
    /\ saved \in [Run -> BOOLEAN]
    /\ billed \in [Run -> BOOLEAN]
    /\ \A r \in Run : IF Present(r) THEN log[r] # <<>>
                      ELSE log[r] = <<>> /\ keyOf[r] = None /\ ~terminalAt[r]
RequestsOK == req \in [Conn -> Request] /\ \A c \in Conn : ActsOn(req[c])
RelaysOK == relay \in [Run -> RelayState] /\ \A r \in Run : relay[r].at # "none" => Present(r)
RestOK ==
    /\ conn \in [Conn -> {"new", "up", "down"}]
    /\ left \in [Conn -> Nat]
    /\ runs \in SUBSET Run
    /\ turns \in SUBSET Run
    /\ killed \in [Run -> BOOLEAN]
    /\ by \in [Run -> Conn \cup {None}]
    /\ chunks \in [Run -> Nat]
    /\ crashes \in Nat

\* A store step of the server, whichever handler or relay takes it.
Created ==
    \E r \in Run, k \in Key \cup {None}, st \in {"queued", "running"}, c \in Conn \cup {None} :
        CreateRun(r, k, st, c)
Appended ==
    /\ UNCHANGED keyOf
    /\ \E r \in Run, typ \in EventType, st \in Status, c \in Conn \cup {None} :
        Present(r) /\ st # "absent" /\ AppendRunEvent(r, typ, st, c)
Untouched == UNCHANGED <<status, keyOf, attached, terminalAt, log>>

StoreStep == Created \/ Appended \/ Untouched
Good == IInv' /\ StoreStep

\* No step deletes a run.
RowsStay == \A r \in Run : Present(r) => Present(r)'

USE DEF Terminal, Status, LifecycleType, EventType, Event, RelayLive

\* The invariant is the four parts, by the state each is about.
LEMMA Parts == IInv <=> StoreOK /\ RequestsOK /\ RelaysOK /\ RestOK
  BY DEF IInv, TypeOK, InFlight, StoreOK, RequestsOK, RelaysOK, RestOK

\* The same of the next state.
LEMMA PartsNext == IInv' <=> StoreOK' /\ RequestsOK' /\ RelaysOK' /\ RestOK'
  BY DEF IInv, TypeOK, InFlight, StoreOK, RequestsOK, RelaysOK, RestOK

-----------------------------------------------------------------------------
(* The store calls *)

\* A step that writes no row keeps the store.
LEMMA StoreKept ==
    ASSUME StoreOK, UNCHANGED durable
    PROVE  StoreOK' /\ Untouched /\ RowsStay
  BY DEF StoreOK, durable, Untouched, RowsStay, Present

\* AppendRunEvent, or its failure, keeps the store and deletes no run.
LEMMA AppendStep ==
    ASSUME StoreOK, NEW r \in Run, Present(r), NEW typ \in EventType,
           NEW st \in Status \ {"absent"}, NEW c \in Conn \cup {None},
           TryAppend(r, typ, st, c), UNCHANGED <<keyOf, saved, billed>>
    PROVE  StoreOK' /\ StoreStep /\ RowsStay
<1>1. CASE AppendRunEvent(r, typ, st, c)
  <2>1. Appended
    BY <1>1 DEF Appended
  <2>2. [type |-> typ, status |-> st] \in Event
    OBVIOUS
  <2>3. log' \in [Run -> Seq(Event)]
    BY <1>1, <2>2 DEF AppendRunEvent, StoreOK
  <2>4. /\ status' \in [Run -> Status]
        /\ attached' \in [Run -> Conn \cup {None}]
    BY <1>1 DEF AppendRunEvent, StoreOK
  <2>5. terminalAt' \in [Run -> BOOLEAN]
    BY <1>1 DEF AppendRunEvent, StoreOK
  <2>6. \A s \in Run : s # r => /\ status'[s] = status[s] /\ log'[s] = log[s]
                                /\ terminalAt'[s] = terminalAt[s]
    BY <1>1 DEF AppendRunEvent, StoreOK
  <2>7. Present(r)' /\ log'[r] # <<>>
    <3>1. log'[r] = Append(log[r], [type |-> typ, status |-> st]) /\ log[r] \in Seq(Event)
      BY <1>1 DEF AppendRunEvent, StoreOK
    <3>2. log'[r] # <<>>
      BY <2>2, <3>1, AppendProperties
    <3> QED
      BY <1>1, <3>2 DEF AppendRunEvent, Present, StoreOK
  <2>8. \A s \in Run : Present(s)' <=> Present(s)
    BY <2>6, <2>7 DEF Present
  <2>9. \A s \in Run : IF Present(s)' THEN log'[s] # <<>>
                       ELSE log'[s] = <<>> /\ keyOf'[s] = None /\ ~terminalAt'[s]
    BY <2>6, <2>7, <2>8 DEF StoreOK
  <2> QED
    BY <2>1, <2>3, <2>4, <2>5, <2>8, <2>9 DEF StoreOK, StoreStep, RowsStay
<1>2. CASE StoreUnchanged
  BY <1>2 DEF StoreUnchanged, Untouched, StoreOK, StoreStep, RowsStay, Present
<1> QED
  BY <1>1, <1>2 DEF TryAppend

\* A lifecycle event keeps the attachment, so AppendStep covers it.
LEMMA LifecycleStep ==
    ASSUME StoreOK, NEW r \in Run, Present(r), NEW typ \in EventType,
           NEW st \in Status \ {"absent"},
           TryLifecycle(r, typ, st) \/ RelayAppend(r, typ, st), UNCHANGED <<keyOf, saved, billed>>
    PROVE  StoreOK' /\ StoreStep /\ RowsStay
<1>1. CASE TryLifecycle(r, typ, st)
  <2>1. attached[r] \in Conn \cup {None}
    BY DEF StoreOK
  <2> QED
    BY <1>1, <2>1, AppendStep DEF TryLifecycle
<1>2. CASE StoreUnchanged
  BY <1>2 DEF StoreUnchanged, Untouched, StoreOK, StoreStep, RowsStay, Present
<1> QED
  BY <1>1, <1>2 DEF RelayAppend

\* Creating a run with its first event keeps the store and deletes no run.
LEMMA CreateStep ==
    ASSUME StoreOK, NEW r \in Run, NEW k \in Key \cup {None}, NEW st \in {"queued", "running"},
           NEW c \in Conn \cup {None}, CreateRun(r, k, st, c)
    PROVE  StoreOK' /\ StoreStep /\ RowsStay /\ Present(r)'
<1>1. <<[type |-> "started", status |-> st]>> \in Seq(Event)
  OBVIOUS
<1>2. log' \in [Run -> Seq(Event)]
  BY <1>1 DEF CreateRun, StoreOK
<1>3. Created
  BY DEF Created
<1>4. status' \in [Run -> Status] /\ status'[r] = st /\ log'[r] # <<>>
  BY DEF CreateRun, StoreOK
<1>5. \A s \in Run : s # r => /\ status'[s] = status[s] /\ log'[s] = log[s] /\ keyOf'[s] = keyOf[s]
  BY DEF CreateRun, StoreOK
<1>6. /\ keyOf' \in [Run -> Key \cup {None}]
      /\ attached' \in [Run -> Conn \cup {None}]
      /\ UNCHANGED <<terminalAt, saved, billed>>
  BY DEF CreateRun, StoreOK
<1>7. Present(r)' /\ \A s \in Run : s # r => (Present(s)' <=> Present(s))
  BY <1>4, <1>5 DEF Present
<1> QED
  BY <1>2, <1>3, <1>4, <1>5, <1>6, <1>7 DEF StoreOK, StoreStep, RowsStay

-----------------------------------------------------------------------------
(* The requests and the relays *)

\* Requests that stay as they are still act on runs that exist.
LEMMA RequestsKept ==
    ASSUME RequestsOK, RowsStay, UNCHANGED req
    PROVE  RequestsOK'
  BY DEF RequestsOK, RowsStay, ActsOn

\* A handler that moves on still acts on a run that exists.
LEMMA RequestMoves ==
    ASSUME RequestsOK, RowsStay, NEW c \in Conn, NEW q \in Request, WillActOn(q),
           req' = [req EXCEPT ![c] = q]
    PROVE  RequestsOK'
<1>1. req' \in [Conn -> Request]
  BY DEF RequestsOK
<1>2. ASSUME NEW d \in Conn
      PROVE  ActsOn(req[d])'
  <2>1. CASE d = c
    BY <2>1 DEF RequestsOK, ActsOn, WillActOn, Present
  <2>2. CASE d # c
    BY <2>2 DEF RequestsOK, RowsStay, ActsOn
  <2> QED
    BY <2>1, <2>2
<1> QED
  BY <1>1, <1>2 DEF RequestsOK

\* A reply leaves the connection without a request.
LEMMA ReplyStep ==
    ASSUME RequestsOK, RowsStay, NEW c \in Conn, Reply(c)
    PROVE  RequestsOK'
<1>1. Idle \in Request /\ Idle.at \notin HasRun
  BY DEF Idle, Request, HasRun
<1>2. WillActOn(Idle)
  BY <1>1 DEF WillActOn
<1> QED
  BY <1>1, <1>2, RequestMoves DEF Reply

\* Relays that stay as they are still relay runs that exist.
LEMMA RelaysKept ==
    ASSUME RelaysOK, RowsStay, UNCHANGED relay
    PROVE  RelaysOK'
  BY DEF RelaysOK, RowsStay

\* A relay that moves on, or starts, relays a run that exists.
LEMMA RelayMoves ==
    ASSUME RelaysOK, RowsStay, NEW r \in Run, Present(r), NEW x \in RelayState,
           relay' = [relay EXCEPT ![r] = x]
    PROVE  RelaysOK'
<1>1. relay' \in [Run -> RelayState]
  BY DEF RelaysOK
<1>2. \A s \in Run : relay'[s] = IF s = r THEN x ELSE relay[s]
  BY DEF RelaysOK
<1> QED
  BY <1>1, <1>2 DEF RelaysOK, RowsStay

-----------------------------------------------------------------------------
(* Connections *)

\* A connection comes up or goes down.
LEMMA ConnectionStep ==
    ASSUME IInv, NEW c \in Conn, Connect(c) \/ Drop(c)
    PROVE  Good
<1>1. RestOK'
  BY Parts DEF RestOK, Connect, Drop, registry
<1> QED
  BY <1>1, Parts, PartsNext, StoreKept, RequestsKept, RelaysKept
     DEF Good, StoreStep, Connect, Drop

\* A crash of the server leaves the rows; handlers and relays are gone.
LEMMA CrashStep ==
    ASSUME IInv, Crash
    PROVE  Good
<1>1. RestOK'
  BY Parts DEF RestOK, Crash
<1>2. StoreOK' /\ Untouched /\ RowsStay
  BY Parts, StoreKept DEF Crash
<1>3. Idle \in Request /\ Idle.at \notin HasRun
  BY DEF Idle, Request, HasRun
<1>4. RequestsOK'
  BY <1>3, Parts DEF RequestsOK, ActsOn, Crash
<1>5. \A r \in Run : [at |-> "done", outcome |-> relay[r].outcome] \in RelayState
  BY Parts DEF RelaysOK, RelayState
<1>6. \A r \in Run : /\ relay'[r] \in RelayState
                     /\ relay'[r].at # "none" => relay[r].at # "none"
  BY <1>5, Parts DEF RelaysOK, Crash
<1>7. RelaysOK'
  BY <1>2, <1>6, Parts DEF RelaysOK, RowsStay, Crash
<1> QED
  BY <1>1, <1>2, <1>4, <1>7, PartsNext DEF Good, StoreStep

-----------------------------------------------------------------------------
(* Requests *)

\* What a step of a handler leaves to the rest of the server.
LEMMA RestKept ==
    ASSUME RestOK, NEW c \in Conn,
           \/ UNCHANGED left
           \/ left[c] > 0 /\ left' = [left EXCEPT ![c] = @ - 1],
           UNCHANGED <<conn, registry, by, chunks, crashes>>
    PROVE  RestOK'
  BY DEF RestOK, registry

\* turn.submit and run.create look their key up: the run found is the answer.
LEMMA LookupStep ==
    ASSUME IInv, NEW c \in Conn, SubmitLookup(c) \/ RunCreateLookup(c)
    PROVE  Good
<1>1. PICK k \in Key \cup {None}, next \in {"create_turn", "create_run"} :
        /\ left[c] > 0
        /\ left' = [left EXCEPT ![c] = @ - 1]
        /\ Reply(c) \/ Start(c, next, None, k, "absent")
        /\ UNCHANGED <<durable, conn, registry, relay, by, chunks, crashes>>
  BY DEF SubmitLookup, RunCreateLookup, Lookup, Receive
<1>2. StoreOK' /\ Untouched /\ RowsStay
  BY <1>1, Parts, StoreKept
<1> DEFINE q == [at |-> next, run |-> None, key |-> k, seen |-> "absent"]
<1>3. q \in Request /\ q.at \notin HasRun
  BY DEF Request, HasRun
<1>4. RequestsOK'
  BY <1>1, <1>2, <1>3, Parts, ReplyStep, RequestMoves DEF Start, WillActOn
<1> QED
  BY <1>1, <1>2, <1>4, Parts, PartsNext, RestKept, RelaysKept DEF Good, StoreStep

\* A control request reads its run first, and acts on what it read.
LEMMA ReadStep ==
    ASSUME IInv, NEW c \in Conn, NEW m, NEW r \in Run,
           NEW next \in {"cancel", "attach", "detach", "heartbeat"}, Read(c, m, r, next)
    PROVE  Good
<1>1. StoreOK' /\ Untouched /\ RowsStay
  BY Parts, StoreKept DEF Read
<1> DEFINE q == [at |-> next, run |-> r, key |-> None, seen |-> status[r]]
<1>2. q \in Request
  BY Parts DEF Request, StoreOK
<1>3. WillActOn(q)
  BY <1>1 DEF WillActOn, Read, RowsStay, Present
<1>4. RequestsOK'
  BY <1>1, <1>2, <1>3, Parts, RequestMoves DEF Read, Start
<1> QED
  BY <1>1, <1>4, Parts, PartsNext, RestKept, RelaysKept DEF Good, StoreStep, Read, Receive

\* The four control requests that start so.
LEMMA ReadSteps ==
    ASSUME IInv, NEW c \in Conn,
           CancelRead(c) \/ AttachRead(c) \/ DetachRead(c) \/ HeartbeatRead(c)
    PROVE  Good
  BY ReadStep DEF CancelRead, AttachRead, DetachRead, HeartbeatRead

\* run.fork writes a new run and registers nothing.
LEMMA ForkStep ==
    ASSUME IInv, NEW c \in Conn, Fork(c)
    PROVE  Good
<1>1. StoreOK' /\ StoreStep /\ RowsStay
  BY Parts, CreateStep DEF Fork
<1> QED
  BY <1>1, Parts, PartsNext, RestKept, RequestsKept, RelaysKept DEF Good, Fork, Receive

\* turn.cancel kills a context of one of the two registries.
LEMMA TurnCancelStep ==
    ASSUME IInv, NEW c \in Conn, TurnCancel(c)
    PROVE  Good
<1>1. StoreOK' /\ Untouched /\ RowsStay
  BY Parts, StoreKept DEF TurnCancel
<1>2. RestOK'
  <2>1. left' \in [Conn -> Nat]
    BY Parts DEF RestOK, TurnCancel, Receive
  <2>2. PICK r \in runs \cup turns :
          \/ RegistryCancel(r) /\ UNCHANGED turns
          \/ killed' = [killed EXCEPT ![r] = TRUE] /\ turns' = turns \ {r} /\ UNCHANGED runs
    BY DEF TurnCancel
  <2>3. killed' \in [Run -> BOOLEAN]
    <3>1. CASE RegistryCancel(r)
      BY <3>1, Parts DEF RestOK, RegistryCancel
    <3>2. CASE killed' = [killed EXCEPT ![r] = TRUE]
      BY <3>2, Parts DEF RestOK
    <3> QED
      BY <2>2, <3>1, <3>2
  <2>4. runs' \in SUBSET Run /\ turns' \in SUBSET Run
    BY <2>2, Parts DEF RestOK, RegistryCancel
  <2> QED
    BY <2>1, <2>3, <2>4, Parts DEF RestOK, TurnCancel
<1> QED
  BY <1>1, <1>2, Parts, PartsNext, RequestsKept, RelaysKept DEF Good, StoreStep, TurnCancel

\* turn.submit writes the run together with its turn.
LEMMA CreateForegroundStep ==
    ASSUME IInv, NEW c \in Conn, CreateForegroundRunWithTurn(c)
    PROVE  Good
<1>1. PICK r \in Run : CreateRun(r, req[c].key, "running", c) /\ Start(c, "route", r, None, "running")
  BY DEF CreateForegroundRunWithTurn
<1>2. req[c].key \in Key \cup {None}
  BY Parts DEF RequestsOK, Request
<1>3. StoreOK' /\ StoreStep /\ RowsStay /\ Present(r)'
  BY <1>1, <1>2, Parts, CreateStep
<1> DEFINE q == [at |-> "route", run |-> r, key |-> None, seen |-> "running"]
<1>4. q \in Request /\ WillActOn(q)
  BY <1>3 DEF Request, WillActOn, Present
<1>5. RequestsOK'
  BY <1>1, <1>3, <1>4, Parts, RequestMoves DEF Start
<1> QED
  BY <1>3, <1>5, Parts, PartsNext, RestKept, RelaysKept DEF Good, CreateForegroundRunWithTurn

\* run.create writes the run and answers.
LEMMA CreateRunRecordStep ==
    ASSUME IInv, NEW c \in Conn, CreateRunRecord(c)
    PROVE  Good
<1>1. req[c].key \in Key \cup {None}
  BY Parts DEF RequestsOK, Request
<1>2. StoreOK' /\ StoreStep /\ RowsStay
  BY <1>1, Parts, CreateStep DEF CreateRunRecord
<1> QED
  BY <1>2, Parts, PartsNext, RestKept, ReplyStep, RelaysKept DEF Good, CreateRunRecord

\* The creation fails: no row is written.
LEMMA CreateFailsStep ==
    ASSUME IInv, NEW c \in Conn, CreateFails(c)
    PROVE  Good
<1>1. StoreOK' /\ Untouched /\ RowsStay
  BY Parts, StoreKept DEF CreateFails
<1> QED
  BY <1>1, Parts, PartsNext, RestKept, ReplyStep, RelaysKept DEF Good, StoreStep, CreateFails

\* The run of a handler that acts on one, and what it read of it.
LEMMA RequestRun ==
    ASSUME IInv, NEW c \in Conn, req[c].at \in HasRun
    PROVE  /\ req[c].run \in Run
           /\ Present(req[c].run)
           /\ req[c].seen \in Status \ {"absent"}
  BY Parts DEF RequestsOK, Request, ActsOn

\* A handler goes on with the run it has.
LEMMA GotoStep ==
    ASSUME RequestsOK, RowsStay, NEW c \in Conn, req[c].at \in HasRun,
           NEW at \in HasRun, Goto(c, at)
    PROVE  RequestsOK'
<1> DEFINE q == [req[c] EXCEPT !.at = at]
<1>1. req[c] \in Request /\ ActsOn(req[c])
  BY DEF RequestsOK
<1>2. q \in Request
  BY <1>1 DEF Request, HasRun
<1>3. WillActOn(q)
  BY <1>1 DEF ActsOn, WillActOn, RowsStay, Request, Present
<1>4. req' = [req EXCEPT ![c] = q]
  BY DEF Goto
<1> QED
  BY <1>2, <1>3, <1>4, RequestMoves

\* Routing or the dispatch fails: the run is marked failed, or stays as it is.
LEMMA FailsStep ==
    ASSUME IInv, NEW c \in Conn, RouteFails(c) \/ DispatchFails(c)
    PROVE  Good
<1>1. req[c].at \in HasRun
  BY DEF RouteFails, DispatchFails, HasRun
<1>2. StoreOK' /\ StoreStep /\ RowsStay
  BY <1>1, RequestRun, Parts, LifecycleStep DEF RouteFails, DispatchFails
<1> QED
  BY <1>2, Parts, PartsNext, RestKept, ReplyStep, RelaysKept DEF Good, RouteFails, DispatchFails

\* The prompt plan and the model call are noted in the log.
LEMMA StageStep ==
    ASSUME IInv, NEW c \in Conn, PromptPlan(c) \/ ModelCall(c)
    PROVE  Good
<1>1. PICK from \in HasRun, to \in HasRun : StageChanged(c, from, to)
  BY DEF PromptPlan, ModelCall, HasRun
<1>2. StoreOK' /\ StoreStep /\ RowsStay
  BY <1>1, RequestRun, Parts, LifecycleStep DEF StageChanged
<1> QED
  BY <1>1, <1>2, Parts, PartsNext, RestKept, GotoStep, RelaysKept DEF Good, StageChanged

\* The dispatch succeeds: the run is registered and its relay starts.
LEMMA DispatchedStep ==
    ASSUME IInv, NEW c \in Conn, Dispatched(c)
    PROVE  Good
<1>1. req[c].at \in HasRun
  BY DEF Dispatched, HasRun
<1>2. req[c].run \in Run /\ Present(req[c].run)
  BY <1>1, RequestRun
<1>3. StoreOK' /\ Untouched /\ RowsStay
  BY Parts, StoreKept DEF Dispatched
<1> DEFINE x == [relay[req[c].run] EXCEPT !.at = "top"]
<1>4. x \in RelayState
  BY <1>2, Parts DEF RelaysOK, RelayState
<1>5. RelaysOK'
  BY <1>2, <1>3, <1>4, Parts, RelayMoves DEF Dispatched
<1>6. \A table \in SUBSET Run : \A r \in Run : Register(table, r) \subseteq SUBSET Run
  BY DEF Register
<1>7. RestOK'
  BY <1>2, <1>6, Parts DEF RestOK, Dispatched
<1> QED
  BY <1>3, <1>5, <1>7, Parts, PartsNext, ReplyStep DEF Good, StoreStep, Dispatched

\* run.cancel kills the run's context, then appends.
LEMMA CancelRegistryStep ==
    ASSUME IInv, NEW c \in Conn, CancelRegistry(c)
    PROVE  Good
<1>1. req[c].at \in HasRun /\ "cancel_append" \in HasRun
  BY DEF CancelRegistry, HasRun
<1>2. StoreOK' /\ Untouched /\ RowsStay
  BY Parts, StoreKept DEF CancelRegistry
<1>3. killed' \in [Run -> BOOLEAN]
  BY Parts DEF RestOK, CancelRegistry, RegistryCancel
<1>4. RestOK'
  BY <1>3, Parts DEF RestOK, CancelRegistry, RegistryCancel
<1> QED
  BY <1>1, <1>2, <1>4, Parts, PartsNext, GotoStep, RelaysKept DEF Good, StoreStep, CancelRegistry

\* The four control requests write the event they came for.
LEMMA ControlStep ==
    ASSUME IInv, NEW c \in Conn,
           CancelAppend(c) \/ AttachAppend(c) \/ DetachAppend(c) \/ HeartbeatAppend(c)
    PROVE  Good
<1>1. req[c].at \in HasRun
  BY DEF CancelAppend, AttachAppend, DetachAppend, HeartbeatAppend, HasRun
<1>2. /\ req[c].run \in Run /\ Present(req[c].run)
      /\ req[c].seen \in Status \ {"absent"}
      /\ attached[req[c].run] \in Conn \cup {None}
  BY <1>1, RequestRun, Parts DEF StoreOK
<1>3. StoreOK' /\ StoreStep /\ RowsStay
  <2>1. CASE CancelAppend(c)
    BY <2>1, <1>2, Parts, LifecycleStep DEF CancelAppend
  <2>2. CASE AttachAppend(c)
    BY <2>2, <1>2, Parts, AppendStep DEF AttachAppend
  <2>3. CASE DetachAppend(c)
    BY <2>3, <1>2, Parts, AppendStep DEF DetachAppend
  <2>4. CASE HeartbeatAppend(c)
    BY <2>4, <1>2, Parts, AppendStep DEF HeartbeatAppend
  <2> QED
    BY <2>1, <2>2, <2>3, <2>4
<1> QED
  BY <1>3, Parts, PartsNext, RestKept, ReplyStep, RelaysKept
     DEF Good, CancelAppend, AttachAppend, DetachAppend, HeartbeatAppend

-----------------------------------------------------------------------------
(* The relay *)

\* A relay that has been launched moves its program counter and its outcome.
LEMMA RelayAtStep ==
    ASSUME RelaysOK, RowsStay, NEW r \in Run, NEW from \in RelayLive,
           NEW to \in RelayLive \cup {"done"},
           RelayAt(r, from, to) \/ \E out \in Outcome : RelayEnds(r, from, to, out)
    PROVE  RelaysOK' /\ Present(r)
<1>1. relay[r] \in RelayState /\ relay[r].at = from
  BY DEF RelaysOK, RelayAt, RelayEnds
<1>2. Present(r)
  BY <1>1 DEF RelaysOK
<1>3. PICK out \in Outcome : relay' = [relay EXCEPT ![r] = [at |-> to, outcome |-> out]]
  <2>1. CASE RelayAt(r, from, to)
    <3>1. [relay[r] EXCEPT !.at = to] = [at |-> to, outcome |-> relay[r].outcome]
      BY <1>1 DEF RelayState
    <3> QED
      BY <2>1, <3>1, <1>1 DEF RelayAt, RelayState, RelaysOK
  <2>2. CASE \E out \in Outcome : RelayEnds(r, from, to, out)
    BY <2>2 DEF RelayEnds
  <2> QED
    BY <2>1, <2>2
<1>4. [at |-> to, outcome |-> out] \in RelayState
  BY DEF RelayState
<1> QED
  BY <1>2, <1>3, <1>4, RelayMoves

\* A step of a relay that leaves every row and every log alone.
LEMMA QuietRelayStep ==
    ASSUME IInv, NEW r \in Run,
           RelayTop(r) \/ RelayEOF(r) \/ RelayError(r) \/ FallbackRead(r)
    PROVE  Good
<1>1. StoreOK' /\ Untouched /\ RowsStay
  BY Parts, StoreKept DEF RelayTop, RelayEOF, RelayError, FallbackRead
<1>2. PICK from \in RelayLive, to \in RelayLive :
        RelayAt(r, from, to) \/ \E out \in Outcome : RelayEnds(r, from, to, out)
  BY DEF RelayTop, RelayEOF, RelayError, FallbackRead, Outcome
<1>3. RelaysOK'
  BY <1>1, <1>2, Parts, RelayAtStep
<1>4. RestOK'
  BY Parts DEF RestOK, RelayTop, RelayEOF, RelayError, FallbackRead, registry
<1> QED
  BY <1>1, <1>3, <1>4, Parts, PartsNext, RequestsKept
     DEF Good, StoreStep, RelayTop, RelayEOF, RelayError, FallbackRead

\* A step that saves the turn or the model call.
LEMMA RelayRecordStep ==
    ASSUME IInv, NEW r \in Run, PersistAssistant(r) \/ RecordRunModelCall(r)
    PROVE  Good
<1>1. Untouched /\ RowsStay
  BY DEF PersistAssistant, RecordRunModelCall, Untouched, RowsStay, Present
<1>2. saved' \in [Run -> BOOLEAN] /\ billed' \in [Run -> BOOLEAN]
  BY Parts DEF StoreOK, PersistAssistant, RecordRunModelCall
<1>3. StoreOK'
  BY <1>1, <1>2, Parts DEF StoreOK, Untouched, Present
<1>4. relay[r].outcome \in Outcome
  BY Parts DEF RelaysOK, RelayState
<1>5. PICK from \in RelayLive, to \in RelayLive :
        RelayAt(r, from, to) \/ \E out \in Outcome : RelayEnds(r, from, to, out)
  BY <1>4 DEF PersistAssistant, RecordRunModelCall, Outcome
<1>6. RelaysOK'
  BY <1>1, <1>5, Parts, RelayAtStep
<1>7. RestOK'
  BY Parts DEF RestOK, PersistAssistant, RecordRunModelCall, registry
<1> QED
  BY <1>1, <1>3, <1>6, <1>7, Parts, PartsNext, RequestsKept
     DEF Good, StoreStep, PersistAssistant, RecordRunModelCall

\* A step that appends an event.
LEMMA RelayAppendStep ==
    ASSUME IInv, NEW r \in Run, RelayEvent(r) \/ AppendTerminalRunEvent(r) \/ FallbackAppend(r)
    PROVE  Good
<1>1. PICK from \in RelayLive, to \in RelayLive : RelayAt(r, from, to)
  BY DEF RelayEvent, AppendTerminalRunEvent, FallbackAppend
<1>2. Present(r)
  BY <1>1, Parts DEF RelaysOK, RelayAt
<1>3. status[r] \in Status \ {"absent"}
  BY <1>2, Parts DEF StoreOK, Present
<1>4. relay[r].outcome \in Outcome
  BY Parts DEF RelaysOK, RelayState
<1>5. PICK typ \in EventType, st \in Status \ {"absent"} :
        TryLifecycle(r, typ, st) \/ RelayAppend(r, typ, st)
  <2>1. CASE RelayEvent(r)
    BY <2>1, <1>3 DEF RelayEvent
  <2>2. CASE AppendTerminalRunEvent(r)
    <3>1. TerminalEvent[relay[r].outcome] \in Terminal
      BY <1>4 DEF TerminalEvent, Outcome
    <3> QED
      BY <2>2, <3>1 DEF AppendTerminalRunEvent
  <2>3. CASE FallbackAppend(r)
    BY <2>3 DEF FallbackAppend
  <2> QED
    BY <2>1, <2>2, <2>3
<1>6. UNCHANGED <<keyOf, saved, billed>>
  BY DEF RelayEvent, AppendTerminalRunEvent, FallbackAppend
<1>7. StoreOK' /\ StoreStep /\ RowsStay
  BY <1>2, <1>5, <1>6, Parts, LifecycleStep
<1>8. RelaysOK'
  BY <1>1, <1>7, Parts, RelayAtStep
<1>9. chunks' \in [Run -> Nat]
  BY Parts DEF RestOK, RelayEvent, AppendTerminalRunEvent, FallbackAppend
<1>10. RestOK'
  BY <1>9, Parts DEF RestOK, RelayEvent, AppendTerminalRunEvent, FallbackAppend, registry
<1> QED
  BY <1>7, <1>8, <1>10, Parts, PartsNext, RequestsKept
     DEF Good, RelayEvent, AppendTerminalRunEvent, FallbackAppend

\* A relay that ends leaves the two registries.
LEMMA DeregisterStep ==
    ASSUME IInv, NEW r \in Run, DeregisterRun(r) \/ DeregisterTurn(r)
    PROVE  Good
<1>1. StoreOK' /\ Untouched /\ RowsStay
  BY Parts, StoreKept DEF DeregisterRun, DeregisterTurn
<1>2. PICK from \in RelayLive, to \in RelayLive \cup {"done"} : RelayAt(r, from, to)
  BY DEF DeregisterRun, DeregisterTurn
<1>3. RelaysOK'
  BY <1>1, <1>2, Parts, RelayAtStep
<1>4. RestOK'
  BY Parts DEF RestOK, DeregisterRun, DeregisterTurn
<1> QED
  BY <1>1, <1>3, <1>4, Parts, PartsNext, RequestsKept
     DEF Good, StoreStep, DeregisterRun, DeregisterTurn

-----------------------------------------------------------------------------
(* The invariant *)

\* The server starts with no run, no request and no relay.
LEMMA InitEstablishes == ASSUME Init PROVE IInv
<1>1. Idle \in Request /\ Idle.at \notin HasRun
  BY DEF Idle, Request, HasRun
<1>2. [at |-> "none", outcome |-> "ok"] \in RelayState
  BY DEF RelayState, Outcome
<1>3. StoreOK
  BY DEF Init, StoreOK, Present
<1>4. RequestsOK
  BY <1>1 DEF Init, RequestsOK, ActsOn
<1>5. RelaysOK
  BY <1>2 DEF Init, RelaysOK
<1>6. RestOK
  BY LifecycleAssumption DEF Init, RestOK
<1> QED
  BY <1>3, <1>4, <1>5, <1>6, Parts

\* Every step keeps the invariant, and is one of the store's steps.
LEMMA NextPreserves == ASSUME IInv, [Next]_vars PROVE Good
<1>1. ASSUME NEW c \in Conn, Connect(c) \/ Drop(c)
      PROVE  Good
  BY <1>1, ConnectionStep
<1>2. ASSUME NEW c \in Conn, NewRequest(c)
      PROVE  Good
  BY <1>2, LookupStep, ForkStep, ReadSteps, TurnCancelStep DEF NewRequest
<1>3. ASSUME NEW c \in Conn, Handle(c)
      PROVE  Good
  BY <1>3, CreateForegroundStep, CreateRunRecordStep, CreateFailsStep, FailsStep, StageStep,
     DispatchedStep, CancelRegistryStep, ControlStep DEF Handle
<1>4. ASSUME NEW r \in Run, Relay(r)
      PROVE  Good
  BY <1>4, QuietRelayStep, RelayRecordStep, RelayAppendStep, DeregisterStep DEF Relay
<1>5. CASE Crash
  BY <1>5, CrashStep
<1>6. CASE UNCHANGED vars
  <2>1. StoreOK' /\ Untouched /\ RowsStay
    BY <1>6, Parts, StoreKept DEF vars
  <2>2. RestOK'
    BY <1>6, Parts DEF RestOK, vars, volatile, registry
  <2> QED
    BY <1>6, <2>1, <2>2, Parts, PartsNext, RequestsKept, RelaysKept DEF Good, StoreStep, vars, volatile
<1> QED
  BY <1>1, <1>2, <1>3, <1>4, <1>5, <1>6 DEF Next

\* The rows, the requests and the relays agree in every state that can be reached.
THEOREM Invariance == Spec => []IInv
<1>1. Init => IInv
  BY InitEstablishes
<1>2. IInv /\ [Next]_vars => IInv'
  BY NextPreserves DEF Good
<1> QED
  BY <1>1, <1>2, PTL DEF Spec

\* The types of RunLifecycle, in every reachable state.
THEOREM TypeCorrect == Spec => []TypeOK
<1>1. IInv => TypeOK
  BY DEF IInv
<1> QED
  BY <1>1, Invariance, PTL

-----------------------------------------------------------------------------
(* Idempotency *)

\* The keys change only when a run is created, and the index refuses a key that
\* a run has: one key names one run, whoever raced to use it.
THEOREM IdempotentCreation == Spec => []OneRunPerKey
<1>1. Init => OneRunPerKey
  BY DEF Init, OneRunPerKey, Present
<1>2. ASSUME IInv, OneRunPerKey, [Next]_vars
      PROVE  OneRunPerKey'
  <2>1. IInv' /\ StoreStep
    BY <1>2, NextPreserves DEF Good
  <2>2. CASE Created
    <3>1. PICK r \in Run, k \in Key \cup {None}, st \in {"queued", "running"}, c \in Conn \cup {None} :
            CreateRun(r, k, st, c)
      BY <2>2 DEF Created
    <3>2. \A s \in Run : s # r => keyOf'[s] = keyOf[s] /\ (Present(s)' <=> Present(s))
      BY <3>1, <1>2 DEF CreateRun, Present, IInv, TypeOK
    <3>3. keyOf'[r] = k
      BY <3>1, <1>2 DEF CreateRun, IInv, TypeOK
    <3>4. k # None => \A s \in Run : Present(s) => keyOf[s] # k
      BY <3>1 DEF CreateRun, UniqueIndexAdmits, KeyTaken
    <3> QED
      BY <3>2, <3>3, <3>4, <1>2 DEF OneRunPerKey
  <2>3. CASE Appended \/ Untouched
    <3>1. UNCHANGED keyOf
      BY <2>3 DEF Appended, Untouched
    <3>2. \A s \in Run : Present(s)' => Present(s)
      <4>1. CASE Untouched
        BY <4>1 DEF Untouched, Present
      <4>2. CASE Appended
        <5>1. PICK r \in Run, typ \in EventType, st \in Status, c \in Conn \cup {None} :
                Present(r) /\ AppendRunEvent(r, typ, st, c)
          BY <4>2 DEF Appended
        <5> QED
          BY <5>1, <1>2 DEF AppendRunEvent, Present, IInv, TypeOK
      <4> QED
        BY <2>3, <4>1, <4>2
    <3> QED
      BY <3>1, <3>2, <1>2 DEF OneRunPerKey
  <2> QED
    BY <2>1, <2>2, <2>3 DEF StoreStep
<1> QED
  BY <1>1, <1>2, Invariance, PTL DEF Spec

-----------------------------------------------------------------------------
(* The log *)

\* Whatever handlers and relays do together, each step creates one run with its
\* first event, appends one event to the log of one run, or does neither.
THEOREM RefinesRunLog == Spec => ImplementsRunLog
<1>1. Init => Log!Init
  BY DEF Init, Log!Init
<1>2. ASSUME IInv, [Next]_vars
      PROVE  [Log!Next]_<<log, keyOf>>
  <2>1. StoreStep
    BY <1>2, NextPreserves DEF Good
  <2>2. CASE Created
    <3>1. PICK r \in Run, k \in Key \cup {None}, st \in {"queued", "running"}, c \in Conn \cup {None} :
            CreateRun(r, k, st, c)
      BY <2>2 DEF Created
    <3> DEFINE e == [type |-> "started", status |-> st]
    <3>2. e \in Event
      OBVIOUS
    <3>3. log[r] = <<>>
      BY <3>1, <1>2, Parts DEF CreateRun, StoreOK
    <3>4. k # None => \A s \in Run : keyOf[s] # k
      BY <3>1, <1>2, Parts DEF CreateRun, UniqueIndexAdmits, KeyTaken, StoreOK
    <3>5. Log!Create(r, k, e)
      BY <3>1, <3>3, <3>4 DEF CreateRun, Log!Create
    <3> QED
      BY <3>2, <3>5 DEF Log!Next
  <2>3. CASE Appended
    <3>1. PICK r \in Run, typ \in EventType, st \in Status, c \in Conn \cup {None} :
            Present(r) /\ AppendRunEvent(r, typ, st, c)
      BY <2>3 DEF Appended
    <3> DEFINE e == [type |-> typ, status |-> st]
    <3>2. e \in Event
      OBVIOUS
    <3>3. log[r] # <<>>
      BY <3>1, <1>2, Parts DEF StoreOK
    <3>4. Log!AppendEvent(r, e)
      BY <3>1, <3>3, <2>3 DEF AppendRunEvent, Appended, Log!AppendEvent
    <3> QED
      BY <3>2, <3>4 DEF Log!Next
  <2>4. CASE Untouched
    BY <2>4 DEF Untouched
  <2> QED
    BY <2>1, <2>2, <2>3, <2>4 DEF StoreStep
<1> QED
  BY <1>1, <1>2, Invariance, PTL DEF Spec, ImplementsRunLog, Log!Spec

\* One run's part of StatusFollowsLog.
FollowsLog(r) ==
    /\ \E i \in DOMAIN log[r] : LastLifecycle(r, i) /\ status[r] = log[r][i].status
    /\ terminalAt[r] <=> \E i \in DOMAIN log[r] : log[r][i].type \in Terminal

\* The log of a run before and after an event is appended to it.
Longer(r, n, typ, st) ==
    /\ DOMAIN log[r] = 1 .. n
    /\ DOMAIN log'[r] = 1 .. n + 1
    /\ \A i \in 1 .. n : log'[r][i] = log[r][i]
    /\ log'[r][n + 1].type = typ /\ log'[r][n + 1].status = st

\* AppendRunEvent adds one event at the end of the run's log.
LEMMA AppendedAt ==
    ASSUME IInv, NEW r \in Run, NEW typ \in EventType, NEW st \in Status, NEW c \in Conn \cup {None},
           AppendRunEvent(r, typ, st, c)
    PROVE  \E n \in Nat : Longer(r, n, typ, st)
<1> DEFINE e == [type |-> typ, status |-> st]
<1>1. e \in Event /\ e.type = typ /\ e.status = st
  OBVIOUS
<1>2. log[r] \in Seq(Event) /\ log'[r] = Append(log[r], e)
  BY Parts DEF StoreOK, AppendRunEvent
<1> HIDE DEF e
<1>3. PICK n \in Nat : n = Len(log[r]) /\ DOMAIN log[r] = 1 .. n
  BY <1>2, LenProperties
<1>4. /\ DOMAIN log'[r] = 1 .. n + 1
      /\ \A i \in 1 .. n : log'[r][i] = log[r][i]
      /\ log'[r][n + 1] = e
  BY <1>1, <1>2, <1>3, AppendProperties, LenProperties
<1> QED
  BY <1>1, <1>3, <1>4 DEF Longer

\* An event of a run that follows its log leaves it following its log.
LEMMA AppendFollows ==
    ASSUME IInv, NEW r \in Run, NEW typ \in EventType, NEW st \in Status, NEW c \in Conn \cup {None},
           FollowsLog(r), AppendRunEvent(r, typ, st, c)
    PROVE  FollowsLog(r)'
<1>1. PICK n \in Nat : Longer(r, n, typ, st)
  BY AppendedAt
<1>2. /\ terminalAt'[r] = (terminalAt[r] \/ typ \in Terminal)
      /\ status'[r] = IF typ \in LifecycleType THEN st ELSE status[r]
  BY Parts DEF StoreOK, AppendRunEvent
<1>3. \E i \in DOMAIN log'[r] : LastLifecycle(r, i)' /\ status'[r] = log'[r][i].status
  <2>1. CASE typ \in LifecycleType
    <3>1. LastLifecycle(r, n + 1)'
      BY <1>1, <2>1 DEF Longer, LastLifecycle
    <3> QED
      BY <1>1, <1>2, <2>1, <3>1 DEF Longer
  <2>2. CASE typ \notin LifecycleType
    <3>1. PICK i \in DOMAIN log[r] : LastLifecycle(r, i) /\ status[r] = log[r][i].status
      BY DEF FollowsLog
    <3>2. i \in 1 .. n + 1 /\ log'[r][i] = log[r][i]
      BY <1>1, <3>1 DEF Longer
    <3>3. LastLifecycle(r, i)'
      BY <1>1, <2>2, <3>1, <3>2 DEF Longer, LastLifecycle
    <3> QED
      BY <1>1, <1>2, <2>2, <3>1, <3>2, <3>3 DEF Longer
  <2> QED
    BY <2>1, <2>2
<1>4. terminalAt'[r] <=> \E i \in DOMAIN log'[r] : log'[r][i].type \in Terminal
  <2>1. \A i \in 1 .. n + 1 : i \in 1 .. n \/ i = n + 1
    BY <1>1
  <2>2. (\E i \in DOMAIN log'[r] : log'[r][i].type \in Terminal)
        => (\E i \in DOMAIN log[r] : log[r][i].type \in Terminal) \/ typ \in Terminal
    BY <1>1, <2>1 DEF Longer
  <2>3. (\E i \in DOMAIN log[r] : log[r][i].type \in Terminal)
        => \E i \in DOMAIN log'[r] : log'[r][i].type \in Terminal
    BY <1>1 DEF Longer
  <2>4. typ \in Terminal => \E i \in DOMAIN log'[r] : log'[r][i].type \in Terminal
    BY <1>1 DEF Longer
  <2> QED
    BY <1>2, <2>2, <2>3, <2>4 DEF FollowsLog
<1> QED
  BY <1>3, <1>4 DEF FollowsLog

\* The row of a run is the one its event log determines, although the row is
\* written blindly by handlers and relays that raced.
THEOREM RowFollowsLog == Spec => []StatusFollowsLog
<1>1. Init => StatusFollowsLog
  BY DEF Init, StatusFollowsLog, Present
<1>2. ASSUME IInv, StatusFollowsLog, [Next]_vars
      PROVE  StatusFollowsLog'
  <2>1. IInv' /\ StoreStep
    BY <1>2, NextPreserves DEF Good
  <2>2. SUFFICES ASSUME NEW r \in Run, Present(r)'
                 PROVE  FollowsLog(r)'
    BY DEF StatusFollowsLog, FollowsLog
  <2>3. Present(r) => FollowsLog(r)
    BY <1>2 DEF StatusFollowsLog, FollowsLog
  <2>4. ASSUME UNCHANGED <<status[r], log[r], terminalAt[r]>>
        PROVE  FollowsLog(r)'
    BY <2>2, <2>3, <2>4 DEF FollowsLog, LastLifecycle, Present
  <2>5. CASE Created
    <3>1. PICK s \in Run, k \in Key \cup {None}, st \in {"queued", "running"}, c \in Conn \cup {None} :
            CreateRun(s, k, st, c)
      BY <2>5 DEF Created
    <3>2. CASE r # s
      <4>1. UNCHANGED <<status[r], log[r], terminalAt[r]>>
        BY <1>2, <3>1, <3>2, Parts DEF CreateRun, StoreOK
      <4> QED
        BY <2>4, <4>1
    <3>3. CASE r = s
      <4>1. /\ log'[r] = <<[type |-> "started", status |-> st]>>
            /\ status'[r] = st
            /\ ~terminalAt'[r]
        BY <1>2, <3>1, <3>3, Parts DEF CreateRun, StoreOK
      <4>2. DOMAIN log'[r] = 1 .. 1 /\ log'[r][1] = [type |-> "started", status |-> st]
        BY <4>1
      <4>3. log'[r][1].type = "started" /\ log'[r][1].status = st
        BY <4>2
      <4>4. LastLifecycle(r, 1)'
        BY <4>2, <4>3 DEF LastLifecycle
      <4>5. ~ \E i \in DOMAIN log'[r] : log'[r][i].type \in Terminal
        BY <4>2, <4>3
      <4> QED
        BY <4>1, <4>2, <4>3, <4>4, <4>5 DEF FollowsLog
    <3> QED
      BY <3>2, <3>3
  <2>6. CASE Appended
    <3>1. PICK s \in Run, typ \in EventType, st \in Status, c \in Conn \cup {None} :
            Present(s) /\ AppendRunEvent(s, typ, st, c)
      BY <2>6 DEF Appended
    <3>2. CASE r # s
      <4>1. UNCHANGED <<status[r], log[r], terminalAt[r]>>
        BY <1>2, <3>1, <3>2, Parts DEF AppendRunEvent, StoreOK
      <4> QED
        BY <2>4, <4>1
    <3>3. CASE r = s
      BY <1>2, <2>3, <3>1, <3>3, AppendFollows
    <3> QED
      BY <3>2, <3>3
  <2>7. CASE Untouched
    <3>1. UNCHANGED <<status[r], log[r], terminalAt[r]>>
      BY <2>7 DEF Untouched
    <3> QED
      BY <2>4, <3>1
  <2> QED
    BY <2>1, <2>5, <2>6, <2>7 DEF StoreStep
<1> QED
  BY <1>1, <1>2, Invariance, PTL DEF Spec

-----------------------------------------------------------------------------
(* What a step adds to the logs *)

HasEvent(r, typ) == \E i \in DOMAIN log[r] : log[r][i].type = typ

\* The only event a step may add is one of type typ to the log of run r.
AddsOnly(r, typ) == \A s \in Run, t \in EventType :
    HasEvent(s, t)' => HasEvent(s, t) \/ (s = r /\ t = typ)

\* A step that adds no run.completed to a log.
CompletesNone == \A r \in Run : HasEvent(r, "completed")' => HasEvent(r, "completed")

\* AppendRunEvent adds an event of its type to its run's log, and no other.
LEMMA AppendAdds ==
    ASSUME IInv, NEW r \in Run, NEW typ \in EventType, NEW st \in Status, NEW c \in Conn \cup {None},
           TryAppend(r, typ, st, c)
    PROVE  AddsOnly(r, typ)
<1>1. CASE AppendRunEvent(r, typ, st, c)
  <2>1. \A s \in Run : s # r => log'[s] = log[s]
    BY <1>1, Parts DEF AppendRunEvent, StoreOK
  <2>2. PICK n \in Nat : Longer(r, n, typ, st)
    BY <1>1, AppendedAt
  <2>3. \A t \in EventType : HasEvent(r, t)' => HasEvent(r, t) \/ t = typ
    BY <2>2 DEF Longer, HasEvent
  <2> QED
    BY <2>1, <2>3 DEF AddsOnly, HasEvent
<1>2. CASE StoreUnchanged
  BY <1>2 DEF StoreUnchanged, AddsOnly, HasEvent
<1> QED
  BY <1>1, <1>2 DEF TryAppend

\* So does a lifecycle event, whoever writes it.
LEMMA LifecycleAdds ==
    ASSUME IInv, NEW r \in Run, NEW typ \in EventType, NEW st \in Status,
           TryLifecycle(r, typ, st) \/ RelayAppend(r, typ, st)
    PROVE  AddsOnly(r, typ)
<1>1. attached[r] \in Conn \cup {None}
  BY Parts DEF StoreOK
<1>2. CASE TryLifecycle(r, typ, st)
  BY <1>1, <1>2, AppendAdds DEF TryLifecycle
<1>3. CASE StoreUnchanged
  BY <1>3 DEF StoreUnchanged, AddsOnly, HasEvent
<1> QED
  BY <1>2, <1>3 DEF RelayAppend

\* A new run's log has the one event "started".
LEMMA CreateAdds ==
    ASSUME IInv, NEW r \in Run, NEW k, NEW st, NEW c, CreateRun(r, k, st, c)
    PROVE  AddsOnly(r, "started")
<1>1. \A s \in Run : s # r => log'[s] = log[s]
  BY Parts DEF CreateRun, StoreOK
<1>2. log'[r] = <<[type |-> "started", status |-> st]>>
  BY Parts DEF CreateRun, StoreOK
<1>3. \A i \in DOMAIN log'[r] : log'[r][i].type = "started"
  BY <1>2
<1> QED
  BY <1>1, <1>3 DEF AddsOnly, HasEvent

\* Where no log changes, no run completes.
LEMMA NothingAdded == ASSUME UNCHANGED log PROVE CompletesNone
  BY DEF CompletesNone, HasEvent

\* An event of another type completes no run.
LEMMA OthersComplete == ASSUME NEW r \in Run, NEW typ \in EventType \ {"completed"}, AddsOnly(r, typ)
                        PROVE  CompletesNone
  BY DEF AddsOnly, CompletesNone

-----------------------------------------------------------------------------
(* A completed run has its turn *)

\* A relay that goes on to write run.completed has saved the turn before.
SavedFirst ==
    \A r \in Run : relay[r].at \in {"bill", "terminal"} /\ relay[r].outcome = "ok" => saved[r]

SavedInv == SavedFirst /\ CompletedIsSaved

\* The key a request carries is a key, or none.
LEMMA RequestKey == ASSUME IInv, NEW c \in Conn PROVE req[c].key \in Key \cup {None}
  BY Parts DEF RequestsOK, Request

\* A step of a connection, or a crash, completes no run, leaves the saved turns
\* alone, and puts no relay between saving and completing.
LEMMA ConnSaves ==
    ASSUME IInv, NEW c \in Conn, Connect(c) \/ Drop(c) \/ NewRequest(c) \/ Handle(c)
    PROVE  /\ CompletesNone
           /\ UNCHANGED saved
           /\ \A r \in Run : relay'[r] = relay[r] \/ relay'[r].at = "top"
<1>1. ASSUME UNCHANGED <<durable, relay>>
      PROVE  CompletesNone /\ UNCHANGED <<saved, relay>>
  BY <1>1, NothingAdded DEF durable
<1>2. CASE Connect(c) \/ Drop(c) \/ SubmitLookup(c) \/ RunCreateLookup(c) \/ TurnCancel(c)
           \/ CancelRead(c) \/ AttachRead(c) \/ DetachRead(c) \/ HeartbeatRead(c)
           \/ CreateFails(c) \/ CancelRegistry(c)
  <2>1. UNCHANGED <<durable, relay>>
    BY <1>2 DEF Connect, Drop, SubmitLookup, RunCreateLookup, Lookup, TurnCancel, CancelRead,
                AttachRead, DetachRead, HeartbeatRead, Read, CreateFails, CancelRegistry
  <2> QED
    BY <1>1, <2>1
<1>3. CASE Fork(c) \/ CreateRunRecord(c) \/ CreateForegroundRunWithTurn(c)
  <2>1. PICK r \in Run, k \in Key \cup {None}, st \in {"queued", "running"}, d \in Conn \cup {None} :
          CreateRun(r, k, st, d) /\ UNCHANGED relay
    BY <1>3, RequestKey DEF Fork, CreateRunRecord, CreateForegroundRunWithTurn
  <2>2. AddsOnly(r, "started")
    BY <2>1, CreateAdds
  <2> QED
    BY <2>1, <2>2, OthersComplete DEF CreateRun
<1>4. CASE RouteFails(c) \/ DispatchFails(c) \/ PromptPlan(c) \/ ModelCall(c) \/ CancelAppend(c)
  <2>1. req[c].at \in HasRun
    BY <1>4 DEF RouteFails, DispatchFails, PromptPlan, ModelCall, StageChanged, CancelAppend, HasRun
  <2>2. req[c].run \in Run
    BY <2>1, RequestRun
  <2>3. PICK typ \in EventType \ {"completed"}, st \in Status : TryLifecycle(req[c].run, typ, st)
    BY <1>4 DEF RouteFails, DispatchFails, PromptPlan, ModelCall, StageChanged, CancelAppend
  <2>4. UNCHANGED <<saved, relay>>
    BY <1>4 DEF RouteFails, DispatchFails, PromptPlan, ModelCall, StageChanged, CancelAppend
  <2> QED
    BY <2>2, <2>3, <2>4, LifecycleAdds, OthersComplete
<1>5. CASE AttachAppend(c) \/ DetachAppend(c) \/ HeartbeatAppend(c)
  <2>1. req[c].at \in HasRun
    BY <1>5 DEF AttachAppend, DetachAppend, HeartbeatAppend, HasRun
  <2>2. /\ req[c].run \in Run /\ req[c].seen \in Status
        /\ attached[req[c].run] \in Conn \cup {None}
    BY <2>1, RequestRun, Parts DEF StoreOK
  <2>3. PICK typ \in EventType \ {"completed"}, d \in Conn \cup {None} :
          TryAppend(req[c].run, typ, req[c].seen, d)
    BY <1>5, <2>2 DEF AttachAppend, DetachAppend, HeartbeatAppend
  <2>4. UNCHANGED <<saved, relay>>
    BY <1>5 DEF AttachAppend, DetachAppend, HeartbeatAppend
  <2> QED
    BY <2>2, <2>3, <2>4, AppendAdds, OthersComplete
<1>6. CASE Dispatched(c)
  <2>1. UNCHANGED <<log, saved>>
    BY <1>6 DEF Dispatched, durable
  <2>2. \A r \in Run : relay'[r] = relay[r] \/ relay'[r].at = "top"
    BY <1>6, Parts DEF Dispatched, RelaysOK, RelayState
  <2> QED
    BY <2>1, <2>2, NothingAdded
<1> QED
  BY <1>2, <1>3, <1>4, <1>5, <1>6 DEF NewRequest, Handle

\* A relay completes its run only after it has saved the assistant's turn.
LEMMA RelaySaves ==
    ASSUME IInv, SavedInv, NEW r \in Run, Relay(r)
    PROVE  SavedInv'
<1>1. relay \in [Run -> RelayState] /\ saved \in [Run -> BOOLEAN]
  BY Parts DEF RelaysOK, StoreOK
<1>2. \A s \in Run : s # r => relay'[s] = relay[s]
  BY <1>1 DEF Relay, RelayTop, RelayEvent, RelayEOF, RelayError, PersistAssistant, RecordRunModelCall,
              AppendTerminalRunEvent, FallbackRead, FallbackAppend, DeregisterRun, DeregisterTurn,
              RelayAt, RelayEnds
<1>3. \A s \in Run : saved[s] => saved'[s]
  BY <1>1 DEF Relay, RelayTop, RelayEvent, RelayEOF, RelayError, PersistAssistant, RecordRunModelCall,
              AppendTerminalRunEvent, FallbackRead, FallbackAppend, DeregisterRun, DeregisterTurn, durable
<1>4. relay'[r].at \in {"bill", "terminal"} /\ relay'[r].outcome = "ok" => saved'[r]
  <2>1. CASE PersistAssistant(r)
    BY <2>1, <1>1 DEF PersistAssistant, RelayAt, RelayEnds, RelayState
  <2>2. CASE RecordRunModelCall(r)
    BY <2>2, <1>1 DEF RecordRunModelCall, RelayAt, RelayState, SavedInv, SavedFirst
  <2>3. CASE ~PersistAssistant(r) /\ ~RecordRunModelCall(r)
    <3>1. relay'[r].at \notin {"bill", "terminal"}
      BY <2>3, <1>1 DEF Relay, RelayTop, RelayEvent, RelayEOF, RelayError, AppendTerminalRunEvent,
              FallbackRead, FallbackAppend, DeregisterRun, DeregisterTurn, RelayAt, RelayEnds, RelayState
    <3> QED
      BY <3>1
  <2> QED
    BY <2>1, <2>2, <2>3
<1>5. \A s \in Run : HasEvent(s, "completed")' => saved'[s]
  <2>1. ASSUME CompletesNone
        PROVE  \A s \in Run : HasEvent(s, "completed")' => saved'[s]
    BY <2>1, <1>3 DEF CompletesNone, SavedInv, CompletedIsSaved, HasEvent
  <2>2. CASE RelayTop(r) \/ RelayEOF(r) \/ RelayError(r) \/ PersistAssistant(r) \/ RecordRunModelCall(r)
             \/ FallbackRead(r) \/ DeregisterRun(r) \/ DeregisterTurn(r)
    <3>1. UNCHANGED log
      BY <2>2 DEF RelayTop, RelayEOF, RelayError, PersistAssistant, RecordRunModelCall,
                  FallbackRead, DeregisterRun, DeregisterTurn, durable
    <3> QED
      BY <2>1, <3>1, NothingAdded
  <2>3. CASE RelayEvent(r) \/ FallbackAppend(r)
    <3>1. status[r] \in Status
      BY Parts DEF StoreOK
    <3>2. PICK typ \in EventType \ {"completed"}, st \in Status :
            TryLifecycle(r, typ, st) \/ RelayAppend(r, typ, st)
      BY <2>3, <3>1 DEF RelayEvent, FallbackAppend
    <3> QED
      BY <2>1, <3>2, LifecycleAdds, OthersComplete
  <2>4. CASE AppendTerminalRunEvent(r)
    <3> DEFINE typ == TerminalEvent[relay[r].outcome]
    <3>1. relay[r].at = "terminal" /\ RelayAppend(r, typ, typ) /\ UNCHANGED saved
      BY <2>4 DEF AppendTerminalRunEvent, RelayAt
    <3>2. /\ typ \in {"completed", "failed", "cancelled"}
          /\ typ = "completed" => relay[r].outcome = "ok"
      BY <1>1 DEF RelayState, Outcome, TerminalEvent
    <3>3. AddsOnly(r, typ)
      BY <3>1, <3>2, LifecycleAdds
    <3>4. CASE typ = "completed"
      <4>1. saved[r]
        BY <3>1, <3>2, <3>4 DEF SavedInv, SavedFirst
      <4>2. \A s \in Run : s # r => (HasEvent(s, "completed")' => HasEvent(s, "completed"))
        BY <3>3 DEF AddsOnly
      <4> QED
        BY <1>3, <4>1, <4>2 DEF SavedInv, CompletedIsSaved, HasEvent
    <3>5. CASE typ # "completed"
      BY <2>1, <3>2, <3>3, <3>5, OthersComplete
    <3> QED
      BY <3>4, <3>5
  <2> QED
    BY <2>2, <2>3, <2>4 DEF Relay
<1>6. SavedFirst'
  BY <1>2, <1>3, <1>4 DEF SavedInv, SavedFirst
<1>7. CompletedIsSaved'
  BY <1>5 DEF CompletedIsSaved, HasEvent
<1> QED
  BY <1>6, <1>7 DEF SavedInv

\* A run.completed event tells its client that the turn is in the turns table:
\* persistAssistant comes before the event, and its error makes the stream fail.
THEOREM CompletedMeansSaved == Spec => []CompletedIsSaved
<1>1. Init => SavedInv
  BY DEF Init, SavedInv, SavedFirst, CompletedIsSaved
<1>2. ASSUME IInv, SavedInv, [Next]_vars
      PROVE  SavedInv'
  <2>1. ASSUME CompletesNone, UNCHANGED saved,
               \A r \in Run : relay'[r] = relay[r] \/ relay'[r].at \in {"top", "done"}
        PROVE  SavedInv'
    BY <2>1, <1>2 DEF SavedInv, SavedFirst, CompletedIsSaved, CompletesNone, HasEvent
  <2>2. ASSUME NEW c \in Conn, Connect(c) \/ Drop(c) \/ NewRequest(c) \/ Handle(c)
        PROVE  SavedInv'
    BY <2>1, <2>2, <1>2, ConnSaves
  <2>3. ASSUME NEW r \in Run, Relay(r)
        PROVE  SavedInv'
    BY <2>3, <1>2, RelaySaves
  <2>4. CASE Crash
    <3>1. \A r \in Run : relay'[r] = relay[r] \/ relay'[r].at = "done"
      BY <2>4 DEF Crash
    <3> QED
      BY <2>1, <2>4, <3>1, NothingAdded DEF Crash, durable
  <2>5. CASE UNCHANGED vars
    BY <2>1, <2>5, NothingAdded DEF vars, durable, volatile
  <2> QED
    BY <1>2, <2>2, <2>3, <2>4, <2>5 DEF Next
<1>3. SavedInv => CompletedIsSaved
  BY DEF SavedInv
<1> QED
  BY <1>1, <1>2, <1>3, Invariance, PTL DEF Spec

-----------------------------------------------------------------------------
(* The tables and the relays *)

\* A request between the creation of its run and the launch of its relay.
Launching == {"route", "call", "dispatch"}
Launches(c, r) == req[c].at \in Launching /\ req[c].run = r

\* A run is launched once, by the request that created it.
LaunchedOnce ==
    /\ \A c \in Conn, r \in Run : Launches(c, r) => relay[r].at = "none"
    /\ \A c, d \in Conn, r \in Run : Launches(c, r) /\ Launches(d, r) => c = d

\* RegistryTracksRelays, and that the relay leaves the run registry first.
TracksRelay(r) ==
    /\ relay[r].at \in Cancellable => killed[r] \/ r \in runs \cap turns
    /\ r \in runs => relay[r].at \in RelayLive \ {"deregister_turn"}
    /\ r \in turns => relay[r].at \in RelayLive

TrackInv == LaunchedOnce /\ \A r \in Run : TracksRelay(r)

\* A relay about to be registered finds room in both tables.
HasRoom == \A c \in Conn : req[c].at = "dispatch" =>
    Cardinality(runs) < MaxTracked /\ Cardinality(turns) < MaxTracked

\* What a request that goes on to launch a run, or to cancel one, becomes in a
\* step that neither begins nor moves such a request to another run.
Continues(d) ==
    /\ req'[d].at \in Launching => req[d].at \in Launching /\ req'[d].run = req[d].run
    /\ req'[d].at = "cancel_append" => req[d].at = "cancel_append" /\ req'[d].run = req[d].run
OnlyContinues == \A d \in Conn : Continues(d)

\* The steps of a connection that launch no relay and cancel nothing.
Plain(c) ==
    \/ Connect(c) \/ Drop(c) \/ SubmitLookup(c) \/ RunCreateLookup(c) \/ Fork(c)
    \/ CancelRead(c) \/ AttachRead(c) \/ DetachRead(c) \/ HeartbeatRead(c)
    \/ CreateRunRecord(c) \/ CreateFails(c) \/ RouteFails(c) \/ PromptPlan(c) \/ ModelCall(c)
    \/ DispatchFails(c) \/ CancelAppend(c) \/ AttachAppend(c) \/ DetachAppend(c) \/ HeartbeatAppend(c)

\* A reply puts no handler on its way to a dispatch.
LEMMA ReplyContinues ==
    ASSUME IInv, NEW c \in Conn, Reply(c)
    PROVE  OnlyContinues
  BY Parts DEF RequestsOK, Reply, Idle, OnlyContinues, Continues, Launching

\* Neither does a request that begins at another stage.
LEMMA StartContinues ==
    ASSUME IInv, NEW c \in Conn, NEW q, q.at \notin Launching \cup {"cancel_append"},
           req' = [req EXCEPT ![c] = q]
    PROVE  OnlyContinues
  BY Parts DEF RequestsOK, OnlyContinues, Continues

\* A handler on its way to the dispatch stays with its run.
LEMMA GotoContinues ==
    ASSUME IInv, NEW c \in Conn, NEW at \in Launching, req[c].at \in Launching, Goto(c, at)
    PROVE  OnlyContinues
<1>1. req[c] \in Request /\ req' = [req EXCEPT ![c] = [req[c] EXCEPT !.at = at]]
  BY Parts DEF RequestsOK, Goto
<1>2. req'[c] = [req[c] EXCEPT !.at = at]
  BY <1>1, Parts DEF RequestsOK
<1>3. req'[c].at = at /\ req'[c].run = req[c].run
  BY <1>1, <1>2 DEF Request
<1>4. \A d \in Conn : d # c => req'[d] = req[d]
  BY <1>1, Parts DEF RequestsOK
<1> QED
  BY <1>3, <1>4 DEF OnlyContinues, Continues, Launching

\* The steps of handlers that touch neither the registries nor a relay.
LEMMA PlainStep ==
    ASSUME IInv, NEW c \in Conn, Plain(c)
    PROVE  OnlyContinues /\ UNCHANGED <<registry, relay, by>>
<1>1. CASE Connect(c) \/ Drop(c) \/ Fork(c)
  BY <1>1 DEF Connect, Drop, Fork, OnlyContinues, Continues
<1>2. CASE SubmitLookup(c) \/ RunCreateLookup(c)
  <2>1. PICK k \in Key \cup {None}, next \in {"create_turn", "create_run"} :
          Reply(c) \/ Start(c, next, None, k, "absent")
    BY <1>2 DEF SubmitLookup, RunCreateLookup, Lookup
  <2> DEFINE q == [at |-> next, run |-> None, key |-> k, seen |-> "absent"]
  <2>2. OnlyContinues
    BY <2>1, ReplyContinues, StartContinues DEF Start, Launching
  <2> QED
    BY <1>2, <2>2 DEF SubmitLookup, RunCreateLookup, Lookup
<1>3. CASE CancelRead(c) \/ AttachRead(c) \/ DetachRead(c) \/ HeartbeatRead(c)
  <2>1. PICK m \in AllMethods, r \in Run, next \in {"cancel", "attach", "detach", "heartbeat"} :
          Read(c, m, r, next)
    BY <1>3 DEF CancelRead, AttachRead, DetachRead, HeartbeatRead, AllMethods
  <2> DEFINE q == [at |-> next, run |-> r, key |-> None, seen |-> status[r]]
  <2>2. OnlyContinues
    BY <2>1, StartContinues DEF Read, Start, Launching
  <2> QED
    BY <2>1, <2>2 DEF Read
<1>4. CASE PromptPlan(c) \/ ModelCall(c)
  <2>1. PICK from \in Launching, to \in Launching : StageChanged(c, from, to)
    BY <1>4 DEF PromptPlan, ModelCall, Launching
  <2> QED
    BY <2>1, GotoContinues DEF StageChanged
<1>5. CASE CreateRunRecord(c) \/ CreateFails(c) \/ RouteFails(c) \/ DispatchFails(c)
           \/ CancelAppend(c) \/ AttachAppend(c) \/ DetachAppend(c) \/ HeartbeatAppend(c)
  BY <1>5, ReplyContinues DEF CreateRunRecord, CreateFails, RouteFails, DispatchFails,
                              CancelAppend, AttachAppend, DetachAppend, HeartbeatAppend
<1> QED
  BY <1>1, <1>2, <1>3, <1>4, <1>5 DEF Plain

\* A run that one handler is launching is still launched by one only.
LEMMA LaunchesKept ==
    ASSUME LaunchedOnce, OnlyContinues,
           \A r \in Run : relay[r].at = "none" => relay'[r].at = "none"
    PROVE  LaunchedOnce'
  BY DEF LaunchedOnce, OnlyContinues, Continues, Launches

\* Those steps keep the registries in line with the relays.
LEMMA PlainTracks ==
    ASSUME IInv, TrackInv, NEW c \in Conn, Plain(c)
    PROVE  TrackInv'
<1>1. OnlyContinues /\ UNCHANGED <<registry, relay>>
  BY PlainStep
<1> QED
  BY <1>1, LaunchesKept DEF TrackInv, TracksRelay, registry

\* The new run has no relay, and no other request is launching it.
LEMMA CreateTracks ==
    ASSUME IInv, TrackInv, NEW c \in Conn, CreateForegroundRunWithTurn(c)
    PROVE  TrackInv'
<1>1. PICK r \in Run : ~Present(r) /\ Start(c, "route", r, None, "running")
  BY DEF CreateForegroundRunWithTurn, CreateRun
<1>2. UNCHANGED <<registry, relay>>
  BY DEF CreateForegroundRunWithTurn
<1>3. relay[r].at = "none"
  BY <1>1, Parts DEF RelaysOK
<1>4. \A d \in Conn : ~Launches(d, r)
  BY <1>1, Parts DEF RequestsOK, ActsOn, HasRun, Launches, Launching
<1>5. \A d \in Conn : req'[d] = IF d = c THEN [at |-> "route", run |-> r, key |-> None, seen |-> "running"]
                                ELSE req[d]
  BY <1>1, Parts DEF RequestsOK, Start
<1>6. \A s \in Run, d \in Conn : Launches(d, s)' => (d = c /\ s = r) \/ (d # c /\ Launches(d, s))
  BY <1>5 DEF Launches
<1>7. LaunchedOnce'
  BY <1>2, <1>3, <1>4, <1>6 DEF TrackInv, LaunchedOnce
<1> QED
  BY <1>2, <1>7 DEF TrackInv, TracksRelay, registry

\* With room in the registries, a run that is dispatched is registered.
LEMMA DispatchTracks ==
    ASSUME IInv, TrackInv, HasRoom, NEW c \in Conn, Dispatched(c)
    PROVE  TrackInv'
<1> DEFINE r == req[c].run
<1>1. Launches(c, r) /\ req[c].at = "dispatch"
  BY DEF Dispatched, Launches, Launching
<1>2. r \in Run
  BY <1>1, RequestRun DEF HasRun
<1>3. runs' = runs \cup {r} /\ turns' = turns \cup {r} /\ UNCHANGED killed
  BY <1>1 DEF HasRoom, Dispatched, Register
<1>4. relay'[r].at = "top" /\ \A s \in Run : s # r => relay'[s] = relay[s]
  BY <1>2, Parts DEF Dispatched, RelaysOK, RelayState
<1>5. req'[c] = Idle /\ \A d \in Conn : d # c => req'[d] = req[d]
  BY Parts DEF Dispatched, Reply, RequestsOK
<1>6. \A s \in Run, d \in Conn : Launches(d, s)' => Launches(d, s) /\ d # c
  BY <1>5 DEF Launches, Launching, Idle
<1>7. LaunchedOnce'
  BY <1>1, <1>2, <1>4, <1>6 DEF TrackInv, LaunchedOnce
<1>8. \A s \in Run : TracksRelay(s)'
  BY <1>2, <1>3, <1>4 DEF TrackInv, TracksRelay, Cancellable
<1> QED
  BY <1>7, <1>8 DEF TrackInv

\* A cancellation kills the context, and the relay that listens to it keeps it.
LEMMA CancelTracks ==
    ASSUME IInv, TrackInv, NEW c \in Conn, CancelRegistry(c) \/ TurnCancel(c)
    PROVE  /\ TrackInv'
           /\ \A r \in Run : killed[r] => killed'[r]
<1>1. UNCHANGED relay /\ killed \in [Run -> BOOLEAN]
  BY Parts DEF RestOK, CancelRegistry, TurnCancel
<1>2. PICK r :
        \/ r \in Run /\ RegistryCancel(r) /\ UNCHANGED turns
        \/ /\ r \in turns \ runs
           /\ killed' = [killed EXCEPT ![r] = TRUE] /\ turns' = turns \ {r} /\ UNCHANGED runs
  <2>1. CASE CancelRegistry(c)
    BY <2>1, RequestRun DEF CancelRegistry, HasRun
  <2>2. CASE TurnCancel(c)
    BY <2>2, Parts DEF TurnCancel, RestOK
  <2> QED
    BY <2>1, <2>2
<1>3. \A s \in Run : (killed[s] => killed'[s]) /\ (TracksRelay(s) => TracksRelay(s)')
  BY <1>1, <1>2 DEF TracksRelay, RegistryCancel
<1>4. \A d \in Conn, s \in Run : Launches(d, s)' => Launches(d, s)
  <2>1. CASE CancelRegistry(c)
    <3>1. req[c] \in Request /\ req' = [req EXCEPT ![c] = [req[c] EXCEPT !.at = "cancel_append"]]
      BY <2>1, Parts DEF RequestsOK, CancelRegistry, Goto
    <3>2. req'[c].at = "cancel_append" /\ \A d \in Conn : d # c => req'[d] = req[d]
      BY <3>1, Parts DEF RequestsOK, Request
    <3> QED
      BY <3>2 DEF Launches, Launching
  <2>2. CASE TurnCancel(c)
    BY <2>2 DEF TurnCancel, Launches
  <2> QED
    BY <2>1, <2>2
<1> QED
  BY <1>1, <1>3, <1>4 DEF TrackInv, LaunchedOnce

\* A step of a relay, as the tables see it.
LEMMA RelayMove ==
    ASSUME IInv, NEW r \in Run, Relay(r)
    PROVE  /\ UNCHANGED <<conn, req, by, killed>>
           /\ \A s \in Run : s # r => relay'[s] = relay[s]
           /\ relay[r].at \in RelayLive /\ relay'[r].at \in RelayLive \cup {"done"}
           /\ relay'[r].at \in Cancellable => relay[r].at \in Cancellable
           /\ \/ UNCHANGED <<runs, turns>> /\ relay'[r].at \in Cancellable \cup {"deregister_run"}
              \/ /\ relay[r].at = "deregister_run" /\ relay'[r].at = "deregister_turn"
                 /\ runs' = runs \ {r} /\ UNCHANGED turns
              \/ /\ relay[r].at = "deregister_turn" /\ relay'[r].at = "done"
                 /\ turns' = turns \ {r} /\ UNCHANGED runs
<1>1. relay \in [Run -> RelayState]
  BY Parts DEF RelaysOK
<1>2. CASE RelayTop(r) \/ RelayEOF(r) \/ RelayError(r) \/ RelayEvent(r)
  BY <1>1, <1>2 DEF RelayTop, RelayEOF, RelayError, RelayEvent, RelayAt, RelayEnds, RelayState,
                   Cancellable, registry
<1>3. CASE PersistAssistant(r) \/ RecordRunModelCall(r)
  BY <1>1, <1>3 DEF PersistAssistant, RecordRunModelCall, RelayAt, RelayEnds, RelayState,
                   Cancellable, registry
<1>4. CASE AppendTerminalRunEvent(r)
  BY <1>1, <1>4 DEF AppendTerminalRunEvent, RelayAt, RelayState, Cancellable, registry
<1>5. CASE FallbackRead(r) \/ FallbackAppend(r)
  BY <1>1, <1>5 DEF FallbackRead, FallbackAppend, RelayAt, RelayState, Cancellable, registry
<1>6. CASE DeregisterRun(r) \/ DeregisterTurn(r)
  BY <1>1, <1>6 DEF DeregisterRun, DeregisterTurn, RelayAt, RelayState, Cancellable
<1> QED
  BY <1>2, <1>3, <1>4, <1>5, <1>6 DEF Relay

\* A relay deregisters its run only after it has stopped to listen.
LEMMA RelayTracks ==
    ASSUME IInv, TrackInv, NEW r \in Run, Relay(r)
    PROVE  TrackInv'
<1>1. \A s \in Run : TracksRelay(s)'
  BY RelayMove DEF TrackInv, TracksRelay, Cancellable
<1>2. LaunchedOnce'
  <2>1. \A c \in Conn, s \in Run : Launches(c, s)' => Launches(c, s)
    BY RelayMove DEF Launches
  <2>2. relay[r].at # "none" /\ \A s \in Run : s # r => relay'[s] = relay[s]
    BY RelayMove
  <2> QED
    BY <2>1, <2>2 DEF TrackInv, LaunchedOnce
<1> QED
  BY <1>1, <1>2 DEF TrackInv

\* After a crash neither registry nor relay is left.
LEMMA CrashTracks ==
    ASSUME IInv, TrackInv, Crash
    PROVE  TrackInv'
<1>1. \A r \in Run : relay'[r].at \notin RelayLive
  BY Parts DEF Crash, RelaysOK
<1>2. \A c \in Conn, r \in Run : ~Launches(c, r)'
  BY DEF Crash, Launches, Launching, Idle
<1> QED
  BY <1>1, <1>2 DEF Crash, TrackInv, LaunchedOnce, TracksRelay, Cancellable

\* No relay, no registration.
LEMMA TrackInit == ASSUME Init PROVE TrackInv
  BY DEF Init, TrackInv, LaunchedOnce, Launches, Launching, Idle, TracksRelay, Cancellable

\* Every step keeps the registries in line with the relays, while there is room.
LEMMA TrackPreserved ==
    ASSUME IInv, TrackInv, HasRoom, [Next]_vars
    PROVE  TrackInv'
<1>1. ASSUME NEW c \in Conn, Plain(c) \/ TurnCancel(c) \/ CreateForegroundRunWithTurn(c)
                             \/ Dispatched(c) \/ CancelRegistry(c)
      PROVE  TrackInv'
  BY <1>1, PlainTracks, CreateTracks, DispatchTracks, CancelTracks
<1>2. CASE UNCHANGED vars
  BY <1>2 DEF vars, volatile, registry, TrackInv, LaunchedOnce, Launches, TracksRelay
<1> QED
  BY <1>1, <1>2, RelayTracks, CrashTracks DEF Next, NewRequest, Handle, Plain

\* While the tables have room when a relay is registered, every relay that has
\* not been cancelled can be, through either table, and neither table keeps a
\* run whose relay has gone.
THEOREM RelaysStayTracked == Spec /\ []HasRoom => []RegistryTracksRelays
<1>1. Init => TrackInv
  BY TrackInit
<1>2. IInv /\ TrackInv /\ HasRoom /\ [Next]_vars => TrackInv'
  BY TrackPreserved
<1>3. TrackInv => RegistryTracksRelays
  BY DEF TrackInv, TracksRelay, RegistryTracksRelays
<1> QED
  BY <1>1, <1>2, <1>3, Invariance, PTL DEF Spec

\* As many entries as there are runs is room enough: a run being launched is in
\* neither table yet.
LEMMA RoomEnough ==
    ASSUME IInv, TrackInv, IsFiniteSet(Run), Cardinality(Run) <= MaxTracked
    PROVE  HasRoom
<1> SUFFICES ASSUME NEW c \in Conn, req[c].at = "dispatch"
             PROVE  Cardinality(runs) < MaxTracked /\ Cardinality(turns) < MaxTracked
  BY DEF HasRoom
<1> DEFINE r == req[c].run
<1>1. r \in Run /\ relay[r].at = "none"
  BY RequestRun DEF HasRun, TrackInv, LaunchedOnce, Launches, Launching
<1>2. r \notin runs /\ r \notin turns
  BY <1>1 DEF TrackInv, TracksRelay
<1>3. runs \subseteq Run \ {r} /\ turns \subseteq Run \ {r}
  BY <1>2, Parts DEF RestOK
<1>4. IsFiniteSet(Run \ {r}) /\ Cardinality(Run \ {r}) = Cardinality(Run) - 1 /\ Cardinality(Run) \in Nat
  BY <1>1, FS_RemoveElement, FS_CardinalityType
<1>5. /\ Cardinality(runs) <= Cardinality(Run) - 1 /\ Cardinality(runs) \in Nat
      /\ Cardinality(turns) <= Cardinality(Run) - 1 /\ Cardinality(turns) \in Nat
  BY <1>3, <1>4, FS_Subset, FS_CardinalityType
<1> QED
  BY <1>4, <1>5, LifecycleAssumption

\* The registry's promise for at most MaxTracked runs.
THEOREM BoundedRelaysStayTracked ==
    ASSUME IsFiniteSet(Run), Cardinality(Run) <= MaxTracked
    PROVE  Spec => []RegistryTracksRelays
<1>1. Init => TrackInv
  BY TrackInit
<1>2. IInv /\ TrackInv /\ [Next]_vars => TrackInv'
  BY TrackPreserved, RoomEnough
<1>3. TrackInv => RegistryTracksRelays
  BY DEF TrackInv, TracksRelay, RegistryTracksRelays
<1> QED
  BY <1>1, <1>2, <1>3, Invariance, PTL DEF Spec

-----------------------------------------------------------------------------
(* One client *)

OneClient == \A c, d \in Conn : c = d

\* The relay may still write what the provider streams.
Streaming == {"top", "read", "persist", "bill", "terminal"}

\* The work events, and that none follows run.cancelled in a log.
Work == {"stage", "token", "tool", "completed"}
NoWork(r) == \A i, j \in DOMAIN log[r] :
    i < j /\ log[r][i].type = "cancelled" => log[r][j].type \notin Work

\* A context that has died stays dead: a connection that has launched a relay
\* has been up, and never comes up again.
ContextsDie ==
    /\ \A c \in Conn : req[c].at # "idle" => conn[c] = "up"
    /\ \A r \in Run, c \in Conn : by[r] = c => conn[c] # "new"

\* A run that is being launched is running, and a handler about to append
\* run.cancelled has stopped the relay.
RequestInv ==
    /\ \A c \in Conn, r \in Run : Launches(c, r) => status[r] = "running"
    /\ \A c \in Conn : req[c].at = "cancel_append" =>
           (relay[req[c].run].at \in Cancellable => killed[req[c].run])

\* A terminal run that was cancelled does no more work, and the relay of a
\* terminal run writes nothing more.
CancelledInv == \A r \in Run : (HasEvent(r, "cancelled") => IsTerminal(r)) /\ NoWork(r)
StreamInv == \A r \in Run : IsTerminal(r) /\ relay[r].at \in Streaming => CtxDead(r)

ClientInv == ContextsDie /\ RequestInv /\ CancelledInv /\ StreamInv

\* What a step does to the rows and the logs, as these properties see it.
TerminalKept == \A r \in Run : IsTerminal(r) => status'[r] \in Terminal
StoreGoal == CancelledInv' /\ TerminalKept

\* A step that makes no run terminal.
NoneEnds == \A r \in Run : IsTerminal(r)' => IsTerminal(r)

\* A step that writes nothing ends no run and gives none new work.
LEMMA StoreUntouched ==
    ASSUME CancelledInv, UNCHANGED <<status, log>>
    PROVE  StoreGoal /\ NoneEnds
  BY DEF CancelledInv, StoreGoal, TerminalKept, NoneEnds, HasEvent, IsTerminal, NoWork

\* An append that the row of the run allows.
LEMMA AppendSettles ==
    ASSUME IInv, CancelledInv, NEW r \in Run, NEW typ \in EventType, NEW st \in Status,
           NEW c \in Conn \cup {None}, TryAppend(r, typ, st, c),
           typ \in Work => ~IsTerminal(r),
           typ \in LifecycleType /\ st \notin Terminal => ~IsTerminal(r),
           typ = "cancelled" => st \in Terminal
    PROVE  /\ StoreGoal
           /\ \A s \in Run : s # r => status'[s] = status[s]
           /\ status'[r] \in {st, status[r]}
           /\ typ \notin LifecycleType => status' = status
<1>1. CASE AppendRunEvent(r, typ, st, c)
  <2>1. \A s \in Run : s # r => log'[s] = log[s] /\ status'[s] = status[s]
    BY <1>1, Parts DEF AppendRunEvent, StoreOK
  <2>2. status'[r] = IF typ \in LifecycleType THEN st ELSE status[r]
    BY <1>1, Parts DEF AppendRunEvent, StoreOK
  <2>3. PICK n \in Nat : Longer(r, n, typ, st)
    BY <1>1, AppendedAt
  <2>4. TerminalKept
    BY <2>1, <2>2 DEF TerminalKept, IsTerminal
  <2>5. HasEvent(r, "cancelled")' => IsTerminal(r)'
    <3>1. HasEvent(r, "cancelled")' => HasEvent(r, "cancelled") \/ typ = "cancelled"
      BY <2>3 DEF Longer, HasEvent
    <3> QED
      BY <2>2, <2>4, <3>1 DEF CancelledInv, TerminalKept, IsTerminal
  <2>6. NoWork(r)'
    <3>1. typ \in Work => \A i \in 1 .. n : log[r][i].type # "cancelled"
      BY <2>3 DEF Longer, CancelledInv, HasEvent
    <3>2. ASSUME NEW i \in 1 .. n + 1, NEW j \in 1 .. n + 1, i < j, log'[r][i].type = "cancelled"
          PROVE  log'[r][j].type \notin Work
      <4>1. CASE j = n + 1
        <5>1. i \in 1 .. n
          BY <3>2, <4>1
        <5> QED
          BY <2>3, <3>1, <3>2, <4>1, <5>1 DEF Longer
      <4>2. CASE j # n + 1
        <5>1. i \in 1 .. n /\ j \in 1 .. n
          BY <3>2, <4>2
        <5> QED
          BY <2>3, <3>2, <5>1 DEF Longer, CancelledInv, NoWork
      <4> QED
        BY <4>1, <4>2
    <3> QED
      BY <2>3, <3>2 DEF Longer, NoWork
  <2>7. \A s \in Run : s # r => ((HasEvent(s, "cancelled") => IsTerminal(s)) /\ NoWork(s))'
    BY <2>1 DEF CancelledInv, HasEvent, IsTerminal, NoWork
  <2>8. CancelledInv'
    BY <2>5, <2>6, <2>7 DEF CancelledInv
  <2>9. typ \notin LifecycleType => status' = status
    BY <1>1 DEF AppendRunEvent
  <2> QED
    BY <2>1, <2>2, <2>4, <2>8, <2>9 DEF StoreGoal
<1>2. CASE StoreUnchanged
  BY <1>2, StoreUntouched DEF StoreUnchanged
<1> QED
  BY <1>1, <1>2 DEF TryAppend

\* A lifecycle event settles the rows as AppendSettles says.
LEMMA LifecycleSettles ==
    ASSUME IInv, CancelledInv, NEW r \in Run, NEW typ \in EventType, NEW st \in Status,
           TryLifecycle(r, typ, st),
           typ \in Work => ~IsTerminal(r),
           typ \in LifecycleType /\ st \notin Terminal => ~IsTerminal(r),
           typ = "cancelled" => st \in Terminal
    PROVE  /\ StoreGoal
           /\ \A s \in Run : s # r => status'[s] = status[s]
           /\ status'[r] \in {st, status[r]}
<1>1. attached[r] \in Conn \cup {None}
  BY Parts DEF StoreOK
<1> QED
  BY <1>1, AppendSettles DEF TryLifecycle

\* What a relay appends while its context lives finds the run active.
LEMMA RelaySettles ==
    ASSUME IInv, CancelledInv, StreamInv, NEW r \in Run, relay[r].at \in Streaming,
           NEW typ \in EventType, NEW st \in Status, RelayAppend(r, typ, st),
           typ = "cancelled" => st \in Terminal
    PROVE  /\ StoreGoal
           /\ \A s \in Run : s # r => status'[s] = status[s]
           /\ status'[r] = status[r] \/ status'[r] = st
<1>1. CASE CtxDead(r)
  BY <1>1, StoreUntouched DEF RelayAppend, StoreUnchanged
<1>2. CASE ~CtxDead(r)
  <2>1. ~IsTerminal(r) /\ TryLifecycle(r, typ, st)
    BY <1>2 DEF StreamInv, RelayAppend
  <2> QED
    BY <2>1, LifecycleSettles
<1> QED
  BY <1>1, <1>2

\* A new run is not ended, and the other rows stay.
LEMMA CreateSettles ==
    ASSUME IInv, CancelledInv, NEW r \in Run, NEW k, NEW st \in {"queued", "running"}, NEW c,
           CreateRun(r, k, st, c)
    PROVE  /\ StoreGoal /\ NoneEnds
           /\ ~Present(r) /\ status'[r] = st
           /\ \A s \in Run : s # r => status'[s] = status[s]
<1>1. \A s \in Run : s # r => log'[s] = log[s] /\ status'[s] = status[s]
  BY Parts DEF CreateRun, StoreOK
<1>2. status'[r] = st /\ ~Present(r) /\ ~IsTerminal(r) /\ log'[r] = <<[type |-> "started", status |-> st]>>
  BY Parts DEF CreateRun, StoreOK, Present, IsTerminal
<1>3. \A i \in DOMAIN log'[r] : log'[r][i].type = "started"
  BY <1>2
<1>4. CancelledInv'
  BY <1>1, <1>3 DEF CancelledInv, HasEvent, IsTerminal, NoWork
<1> QED
  BY <1>1, <1>2, <1>4 DEF StoreGoal, TerminalKept, NoneEnds, IsTerminal

-----------------------------------------------------------------------------
(* The steps of the one client *)

\* No connection comes up twice.
ConnMoves(d) == conn'[d] = conn[d] \/ conn'[d] = "down" \/ (conn[d] = "new" /\ conn'[d] = "up")

\* A step of the server keeps the contexts it killed.
LEMMA ContextStep ==
    ASSUME ContextsDie, RestOK,
           \A c \in Conn : ConnMoves(c),
           \A r \in Run : killed[r] => killed'[r],
           UNCHANGED by
    PROVE  \A r \in Run : CtxDead(r) => CtxDead(r)'
  BY DEF ContextsDie, CtxDead, ConnMoves

\* The invariants of a step that launches no relay.
LEMMA ClientSettles ==
    ASSUME ClientInv, TrackInv, StoreGoal, ContextsDie',
           \A r \in Run : CtxDead(r) => CtxDead(r)',
           OnlyContinues, UNCHANGED <<registry, relay>>,
           \A c \in Conn, r \in Run : Launches(c, r)' => status'[r] = status[r] \/ status'[r] = "running",
           \A r \in Run : IsTerminal(r)' => \/ IsTerminal(r) \/ relay[r].at \notin Streaming
                                            \/ CtxDead(r)
    PROVE  ClientInv' /\ TerminalKept
<1>1. RequestInv'
  BY DEF ClientInv, RequestInv, OnlyContinues, Continues, Launches, registry
<1>2. StreamInv'
  BY DEF ClientInv, StreamInv
<1> QED
  BY <1>1, <1>2 DEF ClientInv, StoreGoal

\* Only a connection that is up handles a request.
LEMMA ConnectedStep ==
    ASSUME IInv, ContextsDie, NEW c \in Conn,
           Plain(c) \/ CreateForegroundRunWithTurn(c) \/ CancelRegistry(c) \/ TurnCancel(c)
    PROVE  ContextsDie' /\ \A d \in Conn : ConnMoves(d)
<1>1. conn \in [Conn -> {"new", "up", "down"}] /\ req \in [Conn -> Request] /\ UNCHANGED by
  BY Parts, PlainStep DEF RestOK, RequestsOK, CreateForegroundRunWithTurn, CancelRegistry, TurnCancel
<1>2. CASE Connect(c) \/ Drop(c)
  BY <1>1, <1>2 DEF ContextsDie, ConnMoves, Connect, Drop, Idle
<1>3. CASE ~(Connect(c) \/ Drop(c))
  <2> USE <1>3 DEF Plain, SubmitLookup, RunCreateLookup, Lookup, Fork,
        CancelRead, AttachRead, DetachRead, HeartbeatRead, Read,
        CreateRunRecord, CreateFails, CreateForegroundRunWithTurn, RouteFails, DispatchFails,
        PromptPlan, ModelCall, StageChanged, CancelRegistry, TurnCancel,
        CancelAppend, AttachAppend, DetachAppend, HeartbeatAppend
  <2>1. UNCHANGED conn
    OBVIOUS
  <2>2. \A d \in Conn : d # c => req'[d] = req[d]
    BY <1>1 DEF Reply, Start, Goto
  <2>3. req'[c].at # "idle" => conn[c] = "up"
    <3>1. CASE req[c].at # "idle"
      BY <3>1 DEF ContextsDie
    <3>2. CASE req[c].at = "idle"
      <4>1. CASE \E m \in AllMethods : Receive(c, m)
        BY <4>1 DEF Receive
      <4>2. CASE ~ \E m \in AllMethods : Receive(c, m)
        BY <3>2, <4>2 DEF AllMethods
      <4> QED
        BY <4>1, <4>2
    <3> QED
      BY <3>1, <3>2
  <2> QED
    BY <1>1, <2>1, <2>2, <2>3 DEF ContextsDie, ConnMoves
<1> QED
  BY <1>2, <1>3

\* The plain steps: what they write, they write to runs that have not ended.
LEMMA PlainSettles ==
    ASSUME IInv, TrackInv, ClientInv, OneClient, NEW c \in Conn, Plain(c)
    PROVE  ClientInv' /\ TerminalKept
<1>1. OnlyContinues /\ UNCHANGED <<registry, relay, by>>
  BY PlainStep
<1>2. ContextsDie' /\ \A r \in Run : CtxDead(r) => CtxDead(r)'
  BY <1>1, Parts, ConnectedStep, ContextStep DEF ClientInv, registry
<1>3. ASSUME StoreGoal, NoneEnds,
             \A d \in Conn, r \in Run : Launches(d, r)' => status'[r] = status[r] \/ status'[r] = "running"
      PROVE  ClientInv' /\ TerminalKept
  BY <1>1, <1>2, <1>3, ClientSettles DEF NoneEnds
<1>4. CASE Connect(c) \/ Drop(c) \/ SubmitLookup(c) \/ RunCreateLookup(c) \/ CreateFails(c)
           \/ CancelRead(c) \/ AttachRead(c) \/ DetachRead(c) \/ HeartbeatRead(c)
  <2>1. UNCHANGED <<status, log>>
    BY <1>4 DEF Connect, Drop, SubmitLookup, RunCreateLookup, Lookup, CreateFails,
                CancelRead, AttachRead, DetachRead, HeartbeatRead, Read, durable
  <2> QED
    BY <1>3, <2>1, StoreUntouched DEF ClientInv
<1>5. CASE Fork(c) \/ CreateRunRecord(c)
  <2>1. PICK r \in Run, k \in Key \cup {None} : CreateRun(r, k, "queued", None)
    BY <1>5, RequestKey DEF Fork, CreateRunRecord
  <2>2. \A d \in Conn : ~Launches(d, r)
    BY <2>1, Parts DEF RequestsOK, ActsOn, HasRun, Launches, Launching, CreateRun
  <2>3. \A d \in Conn, s \in Run : Launches(d, s)' => Launches(d, s)
    BY <1>1 DEF OnlyContinues, Continues, Launches
  <2>4. /\ StoreGoal /\ NoneEnds
        /\ \A s \in Run : s # r => status'[s] = status[s]
    BY <2>1, CreateSettles DEF ClientInv
  <2> QED
    BY <1>3, <2>2, <2>3, <2>4
<1>6. CASE RouteFails(c) \/ DispatchFails(c) \/ PromptPlan(c) \/ ModelCall(c)
  <2> DEFINE r == req[c].run
  <2>1. r \in Run /\ Launches(c, r)
    BY <1>6, RequestRun DEF RouteFails, DispatchFails, PromptPlan, ModelCall, StageChanged,
                            HasRun, Launches, Launching
  <2>2. relay[r].at = "none" /\ ~IsTerminal(r)
    BY <2>1 DEF TrackInv, LaunchedOnce, ClientInv, RequestInv, IsTerminal
  <2>3. CASE RouteFails(c) \/ DispatchFails(c)
    <3>1. TryLifecycle(r, "failed", "failed") /\ Reply(c)
      BY <2>3 DEF RouteFails, DispatchFails
    <3>2. StoreGoal /\ \A s \in Run : s # r => status'[s] = status[s]
      BY <2>1, <3>1, LifecycleSettles DEF ClientInv, Work
    <3>3. \A d \in Conn, s \in Run : ~Launches(d, s)'
      BY <3>1, Parts DEF OneClient, Reply, RequestsOK, Idle, Launches, Launching
    <3>4. relay[r].at \notin Streaming
      BY <2>2 DEF Streaming
    <3> QED
      BY <1>1, <1>2, <3>2, <3>3, <3>4, ClientSettles DEF IsTerminal
  <2>4. CASE PromptPlan(c) \/ ModelCall(c)
    <3>1. TryLifecycle(r, "stage", "running")
      BY <2>4 DEF PromptPlan, ModelCall, StageChanged
    <3>2. /\ StoreGoal
          /\ \A s \in Run : s # r => status'[s] = status[s]
          /\ status'[r] \in {"running", status[r]}
      BY <2>1, <2>2, <3>1, LifecycleSettles DEF ClientInv
    <3>3. NoneEnds
      BY <2>2, <3>2 DEF NoneEnds, IsTerminal
    <3> QED
      BY <1>3, <3>2, <3>3
  <2> QED
    BY <1>6, <2>3, <2>4
<1>7. CASE CancelAppend(c)
  <2> DEFINE r == req[c].run
  <2>1. r \in Run /\ TryLifecycle(r, "cancelled", "cancelled") /\ Reply(c) /\ req[c].at = "cancel_append"
    BY <1>7, RequestRun DEF CancelAppend, HasRun
  <2>2. StoreGoal /\ \A s \in Run : s # r => status'[s] = status[s]
    BY <2>1, LifecycleSettles DEF ClientInv, Work
  <2>3. \A d \in Conn, s \in Run : ~Launches(d, s)'
    BY <2>1, Parts DEF OneClient, Reply, RequestsOK, Idle, Launches, Launching
  <2>4. relay[r].at \in Streaming => CtxDead(r)
    BY <2>1 DEF ClientInv, RequestInv, Streaming, Cancellable, CtxDead
  <2> QED
    BY <1>1, <1>2, <2>2, <2>3, <2>4, ClientSettles DEF IsTerminal
<1>8. CASE AttachAppend(c) \/ DetachAppend(c) \/ HeartbeatAppend(c)
  <2>1. req[c].at \in HasRun
    BY <1>8 DEF AttachAppend, DetachAppend, HeartbeatAppend, HasRun
  <2>2. /\ req[c].run \in Run /\ req[c].seen \in Status
        /\ attached[req[c].run] \in Conn \cup {None}
    BY <2>1, RequestRun, Parts DEF StoreOK
  <2>3. PICK typ \in {"attached", "detached", "beat"}, d \in Conn \cup {None} :
          TryAppend(req[c].run, typ, req[c].seen, d)
    BY <1>8, <2>2 DEF AttachAppend, DetachAppend, HeartbeatAppend
  <2>4. StoreGoal /\ status' = status
    BY <2>2, <2>3, AppendSettles DEF ClientInv, Work
  <2> QED
    BY <1>3, <2>4 DEF NoneEnds, IsTerminal
<1> QED
  BY <1>4, <1>5, <1>6, <1>7, <1>8 DEF Plain

\* A new run of turn.submit: nobody else knows it yet.
LEMMA CreateForegroundSettles ==
    ASSUME IInv, ClientInv, OneClient, NEW c \in Conn, CreateForegroundRunWithTurn(c)
    PROVE  ClientInv' /\ TerminalKept
<1>1. PICK r \in Run : CreateRun(r, req[c].key, "running", c) /\ Start(c, "route", r, None, "running")
  BY DEF CreateForegroundRunWithTurn
<1>2. StoreGoal /\ NoneEnds /\ status'[r] = "running"
  BY <1>1, RequestKey, CreateSettles DEF ClientInv
<1>3. req'[c].at = "route" /\ req'[c].run = r
  BY <1>1, Parts DEF Start, RequestsOK
<1>4. RequestInv'
  BY <1>2, <1>3 DEF OneClient, RequestInv, Launches
<1>5. UNCHANGED <<registry, relay, by>>
  BY DEF CreateForegroundRunWithTurn
<1>6. ContextsDie' /\ \A s \in Run : CtxDead(s) => CtxDead(s)'
  BY <1>5, Parts, ConnectedStep, ContextStep DEF ClientInv, registry
<1>7. StreamInv'
  BY <1>2, <1>5, <1>6 DEF ClientInv, StreamInv, NoneEnds
<1> QED
  BY <1>2, <1>4, <1>6, <1>7 DEF ClientInv, StoreGoal

\* The dispatch: its run has not ended, as its client is waiting here.
LEMMA DispatchSettles ==
    ASSUME IInv, TrackInv, ClientInv, OneClient, NEW c \in Conn, Dispatched(c)
    PROVE  ClientInv' /\ TerminalKept
<1> DEFINE r == req[c].run
<1>1. Launches(c, r) /\ r \in Run
  BY RequestRun DEF Dispatched, Launches, Launching, HasRun
<1>2. status[r] = "running" /\ conn[c] = "up"
  BY <1>1 DEF ClientInv, RequestInv, ContextsDie, Launches, Launching
<1>3. req'[c] = Idle /\ UNCHANGED <<status, log, conn, killed>>
  BY Parts DEF Dispatched, Reply, RequestsOK, durable
<1>4. /\ \A s \in Run : s # r => by'[s] = by[s] /\ relay'[s] = relay[s]
      /\ by'[r] = c
  BY <1>1, Parts DEF Dispatched, RestOK, RelaysOK
<1>5. StoreGoal
  BY <1>3, StoreUntouched DEF ClientInv
<1>6. RequestInv'
  BY <1>3 DEF OneClient, RequestInv, Launches, Launching, Idle
<1>7. ContextsDie'
  BY <1>2, <1>3, <1>4 DEF OneClient, ClientInv, ContextsDie, Idle
<1>8. StreamInv'
  BY <1>2, <1>3, <1>4 DEF ClientInv, StreamInv, IsTerminal, CtxDead
<1> QED
  BY <1>5, <1>6, <1>7, <1>8 DEF ClientInv, StoreGoal

\* A cancellation of a streaming run has killed its context before the row ends.
LEMMA CancelSettles ==
    ASSUME IInv, TrackInv, ClientInv, NEW c \in Conn, CancelRegistry(c) \/ TurnCancel(c)
    PROVE  ClientInv' /\ TerminalKept
<1>1. UNCHANGED <<status, log, relay, by>>
  BY DEF CancelRegistry, TurnCancel, durable
<1>2. \A s \in Run : killed[s] => killed'[s]
  BY CancelTracks
<1>3. ContextsDie' /\ \A s \in Run : CtxDead(s) => CtxDead(s)'
  BY <1>1, <1>2, Parts, ConnectedStep, ContextStep DEF ClientInv
<1>4. StoreGoal
  BY <1>1, StoreUntouched DEF ClientInv
<1>5. StreamInv'
  BY <1>1, <1>3 DEF ClientInv, StreamInv, IsTerminal
<1>6. RequestInv'
  <2>1. CASE CancelRegistry(c)
    <3> DEFINE r == req[c].run
    <3>1. r \in Run /\ killed'[r] = (killed[r] \/ r \in runs)
      BY <2>1, RequestRun, Parts DEF CancelRegistry, RegistryCancel, RestOK, HasRun
    <3>2. relay[r].at \in Cancellable => killed'[r]
      BY <3>1 DEF TrackInv, TracksRelay
    <3>3. req[c] \in Request /\ req' = [req EXCEPT ![c] = [req[c] EXCEPT !.at = "cancel_append"]]
      BY <2>1, Parts DEF RequestsOK, CancelRegistry, Goto
    <3>4. /\ req'[c].at = "cancel_append" /\ req'[c].run = r
          /\ \A d \in Conn : d # c => req'[d] = req[d]
      BY <3>3, Parts DEF RequestsOK, Request
    <3>5. \A d \in Conn : d # c /\ req[d].at = "cancel_append" => req[d].run \in Run
      BY RequestRun DEF HasRun
    <3> QED
      BY <1>1, <1>2, <3>2, <3>4, <3>5 DEF ClientInv, RequestInv, Launches, Launching
  <2>2. CASE TurnCancel(c)
    <3>1. UNCHANGED req
      BY <2>2 DEF TurnCancel
    <3>2. \A d \in Conn : req[d].at = "cancel_append" => req[d].run \in Run
      BY RequestRun DEF HasRun
    <3> QED
      BY <1>1, <1>2, <3>1, <3>2 DEF ClientInv, RequestInv, Launches
  <2> QED
    BY <2>1, <2>2
<1> QED
  BY <1>3, <1>4, <1>5, <1>6 DEF ClientInv, StoreGoal

\* A relay that leaves other runs alone keeps the client's invariant.
LEMMA RelayKeepsClient ==
    ASSUME IInv, TrackInv, ClientInv, NEW r \in Run, Relay(r), StoreGoal,
           \A s \in Run : s # r => status'[s] = status[s],
           IsTerminal(r)' /\ relay'[r].at \in Streaming => IsTerminal(r) /\ relay[r].at \in Streaming
    PROVE  ClientInv' /\ TerminalKept
<1>1. /\ UNCHANGED <<conn, req, by, killed>>
      /\ \A s \in Run : s # r => relay'[s] = relay[s]
      /\ relay[r].at # "none"
      /\ relay'[r].at \in Cancellable => relay[r].at \in Cancellable
  BY RelayMove
<1>2. ContextsDie'
  BY <1>1 DEF ClientInv, ContextsDie
<1>3. StreamInv'
  BY <1>1 DEF ClientInv, StreamInv, CtxDead, IsTerminal
<1>4. RequestInv'
  <2>1. \A c \in Conn : ~Launches(c, r)
    BY <1>1 DEF TrackInv, LaunchedOnce
  <2>2. \A c \in Conn : req[c].at = "cancel_append" => req[c].run \in Run
    BY RequestRun DEF HasRun
  <2> QED
    BY <1>1, <2>1, <2>2 DEF ClientInv, RequestInv, Launches
<1> QED
  BY <1>2, <1>3, <1>4 DEF ClientInv, StoreGoal

\* Every step of a relay: it ends its own run only, and once.
LEMMA RelayStepSettles ==
    ASSUME IInv, TrackInv, ClientInv, NEW r \in Run, Relay(r)
    PROVE  ClientInv' /\ TerminalKept
<1>1. relay[r] \in RelayState /\ relay \in [Run -> RelayState] /\ status[r] \in Status
  BY Parts DEF RelaysOK, StoreOK
<1>2. CASE RelayTop(r) \/ RelayEOF(r) \/ RelayError(r) \/ PersistAssistant(r) \/ RecordRunModelCall(r)
           \/ FallbackRead(r) \/ DeregisterRun(r) \/ DeregisterTurn(r)
  <2>1. UNCHANGED <<status, log>>
    BY <1>2 DEF RelayTop, RelayEOF, RelayError, PersistAssistant, RecordRunModelCall,
                FallbackRead, DeregisterRun, DeregisterTurn, durable
  <2>2. relay'[r].at \in Streaming => relay[r].at \in Streaming
    BY <1>1, <1>2 DEF RelayTop, RelayEOF, RelayError, PersistAssistant, RecordRunModelCall,
                FallbackRead, DeregisterRun, DeregisterTurn, RelayAt, RelayEnds, RelayState, Streaming
  <2> QED
    BY <2>1, <2>2, StoreUntouched, RelayKeepsClient DEF ClientInv, IsTerminal
<1>3. CASE RelayEvent(r)
  <2>1. relay[r].at \in Streaming
    BY <1>3 DEF RelayEvent, RelayAt, Streaming
  <2>2. PICK typ \in {"token", "tool"}, st \in {"running", status[r]} : RelayAppend(r, typ, st)
    BY <1>3 DEF RelayEvent
  <2>3. /\ StoreGoal
        /\ \A s \in Run : s # r => status'[s] = status[s]
        /\ status'[r] \in {"running", status[r]}
    BY <1>1, <2>1, <2>2, RelaySettles DEF ClientInv
  <2> QED
    BY <2>1, <2>3, RelayKeepsClient DEF IsTerminal
<1>4. CASE AppendTerminalRunEvent(r)
  <2> DEFINE typ == TerminalEvent[relay[r].outcome]
  <2>1. relay[r].at \in Streaming /\ RelayAppend(r, typ, typ)
    BY <1>4 DEF AppendTerminalRunEvent, RelayAt, Streaming
  <2>2. typ \in Terminal
    BY <1>1 DEF RelayState, Outcome, TerminalEvent
  <2>3. StoreGoal /\ \A s \in Run : s # r => status'[s] = status[s]
    BY <2>1, <2>2, RelaySettles DEF ClientInv
  <2>4. relay'[r].at \notin Streaming
    BY <1>1, <1>4 DEF AppendTerminalRunEvent, RelayAt, RelayState, Streaming
  <2> QED
    BY <2>3, <2>4, RelayKeepsClient
<1>5. CASE FallbackAppend(r)
  <2>1. StoreGoal /\ \A s \in Run : s # r => status'[s] = status[s]
    BY <1>5, LifecycleSettles DEF FallbackAppend, ClientInv, Work
  <2>2. relay'[r].at \notin Streaming
    BY <1>1, <1>5 DEF FallbackAppend, RelayAt, RelayState, Streaming
  <2> QED
    BY <2>1, <2>2, RelayKeepsClient
<1> QED
  BY <1>2, <1>3, <1>4, <1>5 DEF Relay

\* After a crash nothing acts on a run.
LEMMA CrashSettles ==
    ASSUME IInv, ClientInv, Crash
    PROVE  ClientInv' /\ TerminalKept
<1>1. \A r \in Run : relay'[r].at \notin RelayLive
  BY Parts DEF Crash, RelaysOK
<1>2. StoreGoal
  BY StoreUntouched DEF ClientInv, Crash, durable
<1>3. StreamInv'
  BY <1>1 DEF StreamInv, Streaming
<1>4. RequestInv'
  BY DEF Crash, RequestInv, Launches, Launching, Idle
<1>5. ContextsDie'
  BY Parts DEF Crash, ClientInv, ContextsDie, Idle, RestOK
<1> QED
  BY <1>2, <1>3, <1>4, <1>5 DEF ClientInv, StoreGoal

\* Nothing has happened yet.
LEMMA ClientInit == ASSUME Init PROVE ClientInv
<1>1. \A r \in Run : DOMAIN log[r] = {}
  BY DEF Init
<1>2. CancelledInv
  BY <1>1 DEF CancelledInv, HasEvent, NoWork
<1>3. ContextsDie /\ RequestInv /\ StreamInv
  BY LifecycleAssumption
     DEF Init, ContextsDie, RequestInv, StreamInv, Launches, Launching, Idle, IsTerminal
<1> QED
  BY <1>2, <1>3 DEF ClientInv

\* Every step keeps the client's invariant, and no run that ended goes on.
LEMMA ClientPreserved ==
    ASSUME OneClient, IInv, TrackInv, ClientInv, [Next]_vars
    PROVE  ClientInv' /\ TerminalKept
<1>1. ASSUME NEW c \in Conn, Plain(c) \/ TurnCancel(c) \/ CreateForegroundRunWithTurn(c)
                             \/ Dispatched(c) \/ CancelRegistry(c)
      PROVE  ClientInv' /\ TerminalKept
  BY <1>1, PlainSettles, CreateForegroundSettles, DispatchSettles, CancelSettles
<1>2. CASE UNCHANGED vars
  <2>1. StoreGoal
    BY <1>2, StoreUntouched DEF ClientInv, vars, durable
  <2>2. ContextsDie' /\ RequestInv' /\ StreamInv'
    BY <1>2 DEF ClientInv, ContextsDie, RequestInv, StreamInv, Launches, IsTerminal, CtxDead,
                vars, durable, volatile, registry
  <2> QED
    BY <2>1, <2>2 DEF ClientInv, StoreGoal
<1> QED
  BY <1>1, <1>2, RelayStepSettles, CrashSettles DEF Next, NewRequest, Handle, Plain

\* With one client and room in the tables, nothing the provider streams enters
\* the log after run.cancelled, whether the store fails or the server crashes.
THEOREM CancelledStopsWork ==
    ASSUME OneClient
    PROVE  Spec /\ []HasRoom => []NoWorkAfterCancelled
<1>1. Init => TrackInv /\ ClientInv
  BY TrackInit, ClientInit
<1>2. IInv /\ TrackInv /\ ClientInv /\ HasRoom /\ [Next]_vars => TrackInv' /\ ClientInv'
  BY TrackPreserved, ClientPreserved
<1>3. ClientInv => NoWorkAfterCancelled
  BY DEF ClientInv, CancelledInv, NoWork, NoWorkAfterCancelled, Work
<1> QED
  BY <1>1, <1>2, <1>3, Invariance, PTL DEF Spec

-----------------------------------------------------------------------------
(* What may be written over an outcome *)

\* A run.cancel in flight, and the fallback after Relay, write over what they read.
Cancels(r) ==
    /\ status'[r] = "cancelled"
    /\ \E c \in Conn : req[c].at = "cancel_append" /\ req[c].run = r
FallsBack(r) ==
    /\ status'[r] = "failed"
    /\ relay[r].at = "relay_failed" /\ relay'[r].at # "relay_failed"

\* Everybody else writes to a run that has not ended; it is ended by the failed
\* launch or by its relay, which is not yet in its fallback.
Moves(r) ==
    \/ status'[r] = status[r]
    \/ ~IsTerminal(r) /\ ~IsTerminal(r)'
    \/ ~IsTerminal(r) /\ relay[r].at # "relay_failed"
    \/ Cancels(r)
    \/ FallsBack(r)

\* A fallback that finds its run ended finds it cancelled.
FallbackInv == \A r \in Run : relay[r].at = "relay_failed" /\ IsTerminal(r) => status[r] = "cancelled"

\* A lifecycle event changes the status of its own run only.
LEMMA LifecycleMoves ==
    ASSUME IInv, NEW r \in Run, NEW typ \in EventType, NEW st \in Status, TryLifecycle(r, typ, st)
    PROVE  /\ \A s \in Run : s # r => status'[s] = status[s]
           /\ status'[r] \in {st, status[r]}
  BY Parts DEF TryLifecycle, TryAppend, AppendRunEvent, StoreUnchanged, StoreOK

\* A step of a handler that leaves the relays alone.
LEMMA PlainMoves ==
    ASSUME IInv, TrackInv, ClientInv, NEW c \in Conn, Plain(c)
    PROVE  \A r \in Run : Moves(r)
<1>1. CASE Connect(c) \/ Drop(c) \/ SubmitLookup(c) \/ RunCreateLookup(c) \/ CreateFails(c)
           \/ CancelRead(c) \/ AttachRead(c) \/ DetachRead(c) \/ HeartbeatRead(c)
  <2>1. UNCHANGED status
    BY <1>1 DEF Connect, Drop, SubmitLookup, RunCreateLookup, Lookup, CreateFails,
                CancelRead, AttachRead, DetachRead, HeartbeatRead, Read, durable
  <2> QED
    BY <2>1 DEF Moves
<1>2. CASE Fork(c) \/ CreateRunRecord(c)
  <2>1. PICK r \in Run, k \in Key \cup {None} : CreateRun(r, k, "queued", None)
    BY <1>2, RequestKey DEF Fork, CreateRunRecord
  <2>2. /\ ~Present(r) /\ status'[r] = "queued"
        /\ \A s \in Run : s # r => status'[s] = status[s]
    BY <2>1, CreateSettles DEF ClientInv
  <2> QED
    BY <2>2 DEF Moves, Present, IsTerminal
<1>3. CASE RouteFails(c) \/ DispatchFails(c) \/ PromptPlan(c) \/ ModelCall(c)
  <2> DEFINE r == req[c].run
  <2>1. r \in Run /\ Launches(c, r)
    BY <1>3, RequestRun DEF RouteFails, DispatchFails, PromptPlan, ModelCall, StageChanged,
                            HasRun, Launches, Launching
  <2>2. relay[r].at = "none" /\ ~IsTerminal(r)
    BY <2>1 DEF TrackInv, LaunchedOnce, ClientInv, RequestInv, IsTerminal
  <2>3. PICK typ \in EventType, st \in Status : TryLifecycle(r, typ, st)
    BY <1>3 DEF RouteFails, DispatchFails, PromptPlan, ModelCall, StageChanged
  <2>4. \A s \in Run : s # r => status'[s] = status[s]
    BY <2>1, <2>3, LifecycleMoves
  <2> QED
    BY <2>2, <2>4 DEF Moves
<1>4. CASE CancelAppend(c)
  <2> DEFINE r == req[c].run
  <2>1. r \in Run /\ TryLifecycle(r, "cancelled", "cancelled") /\ req[c].at = "cancel_append"
    BY <1>4, RequestRun DEF CancelAppend, HasRun
  <2>2. /\ \A s \in Run : s # r => status'[s] = status[s]
        /\ status'[r] \in {"cancelled", status[r]}
    BY <2>1, LifecycleMoves
  <2> QED
    BY <2>1, <2>2 DEF Moves, Cancels
<1>5. CASE AttachAppend(c) \/ DetachAppend(c) \/ HeartbeatAppend(c)
  <2>1. UNCHANGED status
    BY <1>5 DEF AttachAppend, DetachAppend, HeartbeatAppend, TryAppend, AppendRunEvent, StoreUnchanged
  <2> QED
    BY <2>1 DEF Moves
<1> QED
  BY <1>1, <1>2, <1>3, <1>4, <1>5 DEF Plain

\* A step of a relay: what it streams finds the run active or its context dead.
LEMMA RelayStepMoves ==
    ASSUME IInv, TrackInv, ClientInv, NEW r \in Run, Relay(r)
    PROVE  \A s \in Run : Moves(s)
<1>1. relay[r] \in RelayState /\ relay \in [Run -> RelayState] /\ status[r] \in Status
  BY Parts DEF RelaysOK, StoreOK
<1>2. CASE RelayTop(r) \/ RelayEOF(r) \/ RelayError(r) \/ PersistAssistant(r) \/ RecordRunModelCall(r)
           \/ FallbackRead(r) \/ DeregisterRun(r) \/ DeregisterTurn(r)
  <2>1. UNCHANGED status
    BY <1>2 DEF RelayTop, RelayEOF, RelayError, PersistAssistant, RecordRunModelCall,
                FallbackRead, DeregisterRun, DeregisterTurn, durable
  <2> QED
    BY <2>1 DEF Moves
<1>3. CASE RelayEvent(r) \/ AppendTerminalRunEvent(r)
  <2>1. relay[r].at \in Streaming /\ relay[r].at # "relay_failed"
    BY <1>3 DEF RelayEvent, AppendTerminalRunEvent, RelayAt, Streaming
  <2>2. PICK typ \in EventType, st \in Status : RelayAppend(r, typ, st)
    BY <1>1, <1>3 DEF RelayEvent, AppendTerminalRunEvent, RelayState, Outcome, TerminalEvent
  <2>3. CASE CtxDead(r)
    BY <2>2, <2>3 DEF RelayAppend, StoreUnchanged, Moves
  <2>4. CASE ~CtxDead(r)
    <3>1. ~IsTerminal(r) /\ TryLifecycle(r, typ, st)
      BY <2>1, <2>2, <2>4 DEF ClientInv, StreamInv, RelayAppend
    <3>2. \A s \in Run : s # r => status'[s] = status[s]
      BY <3>1, LifecycleMoves
    <3> QED
      BY <2>1, <3>1, <3>2 DEF Moves
  <2> QED
    BY <2>3, <2>4
<1>4. CASE FallbackAppend(r)
  <2>1. /\ TryLifecycle(r, "failed", "failed")
        /\ relay[r].at = "relay_failed" /\ relay'[r].at # "relay_failed"
    BY <1>1, <1>4 DEF FallbackAppend, RelayAt, RelayState
  <2>2. /\ \A s \in Run : s # r => status'[s] = status[s]
        /\ status'[r] \in {"failed", status[r]}
    BY <2>1, LifecycleMoves
  <2> QED
    BY <2>1, <2>2 DEF Moves, FallsBack
<1> QED
  BY <1>2, <1>3, <1>4 DEF Relay

\* Every step.
LEMMA EveryStepMoves ==
    ASSUME IInv, TrackInv, ClientInv, [Next]_vars
    PROVE  \A r \in Run : Moves(r)
<1>1. ASSUME NEW c \in Conn, CreateForegroundRunWithTurn(c)
      PROVE  \A r \in Run : Moves(r)
  <2>1. PICK r \in Run : CreateRun(r, req[c].key, "running", c)
    BY <1>1 DEF CreateForegroundRunWithTurn
  <2>2. req[c].key \in Key \cup {None}
    BY <1>1, RequestKey DEF CreateForegroundRunWithTurn
  <2>3. /\ ~Present(r) /\ status'[r] = "running"
        /\ \A s \in Run : s # r => status'[s] = status[s]
    BY <2>1, <2>2, CreateSettles DEF ClientInv
  <2> QED
    BY <2>3 DEF Moves, Present, IsTerminal
<1>2. ASSUME NEW c \in Conn, TurnCancel(c) \/ Dispatched(c) \/ CancelRegistry(c)
      PROVE  \A r \in Run : Moves(r)
  BY <1>2 DEF TurnCancel, Dispatched, CancelRegistry, durable, Moves
<1>3. CASE UNCHANGED vars \/ Crash
  BY <1>3 DEF vars, Crash, durable, Moves
<1> QED
  BY <1>1, <1>2, <1>3, PlainMoves, RelayStepMoves DEF Next, NewRequest, Handle, Plain

\* A relay enters its fallback when it has read that its run has not ended.
LEMMA FallbackEntered ==
    ASSUME IInv, [Next]_vars, NEW r \in Run, relay'[r].at = "relay_failed",
           relay[r].at # "relay_failed"
    PROVE  ~IsTerminal(r) /\ UNCHANGED status
<1>1. relay \in [Run -> RelayState]
  BY Parts DEF RelaysOK
<1>2. CASE \E s \in Run : Relay(s)
  <2>1. Relay(r)
    BY <1>2, RelayMove
  <2>2. ASSUME NEW from, NEW to, to # "relay_failed", RelayAt(r, from, to)
        PROVE  FALSE
    BY <1>1, <2>2 DEF RelayAt, RelayState
  <2>3. ASSUME NEW from, NEW to, NEW outcome, to # "relay_failed", RelayEnds(r, from, to, outcome)
        PROVE  FALSE
    BY <1>1, <2>3 DEF RelayEnds
  <2>4. ~(RelayTop(r) \/ RelayEvent(r) \/ RelayEOF(r) \/ RelayError(r) \/ PersistAssistant(r))
    BY <2>2, <2>3 DEF RelayTop, RelayEvent, RelayEOF, RelayError, PersistAssistant
  <2>5. ~(RecordRunModelCall(r) \/ FallbackAppend(r) \/ DeregisterRun(r) \/ DeregisterTurn(r))
    BY <2>2 DEF RecordRunModelCall, FallbackAppend, DeregisterRun, DeregisterTurn
  <2>6. ~AppendTerminalRunEvent(r)
    BY <2>2 DEF AppendTerminalRunEvent
  <2>7. FallbackRead(r)
    BY <2>1, <2>4, <2>5, <2>6 DEF Relay
  <2> QED
    BY <1>1, <2>7 DEF FallbackRead, RelayAt, durable
<1>3. ASSUME NEW c \in Conn, Plain(c) \/ CreateForegroundRunWithTurn(c) \/ TurnCancel(c)
                             \/ CancelRegistry(c)
      PROVE  FALSE
  BY <1>3, PlainStep DEF CreateForegroundRunWithTurn, TurnCancel, CancelRegistry
<1>4. ASSUME NEW c \in Conn, Dispatched(c)
      PROVE  FALSE
  BY <1>1, <1>4 DEF Dispatched
<1>5. CASE UNCHANGED vars \/ Crash
  BY <1>1, <1>5 DEF vars, volatile, Crash
<1> QED
  BY <1>2, <1>3, <1>4, <1>5 DEF Next, NewRequest, Handle, Plain

\* The fallback's finding survives every step.
LEMMA FallbackPreserved ==
    ASSUME IInv, TrackInv, ClientInv, FallbackInv, [Next]_vars
    PROVE  FallbackInv'
<1> SUFFICES ASSUME NEW r \in Run, relay'[r].at = "relay_failed", IsTerminal(r)'
             PROVE  status'[r] = "cancelled"
  BY DEF FallbackInv
<1>1. CASE relay[r].at = "relay_failed"
  <2>1. Moves(r)
    BY EveryStepMoves
  <2> QED
    BY <1>1, <2>1 DEF Moves, Cancels, FallsBack, FallbackInv, IsTerminal
<1>2. CASE relay[r].at # "relay_failed"
  BY <1>2, FallbackEntered DEF IsTerminal
<1> QED
  BY <1>1, <1>2

\* With one client and room in the tables, a run keeps its outcome, whether the
\* store fails or the server crashes, but for a run.cancel that read it active and
\* cancels what has completed or failed since, and for the fallback of its relay
\* that fails what was cancelled since (handleRunCancel, handleTurnSubmit).
THEOREM RunsKeepTheirOutcome ==
    ASSUME OneClient
    PROVE  Spec /\ []HasRoom => OutcomeIsKept
<1>1. Init => TrackInv /\ ClientInv /\ FallbackInv
  <2>1. Init => FallbackInv
    BY DEF Init, FallbackInv, IsTerminal
  <2> QED
    BY <2>1, TrackInit, ClientInit
<1>2. IInv /\ TrackInv /\ ClientInv /\ FallbackInv /\ HasRoom /\ [Next]_vars
      => TrackInv' /\ ClientInv' /\ FallbackInv'
  BY TrackPreserved, ClientPreserved, FallbackPreserved
<1>3. IInv /\ TrackInv /\ ClientInv /\ FallbackInv /\ [Next]_vars
      => \A r \in Run : IsTerminal(r) /\ status'[r] # status[r] =>
            \/ /\ status'[r] = "cancelled"
               /\ \E c \in Conn : req[c].at = "cancel_append" /\ req[c].run = r
            \/ /\ status[r] = "cancelled" /\ status'[r] = "failed"
               /\ relay[r].at = "relay_failed"
  BY EveryStepMoves DEF Moves, Cancels, FallsBack, FallbackInv
<1> QED
  BY <1>1, <1>2, <1>3, Invariance, PTL DEF Spec, OutcomeIsKept
=============================================================================
