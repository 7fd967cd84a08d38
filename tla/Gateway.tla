------------------------------- MODULE Gateway -------------------------------
(***************************************************************************)
(* A turn on its way to a provider and back: the catalogue and the routing *)
(* that choose an endpoint (internal/runtime providers.go, registry.go,    *)
(* routing.go), the dispatch (dispatch.go), the local proxy that most      *)
(* endpoints are reached through and that captures the exchange            *)
(* (internal/proxy), the relay that reads the stream (streaming.go), and   *)
(* the one process around them (internal/cli/start.go).  The provider and  *)
(* net/http are external.                                                  *)
(***************************************************************************)
EXTENDS Wire, RequestStore

CONSTANTS
    Run,         \* turns, each with the run that owns it
    Model, Endpoint, None,
    TypeOf,      \* the provider type of an endpoint
    KeyOf,       \* its key in the configuration, as an adapter's name or "other"
    Hosted,      \* the endpoints with a host of their own in the configuration
    DefaultUpstream,  \* the endpoint that cfg.Upstream addresses
    Builtin,     \* the built-in catalogue: the models of a provider type
    Pulled,      \* the models an Ollama endpoint reports
    Manual,      \* runtime.models: a model's endpoint, Unregistered or None
    Routing,     \* runtime.routing: a sequence of models for a mode
    Client,      \* requests of other clients of the proxy, one each
    Switched     \* bound: the models that model.switch is asked for

\* A manual entry may name a provider nobody configured; an MLX endpoint has no
\* adapter, which comes to the same.
Unregistered == "unregistered"

Outcome == {"completed", "failed", "cancelled", "gone"}

\* The configuration is a map: a key names one endpoint.
ASSUME GatewayAssumption ==
    /\ None \notin Model \cup Outcome /\ {None, Unregistered} \cap Endpoint = {}
    /\ TypeOf \in [Endpoint -> ProviderType]
    /\ KeyOf \in [Endpoint -> ProviderType \cup {"other"}]
    /\ \A e, f \in Endpoint : KeyOf[e] = KeyOf[f] => e = f \/ KeyOf[e] = "other"
    /\ DefaultUpstream \in Endpoint
    /\ Run \cap Client = {}

VARIABLES
    srv,       \* the process: "down", "up" or "draining"
    catalog,   \* ModelRegistry.models: the endpoint of a model, or None
    override,  \* ActiveSession.ModelOverride
    turn,      \* at: "idle", "sent", "streaming", "done"; the endpoint; the
               \* shape of the request; ctx; pos: events read; told: relayResult; result
    exch       \* the exchange with the provider: ex: "none", "direct", "copying",
               \* "saving", "saved", "lost"; target; stream; fwd: events delivered;
               \* tail: "open", "eof" or "reset"; what will be saved

vars == <<srv, catalog, override, turn, exch, storeVars>>

IdleTurn == [at |-> "idle", ep |-> None, shape |-> None, ctx |-> "live", pos |-> 0,
             told |-> Nothing, result |-> None]
NoExchange == [ex |-> "none", target |-> None, stream |-> <<>>, fwd |-> 0, tail |-> "open", record |-> None]
NoCatalog == [m \in Model |-> None]

Init ==
    /\ StoreInit
    /\ srv = "down"
    /\ catalog = NoCatalog
    /\ override = None
    /\ turn = [r \in Run |-> IdleTurn]
    /\ exch = [r \in Run |-> NoExchange]

ViaProxy(r) == exch[r].ex # "direct"

\* What is left of a turn that has ended, and of an exchange whose stream neither
\* side reads any longer.
Ended(t, result) == [IdleTurn EXCEPT !.at = "done", !.told = t.told, !.result = result]
Left(x) == [NoExchange EXCEPT !.ex = IF x.ex = "direct" THEN "none" ELSE x.ex, !.record = x.record]

\* The proxy has done with an exchange, which the relay may be reading.
Over(r, ex, record) ==
    LET x == [exch[r] EXCEPT !.ex = ex, !.record = record]
    IN [exch EXCEPT ![r] = IF turn[r].at = "streaming" THEN x ELSE Left(x)]

-----------------------------------------------------------------------------
(* Catalogue and routing *)

\* CheckAll probes every endpoint at once; which ones are found ready, by a status
\* below 500 or a list of models, is the network's choice.
CheckAll == SUBSET Endpoint

\* checkOllama: the models of an endpoint that answers.  The check of a cloud endpoint
\* reports none.
Reported(e) == IF TypeOf[e] = "ollama" THEN Pulled ELSE {}

\* rebuildLocked: the built-in models of the configured types, on the endpoint
\* registered first (any, the configuration being a Go map), then what the endpoints
\* that answered report, then the manual entries, later over earlier.
Catalogs(ready) ==
    {c \in [Model -> Endpoint \cup {None, Unregistered}] : \A m \in Model :
        LET served == {e \in ready : m \in Reported(e)}
            types  == {t \in ProviderType : m \in Builtin[t]}
            first  == {e \in Endpoint : TypeOf[e] \in types}
        IN CASE Manual[m] # None -> c[m] = Manual[m]
             [] served # {}      -> c[m] \in served
             [] first # {}       -> c[m] \in first
             [] OTHER            -> c[m] = None}

\* startRuntimeServer: the health checks run once before the catalogue is built;
\* the later ones change no catalogue, and no turn reads an endpoint's health.
Serve ==
    /\ srv = "down" /\ IsOpen("server")
    /\ srv' = "up"
    /\ \E ready \in CheckAll : catalog' \in Catalogs(ready)
    /\ UNCHANGED <<override, turn, exch, storeVars>>

\* model.switch to a model of the catalogue, or "auto".
ModelSwitch(m) ==
    /\ srv = "up"
    /\ m \in {None} \cup {k \in Switched : catalog[k] # None}
    /\ override' = m
    /\ UNCHANGED <<srv, catalog, turn, exch, storeVars>>

\* ResolveForTurn: the override, or the entry of the mode, or of "default".
ResolveForTurn(mode) ==
    IF override # None THEN <<override>>
    ELSE IF Routing[mode] # <<>> THEN Routing[mode]
    ELSE Routing["default"]

-----------------------------------------------------------------------------
(* The dispatch *)

Failed(r) ==
    /\ turn' = [turn EXCEPT ![r] = Ended(@, "failed")]
    /\ UNCHANGED <<srv, catalog, override, storeVars>>

\* No model, several models, a model the catalogue lacks, an endpoint that is not
\* there, or nothing left after Truncate: the run fails before anything is sent.
TurnFails(r, mode) ==
    /\ srv = "up" /\ turn[r].at = "idle"
    /\ LET models == ResolveForTurn(mode)
           known == {e \in Endpoint : Len(models) = 1 /\ catalog[models[1]] = e}
       IN \A e \in known : \E s \in Shapes[TypeOf[e]] : ~s.sent
    /\ Failed(r)
    /\ UNCHANGED exch

\* providerEndpointPath and setAuthHeaders.
Path(e) == CASE TypeOf[e] = "anthropic" -> "messages"
             [] TypeOf[e] = "openai"    -> "completions"
             [] TypeOf[e] = "ollama"    -> "chat"
HasVersion(e) == TypeOf[e] = "anthropic"

\* Registry.Detect, of a request for an endpoint: the first adapter that knows it.
DetectAnthropic(e) == HasVersion(e)
DetectOpenAI(e) == Path(e) = "completions" /\ ~HasVersion(e)
Detect(e) == CASE DetectAnthropic(e) -> "anthropic"
               [] DetectOpenAI(e)    -> "openai"
               [] OTHER              -> None

\* resolveProviderHost: a cloud endpoint without a host is reached by the proxy.
Proxied(e) == TypeOf[e] # "ollama" /\ e \notin Hosted

\* Mutant: one upstream for all.
DirectorUnnamed(e) == DefaultUpstream

\* Director: the upstream configured under the adapter's name, or the default; an
\* entry without an upstream is not looked up, and has the key "other" here.
Director(e) ==
    LET named == {f \in Endpoint : KeyOf[f] = Detect(e)}
    IN IF named = {} THEN DefaultUpstream ELSE CHOOSE f \in named : TRUE

Dispatch(r, mode) ==
    /\ srv = "up" /\ turn[r].at = "idle"
    /\ LET models == ResolveForTurn(mode) e == catalog[models[1]] IN
        /\ Len(models) = 1 /\ e \in Endpoint
        /\ \E s \in Shapes[TypeOf[e]] :
            /\ s.sent
            /\ turn' = [turn EXCEPT ![r].at = "sent", ![r].ep = e, ![r].shape = s]
        /\ exch' = [exch EXCEPT ![r].ex = IF Proxied(e) THEN "copying" ELSE "direct",
                                ![r].target = IF Proxied(e) THEN Director(e) ELSE e]
    /\ UNCHANGED <<srv, catalog, override, storeVars>>

-----------------------------------------------------------------------------
(* The provider *)

\* The response begins.
Answers(r) ==
    /\ turn[r].at = "sent" /\ turn[r].ctx = "live"
    /\ exch[r].target = turn[r].ep
    /\ \E s \in Streams[TypeOf[turn[r].ep]] : exch' = [exch EXCEPT ![r].stream = s]
    /\ turn' = [turn EXCEPT ![r].at = "streaming", ![r].shape = None]
    /\ UNCHANGED <<srv, catalog, override, storeVars>>

\* A row of an exchange that is no stream: an error status and an error's body.
ErrorRecord(r, h) ==
    [run |-> r, hour |-> h, ok |-> FALSE, text |-> 0, input |-> 0, output |-> 0]

\* A status of 400 or more, no connection, the client's timeout or a lost
\* connection of the harness: the dispatch fails.  The proxy captures the answer,
\* or the 502 that its own error handler writes.
DispatchFails(r) ==
    /\ turn[r].at = "sent"
    /\ Failed(r)
    /\ IF ViaProxy(r)
       THEN \E h \in Hour : exch' = Over(r, "saving", ErrorRecord(r, h))
       ELSE exch' = Over(r, "none", None)

\* The next event is delivered: the proxy copies and flushes it.
Delivers(r) ==
    /\ exch[r].ex \in {"direct", "copying"} /\ exch[r].tail = "open"
    /\ exch[r].fwd < Len(exch[r].stream)
    /\ exch' = [exch EXCEPT ![r].fwd = @ + 1]
    /\ UNCHANGED <<srv, catalog, override, turn, storeVars>>

\* The response ends as it should, or its connection breaks.
ProviderEnds(r) ==
    /\ exch[r].ex \in {"direct", "copying"} /\ exch[r].tail = "open"
    /\ exch[r].stream # <<>>
    /\ \/ /\ exch[r].fwd = Len(exch[r].stream)
          /\ exch' = [exch EXCEPT ![r].tail = "eof"]
       \/ exch' = [exch EXCEPT ![r].tail = "reset"]
    /\ UNCHANGED <<srv, catalog, override, turn, storeVars>>

-----------------------------------------------------------------------------
(* The relay *)

Event(r, i) == ParseStreamEvent(TypeOf[turn[r].ep], exch[r].stream[i])
NextRead(r) == Event(r, turn[r].pos + 1)
SawDone(r) == turn[r].pos > 0 /\ Event(r, turn[r].pos).type = "done"

\* The context is looked at between two events; a relay that is in Next when it is
\* cancelled reads one more.
ReadEvent(r) ==
    /\ turn[r].at = "streaming" /\ turn[r].ctx \in {"live", "cancelling"}
    /\ ~SawDone(r)
    /\ turn[r].pos < exch[r].fwd
    /\ turn' = [turn EXCEPT ![r].pos = @ + 1,
                            ![r].told = Accumulate(@, NextRead(r)),
                            ![r].ctx = IF @ = "cancelling" THEN "cancelled" ELSE @]
    /\ UNCHANGED <<srv, catalog, override, exch, storeVars>>

\* The loop is left: the answer is stored, the terminal event written and the body
\* closed, which drops the connection if it is not read to its end.
LeaveLoop(r, result) ==
    /\ turn[r].at = "streaming"
    /\ turn' = [turn EXCEPT ![r] = Ended(@, result)]
    /\ exch' = IF exch[r].ex = "copying" THEN exch ELSE [exch EXCEPT ![r] = Left(@)]
    /\ UNCHANGED <<srv, catalog, override, storeVars>>

\* All that was delivered is read, and the relay waits in Next.
Waits(r) == ~SawDone(r) /\ turn[r].pos = exch[r].fwd /\ turn[r].ctx # "cancelled"

\* The end of the body: of the proxy's response, when its handler has returned.
AtEnd(r) ==
    IF ViaProxy(r) THEN exch[r].ex \in {"saving", "saved"} ELSE exch[r].tail = "eof"

RelayCompletes(r) ==
    /\ SawDone(r) \/ (Waits(r) /\ AtEnd(r))
    /\ LeaveLoop(r, "completed")

\* Mutant: the client of the dispatcher has no timeout.
NeverTimesOut(r) == FALSE /\ UNCHANGED vars

\* The client's timeout of five minutes covers the whole body.
RelayTimesOut(r) == Waits(r) /\ LeaveLoop(r, "failed")

RelayBreaks(r) ==
    /\ Waits(r)
    /\ exch[r].tail = "reset" \/ exch[r].ex = "lost" \/ turn[r].ctx = "lost"
    /\ LeaveLoop(r, "failed")

RelayCancelled(r) ==
    /\ turn[r].ctx \in {"cancelled", "lost"} /\ ~SawDone(r)
    /\ LeaveLoop(r, "cancelled")

\* turn.cancel or run.cancel: of the relay's context only, and only of a turn that
\* has one; the request has the connection's.
Cancel(r) ==
    /\ turn[r].at = "streaming" /\ turn[r].ctx = "live"
    /\ \E ctx \in {"cancelling", "cancelled"} : turn' = [turn EXCEPT ![r].ctx = ctx]
    /\ UNCHANGED <<srv, catalog, override, exch, storeVars>>

\* The harness's connection ends, and with it the request.
Disconnects(r) ==
    /\ turn[r].at \in {"sent", "streaming"} /\ turn[r].ctx # "lost"
    /\ turn' = [turn EXCEPT ![r].ctx = "lost"]
    /\ UNCHANGED <<srv, catalog, override, exch, storeVars>>

-----------------------------------------------------------------------------
(* The capture *)

\* The reading of the recorded stream; nothing of a body the upstream sent
\* compressed, which the proxy passes on as it is.
StreamRecord(r, h, read) ==
    [run |-> r, hour |-> h, ok |-> TRUE, text |-> read.text, input |-> read.input, output |-> read.output]

\* The copy is complete: the record is built and a goroutine is to save it.
CopyEnds(r) ==
    /\ exch[r].ex = "copying" /\ exch[r].tail = "eof"
    /\ \E h \in Hour,
          read \in {ReassembleStream(Detect(exch[r].target), exch[r].stream), Nothing} :
        exch' = Over(r, "saving", StreamRecord(r, h, read))
    /\ UNCHANGED <<srv, catalog, override, turn, storeVars>>

\* The upstream broke off, or the client went: the reverse proxy aborts the
\* handler, and what follows it in Wrap does not run.
CopyAborts(r) ==
    /\ exch[r].ex = "copying"
    /\ \/ exch[r].tail = "reset"
       \/ exch[r].stream # <<>> /\ (turn[r].at = "done" \/ turn[r].ctx = "lost")
    /\ exch' = Over(r, "lost", None)
    /\ UNCHANGED <<srv, catalog, override, turn, storeVars>>

Save(r) ==
    /\ exch[r].ex = "saving" /\ IsOpen("server")
    /\ SaveRequest(exch[r].record)
    /\ exch' = Over(r, "saved", None)
    /\ UNCHANGED <<srv, catalog, override, turn>>

\* A request of another client, proxied and captured.
ClientTraffic(c) ==
    /\ srv \in {"up", "draining"} /\ IsOpen("server")
    /\ \A row \in rows : row.run # c
    /\ \E h \in Hour :
        SaveRequest([run |-> c, hour |-> h, ok |-> TRUE, text |-> 1, input |-> 1, output |-> 1])
    /\ UNCHANGED <<srv, catalog, override, turn, exch>>

-----------------------------------------------------------------------------
(* The process *)

\* A signal: the runtime's connections are cut, and the turns with them.
Signal ==
    /\ srv = "up"
    /\ srv' = "draining"
    /\ turn' = [r \in Run |-> IF turn[r].at \in {"sent", "streaming"}
                              THEN [turn[r] EXCEPT !.ctx = "lost"] ELSE turn[r]]
    /\ UNCHANGED <<catalog, override, exch, storeVars>>

\* The store is closed and the process gone, with its memory.
Exit ==
    /\ srv' = "down"
    /\ catalog' = NoCatalog /\ override' = None
    /\ turn' = [r \in Run |-> IF turn[r].at \in {"idle", "done"} THEN turn[r]
                              ELSE Ended(turn[r], "gone")]
    /\ exch' = [r \in Run |-> IF exch[r].ex \in {"copying", "saving"}
                              THEN [NoExchange EXCEPT !.ex = "lost"] ELSE Left(exch[r])]
    /\ CloseStore("server")

\* Shutdown of the proxy waits for its handlers, ten seconds at most; nobody
\* waits for the goroutines that save.
Stop ==
    /\ srv = "draining"
    /\ Exit

\* A crash, also while the store is being opened.
Crash ==
    /\ srv = "up" \/ (srv = "down" /\ opener["server"].at \in {"migrating", "v1", "open"})
    /\ Exit

\* A command line that opens the file, and ends.
CommandEnds ==
    /\ opener["cli"].at # "closed"
    /\ CloseStore("cli")
    /\ UNCHANGED <<srv, catalog, override, turn, exch>>

StoreSteps ==
    /\ \/ \E p \in Process : OpenStore(p) \/ Migrate(p)
       \/ RebuildMetrics("cli")
    /\ UNCHANGED <<srv, catalog, override, turn, exch>>

-----------------------------------------------------------------------------

Next ==
    \/ StoreSteps \/ CommandEnds
    \/ Serve \/ Signal \/ Stop \/ Crash
    \/ \E m \in Model \cup {None} : ModelSwitch(m)
    \/ \E c \in Client : ClientTraffic(c)
    \/ \E r \in Run, mode \in DOMAIN Routing : TurnFails(r, mode) \/ Dispatch(r, mode)
    \/ \E r \in Run :
        \/ Answers(r) \/ DispatchFails(r) \/ Delivers(r) \/ ProviderEnds(r)
        \/ ReadEvent(r) \/ RelayCompletes(r) \/ RelayTimesOut(r) \/ RelayBreaks(r)
        \/ RelayCancelled(r)
        \/ Cancel(r) \/ Disconnects(r)
        \/ CopyEnds(r) \/ CopyAborts(r) \/ Save(r)

\* The relay reads what there is and closes the body, timeouts pass, the proxy
\* ends its handlers and the goroutines it starts run.  Providers owe nothing.
Fairness ==
    \A r \in Run :
        /\ WF_vars(ReadEvent(r)) /\ WF_vars(RelayTimesOut(r)) /\ WF_vars(RelayCompletes(r))
        /\ WF_vars(RelayCancelled(r))
        /\ WF_vars(DispatchFails(r))
        /\ WF_vars(CopyEnds(r)) /\ WF_vars(CopyAborts(r)) /\ WF_vars(Save(r))

Spec == Init /\ [][Next]_vars
FairSpec == Spec /\ Fairness

-----------------------------------------------------------------------------
(* Properties *)

\* truncate.go, openai.go: however a conversation is cut to the window of a model
\* that has one, and whichever adapter writes it, the request holds a call only with
\* its result and a result only after its call, and it ends with what the user has
\* just said.  A message that also brings tool results is excepted on OpenAI: its
\* results are sent, last, and its text is lost.
RequestsArePaired ==
    \A r \in Run : turn[r].shape # None /\ turn[r].shape.cut
        => turn[r].shape.paired /\ (turn[r].shape.last \/ turn[r].shape.answers)

\* streaming.go, capture.go: the run of a completed turn and its captured request
\* tell the same text and usage, although two decoders have read the stream, one
\* of them to the terminal event and one to the end; a capture that could not be
\* read says nothing rather than something else.
CaptureAgrees ==
    \A row \in rows :
        (row.run \in Run /\ row.ok /\ turn[row.run].result = "completed") =>
        [text |-> row.text, input |-> row.input, output |-> row.output]
            \in {Nothing, turn[row.run].told}

SumOver(totals, field(_)) == MapThenSumSet(LAMBDA b : field(totals[b]), DOMAIN totals)

\* sqlite.go SaveRequest, RebuildMetrics: with saves, rebuilds by another process,
\* crashes and restarts in any order, both tables of totals count every row once.
TotalsCountRows ==
    \A totals \in {hourly, daily} :
        /\ SumOver(totals, LAMBDA t : t.count) = Cardinality(rows)
        /\ SumOver(totals, LAMBDA t : t.output) = MapThenSumSet(LAMBDA r : r.output, rows)

\* sqlite.go migrate: a process that works on the file has all of its tables,
\* whoever else was migrating it, and wherever a migration was cut off.
OpenIsMigrated == \A p \in Process : IsOpen(p) => file.has = Version

\* dispatch.go, capture.go: a turn that was dispatched ends and its capture is
\* settled, whatever the provider, the harness or the process does.
TurnsSettle ==
    \A r \in Run :
        (turn[r].at \in {"sent", "streaming"})
            ~> (turn[r].at = "done" /\ exch[r].ex \notin {"copying", "saving"})

\* proxy/server.go, start.go: the proxy, which knows of a request its path and headers
\* only, sends it to the endpoint the runtime had chosen, or the runtime does so itself.
\* (Of an endpoint whose key is not the name of its adapter the proxy knows nothing.)
ReachesItsUpstream ==
    \A r \in Run : turn[r].ep # None /\ KeyOf[turn[r].ep] = TypeOf[turn[r].ep]
        => exch[r].target = turn[r].ep

\* sqlite.go: RebuildMetrics recomputes the aggregation from the requests.  (It
\* does not by the hour.)
HourlyByHour ==
    \A h \in Hour : hourly[h].count = Cardinality({row \in rows : row.hour = h})
=============================================================================
