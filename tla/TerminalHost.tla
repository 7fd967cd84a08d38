----------------------------- MODULE TerminalHost -----------------------------
(***************************************************************************)
(* The terminal program: the adapter and its shell on the event loop, the  *)
(* goroutines of the host's runtime that call the server (internal/        *)
(* harnesshost/production_runtime.go), the client's read loop that hands   *)
(* the server's events over, and the user's keys.                          *)
(*                                                                         *)
(* Program.Send hands a message to the event loop and waits until it is    *)
(* taken, so that sending an event and the Update it causes are one step   *)
(* of the sending goroutine; there is no queue of messages.  The actions   *)
(* the shell emits leave as a batch, each on a goroutine of its own, and   *)
(* may overtake each other.                                                *)
(***************************************************************************)
EXTENDS HostAdapter, FiniteSets

CONSTANTS
    MaxInputs,   \* bound: messages, keys and slash commands of the user, and
                 \*        losses of the connection
    MaxChunks    \* bound: text events of a run

\* The empty id is no answer.
ASSUME HostAssumption ==
    MaxInputs \in Nat /\ MaxChunks \in Nat /\ None \notin {"approve", "deny"}

VARIABLES
    ui,       \* the adapter and its shell
    tasks,    \* goroutines that serve the shell's actions and the reconnects
    hostRun,  \* runtimeState.activeRunID
    label,    \* whether runtimeState.label is set
    live,     \* whether the connection manager has a client
    prompts,  \* permPromises and the callbacks that wait on them
    runs,     \* the server's runs: the state and the texts logged
    typed, keys, drops,                     \* what was used of the bounds
    wiped, approved, attachUsed \* history

serverVars  == <<live, runs>>
historyVars == <<wiped, approved, attachUsed>>
boundVars   == <<typed, keys, drops>>
vars == <<ui, tasks, hostRun, label, serverVars, prompts, boundVars, historyVars>>

Decision == {"approve", "deny"}
Terminal == {"completed", "failed", "stopped"}
RunState == {"absent", "live", "cancelled"} \cup Terminal

\* A goroutine: what it does, where it is, and what it works on.
Task(kind, id) == [kind |-> kind, id |-> id, at |-> "call", run |-> None, perm |-> None,
                   decision |-> None, replay |-> <<>>]

sent == ui.shell.sent

\* What is left of a task after the step it takes.
Becomes(t, u) == (tasks \ {t}) \cup {u}

\* Every submission the shell has just emitted gets a goroutine.
Submits(u) == {Task("submit", i) : i \in Len(sent) + 1 .. Len(u.shell.sent)}

\* A goroutine sends e: the adapter and the shell take it at once.
Send(e, left) ==
    /\ ui' = ForwardEvent(ui, e)
    /\ tasks' = left \cup Submits(ui')

Init ==
    /\ ui = NewAdapter /\ tasks = {}
    /\ hostRun = None /\ label = FALSE /\ live = TRUE
    /\ prompts = [p \in Perm |-> [at |-> "none", chan |-> None, result |-> None]]
    /\ runs = [r \in Run |-> [state |-> "absent", log |-> 0]]
    /\ typed = 0 /\ keys = 0 /\ drops = 0
    /\ wiped = {} /\ approved = {} /\ attachUsed = FALSE

-----------------------------------------------------------------------------
(* dispatchAction: the goroutine that serves an action of the shell keeps    *)
(* what the shell held at the key.                                         *)

DispatchInterrupt == [Task("interrupt", keys) EXCEPT !.run = ui.shell.run]

DispatchResolvePermission(p, d) == [Task("resolve", keys) EXCEPT !.perm = p, !.decision = d]

DispatchLoadPreview == Task("preview", keys)

DispatchHostCommand(name) == Task(name, keys)

-----------------------------------------------------------------------------
(* The user *)

Key(shell, new) ==
    /\ typed + keys + drops < MaxInputs
    /\ keys' = keys + 1
    /\ ui' = [ui EXCEPT !.shell = shell]
    /\ tasks' = tasks \cup new
    /\ UNCHANGED <<hostRun, label, serverVars, prompts, typed, drops>>

EnterText ==
    /\ typed + keys + drops < MaxInputs
    /\ typed' = typed + 1
    /\ ui' = [ui EXCEPT !.shell = SubmitText(@, typed + 1)]
    /\ tasks' = tasks \cup Submits(ui')
    /\ UNCHANGED <<hostRun, label, serverVars, prompts, keys, drops, historyVars>>

\* Enter on an empty composer answers the active request, or else releases the
\* queue of a shell that does not stream.
EnterEmpty ==
    /\ ui.shell.perms = <<>> /\ ~ui.shell.streaming /\ ui.shell.queued # <<>>
    /\ Key(Release(ui.shell), {Task("submit", Len(sent) + 1)})
    /\ UNCHANGED historyVars

\* Enter, y or n: the request stays pending until the host reports the outcome,
\* and may be answered again.
AnswerPermission(d) ==
    /\ ui.shell.perms # <<>>
    /\ LET p == ActivePermission(ui.shell) IN
        /\ Key(ui.shell, {DispatchResolvePermission(p, d)})
        /\ approved' = IF d = "approve" THEN approved \cup {p} ELSE approved
    /\ UNCHANGED <<wiped, attachUsed>>

EscKey ==
    /\ ui.shell.preview \/ ui.shell.streaming
    /\ Key(Esc(ui.shell), IF EscInterrupts(ui.shell) THEN {DispatchInterrupt} ELSE {})
    /\ UNCHANGED historyVars

ArrowKey ==
    /\ \E i \in DOMAIN ui.shell.perms :
        /\ i \in {ui.shell.active - 1, ui.shell.active + 1}
        /\ Key(MovePermission(ui.shell, i), {})
    /\ UNCHANGED historyVars

\* Opening a token asks the host for its content.
PreviewKey ==
    /\ Key(ui.shell, {DispatchLoadPreview})
    /\ UNCHANGED historyVars

-----------------------------------------------------------------------------
(* The host's runtime: each action is a step of the goroutine of a task *)

quiet == <<serverVars, prompts, boundVars, wiped, approved, attachUsed>>

\* SubmitTurn: the submission fails without a client, when the server refuses it,
\* and when the connection is lost before the answer is here.
SubmitFails(t) ==
    /\ t.kind = "submit"
    /\ t.at = "call" \/ (t.at = "accepted" /\ ~live)
    /\ Send(Event("refused", t.id, None), tasks \ {t})
    /\ UNCHANGED <<hostRun, label, quiet>>

\* The server has started the run; its events may be here before the answer is.
SubmitCall(t) ==
    /\ t.kind = "submit" /\ t.at = "call" /\ live
    /\ \E r \in Run :
        /\ runs[r].state = "absent"
        /\ runs' = [runs EXCEPT ![r].state = "live"]
        /\ tasks' = Becomes(t, [t EXCEPT !.at = "accepted", !.run = r])
    /\ UNCHANGED <<ui, hostRun, label, live, prompts, boundVars, historyVars>>

\* The host notes the run and the adapter the acceptance; a label makes it send a
\* RunStarted of its own.
SubmitAccepted(t) ==
    /\ t.kind = "submit" /\ t.at = "accepted"
    /\ hostRun' = t.run
    /\ Send(Event("accepted", t.id, t.run),
            IF label THEN Becomes(t, [t EXCEPT !.at = "start"]) ELSE tasks \ {t})
    /\ UNCHANGED <<label, quiet>>

SubmitStarted(t) ==
    /\ t.kind = "submit" /\ t.at = "start"
    /\ Send(Event("started", t.id, t.run), tasks \ {t})
    /\ UNCHANGED <<hostRun, label, quiet>>

Cancelled(r) == [q \in Run |-> IF q = r /\ runs[q].state = "live"
                               THEN [runs[q] EXCEPT !.state = "cancelled"] ELSE runs[q]]

PreviewCall(t) ==
    /\ t.kind = "preview"
    /\ Send(Event("preview", 0, None), tasks \ {t})
    /\ UNCHANGED <<hostRun, label, quiet>>

\* InterruptRun: run.cancel, else turn.cancel; whatever they answer, the host
\* sends the RunStopped itself.
InterruptCall(t) ==
    /\ t.kind = "interrupt" /\ t.at = "call" /\ live
    /\ runs' = Cancelled(t.run)
    /\ tasks' = Becomes(t, [t EXCEPT !.at = "stop"])
    /\ UNCHANGED <<ui, hostRun, label, live, prompts, boundVars, historyVars>>

InterruptStop(t) ==
    /\ t.kind = "interrupt" /\ (t.at = "stop" \/ ~live)
    /\ Send(Event("stopped", 0, t.run), tasks \ {t})
    /\ UNCHANGED <<hostRun, label, quiet>>

\* A mutant of Resolve: the decision goes to the request that is active by then.
ResolveActive(t) ==
    /\ t.kind = "resolve" /\ t.at = "call"
    /\ LET p == IF ui.shell.perms = <<>> THEN t.perm ELSE ActivePermission(ui.shell) IN
        IF prompts[p].at \in {"open", "leaving"} /\ prompts[p].chan = None
        THEN /\ prompts' = [prompts EXCEPT ![p].chan = t.decision]
             /\ tasks' = Becomes(t, [t EXCEPT !.at = "tell"])
        ELSE tasks' = tasks \ {t} /\ UNCHANGED prompts
    /\ UNCHANGED <<ui, hostRun, label, serverVars, boundVars, historyVars>>

\* ResolvePermission: the first decision fits the channel of the request; a later
\* one, and one for a request that is gone, is dropped.
Resolve(t) ==
    /\ t.kind = "resolve" /\ t.at = "call"
    /\ LET p == t.perm IN
        IF prompts[p].at \in {"open", "leaving"} /\ prompts[p].chan = None
        THEN /\ prompts' = [prompts EXCEPT ![p].chan = t.decision]
             /\ tasks' = Becomes(t, [t EXCEPT !.at = "tell"])
        ELSE tasks' = tasks \ {t} /\ UNCHANGED prompts
    /\ UNCHANGED <<ui, hostRun, label, serverVars, boundVars, historyVars>>

ResolveTold(t) ==
    /\ t.kind = "resolve" /\ t.at = "tell"
    /\ Send(Prompt("resolved", t.perm), tasks \ {t})
    /\ UNCHANGED <<hostRun, label, quiet>>

-----------------------------------------------------------------------------
(* Slash commands.  A command leaves the shell as it is and its goroutine knows  *)
(* nothing of the moment the key was pressed, so that the key and the first step *)
(* of the goroutine are one action.  Commands that only print, and those that    *)
(* are refused, do nothing here; those on the session are in HostSession.        *)

Command(new) ==
    /\ typed + keys + drops < MaxInputs
    /\ keys' = keys + 1
    /\ tasks' = tasks \cup new
    /\ UNCHANGED <<ui, prompts, typed, drops, wiped, approved>>

\* /clear is refused while the host has an active run; it looks before it calls
\* session.create and forgets the run after.
ClearCommand ==
    /\ live /\ hostRun = None
    /\ Command({DispatchHostCommand("clear")})
    /\ UNCHANGED <<hostRun, label, serverVars, attachUsed>>

ClearDone(t) ==
    /\ t.kind = "clear"
    /\ hostRun' = None
    /\ Send(Event("cleared", 0, None), tasks \ {t})
    /\ wiped' = wiped \cup ToSet(ui.shell.queued)
    /\ UNCHANGED <<label, serverVars, prompts, boundVars, approved, attachUsed>>

\* The log of a run, as run.events and run.attach return it.
Replay(r) ==
    [i \in 1 .. runs[r].log |-> Delta(r, i)]
        \o (IF runs[r].state \in Terminal THEN <<Event(runs[r].state, 0, r)>> ELSE <<>>)

\* /attach: a terminal run is refused.
AttachCommand(r) ==
    /\ live /\ runs[r].state \in {"live", "cancelled"}
    /\ Command({[DispatchHostCommand("attach") EXCEPT !.run = r, !.replay = Replay(r)]})
    /\ attachUsed' = TRUE
    /\ UNCHANGED <<hostRun, label, serverVars>>

AttachStarted(t) ==
    /\ t.kind = "attach" /\ t.at = "call"
    /\ hostRun' = t.run
    /\ Send(Event("started", 0, t.run), Becomes(t, [t EXCEPT !.at = "replay"]))
    /\ UNCHANGED <<label, quiet>>

\* projectRunReplay
ReplayNext(t) ==
    /\ t.at = "replay"
    /\ IF t.replay = <<>> THEN tasks' = tasks \ {t} /\ UNCHANGED ui
       ELSE Send(Head(t.replay), Becomes(t, [t EXCEPT !.replay = Tail(@)]))
    /\ UNCHANGED <<hostRun, label, quiet>>

\* /detach ends the streaming only if the active run is still the one.
DetachCommand ==
    /\ live /\ hostRun # None
    /\ Command({[DispatchHostCommand("detach") EXCEPT !.run = hostRun]})
    /\ UNCHANGED <<hostRun, label, serverVars, attachUsed>>

DetachDone(t) ==
    /\ t.kind = "detach"
    /\ IF hostRun = t.run
       THEN hostRun' = None /\ Send(Event("stopped", 0, t.run), tasks \ {t})
       ELSE tasks' = tasks \ {t} /\ UNCHANGED <<ui, hostRun>>
    /\ UNCHANGED <<label, quiet>>

\* /cancel asks the server and reports the answer; the events of the run follow.
CancelCommand ==
    /\ live /\ hostRun # None
    /\ runs' = Cancelled(hostRun)
    /\ Command({})
    /\ UNCHANGED <<hostRun, label, live, attachUsed>>

ModelCommand ==
    /\ live /\ label' = TRUE
    /\ Command({})
    /\ UNCHANGED <<hostRun, serverVars, attachUsed>>

\* resumeKnownRuns: the log of the active run is replayed from its beginning.
ReplayOf(r, id) == [Task("resume", id) EXCEPT !.at = "replay", !.replay = Replay(r)]

ResumeCommand ==
    /\ live /\ hostRun # None
    /\ Command({ReplayOf(hostRun, keys)})
    /\ UNCHANGED <<hostRun, label, serverVars, attachUsed>>

\* The same on a reconnect.
ResumeRuns(t) ==
    /\ t.kind = "resume" /\ t.at = "call"
    /\ tasks' = IF live /\ hostRun # None THEN Becomes(t, ReplayOf(hostRun, t.id)) ELSE tasks \ {t}
    /\ UNCHANGED <<ui, hostRun, label, quiet>>

-----------------------------------------------------------------------------
(* permissionPromptCallback, on the goroutine of a tool call *)

\* Requests have ids of their own; which id is taken does not matter.
Ask(p) ==
    /\ prompts[p].at = "none"
    /\ p = CHOOSE q \in Perm : prompts[q].at = "none"
    /\ \E r \in Run : runs[r].state = "live"
    /\ prompts' = [prompts EXCEPT ![p].at = "open"]
    /\ Send(Prompt("requested", p), tasks)
    /\ UNCHANGED <<hostRun, label, serverVars, boundVars, historyVars>>

\* The callback returns what it was told, or a denial when it has waited too long
\* or its tool call is cancelled; nothing tells the shell of the latter.
Decided(p) ==
    /\ prompts[p].at = "open"
    /\ \/ /\ prompts[p].chan # None
          /\ prompts' = [prompts EXCEPT ![p] = [at |-> "leaving", chan |-> None, result |-> @.chan]]
       \/ prompts' = [prompts EXCEPT ![p].at = "leaving", ![p].result = "deny"]
    /\ UNCHANGED <<ui, tasks, hostRun, label, serverVars, boundVars, historyVars>>

Leave(p) ==
    /\ prompts[p].at = "leaving"
    /\ prompts' = [prompts EXCEPT ![p].at = "gone", ![p].chan = None]
    /\ UNCHANGED <<ui, tasks, hostRun, label, serverVars, boundVars, historyVars>>

-----------------------------------------------------------------------------
(* The server's events, handed over by the client's read loop (HandleEvent) *)

TokenDelta(r) ==
    /\ live /\ runs[r].state \in {"live", "cancelled"} /\ runs[r].log < MaxChunks
    /\ runs' = [runs EXCEPT ![r].log = @ + 1]
    /\ Send(Delta(r, runs[r].log + 1), tasks)
    /\ UNCHANGED <<hostRun, label, live, prompts, boundVars, historyVars>>

\* Every stream ends with turn.complete: a cancelled one has its flag set, which
\* the host does not look at, and the error of a failed one comes after it.
TurnComplete(r, outcome) ==
    /\ live /\ runs[r].state \in {"live", "cancelled"}
    /\ (outcome = "cancelled") <=> (runs[r].state = "cancelled")
    /\ runs' = [runs EXCEPT ![r].state = IF outcome = "cancelled" THEN "stopped" ELSE outcome]
    /\ Send(Event("completed", 0, r), tasks)
    /\ UNCHANGED <<hostRun, label, live, prompts, boundVars, wiped, approved, attachUsed>>

\* The connection is lost: the server ends its runs, whose events go nowhere.
ConnectionLost ==
    /\ live /\ typed + keys + drops < MaxInputs
    /\ live' = FALSE /\ drops' = drops + 1
    /\ runs' = [r \in Run |-> IF runs[r].state \in {"live", "cancelled"}
                              THEN [runs[r] EXCEPT !.state = "stopped"] ELSE runs[r]]
    /\ UNCHANGED <<ui, tasks, hostRun, label, prompts, typed, keys, historyVars>>

\* observeRuntimeMessage: on every ConnStateReady the known runs are resumed.
ConnectionReady ==
    /\ ~live
    /\ live' = TRUE
    /\ tasks' = tasks \cup {Task("resume", MaxInputs + drops)}
    /\ UNCHANGED <<ui, hostRun, label, runs, prompts, boundVars, historyVars>>

-----------------------------------------------------------------------------

TaskStep(t) ==
    \/ SubmitFails(t) \/ SubmitCall(t) \/ SubmitAccepted(t) \/ SubmitStarted(t)
    \/ InterruptCall(t) \/ InterruptStop(t)
    \/ Resolve(t) \/ ResolveTold(t)
    \/ ClearDone(t) \/ AttachStarted(t) \/ ReplayNext(t) \/ DetachDone(t)
    \/ ResumeRuns(t) \/ PreviewCall(t)

UserStep ==
    \/ EnterText \/ EnterEmpty \/ EscKey \/ ArrowKey \/ PreviewKey
    \/ \E d \in Decision : AnswerPermission(d)
    \/ ClearCommand \/ DetachCommand \/ CancelCommand \/ ModelCommand \/ ResumeCommand
    \/ \E r \in Run : AttachCommand(r)

RunStep(r) == TokenDelta(r) \/ \E o \in {"completed", "failed", "cancelled"} : TurnComplete(r, o)

Next ==
    \/ UserStep
    \/ \E t \in tasks : TaskStep(t)
    \/ \E p \in Perm : Ask(p) \/ Decided(p) \/ Leave(p)
    \/ \E r \in Run : RunStep(r)
    \/ ConnectionLost \/ ConnectionReady

Spec == Init /\ [][Next]_vars

-----------------------------------------------------------------------------
(* Properties *)

\* queue.go: whatever the user types is submitted once and in the order it was
\* typed, or still waits, or was wiped by /clear.
TypedIsKeptInOrder ==
    LET all == FlattenSeq(sent) \o ui.shell.queued
    IN  /\ ToSet(all) = (1 .. typed) \ wiped
        /\ \A i, j \in DOMAIN all : i < j => all[i] < all[j]

\* adapter.go, permissions.go: the shell offers for an answer the requests that
\* make the adapter hold text back, each once, and text is held back for no other
\* reason.
PromptsAgree ==
    /\ ToSet(ui.shell.perms) = ui.pending
    /\ Len(ui.shell.perms) = Cardinality(ui.pending)
    /\ ui.paused # <<>> => ui.pending # {}

\* production_runtime.go: a tool runs only if the user approved its own request.
OnlyApprovedToolsRun == \A p \in Perm : prompts[p].result = "approve" => p \in approved

\* events.go: a shell that streams waits for a submission under way or for a run
\* that is not over, one of which ends the streaming; not so when a connection was
\* lost, or when the RunStarted of a labelled or attached run came after its end.
StreamingHasAnEnd ==
    ui.shell.streaming =>
        \/ \E t \in tasks : t.kind = "submit"
        \/ \E r \in Run : runs[r].state \in {"live", "cancelled"}
        \/ label \/ attachUsed \/ drops > 0
=============================================================================
