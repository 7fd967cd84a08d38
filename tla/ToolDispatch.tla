---------------------------- MODULE ToolDispatch ----------------------------
(***************************************************************************)
(* The tool calls of a harness: the dispatcher with its memory of call ids *)
(* and plan mode, the executor with the permission matrix, and the tools   *)
(* that touch a file (internal/harness/tool_dispatcher.go, plan.go,        *)
(* tools/framework.go, permission.go, read.go, edit.go, write.go).         *)
(*                                                                         *)
(* The server announces calls one after the other and every call runs on a *)
(* goroutine of its own.  An MCP server's tools come and go meanwhile      *)
(* (McpManager).  All calls work on one file, whose content is the set of  *)
(* calls that have left a trace in it.                                     *)
(***************************************************************************)
EXTENDS McpManager, Sequences, SequencesExt

CONSTANTS
    Id,            \* tool_call_ids; a call without one, which the memory skips, is left out
    Tool,          \* names of the tools the calls ask for
    MaxCalls,      \* bound: calls the server announces
    MaxWork,       \* bound: calls and launches together
    MaxModes,      \* bound: mode commands of the user
    SeenCapacity   \* seenCapacity: ids that are remembered

ASSUME ToolAssumption ==
    /\ MaxCalls \in Nat /\ MaxWork \in Nat /\ MaxModes \in Nat /\ SeenCapacity \in Nat \ {0}
    /\ McpTool \cap {"Read", "Edit", "Write", "Bash", "Git", "WebFetch"} = {}

VARIABLES
    calls,     \* the announced calls, each the state of its goroutine
    seenRing,  \* the ids remembered, oldest first; the map seen is its range
    approved,  \* PermissionEnforcer.approved
    plan,      \* the calls queued in the PlanAccumulator, which no host clears
    mode, modes,
    tracked,   \* whether the FileTracker has the file
    content,   \* calls whose text is in the file
    live,      \* whether a client is connected
    executed   \* history: calls whose tool was started

toolVars == <<calls, seenRing, approved, plan, mode, modes, tracked, content, live,
              executed>>
vars == <<toolVars, mcpVars>>

Mode == {"plan", "build"}

-----------------------------------------------------------------------------
(* The registry and the permission matrix *)

Risk(tool) ==
    CASE tool = "Read" -> "read_only"
      [] tool \in {"Edit", "Write"} -> "write"
      [] OTHER -> "execute"

\* What the matrix tells apart of an input: a dangerous command, an internal host, and
\* a git subcommand that only reads.
Inputs(tool) ==
    CASE tool = "Git" -> {"plain", "read", "danger"}
      [] tool \in {"Bash", "WebFetch"} -> {"plain", "danger"}
      [] OTHER -> {"plain"}

alwaysPrompt(c) == c.input = "danger"
IsGitRead(c)    == c.tool = "Git" /\ c.input = "read"

Known(tool) == tool \in McpTool => registry[tool] # Nothing

\* A mutant of Check: the approval of a tool covers its dangerous commands.
CheckApprovedFirst(c) ==
    IF Risk(c.tool) = "read_only" \/ IsGitRead(c) \/ c.tool \in approved
    THEN "allow" ELSE "prompt"

\* alwaysPrompt comes before any approval.  The level is PermDefault for good, and no
\* host ever gets an approval of its own.
Check(c) ==
    IF /\ ~alwaysPrompt(c)
       /\ Risk(c.tool) = "read_only" \/ IsGitRead(c) \/ c.tool \in approved
    THEN "allow" ELSE "prompt"

-----------------------------------------------------------------------------
(* Calls *)

\* A result is written before its context is looked at, so that an expired one does not
\* keep it back; without a client it is dropped.
Outcome == IF live THEN "answered" ELSE "dropped"

\* client: the client of the MCP tool that was looked up.  base: the content an edit
\* has read.  edited: it has written it back.  raced: the edit had the file open
\* together with another one, or a Write came after it.
Call(id, tool, input, duplicate) ==
    [id |-> id, tool |-> tool, input |-> input, duplicate |-> duplicate, answer |-> "none",
     at |-> IF duplicate THEN Outcome ELSE "looking",
     client |-> Nothing, base |-> {}, edited |-> FALSE, raced |-> FALSE]

Calls == DOMAIN calls

Goes(i, stage) == [calls EXCEPT ![i].at = stage]

Init ==
    /\ calls = <<>> /\ seenRing = <<>>
    /\ approved = {} /\ plan = {} /\ executed = {}
    /\ mode = "build" /\ modes = 0 /\ tracked = FALSE /\ content = {} /\ live = TRUE
    /\ McpInit

Work == Len(calls) + Cardinality({l \in Launch : launches[l].at # "none"})

\* A mutant of Remembered: the memory is one id short.
RememberedShort(ring, id) ==
    LET longer == Append(ring, id)
    IN  IF Len(longer) >= SeenCapacity THEN Tail(longer) ELSE longer

Remembered(ring, id) ==
    LET longer == Append(ring, id)
    IN  IF Len(longer) > SeenCapacity THEN Tail(longer) ELSE longer

\* The server announces a call, perhaps one it has announced before.  HandleEvent
\* starts a goroutine for it, which looks the id up and remembers it under the lock; the
\* calls are numbered in the order they do, which need not be the server's.  A call
\* whose id is remembered is answered as a duplicate.
ToolCall(id, tool, input) ==
    /\ live /\ Len(calls) < MaxCalls /\ Work < MaxWork
    /\ LET duplicate == id \in ToSet(seenRing)
       IN  /\ calls' = Append(calls, Call(id, tool, input, duplicate))
           /\ seenRing' = IF duplicate THEN seenRing ELSE Remembered(seenRing, id)
    /\ UNCHANGED <<approved, plan, mode, modes, tracked, content, live, executed, mcpVars>>

\* An unknown tool is an error; plan mode queues what is not read-only.
Look(i) ==
    /\ calls[i].at = "looking"
    /\ LET queues == Known(calls[i].tool) /\ mode = "plan" /\ Risk(calls[i].tool) # "read_only"
       IN  /\ calls' = Goes(i, IF ~Known(calls[i].tool) \/ queues THEN Outcome ELSE "checking")
           /\ plan' = IF queues THEN plan \cup {i} ELSE plan
    /\ UNCHANGED <<seenRing, approved, mode, modes, tracked, content, live, executed, mcpVars>>

\* Execute looks the tool up once more, and asks the user unless the matrix allows
\* the call.
Gate(i) ==
    /\ calls[i].at = "checking"
    /\ IF Known(calls[i].tool)
       THEN calls' = [calls EXCEPT
                ![i].at = IF Check(calls[i]) = "allow" THEN "running" ELSE "prompting",
                ![i].client = IF calls[i].tool \in McpTool THEN registry[calls[i].tool] ELSE @]
       ELSE calls' = Goes(i, Outcome)
    /\ UNCHANGED <<seenRing, approved, plan, mode, modes, tracked, content, live,
                   executed, mcpVars>>

\* The prompt callback returns: approved, or denied, which a timeout is too.  The
\* approval of one call is remembered for the tool.
Prompted(i, answer) ==
    /\ calls[i].at = "prompting"
    /\ calls' = [calls EXCEPT ![i].at = IF answer = "approve" THEN "running" ELSE Outcome,
                              ![i].answer = answer]
    /\ approved' = IF answer = "approve" THEN approved \cup {calls[i].tool} ELSE approved
    /\ UNCHANGED <<seenRing, plan, mode, modes, tracked, content, live, executed, mcpVars>>

-----------------------------------------------------------------------------
(* The tools *)

Run(i, tools) == calls[i].at = "running" /\ calls[i].tool \in tools /\ executed' = executed \cup {i}

rest == <<seenRing, approved, plan, mode, modes, live, mcpVars>>

\* The command ends or is killed at its deadline.
RunCommand(i) ==
    /\ Run(i, {"Bash", "Git", "WebFetch"})
    /\ calls' = Goes(i, Outcome)
    /\ UNCHANGED <<tracked, content, rest>>

\* An MCP tool asks its server through the client it was listed by, if that is open.
RunMcp(i) ==
    /\ Run(i, McpTool)
    /\ calls' = Goes(i, IF calls[i].client \in closed THEN Outcome ELSE "calling")
    /\ UNCHANGED <<tracked, content, rest>>

Returns(i) ==
    /\ calls[i].at = "calling"
    /\ calls' = [calls EXCEPT ![i].at = Outcome, ![i].client = Nothing]
    /\ UNCHANGED <<tracked, content, executed, rest>>

\* readLoop hands an answer to the call that waits for its id.
McpAnswers(i) == calls[i].client \in alive \ closed /\ Returns(i)

\* Close fails the calls that wait; the reader's end does not.
McpCloses(i) == calls[i].client \in closed /\ Returns(i)

\* The deadline of the dispatcher passes, and the answer finds nobody.
McpTimesOut(i) == Returns(i)

RunRead(i) ==
    /\ Run(i, {"Read"})
    /\ calls' = Goes(i, Outcome)
    /\ tracked' = TRUE
    /\ UNCHANGED <<content, rest>>

\* Edit refuses a file that was not read, then reads it whole.
RunEdit(i) ==
    /\ Run(i, {"Edit"})
    /\ LET open == {j \in Calls : calls[j].at = "editing"}
       IN  calls' = IF ~tracked THEN Goes(i, Outcome) ELSE
               [j \in Calls |->
                   IF j = i THEN [calls[i] EXCEPT !.at = "editing", !.base = content,
                                                  !.raced = open # {}]
                   ELSE [calls[j] EXCEPT !.raced = @ \/ j \in open]]
    /\ UNCHANGED <<tracked, content, rest>>

\* A mutant of EditWrites: the new text alone is written.
EditWritesOnlyItself(i) ==
    /\ calls[i].at = "editing"
    /\ content' = {i}
    /\ calls' = [calls EXCEPT ![i].at = Outcome, ![i].edited = TRUE,
                              ![i].base = {}]
    /\ UNCHANGED <<tracked, executed, rest>>

\* It writes back what it has read, with its own change; or it does not find its text
\* in it, or cannot write.
EditWrites(i) ==
    /\ calls[i].at = "editing"
    /\ content' = calls[i].base \cup {i}
    /\ calls' = [calls EXCEPT ![i].at = Outcome, ![i].edited = TRUE,
                              ![i].base = {}]
    /\ UNCHANGED <<tracked, executed, rest>>

EditFails(i) ==
    /\ calls[i].at = "editing"
    /\ calls' = [calls EXCEPT ![i].at = Outcome, ![i].base = {}]
    /\ UNCHANGED <<tracked, content, executed, rest>>

\* Write replaces the content, and with it what other calls have left there.
RunWrite(i) ==
    /\ Run(i, {"Write"})
    /\ content' = {i}
    /\ tracked' = TRUE
    /\ calls' = [j \in Calls |-> IF j = i THEN [calls[i] EXCEPT !.at = Outcome]
                                 ELSE [calls[j] EXCEPT !.raced = TRUE]]
    /\ UNCHANGED rest

\* A mutant of Fails: a panic is recovered and nobody is told.
FailsSilently(i) ==
    /\ calls[i].at = "running" /\ executed' = executed \cup {i}
    /\ calls' = Goes(i, "dropped")
    /\ UNCHANGED <<tracked, content, rest>>

\* A tool that fails, or panics and is recovered, is answered.
Fails(i) ==
    /\ calls[i].at = "running" /\ executed' = executed \cup {i}
    /\ calls' = Goes(i, Outcome)
    /\ UNCHANGED <<tracked, content, rest>>

-----------------------------------------------------------------------------

SetMode(m) ==
    /\ modes < MaxModes /\ m # mode
    /\ mode' = m /\ modes' = modes + 1
    /\ UNCHANGED <<calls, seenRing, approved, plan, tracked, content, live, executed, mcpVars>>

ConnectionLost ==
    /\ live /\ live' = FALSE
    /\ UNCHANGED <<calls, seenRing, approved, plan, mode, modes, tracked, content,
                   executed, mcpVars>>

\* The manager's step; a launch counts as work.
ServerOfTools ==
    /\ UNCHANGED toolVars
    /\ McpNext
    /\ Work' <= MaxWork

CallStep(i) ==
    \/ Look(i) \/ Gate(i)
    \/ \E a \in {"approve", "deny"} : Prompted(i, a)
    \/ RunCommand(i) \/ RunMcp(i) \/ McpAnswers(i) \/ McpCloses(i) \/ McpTimesOut(i)
    \/ RunRead(i) \/ RunEdit(i) \/ EditWrites(i) \/ EditFails(i)
    \/ RunWrite(i) \/ Fails(i)

Next ==
    \/ \E id \in Id, t \in Tool : \E in \in Inputs(t) : ToolCall(id, t, in)
    \/ \E i \in Calls : CallStep(i)
    \/ \E m \in Mode : SetMode(m)
    \/ ConnectionLost
    \/ ServerOfTools

Spec == Init /\ [][Next]_vars

-----------------------------------------------------------------------------
(* Properties *)

Gated(c) == Risk(c.tool) # "read_only" /\ ~IsGitRead(c)

\* tool_dispatcher.go: an id is let through twice only if as many others as the memory
\* holds came between.
IdsRunOnce ==
    \A m, n \in {i \in Calls : ~calls[i].duplicate} :
        m < n /\ calls[m].id = calls[n].id =>
            Cardinality({calls[k].id : k \in m + 1 .. n - 1} \ {calls[n].id}) >= SeenCapacity

\* tool_dispatcher.go, framework.go, permission.go: a call that was queued by plan mode
\* or denied is not run, a dangerous command runs after an approval of its own, and
\* any other call that is not read-only after an approval of its tool.  That is the
\* least the repository's texts ask for.  The executor remembers an approval for the
\* tool and the session (framework.go:270-275), so three stronger promises are not kept
\* and not stated here: that every call of an MCP tool prompts (mcp_tool.go:53-56), that
\* WebFetch is approved domain by domain (permission.go:39-41), and that approve-once
\* holds for the current invocation only (harnessshell/types.go:79).
RunsAreApproved ==
    \A i \in executed :
        /\ i \notin plan /\ calls[i].answer # "deny"
        /\ calls[i].input = "danger" => calls[i].answer = "approve"
        /\ Gated(calls[i]) =>
               \E j \in Calls : calls[j].tool = calls[i].tool /\ calls[j].answer = "approve"

\* edit.go: the change of an edit that was written is still in the file, unless a Write
\* has replaced it or another edit had the file open at the same time.
EditsStay == \A i \in Calls : calls[i].edited => i \in content \/ calls[i].raced

\* connection.go: no call is given up while a client is connected, whatever becomes of
\* its tool, its approval, its id or its server.
CallsAreAnswered == \A i \in Calls : calls[i].at = "dropped" => ~live
=============================================================================
