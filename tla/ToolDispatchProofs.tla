-------------------------- MODULE ToolDispatchProofs --------------------------
(***************************************************************************)
(* Safety of ToolDispatch and McpManager for any number of calls, tools    *)
(* and launches, and any order of their goroutines.                        *)
(***************************************************************************)
EXTENDS ToolDispatch, SequenceTheorems, FiniteSetTheorems, TLAPS

-----------------------------------------------------------------------------
(* The manager of an MCP server *)

Client == Launch \cup {Nothing}

McpTypeOK ==
    /\ entry \in [state : States, client : Client, tools : SUBSET McpTool]
    /\ launches \in [Launch -> [at : Stages, todo : SUBSET McpTool, names : SUBSET McpTool]]
    /\ alive \in SUBSET Launch /\ closed \in SUBSET Launch
    /\ registry \in [McpTool -> Client]

\* The entry's client is that of a launch that has ended, so that a launch under way
\* is neither replaced nor closed by a reconnect, and what it has registered is its own.
McpOwned ==
    /\ entry.tools # {} => entry.client # Nothing
    /\ entry.client # Nothing =>
           launches[entry.client].at = "ended" /\ entry.client \notin closed
    /\ \A t \in entry.tools : registry[t] = entry.client
    /\ \A i \in Launch : i \in closed => launches[i].at = "ended"
    /\ \A i \in Launch : launches[i].at = "listed" =>
           \A t \in launches[i].names : registry[t] = i

McpInv == McpTypeOK /\ McpOwned

(* The numbers of launches are not Nothing.                                *)
LEMMA LaunchIsSome == Nothing \notin Launch
BY McpAssumption DEF McpAssumption, Launch, Nothing

\* No server runs and no tool is listed at the start (mcp.go: NewMCPManager).
LEMMA McpInitially == McpInit => McpInv
BY LaunchIsSome DEF McpInit, NewEntry, McpInv, McpTypeOK, McpOwned, Client, Stages, States

(* Before it lists its tools a launch owns nothing (mcp.go:207-300).       *)
LEMMA AskKeeps ==
    ASSUME McpInv, NEW i \in Launch, launches[i].at = "none", Ask(i),
           UNCHANGED <<entry, alive, closed, registry>>
    PROVE  McpInv'
<1>1. McpTypeOK'
  BY DEF McpInv, McpTypeOK, Ask, Stages
<1>2. McpOwned'
  BY DEF McpInv, McpTypeOK, McpOwned, Ask, Client
<1>3. QED
  BY <1>1, <1>2 DEF McpInv

\* An entry shown as starting has no client and no tools.
LEMMA ShowStartingKeeps ==
    ASSUME McpInv, NEW i \in Launch, ShowStarting(i)
    PROVE  McpInv'
<1>1. McpTypeOK'
  BY DEF McpInv, McpTypeOK, ShowStarting, Stages, States
<1>2. McpOwned'
  BY DEF McpInv, McpTypeOK, McpOwned, ShowStarting, Client
<1>3. QED
  BY <1>1, <1>2 DEF McpInv

\* A launch that fails leaves the tools of the entry as they were.
LEMMA LaunchFailsKeeps ==
    ASSUME McpInv, NEW i \in Launch, LaunchFails(i)
    PROVE  McpInv'
<1>1. McpTypeOK'
  BY DEF McpInv, McpTypeOK, LaunchFails, Stages, States
<1>2. McpOwned'
  BY DEF McpInv, McpTypeOK, McpOwned, LaunchFails, Client
<1>3. QED
  BY <1>1, <1>2 DEF McpInv

\* The tools a server lists are kept by the launch until they are registered.
LEMMA ListedKeeps ==
    ASSUME McpInv, NEW i \in Launch, Listed(i)
    PROVE  McpInv'
<1>1. McpTypeOK'
  BY DEF McpInv, McpTypeOK, Listed, Stages
<1>2. McpOwned'
  BY DEF McpInv, McpTypeOK, McpOwned, Listed, Client
<1>3. QED
  BY <1>1, <1>2 DEF McpInv

(* A name that is taken stays with the client that has it (mcp.go:306-313). *)
LEMMA RegisterToolKeeps ==
    ASSUME McpInv, NEW i \in Launch, NEW t \in McpTool, RegisterTool(i, t)
    PROVE  McpInv'
<1> DEFINE free == registry[t] = Nothing
           names == IF free THEN launches[i].names \cup {t} ELSE launches[i].names
           row == [launches[i] EXCEPT !.todo = @ \ {t}, !.names = names]
<1>1. launches[i] \in [at : Stages, todo : SUBSET McpTool, names : SUBSET McpTool]
  BY DEF McpInv, McpTypeOK
<1>2. row \in [at : Stages, todo : SUBSET McpTool, names : SUBSET McpTool]
  BY <1>1 DEF Stages
<1>3. row.at = "listed" /\ row.names = names
  BY <1>1 DEF RegisterTool
<1>4. launches' = [launches EXCEPT ![i] = row]
  BY DEF RegisterTool
<1> HIDE DEF row
<1>5. registry' = IF free THEN [registry EXCEPT ![t] = i] ELSE registry
  BY DEF RegisterTool
<1>6. registry' \in [McpTool -> Client]
  BY <1>5 DEF McpInv, McpTypeOK, Client
<1>7. UNCHANGED <<entry, alive, closed>> /\ launches[i].at = "listed"
  BY DEF RegisterTool
<1>8. McpTypeOK'
  BY <1>2, <1>4, <1>6, <1>7 DEF McpInv, McpTypeOK
<1>9. \A u \in McpTool : registry[u] # Nothing => registry'[u] = registry[u]
  BY <1>5 DEF McpInv, McpTypeOK
<1>10. \A j \in Launch : launches'[j] = IF j = i THEN row ELSE launches[j]
  BY <1>4 DEF McpInv, McpTypeOK
<1>11. \A u \in row.names : registry'[u] = i
  BY <1>1, <1>5, <1>7, <1>3 DEF McpInv, McpTypeOK, McpOwned
<1>12. \A u \in entry'.tools : registry'[u] = entry'.client
  BY <1>7, <1>9 DEF McpInv, McpTypeOK, McpOwned
<1>13. \A j \in Launch : launches'[j].at = "listed" =>
           \A u \in launches'[j].names : registry'[u] = j
  BY <1>9, <1>10, <1>11, LaunchIsSome DEF McpInv, McpTypeOK, McpOwned
<1>14. \A j \in Launch : launches'[j].at = launches[j].at
  BY <1>7, <1>10, <1>3
<1>15. entry'.client # Nothing =>
           launches'[entry'.client].at = "ended" /\ entry'.client \notin closed'
  BY <1>7, <1>14 DEF McpInv, McpTypeOK, McpOwned, Client
<1>16. McpOwned'
  BY <1>7, <1>12, <1>13, <1>14, <1>15 DEF McpInv, McpOwned
<1>17. QED
  BY <1>8, <1>16 DEF McpInv

\* A launch that ends installs its own client, with the tools it registered.
LEMMA InstallKeeps ==
    ASSUME McpInv, NEW i \in Launch, Install(i)
    PROVE  McpInv'
<1>1. McpTypeOK'
  BY DEF McpInv, McpTypeOK, Install, Stages, States, Client
<1>2. entry'.client = i /\ entry'.tools = launches[i].names
  BY DEF Install
<1>3. McpOwned'
  BY <1>2, LaunchIsSome DEF McpInv, McpTypeOK, McpOwned, Install, Client
<1>4. QED
  BY <1>1, <1>3 DEF McpInv

(* Unwiring the entry takes away its own tools and closes its own client   *)
(* (mcp.go:345-365); a launch that has begun meanwhile has no part in it.  *)
LEMMA UnwireKeeps ==
    ASSUME McpInv, Unwire,
           launches' \in [Launch -> [at : Stages, todo : SUBSET McpTool, names : SUBSET McpTool]],
           \A j \in Launch : launches'[j] = launches[j]
                             \/ (launches[j].at = "none" /\ launches'[j].at = "asked")
    PROVE  McpInv'
<1>1. McpTypeOK'
  BY DEF McpInv, McpTypeOK, Unwire, Client, Nothing
<1>2. \A t \in McpTool : registry'[t] = IF t \in entry.tools THEN Nothing ELSE registry[t]
  BY DEF McpInv, McpTypeOK, Unwire
<1>3. entry'.client = Nothing /\ entry'.tools = {}
  BY DEF McpInv, McpTypeOK, Unwire
<1>4. \A j \in Launch : launches'[j].at = "listed" => launches'[j] = launches[j]
  OBVIOUS
<1>5. \A j \in Launch : launches'[j].at = "listed" => j # entry.client
  BY <1>4, LaunchIsSome DEF McpInv, McpOwned, McpTypeOK
<1>6. \A j \in Launch : launches'[j].at = "listed" =>
          \A t \in launches'[j].names : registry'[t] = j
  <2> SUFFICES ASSUME NEW j \in Launch, launches'[j].at = "listed",
                      NEW t \in launches[j].names
               PROVE  registry'[t] = j
    BY <1>4
  <2>1. registry[t] = j /\ t \in McpTool
    BY <1>4 DEF McpInv, McpTypeOK, McpOwned
  <2>2. t \notin entry.tools
    BY <1>5, <2>1 DEF McpInv, McpOwned
  <2>3. QED
    BY <1>2, <2>1, <2>2
<1>7. \A j \in Launch : j \in closed' => launches'[j].at = "ended"
  BY DEF McpInv, McpTypeOK, McpOwned, Unwire
<1>8. QED
  BY <1>1, <1>3, <1>6, <1>7 DEF McpInv, McpOwned

\* Every step of the manager keeps its invariant.
LEMMA McpStep == McpInv /\ [McpNext]_mcpVars => McpInv'
<1> SUFFICES ASSUME McpInv, [McpNext]_mcpVars PROVE McpInv'
  OBVIOUS
<1>1. CASE ShutdownManager
  BY <1>1, UnwireKeeps DEF ShutdownManager, McpInv, McpTypeOK
<1>2. ASSUME NEW i \in Launch, LaunchServer(i) PROVE McpInv'
  BY <1>2, AskKeeps DEF LaunchServer, NextLaunch
<1>3. ASSUME NEW i \in Launch, ShowStarting(i) PROVE McpInv'
  BY <1>3, ShowStartingKeeps
<1>4. ASSUME NEW i \in Launch, LaunchFails(i) PROVE McpInv'
  BY <1>4, LaunchFailsKeeps
<1>5. ASSUME NEW i \in Launch, Listed(i) PROVE McpInv'
  BY <1>5, ListedKeeps
<1>6. ASSUME NEW i \in Launch, NEW t \in McpTool, RegisterTool(i, t) PROVE McpInv'
  BY <1>6, RegisterToolKeeps
<1>7. ASSUME NEW i \in Launch, Install(i) PROVE McpInv'
  BY <1>7, InstallKeeps
<1>8. ASSUME NEW i \in Launch, Reconnect(i) PROVE McpInv'
  <2>1. launches' \in [Launch -> [at : Stages, todo : SUBSET McpTool, names : SUBSET McpTool]]
    BY <1>8 DEF Reconnect, Ask, McpInv, McpTypeOK, Stages
  <2>2. \A j \in Launch : launches'[j] = launches[j]
                          \/ (launches[j].at = "none" /\ launches'[j].at = "asked")
    BY <1>8 DEF Reconnect, NextLaunch, Ask, McpInv, McpTypeOK
  <2>3. QED
    BY <1>8, <2>1, <2>2, UnwireKeeps DEF Reconnect
<1>9. CASE UNCHANGED mcpVars
  BY <1>9 DEF mcpVars, McpInv, McpTypeOK, McpOwned
<1>10. QED
  BY <1>1, <1>2, <1>3, <1>4, <1>5, <1>6, <1>7, <1>8, <1>9 DEF McpNext

-----------------------------------------------------------------------------
(* Calls *)

Early  == {"looking", "checking", "prompting"}
Over  == {"answered", "dropped"}
Record ==
    [id : Id, tool : Tool, input : {"plain", "read", "danger"}, duplicate : BOOLEAN,
     answer : {"none", "approve", "deny"},
     at : Early \cup {"running", "calling", "editing"} \cup Over,
     client : Client, base : SUBSET Nat, edited : BOOLEAN, raced : BOOLEAN]

CallTypeOK ==
    /\ calls \in Seq(Record)
    /\ content \in SUBSET Nat /\ executed \in SUBSET Calls
    /\ approved \in SUBSET Tool

\* The state of the gate behind RunsAreApproved: an answer comes once and before the
\* tool is started, and an approval is in the enforcer's memory.
Approvals ==
    /\ \A i \in Calls : calls[i].at \in Early => calls[i].answer = "none" /\ i \notin executed
    /\ \A t \in approved : \E j \in Calls : calls[j].tool = t /\ calls[j].answer = "approve"
    /\ \A i \in Calls : calls[i].at = "running" \/ i \in executed =>
           /\ calls[i].answer # "deny" /\ (calls[i].input = "danger" => calls[i].answer = "approve")
           /\ Gated(calls[i]) => calls[i].tool \in approved

\* What an edit under way knows of the file, behind EditsStay.
Edits ==
    /\ \A i \in Calls : calls[i].edited => calls[i].at \in Over
    /\ \A i, j \in Calls :
           i # j /\ calls[i].at = "editing" /\ calls[j].at = "editing" => calls[i].raced
    /\ \A i, k \in Calls :
           calls[i].at = "editing" /\ calls[k].edited /\ ~calls[k].raced => k \in calls[i].base
    /\ \A k \in Calls : calls[k].edited /\ ~calls[k].raced => k \in content

CallInv == CallTypeOK /\ Approvals /\ Edits

(* One call takes a step: the sequence keeps its length and the others.    *)
LEMMA OneCall ==
    ASSUME calls \in Seq(Record), NEW i \in Calls, NEW c \in Record,
           calls' = [calls EXCEPT ![i] = c]
    PROVE  /\ calls' \in Seq(Record) /\ Calls' = Calls
           /\ \A j \in Calls : calls'[j] = IF j = i THEN c ELSE calls[j]
           /\ Calls \in SUBSET Nat
<1>1. Calls = 1 .. Len(calls)
  BY DEF Calls
<1>2. QED
  BY <1>1, ExceptSeq DEF Calls

(* A call moves on and leaves the file alone, or gives an edit up.         *)
LEMMA MovesOn ==
    ASSUME CallInv, NEW i \in Calls, NEW c \in Record,
           calls' = [calls EXCEPT ![i] = c],
           calls[i].at \notin Over, c.at # "editing",
           c.tool = calls[i].tool, c.input = calls[i].input,
           c.edited = calls[i].edited, c.raced = calls[i].raced,
           c.answer = calls[i].answer \/ calls[i].answer = "none",
           c.at \in Early => c.answer = "none" /\ i \notin executed',
           executed' = executed \/ executed' = executed \cup {i},
           approved' = approved
               \/ (approved' = approved \cup {c.tool} /\ c.answer = "approve"),
           c.at = "running" \/ i \in executed' =>
               /\ c.answer # "deny" /\ (c.input = "danger" => c.answer = "approve")
               /\ Gated(c) => c.tool \in approved',
           content' = content
    PROVE  CallInv'
<1>1. /\ calls' \in Seq(Record) /\ Calls' = Calls
      /\ \A j \in Calls : calls'[j] = IF j = i THEN c ELSE calls[j]
  BY OneCall DEF CallInv, CallTypeOK
<1>2. CallTypeOK'
  BY <1>1 DEF CallInv, CallTypeOK, Record
<1>3. Approvals'
  <2>1. \A j \in Calls' : calls'[j].at \in Early => calls'[j].answer = "none" /\ j \notin executed'
    BY <1>1 DEF CallInv, Approvals
  <2>2. \A j \in Calls : calls[j].answer = "approve" =>
            calls'[j].answer = "approve" /\ calls'[j].tool = calls[j].tool
    BY <1>1
  <2>3. \A t \in approved' : \E j \in Calls' : calls'[j].tool = t /\ calls'[j].answer = "approve"
    BY <1>1, <2>2 DEF CallInv, Approvals
  <2>4. \A j \in Calls' : calls'[j].at = "running" \/ j \in executed' =>
            /\ calls'[j].answer # "deny" /\ (calls'[j].input = "danger" => calls'[j].answer = "approve")
            /\ Gated(calls'[j]) => calls'[j].tool \in approved'
    BY <1>1 DEF CallInv, Approvals
  <2>5. QED
    BY <2>1, <2>3, <2>4 DEF Approvals, Gated, IsGitRead
<1>4. Edits'
  BY <1>1 DEF CallInv, Edits
<1>5. QED
  BY <1>2, <1>3, <1>4 DEF CallInv

-----------------------------------------------------------------------------
(* The steps of a call *)

(* The call itself is the same at its next stage.                          *)
LEMMA SameCall ==
    ASSUME CallInv, NEW i \in Calls, NEW c \in Record,
           c.tool = calls[i].tool, c.input = calls[i].input
    PROVE  Gated(c) <=> Gated(calls[i])
BY DEF Gated, IsGitRead

\* A call goes on to a later stage and changes nothing else of itself.
LEMMA GoesKeeps ==
    ASSUME CallInv, NEW i \in Calls, NEW s \in {"checking", "calling"} \cup Over,
           calls' = Goes(i, s), calls[i].at \notin Over,
           s = "checking" => calls[i].at = "looking" /\ executed' = executed,
           executed' = executed \/ (executed' = executed \cup {i} /\ calls[i].at = "running"),
           UNCHANGED <<approved, content>>
    PROVE  CallInv'
<1> DEFINE c == [calls[i] EXCEPT !.at = s]
<1>1. calls[i] \in Record
  BY DEF CallInv, CallTypeOK, Calls
<1>2. /\ c \in Record
      /\ c.at = s /\ c.tool = calls[i].tool /\ c.input = calls[i].input
      /\ c.edited = calls[i].edited /\ c.raced = calls[i].raced /\ c.answer = calls[i].answer
  BY <1>1 DEF Record, Early, Over
<1>3. calls' = [calls EXCEPT ![i] = c]
  BY DEF Goes
<1> HIDE DEF c
<1>4. Gated(c) <=> Gated(calls[i])
  BY <1>2, SameCall
<1>5. c.at \in Early => c.answer = "none" /\ i \notin executed'
  BY <1>2 DEF CallInv, Approvals, Early, Over
<1>6. c.at = "running" \/ i \in executed' =>
          /\ c.answer # "deny" /\ (c.input = "danger" => c.answer = "approve")
          /\ Gated(c) => c.tool \in approved'
  BY <1>2, <1>4 DEF CallInv, Approvals, Over
<1>7. c.at # "editing"
  BY <1>2 DEF Over
<1>8. QED
  BY <1>2, <1>3, <1>5, <1>6, <1>7, MovesOn

\* A call that has its outcome is over.
LEMMA OutcomeIsOver == Outcome \in Over
BY DEF Outcome, Over

\* The look-up ends a call or sends it to the gate (HandleEvent).
LEMMA LookKeeps == ASSUME CallInv, NEW i \in Calls, Look(i) PROVE CallInv'
<1>1. PICK s \in {"checking"} \cup Over : calls' = Goes(i, s)
  BY OutcomeIsOver DEF Look
<1>2. UNCHANGED <<approved, content, executed>> /\ calls[i].at = "looking"
  BY DEF Look
<1>3. QED
  BY <1>1, <1>2, GoesKeeps DEF Over

(* What the matrix allows has its approval (permission.go:95-161).         *)
LEMMA GateKeeps == ASSUME McpInv, CallInv, NEW i \in Calls, Gate(i) PROVE CallInv'
<1>1. calls[i] \in Record
  BY DEF CallInv, CallTypeOK, Calls
<1>2. UNCHANGED <<approved, content, executed>> /\ calls[i].at = "checking"
  BY DEF Gate
<1>3. CASE ~Known(calls[i].tool)
  <2>1. calls' = Goes(i, Outcome)
    BY <1>3 DEF Gate
  <2>2. QED
    BY <1>2, <2>1, OutcomeIsOver, GoesKeeps DEF Over
<1>4. CASE Known(calls[i].tool)
  <2> DEFINE s == IF Check(calls[i]) = "allow" THEN "running" ELSE "prompting"
             k == IF calls[i].tool \in McpTool THEN registry[calls[i].tool] ELSE calls[i].client
             c == [calls[i] EXCEPT !.at = s, !.client = k]
  <2>1. k \in Client
    BY <1>1 DEF McpInv, McpTypeOK, Record
  <2>2. /\ c \in Record
        /\ c.at = s /\ c.tool = calls[i].tool /\ c.input = calls[i].input
        /\ c.edited = calls[i].edited /\ c.raced = calls[i].raced /\ c.answer = calls[i].answer
    BY <1>1, <2>1 DEF Record, Early
  <2>3. calls' = [calls EXCEPT ![i] = c]
    BY <1>4 DEF Gate
  <2> HIDE DEF c
  <2>4. Gated(c) <=> Gated(calls[i])
    BY <2>2, SameCall
  <2>5. calls[i].answer = "none" /\ i \notin executed
    BY <1>2 DEF CallInv, Approvals, Early
  <2>6. c.at = "running" =>
            /\ c.input # "danger"
            /\ Gated(c) => c.tool \in approved
    BY <2>2, <2>4 DEF Check, alwaysPrompt, Gated
  <2>7. c.at # "editing" /\ calls[i].at \notin Over
    BY <1>2, <2>2 DEF Over
  <2>8. QED
    BY <1>2, <2>2, <2>3, <2>5, <2>6, <2>7, MovesOn
<1>5. QED
  BY <1>3, <1>4

(* An approval is remembered with the answer (framework.go:262-282).       *)
LEMMA PromptedKeeps ==
    ASSUME CallInv, NEW i \in Calls, NEW a \in {"approve", "deny"}, Prompted(i, a)
    PROVE  CallInv'
<1>1. calls[i] \in Record
  BY DEF CallInv, CallTypeOK, Calls
<1> DEFINE s == IF a = "approve" THEN "running" ELSE Outcome
           c == [calls[i] EXCEPT !.at = s, !.answer = a]
<1>2. s \in {"running"} \cup Over /\ (s = "running" => a = "approve")
  BY OutcomeIsOver DEF Over
<1>3. /\ c \in Record
      /\ c.at = s /\ c.tool = calls[i].tool /\ c.input = calls[i].input
      /\ c.edited = calls[i].edited /\ c.raced = calls[i].raced /\ c.answer = a
  BY <1>1, <1>2 DEF Record
<1>4. calls' = [calls EXCEPT ![i] = c]
  BY DEF Prompted
<1>5. /\ approved' = IF a = "approve" THEN approved \cup {c.tool} ELSE approved
      /\ UNCHANGED <<content, executed>> /\ calls[i].at = "prompting"
  BY <1>3 DEF Prompted
<1>6. calls[i].answer = "none" /\ i \notin executed
  BY <1>5 DEF CallInv, Approvals, Early
<1> HIDE DEF c, s
<1>7. c.at \notin Early /\ c.at # "editing" /\ calls[i].at \notin Over
  BY <1>2, <1>3, <1>5 DEF Early, Over
<1>8. QED
  BY <1>2, <1>3, <1>4, <1>5, <1>6, <1>7, MovesOn

-----------------------------------------------------------------------------
(* The steps of the tools *)

(* Tools that leave the file alone.                                        *)
LEMMA RunsKeep ==
    ASSUME CallInv, NEW i \in Calls,
           RunCommand(i) \/ RunMcp(i) \/ RunRead(i) \/ Fails(i)
    PROVE  CallInv'
<1>1. PICK s \in {"calling"} \cup Over : calls' = Goes(i, s)
  BY OutcomeIsOver DEF RunCommand, RunMcp, RunRead, Fails
<1>2. /\ calls[i].at = "running" /\ executed' = executed \cup {i}
      /\ UNCHANGED <<approved, content>>
  BY DEF RunCommand, RunMcp, RunRead, Fails, Run, rest
<1>3. QED
  BY <1>1, <1>2, GoesKeeps DEF Over

(* A call is given back: an MCP call returns, an edit fails.               *)
LEMMA GivesBackKeeps ==
    ASSUME CallInv, NEW i \in Calls,
           NEW k \in Client, NEW b \in SUBSET Nat,
           calls[i].at \in {"calling", "editing"},
           calls' = [calls EXCEPT ![i] = [calls[i] EXCEPT !.at = Outcome, !.client = k, !.base = b]],
           UNCHANGED <<approved, content, executed>>
    PROVE  CallInv'
<1> DEFINE c == [calls[i] EXCEPT !.at = Outcome, !.client = k, !.base = b]
<1>1. calls[i] \in Record
  BY DEF CallInv, CallTypeOK, Calls
<1>2. /\ c \in Record
      /\ c.at \in Over /\ c.tool = calls[i].tool /\ c.input = calls[i].input
      /\ c.edited = calls[i].edited /\ c.raced = calls[i].raced /\ c.answer = calls[i].answer
  BY <1>1, OutcomeIsOver DEF Record
<1>3. calls' = [calls EXCEPT ![i] = c]
  OBVIOUS
<1> HIDE DEF c
<1>4. Gated(c) <=> Gated(calls[i])
  BY <1>2, SameCall
<1>5. i \in executed => /\ c.answer # "deny" /\ (c.input = "danger" => c.answer = "approve")
                        /\ Gated(c) => c.tool \in approved
  BY <1>2, <1>4 DEF CallInv, Approvals
<1>6. c.at \notin Early \cup {"running", "editing"} /\ calls[i].at \notin Over
  BY <1>2 DEF Early, Over
<1>7. QED
  BY <1>2, <1>3, <1>5, <1>6, MovesOn

\* An MCP call that returns has left the file alone.
LEMMA ReturnsKeeps == ASSUME CallInv, NEW i \in Calls, Returns(i) PROVE CallInv'
<1>1. calls[i] \in Record
  BY DEF CallInv, CallTypeOK, Calls
<1>2. calls[i].base \in SUBSET Nat /\ Nothing \in Client
  BY <1>1 DEF Record, Client
<1>3. [calls[i] EXCEPT !.at = Outcome, !.client = Nothing]
          = [calls[i] EXCEPT !.at = Outcome, !.client = Nothing, !.base = calls[i].base]
  BY <1>1 DEF Record
<1>4. calls' = [calls EXCEPT ![i] =
                   [calls[i] EXCEPT !.at = Outcome, !.client = Nothing, !.base = calls[i].base]]
  BY <1>3 DEF Returns
<1>5. calls[i].at = "calling" /\ UNCHANGED <<approved, content, executed>>
  BY DEF Returns, rest
<1>6. QED
  BY <1>2, <1>4, <1>5, GivesBackKeeps

\* An edit that fails has written nothing.
LEMMA EditFailsKeeps == ASSUME CallInv, NEW i \in Calls, EditFails(i) PROVE CallInv'
<1>1. calls[i] \in Record
  BY DEF CallInv, CallTypeOK, Calls
<1>2. calls[i].client \in Client /\ {} \in SUBSET Nat
  BY <1>1 DEF Record
<1>3. [calls[i] EXCEPT !.at = Outcome, !.base = {}]
          = [calls[i] EXCEPT !.at = Outcome, !.client = calls[i].client, !.base = {}]
  BY <1>1 DEF Record
<1>4. calls' = [calls EXCEPT ![i] =
                   [calls[i] EXCEPT !.at = Outcome, !.client = calls[i].client, !.base = {}]]
  BY <1>3 DEF EditFails
<1>5. calls[i].at = "editing" /\ UNCHANGED <<approved, content, executed>>
  BY DEF EditFails, rest
<1>6. QED
  BY <1>2, <1>4, <1>5, GivesBackKeeps

(* What a step that touches the file owes to the gate: it starts a tool    *)
(* that may run, or none, and changes no call's tool, input or answer.     *)
LEMMA GateUntouched ==
    ASSUME CallInv, NEW i \in Calls, Calls' = Calls, approved' = approved,
           \A j \in Calls :
               /\ calls'[j].tool = calls[j].tool /\ calls'[j].input = calls[j].input
               /\ calls'[j].answer = calls[j].answer
               /\ j # i => calls'[j].at = calls[j].at,
           calls'[i].at \in {"editing"} \cup Over, calls[i].at \in {"running", "editing"},
           executed' = executed \/ (executed' = executed \cup {i} /\ calls[i].at = "running")
    PROVE  Approvals'
<1>1. \A j \in Calls : Gated(calls'[j]) <=> Gated(calls[j])
  BY DEF Gated, IsGitRead
<1>2. \A j \in Calls' : calls'[j].at \in Early => calls'[j].answer = "none" /\ j \notin executed'
  BY DEF CallInv, Approvals, Early, Over
<1>3. \A t \in approved' : \E j \in Calls' : calls'[j].tool = t /\ calls'[j].answer = "approve"
  BY DEF CallInv, Approvals
<1>4. \A j \in Calls' : calls'[j].at = "running" \/ j \in executed' =>
          calls[j].at = "running" \/ j \in executed
  BY DEF Over
<1>5. \A j \in Calls' : calls'[j].at = "running" \/ j \in executed' =>
          /\ calls'[j].answer # "deny" /\ (calls'[j].input = "danger" => calls'[j].answer = "approve")
          /\ Gated(calls'[j]) => calls'[j].tool \in approved'
  BY <1>1, <1>4 DEF CallInv, Approvals
<1>6. QED
  BY <1>2, <1>3, <1>5 DEF Approvals, Gated, IsGitRead

(* Two edits that have the file open together are both marked, so that     *)
(* what an unmarked one has read holds every change that must stay         *)
(* (edit.go:53-85).                                                        *)
LEMMA RunEditKeeps == ASSUME CallInv, NEW i \in Calls, RunEdit(i) PROVE CallInv'
<1>1. calls[i] \in Record
  BY DEF CallInv, CallTypeOK, Calls
<1>2. /\ calls[i].at = "running" /\ executed' = executed \cup {i}
      /\ UNCHANGED <<approved, content>>
  BY DEF RunEdit, Run, rest
<1>3. CASE ~tracked
  BY <1>2, <1>3, OutcomeIsOver, GoesKeeps DEF RunEdit, Over
<1>4. CASE tracked
  <2> DEFINE open == {j \in Calls : calls[j].at = "editing"}
             own == [calls[i] EXCEPT !.at = "editing", !.base = content, !.raced = open # {}]
             other(j) == [calls[j] EXCEPT !.raced = @ \/ j \in open]
             next(j) == IF j = i THEN own ELSE other(j)
  <2>1. calls' = [j \in Calls |-> next(j)]
    BY <1>4 DEF RunEdit
  <2>2. /\ own \in Record /\ own.at = "editing" /\ own.base = content
        /\ own.raced = (open # {}) /\ own.edited = calls[i].edited
        /\ own.tool = calls[i].tool /\ own.input = calls[i].input /\ own.answer = calls[i].answer
    BY <1>1 DEF Record, CallInv, CallTypeOK
  <2>3. \A j \in Calls :
            /\ other(j) \in Record /\ other(j).at = calls[j].at /\ other(j).base = calls[j].base
            /\ other(j).raced = (calls[j].raced \/ j \in open)
            /\ other(j).edited = calls[j].edited /\ other(j).tool = calls[j].tool
            /\ other(j).input = calls[j].input /\ other(j).answer = calls[j].answer
    <3> SUFFICES ASSUME NEW j \in Calls
                 PROVE  /\ other(j) \in Record /\ other(j).at = calls[j].at
                        /\ other(j).base = calls[j].base
                        /\ other(j).raced = (calls[j].raced \/ j \in open)
                        /\ other(j).edited = calls[j].edited /\ other(j).tool = calls[j].tool
                        /\ other(j).input = calls[j].input /\ other(j).answer = calls[j].answer
      OBVIOUS
    <3>1. calls[j] \in Record
      BY DEF CallInv, CallTypeOK, Calls
    <3>2. QED
      BY <3>1 DEF Record
  <2> HIDE DEF own, other
  <2>4. calls' \in Seq(Record) /\ Calls' = Calls
    <3>1. Calls = 1 .. Len(calls) /\ Len(calls) \in Nat
      BY DEF Calls, CallInv, CallTypeOK
    <3>2. \A j \in 1 .. Len(calls) : next(j) \in Record
      BY <2>2, <2>3, <3>1
    <3> HIDE DEF next
    <3>3. [j \in 1 .. Len(calls) |-> next(j)] \in Seq(Record)
      BY <3>1, <3>2, IsASeq
    <3>4. QED
      BY <2>1, <3>1, <3>3 DEF Calls
  <2>5. calls'[i] = own /\ \A j \in Calls \ {i} : calls'[j] = other(j)
    BY <2>1
  <2>6. CallTypeOK'
    BY <1>2, <2>4 DEF CallInv, CallTypeOK
  <2>7. Approvals'
    BY <1>2, <2>2, <2>3, <2>4, <2>5, GateUntouched
  <2>8. Edits'
    <3>1. i \notin open /\ ~calls[i].edited
      BY <1>2 DEF CallInv, Edits, Over
    <3>2. \A j \in Calls : calls'[j].edited =>
              calls[j].edited /\ calls'[j].at = calls[j].at
      BY <2>2, <2>3, <2>5, <3>1
    <3>3. \A j \in Calls : ~calls'[j].raced /\ calls'[j].edited => ~calls[j].raced
      BY <2>2, <2>3, <2>5, <3>1
    <3>4. \A j \in Calls, k \in Calls :
              j # k /\ calls'[j].at = "editing" /\ calls'[k].at = "editing" => calls'[j].raced
      <4>1. \A j \in Calls \ {i} : calls'[j].at = "editing" => j \in open /\ calls'[j].raced
        BY <2>3, <2>5, ZenonT(30)
      <4>2. open # {} => calls'[i].raced
        BY <2>2, <2>5
      <4>3. QED
        BY <4>1, <4>2
    <3>5. \A j \in Calls : calls'[j].at = "editing" =>
              calls'[j].base = (IF j = i THEN content ELSE calls[j].base)
              /\ (j # i => calls[j].at = "editing")
      BY <2>2, <2>3, <2>5
    <3>6. QED
      BY <1>2, <2>4, <3>2, <3>3, <3>4, <3>5 DEF CallInv, Edits
  <2>9. QED
    BY <2>6, <2>7, <2>8 DEF CallInv
<1>5. QED
  BY <1>3, <1>4

(* What an edit writes back holds every change that must stay, whoever     *)
(* wrote between its reading and its writing (edit.go:86-114).             *)
LEMMA EditWritesKeeps == ASSUME CallInv, NEW i \in Calls, EditWrites(i) PROVE CallInv'
<1> DEFINE c == [calls[i] EXCEPT !.at = Outcome, !.edited = TRUE, !.base = {}]
<1>1. calls[i] \in Record
  BY DEF CallInv, CallTypeOK, Calls
<1>2. /\ c \in Record /\ c.at \in Over /\ c.raced = calls[i].raced
      /\ c.tool = calls[i].tool /\ c.input = calls[i].input /\ c.answer = calls[i].answer
  BY <1>1, OutcomeIsOver DEF Record
<1>3. /\ calls' = [calls EXCEPT ![i] = c] /\ calls[i].at = "editing"
      /\ content' = calls[i].base \cup {i} /\ UNCHANGED <<approved, executed>>
  BY DEF EditWrites, rest
<1> HIDE DEF c
<1>4. /\ calls' \in Seq(Record) /\ Calls' = Calls
      /\ \A j \in Calls : calls'[j] = IF j = i THEN c ELSE calls[j]
      /\ Calls \in SUBSET Nat
  BY <1>2, <1>3, OneCall DEF CallInv, CallTypeOK
<1>5. CallTypeOK'
  BY <1>1, <1>3, <1>4 DEF CallInv, CallTypeOK, Record
<1>6. Approvals'
  BY <1>2, <1>3, <1>4, GateUntouched
<1>7. Edits'
  BY <1>2, <1>3, <1>4 DEF CallInv, Edits, Over
<1>8. QED
  BY <1>5, <1>6, <1>7 DEF CallInv

(* A Write leaves nothing of the others in the file, and marks them.       *)
LEMMA RunWriteKeeps == ASSUME CallInv, NEW i \in Calls, RunWrite(i) PROVE CallInv'
<1> DEFINE own == [calls[i] EXCEPT !.at = Outcome]
           other(j) == [calls[j] EXCEPT !.raced = TRUE]
           next(j) == IF j = i THEN own ELSE other(j)
<1>1. \A j \in Calls : calls[j] \in Record
  BY DEF CallInv, CallTypeOK, Calls
<1>2. /\ calls[i].at = "running" /\ executed' = executed \cup {i}
      /\ content' = {i} /\ approved' = approved
  BY DEF RunWrite, Run, rest
<1>3. calls' = [j \in Calls |-> next(j)]
  BY DEF RunWrite
<1>4. /\ own \in Record /\ own.at \in Over /\ own.edited = calls[i].edited
      /\ own.tool = calls[i].tool /\ own.input = calls[i].input /\ own.answer = calls[i].answer
  BY <1>1, OutcomeIsOver DEF Record
<1>5. \A j \in Calls :
          /\ other(j) \in Record /\ other(j).raced /\ other(j).at = calls[j].at
          /\ other(j).edited = calls[j].edited /\ other(j).tool = calls[j].tool
          /\ other(j).input = calls[j].input /\ other(j).answer = calls[j].answer
  BY <1>1 DEF Record
<1> HIDE DEF own, other
<1>6. Calls = 1 .. Len(calls) /\ Len(calls) \in Nat
  BY DEF Calls, CallInv, CallTypeOK
<1>7. \A j \in 1 .. Len(calls) : next(j) \in Record
  BY <1>4, <1>5, <1>6
<1>8. calls'[i] = own /\ \A j \in Calls \ {i} : calls'[j] = other(j)
  BY <1>3
<1>9. calls' \in Seq(Record) /\ Calls' = Calls
  <2> HIDE DEF next
  <2>1. [j \in 1 .. Len(calls) |-> next(j)] \in Seq(Record)
    BY <1>6, <1>7, IsASeq
  <2>2. QED
    BY <1>3, <1>6, <2>1 DEF Calls
<1>10. CallTypeOK'
  BY <1>2, <1>6, <1>9 DEF CallInv, CallTypeOK
<1>11. Approvals'
  BY <1>2, <1>4, <1>5, <1>8, <1>9, GateUntouched
<1>12. Edits'
  <2>1. ~calls'[i].edited
    BY <1>2, <1>4, <1>8 DEF CallInv, Edits, Over
  <2>2. calls'[i].at # "editing"
    BY <1>4, <1>8 DEF Over
  <2>3. \A j \in Calls \ {i} : calls'[j].raced /\ (calls'[j].edited => calls'[j].at \in Over)
    BY <1>5, <1>8 DEF CallInv, Edits
  <2>4. QED
    BY <1>9, <2>1, <2>2, <2>3 DEF Edits
<1>13. QED
  BY <1>10, <1>11, <1>12 DEF CallInv

(* A new call has done nothing yet.                                        *)
LEMMA ToolCallKeeps ==
    ASSUME CallInv, NEW id \in Id, NEW t \in Tool, NEW in \in Inputs(t), ToolCall(id, t, in)
    PROVE  CallInv'
<1> DEFINE d == id \in ToSet(seenRing)
           c == Call(id, t, in, d)
<1>1. calls' = Append(calls, c) /\ d \in BOOLEAN
  BY DEF ToolCall
<1> HIDE DEF d
<1>2. /\ c \in Record /\ c.at \in {"looking"} \cup Over /\ c.answer = "none" /\ ~c.edited
  BY <1>1, OutcomeIsOver DEF Call, Record, Inputs, Client, Early
<1> HIDE DEF c
<1>3. /\ calls' \in Seq(Record) /\ Calls = 1 .. Len(calls) /\ Calls' = 1 .. Len(calls) + 1
      /\ Len(calls) \in Nat
      /\ \A j \in Calls : calls'[j] = calls[j]
      /\ calls'[Len(calls) + 1] = c
  BY <1>1, <1>2, AppendProperties DEF CallInv, CallTypeOK, Calls
<1>4. Calls' = Calls \cup {Len(calls) + 1} /\ Len(calls) + 1 \notin Calls
  BY <1>3
<1>5. UNCHANGED <<approved, content, executed>>
  BY DEF ToolCall
<1>6. CallTypeOK'
  BY <1>3, <1>4, <1>5 DEF CallInv, CallTypeOK
<1>7. Approvals'
  <2>1. \A j \in Calls' : calls'[j].at \in Early => calls'[j].answer = "none" /\ j \notin executed'
    BY <1>2, <1>3, <1>4, <1>5 DEF CallInv, Approvals, CallTypeOK
  <2>2. \A u \in approved' : \E j \in Calls' : calls'[j].tool = u /\ calls'[j].answer = "approve"
    BY <1>3, <1>4, <1>5 DEF CallInv, Approvals
  <2>3. \A j \in Calls' : calls'[j].at = "running" \/ j \in executed' => j \in Calls
    BY <1>2, <1>3, <1>4, <1>5 DEF CallInv, CallTypeOK, Over
  <2>4. \A j \in Calls' : calls'[j].at = "running" \/ j \in executed' =>
            /\ calls'[j].answer # "deny" /\ (calls'[j].input = "danger" => calls'[j].answer = "approve")
            /\ Gated(calls'[j]) => calls'[j].tool \in approved'
    BY <1>3, <1>5, <2>3 DEF CallInv, Approvals
  <2>5. QED
    BY <2>1, <2>2, <2>4 DEF Approvals, Gated, IsGitRead
<1>8. Edits'
  <2>1. \A j \in Calls' : calls'[j].edited \/ calls'[j].at = "editing" => j \in Calls
    BY <1>2, <1>3, <1>4 DEF Over
  <2>2. QED
    BY <1>3, <1>5, <2>1 DEF CallInv, Edits
<1>9. QED
  BY <1>6, <1>7, <1>8 DEF CallInv

-----------------------------------------------------------------------------
(* The memory of ids, and the answers *)

\* The ring holds each id once.  Whatever stands behind a call's id was announced after
\* the call, and an id that has left the ring has left it full of later ones.
RingOK ==
    /\ seenRing \in Seq(Id) /\ Len(seenRing) <= SeenCapacity
    /\ \A p, q \in 1 .. Len(seenRing) : seenRing[p] = seenRing[q] => p = q

Later(m, id) == \E n \in Calls : m < n /\ calls[n].id = id

RingFollows ==
    \A m \in Calls : ~calls[m].duplicate =>
        /\ \A p, q \in 1 .. Len(seenRing) :
               seenRing[p] = calls[m].id /\ p < q => Later(m, seenRing[q])
        /\ (\A p \in 1 .. Len(seenRing) : seenRing[p] # calls[m].id) =>
               /\ Len(seenRing) = SeenCapacity
               /\ \A q \in 1 .. Len(seenRing) : Later(m, seenRing[q])

\* A queued call has been answered and its tool was not started.
PlanHeld == \A i \in plan : i \in Calls /\ calls[i].at \in Over /\ i \notin executed

Memory == RingOK /\ RingFollows /\ IdsRunOnce /\ CallsAreAnswered

\* What a step leaves of a call: its id, whether it was a duplicate, that it is over,
\* and an answer while a client is there.
Stays(c, d) ==
    /\ d.id = c.id /\ d.duplicate = c.duplicate
    /\ c.at \in Over => d.at \in Over
    /\ d.at = "dropped" => c.at = "dropped" \/ ~live

(* One call moves on, with its id.                                         *)
LEMMA OneStays ==
    ASSUME CallInv, NEW i \in Calls, NEW c \in Record,
           c.id = calls[i].id, c.duplicate = calls[i].duplicate, c.at = "dropped" => ~live,
           calls[i].at \notin Over, calls' = [calls EXCEPT ![i] = c]
    PROVE  Calls' = Calls /\ \A j \in Calls : Stays(calls[j], calls'[j])
<1>1. Calls' = Calls /\ \A j \in Calls : calls'[j] = IF j = i THEN c ELSE calls[j]
  BY OneCall DEF CallInv, CallTypeOK
<1>2. QED
  BY <1>1 DEF Stays

(* A step of one call keeps what the memory and the answers rest on.       *)
LEMMA CallStays ==
    ASSUME McpInv, CallInv, NEW i \in Calls, CallStep(i)
    PROVE  /\ Calls' = Calls /\ UNCHANGED <<seenRing, live>>
           /\ \A j \in Calls : Stays(calls[j], calls'[j])
           /\ calls[i].at \notin Over
<1> DEFINE Goal == Calls' = Calls /\ \A j \in Calls : Stays(calls[j], calls'[j])
<1>1. \A j \in Calls : calls[j] \in Record
  BY DEF CallInv, CallTypeOK, Calls
<1>2. UNCHANGED <<seenRing, live>>
  BY DEF CallStep, Look, Gate, Prompted, RunCommand, RunMcp, McpAnswers, McpCloses,
         McpTimesOut, Returns, RunRead, RunEdit, EditWrites, EditFails, RunWrite, Fails, rest
<1>0. calls[i].at \notin Over
  BY DEF CallStep, Look, Gate, Prompted, RunCommand, RunMcp, McpAnswers, McpCloses, McpTimesOut,
         Returns, RunRead, RunEdit, EditWrites, EditFails, RunWrite, Fails, Run, Over
<1> SUFFICES Goal
  BY <1>0, <1>2
<1>3. Outcome \in Over /\ (Outcome = "dropped" => ~live)
  BY DEF Outcome, Over
<1>4. ASSUME NEW s \in {"checking", "calling"} \cup Over,
             calls' = Goes(i, s), s = "dropped" => ~live
      PROVE  Goal
  <2> DEFINE c == [calls[i] EXCEPT !.at = s]
  <2>1. c \in Record /\ c.at = s /\ c.id = calls[i].id /\ c.duplicate = calls[i].duplicate
    BY <1>1 DEF Record, Early, Over
  <2>2. calls' = [calls EXCEPT ![i] = c]
    BY <1>4 DEF Goes
  <2> HIDE DEF c
  <2>3. QED
    BY <1>0, <1>4, <2>1, <2>2, OneStays
<1> HIDE DEF Goal
<1>5. CASE Look(i)
  <2>1. PICK s \in {"checking"} \cup {Outcome} : calls' = Goes(i, s)
    BY <1>5 DEF Look
  <2>2. s \in {"checking", "calling"} \cup Over /\ (s = "dropped" => ~live)
    BY <1>3, <2>1
  <2>3. QED
    BY <1>4, <2>1, <2>2
<1>6. CASE Gate(i) /\ ~Known(calls[i].tool)
  BY <1>3, <1>4, <1>6 DEF Gate
<1>7. CASE Gate(i) /\ Known(calls[i].tool)
  <2> DEFINE s == IF Check(calls[i]) = "allow" THEN "running" ELSE "prompting"
             k == IF calls[i].tool \in McpTool THEN registry[calls[i].tool] ELSE calls[i].client
             c == [calls[i] EXCEPT !.at = s, !.client = k]
  <2>1. k \in Client
    BY <1>1 DEF McpInv, McpTypeOK, Record
  <2>2. c \in Record /\ c.at # "dropped" /\ c.id = calls[i].id /\ c.duplicate = calls[i].duplicate
    BY <1>1, <2>1 DEF Record, Early
  <2>3. calls' = [calls EXCEPT ![i] = c]
    BY <1>7 DEF Gate
  <2> HIDE DEF c
  <2>4. QED
    BY <2>2, <2>3, OneStays, <1>0 DEF Goal
<1>8. CASE \E a \in {"approve", "deny"} : Prompted(i, a)
  <2>1. PICK a \in {"approve", "deny"} : Prompted(i, a)
    BY <1>8
  <2> DEFINE s == IF a = "approve" THEN "running" ELSE Outcome
             c == [calls[i] EXCEPT !.at = s, !.answer = a]
  <2>2. s \in {"running"} \cup Over /\ (s = "dropped" => ~live)
    BY <1>3 DEF Over
  <2>3. calls' = [calls EXCEPT ![i] = c]
    BY <2>1 DEF Prompted
  <2> HIDE DEF s
  <2>4. c \in Record /\ c.at = s /\ c.id = calls[i].id /\ c.duplicate = calls[i].duplicate
    BY <1>1, <2>2 DEF Record
  <2> HIDE DEF c
  <2>5. QED
    BY <2>2, <2>3, <2>4, OneStays, <1>0 DEF Goal
<1>9. CASE RunCommand(i) \/ RunMcp(i) \/ RunRead(i) \/ Fails(i)
  <2>1. PICK s \in {"calling"} \cup {Outcome} : calls' = Goes(i, s)
    BY <1>9 DEF RunCommand, RunMcp, RunRead, Fails
  <2>2. s \in {"checking", "calling"} \cup Over /\ (s = "dropped" => ~live)
    BY <1>3, <2>1
  <2>3. QED
    BY <1>4, <2>1, <2>2
<1>10. CASE Returns(i) \/ EditWrites(i) \/ EditFails(i)
  <2> DEFINE Over4(k, b, e) ==
                 [calls[i] EXCEPT !.at = Outcome, !.client = k, !.base = b, !.edited = e]
  <2>1. ASSUME NEW k \in Client, NEW b \in SUBSET Nat, NEW e \in BOOLEAN
        PROVE  /\ Over4(k, b, e) \in Record /\ Over4(k, b, e).at = Outcome
               /\ Over4(k, b, e).id = calls[i].id
               /\ Over4(k, b, e).duplicate = calls[i].duplicate
    BY <1>1, <1>3 DEF Record
  <2>2. /\ calls[i] \in Record /\ calls[i].client \in Client /\ calls[i].base \in SUBSET Nat
        /\ calls[i].edited \in BOOLEAN /\ Nothing \in Client
    BY <1>1 DEF Record, Client
  <2>3. CASE Returns(i)
    <3> DEFINE c == Over4(Nothing, calls[i].base, calls[i].edited)
    <3>1. [calls[i] EXCEPT !.at = Outcome, !.client = Nothing] = c
      BY <2>2 DEF Record
    <3>2. calls' = [calls EXCEPT ![i] = c]
      BY <2>3, <3>1 DEF Returns
    <3>3. c \in Record /\ c.at = Outcome /\ c.id = calls[i].id /\ c.duplicate = calls[i].duplicate
      BY <2>1, <2>2, ZenonT(30)
    <3> HIDE DEF c
    <3>4. QED
      BY <1>3, <3>2, <3>3, OneStays, <1>0 DEF Goal
  <2>4. CASE EditWrites(i)
    <3> DEFINE c == Over4(calls[i].client, {}, TRUE)
    <3>1. [calls[i] EXCEPT !.at = Outcome, !.edited = TRUE, !.base = {}] = c
      BY <2>2 DEF Record
    <3>2. calls' = [calls EXCEPT ![i] = c]
      BY <2>4, <3>1 DEF EditWrites
    <3>3. c \in Record /\ c.at = Outcome /\ c.id = calls[i].id /\ c.duplicate = calls[i].duplicate
      BY <2>1, <2>2
    <3> HIDE DEF c
    <3>4. QED
      BY <1>3, <3>2, <3>3, OneStays, <1>0 DEF Goal
  <2>5. CASE EditFails(i)
    <3> DEFINE c == Over4(calls[i].client, {}, calls[i].edited)
    <3>1. [calls[i] EXCEPT !.at = Outcome, !.base = {}] = c
      BY <2>2 DEF Record
    <3>2. calls' = [calls EXCEPT ![i] = c]
      BY <2>5, <3>1 DEF EditFails
    <3>3. c \in Record /\ c.at = Outcome /\ c.id = calls[i].id /\ c.duplicate = calls[i].duplicate
      BY <2>1, <2>2, ZenonT(30)
    <3> HIDE DEF c
    <3>4. QED
      BY <1>3, <3>2, <3>3, OneStays, <1>0 DEF Goal
  <2>6. QED
    BY <1>10, <2>3, <2>4, <2>5
<1>11. CASE RunEdit(i) /\ ~tracked
  BY <1>3, <1>4, <1>11 DEF RunEdit
<1>12. CASE RunEdit(i) /\ tracked
  <2> DEFINE open == {j \in Calls : calls[j].at = "editing"}
             own == [calls[i] EXCEPT !.at = "editing", !.base = content, !.raced = open # {}]
             other(j) == [calls[j] EXCEPT !.raced = @ \/ j \in open]
  <2>1. calls' = [j \in Calls |-> IF j = i THEN own ELSE other(j)]
    BY <1>12 DEF RunEdit
  <2>2. own.id = calls[i].id /\ own.duplicate = calls[i].duplicate /\ own.at # "dropped"
    BY <1>1 DEF Record
  <2>3. ASSUME NEW j \in Calls
        PROVE  other(j).id = calls[j].id /\ other(j).duplicate = calls[j].duplicate
               /\ other(j).at = calls[j].at
    BY <1>1 DEF Record
  <2> HIDE DEF own, other
  <2>4. Calls' = Calls
    BY <2>1 DEF Calls
  <2>5. \A j \in Calls : calls'[j] = IF j = i THEN own ELSE other(j)
    BY <2>1
  <2>6. QED
    BY <1>0, <2>2, <2>3, <2>4, <2>5 DEF Goal, Stays
<1>13. CASE RunWrite(i)
  <2> DEFINE own == [calls[i] EXCEPT !.at = Outcome]
             other(j) == [calls[j] EXCEPT !.raced = TRUE]
  <2>1. calls' = [j \in Calls |-> IF j = i THEN own ELSE other(j)]
    BY <1>13 DEF RunWrite
  <2>2. own.id = calls[i].id /\ own.duplicate = calls[i].duplicate /\ own.at = Outcome
    BY <1>1 DEF Record
  <2>3. ASSUME NEW j \in Calls
        PROVE  other(j).id = calls[j].id /\ other(j).duplicate = calls[j].duplicate
               /\ other(j).at = calls[j].at
    BY <1>1 DEF Record
  <2> HIDE DEF own, other
  <2>4. Calls' = Calls
    BY <2>1 DEF Calls
  <2>5. \A j \in Calls : calls'[j] = IF j = i THEN own ELSE other(j)
    BY <2>1
  <2>6. QED
    BY <1>0, <1>3, <2>2, <2>3, <2>4, <2>5 DEF Goal, Stays
<1>14. QED
  BY <1>5, <1>6, <1>7, <1>8, <1>9, <1>10, <1>11, <1>12, <1>13
     DEF CallStep, McpAnswers, McpCloses, McpTimesOut

(* Where no call is announced, the memory stands.                          *)
LEMMA MemoryStands ==
    ASSUME Memory, CallInv, Calls' = Calls, seenRing' = seenRing, live' => live,
           \A j \in Calls : Stays(calls[j], calls'[j])
    PROVE  Memory'
<1>1. RingOK'
  BY DEF Memory, RingOK
<1>2. \A j \in Calls : calls'[j].id = calls[j].id /\ calls'[j].duplicate = calls[j].duplicate
  BY DEF Stays
<1>3. RingFollows'
  BY <1>2 DEF Memory, RingFollows, Later
<1>4. IdsRunOnce'
  <2> SUFFICES ASSUME NEW m \in Calls, NEW n \in Calls, ~calls'[m].duplicate,
                      ~calls'[n].duplicate, m < n, calls'[m].id = calls'[n].id
               PROVE  Cardinality({calls'[k].id : k \in m + 1 .. n - 1} \ {calls'[n].id})
                          >= SeenCapacity
    BY DEF IdsRunOnce
  <2>1. Calls = 1 .. Len(calls) /\ Len(calls) \in Nat
    BY DEF Calls, CallInv, CallTypeOK
  <2>2. \A k \in m + 1 .. n - 1 : calls'[k].id = calls[k].id
    BY <1>2, <2>1
  <2>3. {calls'[k].id : k \in m + 1 .. n - 1} = {calls[k].id : k \in m + 1 .. n - 1}
    BY <2>2
  <2>4. Cardinality({calls[k].id : k \in m + 1 .. n - 1} \ {calls[n].id}) >= SeenCapacity
    BY <1>2 DEF Memory, IdsRunOnce
  <2>5. QED
    BY <1>2, <2>3, <2>4
<1>5. CallsAreAnswered'
  BY DEF Memory, CallsAreAnswered, Stays
<1>6. QED
  BY <1>1, <1>3, <1>4, <1>5 DEF Memory

(* What the ring becomes when an id is remembered: the id stands last, and *)
(* if the ring was full its head is gone.                                  *)
LEMMA RingGains ==
    ASSUME RingOK, NEW id \in Id, id \notin ToSet(seenRing)
    PROVE  LET new == Remembered(seenRing, id)
               d   == IF Len(seenRing) = SeenCapacity THEN 1 ELSE 0
           IN  /\ new \in Seq(Id) /\ Len(new) = Len(seenRing) + 1 - d
               /\ new[Len(new)] = id
               /\ \A p \in 1 .. Len(new) - 1 : p + d \in 1 .. Len(seenRing)
                                               /\ new[p] = seenRing[p + d]
               /\ \A p \in 1 .. Len(seenRing) : seenRing[p] # id
<1> DEFINE longer == Append(seenRing, id)
<1>1. SeenCapacity \in Nat \ {0} /\ Len(seenRing) \in Nat /\ Len(seenRing) <= SeenCapacity
  BY ToolAssumption DEF RingOK
<1>2. /\ longer \in Seq(Id) /\ Len(longer) = Len(seenRing) + 1
      /\ longer[Len(seenRing) + 1] = id
      /\ \A p \in 1 .. Len(seenRing) : longer[p] = seenRing[p]
  BY AppendProperties DEF RingOK
<1>3. \A p \in 1 .. Len(seenRing) : seenRing[p] # id
  BY DEF ToSet, RingOK
<1> HIDE DEF longer
<1>4. CASE Len(seenRing) = SeenCapacity
  <2>1. Remembered(seenRing, id) = Tail(longer)
    BY <1>1, <1>2, <1>4 DEF Remembered, longer
  <2>2. longer # << >>
    BY <1>1, <1>2
  <2>3. /\ Tail(longer) \in Seq(Id) /\ Len(Tail(longer)) = Len(longer) - 1
        /\ \A p \in 1 .. Len(Tail(longer)) : Tail(longer)[p] = longer[p + 1]
    BY <1>2, <2>2, HeadTailProperties
  <2>4. QED
    BY <1>1, <1>2, <1>3, <1>4, <2>1, <2>3
<1>5. CASE Len(seenRing) # SeenCapacity
  <2>1. Remembered(seenRing, id) = longer
    BY <1>1, <1>2, <1>5 DEF Remembered, longer
  <2>2. QED
    BY <1>1, <1>2, <1>3, <1>5, <2>1
<1>6. QED
  BY <1>4, <1>5

(* The ring's ids, all announced between two calls, are enough of them     *)
(* (tool_dispatcher.go: seenCapacity).                                     *)
LEMMA RingFillsTheGap ==
    ASSUME RingOK, Len(seenRing) = SeenCapacity, NEW m \in Nat, NEW n \in Nat, NEW id,
           \A p \in 1 .. Len(seenRing) :
               seenRing[p] # id /\ \E k \in m + 1 .. n - 1 : calls[k].id = seenRing[p]
    PROVE  Cardinality({calls[k].id : k \in m + 1 .. n - 1} \ {id}) >= SeenCapacity
<1> DEFINE K == m + 1 .. n - 1
           between == {calls[k].id : k \in K}
           others == between \ {id}
           f == [k \in K |-> calls[k].id]
           R == 1 .. Len(seenRing)
<1>1. SeenCapacity \in Nat
  BY ToolAssumption
<1>2. IsFiniteSet(K)
  BY FS_Interval
<1>3. f \in Surjection(K, between)
  BY DEF Surjection
<1>4. IsFiniteSet(between)
  <2> HIDE DEF f, between, K
  <2>1. QED
    BY <1>2, <1>3, FS_Surjection
<1>5. IsFiniteSet(others)
  <2> HIDE DEF between
  <2>1. QED
    BY <1>4, FS_Subset
<1>6. seenRing \in Injection(R, others)
  <2>1. seenRing \in [R -> Id]
    BY DEF RingOK
  <2>2. \A p \in R : seenRing[p] \in others
    OBVIOUS
  <2>3. \A p, q \in R : seenRing[p] = seenRing[q] => p = q
    BY DEF RingOK
  <2> HIDE DEF R, others
  <2>4. seenRing \in [R -> others]
    BY <2>1, <2>2
  <2>5. QED
    BY <2>3, <2>4 DEF Injection, IsInjective
<1>7. Cardinality(R) = SeenCapacity
  BY <1>1, FS_Interval
<1> HIDE DEF R, others
<1>8. Cardinality(R) <= Cardinality(others)
  BY <1>5, <1>6, FS_Injection
<1>9. Cardinality(others) \in Nat
  BY <1>5, FS_CardinalityType
<1>10. Cardinality(others) >= SeenCapacity
  BY <1>1, <1>7, <1>8, <1>9
<1>11. QED
  BY <1>10 DEF others

(* An announced call is remembered behind all the others, or is answered   *)
(* as a duplicate (tool_dispatcher.go: HandleEvent).                       *)
LEMMA ToolCallRemembers ==
    ASSUME Memory, CallInv, NEW id \in Id, NEW t \in Tool, NEW in \in Inputs(t),
           ToolCall(id, t, in)
    PROVE  Memory'
<1> DEFINE d == id \in ToSet(seenRing)
           c == Call(id, t, in, d)
           last == Len(calls) + 1
<1>1. calls' = Append(calls, c) /\ d \in BOOLEAN /\ live' = live /\ live
      /\ seenRing' = IF d THEN seenRing ELSE Remembered(seenRing, id)
  BY DEF ToolCall
<1> HIDE DEF d
<1>2. c \in Record /\ c.id = id /\ c.duplicate = d /\ c.at # "dropped"
  BY <1>1, OutcomeIsOver DEF Call, Record, Inputs, Client, Early, Outcome
<1> HIDE DEF c
<1>3. /\ Calls = 1 .. Len(calls) /\ Calls' = 1 .. last /\ Len(calls) \in Nat
      /\ \A j \in Calls : calls'[j] = calls[j]
      /\ calls'[last] = c
  BY <1>1, <1>2, AppendProperties DEF CallInv, CallTypeOK, Calls
<1>4. Calls' = Calls \cup {last} /\ last \notin Calls /\ \A j \in Calls : j < last
  BY <1>3
<1> HIDE DEF last
<1>5. CallsAreAnswered'
  BY <1>1, <1>2, <1>3, <1>4 DEF Memory, CallsAreAnswered
<1>6. \A m \in Calls, i \in Id : Later(m, i) => Later(m, i)'
  BY <1>3, <1>4 DEF Later
<1>7. \A m \in Calls : Later(m, id)'
  BY <1>2, <1>3, <1>4 DEF Later
<1>8. ASSUME NEW m \in Calls, NEW n \in Calls, m < n
      PROVE  {calls'[k].id : k \in m + 1 .. n - 1} = {calls[k].id : k \in m + 1 .. n - 1}
  <2>1. \A k \in m + 1 .. n - 1 : calls'[k] = calls[k]
    BY <1>3
  <2>2. QED
    BY <2>1
<1>9. ASSUME NEW m \in Calls, NEW n \in Calls, ~calls'[m].duplicate, ~calls'[n].duplicate,
             m < n, calls'[m].id = calls'[n].id
      PROVE  Cardinality({calls'[k].id : k \in m + 1 .. n - 1} \ {calls'[n].id}) >= SeenCapacity
  BY <1>3, <1>8, <1>9 DEF Memory, IdsRunOnce
<1>10. CASE d
  <2>1. RingOK' /\ seenRing' = seenRing
    BY <1>1, <1>10 DEF Memory, RingOK
  <2>2. \A j \in Calls' : ~calls'[j].duplicate => j \in Calls
    BY <1>2, <1>3, <1>4, <1>10
  <2>3. \A p \in 1 .. Len(seenRing) : seenRing[p] \in Id
    BY DEF Memory, RingOK
  <2>4. RingFollows'
    BY <1>3, <1>6, <2>1, <2>2, <2>3, SMTT(30) DEF Memory, RingFollows
  <2>5. IdsRunOnce'
    BY <1>9, <2>2 DEF IdsRunOnce
  <2>6. QED
    BY <1>5, <2>1, <2>4, <2>5 DEF Memory
<1>11. CASE ~d
  <2> DEFINE new == Remembered(seenRing, id)
             e == IF Len(seenRing) = SeenCapacity THEN 1 ELSE 0
  <2>1. id \notin ToSet(seenRing) /\ seenRing' = new
    BY <1>1, <1>11 DEF d
  <2>2. /\ new \in Seq(Id) /\ Len(new) = Len(seenRing) + 1 - e
        /\ new[Len(new)] = id
        /\ \A p \in 1 .. Len(new) - 1 : p + e \in 1 .. Len(seenRing)
                                        /\ new[p] = seenRing[p + e]
        /\ \A p \in 1 .. Len(seenRing) : seenRing[p] # id
    BY <2>1, RingGains DEF Memory
  <2>3. /\ SeenCapacity \in Nat \ {0} /\ Len(seenRing) \in Nat /\ Len(seenRing) <= SeenCapacity
        /\ seenRing \in Seq(Id)
    BY ToolAssumption DEF Memory, RingOK
  <2> HIDE DEF new
  <2>4. /\ e \in {0, 1} /\ Len(new) \in Nat /\ Len(new) <= SeenCapacity /\ Len(new) >= 1
        /\ e = 1 => Len(new) = SeenCapacity /\ Len(seenRing) = SeenCapacity
    BY <2>2, <2>3
  <2>5. e = 0 => Len(seenRing) # SeenCapacity /\ Len(new) = Len(seenRing) + 1
    BY <2>2, <2>3
  <2> HIDE DEF e
  <2>a. \A q \in 1 .. Len(new) : q # Len(new) => q \in 1 .. Len(new) - 1
    BY <2>4
  <2>b. \A q \in 1 .. Len(new) : q # Len(new) => new[q] # id
    BY <2>2, <2>a
  <2>6. RingOK'
    <3>1. \A p, q \in 1 .. Len(new) : new[p] = new[q] => p = q
      <4> SUFFICES ASSUME NEW p \in 1 .. Len(new), NEW q \in 1 .. Len(new), new[p] = new[q]
                   PROVE  p = q
        OBVIOUS
      <4>1. CASE p = Len(new) \/ q = Len(new)
        BY <2>2, <2>b, <4>1
      <4>2. CASE p # Len(new) /\ q # Len(new)
        <5>1. p \in 1 .. Len(new) - 1 /\ q \in 1 .. Len(new) - 1
          BY <2>a, <4>2
        <5>2. seenRing[p + e] = seenRing[q + e]
          BY <2>2, <5>1
        <5>3. p + e = q + e
          BY <2>2, <5>1, <5>2 DEF Memory, RingOK
        <5>4. QED
          BY <2>4, <5>1, <5>3
      <4>3. QED
        BY <4>1, <4>2
    <3>2. QED
      BY <2>1, <2>2, <2>4, <3>1 DEF RingOK
  <2>7. ASSUME NEW m \in Calls, ~calls[m].duplicate,
               NEW q \in 1 .. Len(new), q = Len(new) \/ Later(m, seenRing[q + e])
        PROVE  \E n \in Calls' : m < n /\ calls'[n].id = new[q]
    <3>1. CASE q = Len(new)
      <4>1. calls'[last].id = new[q]
        BY <1>2, <1>3, <2>2, <3>1
      <4>2. last \in Calls' /\ m < last
        BY <1>4
      <4>3. QED
        BY <4>1, <4>2
    <3>2. CASE q # Len(new)
      <4>1. new[q] = seenRing[q + e]
        <5>1. q \in 1 .. Len(new) - 1
          BY <2>a, <3>2
        <5>2. QED
          BY <2>2, <5>1
      <4>2. PICK n \in Calls : m < n /\ calls[n].id = seenRing[q + e]
        BY <2>7, <3>2 DEF Later
      <4>3. n \in Calls' /\ calls'[n].id = new[q]
        BY <1>3, <1>4, <4>1, <4>2
      <4>4. QED
        BY <4>2, <4>3
    <3>3. QED
      BY <3>1, <3>2
  <2>8. ASSUME NEW m \in Calls, ~calls[m].duplicate,
               NEW p \in 1 .. Len(new), NEW q \in 1 .. Len(new),
               new[p] = calls[m].id, p < q
        PROVE  \E n \in Calls' : m < n /\ calls'[n].id = new[q]
    <3>1. p + e \in 1 .. Len(seenRing) /\ seenRing[p + e] = calls[m].id
      BY <2>2, <2>4, <2>8
    <3>2. q = Len(new) \/ (q + e \in 1 .. Len(seenRing) /\ p + e < q + e)
      <4>1. q = Len(new) \/ q \in 1 .. Len(new) - 1
        BY <2>a
      <4>2. q = Len(new) \/ q + e \in 1 .. Len(seenRing)
        BY <2>2, <4>1
      <4>3. p + e < q + e
        BY <2>4, <2>8
      <4>4. QED
        BY <4>2, <4>3
    <3>3. q = Len(new) \/ Later(m, seenRing[q + e])
      BY <2>8, <3>1, <3>2 DEF Memory, RingFollows
    <3>4. QED
      BY <2>7, <2>8, <3>3
  <2>9. ASSUME NEW m \in Calls, ~calls[m].duplicate,
               \A p \in 1 .. Len(new) : new[p] # calls[m].id
        PROVE  /\ Len(new) = SeenCapacity
               /\ \A q \in 1 .. Len(new) : \E n \in Calls' : m < n /\ calls'[n].id = new[q]
    <3>1. CASE \A p \in 1 .. Len(seenRing) : seenRing[p] # calls[m].id
      <4>1. /\ Len(seenRing) = SeenCapacity
            /\ \A q \in 1 .. Len(seenRing) : Later(m, seenRing[q])
        BY <2>9, <3>1 DEF Memory, RingFollows
      <4>2. e = 1
        BY <2>4, <2>5, <4>1
      <4>3. \A q \in 1 .. Len(new) : q = Len(new) \/ Later(m, seenRing[q + e])
        BY <2>2, <2>a, <4>1
      <4>4. QED
        BY <2>4, <2>7, <2>9, <4>2, <4>3
    <3>2. CASE \E p \in 1 .. Len(seenRing) : seenRing[p] = calls[m].id
      <4>1. PICK p \in 1 .. Len(seenRing) : seenRing[p] = calls[m].id
        BY <3>2
      <4>2. e = 1 /\ p = 1
        <5>1. CASE p - e \in 1 .. Len(new) - 1
          <6>1. new[p - e] = seenRing[(p - e) + e]
            BY <2>2, <5>1
          <6>2. (p - e) + e = p
            BY <2>4
          <6>3. p - e \in 1 .. Len(new)
            BY <2>4, <5>1
          <6>4. QED
            BY <2>9, <4>1, <6>1, <6>2, <6>3
        <5>2. CASE p - e \notin 1 .. Len(new) - 1
          BY <2>2, <2>3, <2>4, <2>5, <5>2
        <5>3. QED
          BY <5>1, <5>2
      <4>3. \A q \in 1 .. Len(new) : q = Len(new) \/ (q + 1 \in 1 .. Len(seenRing) /\ 1 < q + 1)
        BY <2>2, <2>4, <4>2
      <4>4. \A q \in 1 .. Len(new) : q = Len(new) \/ Later(m, seenRing[q + e])
        BY <2>3, <2>9, <4>1, <4>2, <4>3 DEF Memory, RingFollows
      <4>5. QED
        BY <2>4, <2>7, <2>9, <4>2, <4>4
    <3>3. QED
      BY <3>1, <3>2
  <2>10. \A p, q \in 1 .. Len(new) : p < q => p # Len(new)
    BY <2>4
  <2>11. RingFollows'
    <3>1. \A m \in Calls' : ~calls'[m].duplicate => m \in Calls \/ m = last
      BY <1>4
    <3>2. ASSUME NEW m \in Calls, ~calls'[m].duplicate
          PROVE  /\ \A p, q \in 1 .. Len(new) : new[p] = calls'[m].id /\ p < q =>
                        \E n \in Calls' : m < n /\ calls'[n].id = new[q]
                 /\ (\A p \in 1 .. Len(new) : new[p] # calls'[m].id) =>
                        /\ Len(new) = SeenCapacity
                        /\ \A q \in 1 .. Len(new) :
                               \E n \in Calls' : m < n /\ calls'[n].id = new[q]
      BY <1>3, <2>8, <2>9, <3>2
    <3>3. /\ \A p, q \in 1 .. Len(new) : ~(new[p] = calls'[last].id /\ p < q)
          /\ ~\A p \in 1 .. Len(new) : new[p] # calls'[last].id
      BY <1>2, <1>3, <2>2, <2>4, <2>b, <2>10
    <3>4. QED
      BY <2>1, <3>1, <3>2, <3>3 DEF RingFollows, Later
  <2>12. ASSUME NEW m \in Calls, ~calls[m].duplicate, calls[m].id = id
         PROVE  Cardinality({calls[k].id : k \in m + 1 .. last - 1} \ {id}) >= SeenCapacity
    <3>1. Len(seenRing) = SeenCapacity /\ \A q \in 1 .. Len(seenRing) : Later(m, seenRing[q])
      BY <2>2, <2>12 DEF Memory, RingFollows
    <3>2. m \in Nat /\ last \in Nat /\ \A n \in Calls : m < n => n \in m + 1 .. last - 1
      BY <1>3 DEF last
    <3>3. \A p \in 1 .. Len(seenRing) :
              seenRing[p] # id /\ \E k \in m + 1 .. last - 1 : calls[k].id = seenRing[p]
      BY <2>2, <3>1, <3>2 DEF Later
    <3>4. QED
      BY <3>1, <3>2, <3>3, RingFillsTheGap DEF Memory
  <2>13. ASSUME NEW m \in Calls
         PROVE  {calls'[k].id : k \in m + 1 .. last - 1} = {calls[k].id : k \in m + 1 .. last - 1}
    <3>1. \A k \in m + 1 .. last - 1 : calls'[k] = calls[k]
      BY <1>3 DEF last
    <3>2. QED
      BY <3>1
  <2>14. IdsRunOnce'
    <3> SUFFICES ASSUME NEW m \in Calls', NEW n \in Calls', ~calls'[m].duplicate,
                        ~calls'[n].duplicate, m < n, calls'[m].id = calls'[n].id
                 PROVE  Cardinality({calls'[k].id : k \in m + 1 .. n - 1} \ {calls'[n].id})
                            >= SeenCapacity
      BY DEF IdsRunOnce
    <3>1. m \in Calls /\ (n \in Calls \/ n = last)
      BY <1>3, <1>4
    <3>2. CASE n \in Calls
      BY <1>9, <3>1, <3>2
    <3>3. CASE n = last
      BY <1>2, <1>3, <2>12, <2>13, <3>1, <3>3
    <3>4. QED
      BY <3>1, <3>2, <3>3
  <2>15. QED
    BY <1>5, <2>6, <2>11, <2>14 DEF Memory
<1>12. QED
  BY <1>10, <1>11

-----------------------------------------------------------------------------
(* Theorems *)

IInv == McpInv /\ CallInv

\* No call was announced and the manager is empty at the start.
LEMMA Initially == Init => IInv
<1> SUFFICES ASSUME Init PROVE IInv
  OBVIOUS
<1>1. McpInv
  BY McpInitially DEF Init
<1>2. Calls = {} /\ calls \in Seq(Record)
  BY DEF Init, Calls
<1>3. CallInv
  BY <1>2 DEF Init, CallInv, CallTypeOK, Approvals, Edits
<1>4. QED
  BY <1>1, <1>3 DEF IInv

(* Every step of a call leaves the manager alone, and every other step     *)
(* leaves the calls alone.                                                 *)
LEMMA Stepwise == IInv /\ [Next]_vars => IInv'
<1> SUFFICES ASSUME IInv, [Next]_vars PROVE IInv'
  OBVIOUS
<1>1. McpInv /\ CallInv
  BY DEF IInv
<1>2. CASE \E i \in Calls : CallStep(i)
  <2>1. PICK i \in Calls : CallStep(i)
    BY <1>2
  <2>2. UNCHANGED mcpVars
    BY <2>1 DEF CallStep, Look, Gate, Prompted, RunCommand, RunMcp, McpAnswers, McpCloses,
                McpTimesOut, Returns, RunRead, RunEdit, EditWrites, EditFails, RunWrite, Fails, rest
  <2>3. McpInv'
    BY <1>1, <2>2, McpStep
  <2>4. CallInv'
    <3>1. CASE Look(i)
      BY <1>1, <3>1, LookKeeps
    <3>2. CASE Gate(i)
      BY <1>1, <3>2, GateKeeps
    <3>3. CASE \E a \in {"approve", "deny"} : Prompted(i, a)
      BY <1>1, <3>3, PromptedKeeps
    <3>4. CASE RunCommand(i) \/ RunMcp(i) \/ RunRead(i) \/ Fails(i)
      BY <1>1, <3>4, RunsKeep
    <3>5. CASE McpAnswers(i) \/ McpCloses(i) \/ McpTimesOut(i)
      BY <1>1, <3>5, ReturnsKeeps DEF McpAnswers, McpCloses, McpTimesOut
    <3>6. CASE RunEdit(i)
      BY <1>1, <3>6, RunEditKeeps
    <3>7. CASE EditWrites(i)
      BY <1>1, <3>7, EditWritesKeeps
    <3>8. CASE EditFails(i)
      BY <1>1, <3>8, EditFailsKeeps
    <3>9. CASE RunWrite(i)
      BY <1>1, <3>9, RunWriteKeeps
    <3>10. QED
      BY <2>1, <3>1, <3>2, <3>3, <3>4, <3>5, <3>6, <3>7, <3>8, <3>9 DEF CallStep
  <2>5. QED
    BY <2>3, <2>4 DEF IInv
<1>3. CASE \E id \in Id, t \in Tool : \E in \in Inputs(t) : ToolCall(id, t, in)
  <2>1. UNCHANGED mcpVars
    BY <1>3 DEF ToolCall
  <2>2. QED
    BY <1>1, <1>3, <2>1, McpStep, ToolCallKeeps DEF IInv
<1>4. CASE UNCHANGED <<calls, approved, content, executed>> /\ [McpNext]_mcpVars
  <2>1. CallInv'
    BY <1>1, <1>4 DEF CallInv, CallTypeOK, Approvals, Edits, Calls, Gated, IsGitRead
  <2>2. QED
    BY <1>1, <1>4, <2>1, McpStep DEF IInv
<1>5. CASE ServerOfTools
  BY <1>4, <1>5 DEF ServerOfTools, toolVars
<1>6. CASE ConnectionLost \/ \E m \in Mode : SetMode(m)
  BY <1>4, <1>6 DEF ConnectionLost, SetMode
<1>7. CASE UNCHANGED vars
  BY <1>4, <1>7 DEF vars, toolVars
<1>8. QED
  BY <1>2, <1>3, <1>5, <1>6, <1>7 DEF Next

\* The inductive invariant of the calls, the gate, the file and the MCP manager.
THEOREM ToolInvariance == Spec => []IInv
<1>1. Init => IInv
  BY Initially
<1>2. IInv /\ [Next]_vars => IInv'
  BY Stepwise
<1>3. QED
  BY <1>1, <1>2, PTL DEF Spec

\* What plan mode has queued is never started (HandleToolCall).
LEMMA PlanStepwise == PlanHeld /\ IInv /\ [Next]_vars => PlanHeld'
<1> SUFFICES ASSUME PlanHeld, IInv, [Next]_vars PROVE PlanHeld'
  OBVIOUS
<1>1. McpInv /\ CallInv
  BY DEF IInv
<1>2. ASSUME NEW i \in Calls, CallStep(i)
      PROVE  PlanHeld'
  <2>1. /\ Calls' = Calls /\ \A j \in Calls : Stays(calls[j], calls'[j])
        /\ calls[i].at \notin Over
    BY <1>1, <1>2, CallStays
  <2>2. executed' = executed \/ executed' = executed \cup {i}
    BY <1>2 DEF CallStep, Look, Gate, Prompted, RunCommand, RunMcp, McpAnswers, McpCloses,
                McpTimesOut, Returns, RunRead, RunEdit, EditWrites, EditFails, RunWrite, Fails, Run, rest
  <2>3. CASE UNCHANGED plan
    BY <2>1, <2>2, <2>3 DEF PlanHeld, Stays
  <2>4. CASE plan' = plan \cup {i} /\ Look(i) /\ calls' = Goes(i, Outcome)
    <3>1. i \notin executed /\ executed' = executed
      BY <1>1, <2>4 DEF Look, CallInv, Approvals, Early
    <3> DEFINE c == [calls[i] EXCEPT !.at = Outcome]
    <3>2. calls[i] \in Record
      BY <1>1 DEF CallInv, CallTypeOK, Calls
    <3>3. c \in Record /\ c.at \in Over
      BY <3>2, OutcomeIsOver DEF Record, Over
    <3>4. calls' = [calls EXCEPT ![i] = c]
      BY <2>4 DEF Goes
    <3> HIDE DEF c
    <3>5. calls'[i].at \in Over
      <4>1. calls \in Seq(Record)
        BY <1>1 DEF CallInv, CallTypeOK
      <4>2. \A j \in Calls : calls'[j] = IF j = i THEN c ELSE calls[j]
        BY <3>3, <3>4, <4>1, OneCall
      <4>3. QED
        BY <3>3, <4>2
    <3>6. QED
      BY <2>1, <2>4, <3>1, <3>5 DEF PlanHeld, Stays
  <2>5. UNCHANGED plan \/ (plan' = plan \cup {i} /\ Look(i) /\ calls' = Goes(i, Outcome))
    BY <1>2 DEF CallStep, Look, Gate, Prompted, RunCommand, RunMcp, McpAnswers, McpCloses,
                McpTimesOut, Returns, RunRead, RunEdit, EditWrites, EditFails, RunWrite, Fails, rest
  <2>6. QED
    BY <2>3, <2>4, <2>5
<1>3. ASSUME NEW id \in Id, NEW t \in Tool, NEW in \in Inputs(t), ToolCall(id, t, in)
      PROVE  PlanHeld'
  <2> DEFINE c == Call(id, t, in, id \in ToSet(seenRing))
  <2>1. calls' = Append(calls, c) /\ UNCHANGED <<plan, executed>>
    BY <1>3 DEF ToolCall
  <2> HIDE DEF c
  <2>2. Calls = 1 .. Len(calls) /\ Calls' = 1 .. Len(calls) + 1 /\ \A j \in Calls : calls'[j] = calls[j]
    BY <1>1, <2>1 DEF CallInv, CallTypeOK, Calls
  <2>3. Len(calls) \in Nat
    BY <1>1 DEF CallInv, CallTypeOK
  <2>4. Calls \subseteq Calls'
    BY <2>2, <2>3
  <2>5. QED
    BY <2>1, <2>2, <2>4 DEF PlanHeld
<1>4. CASE ServerOfTools \/ ConnectionLost \/ (\E m \in Mode : SetMode(m)) \/ UNCHANGED vars
  BY <1>4 DEF ServerOfTools, ConnectionLost, SetMode, vars, toolVars, PlanHeld, Calls
<1>5. QED
  BY <1>2, <1>3, <1>4 DEF Next

\* tool_dispatcher.go, framework.go, permission.go: whatever the number and order of the
\* calls, none that was queued or denied is run, a dangerous command runs after an
\* approval of its own, and what else is not read-only after one of its tool.
THEOREM ApprovedBeforeRun == Spec => []RunsAreApproved
<1>1. IInv /\ PlanHeld => RunsAreApproved
  <2> SUFFICES ASSUME CallInv, PlanHeld, NEW i \in executed
               PROVE  /\ i \notin plan /\ calls[i].answer # "deny"
                      /\ calls[i].input = "danger" => calls[i].answer = "approve"
                      /\ Gated(calls[i]) =>
                             \E j \in Calls : calls[j].tool = calls[i].tool /\ calls[j].answer = "approve"
    BY DEF IInv, RunsAreApproved
  <2> QED
    BY DEF CallInv, CallTypeOK, Approvals, PlanHeld
<1>2. Init => PlanHeld
  BY DEF Init, PlanHeld
<1>3. QED
  BY <1>1, <1>2, PlanStepwise, ToolInvariance, PTL DEF Spec

\* edit.go: however many edits of a file overlap, one that had it for itself stays
\* until a Write replaces the file.
THEOREM LoneEditsStay == Spec => []EditsStay
<1>1. IInv => EditsStay
  BY DEF IInv, CallInv, Edits, EditsStay
<1>2. QED
  BY <1>1, ToolInvariance, PTL

\* mcp.go: for any number of overlapping launches and reconnects, the tools of the
\* server's entry are served by its own client, which is open.
THEOREM EntryServesItsTools == Spec => []ListedToolsAreServed
<1>1. IInv => ListedToolsAreServed
  BY DEF IInv, McpInv, McpOwned, ListedToolsAreServed
<1>2. QED
  BY <1>1, ToolInvariance, PTL

\* Nothing is remembered at the start (NewToolDispatcher).
LEMMA MemoryInitially == Init => Memory
<1> SUFFICES ASSUME Init PROVE Memory
  OBVIOUS
<1>1. Calls = {} /\ seenRing = <<>> /\ Len(seenRing) = 0
  BY DEF Init, Calls
<1>2. SeenCapacity \in Nat
  BY ToolAssumption
<1>3. QED
  BY <1>1, <1>2 DEF Memory, RingOK, RingFollows, IdsRunOnce, CallsAreAnswered

\* Only an announcement changes the memory; whatever else happens, it stands.
LEMMA MemoryStepwise == Memory /\ IInv /\ [Next]_vars => Memory'
<1> SUFFICES ASSUME Memory, IInv, [Next]_vars PROVE Memory'
  OBVIOUS
<1>1. McpInv /\ CallInv
  BY DEF IInv
<1>2. CASE \E i \in Calls : CallStep(i)
  <2>1. PICK i \in Calls : CallStep(i)
    BY <1>2
  <2>2. /\ Calls' = Calls /\ UNCHANGED <<seenRing, live>>
        /\ \A j \in Calls : Stays(calls[j], calls'[j])
    BY <1>1, <2>1, CallStays
  <2>3. QED
    BY <1>1, <2>2, MemoryStands
<1>3. CASE \E id \in Id, t \in Tool : \E in \in Inputs(t) : ToolCall(id, t, in)
  BY <1>1, <1>3, ToolCallRemembers
<1>4. CASE UNCHANGED <<calls, seenRing>> /\ (live' => live)
  <2>1. Calls' = Calls /\ \A j \in Calls : Stays(calls[j], calls'[j])
                       /\ (calls[j].at = "dropped" => ~live)
    BY <1>4 DEF Calls, Stays, Memory, CallsAreAnswered
  <2>2. QED
    BY <1>1, <1>4, <2>1, MemoryStands
<1>5. CASE ServerOfTools \/ ConnectionLost \/ (\E m \in Mode : SetMode(m)) \/ UNCHANGED vars
  BY <1>4, <1>5 DEF ServerOfTools, ConnectionLost, SetMode, vars, toolVars
<1>6. QED
  BY <1>2, <1>3, <1>5 DEF Next

\* The inductive invariant of the ring of ids: every id behind a call's own was
\* announced after it.
THEOREM MemoryInvariance == Spec => []Memory
<1>1. Init => Memory
  BY MemoryInitially
<1>2. Memory /\ IInv /\ [Next]_vars => Memory'
  BY MemoryStepwise
<1>3. QED
  BY <1>1, <1>2, ToolInvariance, PTL DEF Spec

\* tool_dispatcher.go (seenCapacity): for a memory of any size and any number of calls,
\* an id runs again only after as many others as the memory holds were announced.
THEOREM RepeatedIdsAreCaught == Spec => []IdsRunOnce
<1>1. Memory => IdsRunOnce
  BY DEF Memory
<1>2. QED
  BY <1>1, MemoryInvariance, PTL

\* tool_dispatcher.go, connection.go: while a client is connected every call that ends
\* is answered: refused, denied, failed, timed out or duplicate.
THEOREM EveryCallIsAnswered == Spec => []CallsAreAnswered
<1>1. Memory => CallsAreAnswered
  BY DEF Memory
<1>2. QED
  BY <1>1, MemoryInvariance, PTL
=============================================================================
