----------------------------- MODULE McpManager -----------------------------
(***************************************************************************)
(* The manager of one MCP server and the client it talks through           *)
(* (internal/harness/mcp.go, mcp_client.go), and the part of the tool      *)
(* registry it fills.  Every launch runs on a goroutine of its own, with a *)
(* process and a client of its own, and launches may overlap; a launch is  *)
(* named by its number, and so are its process and its client.             *)
(***************************************************************************)
EXTENDS Naturals, FiniteSets

CONSTANTS
    McpTool,      \* names of the tools the server lists
    MaxLaunches   \* bound: launches of the server

ASSUME McpAssumption == MaxLaunches \in Nat

Launch  == 1 .. MaxLaunches
Nothing == 0

VARIABLES
    entry,     \* the server's managedServer
    launches,  \* the goroutines of the launches
    alive,     \* processes that run
    closed,    \* clients that are closed
    registry   \* the client that serves a registered tool, or Nothing

mcpVars == <<entry, launches, alive, closed, registry>>

Stages == {"none", "asked", "starting", "listed", "ended"}
States == {"absent", "starting", "connected", "failed"}

\* managedServer: Nothing is a nil client, and a nil stop.
NewEntry == [state |-> "absent", client |-> Nothing, tools |-> {}]

McpInit ==
    /\ entry = NewEntry
    /\ launches = [i \in Launch |-> [at |-> "none", todo |-> {}, names |-> {}]]
    /\ alive = {} /\ closed = {}
    /\ registry = [t \in McpTool |-> Nothing]

NextLaunch(i) == launches[i].at = "none" /\ \A j \in 1 .. i - 1 : launches[j].at # "none"

\* Launch, before it takes the manager's lock.
Ask(i) == launches' = [launches EXCEPT ![i].at = "asked"]

LaunchServer(i) ==
    /\ NextLaunch(i)
    /\ Ask(i)
    /\ UNCHANGED <<entry, alive, closed, registry>>

\* setState
ShowStarting(i) ==
    /\ launches[i].at = "asked"
    /\ entry' = [entry EXCEPT !.state = "starting"]
    /\ launches' = [launches EXCEPT ![i].at = "starting"]
    /\ alive' = alive \cup {i}
    /\ UNCHANGED <<closed, registry>>

\* The process does not start, or initialize or tools/list fails: runOnce stops it
\* and closes the client.
LaunchFails(i) ==
    /\ launches[i].at = "starting"
    /\ launches' = [launches EXCEPT ![i].at = "ended"]
    /\ entry' = [entry EXCEPT !.state = "failed"]
    /\ alive' = alive \ {i} /\ closed' = closed \cup {i}
    /\ UNCHANGED registry

Listed(i) ==
    /\ launches[i].at = "starting"
    /\ launches' = [launches EXCEPT ![i] = [at |-> "listed", todo |-> McpTool, names |-> {}]]
    /\ UNCHANGED <<entry, alive, closed, registry>>

\* A mutant of RegisterTool: a name that is taken is counted among the server's.
RegisterToolAnyway(i, t) ==
    /\ launches[i].at = "listed" /\ t \in launches[i].todo
    /\ registry' = IF registry[t] = Nothing THEN [registry EXCEPT ![t] = i] ELSE registry
    /\ launches' = [launches EXCEPT ![i].todo = @ \ {t}, ![i].names = @ \cup {t}]
    /\ UNCHANGED <<entry, alive, closed>>

\* Registry.Register panics on a name that is taken; runOnce recovers and skips it.
RegisterTool(i, t) ==
    /\ launches[i].at = "listed" /\ t \in launches[i].todo
    /\ LET free == registry[t] = Nothing
       IN  /\ registry' = IF free THEN [registry EXCEPT ![t] = i] ELSE registry
           /\ launches' = [launches EXCEPT ![i].todo = @ \ {t},
                               ![i].names = IF free THEN @ \cup {t} ELSE @]
    /\ UNCHANGED <<entry, alive, closed>>

\* The process of the entry that is replaced is stopped; its client stays open and
\* its tools stay registered.
Install(i) ==
    /\ launches[i].at = "listed" /\ launches[i].todo = {}
    /\ launches' = [launches EXCEPT ![i].at = "ended"]
    /\ alive' = alive \ {entry.client}
    /\ entry' = [state |-> "connected", client |-> i, tools |-> launches[i].names]
    /\ UNCHANGED <<closed, registry>>

\* unwireLocked
Unwire ==
    /\ alive' = alive \ {entry.client}
    /\ closed' = closed \cup ({entry.client} \ {Nothing})
    /\ registry' = [t \in McpTool |-> IF t \in entry.tools THEN Nothing ELSE registry[t]]
    /\ entry' = [entry EXCEPT !.client = Nothing, !.tools = {}]

Reconnect(i) ==
    /\ entry.state # "absent"
    /\ NextLaunch(i)
    /\ Ask(i)
    /\ Unwire

ShutdownManager ==
    /\ entry.client # Nothing
    /\ Unwire
    /\ UNCHANGED launches

McpNext ==
    \/ ShutdownManager
    \/ \E i \in Launch :
        \/ LaunchServer(i) \/ ShowStarting(i) \/ LaunchFails(i) \/ Listed(i)
        \/ \E t \in McpTool : RegisterTool(i, t)
        \/ Install(i) \/ Reconnect(i)

\* mcp.go: a tool that the server's entry lists is registered, and the client that
\* serves it is the entry's own, however launches, reconnects and a shutdown overlap.
ListedToolsAreServed ==
    \A t \in entry.tools : registry[t] = entry.client /\ entry.client \notin closed
=============================================================================
