---------------------------- MODULE HostSession ----------------------------
(***************************************************************************)
(* The terminal host's idea of its session (runtimeState of                *)
(* internal/harnesshost production_runtime.go) beside the server's         *)
(* conversations: the session's id, the counter that numbers the turns     *)
(* the host submits, and the run it takes to be in flight.                 *)
(***************************************************************************)
EXTENDS Conversation

VARIABLES
    sid,        \* runtimeState.sessionID
    sequence,   \* runtimeState.sequence
    activeRun,  \* runtimeState.activeRunID: the turn that started it, 0 for none
    refused     \* history: a turn of the host was refused for its sequence

hostVars == <<vars, sid, sequence, activeRun, refused>>

HostInit ==
    /\ Init
    /\ sid = [c \in Client |-> None]
    /\ sequence = [c \in Client |-> 0]
    /\ activeRun = [c \in Client |-> 0]
    /\ refused = FALSE

-----------------------------------------------------------------------------

\* SubmitTurn numbers the turn before it is sent; a refused turn keeps its number.
HostSubmit(c) ==
    /\ sid[c] # None
    /\ sequence[c] < MaxMessages
    /\ sequence' = [sequence EXCEPT ![c] = @ + 1]
    /\ \/ SubmitAppended(c, sid[c], sequence'[c]) /\ UNCHANGED refused
       \/ SubmitRefused(c, sid[c], sequence'[c]) /\ refused' = TRUE
    /\ UNCHANGED <<sid, activeRun>>

\* The turn is accepted: its run is the active one.  Nothing else ends that but
\* /clear, /attach and /detach: not the end of the run.
HostSubmitted(c) ==
    /\ SubmitCreated(c)
    /\ activeRun' = IF relays' = relays THEN activeRun ELSE [activeRun EXCEPT ![c] = req[c].list[1].id]
    /\ UNCHANGED <<sid, sequence, refused>>

\* bootstrapSession, on every ConnStateReady: nothing if there is a session; else
\* the most recent one is resumed (any, here), or one is created.
Bootstrap(c) ==
    /\ sid[c] = None
    /\ \E s \in Session :
        \/ ResumeListed(c, s) /\ UNCHANGED sid
        \/ stored = {} /\ SessionCreate(c, s) /\ sid' = [sid EXCEPT ![c] = s]
    /\ UNCHANGED <<sequence, activeRun, refused>>

\* /sessions resume <id>
SlashResume(c) ==
    /\ \E s \in Session : ResumeListed(c, s)
    /\ UNCHANGED <<sid, sequence, activeRun, refused>>

HostResumed(c) ==
    /\ ResumeRestored(c)
    /\ sid' = [sid EXCEPT ![c] = req[c].session]
    /\ UNCHANGED <<sequence, activeRun, refused>>

\* /clear starts a new conversation, and is refused while there is an active run.
SlashClear(c) ==
    /\ activeRun[c] = 0
    /\ \E s \in Session :
        /\ SessionCreate(c, s)
        /\ sid' = [sid EXCEPT ![c] = s]
    /\ UNCHANGED <<sequence, activeRun, refused>>

\* /sessions clear: the conversation of the session is emptied.
SlashSessionClear(c) ==
    /\ sid[c] # None
    /\ SessionClear(c) /\ conv'[sid[c]] = NewConversation
    /\ UNCHANGED <<sid, sequence, activeRun, refused>>

SlashDetach(c) ==
    /\ activeRun[c] # 0
    /\ activeRun' = [activeRun EXCEPT ![c] = 0]
    /\ UNCHANGED <<vars, sid, sequence, refused>>

\* The tool dispatcher runs a tool as soon as its call is announced.
HostToolResult(c) ==
    /\ ToolResultMatched(c) \/ ToolResultRefused(c)
    /\ UNCHANGED <<sid, sequence, activeRun, refused>>

\* A new host process.
HostRestart(c) ==
    /\ Reconnect(c)
    /\ sid' = [sid EXCEPT ![c] = None]
    /\ sequence' = [sequence EXCEPT ![c] = 0]
    /\ activeRun' = [activeRun EXCEPT ![c] = 0]
    /\ UNCHANGED refused

HostNext ==
    /\ \/ \E c \in Client :
            \/ HostSubmit(c) \/ HostSubmitted(c)
            \/ Bootstrap(c) \/ SlashResume(c) \/ HostResumed(c)
            \/ SlashClear(c) \/ SlashSessionClear(c) \/ SlashDetach(c)
            \/ HostToolResult(c) \/ HostRestart(c)
            \/ (Fail(c) \/ Reconnect(c)) /\ UNCHANGED <<sid, sequence, activeRun, refused>>
       \/ ServerStep /\ UNCHANGED <<sid, sequence, activeRun, refused>>
    /\ Remember

HostSpec == HostInit /\ [][HostNext]_hostVars

-----------------------------------------------------------------------------
(* Properties *)

\* production_runtime.go: the host numbers the turns of a session as the server
\* counts them, so that a lone host's turn is never refused for its sequence.
\* (The counter is the process's and starts nowhere anew.)
SubmitsAreInSequence == ~refused
=============================================================================
