---------------------------- MODULE Conversation ----------------------------
(***************************************************************************)
(* The conversation of a session: the messages and the two counters that   *)
(* the server keeps in memory (internal/runtime conversation.go), the rows *)
(* of the turns table (internal/storage turns.go), and everything that     *)
(* writes either: turn.submit, the stream relays, tool.result,             *)
(* session.clear, session.resume, session.fork and compact.apply.          *)
(*                                                                         *)
(* A message is known by the order of its making and the sequence it was   *)
(* given; a turn of the model makes at most one tool call, known by the    *)
(* message of the turn.submit that started it.                             *)
(***************************************************************************)
EXTENDS Naturals, Sequences, FiniteSets, FiniteSetsExt, SequencesExt

CONSTANTS
    Client,       \* the connections' clients, one request each at a time
    Session,
    None,
    KeepFloor,    \* recentTurnsKeepFloor, 3 in the code
    Methods,      \* the methods the clients call besides turn.submit
    MaxMessages,  \* bound: messages made
    MaxLosses     \* bound: crashes of the server and losses of a connection

AllMethods == {"tool.result", "session.clear", "session.resume", "session.fork", "compact.apply"}

ASSUME ConversationAssumption ==
    /\ None \notin Session
    /\ KeepFloor \in Nat \ {0}
    /\ Methods \subseteq AllMethods
    /\ MaxMessages \in Nat /\ MaxLosses \in Nat

VARIABLES
    conv,    \* the conversations in memory
    active,  \* SessionManager.active
    turns,   \* the turns table, by session
    stored,  \* the sessions that have a row
    bound,   \* Connection.sessionID
    req,     \* the request each connection is handling
    relays,  \* the stream relays
    todo,    \* the tool calls a client has been told of and not answered
    made,    \* messages made
    losses,
    lost     \* history: sessions whose memory has missed a turn of theirs

vars == <<conv, active, turns, stored, bound, req, relays, todo, made, losses, lost>>

\* A message is [id, seq, role, call, answers]: its number, its sequence in the turns
\* table, "user", "assistant" or "summary", the tool call it makes and the one it
\* answers, 0 for none.

NewConversation == [messages |-> <<>>, userSequence |-> 0, storageSequence |-> 0]
Idle == [at |-> "idle", session |-> None, list |-> <<>>, call |-> 0]

Init ==
    /\ conv = [s \in Session |-> NewConversation]
    /\ active = {}
    /\ turns = [s \in Session |-> {}]
    /\ stored = {}
    /\ bound = [c \in Client |-> None]
    /\ req = [c \in Client |-> Idle]
    /\ relays = {}
    /\ todo = [c \in Client |-> {}]
    /\ made = 0
    /\ losses = 0
    /\ lost = {}

-----------------------------------------------------------------------------
(* The conversation and the table *)

AppendMessage(cv, m) ==
    [cv EXCEPT !.messages = Append(@, m), !.storageSequence = @ + 1]

NewMessage(s, role, call, answers) ==
    [id |-> made + 1, seq |-> conv[s].storageSequence + 1, role |-> role, call |-> call, answers |-> answers]

AppendUserTurn(s, answers) ==
    LET cv == AppendMessage(conv[s], NewMessage(s, "user", 0, answers))
    IN conv' = [conv EXCEPT ![s] = [cv EXCEPT !.userSequence = @ + 1]]

AppendAssistantTurn(s, call) ==
    conv' = [conv EXCEPT ![s] = AppendMessage(conv[s], NewMessage(s, "assistant", call, 0))]

\* By sequence, rows of one sequence in the order of their insertion.
Before(a, b) == a.seq < b.seq \/ (a.seq = b.seq /\ a.id < b.id)

\* ListTurns: the i-th row has i - 1 rows before it.
ListTurns(s) ==
    [i \in 1 .. Cardinality(turns[s]) |->
        CHOOSE m \in turns[s] : Cardinality({o \in turns[s] : Before(o, m)}) = i - 1]

UserTurns(list) == Cardinality({i \in DOMAIN list : list[i].role = "user"})

\* Mutant: the user turns are counted on top of those counted before.
RestoreAgain(cv, list) ==
    [messages |-> list,
     userSequence |-> cv.userSequence + UserTurns(list),
     storageSequence |-> IF list = <<>> THEN 0 ELSE Max({list[i].seq : i \in DOMAIN list})]

\* Mutant: the next sequence follows the number of turns.
RestoreByCount(cv, list) ==
    [messages |-> list, userSequence |-> UserTurns(list), storageSequence |-> Len(list)]

RestoreFromTurns(cv, list) ==
    [messages |-> list,
     userSequence |-> UserTurns(list),
     storageSequence |-> IF list = <<>> THEN 0 ELSE Max({list[i].seq : i \in DOMAIN list})]

\* A summary is read back as an assistant message.
PendingToolCalls(s) ==
    LET msgs == conv[s].messages
        replies == {i \in DOMAIN msgs : msgs[i].role # "user"}
    IN IF replies = {} THEN {}
       ELSE {msgs[Max(replies)].call} \ ({0} \cup {msgs[i].answers : i \in Max(replies) .. Len(msgs)})

-----------------------------------------------------------------------------
(* What memory misses *)

InFlight(s) ==
    {req[c].list[1] : c \in {d \in Client : req[d].session = s /\ req[d].at \in {"create", "persist"}}}
    \cup {r.msg : r \in {q \in relays : q.session = s /\ q.at = "persist"}}

\* An active session whose memory lacks a turn that is stored or about to be:
\* session.clear, a restart that no session.resume followed, or a resume that
\* listed the turns before a relay stored its own.
Misses(s) ==
    /\ s \in active
    /\ \E m \in turns[s] \cup InFlight(s) :
        \A i \in DOMAIN conv[s].messages : conv[s].messages[i].id # m.id

Remember == lost' = lost \cup {s \in Session : Misses(s)'}

-----------------------------------------------------------------------------
(* Requests *)

Receive(c) == req[c] = Idle
Reply(c) == req' = [req EXCEPT ![c] = Idle]
Goto(c, at, s, list) == req' = [req EXCEPT ![c] = [at |-> at, session |-> s, list |-> list, call |-> 0]]

\* An error of the store.
Fail(c) ==
    /\ req[c] # Idle
    /\ Reply(c)
    /\ UNCHANGED <<conv, active, turns, stored, bound, relays, todo, made, losses>>

\* The session is created if it has no row; the connection is bound to it if it
\* is bound to none.
Submitting(c, s) ==
    /\ Receive(c)
    /\ stored' = stored \cup {s}
    /\ active' = active \cup {s}
    /\ bound' = [bound EXCEPT ![c] = IF @ = None THEN s ELSE @]
    /\ UNCHANGED <<turns, relays, todo, losses>>

SubmitRefused(c, s, n) ==
    /\ Submitting(c, s)
    /\ n # conv[s].userSequence + 1
    /\ UNCHANGED <<conv, req, made>>

SubmitAppended(c, s, n) ==
    /\ Submitting(c, s)
    /\ n = conv[s].userSequence + 1
    /\ made < MaxMessages
    /\ made' = made + 1
    /\ AppendUserTurn(s, 0)
    /\ Goto(c, "create", s, <<NewMessage(s, "user", 0, 0)>>)

\* CreateRunWithTurn; the dispatch to the provider succeeds or not.
SubmitCreated(c) ==
    /\ req[c].at = "create"
    /\ LET s == req[c].session
           m == req[c].list[1]
       IN
        /\ turns' = [turns EXCEPT ![s] = @ \cup {m}]
        /\ relays' \in {relays,
             relays \cup {[at |-> "stream", client |-> c, session |-> s, turn |-> m.id, call |-> 0, msg |-> m]}}
    /\ Reply(c)
    /\ UNCHANGED <<conv, active, stored, bound, todo, made, losses>>

\* tool.result for the session the connection is bound to: MatchToolResult, then
\* Sequence and AppendUserTurn, each under the conversation's own lock.
ToolResultMatched(c) ==
    /\ "tool.result" \in Methods
    /\ Receive(c) /\ bound[c] \in active
    /\ \E t \in todo[c] \cap PendingToolCalls(bound[c]) :
        /\ req' = [req EXCEPT ![c] = [at |-> "match", session |-> bound[c], list |-> <<>>, call |-> t]]
        /\ todo' = [todo EXCEPT ![c] = @ \ {t}]
    /\ UNCHANGED <<conv, active, turns, stored, bound, relays, made, losses>>

ToolResultRefused(c) ==
    /\ "tool.result" \in Methods
    /\ Receive(c)
    /\ \E t \in todo[c] :
        /\ bound[c] \in active => t \notin PendingToolCalls(bound[c])
        /\ todo' = [todo EXCEPT ![c] = @ \ {t}]
    /\ UNCHANGED <<conv, active, turns, stored, bound, req, relays, made, losses>>

ToolResultAppended(c) ==
    /\ req[c].at = "match"
    /\ made < MaxMessages
    /\ made' = made + 1
    /\ LET s == req[c].session IN
        /\ AppendUserTurn(s, req[c].call)
        /\ Goto(c, "persist", s, <<NewMessage(s, "user", 0, req[c].call)>>)
    /\ UNCHANGED <<active, turns, stored, bound, relays, todo, losses>>

ToolResultPersisted(c) ==
    /\ req[c].at = "persist"
    /\ turns' = [turns EXCEPT ![req[c].session] = @ \cup {req[c].list[1]}]
    /\ Reply(c)
    /\ UNCHANGED <<conv, active, stored, bound, relays, todo, made, losses>>

\* session.clear: Reset.
SessionClear(c) ==
    /\ "session.clear" \in Methods
    /\ Receive(c)
    /\ \E s \in stored :
        /\ active' = active \cup {s}
        /\ conv' = [conv EXCEPT ![s] = NewConversation]
    /\ UNCHANGED <<turns, stored, bound, req, relays, todo, made, losses>>

\* session.resume lists the turns, then replaces the conversation with them.
ResumeListed(c, s) ==
    /\ "session.resume" \in Methods
    /\ Receive(c) /\ s \in stored
    /\ Goto(c, "restore", s, ListTurns(s))
    /\ UNCHANGED <<conv, active, turns, stored, bound, relays, todo, made, losses>>

ResumeRestored(c) ==
    /\ req[c].at = "restore"
    /\ LET s == req[c].session IN
        /\ active' = active \cup {s}
        /\ conv' = [conv EXCEPT ![s] = RestoreFromTurns(@, req[c].list)]
        /\ bound' = [bound EXCEPT ![c] = s]
    /\ Reply(c)
    /\ UNCHANGED <<turns, stored, relays, todo, made, losses>>

\* session.create binds the connection to a new session.
SessionCreate(c, s) ==
    /\ Receive(c) /\ s \notin stored
    /\ stored' = stored \cup {s}
    /\ active' = active \cup {s}
    /\ bound' = [bound EXCEPT ![c] = s]
    /\ UNCHANGED <<conv, turns, req, relays, todo, made, losses>>

\* session.fork copies the turns into a new session one by one and may fail
\* between two of them.
SessionFork(c) ==
    /\ "session.fork" \in Methods
    /\ Receive(c)
    /\ \E src \in stored, s \in Session \ stored : \E k \in 0 .. Cardinality(turns[src]) :
        /\ stored' = stored \cup {s}
        /\ turns' = [turns EXCEPT ![s] = ToSet(SubSeq(ListTurns(src), 1, k))]
    /\ UNCHANGED <<conv, active, bound, req, relays, todo, made, losses>>

-----------------------------------------------------------------------------
(* Compaction: compact.apply works on the table and leaves memory alone *)

\* Mutant: the floor is one short.
OlderByOne(list) == SubSeq(list, 1, Len(list) - KeepFloor + 1)

\* The turns before the last KeepFloor.  No turn has the role "tool".
Older(list) == SubSeq(list, 1, Len(list) - KeepFloor)

CompactListed(c) ==
    /\ "compact.apply" \in Methods
    /\ Receive(c)
    /\ \E s \in stored :
        /\ Cardinality(turns[s]) > KeepFloor
        /\ Goto(c, "delete", s, Older(ListTurns(s)))
    /\ UNCHANGED <<conv, active, turns, stored, bound, relays, todo, made, losses>>

\* The older turns are deleted one by one: all of them, to be dropped or replaced
\* by a summary, or some before the store fails.
CompactDeleted(c) ==
    /\ req[c].at = "delete"
    /\ \E k \in 0 .. Len(req[c].list) :
        /\ turns' = [turns EXCEPT ![req[c].session] =
                        {m \in @ : m.id \notin {req[c].list[i].id : i \in 1 .. k}}]
        /\ \/ Reply(c)
           \/ k = Len(req[c].list) /\ Goto(c, "summarize", req[c].session, req[c].list)
    /\ UNCHANGED <<conv, active, stored, bound, relays, todo, made, losses>>

\* The summary takes the place of the first.
Summary(list) == [list[1] EXCEPT !.role = "summary", !.call = 0, !.answers = 0]

\* Its key is made of the session and the sequence.
CompactInserted(c) ==
    /\ req[c].at = "summarize"
    /\ LET s == req[c].session
           m == Summary(req[c].list)
       IN
        /\ \A o \in turns[s] : o.role = "summary" => o.seq # m.seq
        /\ turns' = [turns EXCEPT ![s] = @ \cup {m}]
    /\ Reply(c)
    /\ UNCHANGED <<conv, active, stored, bound, relays, todo, made, losses>>

-----------------------------------------------------------------------------
(* Relays, and what is lost *)

\* The tool call is announced while the stream goes on.
RelayToolCall(r) ==
    /\ r \in relays /\ r.at = "stream" /\ r.call = 0
    /\ relays' = (relays \ {r}) \cup {[r EXCEPT !.call = r.turn]}
    /\ todo' = [todo EXCEPT ![r.client] = @ \cup {r.turn}]
    /\ UNCHANGED <<conv, active, turns, stored, bound, req, made, losses>>

\* The stream ends, whatever way: what it carried joins the conversation...
RelayAppended(r) ==
    /\ r \in relays /\ r.at = "stream"
    /\ made < MaxMessages
    /\ made' = made + 1
    /\ AppendAssistantTurn(r.session, r.call)
    /\ relays' = (relays \ {r}) \cup
         {[r EXCEPT !.at = "persist", !.msg = NewMessage(r.session, "assistant", r.call, 0)]}
    /\ UNCHANGED <<active, turns, stored, bound, req, todo, losses>>

\* ... and is stored, unless the relay's context is dead or the store fails.
RelayPersisted(r) ==
    /\ r \in relays /\ r.at = "persist"
    /\ relays' = relays \ {r}
    /\ turns' \in {turns, [turns EXCEPT ![r.session] = @ \cup {r.msg}]}
    /\ UNCHANGED <<conv, active, stored, bound, req, todo, made, losses>>

\* The client is back on a new connection.
Reconnect(c) ==
    /\ losses < MaxLosses /\ losses' = losses + 1
    /\ Receive(c) /\ bound[c] # None
    /\ bound' = [bound EXCEPT ![c] = None]
    /\ UNCHANGED <<conv, active, turns, stored, req, relays, todo, made>>

\* The server dies and is started again.
Crash ==
    /\ losses < MaxLosses /\ losses' = losses + 1
    /\ conv' = [s \in Session |-> NewConversation]
    /\ active' = {}
    /\ bound' = [c \in Client |-> None]
    /\ req' = [c \in Client |-> Idle]
    /\ relays' = {}
    /\ UNCHANGED <<turns, stored, todo, made>>

-----------------------------------------------------------------------------

\* A request is answered, with a result or an error.
Answer(c) == SubmitCreated(c) \/ ResumeRestored(c) \/ Fail(c)

\* The steps of the server that tell the client nothing.
ServerStep ==
    \/ \E c \in Client :
        \/ ToolResultAppended(c) \/ ToolResultPersisted(c)
        \/ CompactDeleted(c) \/ CompactInserted(c)
    \/ \E r \in relays : RelayToolCall(r) \/ RelayAppended(r) \/ RelayPersisted(r)
    \/ Crash

ClientStep ==
    \E c \in Client :
        \/ \E s \in Session, n \in 1 .. MaxMessages : SubmitAppended(c, s, n) \/ SubmitRefused(c, s, n)
        \/ \E s \in Session : SessionCreate(c, s) \/ ResumeListed(c, s)
        \/ ToolResultMatched(c) \/ ToolResultRefused(c)
        \/ SessionClear(c) \/ SessionFork(c) \/ CompactListed(c)

Next ==
    /\ ClientStep \/ ServerStep \/ \E c \in Client : Answer(c) \/ Reconnect(c)
    /\ Remember

Spec == Init /\ [][Next]_vars

-----------------------------------------------------------------------------
(* Properties *)

\* conversation.go, turns.go: ORDER BY sequence gives the turns back in the order
\* they were made, through concurrent submits, relays that store late or never,
\* tool results, compactions and resumes, as long as no conversation in memory
\* ever missed a turn of its session.
StoredInOrder ==
    lost = {} => \A s \in Session : \A a, b \in turns[s] : a.id < b.id => a.seq < b.seq

\* conversation.go: the wire sequence is the number of user messages in memory,
\* whatever was cleared, restored or staged as a tool result.
SequenceCountsUserTurns ==
    \A s \in Session : conv[s].userSequence = UserTurns(conv[s].messages)

\* compact.go: the last KeepFloor turns are kept verbatim, though the turns are
\* listed before they are deleted and others store theirs in between.
RecentTurnsSurvive ==
    [][lost = {} => \A s \in Session :
        \A m \in turns[s] :
            Cardinality({o \in turns[s] : o.seq > m.seq}) < KeepFloor => m \in turns'[s]]_vars
=============================================================================
