------------------------------ MODULE RunStore ------------------------------
(***************************************************************************)
(* The run tables of internal/storage/runs.go as concurrent goroutines use *)
(* them: runs, run_events, run_checkpoints, run_turns and run_model_calls, *)
(* with the keys and unique indexes of schema V3 in sqlite.go.             *)
(*                                                                         *)
(* Transactions are those of SQLite in WAL mode, which the store opens     *)
(* deferred: the first read fixes a snapshot; a write on a snapshot that   *)
(* another commit has overtaken fails with SQLITE_BUSY, which the busy     *)
(* timeout does not retry.  A transaction whose first statement writes     *)
(* takes the write lock at once and is one step here.                      *)
(***************************************************************************)
EXTENDS Naturals, FiniteSets

CONSTANTS
    Writer,     \* goroutines that call the store
    Run, Key, Turn, None,
    EventType,
    MaxEvents   \* bound: events of one run

ASSUME StoreAssumption ==
    /\ None \notin Run /\ None \notin Key /\ None \notin Turn
    /\ MaxEvents \in Nat

VARIABLES
    lastSeq,      \* runs.last_event_seq, 0 when there is no row
    keyOf,        \* runs.idempotency_key, None for a fresh uuid
    lastCp,       \* the sequence of the checkpoint runs.last_checkpoint_id names
    tokens,       \* runs.input_tokens + output_tokens, one call counting one
    events,       \* run_events, primary key (run, seq)
    checkpoints,  \* run_checkpoints
    turnRows,     \* turns, primary key
    links,        \* run_turns, unique on the turn
    calls,        \* run_model_calls, primary key
    tx            \* the open AppendRunEvent of each writer

tables == <<lastSeq, keyOf, lastCp, tokens, events, checkpoints, turnRows, links, calls>>
vars   == <<tables, tx>>

NoTx == [at |-> "none", run |-> None, seq |-> 0, stale |-> FALSE]

Present(r) == lastSeq[r] > 0

Init ==
    /\ lastSeq = [r \in Run |-> 0]
    /\ keyOf = [r \in Run |-> None]
    /\ lastCp = [r \in Run |-> 0]
    /\ tokens = [r \in Run |-> 0]
    /\ events = {}
    /\ checkpoints = {}
    /\ turnRows = {}
    /\ links = {}
    /\ calls = {}
    /\ tx = [w \in Writer |-> NoTx]

\* A commit by w overtakes every other open snapshot, and closes w's own.
Commit(w) ==
    tx' = [v \in Writer |-> IF v = w THEN NoTx
                            ELSE [tx[v] EXCEPT !.stale = tx[v].at = "read"]]

Quiet(w) == tx[w].at # "read"

\* Mutant: no unique index.
NoUniqueIndex(k) == TRUE

\* The unique index on (user_id, project, idempotency_key).
UniqueIndexAdmits(k) == k # None => \A r \in Run : Present(r) => keyOf[r] # k

\* CreateRun: the row, its attachment, event 1 and its checkpoint.
CreateRows(r, k, typ) ==
    /\ ~Present(r)
    /\ UniqueIndexAdmits(k)
    /\ lastSeq' = [lastSeq EXCEPT ![r] = 1]
    /\ keyOf' = [keyOf EXCEPT ![r] = k]
    /\ lastCp' = [lastCp EXCEPT ![r] = 1]
    /\ events' = events \cup {[run |-> r, seq |-> 1, type |-> typ]}
    /\ checkpoints' = checkpoints \cup {[run |-> r, seq |-> 1]}

CreateRun(w) ==
    /\ Quiet(w)
    /\ \E r \in Run, k \in Key \cup {None}, typ \in EventType : CreateRows(r, k, typ)
    /\ Commit(w)
    /\ UNCHANGED <<tokens, turnRows, links, calls>>

\* CreateRunWithTurn: the same, with the turn's row and its link; a turn id that
\* exists rolls everything back.
CreateRunWithTurn(w) ==
    /\ Quiet(w)
    /\ \E r \in Run, k \in Key \cup {None}, typ \in EventType, t \in Turn :
        /\ CreateRows(r, k, typ)
        /\ t \notin turnRows
        /\ turnRows' = turnRows \cup {t}
        /\ links' = links \cup {[run |-> r, turn |-> t]}
    /\ Commit(w)
    /\ UNCHANGED <<tokens, calls>>

\* AppendRunEvent, up to the read of last_event_seq.
AppendBegin(w) ==
    /\ Quiet(w)
    /\ \E r \in Run :
        /\ Present(r)
        /\ lastSeq[r] < MaxEvents
        /\ tx' = [tx EXCEPT ![w] = [at |-> "read", run |-> r, seq |-> lastSeq[r], stale |-> FALSE]]
    /\ UNCHANGED tables

NextSeq(w) == tx[w].seq + 1

\* Mutant: the row keeps the sequence that was read.
SeqNotWritten(w) == tx[w].seq

\* applyRunStateUpdate writes the sequence of the event just inserted.
WrittenSeq(w) == NextSeq(w)

\* Mutant: the checkpoint is inserted and the row is not told.
CheckpointForgotten(r, cp) == lastCp[r]

\* last_checkpoint_id, when the update carries a checkpoint.
WrittenCp(r, cp) == IF cp = {} THEN lastCp[r] ELSE (CHOOSE c \in cp : TRUE).seq

\* AppendRunEvent, the inserts and the update, with a checkpoint or without.  The
\* primary key of run_events refuses a sequence that is taken.
AppendCommit(w) ==
    /\ tx[w].at = "read"
    /\ ~tx[w].stale
    /\ LET r == tx[w].run IN
        /\ \A e \in events : ~(e.run = r /\ e.seq = NextSeq(w))
        /\ \E typ \in EventType : events' = events \cup {[run |-> r, seq |-> NextSeq(w), type |-> typ]}
        /\ \E cp \in {{}, {[run |-> r, seq |-> NextSeq(w)]}} :
            /\ checkpoints' = checkpoints \cup cp
            /\ lastCp' = [lastCp EXCEPT ![r] = WrittenCp(r, cp)]
        /\ lastSeq' = [lastSeq EXCEPT ![r] = WrittenSeq(w)]
    /\ Commit(w)
    /\ UNCHANGED <<keyOf, tokens, turnRows, links, calls>>

\* The insert finds its snapshot overtaken: the error goes to the caller.
AppendBusy(w) ==
    /\ tx[w].at = "read"
    /\ tx[w].stale
    /\ tx' = [tx EXCEPT ![w] = [NoTx EXCEPT !.at = "busy"]]
    /\ UNCHANGED tables

\* A cancelled context or the end of the process rolls back.
AppendRollback(w) ==
    /\ tx[w].at = "read"
    /\ tx' = [tx EXCEPT ![w] = NoTx]
    /\ UNCHANGED tables

\* CreateTurn and LinkTurnToRun for an assistant turn: two statements, of which
\* the second may fail and be ignored.
CreateTurn(w) ==
    /\ Quiet(w)
    /\ \E t \in Turn \ turnRows : turnRows' = turnRows \cup {t}
    /\ Commit(w)
    /\ UNCHANGED <<lastSeq, keyOf, lastCp, tokens, events, checkpoints, links, calls>>

\* Mutant: no unique index on run_turns.turn_id.
LinkTwice(r, t) == [run |-> r, turn |-> t] \notin links

\* UNIQUE(turn_id).
LinkAdmits(r, t) == \A l \in links : l.turn # t

LinkTurnToRun(w) ==
    /\ Quiet(w)
    /\ \E r \in Run, t \in turnRows :
        /\ Present(r)
        /\ LinkAdmits(r, t)
        /\ links' = links \cup {[run |-> r, turn |-> t]}
    /\ Commit(w)
    /\ UNCHANGED <<lastSeq, keyOf, lastCp, tokens, events, checkpoints, turnRows, calls>>

\* Mutant: the totals are added on every report.
AlwaysCreated(call) == TRUE

\* INSERT OR IGNORE affects a row only for a new id, runID:turnID.
Created(call) == call \notin calls

RecordRunModelCall(w) ==
    /\ Quiet(w)
    /\ \E l \in links :
        /\ calls' = calls \cup {l}
        /\ tokens' = [tokens EXCEPT ![l.run] = @ + (IF Created(l) THEN 1 ELSE 0)]
    /\ Commit(w)
    /\ UNCHANGED <<lastSeq, keyOf, lastCp, events, checkpoints, turnRows, links>>

Step(w) ==
    \/ CreateRun(w) \/ CreateRunWithTurn(w)
    \/ AppendBegin(w) \/ AppendCommit(w) \/ AppendBusy(w) \/ AppendRollback(w)
    \/ CreateTurn(w) \/ LinkTurnToRun(w) \/ RecordRunModelCall(w)

Next == \E w \in Writer : Step(w)

Spec == Init /\ [][Next]_vars

-----------------------------------------------------------------------------

\* The events of a run are numbered 1 to last_event_seq, one each: what replay
\* after a sequence number relies on (ListRunEvents, replayAvailable).
EventsOf(r) == {e \in events : e.run = r}
LogIsGapless ==
    \A r \in Run :
        /\ {e.seq : e \in EventsOf(r)} = 1 .. lastSeq[r]
        /\ \A e, f \in EventsOf(r) : e.seq = f.seq => e = f

\* last_checkpoint_id names the checkpoint GetLatestRunCheckpoint returns, the
\* one with the highest sequence, and every checkpoint belongs to an event.
CheckpointsMatchLog ==
    /\ \A c \in checkpoints : c.seq \in 1 .. lastSeq[c.run]
    /\ \A r \in Run : Present(r) =>
        /\ [run |-> r, seq |-> lastCp[r]] \in checkpoints
        /\ \A c \in checkpoints : c.run = r => c.seq <= lastCp[r]

\* A turn belongs to at most one run (LinkTurnToRun).
OneRunPerTurn == \A l, m \in links : l.turn = m.turn => l = m

\* A run's totals count each recorded model call once, however often it is
\* reported (RecordRunModelCall).
TotalsCountCallsOnce ==
    \A r \in Run : tokens[r] = Cardinality({c \in calls : c.run = r})

\* The abstract log: what the rows say, read as a sequence.
LogOf(r) == [i \in 1 .. lastSeq[r] |-> (CHOOSE e \in EventsOf(r) : e.seq = i).type]
Log == INSTANCE RunLog WITH Event <- EventType, log <- [r \in Run |-> LogOf(r)]

\* The transactions implement the atomic log of RunLog.
ImplementsRunLog == Log!Spec
=============================================================================
