---------------------------- MODULE RunStoreProofs ----------------------------
(***************************************************************************)
(* The run tables, for any number of writers, runs, turns and events: what *)
(* concurrent deferred transactions can and cannot do to them.             *)
(***************************************************************************)
EXTENDS RunStore, Sequences, FiniteSetTheorems, SequenceTheorems, TLAPS

EventRow == [run : Run, seq : Nat \ {0}, type : EventType]
CpRow    == [run : Run, seq : Nat \ {0}]
LinkRow  == [run : Run, turn : Turn]
TxState  == [at : {"none", "read", "busy"}, run : Run \cup {None}, seq : Nat, stale : BOOLEAN]

TypeOK ==
    /\ lastSeq \in [Run -> Nat] /\ lastCp \in [Run -> Nat]
    /\ keyOf \in [Run -> Key \cup {None}]
    /\ tokens \in [Run -> Nat]
    /\ events \in SUBSET EventRow /\ checkpoints \in SUBSET CpRow
    /\ turnRows \in SUBSET Turn /\ links \in SUBSET LinkRow
    /\ calls \in SUBSET LinkRow /\ IsFiniteSet(calls)
    /\ tx \in [Writer -> TxState]

\* A snapshot that nobody has overtaken is the table as it is, so that the sequence
\* read in the first statement is still the last one when the insert is made.
SnapshotsHold ==
    \A w \in Writer : tx[w].at = "read" /\ ~tx[w].stale =>
        tx[w].run \in Run /\ Present(tx[w].run) /\ tx[w].seq = lastSeq[tx[w].run]

AbsentIsBlank ==
    \A r \in Run : ~Present(r) => keyOf[r] = None

LinksKnown == \A l \in links : l.turn \in turnRows

\* LogIsGapless of one run: every event has its number, and every number its event.
Numbered(r) ==
    /\ \A e \in EventsOf(r) : e.seq \in 1 .. lastSeq[r]
    /\ \A i \in 1 .. lastSeq[r] : \E e \in EventsOf(r) : e.seq = i
    /\ \A e, f \in EventsOf(r) : e.seq = f.seq => e = f

Gapless == \A r \in Run : Numbered(r)

IInv == TypeOK /\ SnapshotsHold /\ AbsentIsBlank /\ LinksKnown
        /\ Gapless /\ CheckpointsMatchLog /\ OneRunPerTurn /\ TotalsCountCallsOnce

(* A commit leaves no other snapshot that counts as fresh.                 *)
LEMMA CommitOvertakes ==
    ASSUME TypeOK, NEW w \in Writer, Commit(w)
    PROVE  tx' \in [Writer -> TxState] /\ SnapshotsHold'
<1>1. NoTx \in TxState /\ NoTx.at = "none"
  BY DEF NoTx, TxState
<1>2. \A v \in Writer : [tx[v] EXCEPT !.stale = tx[v].at = "read"] \in TxState
  BY DEF TypeOK, TxState
<1>3. tx' \in [Writer -> TxState]
  BY <1>1, <1>2 DEF Commit
<1>4. \A v \in Writer : tx'[v].at = "read" => tx'[v].stale
  <2> SUFFICES ASSUME NEW v \in Writer, tx'[v].at = "read" PROVE tx'[v].stale
    OBVIOUS
  <2>1. v # w /\ tx'[v] = [tx[v] EXCEPT !.stale = tx[v].at = "read"]
    BY <1>1 DEF Commit
  <2>2. tx[v] \in TxState
    BY DEF TypeOK
  <2>3. QED
    BY <2>1, <2>2 DEF TxState
<1>5. QED
  BY <1>3, <1>4 DEF SnapshotsHold

(* The empty tables and no transaction.                                    *)
LEMMA Initially == Init => IInv
<1> SUFFICES ASSUME Init PROVE IInv
  OBVIOUS
<1>1. TypeOK
  BY FS_EmptySet DEF Init, TypeOK, TxState, NoTx
<1>2. SnapshotsHold /\ AbsentIsBlank /\ LinksKnown
  BY DEF Init, SnapshotsHold, AbsentIsBlank, LinksKnown, NoTx
<1>3. Gapless /\ CheckpointsMatchLog /\ OneRunPerTurn
  BY DEF Init, Gapless, Numbered, EventsOf, CheckpointsMatchLog, Present, OneRunPerTurn
<1>4. TotalsCountCallsOnce
  <2>1. \A r \in Run : {c \in calls : c.run = r} = {}
    BY DEF Init
  <2>2. QED
    BY <2>1, FS_EmptySet DEF Init, TotalsCountCallsOnce
<1>5. QED
  BY <1>1, <1>2, <1>3, <1>4 DEF IInv

-----------------------------------------------------------------------------
(* Creation *)

(* The rows of a new run number its one event and its checkpoint 1         *)
(* (runs.go CreateRun).                                                    *)
LEMMA CreateRowsKeeps ==
    ASSUME IInv, NEW r \in Run, NEW k \in Key \cup {None}, NEW typ \in EventType,
           CreateRows(r, k, typ)
    PROVE  /\ lastSeq' \in [Run -> Nat] /\ lastCp' \in [Run -> Nat]
           /\ keyOf' \in [Run -> Key \cup {None}]
           /\ events' \in SUBSET EventRow /\ checkpoints' \in SUBSET CpRow
           /\ AbsentIsBlank' /\ Gapless' /\ CheckpointsMatchLog'
<1> DEFINE e == [run |-> r, seq |-> 1, type |-> typ]
<1>1. TypeOK /\ AbsentIsBlank /\ Gapless /\ CheckpointsMatchLog /\ lastSeq[r] = 0
  BY DEF IInv, CreateRows, Present, TypeOK
<1>2. /\ lastSeq' = [lastSeq EXCEPT ![r] = 1] /\ lastCp' = [lastCp EXCEPT ![r] = 1]
      /\ keyOf' = [keyOf EXCEPT ![r] = k]
      /\ events' = events \cup {e} /\ checkpoints' = checkpoints \cup {[run |-> r, seq |-> 1]}
  BY DEF CreateRows
<1>3. /\ lastSeq' \in [Run -> Nat] /\ lastCp' \in [Run -> Nat]
      /\ keyOf' \in [Run -> Key \cup {None}]
      /\ events' \in SUBSET EventRow /\ checkpoints' \in SUBSET CpRow
  BY <1>1, <1>2 DEF TypeOK, EventRow, CpRow
<1>4. AbsentIsBlank'
  BY <1>1, <1>2 DEF TypeOK, AbsentIsBlank, Present
<1>5. EventsOf(r) = {}
  BY <1>1 DEF Gapless, Numbered
<1>6. EventsOf(r)' = {e} /\ \A q \in Run \ {r} : EventsOf(q)' = EventsOf(q)
  BY <1>2, <1>5 DEF EventsOf
<1>7. Gapless'
  <2>1. \A q \in Run : lastSeq'[q] = IF q = r THEN 1 ELSE lastSeq[q]
    BY <1>1, <1>2 DEF TypeOK
  <2>2. e.seq = 1
    OBVIOUS
  <2> HIDE DEF e
  <2>3. Numbered(r)'
    BY <1>6, <2>1, <2>2 DEF Numbered
  <2>4. \A q \in Run \ {r} : Numbered(q)'
    BY <1>1, <1>6, <2>1 DEF Gapless, Numbered
  <2>5. QED
    BY <2>3, <2>4 DEF Gapless
<1>8. CheckpointsMatchLog'
  <2>1. \A c \in checkpoints : c.run # r
    BY <1>1 DEF CheckpointsMatchLog, TypeOK, CpRow
  <2>2. QED
    BY <1>1, <1>2, <2>1 DEF CheckpointsMatchLog, Present, TypeOK, CpRow
<1>9. QED
  BY <1>3, <1>4, <1>7, <1>8

(* run.create writes the run's rows in one transaction.                    *)
LEMMA CreateRunKeeps == ASSUME IInv, NEW w \in Writer, CreateRun(w) PROVE IInv'
<1>1. PICK r \in Run, k \in Key \cup {None}, typ \in EventType : CreateRows(r, k, typ)
  BY DEF CreateRun
<1>2. tx' \in [Writer -> TxState] /\ SnapshotsHold'
  BY CommitOvertakes DEF CreateRun, IInv
<1>3. UNCHANGED <<tokens, turnRows, links, calls>>
  BY DEF CreateRun
<1>4. QED
  BY <1>1, <1>2, <1>3, CreateRowsKeeps DEF IInv, TypeOK, LinksKnown, OneRunPerTurn, TotalsCountCallsOnce

(* turn.submit writes them together with the turn and its link.            *)
LEMMA CreateRunWithTurnKeeps ==
    ASSUME IInv, NEW w \in Writer, CreateRunWithTurn(w) PROVE IInv'
<1>1. PICK r \in Run, k \in Key \cup {None}, typ \in EventType, t \in Turn :
          /\ CreateRows(r, k, typ) /\ t \notin turnRows
          /\ turnRows' = turnRows \cup {t} /\ links' = links \cup {[run |-> r, turn |-> t]}
  BY DEF CreateRunWithTurn
<1>2. tx' \in [Writer -> TxState] /\ SnapshotsHold'
  BY CommitOvertakes DEF CreateRunWithTurn, IInv
<1>3. UNCHANGED <<tokens, calls>>
  BY DEF CreateRunWithTurn
<1>4. /\ turnRows' \in SUBSET Turn /\ links' \in SUBSET LinkRow
      /\ LinksKnown' /\ OneRunPerTurn'
  BY <1>1 DEF IInv, TypeOK, LinksKnown, OneRunPerTurn, LinkRow
<1>5. QED
  BY <1>1, <1>2, <1>3, <1>4, CreateRowsKeeps DEF IInv, TypeOK, TotalsCountCallsOnce

-----------------------------------------------------------------------------
(* Appending *)

(* An append reads the last sequence number: its snapshot is fresh.        *)
LEMMA AppendBeginKeeps == ASSUME IInv, NEW w \in Writer, AppendBegin(w) PROVE IInv'
<1>1. PICK r \in Run :
          /\ Present(r)
          /\ tx' = [tx EXCEPT ![w] = [at |-> "read", run |-> r, seq |-> lastSeq[r], stale |-> FALSE]]
  BY DEF AppendBegin
<1>2. UNCHANGED tables
  BY DEF AppendBegin
<1>3. TypeOK'
  BY <1>1, <1>2 DEF IInv, TypeOK, TxState, tables
<1>4. SnapshotsHold'
  BY <1>1, <1>2 DEF IInv, TypeOK, SnapshotsHold, Present, tables
<1>5. QED
  BY <1>2, <1>3, <1>4 DEF IInv, tables, AbsentIsBlank, LinksKnown, Gapless, Numbered, EventsOf,
     CheckpointsMatchLog, Present, OneRunPerTurn, TotalsCountCallsOnce

(* A transaction that is given up leaves the tables as they were.          *)
LEMMA AppendEndsKeeps ==
    ASSUME IInv, NEW w \in Writer, AppendBusy(w) \/ AppendRollback(w) PROVE IInv'
<1>1. PICK at \in {"none", "busy"} : tx' = [tx EXCEPT ![w] = [NoTx EXCEPT !.at = at]]
  BY DEF AppendBusy, AppendRollback, NoTx
<1>2. UNCHANGED tables
  BY DEF AppendBusy, AppendRollback
<1>3. TypeOK' /\ SnapshotsHold'
  BY <1>1, <1>2 DEF IInv, TypeOK, TxState, NoTx, SnapshotsHold, Present, tables
<1>4. QED
  BY <1>2, <1>3 DEF IInv, tables, AbsentIsBlank, LinksKnown, Gapless, Numbered, EventsOf,
     CheckpointsMatchLog, Present, OneRunPerTurn, TotalsCountCallsOnce

(* Only the transaction that still sees the last sequence gets here, and   *)
(* it adds the next one to the log, the row and the checkpoint             *)
(* (runs.go:288-360).                                                      *)
LEMMA AppendCommitKeeps == ASSUME IInv, NEW w \in Writer, AppendCommit(w) PROVE IInv'
<1>1. PICK r \in Run, n \in Nat \ {0} :
          r = tx[w].run /\ n = lastSeq[r] + 1 /\ Present(r) /\ NextSeq(w) = n /\ WrittenSeq(w) = n
  BY DEF IInv, TypeOK, AppendCommit, SnapshotsHold, NextSeq, WrittenSeq
<1> DEFINE p == [run |-> r, seq |-> n]
<1>2. PICK e \in EventRow :
          e.run = r /\ e.seq = n /\ events' = events \cup {e}
  BY <1>1 DEF AppendCommit, EventRow
<1>3. \/ checkpoints' = checkpoints /\ lastCp' = [lastCp EXCEPT ![r] = lastCp[r]]
      \/ checkpoints' = checkpoints \cup {p} /\ lastCp' = [lastCp EXCEPT ![r] = n]
  <2>1. PICK cp \in {{}, {p}} :
            checkpoints' = checkpoints \cup cp /\ lastCp' = [lastCp EXCEPT ![r] = WrittenCp(r, cp)]
    BY <1>1 DEF AppendCommit
  <2>2. WrittenCp(r, {}) = lastCp[r]
    BY DEF WrittenCp
  <2>3. (CHOOSE c \in {p} : TRUE) = p
    OBVIOUS
  <2>4. WrittenCp(r, {p}) = n
    BY <2>3 DEF WrittenCp
  <2>5. QED
    BY <2>1, <2>2, <2>4
<1>4. /\ lastSeq' = [lastSeq EXCEPT ![r] = n]
      /\ UNCHANGED <<keyOf, tokens, turnRows, links, calls>>
  BY <1>1 DEF AppendCommit
<1>5. tx' \in [Writer -> TxState] /\ SnapshotsHold'
  BY CommitOvertakes DEF AppendCommit, IInv
<1>6. TypeOK'
  BY <1>1, <1>2, <1>3, <1>4, <1>5 DEF IInv, TypeOK, EventRow, CpRow
<1>7. AbsentIsBlank' /\ LinksKnown'
  BY <1>1, <1>4 DEF IInv, TypeOK, AbsentIsBlank, LinksKnown, Present
<1>8. Gapless'
  <2>1. EventsOf(r)' = EventsOf(r) \cup {e} /\ \A q \in Run \ {r} : EventsOf(q)' = EventsOf(q)
    BY <1>2 DEF EventsOf
  <2>2. /\ \A q \in Run : lastSeq'[q] = IF q = r THEN n ELSE lastSeq[q]
        /\ lastSeq[r] \in Nat
    BY <1>1, <1>4 DEF IInv, TypeOK
  <2>3. Numbered(r)'
    BY <1>1, <1>2, <2>1, <2>2 DEF IInv, Gapless, Numbered
  <2>4. \A q \in Run \ {r} : Numbered(q)'
    BY <2>1, <2>2 DEF IInv, Gapless, Numbered
  <2>5. QED
    BY <2>3, <2>4 DEF Gapless
<1>9. CheckpointsMatchLog'
  <2>1. \A c \in checkpoints : c \in CpRow /\ (c.run = r => c.seq <= lastCp[r] /\ c.seq < n)
    <3> SUFFICES ASSUME NEW c \in checkpoints
                 PROVE  c \in CpRow /\ (c.run = r => c.seq <= lastCp[r] /\ c.seq < n)
      OBVIOUS
    <3>1. c \in CpRow /\ c.seq \in 1 .. lastSeq[c.run] /\ lastSeq[r] \in Nat
      BY DEF IInv, TypeOK, CheckpointsMatchLog
    <3>2. c.run = r => c.seq <= lastCp[r]
      BY <1>1 DEF IInv, CheckpointsMatchLog
    <3>3. QED
      BY <1>1, <3>1, <3>2
  <2>2. \A c \in checkpoints' : c.seq \in 1 .. lastSeq'[c.run]
    BY <1>1, <1>3, <1>4, <2>1 DEF IInv, TypeOK, CpRow, CheckpointsMatchLog
  <2>3. QED
    BY <1>1, <1>3, <1>4, <2>1, <2>2 DEF IInv, TypeOK, CpRow, CheckpointsMatchLog, Present
<1>10. QED
  BY <1>4, <1>5, <1>6, <1>7, <1>8, <1>9 DEF IInv, OneRunPerTurn, TotalsCountCallsOnce

-----------------------------------------------------------------------------
(* Turns, links and model calls *)

(* A turn row of its own, without a link.                                  *)
LEMMA CreateTurnKeeps == ASSUME IInv, NEW w \in Writer, CreateTurn(w) PROVE IInv'
<1>1. tx' \in [Writer -> TxState] /\ SnapshotsHold'
  BY CommitOvertakes DEF CreateTurn, IInv
<1>2. turnRows' \in SUBSET Turn /\ turnRows \subseteq turnRows'
  BY DEF CreateTurn, IInv, TypeOK
<1>3. UNCHANGED <<lastSeq, keyOf, lastCp, tokens, events, checkpoints, links, calls>>
  BY DEF CreateTurn
<1>4. QED
  BY <1>1, <1>2, <1>3 DEF IInv, TypeOK, AbsentIsBlank, LinksKnown, Gapless, Numbered, EventsOf,
     CheckpointsMatchLog, Present, OneRunPerTurn, TotalsCountCallsOnce

(* A turn is linked to the first run that asks for it.                     *)
LEMMA LinkTurnToRunKeeps == ASSUME IInv, NEW w \in Writer, LinkTurnToRun(w) PROVE IInv'
<1>1. tx' \in [Writer -> TxState] /\ SnapshotsHold'
  BY CommitOvertakes DEF LinkTurnToRun, IInv
<1>2. PICK r \in Run, t \in turnRows :
          LinkAdmits(r, t) /\ links' = links \cup {[run |-> r, turn |-> t]}
  BY DEF LinkTurnToRun
<1>3. UNCHANGED <<lastSeq, keyOf, lastCp, tokens, events, checkpoints, turnRows, calls>>
  BY DEF LinkTurnToRun
<1>4. links' \in SUBSET LinkRow /\ LinksKnown' /\ OneRunPerTurn'
  BY <1>2, <1>3 DEF IInv, TypeOK, LinksKnown, OneRunPerTurn, LinkRow, LinkAdmits
<1>5. QED
  BY <1>1, <1>3, <1>4 DEF IInv, TypeOK, AbsentIsBlank, Gapless, Numbered, EventsOf,
     CheckpointsMatchLog, Present, TotalsCountCallsOnce

(* A call that is reported again finds its row and adds nothing            *)
(* (runs.go:400-440).                                                      *)
LEMMA RecordRunModelCallKeeps ==
    ASSUME IInv, NEW w \in Writer, RecordRunModelCall(w) PROVE IInv'
<1>1. tx' \in [Writer -> TxState] /\ SnapshotsHold'
  BY CommitOvertakes DEF RecordRunModelCall, IInv
<1>2. PICK l \in links :
          /\ calls' = calls \cup {l}
          /\ tokens' = [tokens EXCEPT ![l.run] = @ + (IF Created(l) THEN 1 ELSE 0)]
  BY DEF RecordRunModelCall
<1>3. UNCHANGED <<lastSeq, keyOf, lastCp, events, checkpoints, turnRows, links>>
  BY DEF RecordRunModelCall
<1>4. l \in LinkRow /\ l.run \in Run
  BY DEF IInv, TypeOK, LinkRow
<1>5. /\ calls' \in SUBSET LinkRow /\ IsFiniteSet(calls')
      /\ tokens' \in [Run -> Nat]
  BY <1>2, <1>4, FS_AddElement DEF IInv, TypeOK
<1>6. TotalsCountCallsOnce'
  <2> DEFINE Of(q) == {c \in calls : c.run = q}
  <2>1. \A q \in Run : IsFiniteSet(Of(q))
    BY FS_Subset DEF IInv, TypeOK
  <2>2. \A q \in Run : {c \in calls' : c.run = q} = IF q = l.run THEN Of(q) \cup {l} ELSE Of(q)
    BY <1>2
  <2>3. Cardinality(Of(l.run) \cup {l})
            = IF l \in Of(l.run) THEN Cardinality(Of(l.run)) ELSE Cardinality(Of(l.run)) + 1
    BY <1>4, <2>1, FS_AddElement
  <2>4. l \in Of(l.run) <=> ~Created(l)
    BY DEF Created
  <2>5. \A q \in Run : tokens[q] = Cardinality(Of(q)) /\ tokens[q] \in Nat
    BY DEF IInv, TypeOK, TotalsCountCallsOnce
  <2> HIDE DEF Of
  <2>6. tokens'[l.run] = Cardinality(Of(l.run) \cup {l})
    BY <1>2, <1>4, <2>3, <2>4, <2>5 DEF IInv, TypeOK
  <2>7. \A q \in Run \ {l.run} : tokens'[q] = Cardinality(Of(q))
    BY <1>2, <1>4, <2>5 DEF IInv, TypeOK
  <2>8. QED
    BY <2>2, <2>6, <2>7 DEF TotalsCountCallsOnce
<1>7. QED
  BY <1>1, <1>3, <1>5, <1>6 DEF IInv, TypeOK, AbsentIsBlank, LinksKnown, Gapless, Numbered, EventsOf,
     CheckpointsMatchLog, Present, OneRunPerTurn

(* Every transaction keeps the tables in agreement.                        *)
LEMMA Stepwise == IInv /\ [Next]_vars => IInv'
<1> SUFFICES ASSUME IInv, [Next]_vars PROVE IInv'
  OBVIOUS
<1>1. CASE Next
  <2>1. PICK w \in Writer : Step(w)
    BY <1>1 DEF Next
  <2>2. QED
    BY <2>1, CreateRunKeeps, CreateRunWithTurnKeeps, AppendBeginKeeps, AppendCommitKeeps,
       AppendEndsKeeps, CreateTurnKeeps, LinkTurnToRunKeeps, RecordRunModelCallKeeps DEF Step
<1>2. CASE UNCHANGED vars
  BY <1>2 DEF vars, tables, IInv, TypeOK, SnapshotsHold, AbsentIsBlank, LinksKnown, Gapless,
     Numbered, EventsOf, CheckpointsMatchLog, Present, OneRunPerTurn, TotalsCountCallsOnce
<1>3. QED
  BY <1>1, <1>2

-----------------------------------------------------------------------------
(* Theorems *)

\* The inductive invariant of the tables and of the open transactions.
THEOREM StoreInvariance == Spec => []IInv
<1>1. Init => IInv
  BY Initially
<1>2. IInv /\ [Next]_vars => IInv'
  BY Stepwise
<1>3. QED
  BY <1>1, <1>2, PTL DEF Spec

\* runs.go AppendRunEvent: however transactions overlap, a run's events are numbered
\* from 1 to last_event_seq, one each.
THEOREM EventsAreNumbered == Spec => []LogIsGapless
<1>1. IInv => LogIsGapless
  <2> SUFFICES ASSUME IInv, NEW r \in Run
               PROVE  /\ {e.seq : e \in EventsOf(r)} = 1 .. lastSeq[r]
                      /\ \A e, f \in EventsOf(r) : e.seq = f.seq => e = f
    BY DEF LogIsGapless
  <2>1. Numbered(r)
    BY DEF IInv, Gapless
  <2>2. {e.seq : e \in EventsOf(r)} \subseteq 1 .. lastSeq[r]
    BY <2>1 DEF Numbered
  <2>3. 1 .. lastSeq[r] \subseteq {e.seq : e \in EventsOf(r)}
    BY <2>1 DEF Numbered
  <2>4. QED
    BY <2>1, <2>2, <2>3 DEF Numbered
<1>2. QED
  BY <1>1, StoreInvariance, PTL

\* runs.go: the checkpoint a run's row names is the latest one, and belongs to an event.
THEOREM CheckpointIsLatest == Spec => []CheckpointsMatchLog
<1>1. IInv => CheckpointsMatchLog
  BY DEF IInv
<1>2. QED
  BY <1>1, StoreInvariance, PTL

\* runs.go LinkTurnToRun, CreateRunWithTurn: no turn belongs to two runs.
THEOREM TurnHasOneRun == Spec => []OneRunPerTurn
<1>1. IInv => OneRunPerTurn
  BY DEF IInv
<1>2. QED
  BY <1>1, StoreInvariance, PTL

\* runs.go RecordRunModelCall: however often a model call is reported, it is billed once.
THEOREM BilledOnce == Spec => []TotalsCountCallsOnce
<1>1. IInv => TotalsCountCallsOnce
  BY DEF IInv
<1>2. QED
  BY <1>1, StoreInvariance, PTL

-----------------------------------------------------------------------------
(* The refinement *)

(* Reading the rows by their number finds the one row that has it.         *)
LEMMA TheRow ==
    ASSUME NEW E, NEW e \in E, NEW i, e.seq = i, \A f, g \in E : f.seq = g.seq => f = g
    PROVE  (CHOOSE f \in E : f.seq = i) = e
OBVIOUS

\* Rows read by their number: LogOf of a run's events.
Reads(E, n) == [i \in 1 .. n |-> (CHOOSE e \in E : e.seq = i).type]

(* The rows of a run, read in order, are a sequence.                       *)
LEMMA LogIsSeq ==
    ASSUME NEW n \in Nat, NEW E, E \subseteq EventRow,
           \A i \in 1 .. n : \E e \in E : e.seq = i
    PROVE  Reads(E, n) \in Seq(EventType)
<1>1. \A i \in 1 .. n : (CHOOSE e \in E : e.seq = i) \in EventRow
  OBVIOUS
<1>2. \A i \in 1 .. n : (CHOOSE e \in E : e.seq = i).type \in EventType
  BY <1>1 DEF EventRow
<1>3. QED
  BY <1>2, IsASeq DEF Reads

(* One row more, with the next number, is one event more at the end.       *)
LEMMA LogGrows ==
    ASSUME NEW n \in Nat, NEW E, E \subseteq EventRow, NEW e \in EventRow,
           e.seq = n + 1,
           \A f \in E : f.seq \in 1 .. n,
           \A i \in 1 .. n : \E f \in E : f.seq = i,
           \A f, g \in E : f.seq = g.seq => f = g
    PROVE  Reads(E \cup {e}, n + 1) = Append(Reads(E, n), e.type)
<1> DEFINE F == E \cup {e}
           old == Reads(E, n)
           new == Reads(F, n + 1)
<1>1. \A f, g \in F : f.seq = g.seq => f = g
  OBVIOUS
<1>2. F \subseteq EventRow /\ \A i \in 1 .. n + 1 : \E f \in F : f.seq = i
  OBVIOUS
<1>3. old \in Seq(EventType) /\ new \in Seq(EventType) /\ e.type \in EventType
  BY <1>2, LogIsSeq DEF EventRow
<1>4. Len(old) = n /\ Len(new) = n + 1
  BY <1>3, LenProperties DEF Reads
<1>5. \A i \in 1 .. n : new[i] = old[i]
  <2> SUFFICES ASSUME NEW i \in 1 .. n PROVE new[i] = old[i]
    OBVIOUS
  <2>1. PICK f \in E : f.seq = i
    OBVIOUS
  <2>2. (CHOOSE g \in E : g.seq = i) = f
    BY <2>1, TheRow
  <2>3. (CHOOSE g \in F : g.seq = i) = f
    BY <1>1, <2>1, TheRow
  <2>4. QED
    BY <2>2, <2>3 DEF Reads
<1>6. new[n + 1] = e.type
  <2>1. (CHOOSE g \in F : g.seq = n + 1) = e
    BY <1>1, TheRow
  <2>2. QED
    BY <2>1 DEF Reads
<1> HIDE DEF old, new
<1>7. new = Append(old, e.type)
  <2>1. /\ Append(old, e.type) \in Seq(EventType) /\ Len(Append(old, e.type)) = n + 1
        /\ \A i \in 1 .. n : Append(old, e.type)[i] = old[i]
        /\ Append(old, e.type)[n + 1] = e.type
    BY <1>3, <1>4, AppendProperties
  <2>2. \A i \in 1 .. n + 1 : new[i] = Append(old, e.type)[i]
    BY <1>5, <1>6, <2>1
  <2>3. QED
    BY <1>3, <1>4, <2>1, <2>2, SeqEqual
<1>8. QED
  BY <1>7 DEF old, new

TheLog == [r \in Run |-> LogOf(r)]

(* A step that keeps the rows of the events keeps the log.                 *)
LEMMA SameLog ==
    ASSUME UNCHANGED <<lastSeq, keyOf, events>>
    PROVE  UNCHANGED <<TheLog, keyOf>>
BY DEF TheLog, LogOf, EventsOf

(* The rows of a new run are the abstract log's creation.                  *)
LEMMA CreationIsCreate ==
    ASSUME IInv, NEW r \in Run, NEW k \in Key \cup {None}, NEW typ \in EventType,
           CreateRows(r, k, typ)
    PROVE  Log!Create(r, k, typ)
<1> DEFINE e == [run |-> r, seq |-> 1, type |-> typ]
<1>1. /\ lastSeq[r] = 0 /\ UniqueIndexAdmits(k)
      /\ lastSeq' = [lastSeq EXCEPT ![r] = 1] /\ keyOf' = [keyOf EXCEPT ![r] = k]
      /\ events' = events \cup {e}
  BY DEF CreateRows, IInv, TypeOK, Present
<1>2. LogOf(r) = <<>>
  BY <1>1 DEF LogOf
<1>3. EventsOf(r) = {}
  BY <1>1 DEF IInv, Gapless, Numbered
<1>4. EventsOf(r)' = EventsOf(r) \cup {e} /\ \A q \in Run \ {r} : EventsOf(q)' = EventsOf(q)
  BY <1>1 DEF EventsOf
<1>5. \A q \in Run : lastSeq'[q] = IF q = r THEN 1 ELSE lastSeq[q]
  BY <1>1 DEF IInv, TypeOK
<1>6. LogOf(r)' = <<typ>>
  <2>1. LogOf(r)' = [i \in 1 .. 1 |-> (CHOOSE f \in {e} : f.seq = i).type]
    BY <1>3, <1>4, <1>5 DEF LogOf
  <2>2. (CHOOSE f \in {e} : f.seq = 1) = e
    OBVIOUS
  <2>3. QED
    BY <2>1, <2>2
<1>7. \A q \in Run \ {r} : LogOf(q)' = LogOf(q)
  <2> SUFFICES ASSUME NEW q \in Run \ {r} PROVE LogOf(q)' = LogOf(q)
    OBVIOUS
  <2>1. EventsOf(q)' = EventsOf(q) /\ lastSeq'[q] = lastSeq[q]
    BY <1>4, <1>5
  <2>2. QED
    BY <2>1 DEF LogOf
<1>8. TheLog' = [TheLog EXCEPT ![r] = <<typ>>]
  BY <1>6, <1>7 DEF TheLog
<1>9. k # None => \A q \in Run : keyOf[q] # k
  BY <1>1 DEF UniqueIndexAdmits, IInv, AbsentIsBlank
<1>10. QED
  BY <1>1, <1>2, <1>8, <1>9 DEF Log!Create, TheLog

(* The commit of an append is the abstract log's append.                   *)
LEMMA CommitIsAppend ==
    ASSUME IInv, NEW w \in Writer, AppendCommit(w)
    PROVE  \E r \in Run, typ \in EventType : Log!AppendEvent(r, typ)
<1>1. PICK r \in Run, n \in Nat :
          r = tx[w].run /\ n = lastSeq[r] /\ Present(r) /\ NextSeq(w) = n + 1 /\ WrittenSeq(w) = n + 1
  BY DEF IInv, TypeOK, AppendCommit, SnapshotsHold, NextSeq, WrittenSeq
<1>2. PICK e \in EventRow :
          e.run = r /\ e.seq = n + 1 /\ events' = events \cup {e}
  <2>1. PICK typ \in EventType : events' = events \cup {[run |-> r, seq |-> n + 1, type |-> typ]}
    BY <1>1 DEF AppendCommit
  <2>2. [run |-> r, seq |-> n + 1, type |-> typ] \in EventRow
    BY DEF EventRow
  <2>3. QED
    BY <2>1, <2>2
<1>3. lastSeq' = [lastSeq EXCEPT ![r] = n + 1] /\ keyOf' = keyOf
  BY <1>1 DEF AppendCommit
<1>4. EventsOf(r)' = EventsOf(r) \cup {e} /\ \A q \in Run \ {r} : EventsOf(q)' = EventsOf(q)
  BY <1>2 DEF EventsOf
<1>5. \A q \in Run : lastSeq'[q] = IF q = r THEN n + 1 ELSE lastSeq[q]
  BY <1>3 DEF IInv, TypeOK
<1>6. LogOf(r)' = Append(LogOf(r), e.type)
  <2>1. /\ EventsOf(r) \subseteq EventRow
        /\ \A f \in EventsOf(r) : f.seq \in 1 .. n
        /\ \A i \in 1 .. n : \E f \in EventsOf(r) : f.seq = i
        /\ \A f, g \in EventsOf(r) : f.seq = g.seq => f = g
    BY <1>1 DEF IInv, Gapless, Numbered, TypeOK, EventsOf
  <2> HIDE DEF EventsOf
  <2> DEFINE E == EventsOf(r)
             F == E \cup {e}
  <2> HIDE DEF E
  <2>2. Reads(F, n + 1) = Append(Reads(E, n), e.type)
    <3>1. /\ E \subseteq EventRow
          /\ \A f \in E : f.seq \in 1 .. n
          /\ \A i \in 1 .. n : \E f \in E : f.seq = i
          /\ \A f, g \in E : f.seq = g.seq => f = g
      BY <2>1 DEF E
    <3>2. e \in EventRow /\ e.seq = n + 1 /\ n \in Nat
      BY <1>2
    <3>3. QED
      BY <3>1, <3>2, LogGrows
  <2>3. F = EventsOf(r)' /\ E = EventsOf(r) /\ lastSeq'[r] = n + 1 /\ lastSeq[r] = n
    BY <1>1, <1>4, <1>5 DEF E
  <2> HIDE DEF F
  <2>4. LogOf(r) = Reads(E, n)
    BY <2>3 DEF LogOf, Reads
  <2>5. LogOf(r)' = Reads(F, n + 1)
    BY <2>3 DEF LogOf, Reads
  <2>6. QED
    BY <2>2, <2>4, <2>5
<1>7. \A q \in Run \ {r} : LogOf(q)' = LogOf(q)
  <2> SUFFICES ASSUME NEW q \in Run \ {r} PROVE LogOf(q)' = LogOf(q)
    OBVIOUS
  <2>1. EventsOf(q)' = EventsOf(q) /\ lastSeq'[q] = lastSeq[q]
    BY <1>4, <1>5
  <2>2. QED
    BY <2>1 DEF LogOf
<1>8. TheLog' = [TheLog EXCEPT ![r] = Append(@, e.type)]
  BY <1>6, <1>7 DEF TheLog
<1>9. LogOf(r) # <<>>
  <2>1. LogOf(r) \in Seq(EventType) /\ Len(LogOf(r)) = n
    <3>1. EventsOf(r) \subseteq EventRow /\ \A i \in 1 .. n : \E f \in EventsOf(r) : f.seq = i
      BY <1>1 DEF IInv, Gapless, Numbered, TypeOK, EventsOf
    <3>2. Reads(EventsOf(r), n) \in Seq(EventType)
      BY <3>1, LogIsSeq
    <3>3. LogOf(r) \in Seq(EventType)
      BY <1>1, <3>2 DEF LogOf, Reads
    <3>4. DOMAIN LogOf(r) = 1 .. n
      BY <1>1 DEF LogOf
    <3>5. QED
      BY <3>3, <3>4, LenProperties
  <2>2. n > 0
    BY <1>1 DEF Present
  <2>3. QED
    BY <2>1, <2>2
<1>10. e.type \in EventType
  BY DEF EventRow
<1>11. Log!AppendEvent(r, e.type)
  BY <1>3, <1>8, <1>9 DEF Log!AppendEvent, TheLog
<1>12. QED
  BY <1>10, <1>11

\* runs.go: whatever writers do together, each transaction creates one run with its
\* first event, appends one event to one run, or leaves every log as it is.
THEOREM TransactionsImplementLog == Spec => ImplementsRunLog
<1>1. Init => Log!Init
  <2> SUFFICES ASSUME Init PROVE Log!Init
    OBVIOUS
  <2>1. \A r \in Run : LogOf(r) = <<>>
    BY DEF Init, LogOf
  <2>2. QED
    BY <2>1 DEF Init, Log!Init
<1>2. ASSUME IInv, [Next]_vars
      PROVE  [Log!Next]_<<TheLog, keyOf>>
  <2>1. ASSUME NEW r \in Run, NEW k \in Key \cup {None}, NEW typ \in EventType,
               CreateRows(r, k, typ)
        PROVE  Log!Next
    BY <1>2, <2>1, CreationIsCreate DEF Log!Next
  <2>2. ASSUME NEW w \in Writer, CreateRun(w) \/ CreateRunWithTurn(w) PROVE Log!Next
    BY <2>1, <2>2 DEF CreateRun, CreateRunWithTurn
  <2>3. ASSUME NEW w \in Writer, AppendCommit(w) PROVE Log!Next
    BY <1>2, <2>3, CommitIsAppend DEF Log!Next
  <2>4. ASSUME NEW w \in Writer,
               AppendBegin(w) \/ AppendBusy(w) \/ AppendRollback(w)
               \/ CreateTurn(w) \/ LinkTurnToRun(w) \/ RecordRunModelCall(w)
        PROVE  UNCHANGED <<lastSeq, keyOf, events>>
    BY <2>4 DEF AppendBegin, AppendBusy, AppendRollback, CreateTurn, LinkTurnToRun,
       RecordRunModelCall, tables
  <2>5. CASE UNCHANGED vars
    BY <2>5, SameLog DEF vars, tables
  <2>6. QED
    BY <1>2, <2>2, <2>3, <2>4, <2>5, SameLog DEF Next, Step
<1>3. QED
  BY <1>1, <1>2, StoreInvariance, PTL DEF Spec, ImplementsRunLog, Log!Spec, TheLog
=============================================================================
