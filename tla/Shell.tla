-------------------------------- MODULE Shell --------------------------------
(***************************************************************************)
(* The conversation shell (internal/harnessshell): what a key or an event  *)
(* of the host does to its state.  The shell runs on the event loop of the *)
(* terminal program, one message at a time, so that each operator below is *)
(* one call of Model.Update: it maps the shell's record to the next one.   *)
(*                                                                         *)
(* The transcript keeps its assistant rows only: a user's row is added and *)
(* removed with its assistant row, and status lines, information rows and  *)
(* the layout are left out.                                                *)
(***************************************************************************)
EXTENDS Naturals, Sequences, SequencesExt

CONSTANTS
    Run,    \* run ids
    Perm,   \* ids of permission requests
    None    \* the empty id

ASSUME ShellAssumption == None \notin Run \cup Perm

(***************************************************************************)
(* What the shell holds.  A submission is named by its place in "sent",    *)
(* the history of what beginSubmission handed to the host; 0 names none.   *)
(* pendingSubmissions is filled and emptied within one call and left out.  *)
(***************************************************************************)
NewShell ==
    [rows      |-> <<>>,    \* transcriptItems: the assistant rows
     streaming |-> FALSE,
     armed     |-> FALSE,   \* interruptArmed
     run       |-> None,    \* activeRunID
     queued    |-> <<>>,    \* queuedSubmissions: messages typed while streaming
     sent      |-> <<>>,
     perms     |-> <<>>,    \* pendingPermissions
     active    |-> 0,       \* activePermissionIndex, counted from 1
     preview   |-> FALSE]

Row(sub, r) == [sub |-> sub, run |-> r, text |-> <<>>, streaming |-> TRUE]

-----------------------------------------------------------------------------
(* Rows *)

StreamingRows(s)   == {i \in DOMAIN s.rows : s.rows[i].streaming}
StreamingRowsOf(s, r) == {i \in StreamingRows(s) : s.rows[i].run = r}

\* assistantRowIndexForRun: the first streaming row of the run, else the last
\* streaming row without a run; for no run, the last streaming row.  0 is none.
RowFor(s, r) ==
    LET last(I) == IF I = {} THEN 0 ELSE Max(I)
    IN  IF r = None THEN last(StreamingRows(s))
        ELSE IF StreamingRowsOf(s, r) # {} THEN Min(StreamingRowsOf(s, r))
        ELSE last(StreamingRowsOf(s, None))

AssignRun(s, sub, r) ==
    [s EXCEPT !.rows = [i \in DOMAIN s.rows |->
        IF sub # 0 /\ s.rows[i].sub = sub THEN [s.rows[i] EXCEPT !.run = r] ELSE s.rows[i]]]

\* A refused submission leaves no row behind.
RemovePlaceholder(s, sub) == [s EXCEPT !.rows = SelectSeq(@, LAMBDA row : row.sub # sub)]

-----------------------------------------------------------------------------
(* Submitting *)

BeginSubmission(s, said) ==
    [s EXCEPT !.rows = Append(@, Row(Len(s.sent) + 1, None)),
              !.streaming = TRUE, !.armed = FALSE,
              !.sent = Append(@, said)]

Enqueue(s, m) == [s EXCEPT !.queued = Append(@, m)]

DrainQueue(s) == [s EXCEPT !.queued = <<>>]

\* Queued messages leave as one merged submission, in the order they were typed.
Release(s) == IF s.queued = <<>> THEN s ELSE BeginSubmission(DrainQueue(s), s.queued)

\* A mutant of SubmitText: only a streaming run makes a message wait.
SubmitTextPastQueue(s, m) ==
    IF s.streaming THEN Enqueue(s, m) ELSE BeginSubmission(s, <<m>>)

\* Enter on a message: it waits while a run streams or others wait before it.
SubmitText(s, m) ==
    IF s.streaming THEN Enqueue(s, m)
    ELSE IF s.queued # <<>> THEN Release(Enqueue(s, m))
    ELSE BeginSubmission(s, <<m>>)

-----------------------------------------------------------------------------
(* Pending permissions *)

ActivePermission(s) == s.perms[s.active]

PermissionRequested(s, p) ==
    [s EXCEPT !.perms = Append(@, p), !.active = Len(s.perms) + 1]

PermissionResolved(s, p) ==
    LET left == RemoveFirst(s.perms, p)
    IN  [s EXCEPT !.perms = left, !.active = IF @ > Len(left) THEN Len(left) ELSE @]

-----------------------------------------------------------------------------
(* Events of the host *)

SubmissionAccepted(s, sub, r) ==
    AssignRun([s EXCEPT !.run = r], sub, r)

\* A mutant of SubmissionFailed: the shell goes on streaming.
SubmissionFailedStreaming(s, sub) == [RemovePlaceholder(s, sub) EXCEPT !.run = None]

SubmissionFailed(s, sub) ==
    [RemovePlaceholder(s, sub) EXCEPT !.streaming = FALSE, !.armed = FALSE, !.run = None]

RunStarted(s, sub, r) ==
    LET started == [s EXCEPT !.streaming = TRUE, !.run = r]
    IN  IF sub # 0 THEN AssignRun(started, sub, r)
        ELSE IF RowFor(s, r) = 0 THEN [started EXCEPT !.rows = Append(@, Row(0, r))]
        ELSE started

\* Text without a row is dropped.
RunDelta(s, r, chunk) ==
    LET i == RowFor(s, r)
    IN  IF i = 0 THEN s
        ELSE [s EXCEPT !.rows[i].text = Append(@, [run |-> r, chunk |-> chunk])]

\* The end of any run, the active one or not, ends the streaming.
RunEnded(s, r) ==
    LET i == RowFor(s, r)
        closed == IF i = 0 THEN s ELSE [s EXCEPT !.rows[i].streaming = FALSE]
    IN  [closed EXCEPT !.streaming = FALSE, !.armed = FALSE, !.run = None]

\* A completed run, unlike a stopped or a failed one, releases the queue.
RunCompleted(s, r) == Release(RunEnded(s, r))

TranscriptClear(s) == [s EXCEPT !.rows = <<>>, !.queued = <<>>]

PreviewLoaded(s) == [s EXCEPT !.preview = TRUE]

\* applyHostEvent
ApplyHostEvent(s, e) ==
    CASE e.type = "accepted"  -> SubmissionAccepted(s, e.sub, e.run)
      [] e.type = "refused"   -> SubmissionFailed(s, e.sub)
      [] e.type = "started"   -> RunStarted(s, e.sub, e.run)
      [] e.type = "delta"     -> RunDelta(s, e.run, e.chunk)
      [] e.type = "completed" -> RunCompleted(s, e.run)
      [] e.type \in {"stopped", "failed"} -> RunEnded(s, e.run)
      [] e.type = "requested" -> PermissionRequested(s, e.perm)
      [] e.type = "resolved"  -> PermissionResolved(s, e.perm)
      [] e.type = "cleared"   -> TranscriptClear(s)
      [] e.type = "preview"   -> PreviewLoaded(s)

-----------------------------------------------------------------------------
(* Keys *)

\* Esc closes an open preview first; then the first Esc arms the interrupt of a
\* streaming run and the second one asks the host for it.
EscInterrupts(s) == ~s.preview /\ s.streaming /\ s.armed

Esc(s) ==
    IF s.preview THEN [s EXCEPT !.preview = FALSE]
    ELSE IF s.streaming THEN [s EXCEPT !.armed = ~@]
    ELSE s

\* Up and Down on an empty composer walk the pending requests.
MovePermission(s, i) == IF Len(s.perms) < 2 THEN s ELSE [s EXCEPT !.active = i]
=============================================================================
