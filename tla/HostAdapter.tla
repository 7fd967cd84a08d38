----------------------------- MODULE HostAdapter -----------------------------
(***************************************************************************)
(* The adapter between the host's runtime and the shell (internal/         *)
(* harnesshost/adapter.go): it forwards the host's events to the shell,    *)
(* holds text back while a permission is pending and keeps the text of     *)
(* runs that are not attached.  Like the shell it runs on the event loop,  *)
(* so that forwardEvent is one step.                                       *)
(***************************************************************************)
EXTENDS Shell

NewAdapter ==
    [shell    |-> NewShell,
     attached |-> None,                     \* attachedRunID
     pending  |-> {},                       \* pendingPermissions
     paused   |-> <<>>,                     \* pauseBuffer
     detached |-> [r \in Run |-> <<>>]]     \* detachedTranscripts

(* Host events *)
Event(type, sub, r) == [type |-> type, sub |-> sub, run |-> r, perm |-> None, chunk |-> 0]
Delta(r, chunk)     == [Event("delta", 0, r) EXCEPT !.chunk = chunk]
Prompt(type, p)     == [Event(type, 0, None) EXCEPT !.perm = p]

ToShell(a, e)       == [a EXCEPT !.shell = ApplyHostEvent(@, e)]
AllToShell(a, evts) == FoldLeft(ToShell, a, evts)

\* A delta is buffered while a permission is pending, and kept apart while its
\* run is not the attached one.
ForwardDelta(a, e) ==
    IF a.pending # {} THEN [a EXCEPT !.paused = Append(@, e)]
    ELSE IF e.run # a.attached THEN [a EXCEPT !.detached[e.run] = Append(@, e)]
    ELSE ToShell(a, e)

\* The event of a run that starts is followed by the text kept for it, that of
\* the last resolution by the text held back.
ForwardStarted(a, e) ==
    LET b == ToShell([a EXCEPT !.attached = e.run], e)
    IN  AllToShell([b EXCEPT !.detached[e.run] = <<>>], a.detached[e.run])

\* A mutant of ForwardResolved: the text held back is left where it is.
ForwardResolvedSilently(a, e) ==
    ToShell([a EXCEPT !.pending = @ \ {e.perm}], e)

ForwardResolved(a, e) ==
    LET left == a.pending \ {e.perm}
        b == ToShell([a EXCEPT !.pending = left], e)
    IN  IF left # {} THEN b ELSE AllToShell([b EXCEPT !.paused = <<>>], a.paused)

ForwardEvent(a, e) ==
    CASE e.type = "delta"    -> ForwardDelta(a, e)
      [] e.type = "started"  -> ForwardStarted(a, e)
      [] e.type = "resolved" -> ForwardResolved(a, e)
      [] e.type = "accepted" -> ToShell([a EXCEPT !.attached = e.run], e)
      [] e.type = "requested" -> ToShell([a EXCEPT !.pending = @ \cup {e.perm}], e)
      [] e.type \in {"completed", "stopped", "failed"} ->
            ToShell(IF e.run = a.attached THEN [a EXCEPT !.attached = None] ELSE a, e)
      [] OTHER -> ToShell(a, e)
=============================================================================
