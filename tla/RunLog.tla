------------------------------- MODULE RunLog -------------------------------
(***************************************************************************)
(* What the run storage promises its callers (Store interface of           *)
(* internal/storage/store.go, ADR-0015 "Event Ordering"): each run has an  *)
(* append-only sequence of events that begins when the run is created, and *)
(* an idempotency key names at most one run.  A call does one of these     *)
(* things or nothing.                                                      *)
(***************************************************************************)
EXTENDS Sequences

CONSTANTS Run, Key, None, Event

VARIABLES
    log,     \* the events of a run, <<>> until the run is created
    keyOf    \* the key a run was created under, None for a key of its own

Init ==
    /\ log = [r \in Run |-> <<>>]
    /\ keyOf = [r \in Run |-> None]

Create(r, k, e) ==
    /\ log[r] = <<>>
    /\ k # None => \A s \in Run : keyOf[s] # k
    /\ log' = [log EXCEPT ![r] = <<e>>]
    /\ keyOf' = [keyOf EXCEPT ![r] = k]

AppendEvent(r, e) ==
    /\ log[r] # <<>>
    /\ log' = [log EXCEPT ![r] = Append(@, e)]
    /\ UNCHANGED keyOf

Next ==
    \E r \in Run, e \in Event :
        \/ \E k \in Key \cup {None} : Create(r, k, e)
        \/ AppendEvent(r, e)

Spec == Init /\ [][Next]_<<log, keyOf>>
=============================================================================
