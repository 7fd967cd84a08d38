------------------------------ MODULE Sessions ------------------------------
(***************************************************************************)
(* The lock of a session: the columns lock_owner and lock_expires_at of    *)
(* its row (internal/storage sessions.go), the requests that take it, the  *)
(* grace timer that frees it after its connection is lost, and the writers *)
(* of the whole row, which write the lock with it (internal/runtime        *)
(* session.go, turn.go, connection.go, routing.go, cost.go).               *)
(***************************************************************************)
EXTENDS Naturals

CONSTANTS
    Conn,         \* connection ids; a reconnecting harness gets a new one
    Session,
    None,
    Methods,      \* the requests the clients send
    MaxRequests,  \* bound: requests per connection
    MaxCrashes,   \* bound: crashes of the server process
    LocksExpire   \* whether SessionLockTTL may pass

AllMethods == {"session.create", "session.resume", "session.fork",
               "turn.submit", "model.switch"}

ASSUME SessionsAssumption ==
    /\ None \notin Conn /\ None \notin Session
    /\ Methods \subseteq AllMethods
    /\ MaxRequests \in Nat /\ MaxCrashes \in Nat
    /\ LocksExpire \in BOOLEAN

VARIABLES
    rows,     \* the sessions table: presence and lock columns
    conn,     \* the connection: "new", "up" or "down"
    bound,    \* Connection.sessionID
    timer,    \* the session a pending grace timer will release
    req,      \* the request the connection's read goroutine is handling
    left,     \* requests a connection may still send
    turns,    \* turns in flight: <<connection, session>>, one each (bound)
    crashes

vars == <<rows, conn, bound, timer, req, left, turns, crashes>>

Idle == [at |-> "idle", session |-> None, row |-> [present |-> FALSE, owner |-> None, expired |-> FALSE]]

Init ==
    /\ rows = [s \in Session |-> Idle.row]
    /\ conn = [c \in Conn |-> "new"]
    /\ bound = [c \in Conn |-> None]
    /\ timer = [c \in Conn |-> None]
    /\ req = [c \in Conn |-> Idle]
    /\ left = [c \in Conn |-> MaxRequests]
    /\ turns = {}
    /\ crashes = 0

Up(c) == conn[c] = "up"

-----------------------------------------------------------------------------
(* The store *)

CreateSession(s) == rows' = [rows EXCEPT ![s].present = TRUE]

\* Mutant: the lock is taken from whoever has it.
AnyLock(s, c) == TRUE

\* Mutant: the time a lock was given is not looked at.
NobodyElse(s, c) == rows[s].owner \in {None, c}

\* AcquireSessionLock: free, expired, or held by the caller already.
LockAdmits(s, c) == rows[s].owner \in {None, c} \/ rows[s].expired

AcquireSessionLock(s, c) ==
    rows' = [rows EXCEPT ![s].owner = c, ![s].expired = FALSE]

\* ReleaseSessionLock names the owner it releases.
Released(s, c) ==
    IF rows[s].owner = c THEN [rows EXCEPT ![s].owner = None, ![s].expired = FALSE] ELSE rows

-----------------------------------------------------------------------------
(* Connections *)

Connect(c) ==
    /\ conn[c] = "new"
    /\ conn' = [conn EXCEPT ![c] = "up"]
    /\ UNCHANGED <<rows, bound, timer, req, left, turns, crashes>>

\* Run returns: scheduleGracePeriodRelease for the session it is bound to.
Drop(c) ==
    /\ Up(c) /\ req[c] = Idle
    /\ conn' = [conn EXCEPT ![c] = "down"]
    /\ timer' = [timer EXCEPT ![c] = bound[c]]
    /\ UNCHANGED <<rows, bound, req, left, turns, crashes>>

\* GracePeriod has passed.
GraceFires(c) ==
    /\ timer[c] # None
    /\ rows' = Released(timer[c], c)
    /\ timer' = [timer EXCEPT ![c] = None]
    /\ UNCHANGED <<conn, bound, req, left, turns, crashes>>

\* GracePeriod has passed and the store fails: the error of ReleaseSessionLock
\* is dropped and nothing tries again.
GraceFails(c) ==
    /\ timer[c] # None
    /\ timer' = [timer EXCEPT ![c] = None]
    /\ UNCHANGED <<rows, conn, bound, req, left, turns, crashes>>

\* SessionLockTTL has passed since the lock was acquired: a ping refreshes the
\* connection's LastPing and nothing refreshes the lock.
LockExpires(s) ==
    /\ LocksExpire
    /\ rows[s].owner # None /\ ~rows[s].expired
    /\ rows' = [rows EXCEPT ![s].expired = TRUE]
    /\ UNCHANGED <<conn, bound, timer, req, left, turns, crashes>>

Crash ==
    /\ crashes < MaxCrashes
    /\ crashes' = crashes + 1
    /\ conn' = [c \in Conn |-> IF Up(c) THEN "down" ELSE conn[c]]
    /\ timer' = [c \in Conn |-> None]
    /\ req' = [c \in Conn |-> Idle]
    /\ turns' = {}
    /\ UNCHANGED <<rows, bound, left>>

-----------------------------------------------------------------------------
(* Requests *)

Receive(c, m) ==
    /\ m \in Methods
    /\ Up(c) /\ req[c] = Idle
    /\ left[c] > 0
    /\ left' = [left EXCEPT ![c] = @ - 1]

Goto(c, at, s) == req' = [req EXCEPT ![c] = [at |-> at, session |-> s, row |-> rows[s]]]
Reply(c) == req' = [req EXCEPT ![c] = Idle]

\* An error of the store, or the refusal of a lock that another holds.
Fail(c) ==
    /\ req[c] # Idle
    /\ Reply(c)
    /\ UNCHANGED <<rows, conn, bound, timer, left, turns, crashes>>

\* session.create: insert the row, then take its lock.
SessionCreate(c) ==
    /\ Receive(c, "session.create")
    /\ \E s \in Session :
        /\ ~rows[s].present
        /\ CreateSession(s)
        /\ Goto(c, "lock_created", s)
    /\ UNCHANGED <<conn, bound, timer, turns, crashes>>

\* session.resume of a session that exists: read it, then take its lock.
SessionResume(c) ==
    /\ Receive(c, "session.resume")
    /\ \E s \in Session : rows[s].present /\ Goto(c, "lock_resumed", s)
    /\ UNCHANGED <<rows, conn, bound, timer, turns, crashes>>

\* The lock of a create or a resume.  cancelGracePeriodRelease is called on the
\* connection that resumes, which has no timer: timer is left alone.
Lock(c, at) ==
    /\ req[c].at = at
    /\ LET s == req[c].session IN
        /\ LockAdmits(s, c)
        /\ AcquireSessionLock(s, c)
        /\ bound' = [bound EXCEPT ![c] = s]
    /\ Reply(c)
    /\ UNCHANGED <<conn, timer, left, turns, crashes>>

LockCreated(c) == Lock(c, "lock_created")
LockResumed(c) == Lock(c, "lock_resumed")

\* ListTurns or the restore fails after the lock was taken: c holds the lock of
\* a session it is not bound to.
RestoreFails(c) ==
    /\ req[c].at = "lock_resumed"
    /\ LockAdmits(req[c].session, c)
    /\ AcquireSessionLock(req[c].session, c)
    /\ Reply(c)
    /\ UNCHANGED <<conn, bound, timer, left, turns, crashes>>

\* session.fork: an unlocked row of its own.
SessionFork(c) ==
    /\ Receive(c, "session.fork")
    /\ \E src, s \in Session : rows[src].present /\ ~rows[s].present /\ CreateSession(s)
    /\ UNCHANGED <<conn, bound, timer, req, turns, crashes>>

\* turn.submit on a session that exists goes on without looking at its lock; on
\* a new one it inserts the row first.
TurnSubmit(c) ==
    /\ Receive(c, "turn.submit")
    /\ \E s \in Session : Goto(c, IF rows[s].present THEN "submit" ELSE "create", s)
    /\ UNCHANGED <<rows, conn, bound, timer, turns, crashes>>

\* The insert fails if another request has created the session since.
SubmitCreate(c) ==
    /\ req[c].at = "create"
    /\ ~rows[req[c].session].present
    /\ CreateSession(req[c].session)
    /\ Goto(c, "lock_submitted", req[c].session)
    /\ UNCHANGED <<conn, bound, timer, left, turns, crashes>>

\* Whether the lock was acquired, or refused, or the store failed, is not looked at.
SubmitLock(c) ==
    /\ req[c].at = "lock_submitted"
    /\ LET s == req[c].session IN
        \/ LockAdmits(s, c) /\ AcquireSessionLock(s, c)
        \/ UNCHANGED rows
    /\ req' = [req EXCEPT ![c].at = "submit"]
    /\ UNCHANGED <<conn, bound, timer, left, turns, crashes>>

\* Bind the connection if it is not bound yet, and start the turn.
SubmitTurn(c) ==
    /\ req[c].at = "submit"
    /\ LET s == req[c].session IN
        /\ bound' = [bound EXCEPT ![c] = IF @ = None THEN s ELSE @]
        /\ turns' = turns \cup {<<c, s>>}
    /\ Reply(c)
    /\ UNCHANGED <<rows, conn, timer, left, crashes>>

\* model.switch reads the row and writes all of it back.
ModelSwitch(c) ==
    /\ Receive(c, "model.switch")
    /\ \E s \in Session : rows[s].present /\ Goto(c, "switch", s)
    /\ UNCHANGED <<rows, conn, bound, timer, turns, crashes>>

SwitchWrite(c) ==
    /\ req[c].at = "switch"
    /\ rows' = [rows EXCEPT ![req[c].session] = req[c].row]
    /\ Reply(c)
    /\ UNCHANGED <<conn, bound, timer, left, turns, crashes>>

\* A turn's relay ends without a turn to account for, or after its connection.
TurnEnds(t) ==
    /\ t \in turns
    /\ turns' = turns \ {t}
    /\ UNCHANGED <<rows, conn, bound, timer, req, left, crashes>>

\* UpdateAfterTurn: UpdateSession with the id and the totals; every other column,
\* the lock's among them, is written from the zero value.
CostUpdate(t) ==
    /\ t \in turns
    /\ Up(t[1])
    /\ turns' = turns \ {t}
    /\ rows' = [rows EXCEPT ![t[2]].owner = None, ![t[2]].expired = FALSE]
    /\ UNCHANGED <<conn, bound, timer, req, left, crashes>>

-----------------------------------------------------------------------------

Request(c) ==
    \/ SessionCreate(c) \/ LockCreated(c)
    \/ SessionResume(c) \/ LockResumed(c) \/ RestoreFails(c)
    \/ SessionFork(c)
    \/ TurnSubmit(c) \/ SubmitCreate(c) \/ SubmitLock(c) \/ SubmitTurn(c)
    \/ ModelSwitch(c) \/ SwitchWrite(c)
    \/ Fail(c)

\* The writers of a whole row.
RowWrite ==
    \/ \E c \in Conn : SwitchWrite(c)
    \/ \E t \in Conn \X Session : CostUpdate(t)

Next ==
    \/ \E c \in Conn : Connect(c) \/ Drop(c) \/ GraceFires(c) \/ GraceFails(c) \/ Request(c)
    \/ \E s \in Session : LockExpires(s)
    \/ \E t \in Conn \X Session : TurnEnds(t) \/ CostUpdate(t)
    \/ Crash

\* A timer that is set fires, though its store call may fail, and the time a lock
\* was given for passes.  Clients and losses are not obliged.
Spec == Init /\ [][Next]_vars
FairSpec ==
    /\ Spec
    /\ \A c \in Conn : WF_vars(GraceFires(c) \/ GraceFails(c))
    /\ \A s \in Session : WF_vars(LockExpires(s))

-----------------------------------------------------------------------------
(* Properties *)

\* AcquireSessionLock and ReleaseSessionLock are the discipline of the lock:
\* outside the writers of whole rows it passes only to a connection that is up,
\* from nobody, from an expired owner or from itself, and is freed only after
\* its owner's connection is lost, however requests, timers and a restart
\* interleave.  In particular the timer of a lost connection never frees the
\* lock another connection took over in the meantime.
LockPasses(s) ==
    LET old == rows[s] new == rows'[s] IN
        \/ RowWrite
        \/ new.owner # None /\ Up(new.owner) /\ (old.owner = None \/ old.expired)
        \/ new.owner = None /\ conn[old.owner] = "down"

LockDiscipline == [][\A s \in Session : rows'[s].owner # rows[s].owner => LockPasses(s)]_vars

\* connection.go, session.go, sessions.go: a lost connection does not keep a
\* session for ever.  Its lock is given up, or there comes a time when any other
\* connection may take it: also when the release fails and is not retried, when
\* the server stops and the timer with it, when model.switch wrote the lock back,
\* and for a session the connection was never bound to or has left for another,
\* which no timer is for.
SessionIsFreed ==
    \A s \in Session : \A c, d \in Conn : c # d =>
        ((conn[c] = "down" /\ rows[s].owner = c) ~> (rows[s].owner # c \/ LockAdmits(s, d)))

\* sessions.go, session.go: while its owner's connection is up and its TTL has not
\* passed, a lock is not lost.  (cost.go does not keep it.)
LockHeldWhileConnected ==
    [][\A s \in Session :
        LET c == rows[s].owner IN
            c # None /\ ~rows[s].expired /\ rows'[s].owner # c => ~Up(c)]_vars
=============================================================================
