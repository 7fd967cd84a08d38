--------------------------- MODULE SessionsProofs ---------------------------
(***************************************************************************)
(* Safety of Sessions for every number of connections, sessions, requests  *)
(* and crashes.                                                            *)
(***************************************************************************)
EXTENDS Sessions, TLAPS

Row == [present : BOOLEAN, owner : Conn \cup {None}, expired : BOOLEAN]

Places == {"idle", "lock_created", "lock_resumed", "create", "lock_submitted",
           "submit", "switch"}

TypeOK ==
    /\ rows \in [Session -> Row]
    /\ conn \in [Conn -> {"new", "up", "down"}]
    /\ bound \in [Conn -> Session \cup {None}]
    /\ timer \in [Conn -> Session \cup {None}]
    /\ req \in [Conn -> [at : Places, session : Session \cup {None}, row : Row]]
    /\ left \in [Conn -> Nat]
    /\ turns \in SUBSET (Conn \X Session)
    /\ crashes \in Nat

\* A request under way has the session it is for; only a connection that is up
\* handles one, and only one that was lost has a grace timer, for the session it
\* was bound to when it was lost.
RequestsAreServed ==
    \A c \in Conn :
        /\ req[c].at = "idle" => req[c] = Idle
        /\ req[c].at # "idle" => Up(c) /\ req[c].session \in Session
TimersAreOfLost ==
    \A c \in Conn : timer[c] # None => conn[c] = "down" /\ timer[c] = bound[c]

\* Only a connection that connected ever owns a lock.  Nothing ties the lock to an
\* owner that still is: model.switch may write back the lock of one long gone.
OwnersConnected ==
    /\ \A s \in Session : rows[s].owner # None => conn[rows[s].owner] # "new"
    /\ \A c \in Conn : req[c].row.owner # None => conn[req[c].row.owner] # "new"

SessionInv == TypeOK /\ RequestsAreServed /\ TimersAreOfLost /\ OwnersConnected

-----------------------------------------------------------------------------
\* No connection, session or request before the first start.
LEMMA Initially == Init => SessionInv
<1> SUFFICES ASSUME Init PROVE SessionInv
  OBVIOUS
<1>1. Idle.row \in Row /\ Idle.row.owner = None /\ Idle.at = "idle" /\ Idle.session = None
  BY DEF Idle, Row
<1>2. Idle = [at |-> "idle", session |-> None, row |-> Idle.row]
  BY DEF Idle
<1>3. Idle \in [at : Places, session : Session \cup {None}, row : Row]
  BY <1>1, <1>2 DEF Places
<1>4. TypeOK
  BY <1>1, <1>3, SessionsAssumption DEF Init, TypeOK
<1> QED
  BY <1>1, <1>4 DEF Init, SessionInv, RequestsAreServed, TimersAreOfLost, OwnersConnected

\* What the requests under way rely on.
RequestsOK ==
    /\ req \in [Conn -> [at : Places, session : Session \cup {None}, row : Row]]
    /\ RequestsAreServed
    /\ \A c \in Conn : req[c].row.owner # None => conn[req[c].row.owner] # "new"

\* A request reads its row and goes on.
LEMMA GotoKeeps ==
    ASSUME SessionInv, NEW c \in Conn, NEW s \in Session, NEW at \in Places \ {"idle"},
           Up(c), Goto(c, at, s), UNCHANGED conn
    PROVE  RequestsOK'
<1>1. /\ req'[c] = [at |-> at, session |-> s, row |-> rows[s]]
      /\ \A d \in Conn : d # c => req'[d] = req[d]
      /\ req' \in [Conn -> [at : Places, session : Session \cup {None}, row : Row]]
  BY DEF Goto, SessionInv, TypeOK
<1> QED
  BY <1>1 DEF SessionInv, RequestsOK, RequestsAreServed, OwnersConnected, Up

\* A request is answered.
LEMMA ReplyKeeps ==
    ASSUME SessionInv, NEW c \in Conn, Reply(c), UNCHANGED conn
    PROVE  RequestsOK'
<1>1. Idle = [at |-> "idle", session |-> None, row |-> Idle.row] /\ Idle.row \in Row
      /\ Idle.row.owner = None
  BY DEF Idle, Row
<1>2. /\ req'[c] = Idle /\ \A d \in Conn : d # c => req'[d] = req[d]
      /\ req' \in [Conn -> [at : Places, session : Session \cup {None}, row : Row]]
  BY <1>1 DEF Reply, SessionInv, TypeOK, Places
<1> QED
  BY <1>1, <1>2 DEF SessionInv, RequestsOK, RequestsAreServed, OwnersConnected, Up

\* No request is touched.
LEMMA RequestsKept ==
    ASSUME SessionInv, UNCHANGED <<req, conn>>
    PROVE  RequestsOK'
BY DEF SessionInv, TypeOK, RequestsOK, RequestsAreServed, OwnersConnected, Up

\* What a step may do to one row.
RowsOK ==
    /\ rows \in [Session -> Row]
    /\ \A s \in Session : rows[s].owner # None => conn[rows[s].owner] # "new"

\* AcquireSessionLock gives the lock to a connection that is up.
LEMMA AcquireKeeps ==
    ASSUME SessionInv, NEW c \in Conn, NEW s \in Session, Up(c), AcquireSessionLock(s, c),
           UNCHANGED conn
    PROVE  /\ RowsOK'
           /\ rows'[s].owner = c
           /\ \A t \in Session : t # s => rows'[t] = rows[t]
<1>1. /\ rows' \in [Session -> Row] /\ rows'[s].owner = c
      /\ \A t \in Session : t # s => rows'[t] = rows[t]
  <2>1. rows' = [rows EXCEPT ![s].owner = c, ![s].expired = FALSE] /\ rows \in [Session -> Row]
    BY DEF AcquireSessionLock, SessionInv, TypeOK
  <2>2. rows'[s] = [rows[s] EXCEPT !.owner = c, !.expired = FALSE]
    BY <2>1
  <2>3. rows[s] \in Row
    BY <2>1
  <2>4. rows'[s] \in Row /\ rows'[s].owner = c
    BY <2>2, <2>3 DEF Row
  <2>5. DOMAIN rows' = Session /\ \A t \in Session : t # s => rows'[t] = rows[t]
    BY <2>1
  <2>6. rows' \in [Session -> Row]
    BY <2>1, <2>4, <2>5
  <2> QED
    BY <2>4, <2>5, <2>6
<1> QED
  BY <1>1 DEF SessionInv, OwnersConnected, RowsOK, Up

\* CreateSession inserts a row and leaves every lock alone.
LEMMA CreateKeeps ==
    ASSUME SessionInv, NEW s \in Session, CreateSession(s), UNCHANGED conn
    PROVE  /\ RowsOK'
           /\ \A t \in Session : rows'[t].owner = rows[t].owner
<1>1. /\ rows' \in [Session -> Row]
      /\ \A t \in Session : rows'[t].owner = rows[t].owner
  BY DEF CreateSession, SessionInv, TypeOK, Row
<1> QED
  BY <1>1 DEF SessionInv, OwnersConnected, RowsOK

\* No row is touched.
LEMMA RowsKept ==
    ASSUME SessionInv, UNCHANGED <<rows, conn>>
    PROVE  RowsOK' /\ \A s \in Session : rows'[s].owner = rows[s].owner
BY DEF SessionInv, TypeOK, RowsOK, OwnersConnected

\* Every change of owner is one the discipline allows.
Disciplined == \A s \in Session : rows'[s].owner # rows[s].owner => LockPasses(s)

\* The parts of a step that stay in place.
LEMMA Together ==
    ASSUME SessionInv, RequestsOK', RowsOK', UNCHANGED <<conn, timer>>,
           bound' \in [Conn -> Session \cup {None}],
           \A c \in Conn : ~Up(c) => bound'[c] = bound[c], left' \in [Conn -> Nat],
           turns' \in SUBSET (Conn \X Session), crashes' \in Nat
    PROVE  SessionInv'
BY DEF SessionInv, TypeOK, RequestsOK, RowsOK, TimersAreOfLost, OwnersConnected, Up

-----------------------------------------------------------------------------
\* A request that has been received: its connection is up and idle.
LEMMA Received ==
    ASSUME SessionInv, NEW c \in Conn, NEW m, Receive(c, m)
    PROVE  Up(c) /\ req[c] = Idle /\ left' \in [Conn -> Nat]
BY DEF Receive, SessionInv, TypeOK

\* The first steps of the requests: a new row, or the row read.
LEMMA FirstSteps ==
    ASSUME SessionInv, NEW c \in Conn,
           SessionCreate(c) \/ SessionResume(c) \/ SessionFork(c) \/ TurnSubmit(c) \/ ModelSwitch(c)
    PROVE  SessionInv' /\ Disciplined
<1>1. \E m \in AllMethods : Receive(c, m)
  BY DEF SessionCreate, SessionResume, SessionFork, TurnSubmit, ModelSwitch, AllMethods
<1>2. Up(c) /\ left' \in [Conn -> Nat]
  BY <1>1, Received
<1>3. UNCHANGED <<conn, bound, timer, turns, crashes>>
  BY DEF SessionCreate, SessionResume, SessionFork, TurnSubmit, ModelSwitch
<1>4. RequestsOK'
  <2>1. CASE \E s \in Session, at \in Places \ {"idle"} : Goto(c, at, s)
    BY <1>2, <1>3, <2>1, GotoKeeps
  <2>2. CASE UNCHANGED req
    BY <1>3, <2>2, RequestsKept
  <2>3. (\E s \in Session, at \in Places \ {"idle"} : Goto(c, at, s)) \/ UNCHANGED req
    BY DEF SessionCreate, SessionResume, SessionFork, TurnSubmit, ModelSwitch, Places
  <2> QED
    BY <2>1, <2>2, <2>3
<1>5. RowsOK' /\ \A s \in Session : rows'[s].owner = rows[s].owner
  <2>1. CASE \E s \in Session : CreateSession(s)
    BY <1>3, <2>1, CreateKeeps
  <2>2. CASE UNCHANGED rows
    BY <1>3, <2>2, RowsKept
  <2>3. (\E s \in Session : CreateSession(s)) \/ UNCHANGED rows
    BY DEF SessionCreate, SessionResume, SessionFork, TurnSubmit, ModelSwitch
  <2> QED
    BY <2>1, <2>2, <2>3
<1>6. SessionInv'
  BY <1>2, <1>3, <1>4, <1>5, Together DEF SessionInv, TypeOK
<1> QED
  BY <1>5, <1>6 DEF Disciplined

\* Where a request that goes on stands.
LEMMA UnderWay ==
    ASSUME SessionInv, NEW c \in Conn, req[c].at # "idle"
    PROVE  Up(c) /\ req[c].session \in Session /\ req[c].row \in Row
BY DEF SessionInv, TypeOK, RequestsAreServed

\* A lock that admits c and is acquired by it passes as the discipline says.
LEMMA AdmittedPasses ==
    ASSUME SessionInv, NEW c \in Conn, NEW s \in Session, Up(c), LockAdmits(s, c),
           rows'[s].owner = c, \A t \in Session : t # s => rows'[t] = rows[t]
    PROVE  Disciplined
<1>1. c # None
  BY SessionsAssumption
<1>2. rows'[s].owner # rows[s].owner => LockPasses(s)
  BY <1>1 DEF LockPasses, LockAdmits
<1> QED
  BY <1>2 DEF Disciplined

\* The lock of a create or a resume, also when the restore then fails.
LEMMA LockSteps ==
    ASSUME SessionInv, NEW c \in Conn, LockCreated(c) \/ LockResumed(c) \/ RestoreFails(c)
    PROVE  SessionInv' /\ Disciplined
<1> DEFINE s == req[c].session
<1>1. /\ req[c].at # "idle" /\ LockAdmits(s, c) /\ AcquireSessionLock(s, c) /\ Reply(c)
      /\ UNCHANGED <<conn, timer, left, turns, crashes>>
      /\ bound' = [bound EXCEPT ![c] = s] \/ UNCHANGED bound
  BY DEF LockCreated, LockResumed, Lock, RestoreFails
<1>2. Up(c) /\ s \in Session
  BY <1>1, UnderWay
<1>3. RequestsOK'
  BY <1>1, ReplyKeeps
<1>4. RowsOK' /\ rows'[s].owner = c /\ \A t \in Session : t # s => rows'[t] = rows[t]
  BY <1>1, <1>2, AcquireKeeps
<1>5. bound' \in [Conn -> Session \cup {None}] /\ \A d \in Conn : ~Up(d) => bound'[d] = bound[d]
  BY <1>1, <1>2 DEF SessionInv, TypeOK
<1>6. SessionInv'
  BY <1>1, <1>3, <1>4, <1>5, Together DEF SessionInv, TypeOK
<1> QED
  BY <1>1, <1>2, <1>4, <1>6, AdmittedPasses

\* turn.submit on a new session: the row, its lock if it can be had, the turn.
LEMMA SubmitSteps ==
    ASSUME SessionInv, NEW c \in Conn, SubmitCreate(c) \/ SubmitLock(c) \/ SubmitTurn(c)
    PROVE  SessionInv' /\ Disciplined
<1> DEFINE s == req[c].session
<1>1. req[c].at # "idle" /\ UNCHANGED <<conn, timer, left, crashes>>
  BY DEF SubmitCreate, SubmitLock, SubmitTurn
<1>2. Up(c) /\ s \in Session
  BY <1>1, UnderWay
<1>3. CASE SubmitCreate(c)
  <2>1. CreateSession(s) /\ Goto(c, "lock_submitted", s) /\ UNCHANGED <<bound, turns>>
    BY <1>3 DEF SubmitCreate
  <2>2. RequestsOK'
    BY <1>1, <1>2, <2>1, GotoKeeps DEF Places
  <2>3. RowsOK' /\ \A t \in Session : rows'[t].owner = rows[t].owner
    BY <1>1, <1>2, <2>1, CreateKeeps
  <2>4. SessionInv'
    BY <1>1, <2>1, <2>2, <2>3, Together DEF SessionInv, TypeOK
  <2> QED
    BY <2>3, <2>4 DEF Disciplined
<1>4. CASE SubmitLock(c)
  <2>1. /\ req' = [req EXCEPT ![c].at = "submit"] /\ UNCHANGED <<bound, turns>>
        /\ \/ LockAdmits(s, c) /\ AcquireSessionLock(s, c)
           \/ UNCHANGED rows
    BY <1>4 DEF SubmitLock
  <2>2. /\ req'[c].at = "submit" /\ req'[c].session = s /\ req'[c].row = req[c].row
        /\ \A d \in Conn : d # c => req'[d] = req[d]
        /\ req' \in [Conn -> [at : Places, session : Session \cup {None}, row : Row]]
    BY <2>1 DEF SessionInv, TypeOK, Places
  <2>3. RequestsOK'
    BY <1>1, <1>2, <2>2 DEF SessionInv, RequestsOK, RequestsAreServed, OwnersConnected, Up
  <2>4. RowsOK' /\ Disciplined
    <3>1. CASE LockAdmits(s, c) /\ AcquireSessionLock(s, c)
      <4>1. RowsOK' /\ rows'[s].owner = c /\ \A t \in Session : t # s => rows'[t] = rows[t]
        BY <1>1, <1>2, <3>1, AcquireKeeps
      <4> QED
        BY <1>2, <3>1, <4>1, AdmittedPasses
    <3>2. CASE UNCHANGED rows
      BY <1>1, <3>2, RowsKept DEF Disciplined
    <3> QED
      BY <2>1, <3>1, <3>2
  <2>5. SessionInv'
    BY <1>1, <2>1, <2>3, <2>4, Together DEF SessionInv, TypeOK
  <2> QED
    BY <2>4, <2>5
<1>5. CASE SubmitTurn(c)
  <2>1. /\ bound' = [bound EXCEPT ![c] = IF @ = None THEN s ELSE @]
        /\ turns' = turns \cup {<<c, s>>} /\ Reply(c) /\ UNCHANGED rows
    BY <1>5 DEF SubmitTurn
  <2>2. RequestsOK' /\ RowsOK' /\ Disciplined
    BY <1>1, <2>1, ReplyKeeps, RowsKept DEF Disciplined
  <2>3. /\ bound' \in [Conn -> Session \cup {None}] /\ turns' \in SUBSET (Conn \X Session)
        /\ \A d \in Conn : ~Up(d) => bound'[d] = bound[d]
    BY <1>2, <2>1 DEF SessionInv, TypeOK
  <2>4. SessionInv'
    BY <1>1, <2>2, <2>3, Together DEF SessionInv, TypeOK
  <2> QED
    BY <2>2, <2>4
<1> QED
  BY <1>3, <1>4, <1>5

\* The writers of the whole row put back an owner that had connected, or none.
LEMMA RowSteps ==
    ASSUME SessionInv,
           \/ \E c \in Conn : SwitchWrite(c)
           \/ \E t \in Conn \X Session : CostUpdate(t)
    PROVE  SessionInv' /\ Disciplined
<1>1. Disciplined
  BY DEF Disciplined, LockPasses, RowWrite
<1>2. ASSUME NEW c \in Conn, SwitchWrite(c)
      PROVE  SessionInv'
  <2>1. /\ req[c].at # "idle" /\ rows' = [rows EXCEPT ![req[c].session] = req[c].row]
        /\ Reply(c) /\ UNCHANGED <<conn, bound, timer, left, turns, crashes>>
    BY <1>2 DEF SwitchWrite
  <2>2. req[c].session \in Session /\ req[c].row \in Row
    BY <2>1, UnderWay
  <2>3. rows'[req[c].session] = req[c].row
        /\ \A s \in Session : s # req[c].session => rows'[s] = rows[s]
    BY <2>1, <2>2 DEF SessionInv, TypeOK
  <2>4. rows' \in [Session -> Row]
    BY <2>1, <2>2 DEF SessionInv, TypeOK
  <2>5. RowsOK'
    BY <2>1, <2>3, <2>4 DEF RowsOK, SessionInv, OwnersConnected
  <2>6. RequestsOK'
    BY <2>1, ReplyKeeps
  <2> QED
    BY <2>1, <2>5, <2>6, Together DEF SessionInv, TypeOK
<1>3. ASSUME NEW t \in Conn \X Session, CostUpdate(t)
      PROVE  SessionInv'
  <2>1. /\ rows' = [rows EXCEPT ![t[2]].owner = None, ![t[2]].expired = FALSE]
        /\ turns' = turns \ {t} /\ UNCHANGED <<conn, bound, timer, req, left, crashes>>
    BY <1>3 DEF CostUpdate
  <2>2. rows' \in [Session -> Row] /\ \A s \in Session : rows'[s].owner \in {rows[s].owner, None}
    BY <2>1 DEF SessionInv, TypeOK, Row
  <2>3. RowsOK' /\ RequestsOK'
    BY <2>1, <2>2, RequestsKept DEF RowsOK, SessionInv, OwnersConnected
  <2> QED
    BY <2>1, <2>3, Together DEF SessionInv, TypeOK
<1> QED
  BY <1>1, <1>2, <1>3

\* Connections come and go, timers fire, locks expire, the server crashes.
LEMMA EnvironmentSteps ==
    ASSUME SessionInv,
           \/ \E c \in Conn : Connect(c) \/ Drop(c) \/ GraceFires(c) \/ GraceFails(c) \/ Fail(c)
           \/ \E s \in Session : LockExpires(s)
           \/ \E t \in Conn \X Session : TurnEnds(t)
           \/ Crash
    PROVE  SessionInv' /\ Disciplined
<1>1. ASSUME NEW c \in Conn, Connect(c) \/ Drop(c)
      PROVE  SessionInv' /\ Disciplined
  <2>1. UNCHANGED <<rows, bound, req, left, turns, crashes>>
    BY <1>1 DEF Connect, Drop
  <2>2. /\ conn' \in [Conn -> {"new", "up", "down"}]
        /\ \A d \in Conn : conn[d] # "new" => conn'[d] # "new"
        /\ \A d \in Conn : d # c => conn'[d] = conn[d]
    BY <1>1 DEF Connect, Drop, Up, SessionInv, TypeOK
  <2>3. timer' \in [Conn -> Session \cup {None}]
    BY <1>1 DEF Connect, Drop, SessionInv, TypeOK
  <2>4. TimersAreOfLost'
    BY <1>1 DEF Connect, Drop, Up, SessionInv, TypeOK, TimersAreOfLost
  <2>5. RequestsAreServed'
    <3>1. CASE Connect(c)
      BY <3>1 DEF Connect, Up, SessionInv, TypeOK, RequestsAreServed
    <3>2. CASE Drop(c)
      BY <2>1, <2>2, <3>2 DEF Drop, Up, SessionInv, RequestsAreServed, Idle
    <3> QED
      BY <1>1, <3>1, <3>2
  <2>6. OwnersConnected'
    BY <2>1, <2>2 DEF SessionInv, TypeOK, Row, OwnersConnected
  <2> QED
    BY <2>1, <2>2, <2>3, <2>4, <2>5, <2>6 DEF SessionInv, TypeOK, Disciplined
<1>2. ASSUME NEW c \in Conn, GraceFires(c) \/ GraceFails(c)
      PROVE  SessionInv' /\ Disciplined
  <2>1. /\ timer[c] \in Session /\ conn[c] = "down" /\ UNCHANGED <<conn, bound, req, left, turns, crashes>>
        /\ timer' = [timer EXCEPT ![c] = None]
        /\ rows' = Released(timer[c], c) \/ rows' = rows
    BY <1>2 DEF GraceFires, GraceFails, SessionInv, TypeOK, TimersAreOfLost
  <2>2. /\ rows' \in [Session -> Row]
        /\ \A s \in Session : \/ rows'[s] = rows[s]
                              \/ rows'[s].owner = None /\ rows[s].owner = c
    BY <2>1 DEF Released, SessionInv, TypeOK, Row
  <2>3. timer' \in [Conn -> Session \cup {None}] /\ TimersAreOfLost'
    BY <2>1 DEF SessionInv, TypeOK, TimersAreOfLost
  <2>4. RequestsOK'
    BY <2>1, RequestsKept
  <2>5. OwnersConnected'
    BY <2>1, <2>2 DEF SessionInv, OwnersConnected
  <2>6. Disciplined
    BY <2>1, <2>2 DEF Disciplined, LockPasses
  <2> QED
    BY <2>1, <2>2, <2>3, <2>4, <2>5, <2>6 DEF SessionInv, TypeOK, RequestsOK
<1>3. ASSUME NEW s \in Session, LockExpires(s)
      PROVE  SessionInv' /\ Disciplined
  <2>1. /\ rows' \in [Session -> Row] /\ \A t \in Session : rows'[t].owner = rows[t].owner
        /\ UNCHANGED <<conn, bound, timer, req, left, turns, crashes>>
    BY <1>3 DEF LockExpires, SessionInv, TypeOK, Row
  <2>2. RowsOK' /\ RequestsOK'
    BY <2>1, RequestsKept DEF RowsOK, SessionInv, OwnersConnected
  <2> QED
    BY <2>1, <2>2, Together DEF SessionInv, TypeOK, Disciplined
<1>4. ASSUME NEW t \in Conn \X Session, TurnEnds(t)
      PROVE  SessionInv' /\ Disciplined
  <2>1. turns' \in SUBSET (Conn \X Session) /\ UNCHANGED <<rows, conn, bound, timer, req, left, crashes>>
    BY <1>4 DEF TurnEnds, SessionInv, TypeOK
  <2> QED
    BY <2>1, RowsKept, RequestsKept, Together DEF SessionInv, TypeOK, Disciplined
<1>5. ASSUME NEW c \in Conn, Fail(c)
      PROVE  SessionInv' /\ Disciplined
  <2>1. Reply(c) /\ UNCHANGED <<rows, conn, bound, timer, left, turns, crashes>>
    BY <1>5 DEF Fail
  <2> QED
    BY <2>1, RowsKept, ReplyKeeps, Together DEF SessionInv, TypeOK, Disciplined
<1>6. CASE Crash
  <2>1. Idle = [at |-> "idle", session |-> None, row |-> Idle.row] /\ Idle.row \in Row
        /\ Idle.row.owner = None
    BY DEF Idle, Row
  <2>2. /\ req' = [c \in Conn |-> Idle] /\ timer' = [c \in Conn |-> None] /\ turns' = {}
        /\ conn' = [c \in Conn |-> IF Up(c) THEN "down" ELSE conn[c]]
        /\ crashes' = crashes + 1 /\ UNCHANGED <<rows, bound, left>>
    BY <1>6 DEF Crash
  <2>3. conn' \in [Conn -> {"new", "up", "down"}] /\ \A c \in Conn : conn[c] # "new" => conn'[c] # "new"
    BY <2>2 DEF Up, SessionInv, TypeOK
  <2>4. TypeOK'
    BY <2>1, <2>2, <2>3 DEF SessionInv, TypeOK, Places
  <2>5. RequestsAreServed' /\ TimersAreOfLost'
    BY <2>1, <2>2 DEF RequestsAreServed, TimersAreOfLost
  <2>6. OwnersConnected'
    BY <2>1, <2>2, <2>3 DEF SessionInv, TypeOK, Row, OwnersConnected
  <2> QED
    BY <2>2, <2>4, <2>5, <2>6 DEF SessionInv, Disciplined
<1> QED
  BY <1>1, <1>2, <1>3, <1>4, <1>5, <1>6

-----------------------------------------------------------------------------
\* Every step keeps the invariant and the discipline.
LEMMA Stepwise ==
    ASSUME SessionInv, [Next]_vars
    PROVE  SessionInv' /\ Disciplined
<1>1. CASE UNCHANGED vars
  <2>1. UNCHANGED <<rows, conn, bound, timer, req, left, turns, crashes>>
    BY <1>1 DEF vars
  <2> QED
    BY <2>1, RowsKept, RequestsKept, Together DEF SessionInv, TypeOK, Disciplined
<1>2. ASSUME NEW c \in Conn, Request(c)
      PROVE  SessionInv' /\ Disciplined
  BY <1>2, FirstSteps, LockSteps, SubmitSteps, RowSteps, EnvironmentSteps DEF Request
<1> QED
  BY <1>1, <1>2, RowSteps, EnvironmentSteps DEF Next

\* The invariant of the sessions table and its connections: a request is under
\* way only on a connection that is up (Connection.Run), a pending grace timer is
\* for the session a lost connection was bound to (scheduleGracePeriodRelease),
\* and whoever owns a lock has connected at some time.
THEOREM SessionInvariance == Spec => []SessionInv
BY Initially, Stepwise, PTL DEF Spec

\* Outside the writers of whole rows the lock of a session passes only to a
\* connection that is up, from nobody, an expired owner or itself, and is freed
\* only after its owner's connection is lost (AcquireSessionLock,
\* ReleaseSessionLock, scheduleGracePeriodRelease), whatever crashes.
THEOREM LockIsDisciplined == Spec => LockDiscipline
<1>1. SessionInv /\ [Next]_vars
      => [\A s \in Session : rows'[s].owner # rows[s].owner => LockPasses(s)]_vars
  BY Stepwise DEF Disciplined
<1>2. QED
  BY <1>1, SessionInvariance, PTL DEF Spec, LockDiscipline
=============================================================================
