------------------------- MODULE HarnessConnProofs -------------------------
(***************************************************************************)
(* Safety of ServerConn for every number of connections, every limit and   *)
(* every behaviour of the peers; then of HarnessConn, the harness's        *)
(* ConnectionManager on that server, and that it is one of those peers.    *)
(***************************************************************************)
EXTENDS HarnessConn, FiniteSetTheorems, SequenceTheorems, TLAPS

\* The connections that have a goroutine.
Busy == {c \in Conns : stage[c] \in Running \cup {"accepted"}}

\* What the WaitGroup counts, and what Server.conns holds.
Counted ==
    /\ wg = (IF accepting THEN 1 ELSE 0) + Cardinality(Busy)
    /\ slots = {c \in Conns : stage[c] \in Running}
    /\ MaxConnections > 0 => Cardinality(slots) <= MaxConnections
    /\ process = "down" => ~accepting /\ Busy = {}
    /\ process = "clean" => wg = 0

\* What a handler under way relies on.
CatalogueKnown ==
    \A c \in Conns :
        /\ stage[c] = "ready" => catalogue[c]
        /\ serving[c] => catalogue[c] /\ stage[c] \in Running

IInv == ServerTypeOK /\ Counted /\ CatalogueKnown

-----------------------------------------------------------------------------
(* The WaitGroup can count: the connections are finitely many, and one     *)
(* that has a goroutine makes the count positive (server.go:383-402).      *)
LEMMA BusyCount ==
    /\ IsFiniteSet(Busy) /\ Cardinality(Busy) \in Nat
    /\ Cardinality(Busy) = 0 <=> Busy = {}
    /\ \A c \in Busy : Cardinality(Busy \ {c}) = Cardinality(Busy) - 1
    /\ \A c : c \notin Busy => Cardinality(Busy \cup {c}) = Cardinality(Busy) + 1
<1>1. IsFiniteSet(Busy)
  BY FS_Subset, ServerConnAssumption DEF ServerConnAssumption, Busy
<1>2. Cardinality(Busy) \in Nat
  BY <1>1, FS_CardinalityType
<1>3. Cardinality(Busy) = 0 <=> Busy = {}
  BY <1>1, FS_EmptySet
<1>4. \A c \in Busy : Cardinality(Busy \ {c}) = Cardinality(Busy) - 1
  BY <1>1, FS_RemoveElement
<1>5. \A c : c \notin Busy => Cardinality(Busy \cup {c}) = Cardinality(Busy) + 1
  BY <1>1, FS_AddElement
<1>6. QED
  BY <1>1, <1>2, <1>3, <1>4, <1>5

(* What a fresh monitor and a fresh socket hold.                           *)
LEMMA FreshValues ==
    /\ MaxConnections \in Nat
    /\ 0 \in 0..MissedTicks
    /\ \A k \in 0..MissedTicks : k < MissedTicks => k + 1 \in 0..MissedTicks
    /\ <<>> \in Seq(Requests) /\ <<>> \in Seq(Answers)
BY ServerConnAssumption

(* Steps that leave the goroutines, the slots and the process alone keep   *)
(* the counts (all of a connection's requests and its monitor).            *)
LEMMA SameCount ==
    ASSUME IInv, UNCHANGED <<process, accepting, wg, slots>>,
           Busy' = Busy,
           slots' = {c \in Conns : stage'[c] \in Running}
    PROVE  Counted'
BY DEF IInv, Counted

(* A stage that stays among those of a running read loop changes neither.  *)
LEMMA StillRunning ==
    ASSUME IInv, NEW c \in Conns, NEW s \in Running, stage[c] \in Running,
           stage' = [stage EXCEPT ![c] = s],
           UNCHANGED <<process, accepting, wg, slots>>
    PROVE  Counted'
<1>1. \A d \in Conns : stage'[d] \in Running <=> stage[d] \in Running
  BY DEF IInv, ServerTypeOK
<1>2. \A d \in Conns : stage'[d] \in Running \cup {"accepted"}
                          <=> stage[d] \in Running \cup {"accepted"}
  BY DEF IInv, ServerTypeOK, Running
<1>3. Busy' = Busy
  BY <1>2 DEF Busy
<1>4. slots' = {d \in Conns : stage'[d] \in Running}
  BY <1>1 DEF IInv, Counted
<1>5. QED
  BY <1>3, <1>4, SameCount

-----------------------------------------------------------------------------
(* The peers' steps: they touch the wires and nothing the server counts.   *)
LEMMA PeerKeeps ==
    ASSUME IInv, NEW c \in Conns, Peer(c)
    PROVE  IInv'
<1>1. CASE Dial(c)
  <2>1. ServerTypeOK'
    BY <1>1 DEF IInv, ServerTypeOK, Dial, Stages, Running
  <2>2. Busy' = Busy
    BY <1>1 DEF IInv, ServerTypeOK, Dial, Busy, Running
  <2>3. slots' = {d \in Conns : stage'[d] \in Running}
    BY <1>1 DEF IInv, ServerTypeOK, Counted, Dial, Running
  <2>4. Counted'
    BY <1>1, <2>2, <2>3, SameCount DEF Dial
  <2>5. CatalogueKnown'
    BY <1>1 DEF IInv, ServerTypeOK, CatalogueKnown, Dial, Running
  <2>6. QED
    BY <2>1, <2>4, <2>5 DEF IInv
<1>2. ASSUME NEW m \in Requests, Write(c, m)
      PROVE  IInv'
  <2>1. ServerTypeOK'
    BY <1>2 DEF IInv, ServerTypeOK, Write
  <2>2. QED
    BY <1>2, <2>1 DEF IInv, Counted, CatalogueKnown, Write, Busy
<1>3. CASE PeerReads(c)
  <2>1. ServerTypeOK'
    BY <1>3 DEF IInv, ServerTypeOK, PeerReads
  <2>2. QED
    BY <1>3, <2>1 DEF IInv, Counted, CatalogueKnown, PeerReads, Busy
<1>4. CASE PeerCloses(c)
  <2>1. ServerTypeOK'
    BY <1>4 DEF IInv, ServerTypeOK, PeerCloses
  <2>2. QED
    BY <1>4, <2>1 DEF IInv, Counted, CatalogueKnown, PeerCloses, Busy
<1>5. CASE GiveUp(c)
  <2>1. ASSUME NEW s \in Seq(Requests)
        PROVE  [i \in DOMAIN s |-> IF s[i] = "ping" THEN "ping_given_up" ELSE s[i]]
                    \in Seq(Requests)
    <3>1. DOMAIN s = 1..Len(s) /\ Len(s) \in Nat /\ \A i \in 1..Len(s) : s[i] \in Requests
      OBVIOUS
    <3>2. [i \in 1..Len(s) |-> IF s[i] = "ping" THEN "ping_given_up" ELSE s[i]]
             \in [1..Len(s) -> Requests]
      BY <3>1 DEF Requests
    <3>3. QED
      BY <3>1, <3>2
  <2>2. ASSUME NEW s \in Seq(Answers)
        PROVE  [i \in DOMAIN s |-> IF s[i] = "pong" THEN "pong_unwanted" ELSE s[i]]
                    \in Seq(Answers)
    <3>1. DOMAIN s = 1..Len(s) /\ Len(s) \in Nat /\ \A i \in 1..Len(s) : s[i] \in Answers
      OBVIOUS
    <3>2. [i \in 1..Len(s) |-> IF s[i] = "pong" THEN "pong_unwanted" ELSE s[i]]
             \in [1..Len(s) -> Answers]
      BY <3>1 DEF Answers
    <3>3. QED
      BY <3>1, <3>2
  <2>3. inbox' \in [Conns -> Seq(Requests)] /\ outbox' \in [Conns -> Seq(Answers)]
    <3>1. inbox[c] \in Seq(Requests) /\ outbox[c] \in Seq(Answers)
      BY DEF IInv, ServerTypeOK
    <3>2. QED
      BY <1>5, <2>1, <2>2, <3>1 DEF IInv, ServerTypeOK, GiveUp
  <2>4. QED
    BY <1>5, <2>3 DEF IInv, ServerTypeOK, Counted, CatalogueKnown, GiveUp, Busy
<1>6. QED
  BY <1>1, <1>2, <1>3, <1>4, <1>5 DEF Peer

-----------------------------------------------------------------------------
(* acceptLoop and handleConnection: one more goroutine, then its slot or   *)
(* its end (server.go:369-426).                                            *)
LEMMA AcceptKeeps ==
    ASSUME IInv, NEW c \in Conns, Accept(c) \/ HandleConnection(c)
    PROVE  IInv'
<1>1. CASE Accept(c)
  <2>1. c \notin Busy /\ Busy' = Busy \cup {c}
    BY <1>1 DEF IInv, ServerTypeOK, Accept, Busy, Running
  <2>2. Cardinality(Busy') = Cardinality(Busy) + 1 /\ Cardinality(Busy) \in Nat
    BY <2>1, BusyCount
  <2>3. slots = {d \in Conns : stage'[d] \in Running}
    BY <1>1 DEF IInv, ServerTypeOK, Counted, Accept, Running
  <2>4. Counted'
    BY <1>1, <2>2, <2>3 DEF IInv, ServerTypeOK, Counted, Accept
  <2>5. ServerTypeOK'
    BY <1>1 DEF IInv, ServerTypeOK, Accept, Stages
  <2>6. CatalogueKnown'
    BY <1>1 DEF IInv, ServerTypeOK, CatalogueKnown, Accept, Running
  <2>7. QED
    BY <2>4, <2>5, <2>6 DEF IInv
<1>2. CASE HandleConnection(c) /\ Full
  <2>1. c \in Busy /\ Busy' = Busy \ {c}
    BY <1>2 DEF IInv, ServerTypeOK, HandleConnection, Busy, Running
  <2>2. Cardinality(Busy') = Cardinality(Busy) - 1 /\ Cardinality(Busy) \in Nat
        /\ Cardinality(Busy) # 0
    BY <2>1, BusyCount
  <2>3. slots' = {d \in Conns : stage'[d] \in Running}
    BY <1>2 DEF IInv, ServerTypeOK, Counted, HandleConnection, Running
  <2>4. wg' = wg - 1 /\ UNCHANGED <<process, accepting, slots>>
    BY <1>2 DEF HandleConnection
  <2>5. Counted'
    <3>1. wg' = (IF accepting' THEN 1 ELSE 0) + Cardinality(Busy')
      BY <2>2, <2>4 DEF IInv, ServerTypeOK, Counted
    <3>2. process # "down" /\ process # "clean"
      BY <2>1, <2>2 DEF IInv, ServerTypeOK, Counted
    <3>3. QED
      BY <2>3, <2>4, <3>1, <3>2 DEF IInv, Counted
  <2>6. wg' \in Nat
    BY <2>2, <2>4 DEF IInv, ServerTypeOK, Counted
  <2>7. ServerTypeOK'
    BY <1>2, <2>6 DEF IInv, ServerTypeOK, HandleConnection, Stages
  <2>8. CatalogueKnown'
    BY <1>2 DEF IInv, ServerTypeOK, CatalogueKnown, HandleConnection, Running
  <2>9. QED
    BY <2>5, <2>7, <2>8 DEF IInv
<1>3. CASE HandleConnection(c) /\ ~Full
  <2>1. Busy' = Busy
    BY <1>3 DEF IInv, ServerTypeOK, HandleConnection, Busy, Running
  <2>2. slots' = {d \in Conns : stage'[d] \in Running}
    BY <1>3 DEF IInv, ServerTypeOK, Counted, HandleConnection, Running
  <2>3. MaxConnections > 0 => Cardinality(slots') <= MaxConnections
    <3>1. IsFiniteSet(slots)
      BY FS_Subset, ServerConnAssumption DEF IInv, ServerTypeOK, ServerConnAssumption
    <3>2. c \notin slots
      BY <1>3 DEF IInv, Counted, HandleConnection, Running
    <3>3. Cardinality(slots \cup {c}) = Cardinality(slots) + 1 /\ Cardinality(slots) \in Nat
      BY <3>1, <3>2, FS_AddElement, FS_CardinalityType
    <3>4. slots' = slots \cup {c}
      BY <1>3 DEF HandleConnection
    <3>5. MaxConnections > 0 => Cardinality(slots) < MaxConnections
      BY <1>3, <3>3, FreshValues DEF Full
    <3>6. QED
      BY <3>3, <3>4, <3>5, FreshValues
  <2>4. Counted'
    BY <1>3, <2>1, <2>2, <2>3 DEF IInv, Counted, HandleConnection
  <2>5. ServerTypeOK'
    <3>1. age' \in [Conns -> 0..MissedTicks]
      BY <1>3, FreshValues DEF IInv, ServerTypeOK, HandleConnection
    <3>2. stage' \in [Conns -> Stages] /\ slots' \in SUBSET Conns
      BY <1>3 DEF IInv, ServerTypeOK, HandleConnection, Stages, Running
    <3>3. UNCHANGED <<process, starts, accepting, wg, open, peerOpen, inbox,
                      outbox, serving, catalogue>>
      BY <1>3 DEF HandleConnection
    <3>4. QED
      BY <3>1, <3>2, <3>3 DEF IInv, ServerTypeOK
  <2>6. CatalogueKnown'
    BY <1>3 DEF IInv, ServerTypeOK, CatalogueKnown, HandleConnection, Running
  <2>7. QED
    BY <2>4, <2>5, <2>6 DEF IInv
<1>4. QED
  BY <1>1, <1>2, <1>3

(* The monitor and the read loop: the gate lets a request through only     *)
(* once the catalogue is there (connection.go:237-266 and :423-462).       *)
LEMMA ServeKeeps ==
    ASSUME IInv, NEW c \in Conns,
           MonitorTick(c) \/ ReadRequest(c) \/ FinishCall(c)
    PROVE  IInv'
<1>1. CASE MonitorTick(c)
  <2>1. stage[c] \in Running /\ stage' \in {stage, [stage EXCEPT ![c] = "failed"]}
        /\ UNCHANGED <<process, accepting, wg, slots>>
    BY <1>1 DEF MonitorTick, Monitored
  <2>2. \E s \in Running : stage' = [stage EXCEPT ![c] = s]
    BY <2>1 DEF IInv, ServerTypeOK, Running
  <2>3. Counted'
    BY <2>1, <2>2, StillRunning
  <2>4. ServerTypeOK'
    <3>1. age' \in [Conns -> 0..MissedTicks]
      <4>1. age[c] \in 0..MissedTicks
        BY DEF IInv, ServerTypeOK
      <4>2. age' = age \/ (age[c] < MissedTicks /\ age' = [age EXCEPT ![c] = age[c] + 1])
        BY <1>1 DEF MonitorTick
      <4>3. QED
        BY <4>1, <4>2, FreshValues DEF IInv, ServerTypeOK
    <3>2. stage' \in [Conns -> Stages] /\ open' \in [Conns -> BOOLEAN]
      BY <1>1 DEF IInv, ServerTypeOK, MonitorTick, Stages, Running
    <3>3. UNCHANGED <<process, starts, accepting, wg, slots, peerOpen, inbox,
                      outbox, serving, catalogue>>
      BY <1>1 DEF MonitorTick
    <3>4. QED
      BY <3>1, <3>2, <3>3 DEF IInv, ServerTypeOK
  <2>5. CatalogueKnown'
    BY <1>1 DEF IInv, ServerTypeOK, CatalogueKnown, MonitorTick, Running
  <2>6. QED
    BY <2>3, <2>4, <2>5 DEF IInv
<1>2. CASE ReadRequest(c)
  <2>0. Head(inbox[c]) \in Requests /\ Tail(inbox[c]) \in Seq(Requests)
    BY <1>2 DEF IInv, ServerTypeOK, ReadRequest
  <2>1. \A a \in Answers : Replied(c, a) \in [Conns -> Seq(Answers)]
    BY DEF IInv, ServerTypeOK, Replied
  <2>2. /\ stage[c] \in Running
        /\ stage' \in {stage, [stage EXCEPT ![c] = "ready"], [stage EXCEPT ![c] = "failed"]}
        /\ UNCHANGED <<process, accepting, wg, slots>>
    BY <1>2 DEF ReadRequest
  <2>3. \E s \in Running : stage' = [stage EXCEPT ![c] = s]
    BY <2>2 DEF IInv, ServerTypeOK, Running
  <2>4. Counted'
    BY <2>2, <2>3, StillRunning
  <2>5. inbox' \in [Conns -> Seq(Requests)]
    BY <1>2, <2>0 DEF IInv, ServerTypeOK, ReadRequest
  <2>6. outbox' \in [Conns -> Seq(Answers)]
    BY <1>2, <2>1 DEF IInv, ServerTypeOK, ReadRequest, Answers
  <2>7. ServerTypeOK'
    <3>1. age' \in [Conns -> 0..MissedTicks]
      <4>1. age' = age \/ age' = [age EXCEPT ![c] = 0]
        BY <1>2 DEF ReadRequest
      <4>2. QED
        BY <4>1, FreshValues DEF IInv, ServerTypeOK
    <3>2. stage' \in [Conns -> Stages]
      BY <2>2 DEF IInv, ServerTypeOK, Stages, Running
    <3>3. catalogue' \in [Conns -> BOOLEAN] /\ serving' \in [Conns -> BOOLEAN]
      BY <1>2 DEF IInv, ServerTypeOK, ReadRequest
    <3>4. UNCHANGED <<process, starts, accepting, wg, slots, open, peerOpen>>
      BY <1>2 DEF ReadRequest
    <3>5. QED
      BY <2>5, <2>6, <3>1, <3>2, <3>3, <3>4 DEF IInv, ServerTypeOK
  <2>8. CatalogueKnown'
    BY <1>2 DEF IInv, ServerTypeOK, CatalogueKnown, ReadRequest, Refused, Gate, Running
  <2>9. QED
    BY <2>4, <2>7, <2>8 DEF IInv
<1>3. CASE FinishCall(c)
  <2>1. ServerTypeOK'
    BY <1>3 DEF IInv, ServerTypeOK, FinishCall
  <2>2. QED
    BY <1>3, <2>1 DEF IInv, ServerTypeOK, Counted, CatalogueKnown, FinishCall, Busy
<1>4. QED
  BY <1>1, <1>2, <1>3

(* Run's deferred calls give back the slot and the WaitGroup's count.      *)
LEMMA ExitKeeps ==
    ASSUME IInv, NEW c \in Conns, RunExits(c)
    PROVE  IInv'
<1>1. c \in Busy /\ Busy' = Busy \ {c}
  BY DEF IInv, ServerTypeOK, RunExits, Busy, Running
<1>2. Cardinality(Busy') = Cardinality(Busy) - 1 /\ Cardinality(Busy) \in Nat
      /\ Cardinality(Busy) # 0
  BY <1>1, BusyCount
<1>3. slots' = {d \in Conns : stage'[d] \in Running}
  BY DEF IInv, ServerTypeOK, Counted, RunExits, Running
<1>4. MaxConnections > 0 => Cardinality(slots') <= MaxConnections
  <2>1. IsFiniteSet(slots)
    BY FS_Subset, ServerConnAssumption DEF IInv, ServerTypeOK, ServerConnAssumption
  <2>2. slots' \in SUBSET slots
    BY DEF RunExits
  <2>3. Cardinality(slots') <= Cardinality(slots)
        /\ Cardinality(slots) \in Nat /\ Cardinality(slots') \in Nat
    BY <2>1, <2>2, FS_Subset, FS_CardinalityType
  <2>4. QED
    BY <2>3, ServerConnAssumption DEF IInv, Counted, ServerConnAssumption
<1>5. wg' = wg - 1 /\ UNCHANGED <<process, accepting>>
  BY DEF RunExits
<1>6. Counted'
  BY <1>1, <1>2, <1>3, <1>4, <1>5 DEF IInv, ServerTypeOK, Counted
<1>7. wg' \in Nat
  BY <1>2, <1>5 DEF IInv, ServerTypeOK, Counted
<1>8. ServerTypeOK'
  BY <1>7, ServerConnAssumption
  DEF IInv, ServerTypeOK, RunExits, Stages, ServerConnAssumption
<1>9. CatalogueKnown'
  BY DEF IInv, ServerTypeOK, CatalogueKnown, RunExits, Running
<1>10. QED
  BY <1>6, <1>8, <1>9 DEF IInv

-----------------------------------------------------------------------------
(* Start, Shutdown and the end of the process (server.go:206-278).         *)
LEMMA ProcessKeeps ==
    ASSUME IInv, ServerProcess
    PROVE  IInv'
<1>1. CASE Start
  <2>1. ~accepting /\ Busy = {} /\ Busy' = {}
    BY <1>1 DEF IInv, Counted, Start, Busy
  <2>2. Cardinality(Busy') = 0
    BY <2>1, FS_EmptySet
  <2>3. Counted'
    BY <1>1, <2>1, <2>2 DEF IInv, Counted, Start
  <2>4. ServerTypeOK'
    BY <1>1, ServerConnAssumption DEF IInv, ServerTypeOK, Start, ServerConnAssumption
  <2>5. CatalogueKnown'
    BY <1>1 DEF IInv, CatalogueKnown, Start
  <2>6. QED
    BY <2>3, <2>4, <2>5 DEF IInv
<1>2. CASE CloseListener
  <2>1. Busy' = Busy
    BY <1>2 DEF IInv, ServerTypeOK, CloseListener, Busy, Running
  <2>2. slots' = {d \in Conns : stage'[d] \in Running}
    BY <1>2 DEF IInv, ServerTypeOK, Counted, CloseListener, Running
  <2>3. Counted'
    BY <1>2, <2>1, <2>2 DEF IInv, Counted, CloseListener
  <2>4. ServerTypeOK'
    BY <1>2 DEF IInv, ServerTypeOK, CloseListener, Stages
  <2>5. CatalogueKnown'
    BY <1>2 DEF IInv, ServerTypeOK, CatalogueKnown, CloseListener, Running
  <2>6. QED
    BY <2>3, <2>4, <2>5 DEF IInv
<1>3. CASE AcceptLoopEnds
  <2>1. Busy' = Busy /\ Cardinality(Busy) \in Nat
    BY <1>3, BusyCount DEF AcceptLoopEnds, Busy
  <2>2. Counted' /\ wg' \in Nat
    BY <1>3, <2>1 DEF IInv, ServerTypeOK, Counted, AcceptLoopEnds
  <2>3. QED
    BY <1>3, <2>2 DEF IInv, ServerTypeOK, CatalogueKnown, AcceptLoopEnds
<1>4. CASE CloseTransports
  <2>1. ServerTypeOK'
    BY <1>4 DEF IInv, ServerTypeOK, CloseTransports
  <2>2. QED
    BY <1>4, <2>1 DEF IInv, Counted, CatalogueKnown, CloseTransports, Busy
<1>5. CASE ShutdownReturns
  <2>1. ServerTypeOK'
    BY <1>5 DEF IInv, ServerTypeOK, ShutdownReturns
  <2>2. QED
    BY <1>5, <2>1 DEF IInv, Counted, CatalogueKnown, ShutdownReturns, Drained, Busy
<1>6. CASE ProcessEnds
  <2>1. Busy' = {} /\ slots' = {d \in Conns : stage'[d] \in Running}
    BY <1>6 DEF ProcessEnds, Busy, Running
  <2>2. Cardinality(Busy') = 0 /\ Cardinality(slots') = 0
    BY <1>6, <2>1, FS_EmptySet DEF ProcessEnds
  <2>3. Counted'
    <3>1. ~accepting' /\ wg' = 0 /\ process' = "down"
      BY <1>6 DEF ProcessEnds
    <3>2. QED
      BY <2>1, <2>2, <3>1, FreshValues DEF Counted
  <2>4. ServerTypeOK'
    <3>1. age' \in [Conns -> 0..MissedTicks] /\ inbox' \in [Conns -> Seq(Requests)]
      BY <1>6, FreshValues DEF ProcessEnds
    <3>2. /\ stage' \in [Conns -> Stages] /\ open' \in [Conns -> BOOLEAN]
          /\ serving' \in [Conns -> BOOLEAN] /\ slots' \in SUBSET Conns
      BY <1>6 DEF ProcessEnds, Stages
    <3>3. process' = "down" /\ accepting' = FALSE /\ wg' = 0
          /\ UNCHANGED <<starts, peerOpen, outbox, catalogue>>
      BY <1>6 DEF ProcessEnds
    <3>4. QED
      BY <3>1, <3>2, <3>3 DEF IInv, ServerTypeOK
  <2>5. CatalogueKnown'
    BY <1>6 DEF IInv, ServerTypeOK, CatalogueKnown, ProcessEnds
  <2>6. QED
    BY <2>3, <2>4, <2>5 DEF IInv
<1>7. QED
  BY <1>1, <1>2, <1>3, <1>4, <1>5, <1>6 DEF ServerProcess

-----------------------------------------------------------------------------
\* Every step of the server and its peers keeps the invariant.
LEMMA ServerStepKeeps == IInv /\ [ServerNext]_serverVars => IInv'
<1>1. CASE UNCHANGED serverVars
  BY <1>1 DEF serverVars, IInv, ServerTypeOK, Counted, CatalogueKnown, Busy
<1>2. ASSUME IInv, ServerNext PROVE IInv'
  BY <1>2, PeerKeeps, AcceptKeeps, ServeKeeps, ExitKeeps, ProcessKeeps
  DEF ServerNext, ServerStep, Goroutine
<1>3. QED
  BY <1>1, <1>2

\* Nothing is counted before the first start.
LEMMA ServerInitOK == ServerInit => IInv
<1>1. SUFFICES ASSUME ServerInit PROVE IInv
  OBVIOUS
<1>2. Busy = {} /\ slots = {d \in Conns : stage[d] \in Running}
  BY <1>1 DEF ServerInit, Busy, Running
<1>3. Cardinality(Busy) = 0 /\ Cardinality(slots) = 0
  BY <1>1, <1>2, FS_EmptySet DEF ServerInit
<1>4. Counted
  BY <1>1, <1>2, <1>3, ServerConnAssumption DEF ServerInit, Counted, ServerConnAssumption
<1>5. ServerTypeOK
  <2>1. inbox \in [Conns -> Seq(Requests)] /\ outbox \in [Conns -> Seq(Answers)]
        /\ age \in [Conns -> 0..MissedTicks]
    BY <1>1, FreshValues DEF ServerInit
  <2>2. stage \in [Conns -> Stages]
    BY <1>1 DEF ServerInit, Stages
  <2>3. starts \in 0..MaxStarts
    BY <1>1, ServerConnAssumption DEF ServerInit
  <2>4. QED
    BY <1>1, <2>1, <2>2, <2>3 DEF ServerInit, ServerTypeOK
<1>6. QED
  BY <1>1, <1>4, <1>5 DEF IInv, ServerInit, CatalogueKnown

(* The invariant of the server against any peers.                          *)
THEOREM ServerInvariance == ServerSpec => []IInv
BY ServerInitOK, ServerStepKeeps, PTL DEF ServerSpec

(* Whatever its peers write, the server hands a request to a slow handler  *)
(* only on a connection whose capabilities are registered                  *)
(* (connection.go:333-350, capabilities.go:176-236).                       *)
THEOREM NothingServedEarly == ServerSpec => []ServedAfterRegistration
<1>1. IInv => ServedAfterRegistration
  BY DEF IInv, CatalogueKnown, ServedAfterRegistration
<1>2. QED
  BY <1>1, ServerInvariance, PTL

(* The slots never exceed the limit, and only a connection with a slot     *)
(* runs a read loop (server.go:400-426).                                   *)
THEOREM SlotsBounded == ServerSpec => []SlotsAreCounted
<1>1. IInv => SlotsAreCounted
  BY DEF IInv, Counted, SlotsAreCounted
<1>2. QED
  BY <1>1, ServerInvariance, PTL

(* A Shutdown that returns nil leaves no goroutine behind, whatever was    *)
(* being accepted, registered or served when it began (server.go:240-278). *)
THEOREM ShutdownDrains == ServerSpec => []CleanShutdownIsDrained
<1>1. IInv => CleanShutdownIsDrained
  <2>1. SUFFICES ASSUME IInv, process = "clean"
                 PROVE  /\ ~accepting /\ slots = {}
                        /\ \A c \in Conns : stage[c] \notin Running \cup {"accepted"}
                                              /\ ~serving[c]
    BY DEF CleanShutdownIsDrained
  <2>2. wg = 0 /\ Cardinality(Busy) \in Nat
    BY <2>1, BusyCount DEF IInv, Counted
  <2>3. ~accepting /\ Cardinality(Busy) = 0
    BY <2>1, <2>2 DEF IInv, ServerTypeOK, Counted
  <2>4. Busy = {}
    BY <2>1, <2>3, BusyCount
  <2>5. QED
    BY <2>1, <2>3, <2>4 DEF IInv, ServerTypeOK, Counted, CatalogueKnown, Busy
<1>2. QED
  BY <1>1, ServerInvariance, PTL

-----------------------------------------------------------------------------
(* What the server writes of a registration is true, and the catalogue of  *)
(* a connection is never emptied (capabilities.go:176-236).                *)
AnsweredTruly ==
    \A c \in Conns : (\E i \in DOMAIN outbox[c] : outbox[c][i] = "registered") => catalogue[c]

\* What a step may do to the stages and the catalogues.
OnlyForward ==
    \A c \in Conns : /\ catalogue[c] => catalogue'[c]
                     /\ stage'[c] = "new" => stage[c] = "new"

\* No step empties a catalogue or makes a used connection new again.
LEMMA ServerForward == ASSUME IInv, [ServerNext]_serverVars PROVE OnlyForward
<1>1. catalogue \in [Conns -> BOOLEAN] /\ stage \in [Conns -> Stages]
  BY DEF IInv, ServerTypeOK
<1>2. CASE UNCHANGED serverVars
  BY <1>2 DEF OnlyForward, serverVars
<1>3. ASSUME NEW c \in Conns, Peer(c)
      PROVE  OnlyForward
  BY <1>1, <1>3 DEF Peer, Dial, PeerReads, PeerCloses, GiveUp, Write, OnlyForward
<1>4. ASSUME NEW c \in Conns, Goroutine(c)
      PROVE  OnlyForward
  BY <1>1, <1>4 DEF Goroutine, Accept, HandleConnection, MonitorTick, ReadRequest, FinishCall,
                    RunExits, OnlyForward
<1>5. CASE ServerProcess
  BY <1>1, <1>5 DEF ServerProcess, Start, CloseListener, AcceptLoopEnds, CloseTransports,
                    ShutdownReturns, ProcessEnds, OnlyForward
<1> QED
  BY <1>2, <1>3, <1>4, <1>5 DEF ServerNext, ServerStep

\* "registered" is written with the catalogue and never without it.
LEMMA AnswersTrue == ASSUME IInv, AnsweredTruly, [ServerNext]_serverVars PROVE AnsweredTruly'
<1>1. OnlyForward
  BY ServerForward
<1>2. ASSUME UNCHANGED outbox
      PROVE  AnsweredTruly'
  BY <1>1, <1>2 DEF AnsweredTruly, OnlyForward
<1>3. ASSUME NEW c \in Conns, \A d \in Conns : d # c => outbox'[d] = outbox[d],
             \A i \in DOMAIN outbox'[c] : outbox'[c][i] = "registered"
                => catalogue'[c] \/ \E j \in DOMAIN outbox[c] : outbox[c][j] = "registered"
      PROVE  AnsweredTruly'
  BY <1>1, <1>3 DEF AnsweredTruly, OnlyForward
<1>4. \A c \in Conns : outbox[c] \in Seq(Answers)
  BY DEF IInv, ServerTypeOK
<1>5. ASSUME NEW c \in Conns, ReadRequest(c)
      PROVE  AnsweredTruly'
  <2>1. ASSUME NEW a \in Answers, outbox' = Replied(c, a), a = "registered" => catalogue'[c]
        PROVE  AnsweredTruly'
    <3>1. CASE peerOpen[c]
      <4>1. outbox'[c] = Append(outbox[c], a) /\ \A d \in Conns : d # c => outbox'[d] = outbox[d]
        BY <2>1, <3>1 DEF Replied, IInv, ServerTypeOK
      <4>2. \A i \in DOMAIN outbox'[c] : outbox'[c][i] = a \/ (i \in DOMAIN outbox[c] /\ outbox'[c][i] = outbox[c][i])
        BY <1>4, <4>1, AppendProperties, LenProperties
      <4> QED
        BY <1>3, <2>1, <4>1, <4>2
    <3>2. CASE ~peerOpen[c]
      BY <1>2, <2>1, <3>2 DEF Replied
    <3> QED
      BY <3>1, <3>2
  <2>2. PICK a \in Answers \cup {"none"} :
          IF a = "none" THEN UNCHANGED outbox
          ELSE outbox' = Replied(c, a) /\ (a = "registered" => catalogue' = [catalogue EXCEPT ![c] = TRUE])
    BY <1>5 DEF ReadRequest, Answers
  <2>3. catalogue' = [catalogue EXCEPT ![c] = TRUE] => catalogue'[c]
    BY DEF IInv, ServerTypeOK
  <2> QED
    BY <1>2, <2>1, <2>2, <2>3 DEF Answers
<1>6. ASSUME NEW c \in Conns, PeerReads(c)
      PROVE  AnsweredTruly'
  <2>1. outbox[c] # <<>> /\ outbox'[c] = Tail(outbox[c]) /\ \A d \in Conns : d # c => outbox'[d] = outbox[d]
    BY <1>6 DEF PeerReads, IInv, ServerTypeOK
  <2>2. \A i \in DOMAIN outbox'[c] : i + 1 \in DOMAIN outbox[c] /\ outbox'[c][i] = outbox[c][i + 1]
    BY <1>4, <2>1, HeadTailProperties, LenProperties
  <2> QED
    BY <1>3, <2>1, <2>2
<1>7. ASSUME NEW c \in Conns, PeerCloses(c)
      PROVE  AnsweredTruly'
  <2>1. outbox'[c] = <<>> /\ \A d \in Conns : d # c => outbox'[d] = outbox[d]
    BY <1>7 DEF PeerCloses, IInv, ServerTypeOK
  <2> QED
    BY <1>3, <2>1
<1>8. ASSUME NEW c \in Conns, GiveUp(c)
      PROVE  AnsweredTruly'
  <2>1. /\ outbox'[c] = [i \in DOMAIN outbox[c] |->
                            IF outbox[c][i] = "pong" THEN "pong_unwanted" ELSE outbox[c][i]]
        /\ \A d \in Conns : d # c => outbox'[d] = outbox[d]
    BY <1>8 DEF GiveUp, IInv, ServerTypeOK
  <2>2. \A i \in DOMAIN outbox'[c] : outbox'[c][i] = "registered"
            => i \in DOMAIN outbox[c] /\ outbox[c][i] = "registered"
    BY <2>1
  <2> QED
    BY <1>3, <2>1, <2>2
<1>9. CASE UNCHANGED outbox
  BY <1>2, <1>9
<1>10. ASSUME ServerNext, ~UNCHANGED outbox
       PROVE  \E c \in Conns : ReadRequest(c) \/ PeerReads(c) \/ PeerCloses(c) \/ GiveUp(c)
  BY <1>10 DEF ServerNext, ServerStep, Goroutine, Peer, Dial, Write, Accept, HandleConnection,
               MonitorTick, FinishCall, RunExits, ServerProcess, Start, CloseListener,
               AcceptLoopEnds, CloseTransports, ShutdownReturns, ProcessEnds
<1> QED
  BY <1>5, <1>6, <1>7, <1>8, <1>9, <1>10 DEF serverVars

-----------------------------------------------------------------------------
(* The harness's manager: its threads.                                     *)

HarnessTypeOK ==
    /\ state \in States
    /\ client \in Conns \cup {None}
    /\ closed \in BOOLEAN
    /\ missed \in 0..ReconnectAt
    /\ attempt \in Nat
    /\ done \in [Conns -> BOOLEAN]
    /\ heartbeat \in Conns \cup {None}
    /\ beat \in [Conns -> [at : {"off", "waiting", "pinging"}, to : Conns \cup {None}]]
    /\ lastWatch \in Conns \cup {None}
    /\ cancelled \in SUBSET Threads
    /\ thread \in [Threads ->
           [at : {"idle", "backoff", "probe", "start", "dial", "register",
                  "answer", "arm", "watch", "over"},
            of : Conns \cup {None}]]

\* A thread that has dialled c and has not armed it yet.
Connecting == {"register", "answer", "arm"}
Connects(t, c) == thread[t].at \in Connecting /\ thread[t].of = c

\* Nothing that a connection starts once it is armed has been started for c.
Unarmed(c) ==
    beat[c].at = "off" /\ thread[Loop(c)].at = "idle" /\ thread[Watcher(c)].at = "idle"

\* Each connection is dialled by one thread, which arms it once: what it starts
\* takes over no goroutine that runs already.
Threading ==
    /\ \A t \in Threads : thread[t].at \in Connecting \cup {"watch"} => thread[t].of \in Conns
    /\ \A c \in Conns : stage[c] = "new" => Unarmed(c) /\ \A t \in Threads : ~Connects(t, c)
    /\ \A c \in Conns, t \in Threads : Connects(t, c) => Unarmed(c)
    /\ \A c \in Conns, t, u \in Threads : Connects(t, c) /\ Connects(u, c) => t = u
    /\ \A c \in Conns : beat[c].at # "off" => thread[Loop(c)].at = "idle"
    /\ \A c \in Conns : beat[c].at = "pinging" => beat[c].to \in Conns

HarnessInv == HarnessTypeOK /\ Threading

\* The goroutines of different connections have different names.
LEMMA ThreadNames ==
    /\ Main \in Threads
    /\ \A c \in Conns : Watcher(c) \in Threads /\ Loop(c) \in Threads
                        /\ Watcher(c) # Main /\ Loop(c) # Main
    /\ \A c, d \in Conns : /\ Watcher(c) # Loop(d)
                           /\ Watcher(c) = Watcher(d) => c = d
                           /\ Loop(c) = Loop(d) => c = d
BY DEF Threads, Main, Watcher, Loop

\* transition stays among the states, and failed is its dead end.
LEMMA AfterInStates ==
    ASSUME NEW from \in States, NEW to \in States
    PROVE  /\ After(from, to) \in States
           /\ After(from, "failed") = "failed"
           /\ After("failed", to) = "failed"
BY DEF After, States, Successors

\* A thread that is running goes somewhere else and keeps its client.
Elsewhere == {"backoff", "probe", "start", "dial", "over"}

\* What the head of reconnectLoop's body does to the state and the thread.
LEMMA LoopingMoves ==
    ASSUME NEW t \in Threads, NEW n \in Nat, NEW st \in States, Looping(t, n, st)
    PROVE  /\ attempt' = n
           /\ state' \in States /\ (st = "failed" => state' = "failed")
           /\ \E at \in Elsewhere : Goes(t, at)
<1>1. "reconnecting" \in States /\ "failed" \in States
  BY DEF States
<1> QED
  BY <1>1, AfterInStates DEF Looping, Elsewhere

\* What a failed ConnectSync does to them, in Start and in a loop.
LEMMA FailingMoves ==
    ASSUME HarnessTypeOK, NEW t \in Threads, NEW st \in States, Failing(t, st)
    PROVE  /\ attempt' \in Nat
           /\ state' \in States /\ (st = "failed" => state' = "failed")
           /\ \E at \in Elsewhere : Goes(t, at)
<1>1. attempt + 1 \in Nat
  BY DEF HarnessTypeOK
<1>2. CASE t = Main /\ Goes(t, "over") /\ state' = st /\ UNCHANGED attempt
  BY <1>2 DEF HarnessTypeOK, Elsewhere
<1>3. CASE Looping(t, attempt + 1, st)
  BY <1>1, <1>3, LoopingMoves
<1> QED
  BY <1>2, <1>3 DEF Failing

\* fail leaves the state failed, whatever it was.
LEMMA FailsMoves ==
    ASSUME HarnessTypeOK, NEW t \in Threads, Fails(t)
    PROVE  /\ attempt' \in Nat
           /\ state' = "failed"
           /\ \E at \in Elsewhere : Goes(t, at)
<1>1. After(state, "failed") = "failed" /\ "failed" \in States
  BY AfterInStates DEF HarnessTypeOK, States
<1> QED
  BY <1>1, FailingMoves DEF Fails

\* What Goes does to one thread and leaves to the others.
LEMMA GoesMoves ==
    ASSUME HarnessTypeOK, NEW t \in Threads, NEW at, Goes(t, at)
    PROVE  /\ thread'[t] = [at |-> at, of |-> thread[t].of]
           /\ \A u \in Threads : u # t => thread'[u] = thread[u]
           /\ DOMAIN thread' = Threads
<1>1. thread[t] = [at |-> thread[t].at, of |-> thread[t].of]
  BY DEF HarnessTypeOK
<1> QED
  BY <1>1 DEF Goes, HarnessTypeOK

\* The heartbeats that a step leaves running were running.
Fewer ==
    \A c \in Conns : beat'[c].at # "off" =>
        /\ beat[c].at # "off"
        /\ beat'[c].at = "pinging" => beat'[c].to \in Conns

\* stopHeartbeat starts none.
LEMMA StoppedFewer ==
    ASSUME HarnessInv, beat' = Stopped(beat) \/ UNCHANGED beat
    PROVE  Fewer
  BY DEF Fewer, Stopped, HarnessInv, HarnessTypeOK, Threading

\* Steps that change no thread.
LEMMA ThreadsStay ==
    ASSUME Threading, OnlyForward, Fewer, UNCHANGED thread
    PROVE  Threading'
  BY DEF Threading, OnlyForward, Fewer, Connects, Unarmed

\* A running thread goes elsewhere, or on with the connection it dialled.
LEMMA ThreadGoes ==
    ASSUME HarnessTypeOK, Threading, OnlyForward, Fewer, NEW t \in Threads, thread[t].at # "idle",
           NEW at, Goes(t, at),
           at \in Elsewhere \/ (at \in Connecting /\ thread[t].at \in Connecting)
    PROVE  Threading'
<1>1. /\ thread'[t] = [at |-> at, of |-> thread[t].of]
      /\ \A u \in Threads : u # t => thread'[u] = thread[u]
  BY GoesMoves
<1>2. /\ \A u \in Threads : thread'[u].of = thread[u].of
      /\ \A u \in Threads : thread[u].at = "idle" => thread'[u].at = "idle"
      /\ \A u \in Threads : thread'[u].at \in Connecting => thread[u].at \in Connecting
      /\ \A u \in Threads : thread'[u].at = "watch" => thread[u].at = "watch"
  BY <1>1 DEF Elsewhere, Connecting
<1>3. \A c \in Conns : Unarmed(c) => Unarmed(c)'
  BY <1>2, ThreadNames DEF Unarmed, Fewer
<1>4. \A c \in Conns, u \in Threads : Connects(u, c)' => Connects(u, c)
  BY <1>2 DEF Connects
<1>5. \A c \in Conns : beat'[c].at # "off" => thread'[Loop(c)].at = "idle"
  BY <1>2, ThreadNames DEF Threading, Fewer
<1> QED
  BY <1>2, <1>3, <1>4, <1>5 DEF Threading, OnlyForward, Fewer

\* A thread that moves keeps its type.
LEMMA ThreadTypes ==
    ASSUME HarnessTypeOK, NEW t \in Threads, NEW at \in Elsewhere \cup Connecting, Goes(t, at)
    PROVE  thread' \in [Threads -> [at : {"idle", "backoff", "probe", "start", "dial", "register",
                                          "answer", "arm", "watch", "over"},
                                    of : Conns \cup {None}]]
  BY DEF HarnessTypeOK, Goes, Elsewhere, Connecting

-----------------------------------------------------------------------------
(* What the manager does is something a peer of the server may do.         *)
LEMMA PeerMoves ==
    ASSUME NEW c \in Conns
    PROVE  /\ \A m \in Requests : Write(c, m) => ServerNext
           /\ Dial(c) => ServerNext
           /\ PeerReads(c) => ServerNext
           /\ PeerCloses(c) => ServerNext
           /\ GiveUp(c) => ServerNext
BY DEF ServerNext, Peer

\* The connection dialled next has not been used.
LEMMA FreshIsNew ==
    ASSUME \E c \in Conns : stage[c] = "new"
    PROVE  Fresh \in Conns /\ stage[Fresh] = "new"
BY DEF Fresh

\* What ConnectSync does to the server, a peer may do.
LEMMA ThreadStepServes ==
    ASSUME HarnessInv, NEW t \in Threads, ThreadStep(t)
    PROVE  [ServerNext]_serverVars
<1>1. CASE BackedOff(t) \/ Probe(t) \/ AutoStarted(t) \/ Arms(t) \/ Watches(t)
  BY <1>1 DEF BackedOff, Probe, AutoStarted, Arms, Watches
<1>2. CASE Dials(t)
  BY <1>2, FreshIsNew, PeerMoves DEF Dials
<1>3. CASE WritesRegistration(t)
  <2>1. thread[t].of \in Conns
    BY <1>3 DEF WritesRegistration, HarnessInv, Threading, Connecting
  <2> QED
    BY <1>3, <2>1, PeerMoves DEF WritesRegistration, Requests
<1>4. CASE Registered(t)
  <2>1. thread[t].of \in Conns
    BY <1>4 DEF Registered, HarnessInv, Threading, Connecting
  <2> QED
    BY <1>4, <2>1, PeerMoves DEF Registered
<1> QED
  BY <1>1, <1>2, <1>3, <1>4 DEF ThreadStep

\* So is what the heartbeats and the client's read loop do to it.
LEMMA ClientStepServes ==
    ASSUME HarnessInv, NEW c \in Conns, ClientStep(c)
    PROVE  [ServerNext]_serverVars
<1>1. CASE Pings(c)
  <2>1. beat[c].to \in Conns
    BY <1>1 DEF Pings, HarnessInv, HarnessTypeOK
  <2> QED
    BY <1>1, <2>1, PeerMoves DEF Pings, Requests
<1>2. CASE Ponged(c)
  <2>1. beat[c].to \in Conns
    BY <1>2 DEF Ponged, HarnessInv, Threading
  <2> QED
    BY <1>2, <2>1, PeerMoves DEF Ponged
<1>3. CASE Unwanted(c)
  BY <1>3, PeerMoves DEF Unwanted
<1>4. CASE MeetsEOF(c)
  BY <1>4 DEF MeetsEOF
<1> QED
  BY <1>1, <1>2, <1>3, <1>4 DEF ClientStep

(* Every step of the harness and its server is a step of the server with   *)
(* its peers, or leaves the server alone (connection.go, heartbeat.go and  *)
(* client.go against server.go).                                           *)
LEMMA HarnessServes ==
    ASSUME HarnessInv, [Next]_vars
    PROVE  [ServerNext]_serverVars
<1>1. CASE ServerStep
  BY <1>1 DEF ServerNext
<1>2. CASE Disconnect
  <2>1. client = None \/ client \in Conns
    BY DEF HarnessInv, HarnessTypeOK
  <2> QED
    BY <1>2, <2>1, PeerMoves DEF Disconnect
<1>3. CASE Calls
  <2>1. client \in Conns
    BY <1>3 DEF Calls, HarnessInv, HarnessTypeOK
  <2> QED
    BY <1>3, <2>1, PeerMoves DEF Calls, Requests
<1>4. CASE UNCHANGED vars
  BY <1>4 DEF vars
<1> QED
  BY <1>1, <1>2, <1>3, <1>4, ThreadStepServes, ClientStepServes DEF Next

-----------------------------------------------------------------------------
(* The types and the threads are kept.                                     *)

\* The transitions the manager asks for stay among the states.
LEMMA AfterTypes ==
    ASSUME HarnessTypeOK
    PROVE  \A st \in {"connecting", "starting", "registering", "ready", "failed", "reconnecting"} :
              st \in States /\ After(state, st) \in States
BY AfterInStates DEF HarnessTypeOK, States

\* A goroutine that runs and goes elsewhere disturbs no connection.
LEMMA RunningGoes ==
    ASSUME HarnessInv, OnlyForward, Fewer, NEW t \in Threads, thread[t].at # "idle",
           \E at \in Elsewhere : Goes(t, at)
    PROVE  /\ Threading'
           /\ thread' \in [Threads -> [at : {"idle", "backoff", "probe", "start", "dial", "register",
                                             "answer", "arm", "watch", "over"},
                                       of : Conns \cup {None}]]
BY ThreadGoes, ThreadTypes DEF HarnessInv

\* Backoff, the probe of the socket and the automatic start.
LEMMA WaitKeeps ==
    ASSUME HarnessInv, OnlyForward, NEW t \in Threads,
           BackedOff(t) \/ Probe(t) \/ AutoStarted(t)
    PROVE  HarnessInv'
<1>1. thread[t].at # "idle" /\ Fewer
  BY StoppedFewer DEF BackedOff, Probe, AutoStarted
<1>2. /\ attempt' \in Nat /\ state' \in States
      /\ \E at \in Elsewhere : Goes(t, at)
  <2>1. CASE BackedOff(t)
    BY <2>1 DEF BackedOff, Elsewhere, HarnessInv, HarnessTypeOK
  <2>2. CASE Probe(t)
    <3>1. CASE closed
      <4>1. state \in States
        BY DEF HarnessInv, HarnessTypeOK
      <4>2. Failing(t, state)
        BY <2>2, <3>1 DEF Probe
      <4> QED
        BY <4>1, <4>2, FailingMoves DEF HarnessInv
    <3>2. CASE ~closed
      <4>1. \E at \in {"dial", "start"} : Goes(t, at)
        BY <2>2, <3>2 DEF Probe
      <4>2. state' \in {After(state, "connecting"), After(state, "starting")} /\ UNCHANGED attempt
        BY <2>2, <3>2 DEF Probe
      <4>3. attempt' \in Nat
        BY <4>2 DEF HarnessInv, HarnessTypeOK
      <4> QED
        BY <4>1, <4>2, <4>3, AfterTypes DEF Elsewhere, HarnessInv
    <3> QED
      BY <3>1, <3>2
  <2>3. CASE AutoStarted(t)
    <3>1. CASE Fails(t)
      BY <3>1, FailsMoves DEF HarnessInv, States
    <3>2. CASE ~Fails(t)
      BY <2>3, <3>2, AfterTypes DEF AutoStarted, Elsewhere, HarnessInv, HarnessTypeOK
    <3> QED
      BY <3>1, <3>2
  <2> QED
    BY <2>1, <2>2, <2>3
<1>3. UNCHANGED <<client, closed, missed, done, heartbeat, beat, lastWatch, cancelled>>
  BY DEF BackedOff, Probe, AutoStarted
<1> QED
  BY <1>1, <1>2, <1>3, RunningGoes DEF HarnessInv, HarnessTypeOK

\* The registration's frame and its answer.
LEMMA RegistrationKeeps ==
    ASSUME HarnessInv, OnlyForward, NEW t \in Threads,
           WritesRegistration(t) \/ Registered(t)
    PROVE  HarnessInv'
<1>1. thread[t].at \in Connecting /\ thread[t].at # "idle" /\ Fewer
  BY StoppedFewer DEF WritesRegistration, Registered, Connecting
<1>2. /\ attempt' \in Nat /\ state' \in States /\ missed' \in 0..ReconnectAt
      /\ \E at \in Elsewhere \cup Connecting : Goes(t, at)
  <2>1. CASE WritesRegistration(t)
    <3>1. After(After(state, "registering"), "failed") \in States
      BY AfterTypes, AfterInStates DEF HarnessInv
    <3>2. missed' \in 0..ReconnectAt
      BY <2>1 DEF WritesRegistration, HarnessInv, HarnessTypeOK
    <3>3. CASE Failing(t, After(After(state, "registering"), "failed"))
      BY <3>1, <3>2, <3>3, FailingMoves DEF HarnessInv
    <3>4. CASE ~Failing(t, After(After(state, "registering"), "failed"))
      BY <2>1, <3>2, <3>4, AfterTypes DEF WritesRegistration, Connecting, HarnessInv, HarnessTypeOK
    <3> QED
      BY <3>3, <3>4
  <2>2. CASE Registered(t)
    <3>1. CASE Fails(t) /\ UNCHANGED missed
      BY <3>1, FailsMoves DEF HarnessInv, HarnessTypeOK, States
    <3>2. CASE ~(Fails(t) /\ UNCHANGED missed)
      <4>1. state' = After(state, "ready") /\ attempt' = 0 /\ missed' = 0 /\ Goes(t, "arm")
        BY <2>2, <3>2 DEF Registered
      <4> QED
        BY <4>1, AfterTypes, HarnessConnAssumption DEF Connecting, HarnessInv, HarnessTypeOK
    <3> QED
      BY <3>1, <3>2
  <2> QED
    BY <2>1, <2>2
<1>3. UNCHANGED <<client, closed, done, heartbeat, beat, lastWatch, cancelled>>
  BY DEF WritesRegistration, Registered
<1>4. PICK at \in Elsewhere \cup Connecting : Goes(t, at)
  BY <1>2
<1>5. Threading'
  BY <1>1, <1>4, ThreadGoes DEF HarnessInv
<1>6. HarnessTypeOK'
  BY <1>2, <1>3, <1>4, ThreadTypes DEF HarnessInv, HarnessTypeOK
<1> QED
  BY <1>5, <1>6 DEF HarnessInv

\* A dial takes a connection that nothing has been started for.
LEMMA DialsKeeps ==
    ASSUME HarnessInv, ServerTypeOK, OnlyForward, NEW t \in Threads, Dials(t)
    PROVE  HarnessInv'
<1>0. UNCHANGED <<closed, missed, done, heartbeat, beat, lastWatch, cancelled>> /\ Fewer
  BY StoppedFewer DEF Dials
<1>1. thread[t].at = "dial"
  BY DEF Dials
<1>2. CASE Fails(t) /\ UNCHANGED client
  <2>1. attempt' \in Nat /\ state' = "failed" /\ \E at \in Elsewhere : Goes(t, at)
    BY <1>2, FailsMoves DEF HarnessInv
  <2> QED
    BY <1>0, <1>1, <1>2, <2>1, RunningGoes DEF HarnessInv, HarnessTypeOK, States
<1>3. CASE ~(Fails(t) /\ UNCHANGED client)
  <2> DEFINE c == Fresh
  <2>1. /\ Dial(c) /\ client' = c /\ UNCHANGED <<state, attempt>>
        /\ thread' = [thread EXCEPT ![t] = [at |-> "register", of |-> c]]
    BY <1>3 DEF Dials
  <2>2. c \in Conns /\ stage[c] = "new"
    BY <1>3, FreshIsNew DEF Dials
  <2>3. stage'[c] = "backlog"
    BY <2>1, <2>2 DEF Dial, ServerTypeOK
  <2> HIDE DEF c
  <2>4. /\ thread'[t] = [at |-> "register", of |-> c]
        /\ \A u \in Threads : u # t => thread'[u] = thread[u]
    BY <2>1 DEF HarnessInv, HarnessTypeOK
  <2>5. HarnessTypeOK'
    BY <1>0, <2>1, <2>2 DEF HarnessInv, HarnessTypeOK
  <2>6. \A d \in Conns : Unarmed(d) => Unarmed(d)'
    BY <1>0, <1>1, <2>4, ThreadNames DEF Unarmed
  <2>7. \A d \in Conns, u \in Threads :
           Connects(u, d)' => (u = t /\ d = c) \/ (u # t /\ Connects(u, d))
    BY <2>4 DEF Connects
  <2>8. Unarmed(c) /\ \A u \in Threads : ~Connects(u, c)
    BY <2>2 DEF HarnessInv, Threading
  <2>9. \A u \in Threads : thread'[u].at \in Connecting \cup {"watch"} => thread'[u].of \in Conns
    BY <2>2, <2>4 DEF HarnessInv, Threading
  <2>10. \A d \in Conns : stage'[d] = "new" => stage[d] = "new" /\ d # c
    BY <2>3 DEF OnlyForward
  <2>11. \A d \in Conns : beat'[d].at # "off" => thread'[Loop(d)].at = "idle"
    BY <1>0, <1>1, <2>4, ThreadNames DEF HarnessInv, Threading
  <2>12. Threading'
    BY <1>0, <2>6, <2>7, <2>8, <2>9, <2>10, <2>11 DEF HarnessInv, Threading
  <2> QED
    BY <2>5, <2>12 DEF HarnessInv
<1> QED
  BY <1>2, <1>3

\* startHeartbeat and startDisconnectWatcher take over idle goroutines only.
LEMMA ArmsKeeps ==
    ASSUME HarnessInv, OnlyForward, NEW t \in Threads, Arms(t)
    PROVE  HarnessInv'
<1> DEFINE c == thread[t].of
<1>1. c \in Conns /\ thread[t].at = "arm" /\ Connects(t, c)
  BY DEF Arms, HarnessInv, Threading, Connecting, Connects
<1>2. Unarmed(c) /\ stage[c] # "new" /\ \A u \in Threads : Connects(u, c) => u = t
  BY <1>1 DEF HarnessInv, Threading
<1>3. /\ NewHeartbeat(c) /\ NewWatcher(t, c)
      /\ UNCHANGED <<serverVars, state, client, closed, missed, attempt, done, cancelled>>
  BY DEF Arms
<1> HIDE DEF c
<1>4. /\ \A d \in Conns : d # c => beat'[d] = beat[d]
      /\ beat'[c].at \in {"off", "waiting"}
      /\ beat' \in [Conns -> [at : {"off", "waiting", "pinging"}, to : Conns \cup {None}]]
      /\ heartbeat' \in Conns \cup {None}
  BY <1>1, <1>2, <1>3 DEF NewHeartbeat, Unarmed, HarnessInv, HarnessTypeOK
<1>5. t # Watcher(c) /\ t # Loop(c) /\ Watcher(c) \in Threads
  BY <1>1, <1>2, ThreadNames DEF Unarmed
<1>6. /\ thread'[t].at = "over"
      /\ \A u \in Threads : u \notin {t, Watcher(c)} => thread'[u] = thread[u]
      /\ \/ thread'[Watcher(c)] = thread[Watcher(c)]
         \/ thread'[Watcher(c)].at = "watch" /\ thread'[Watcher(c)].of \in Conns
      /\ thread' \in [Threads -> [at : {"idle", "backoff", "probe", "start", "dial", "register",
                                        "answer", "arm", "watch", "over"},
                                  of : Conns \cup {None}]]
      /\ lastWatch' \in Conns \cup {None}
  <2>1. CASE client = None
    <3>1. Goes(t, "over") /\ UNCHANGED lastWatch
      BY <1>3, <2>1 DEF NewWatcher
    <3>2. lastWatch' \in Conns \cup {None}
      BY <3>1 DEF HarnessInv, HarnessTypeOK
    <3>3. thread' \in [Threads -> [at : {"idle", "backoff", "probe", "start", "dial", "register",
                                         "answer", "arm", "watch", "over"},
                                   of : Conns \cup {None}]]
      BY <3>1, ThreadTypes DEF HarnessInv, Elsewhere
    <3> QED
      BY <1>5, <3>1, <3>2, <3>3, GoesMoves DEF HarnessInv
  <2>2. CASE client # None
    BY <1>1, <1>3, <1>5, <2>2 DEF NewWatcher, HarnessInv, HarnessTypeOK
  <2> QED
    BY <2>1, <2>2
<1>7. HarnessTypeOK'
  BY <1>3, <1>4, <1>6 DEF HarnessInv, HarnessTypeOK
<1>8. \A d \in Conns : d # c /\ Unarmed(d) => Unarmed(d)'
  BY <1>1, <1>4, <1>6, ThreadNames DEF Unarmed
<1>9. \A d \in Conns, u \in Threads : Connects(u, d)' => d # c /\ Connects(u, d)
  <2>1. SUFFICES ASSUME NEW d \in Conns, NEW u \in Threads, Connects(u, d)'
                 PROVE  d # c /\ Connects(u, d)
    OBVIOUS
  <2>2. u # t /\ thread'[u] = thread[u]
    BY <1>2, <1>5, <1>6, <2>1 DEF Connects, Connecting, Unarmed
  <2> QED
    BY <1>2, <2>1, <2>2 DEF Connects
<1>10. \A u \in Threads : thread'[u].at \in Connecting \cup {"watch"} => thread'[u].of \in Conns
  BY <1>6 DEF HarnessInv, Threading, Connecting
<1>11. \A d \in Conns : beat'[d].at # "off" => thread'[Loop(d)].at = "idle"
  BY <1>1, <1>2, <1>4, <1>5, <1>6, ThreadNames DEF HarnessInv, Threading, Unarmed
<1>12. \A d \in Conns : beat'[d].at = "pinging" => beat'[d].to \in Conns
  BY <1>4 DEF HarnessInv, Threading
<1>13. \A d \in Conns : stage'[d] = "new" => stage[d] = "new" /\ d # c
  BY <1>2 DEF OnlyForward
<1>14. Threading'
  BY <1>8, <1>9, <1>10, <1>11, <1>12, <1>13 DEF HarnessInv, Threading
<1> QED
  BY <1>7, <1>14 DEF HarnessInv

\* The disconnect watcher, as it ends or turns into a reconnect loop.
LEMMA WatchesKeeps ==
    ASSUME HarnessInv, OnlyForward, NEW t \in Threads, Watches(t)
    PROVE  HarnessInv'
<1>1. thread[t].at # "idle" /\ Fewer
  BY StoppedFewer DEF Watches
<1>2. /\ attempt' \in Nat /\ state' \in States /\ \E at \in Elsewhere : Goes(t, at)
      /\ heartbeat' \in Conns \cup {None}
      /\ beat' \in [Conns -> [at : {"off", "waiting", "pinging"}, to : Conns \cup {None}]]
  <2>1. CASE Looping(t, 1, After(state, "reconnecting")) /\ heartbeat' = None /\ beat' = Stopped(beat)
    <3>1. attempt' \in Nat /\ state' \in States /\ \E at \in Elsewhere : Goes(t, at)
      BY <2>1, AfterTypes, LoopingMoves DEF HarnessInv
    <3> QED
      BY <2>1, <3>1 DEF Stopped, HarnessInv, HarnessTypeOK
  <2>2. CASE ~(Looping(t, 1, After(state, "reconnecting")) /\ heartbeat' = None /\ beat' = Stopped(beat))
    BY <2>2 DEF Watches, HarnessInv, HarnessTypeOK, Elsewhere
  <2> QED
    BY <2>1, <2>2
<1>3. UNCHANGED <<client, closed, missed, done, lastWatch, cancelled>>
  BY DEF Watches
<1> QED
  BY <1>1, <1>2, <1>3, RunningGoes DEF HarnessInv, HarnessTypeOK

-----------------------------------------------------------------------------
(* Heartbeats: the judgement of a ping, and what ends a client.            *)

\* A heartbeat that counts ReconnectAt misses ends and becomes a loop.
LEMMA JudgesKeeps ==
    ASSUME HarnessInv, OnlyForward, NEW c \in Conns, NEW m \in Nat, beat[c].at # "off",
           Judges(c, m), UNCHANGED <<client, closed, done, lastWatch, cancelled>>
    PROVE  HarnessInv'
<1> DEFINE b == [beat EXCEPT ![c].at = IF heartbeat = c THEN "waiting" ELSE "off"]
<1>1. /\ b \in [Conns -> [at : {"off", "waiting", "pinging"}, to : Conns \cup {None}]]
      /\ b[c].at = (IF heartbeat = c THEN "waiting" ELSE "off")
      /\ \A d \in Conns : d # c => b[d] = beat[d]
  BY DEF HarnessInv, HarnessTypeOK
<1>2. missed' \in 0..ReconnectAt
  BY HarnessConnAssumption DEF Judges
<1>3. CASE beat' = b /\ UNCHANGED <<heartbeat, thread, attempt>> /\ state' \in {state, "degraded", "ready"}
  <2>1. HarnessTypeOK'
    BY <1>1, <1>2, <1>3 DEF HarnessInv, HarnessTypeOK, States
  <2>2. Fewer
    BY <1>1, <1>3 DEF Fewer, HarnessInv, Threading
  <2> QED
    BY <1>3, <2>1, <2>2, ThreadsStay DEF HarnessInv
<1>4. CASE heartbeat' = None /\ beat' = Stopped(b) /\ Looping(Loop(c), 1, After(state, "reconnecting"))
  <2>0. Loop(c) \in Threads /\ thread[Loop(c)].at = "idle" /\ stage[c] # "new" /\ ~Unarmed(c)
    BY ThreadNames DEF HarnessInv, Threading, Unarmed
  <2>1. attempt' \in Nat /\ state' \in States /\ \E at \in Elsewhere : Goes(Loop(c), at)
    BY <1>4, <2>0, AfterTypes, LoopingMoves DEF HarnessInv
  <2> HIDE DEF b
  <2>2. /\ beat' \in [Conns -> [at : {"off", "waiting", "pinging"}, to : Conns \cup {None}]]
        /\ beat'[c].at = "off"
        /\ \A d \in Conns : d # c /\ beat'[d].at # "off" => beat'[d] = beat[d]
        /\ \A d \in Conns : d # c /\ beat[d].at = "off" => beat'[d].at = "off"
    BY <1>1, <1>4 DEF Stopped
  <2>3. PICK at \in Elsewhere : Goes(Loop(c), at)
    BY <2>1
  <2>4. /\ thread'[Loop(c)] = [at |-> at, of |-> thread[Loop(c)].of]
        /\ \A u \in Threads : u # Loop(c) => thread'[u] = thread[u]
        /\ thread' \in [Threads -> [at : {"idle", "backoff", "probe", "start", "dial", "register",
                                          "answer", "arm", "watch", "over"},
                                    of : Conns \cup {None}]]
    BY <2>0, <2>3, GoesMoves, ThreadTypes DEF HarnessInv
  <2>5. HarnessTypeOK'
    BY <1>2, <1>4, <2>1, <2>2, <2>4 DEF HarnessInv, HarnessTypeOK
  <2>6. \A d \in Conns, u \in Threads : Connects(u, d)' => Connects(u, d)
    BY <2>4 DEF Connects, Elsewhere, Connecting
  <2>7. \A d \in Conns : d # c /\ Unarmed(d) => Unarmed(d)'
    BY <2>2, <2>4, ThreadNames DEF Unarmed
  <2>8. \A u \in Threads : thread'[u].at \in Connecting \cup {"watch"} => thread'[u].of \in Conns
    BY <2>4 DEF Elsewhere, Connecting, HarnessInv, Threading
  <2>9. \A d \in Conns : beat'[d].at # "off" => thread'[Loop(d)].at = "idle"
    BY <2>2, <2>4, ThreadNames DEF HarnessInv, Threading
  <2>10. \A d \in Conns : beat'[d].at = "pinging" => beat'[d].to \in Conns
    BY <2>2 DEF HarnessInv, Threading
  <2>11. Threading'
    BY <2>0, <2>6, <2>7, <2>8, <2>9, <2>10 DEF HarnessInv, Threading, OnlyForward
  <2> QED
    BY <2>5, <2>11 DEF HarnessInv
<1> QED
  BY <1>3, <1>4 DEF Judges

\* The ping's frame, its pong and its giving up.
LEMMA PingsKeep ==
    ASSUME HarnessInv, OnlyForward, NEW c \in Conns, Pings(c) \/ Ponged(c)
    PROVE  HarnessInv'
<1>1. beat[c].at # "off" /\ UNCHANGED <<client, closed, done, lastWatch, cancelled>>
      /\ missed \in Nat /\ 0 \in Nat /\ missed + 1 \in Nat
  BY DEF Pings, Ponged, HarnessInv, HarnessTypeOK
<1>2. CASE Judges(c, 0) \/ Judges(c, missed + 1)
  BY <1>1, <1>2, JudgesKeeps
<1>3. CASE /\ beat[c].at = "waiting" /\ beat[c].to # None
           /\ beat' = [beat EXCEPT ![c].at = "pinging"]
           /\ UNCHANGED <<state, missed, attempt, heartbeat, thread>>
  <2>1. HarnessTypeOK'
    BY <1>1, <1>3 DEF HarnessInv, HarnessTypeOK
  <2>2. Fewer
    BY <1>3 DEF Fewer, HarnessInv, HarnessTypeOK, Threading
  <2> QED
    BY <1>3, <2>1, <2>2, ThreadsStay DEF HarnessInv
<1> QED
  BY <1>2, <1>3 DEF Pings, Ponged

\* Disconnect, the end of a client, and the steps that touch no thread.
LEMMA QuietKeeps ==
    ASSUME HarnessInv, OnlyForward,
           \/ UNCHANGED harnessVars
           \/ \E c \in Conns : MeetsEOF(c)
           \/ Disconnect
    PROVE  HarnessInv'
<1>1. UNCHANGED thread /\ (beat' = Stopped(beat) \/ UNCHANGED beat)
  BY DEF harnessVars, MeetsEOF, Disconnect
<1>2. Threading'
  BY <1>1, StoppedFewer, ThreadsStay DEF HarnessInv
<1>3. CASE UNCHANGED harnessVars
  BY <1>2, <1>3 DEF HarnessInv, HarnessTypeOK, harnessVars
<1>4. ASSUME NEW c \in Conns, MeetsEOF(c)
      PROVE  HarnessInv'
  BY <1>2, <1>4 DEF HarnessInv, HarnessTypeOK, MeetsEOF
<1>5. CASE Disconnect
  <2>1. beat' \in [Conns -> [at : {"off", "waiting", "pinging"}, to : Conns \cup {None}]]
    BY <1>5 DEF Disconnect, Stopped, HarnessInv, HarnessTypeOK
  <2>2. cancelled' \in SUBSET Threads
    BY <1>5, ThreadNames DEF Disconnect, HarnessInv, HarnessTypeOK
  <2>3. done' \in [Conns -> BOOLEAN]
    BY <1>5 DEF Disconnect, HarnessInv, HarnessTypeOK
  <2>4. HarnessTypeOK'
    BY <1>5, <2>1, <2>2, <2>3 DEF Disconnect, HarnessInv, HarnessTypeOK
  <2> QED
    BY <1>2, <2>4 DEF HarnessInv
<1> QED
  BY <1>3, <1>4, <1>5

-----------------------------------------------------------------------------
ConnInv == IInv /\ AnsweredTruly /\ HarnessInv

\* The invariant holds before anything is connected.
LEMMA ConnInit == Init => ConnInv
<1> SUFFICES ASSUME Init PROVE ConnInv
  OBVIOUS
<1>1. ServerInit
  BY DEF Init
<1>2. IInv
  BY <1>1, ServerInitOK
<1>3. AnsweredTruly
  BY <1>1 DEF ServerInit, AnsweredTruly
<1>4. HarnessTypeOK
  <2>1. missed \in 0..ReconnectAt /\ attempt \in Nat
    BY HarnessConnAssumption DEF Init
  <2>2. thread \in [Threads -> [at : {"idle", "backoff", "probe", "start", "dial", "register",
                                      "answer", "arm", "watch", "over"},
                                of : Conns \cup {None}]]
    BY DEF Init
  <2>3. beat \in [Conns -> [at : {"off", "waiting", "pinging"}, to : Conns \cup {None}]]
    BY DEF Init
  <2> QED
    BY <2>1, <2>2, <2>3 DEF Init, HarnessTypeOK, States
<1>5. Threading
  BY ThreadNames DEF Init, Threading, Unarmed, Connects, Connecting
<1> QED
  BY <1>2, <1>3, <1>4, <1>5 DEF ConnInv, HarnessInv

\* Every step of the harness and the server keeps it.
LEMMA ConnStep == ConnInv /\ [Next]_vars => ConnInv'
<1> SUFFICES ASSUME ConnInv, [Next]_vars PROVE ConnInv'
  OBVIOUS
<1>1. [ServerNext]_serverVars
  BY HarnessServes DEF ConnInv
<1>2. IInv'
  BY <1>1, ServerStepKeeps DEF ConnInv
<1>3. AnsweredTruly' /\ OnlyForward
  BY <1>1, AnswersTrue, ServerForward DEF ConnInv
<1>4. HarnessInv'
  <2>1. CASE UNCHANGED harnessVars
    BY <1>3, <2>1, QuietKeeps DEF ConnInv
  <2>2. ASSUME NEW t \in Threads, ThreadStep(t)
        PROVE  HarnessInv'
    <3>1. CASE BackedOff(t) \/ Probe(t) \/ AutoStarted(t)
      BY <1>3, <3>1, WaitKeeps DEF ConnInv
    <3>2. CASE WritesRegistration(t) \/ Registered(t)
      BY <1>3, <3>2, RegistrationKeeps DEF ConnInv
    <3>3. CASE Dials(t)
      BY <1>3, <3>3, DialsKeeps DEF ConnInv, IInv
    <3>4. CASE Arms(t)
      BY <1>3, <3>4, ArmsKeeps DEF ConnInv
    <3>5. CASE Watches(t)
      BY <1>3, <3>5, WatchesKeeps DEF ConnInv
    <3> QED
      BY <2>2, <3>1, <3>2, <3>3, <3>4, <3>5 DEF ThreadStep
  <2>3. ASSUME NEW c \in Conns, ClientStep(c)
        PROVE  HarnessInv'
    <3>1. CASE Pings(c) \/ Ponged(c)
      BY <1>3, <3>1, PingsKeep DEF ConnInv
    <3>2. CASE Unwanted(c)
      BY <1>3, <3>2, QuietKeeps DEF ConnInv, Unwanted
    <3>3. CASE MeetsEOF(c)
      BY <1>3, <3>3, QuietKeeps DEF ConnInv
    <3> QED
      BY <2>3, <3>1, <3>2, <3>3 DEF ClientStep
  <2>4. CASE Disconnect
    BY <1>3, <2>4, QuietKeeps DEF ConnInv
  <2>5. CASE Calls
    BY <1>3, <2>5, QuietKeeps DEF ConnInv, Calls
  <2> QED
    BY <2>1, <2>2, <2>3, <2>4, <2>5 DEF Next, vars, harnessVars
<1> QED
  BY <1>2, <1>3, <1>4 DEF ConnInv

-----------------------------------------------------------------------------
(* The client in use: registered, being registered, or given up for good.  *)
Registering(t) == thread[t].at \in {"register", "answer"}

ClientKnown ==
    client # None =>
        \/ catalogue[client]
        \/ state = "failed"
        \/ \E t \in Threads : Registering(t) /\ thread[t].of = client

\* What a step leaves of the threads that register, and of a failed manager.
RegistrationsGoOn ==
    \A t \in Threads : Registering(t) =>
        \/ Registering(t)' /\ thread'[t].of = thread[t].of
        \/ state' = "failed"
        \/ catalogue'[thread[t].of]

FailedStays == state = "failed" => state' = "failed"

\* The client in use stays known while its registration goes on.
LEMMA ClientKept ==
    ASSUME HarnessInv, ClientKnown, OnlyForward, RegistrationsGoOn, FailedStays,
           client' \in {client, None}
    PROVE  ClientKnown'
<1>1. SUFFICES ASSUME client' # None
               PROVE  \/ catalogue'[client'] \/ state' = "failed"
                      \/ \E t \in Threads : Registering(t)' /\ thread'[t].of = client'
  BY DEF ClientKnown
<1>2. client' = client /\ client \in Conns
  BY <1>1 DEF HarnessInv, HarnessTypeOK
<1>3. CASE catalogue[client] \/ state = "failed"
  BY <1>2, <1>3 DEF OnlyForward, FailedStays
<1>4. ASSUME NEW t \in Threads, Registering(t), thread[t].of = client
      PROVE  \/ catalogue'[client'] \/ state' = "failed"
             \/ \E u \in Threads : Registering(u)' /\ thread'[u].of = client'
  <2>1. \/ Registering(t)' /\ thread'[t].of = thread[t].of
        \/ state' = "failed"
        \/ catalogue'[thread[t].of]
    BY <1>4 DEF RegistrationsGoOn
  <2>2. CASE Registering(t)' /\ thread'[t].of = thread[t].of
    <3>1. Registering(t)' /\ thread'[t].of = client'
      BY <1>2, <1>4, <2>2
    <3> QED
      BY <3>1
  <2> QED
    BY <1>2, <1>4, <2>1, <2>2
<1> QED
  BY <1>1, <1>2, <1>3, <1>4 DEF ClientKnown

\* The steps of a thread that is not registering.
LEMMA WaitKeepsClient ==
    ASSUME HarnessInv, NEW t \in Threads, BackedOff(t) \/ Probe(t) \/ AutoStarted(t) \/ Watches(t)
    PROVE  RegistrationsGoOn /\ FailedStays /\ client' = client
<1>1. ~Registering(t) /\ client' = client
  BY DEF BackedOff, Probe, AutoStarted, Watches, Registering
<1>2. FailedStays /\ \E at \in Elsewhere : Goes(t, at)
  <2>1. CASE BackedOff(t)
    BY <2>1 DEF BackedOff, Elsewhere, FailedStays
  <2>2. CASE Probe(t)
    <3>1. CASE closed
      <4>1. state \in States /\ Failing(t, state)
        BY <2>2, <3>1 DEF Probe, HarnessInv, HarnessTypeOK
      <4> QED
        BY <4>1, FailingMoves DEF HarnessInv, FailedStays
    <3>2. CASE ~closed
      <4>1. \E at \in {"dial", "start"} : Goes(t, at)
        BY <2>2, <3>2 DEF Probe
      <4>2. state' \in {After(state, "connecting"), After(state, "starting")}
        BY <2>2, <3>2 DEF Probe
      <4> QED
        BY <4>1, <4>2, AfterInStates DEF Elsewhere, FailedStays, States
    <3> QED
      BY <3>1, <3>2
  <2>3. CASE AutoStarted(t)
    <3>1. CASE Fails(t)
      BY <3>1, FailsMoves DEF HarnessInv, FailedStays
    <3>2. CASE ~Fails(t)
      BY <2>3, <3>2, AfterInStates DEF AutoStarted, Elsewhere, FailedStays, States
    <3> QED
      BY <3>1, <3>2
  <2>4. CASE Watches(t)
    <3>1. CASE Looping(t, 1, After(state, "reconnecting"))
      BY <3>1, AfterTypes, AfterInStates, LoopingMoves DEF HarnessInv, FailedStays, States
    <3>2. CASE ~Looping(t, 1, After(state, "reconnecting"))
      BY <2>4, <3>2 DEF Watches, Elsewhere, FailedStays
    <3> QED
      BY <3>1, <3>2
  <2> QED
    BY <2>1, <2>2, <2>3, <2>4
<1> QED
  BY <1>1, <1>2, GoesMoves DEF HarnessInv, RegistrationsGoOn, Registering

\* A registration ends with the catalogue filled or the manager failed.
LEMMA RegistrationKeepsClient ==
    ASSUME ConnInv, OnlyForward, NEW t \in Threads, WritesRegistration(t) \/ Registered(t)
    PROVE  RegistrationsGoOn /\ FailedStays /\ client' = client
<1>1. /\ client' = client /\ HarnessTypeOK
      /\ thread[t].of \in Conns
  BY DEF WritesRegistration, Registered, ConnInv, HarnessInv, Threading, Connecting
<1>2. /\ FailedStays /\ \E at \in Elsewhere \cup Connecting : Goes(t, at)
      /\ Goes(t, "answer") \/ state' = "failed" \/ catalogue[thread[t].of]
  <2>1. CASE WritesRegistration(t)
    <3>1. /\ After(After(state, "registering"), "failed") = "failed"
          /\ state = "failed" => After(state, "registering") = "failed"
          /\ "failed" \in States
      BY <1>1, AfterTypes, AfterInStates DEF States
    <3>2. CASE Failing(t, After(After(state, "registering"), "failed"))
      BY <1>1, <3>1, <3>2, FailingMoves DEF FailedStays
    <3>3. CASE ~Failing(t, After(After(state, "registering"), "failed"))
      BY <2>1, <3>1, <3>3 DEF WritesRegistration, Connecting, FailedStays
    <3> QED
      BY <3>2, <3>3
  <2>2. CASE Registered(t)
    <3>1. CASE Fails(t)
      BY <1>1, <3>1, FailsMoves DEF FailedStays
    <3>2. CASE ~Fails(t)
      <4>1. /\ PeerReads(thread[t].of) /\ Head(outbox[thread[t].of]) = "registered"
            /\ state' = After(state, "ready") /\ Goes(t, "arm")
        BY <2>2, <3>2 DEF Registered
      <4>2. outbox[thread[t].of] \in Seq(Answers) /\ outbox[thread[t].of] # <<>>
        BY <1>1, <4>1 DEF PeerReads, ConnInv, IInv, ServerTypeOK
      <4>3. 1 \in DOMAIN outbox[thread[t].of] /\ outbox[thread[t].of][1] = "registered"
        BY <4>1, <4>2
      <4>4. catalogue[thread[t].of]
        BY <1>1, <4>3 DEF ConnInv, AnsweredTruly
      <4> QED
        BY <4>1, <4>4, AfterInStates DEF FailedStays, Connecting, States
    <3> QED
      BY <3>1, <3>2
  <2> QED
    BY <2>1, <2>2
<1>3. PICK at \in Elsewhere \cup Connecting : Goes(t, at)
  BY <1>2
<1>4. /\ thread'[t] = [at |-> at, of |-> thread[t].of]
      /\ \A u \in Threads : u # t => thread'[u] = thread[u]
  BY <1>1, <1>3, GoesMoves
<1>5. Goes(t, "answer") => thread'[t].at = "answer"
  <2>1. ASSUME Goes(t, "answer")
        PROVE  thread'[t] = [at |-> "answer", of |-> thread[t].of]
    BY <1>1, <2>1, GoesMoves
  <2> QED
    BY <2>1
<1>6. catalogue[thread[t].of] => catalogue'[thread[t].of]
  BY <1>1 DEF OnlyForward
<1> QED
  BY <1>1, <1>2, <1>3, <1>4, <1>5, <1>6 DEF RegistrationsGoOn, Registering

\* The new client is being registered by the thread that dialled it.
LEMMA DialsKeepsClient ==
    ASSUME ConnInv, ClientKnown, OnlyForward, NEW t \in Threads, Dials(t)
    PROVE  ClientKnown'
<1>1. ~Registering(t) /\ HarnessTypeOK
  BY DEF Dials, Registering, ConnInv, HarnessInv
<1>2. CASE Fails(t) /\ UNCHANGED client
  <2>1. state' = "failed"
    BY <1>1, <1>2, FailsMoves
  <2> QED
    BY <2>1 DEF ClientKnown
<1>3. CASE ~(Fails(t) /\ UNCHANGED client)
  <2>1. client' = Fresh /\ thread' = [thread EXCEPT ![t] = [at |-> "register", of |-> Fresh]]
    BY <1>3 DEF Dials
  <2>2. thread'[t].at = "register" /\ thread'[t].of = client'
    BY <1>1, <2>1 DEF HarnessTypeOK
  <2> QED
    BY <2>2 DEF ClientKnown, Registering
<1> QED
  BY <1>2, <1>3

\* Arming a connection takes over no registering thread.
LEMMA ArmsKeepsClient ==
    ASSUME ConnInv, NEW t \in Threads, Arms(t)
    PROVE  RegistrationsGoOn /\ FailedStays /\ client' = client
<1>1. /\ thread[t].at = "arm" /\ thread[t].of \in Conns /\ Connects(t, thread[t].of)
      /\ UNCHANGED <<state, client>> /\ HarnessTypeOK /\ Threading
  BY DEF Arms, ConnInv, HarnessInv, Threading, Connecting, Connects
<1>2. thread[Watcher(thread[t].of)].at = "idle" /\ Watcher(thread[t].of) \in Threads
  BY <1>1, ThreadNames DEF Threading, Unarmed
<1>3. \A u \in Threads : u \notin {t, Watcher(thread[t].of)} => thread'[u] = thread[u]
  <2>1. CASE client = None
    BY <1>1, <2>1, GoesMoves DEF Arms, NewWatcher
  <2>2. CASE client # None
    BY <1>1, <1>2, <2>2 DEF Arms, NewWatcher, HarnessTypeOK
  <2> QED
    BY <2>1, <2>2
<1> QED
  BY <1>1, <1>2, <1>3 DEF RegistrationsGoOn, Registering, FailedStays

\* Nor does a heartbeat that turns into a loop.
LEMMA PingsKeepClient ==
    ASSUME ConnInv, NEW c \in Conns, Pings(c) \/ Ponged(c)
    PROVE  RegistrationsGoOn /\ FailedStays /\ client' = client
<1>1. client' = client /\ HarnessTypeOK /\ Threading /\ beat[c].at # "off"
  BY DEF Pings, Ponged, ConnInv, HarnessInv
<1>2. CASE UNCHANGED <<thread, state>>
  BY <1>1, <1>2 DEF RegistrationsGoOn, Registering, FailedStays
<1>3. ASSUME NEW m, Judges(c, m)
      PROVE  RegistrationsGoOn /\ FailedStays
  <2>1. CASE Looping(Loop(c), 1, After(state, "reconnecting"))
    <3>1. Loop(c) \in Threads /\ thread[Loop(c)].at = "idle"
      BY <1>1, ThreadNames DEF Threading
    <3>2. FailedStays /\ \E at \in Elsewhere : Goes(Loop(c), at)
      BY <1>1, <2>1, <3>1, AfterTypes, AfterInStates, LoopingMoves DEF FailedStays, States
    <3> QED
      BY <1>1, <3>1, <3>2, GoesMoves DEF RegistrationsGoOn, Registering
  <2>2. CASE ~Looping(Loop(c), 1, After(state, "reconnecting"))
    <3>1. UNCHANGED thread /\ FailedStays
      BY <1>3, <2>2 DEF Judges, FailedStays
    <3> QED
      BY <3>1 DEF RegistrationsGoOn, Registering
  <2> QED
    BY <2>1, <2>2
<1> QED
  BY <1>1, <1>2, <1>3 DEF Pings, Ponged

\* Every step keeps the client in use known.
LEMMA ClientStaysKnown == ConnInv /\ ClientKnown /\ [Next]_vars => ClientKnown'
<1> SUFFICES ASSUME ConnInv, ClientKnown, [Next]_vars PROVE ClientKnown'
  OBVIOUS
<1>0. HarnessInv
  BY DEF ConnInv
<1>1. OnlyForward
  BY <1>0, HarnessServes, ServerForward DEF ConnInv
<1>2. ASSUME RegistrationsGoOn, FailedStays, client' \in {client, None}
      PROVE  ClientKnown'
  BY <1>0, <1>1, <1>2, ClientKept
<1>3. ASSUME UNCHANGED <<thread, state>>, client' \in {client, None}
      PROVE  ClientKnown'
  BY <1>2, <1>3 DEF RegistrationsGoOn, Registering, FailedStays
<1>4. ASSUME NEW t \in Threads, ThreadStep(t)
      PROVE  ClientKnown'
  <2>1. CASE BackedOff(t) \/ Probe(t) \/ AutoStarted(t) \/ Watches(t)
    BY <1>0, <1>2, <2>1, WaitKeepsClient
  <2>2. CASE WritesRegistration(t) \/ Registered(t)
    BY <1>1, <1>2, <2>2, RegistrationKeepsClient
  <2>3. CASE Dials(t)
    BY <1>1, <2>3, DialsKeepsClient
  <2>4. CASE Arms(t)
    BY <1>2, <2>4, ArmsKeepsClient
  <2> QED
    BY <1>4, <2>1, <2>2, <2>3, <2>4 DEF ThreadStep
<1>5. ASSUME NEW c \in Conns, ClientStep(c)
      PROVE  ClientKnown'
  <2>1. CASE Pings(c) \/ Ponged(c)
    BY <1>2, <2>1, PingsKeepClient
  <2>2. CASE Unwanted(c) \/ MeetsEOF(c)
    BY <1>3, <2>2 DEF Unwanted, MeetsEOF, harnessVars
  <2> QED
    BY <1>5, <2>1, <2>2 DEF ClientStep
<1>6. CASE Disconnect
  BY <1>3, <1>6 DEF Disconnect
<1>7. CASE UNCHANGED harnessVars
  BY <1>3, <1>7 DEF harnessVars
<1> QED
  BY <1>4, <1>5, <1>6, <1>7 DEF Next, vars, harnessVars, Calls

-----------------------------------------------------------------------------
(* The invariant of the harness's manager on the server.                   *)
THEOREM ConnInvariance == Spec => [](ConnInv /\ ClientKnown)
<1>1. Init => ClientKnown
  BY DEF Init, ClientKnown
<1>2. QED
  BY <1>1, ConnInit, ConnStep, ClientStaysKnown, PTL DEF Spec

(* Every value the harness's ConnectionManager and the server take has its *)
(* type, over any number of connects and restarts (connection.go:73-107).  *)
THEOREM HarnessTypesOK == Spec => []TypeOK
<1>1. ConnInv => TypeOK
  BY DEF ConnInv, IInv, HarnessInv, HarnessTypeOK, TypeOK
<1>2. QED
  BY <1>1, ConnInvariance, PTL

(* The manager never shows Ready or Degraded, with no connect under way,   *)
(* over a client the server has not registered (connection.go:192-271      *)
(* against capabilities.go:178-236): whatever the reconnect loops, the     *)
(* heartbeats and Disconnect do in between.                                *)
THEOREM ReadyMeansRegistered == Spec => []ReadyIsRegistered
<1>1. ClientKnown => ReadyIsRegistered
  BY DEF ClientKnown, Registering, ReadyIsRegistered
<1>2. QED
  BY <1>1, ConnInvariance, PTL

(* The harness's manager is one of the peers ServerSpec allows: each of    *)
(* its steps is a step of a peer of the server, or none (client.go:95-163, *)
(* heartbeat.go:62-153).                                                   *)
THEOREM HarnessImplementsServer == Spec => ServerSpec
<1>1. Init => ServerInit
  BY DEF Init
<1>2. ConnInv /\ [Next]_vars => [ServerNext]_serverVars
  BY HarnessServes DEF ConnInv
<1>3. QED
  BY <1>1, <1>2, ConnInvariance, PTL DEF Spec, ServerSpec

(* So what is proved of the server against any peers holds with the        *)
(* harness's manager, its reconnects and its heartbeats.                   *)
THEOREM ServerSafeUnderHarness ==
    Spec => [](ServedAfterRegistration /\ SlotsAreCounted /\ CleanShutdownIsDrained)
BY HarnessImplementsServer, NothingServedEarly, SlotsBounded, ShutdownDrains, PTL
=============================================================================
