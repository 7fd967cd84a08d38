------------------------- MODULE ConversationProofs -------------------------
(***************************************************************************)
(* Proofs about the conversation of a session.                             *)
(*                                                                         *)
(* The listing of a table is first shown to be what ORDER BY gives: every  *)
(* row once, each with the rows after it behind it.  The invariant is then *)
(* stated on the view of a session: its rows, the messages on their way to *)
(* the table, the listings under way and its memory.  Each action of the   *)
(* model changes the view of every session in one of eight ways, and each  *)
(* way keeps the invariant; so the proof of a step is a proof that the     *)
(* action is one of them.                                                  *)
(***************************************************************************)
EXTENDS Conversation, FiniteSetTheorems, WellFoundedInduction, SequenceTheorems, TLAPS

-----------------------------------------------------------------------------
(* The listing of a table *)

\* A set of naturals with a bound has a largest element, and Max is it.
LEMMA MaxOf ==
    ASSUME NEW S \in SUBSET Nat, S # {}, NEW b \in Nat, \A x \in S : x <= b
    PROVE  Max(S) \in S /\ \A x \in S : x <= Max(S)
<1> DEFINE U == {u \in Nat : \A x \in S : x <= u}
<1>1. U # {} /\ U \subseteq Nat
  OBVIOUS
<1>2. PICK m \in U : \A y \in U : ~ (<<y, m>> \in OpToRel(<, Nat))
  BY <1>1, WFMin, NatLessThanWellFounded
<1>3. m \in U /\ \A y \in U : ~(y < m)
  BY <1>2 DEF OpToRel
<1>4. m \in S
  <2>1. SUFFICES ASSUME m \notin S PROVE FALSE
    OBVIOUS
  <2>2. \A x \in S : x <= m - 1
    BY <1>3, <2>1
  <2>3. m # 0
    <3>1. PICK x \in S : TRUE
      OBVIOUS
    <3> QED
      BY <1>3, <2>2, <3>1
  <2>4. m - 1 \in U
    BY <1>3, <2>2, <2>3
  <2> QED
    BY <1>3, <2>4
<1>5. m \in S /\ \A x \in S : m >= x
  BY <1>3, <1>4
<1> QED
  BY <1>5 DEF Max

Roles == {"user", "assistant", "summary"}
Message == [id : Nat, seq : Nat, role : Roles, call : Nat, answers : Nat]

\* No two rows have one id, so the rows of a table are in a strict order.
OneRowPerId(T) == \A a, b \in T : a.id = b.id => a = b

Preceding(T, m) == {o \in T : Before(o, m)}
Rank(T) == [m \in T |-> Cardinality(Preceding(T, m))]

\* Before is a strict order, total on messages of different numbers.
LEMMA BeforeOrders ==
    ASSUME NEW a \in Message, NEW b \in Message, NEW d \in Message
    PROVE  /\ ~Before(a, a)
           /\ Before(a, b) /\ Before(b, d) => Before(a, d)
           /\ Before(a, b) \/ Before(b, a) \/ a.id = b.id
BY DEF Before, Message

\* The ranks of the rows of a finite table are 0 to its size less one.
LEMMA RanksCount ==
    ASSUME NEW T \in SUBSET Message, IsFiniteSet(T), OneRowPerId(T)
    PROVE  /\ Cardinality(T) \in Nat
           /\ \A m \in T : Rank(T)[m] \in 0 .. Cardinality(T) - 1
           /\ \A a, b \in T : Rank(T)[a] < Rank(T)[b] <=> Before(a, b)
           /\ \A k \in 0 .. Cardinality(T) - 1 : \E m \in T : Rank(T)[m] = k
<1> DEFINE n == Cardinality(T)
<1>1. n \in Nat
  BY FS_CardinalityType
<1>2. ASSUME NEW m \in T
      PROVE  /\ IsFiniteSet(Preceding(T, m)) /\ Rank(T)[m] = Cardinality(Preceding(T, m))
             /\ Rank(T)[m] \in 0 .. n - 1
  <2>1. Preceding(T, m) \in SUBSET (T \ {m})
    BY BeforeOrders DEF Preceding
  <2>2. IsFiniteSet(T \ {m}) /\ Cardinality(T \ {m}) = n - 1
    BY FS_RemoveElement
  <2>3. IsFiniteSet(Preceding(T, m)) /\ Cardinality(Preceding(T, m)) <= n - 1
    BY <2>1, <2>2, FS_Subset
  <2>4. Cardinality(Preceding(T, m)) \in Nat
    BY <2>3, FS_CardinalityType
  <2> QED
    BY <1>1, <2>3, <2>4 DEF Rank
<1>3. ASSUME NEW a \in T, NEW b \in T, Before(a, b)
      PROVE  Rank(T)[a] < Rank(T)[b]
  <2>1. Preceding(T, a) \cup {a} \in SUBSET Preceding(T, b) /\ a \notin Preceding(T, a)
    BY <1>3, BeforeOrders DEF Preceding
  <2>2. Cardinality(Preceding(T, a) \cup {a}) = Cardinality(Preceding(T, a)) + 1
    BY <1>2, <2>1, FS_AddElement
  <2>3. Cardinality(Preceding(T, a) \cup {a}) <= Cardinality(Preceding(T, b))
    BY <1>2, <2>1, FS_Subset
  <2> QED
    BY <1>1, <1>2, <2>2, <2>3
<1>4. ASSUME NEW a \in T, NEW b \in T, Rank(T)[a] < Rank(T)[b]
      PROVE  Before(a, b)
  <2>1. a # b /\ Rank(T)[a] \in Nat /\ Rank(T)[b] \in Nat
    BY <1>1, <1>2, <1>4
  <2>2. Before(a, b) \/ Before(b, a)
    BY <2>1, BeforeOrders DEF OneRowPerId
  <2> QED
    BY <1>3, <1>4, <2>1, <2>2
<1>5. Rank(T) \in Injection(T, 0 .. n - 1)
  <2>1. Rank(T) \in [T -> 0 .. n - 1]
    BY <1>2 DEF Rank
  <2>2. \A a, b \in T : Rank(T)[a] = Rank(T)[b] => a = b
    <3>1. SUFFICES ASSUME NEW a \in T, NEW b \in T, Rank(T)[a] = Rank(T)[b], a # b PROVE FALSE
      OBVIOUS
    <3>2. Before(a, b) \/ Before(b, a)
      BY <3>1, BeforeOrders DEF OneRowPerId
    <3>3. Rank(T)[a] \in Nat /\ Rank(T)[b] \in Nat
      BY <1>1, <1>2
    <3> QED
      BY <1>3, <3>1, <3>2, <3>3
  <2> QED
    BY <2>1, <2>2 DEF Injection, IsInjective
<1>6. IsFiniteSet(0 .. n - 1) /\ Cardinality(0 .. n - 1) = n
  <2>1. IsFiniteSet(0 .. n - 1) /\ Cardinality(0 .. n - 1) = IF 0 > n - 1 THEN 0 ELSE n - 1 - 0 + 1
    BY <1>1, FS_Interval
  <2> QED
    BY <1>1, <2>1
<1>7. Rank(T) \in Surjection(T, 0 .. n - 1)
  BY <1>5, <1>6, FS_Injection
<1>8. \A k \in 0 .. n - 1 : \E m \in T : Rank(T)[m] = k
  BY <1>7 DEF Surjection
<1> QED
  BY <1>1, <1>2, <1>3, <1>4, <1>8

\* ListTurns lists every row once, in order; the row at i has the others after it.
LEMMA TurnsAreListed ==
    ASSUME NEW s, turns[s] \in SUBSET Message, IsFiniteSet(turns[s]), OneRowPerId(turns[s])
    PROVE  /\ ListTurns(s) \in Seq(turns[s])
           /\ Len(ListTurns(s)) = Cardinality(turns[s]) /\ Cardinality(turns[s]) \in Nat
           /\ \A i, j \in 1 .. Cardinality(turns[s]) :
                 i < j => Before(ListTurns(s)[i], ListTurns(s)[j])
           /\ \A i \in 1 .. Cardinality(turns[s]) :
                 Cardinality({o \in turns[s] : Before(ListTurns(s)[i], o)}) = Cardinality(turns[s]) - i
<1> DEFINE T == turns[s]
           n == Cardinality(T)
           l == ListTurns(s)
<1>1. /\ n \in Nat
      /\ \A m \in T : Rank(T)[m] \in 0 .. n - 1
      /\ \A a, b \in T : Rank(T)[a] < Rank(T)[b] <=> Before(a, b)
      /\ \A k \in 0 .. n - 1 : \E m \in T : Rank(T)[m] = k
  BY RanksCount
<1>2. \A m \in T : Rank(T)[m] = Cardinality({o \in T : Before(o, m)})
  BY DEF Rank, Preceding
<1>3. l = [i \in 1 .. n |-> CHOOSE m \in T : Cardinality({o \in T : Before(o, m)}) = i - 1]
  BY DEF ListTurns
<1>4. ASSUME NEW i \in 1 .. n
      PROVE  l[i] \in T /\ Rank(T)[l[i]] = i - 1
  <2>1. i - 1 \in 0 .. n - 1
    BY <1>1
  <2>2. \E m \in T : Cardinality({o \in T : Before(o, m)}) = i - 1
    BY <1>1, <1>2, <2>1
  <2>3. l[i] \in T /\ Cardinality({o \in T : Before(o, l[i])}) = i - 1
    BY <1>3, <2>2
  <2> QED
    BY <1>2, <2>3
<1>5. l \in [1 .. n -> T]
  BY <1>3, <1>4
<1>6. l \in Seq(T) /\ Len(l) = n
  BY <1>1, <1>5
<1>7. ASSUME NEW i \in 1 .. n
      PROVE  Cardinality({o \in T : Before(l[i], o)}) = n - i
  <2> DEFINE m == l[i]
             P == {o \in T : Before(o, m)}
             F == {o \in T : Before(m, o)}
  <2>1. m \in T /\ Cardinality(P) = i - 1
    BY <1>2, <1>4
  <2>2. IsFiniteSet(P) /\ m \notin P
    BY <2>1, FS_Subset, BeforeOrders
  <2>3. IsFiniteSet(P \cup {m}) /\ Cardinality(P \cup {m}) = i
    <3> HIDE DEF P, m
    <3>1. Cardinality(P \cup {m}) = Cardinality(P) + 1
      BY <2>2, FS_AddElement
    <3> QED
      BY <1>1, <2>1, <2>2, <3>1, FS_AddElement
  <2>4. F = T \ (P \cup {m})
    <3>1. \A o \in T : Before(m, o) => ~Before(o, m) /\ o # m
      BY <2>1, BeforeOrders
    <3>2. \A o \in T : o # m /\ ~Before(o, m) => Before(m, o)
      BY <2>1, BeforeOrders DEF OneRowPerId
    <3> QED
      BY <3>1, <3>2
  <2>5. T \cap (P \cup {m}) = P \cup {m}
    BY <2>1
  <2>6. Cardinality(T \ (P \cup {m})) = Cardinality(T) - Cardinality(T \cap (P \cup {m}))
    BY FS_Difference
  <2> QED
    BY <2>3, <2>4, <2>5, <2>6
<1>8. \A i, j \in 1 .. n : i < j => Before(l[i], l[j])
  BY <1>1, <1>4
<1> QED
  BY <1>1, <1>6, <1>7, <1>8

-----------------------------------------------------------------------------
(* The structure of a state *)

Places == {"idle", "create", "match", "persist", "restore", "delete", "summarize"}
Memory  == [messages : Seq(Message), userSequence : Nat, storageSequence : Nat]
Request == [at : Places, session : Session \cup {None}, list : Seq(Message), call : Nat]
Relay   == [at : {"stream", "persist"}, client : Client, session : Session, turn : Nat,
            call : Nat, msg : Message]

TypeOK ==
    /\ conv \in [Session -> Memory]
    /\ active \in SUBSET Session
    /\ turns \in [Session -> SUBSET Message]
    /\ stored \in SUBSET Session
    /\ bound \in [Client -> Session \cup {None}]
    /\ req \in [Client -> Request]
    /\ relays \in SUBSET Relay
    /\ todo \in [Client -> SUBSET Nat]
    /\ made \in Nat
    /\ losses \in Nat
    /\ lost \in SUBSET Session

\* What a request under way carries.
CarriesOne  == {"create", "persist"}
CarriesList == {"restore", "delete", "summarize"}
Requests ==
    \A c \in Client :
        /\ req[c].at = "idle" => req[c] = Idle
        /\ req[c].at # "idle" => req[c].session \in stored
        /\ req[c].at \in {"idle", "match"} => req[c].list = <<>>
        /\ req[c].at \in CarriesOne => Len(req[c].list) = 1
        /\ req[c].at \in {"delete", "summarize"} => Len(req[c].list) >= 1

\* Messages join the conversations of active sessions only; an inactive one has
\* an empty conversation, a session without a row no turns.
Activity ==
    /\ active \subseteq stored
    /\ \A s \in Session : IsFiniteSet(turns[s]) /\ (s \notin stored => turns[s] = {})
    /\ \A r \in relays : r.session \in active
    /\ \A c \in Client : req[c].at \in CarriesOne \cup {"match"} => req[c].session \in active
    /\ \A s \in Session : s \notin active => conv[s] = NewConversation

Structure == TypeOK /\ Requests /\ Activity

\* What the constructors of messages, conversations and requests return.
LEMMA Values ==
    /\ NewConversation \in Memory /\ NewConversation.messages = <<>>
    /\ NewConversation.storageSequence = 0
    /\ Idle \in Request /\ Idle.at = "idle" /\ Idle.list = <<>> /\ Idle.session = None
<1>1. <<>> \in Seq(Message)
  OBVIOUS
<1> QED
  BY <1>1 DEF NewConversation, Idle, Memory, Request, Places

\* A new message has the next number and the next sequence of its session.
LEMMA NewMessages ==
    ASSUME TypeOK, NEW s \in Session, NEW role \in Roles, NEW call \in Nat, NEW answers \in Nat
    PROVE  LET m == NewMessage(s, role, call, answers)
           IN  /\ m \in Message /\ m.id = made + 1 /\ m.role = role
               /\ m.seq = conv[s].storageSequence + 1
<1>1. conv[s].storageSequence \in Nat /\ made \in Nat
  BY DEF TypeOK, Memory
<1> QED
  BY <1>1 DEF NewMessage, Message

\* AppendMessage puts the message last and takes the next sequence.
LEMMA Appended ==
    ASSUME NEW cv \in Memory, NEW m \in Message
    PROVE  /\ AppendMessage(cv, m) \in Memory
           /\ AppendMessage(cv, m).messages = Append(cv.messages, m)
           /\ AppendMessage(cv, m).storageSequence = cv.storageSequence + 1
           /\ AppendMessage(cv, m).userSequence = cv.userSequence
<1> DEFINE ms == Append(cv.messages, m)
           n == cv.storageSequence + 1
<1>1. cv.messages \in Seq(Message) /\ cv.storageSequence \in Nat /\ cv.userSequence \in Nat
  BY DEF Memory
<1>2. ms \in Seq(Message) /\ n \in Nat
  BY <1>1
<1>3. AppendMessage(cv, m) = [cv EXCEPT !.messages = ms, !.storageSequence = n]
  BY DEF AppendMessage
<1> HIDE DEF ms, n
<1>4. AppendMessage(cv, m) = [messages |-> ms, userSequence |-> cv.userSequence, storageSequence |-> n]
  BY <1>3 DEF Memory
<1>5. AppendMessage(cv, m) \in Memory
  BY <1>1, <1>2, <1>4 DEF Memory
<1> QED
  BY <1>4, <1>5 DEF ms, n

\* A message joins the conversation of s.
Joins(s, m) ==
    /\ conv' \in [Session -> Memory]
    /\ \A t \in Session : t # s => conv'[t] = conv[t]
    /\ conv'[s].messages = Append(conv[s].messages, m)
    /\ conv'[s].storageSequence = conv[s].storageSequence + 1
    /\ conv'[s].userSequence = conv[s].userSequence + (IF m.role = "user" THEN 1 ELSE 0)

\* AppendUserTurn has a user message join the conversation, and counts it.
LEMMA UserJoins ==
    ASSUME TypeOK, NEW s \in Session, NEW answers \in Nat, AppendUserTurn(s, answers)
    PROVE  Joins(s, NewMessage(s, "user", 0, answers))
<1> DEFINE m == NewMessage(s, "user", 0, answers)
           cv == AppendMessage(conv[s], m)
<1>1. m \in Message /\ m.role = "user"
  BY NewMessages DEF Roles
<1>2. conv[s] \in Memory
  BY DEF TypeOK
<1>3. /\ cv \in Memory /\ cv.messages = Append(conv[s].messages, m)
      /\ cv.storageSequence = conv[s].storageSequence + 1 /\ cv.userSequence = conv[s].userSequence
  BY <1>1, <1>2, Appended
<1>4. conv' = [conv EXCEPT ![s] = [cv EXCEPT !.userSequence = @ + 1]]
  BY DEF AppendUserTurn, TypeOK
<1> HIDE DEF m, cv
<1>5. /\ [cv EXCEPT !.userSequence = @ + 1] \in Memory
      /\ [cv EXCEPT !.userSequence = @ + 1].messages = cv.messages
      /\ [cv EXCEPT !.userSequence = @ + 1].storageSequence = cv.storageSequence
      /\ [cv EXCEPT !.userSequence = @ + 1].userSequence = cv.userSequence + 1
  BY <1>3 DEF Memory
<1>6. conv'[s] = [cv EXCEPT !.userSequence = @ + 1] /\ conv' \in [Session -> Memory]
      /\ \A t \in Session : t # s => conv'[t] = conv[t]
  BY <1>4, <1>5 DEF TypeOK
<1>7. Joins(s, m)
  BY <1>1, <1>3, <1>5, <1>6 DEF Joins
<1> QED
  BY <1>7 DEF m

\* AppendAssistantTurn has an assistant message join it, and counts none.
LEMMA AssistantJoins ==
    ASSUME TypeOK, NEW s \in Session, NEW call \in Nat, AppendAssistantTurn(s, call)
    PROVE  Joins(s, NewMessage(s, "assistant", call, 0))
<1> DEFINE m == NewMessage(s, "assistant", call, 0)
           cv == AppendMessage(conv[s], m)
<1>1. m \in Message /\ m.role = "assistant"
  BY NewMessages DEF Roles
<1>2. conv[s] \in Memory
  BY DEF TypeOK
<1>3. /\ cv \in Memory /\ cv.messages = Append(conv[s].messages, m)
      /\ cv.storageSequence = conv[s].storageSequence + 1 /\ cv.userSequence = conv[s].userSequence
  BY <1>1, <1>2, Appended
<1>4. conv' = [conv EXCEPT ![s] = cv]
  BY DEF AppendAssistantTurn, TypeOK
<1> HIDE DEF m, cv
<1>5. conv'[s] = cv /\ conv' \in [Session -> Memory] /\ \A t \in Session : t # s => conv'[t] = conv[t]
  BY <1>3, <1>4 DEF TypeOK
<1>6. conv[s].userSequence \in Nat
  BY <1>2 DEF Memory
<1>7. Joins(s, m)
  BY <1>1, <1>3, <1>5, <1>6 DEF Joins
<1> QED
  BY <1>7 DEF m

\* RestoreFromTurns takes the list and the largest of its sequences.
LEMMA Restored ==
    ASSUME NEW cv, NEW list \in Seq(Message), NEW b \in Nat,
           \A i \in DOMAIN list : list[i].seq <= b
    PROVE  /\ RestoreFromTurns(cv, list).messages = list
           /\ RestoreFromTurns(cv, list).userSequence = UserTurns(list)
           /\ RestoreFromTurns(cv, list).storageSequence \in Nat
           /\ RestoreFromTurns(cv, list).storageSequence <= b
           /\ \A i \in DOMAIN list : list[i].seq <= RestoreFromTurns(cv, list).storageSequence
<1> DEFINE S == {list[i].seq : i \in DOMAIN list}
<1>1. /\ RestoreFromTurns(cv, list).messages = list
      /\ RestoreFromTurns(cv, list).userSequence = UserTurns(list)
      /\ RestoreFromTurns(cv, list).storageSequence = IF list = <<>> THEN 0 ELSE Max(S)
  BY DEF RestoreFromTurns
<1>2. CASE list = <<>>
  BY <1>1, <1>2
<1>3. CASE list # <<>>
  <2>1. \A i \in DOMAIN list : list[i].seq \in Nat
    <3>1. \A i \in DOMAIN list : list[i] \in Message
      BY ElementOfSeq, LenProperties
    <3> QED
      BY <3>1 DEF Message
  <2>2. S \in SUBSET Nat /\ S # {} /\ \A x \in S : x <= b
    BY <1>3, <2>1
  <2> HIDE DEF S
  <2>3. Max(S) \in S /\ \A x \in S : x <= Max(S)
    BY <2>2, MaxOf
  <2>4. \A i \in DOMAIN list : list[i].seq \in S
    BY DEF S
  <2>5. Max(S) \in Nat /\ Max(S) <= b
    BY <2>2, <2>3
  <2> QED
    BY <1>1, <1>3, <2>3, <2>4, <2>5
<1> QED
  BY <1>2, <1>3

\* The number of user turns, and what a message adds to it.
LEMMA UserTurnsCount ==
    ASSUME NEW list \in Seq(Message)
    PROVE  /\ UserTurns(list) \in Nat
           /\ \A m \in Message :
                 UserTurns(Append(list, m)) = UserTurns(list) + (IF m.role = "user" THEN 1 ELSE 0)
<1> DEFINE U(l) == {i \in DOMAIN l : l[i].role = "user"}
<1>1. Len(list) \in Nat /\ DOMAIN list = 1 .. Len(list)
  OBVIOUS
<1>2. IsFiniteSet(DOMAIN list)
  BY <1>1, FS_Interval
<1>3. IsFiniteSet(U(list)) /\ Cardinality(U(list)) \in Nat
  BY <1>2, FS_Subset, FS_CardinalityType
<1>4. ASSUME NEW m \in Message
      PROVE  Cardinality(U(Append(list, m))) = Cardinality(U(list)) + (IF m.role = "user" THEN 1 ELSE 0)
  <2> DEFINE l == Append(list, m)
  <2>1. /\ DOMAIN l = 1 .. Len(list) + 1
        /\ \A i \in 1 .. Len(list) : l[i] = list[i]
        /\ l[Len(list) + 1] = m
    BY AppendProperties, LenProperties
  <2> HIDE DEF l
  <2>2. CASE m.role = "user"
    <3>1. U(l) = U(list) \cup {Len(list) + 1}
      BY <1>1, <2>1, <2>2
    <3>2. Len(list) + 1 \notin U(list)
      BY <1>1
    <3> HIDE DEF U
    <3>3. Cardinality(U(list) \cup {Len(list) + 1}) = Cardinality(U(list)) + 1
      BY <1>3, <3>2, FS_AddElement
    <3> QED
      BY <2>2, <3>1, <3>3 DEF l
  <2>3. CASE m.role # "user"
    <3>1. U(l) = U(list)
      BY <1>1, <2>1, <2>3
    <3> HIDE DEF U
    <3>2. Cardinality(U(l)) = Cardinality(U(list)) + 0
      BY <1>3, <3>1
    <3> QED
      BY <2>3, <3>2 DEF l
  <2> QED
    BY <2>2, <2>3
<1> QED
  BY <1>3, <1>4 DEF UserTurns

-----------------------------------------------------------------------------
(* The view of a session, and the invariant *)

Entries(list) == {list[i] : i \in DOMAIN list}

AtPlace(at, s) == {c \in Client : req[c].session = s /\ req[c].at \in at}

\* What is known of session s: its rows, the messages on their way to the table with
\* the request or the relay that holds each, the listings under way, and its memory.
View(s) ==
    [rows      |-> turns[s],
     hands     |-> {[by |-> <<"request", c>>, msg |-> req[c].list[1]] : c \in AtPlace(CarriesOne, s)}
                   \cup {[by |-> <<"relay", r>>, msg |-> r.msg] :
                            r \in {q \in relays : q.session = s /\ q.at = "persist"}},
     restores  |-> UNION {Entries(req[c].list) : c \in AtPlace({"restore"}, s)},
     compacts  |-> UNION {Entries(req[c].list) : c \in AtPlace({"delete", "summarize"}, s)},
     summaries |-> {req[c].list[1] : c \in AtPlace({"summarize"}, s)},
     memory    |-> Entries(conv[s].messages),
     next      |-> conv[s].storageSequence]

Typed(v) ==
    /\ v.rows \in SUBSET Message /\ IsFiniteSet(v.rows)
    /\ \A x \in v.hands : x.msg \in Message
    /\ v.restores \in SUBSET Message /\ v.compacts \in SUBSET Message /\ v.memory \in SUBSET Message
    /\ v.summaries \in SUBSET v.compacts
    /\ v.next \in Nat

Listed(v)   == v.rows \cup v.restores \cup v.compacts
HeldIn(v, m) == m \in Listed(v) \/ m \in v.memory \/ \E x \in v.hands : m = x.msg
Above(v, e) == {o \in v.rows : o.seq > e.seq}

\* A message's number tells its sequence; one row has it, or one request or relay
\* still holds it, and of what a compaction replaces only its summary can be left.
Numbered(n, v) ==
    /\ v.next <= n
    /\ \A m \in Message : HeldIn(v, m) => m.id <= n /\ m.seq <= n
    /\ \A m, o \in Message : HeldIn(v, m) /\ HeldIn(v, o) /\ m.id = o.id => m.seq = o.seq
    /\ OneRowPerId(v.rows)
    /\ \A x \in v.hands : \A e \in Listed(v) : e.id # x.msg.id
    /\ \A x, y \in v.hands : x.msg.id = y.msg.id => x = y
    /\ \A e \in v.summaries : \A o \in v.rows : o.id = e.id => o.role = "summary"

\* The messages are in the order of their sequences; rows follow what is listed.
Ordered(v) ==
    /\ \A m, o \in Message : HeldIn(v, m) /\ HeldIn(v, o) /\ m.id < o.id => m.seq < o.seq
    /\ \A e \in v.restores : \E m \in v.rows : m.seq >= e.seq
    /\ \A e \in v.compacts : Cardinality(Above(v, e)) >= KeepFloor

\* Memory misses no turn, and its counter is past every message.
Complete(v) ==
    /\ \A m \in v.rows : \E o \in v.memory : o.id = m.id
    /\ \A x \in v.hands : \E o \in v.memory : o.id = x.msg.id
Current(v) == Complete(v) /\ \A m \in Message : HeldIn(v, m) => m.seq <= v.next

-----------------------------------------------------------------------------
(* How a step changes a view *)

\* Nothing new is held; memory is kept or emptied.
Keeps(v, w) ==
    /\ w.rows = v.rows
    /\ w.hands \subseteq v.hands
    /\ w.restores \subseteq v.restores
    /\ w.compacts \subseteq v.compacts
    /\ w.summaries \subseteq v.summaries
    /\ \/ w.memory = v.memory /\ w.next = v.next
       \/ w.memory = {} /\ w.next = 0

\* An empty memory that misses nothing holds for a session without messages.
LEMMA EmptyIsCurrent ==
    ASSUME NEW v, Typed(v), Ordered(v), Complete(v), v.memory = {}
    PROVE  (\A m : ~HeldIn(v, m)) /\ Current(v)
<1>1. v.rows = {} /\ v.hands = {}
  BY DEF Complete
<1>2. v.restores = {}
  BY <1>1 DEF Ordered
<1>3. \A e \in v.compacts : Above(v, e) = {}
  BY <1>1 DEF Above
<1>4. v.compacts = {}
  BY <1>3, FS_EmptySet, ConversationAssumption DEF Ordered
<1>5. \A m : ~HeldIn(v, m)
  BY <1>1, <1>2, <1>4 DEF HeldIn, Listed
<1> QED
  BY <1>5 DEF Current

\* Keeping a view keeps the invariant.
LEMMA KeepsInvariant ==
    ASSUME NEW v, NEW w, NEW n \in Nat, NEW k \in Nat, n <= k, Typed(v), Typed(w), Keeps(v, w),
           Numbered(n, v)
    PROVE  /\ Numbered(k, w)
           /\ Ordered(v) => Ordered(w)
           /\ Ordered(v) /\ Complete(w) /\ (Current(v) \/ v.memory = {}) => Current(w)
<1>1. \A m : HeldIn(w, m) => HeldIn(v, m)
  BY DEF HeldIn, Listed, Keeps
<1>2. Listed(w) \subseteq Listed(v)
  BY DEF Listed, Keeps
<1>3. Numbered(k, w)
  <2>1. w.next <= k
    BY DEF Numbered, Keeps, Typed
  <2>2. \A m \in Message : HeldIn(w, m) => m.id <= k /\ m.seq <= k
    BY <1>1 DEF Numbered, Message
  <2>3. \A m, o \in Message : HeldIn(w, m) /\ HeldIn(w, o) /\ m.id = o.id => m.seq = o.seq
    BY <1>1 DEF Numbered
  <2>4. OneRowPerId(w.rows)
    BY DEF Numbered, Keeps
  <2>5. \A x \in w.hands : \A e \in Listed(w) : e.id # x.msg.id
    BY <1>2 DEF Numbered, Keeps
  <2>6. \A x, y \in w.hands : x.msg.id = y.msg.id => x = y
    BY DEF Numbered, Keeps
  <2>7. \A e \in w.summaries : \A o \in w.rows : o.id = e.id => o.role = "summary"
    BY DEF Numbered, Keeps
  <2> QED
    BY <2>1, <2>2, <2>3, <2>4, <2>5, <2>6, <2>7 DEF Numbered
<1>4. ASSUME Ordered(v)
      PROVE  Ordered(w)
  <2>1. \A m, o \in Message : HeldIn(w, m) /\ HeldIn(w, o) /\ m.id < o.id => m.seq < o.seq
    BY <1>1, <1>4 DEF Ordered
  <2>2. \A e \in w.restores : \E m \in w.rows : m.seq >= e.seq
    BY <1>4 DEF Ordered, Keeps
  <2>3. \A e : Above(w, e) = Above(v, e)
    BY DEF Above, Keeps
  <2>4. \A e \in w.compacts : Cardinality(Above(w, e)) >= KeepFloor
    BY <1>4, <2>3 DEF Ordered, Keeps
  <2> QED
    BY <2>1, <2>2, <2>4 DEF Ordered
<1>5. ASSUME Ordered(v), Complete(w), Current(v) \/ v.memory = {}
      PROVE  Current(w)
  <2>1. CASE w.memory = {}
    BY <1>4, <1>5, <2>1, EmptyIsCurrent
  <2>2. CASE w.memory # {}
    BY <1>1, <1>5, <2>2 DEF Current, Keeps
  <2> QED
    BY <2>1, <2>2
<1> QED
  BY <1>3, <1>4, <1>5

\* The message of x joins the conversation and waits to be stored.
Gains(v, w, x, n) ==
    /\ x.msg.id = n + 1 /\ x.msg.seq = v.next + 1
    /\ w.rows = v.rows
    /\ w.hands \subseteq v.hands \cup {x}
    /\ w.restores \subseteq v.restores
    /\ w.compacts \subseteq v.compacts
    /\ w.summaries \subseteq v.summaries
    /\ w.memory = v.memory \cup {x.msg} /\ w.next = v.next + 1

\* So does a new message: it is after every other of its session, either because the
\* counter is past them or because the session has none.
LEMMA GainsInvariant ==
    ASSUME NEW v, NEW w, NEW x, x.msg \in Message, NEW n \in Nat, Typed(v), Typed(w), Gains(v, w, x, n),
           Numbered(n, v)
    PROVE  /\ Numbered(n + 1, w)
           /\ Ordered(v) /\ Complete(w) /\ (Current(v) \/ (v.memory = {} /\ v.next = 0))
                 => Ordered(w) /\ Current(w)
<1> DEFINE m == x.msg
<1>1. \A o : HeldIn(w, o) => HeldIn(v, o) \/ o = m
  BY DEF HeldIn, Listed, Gains
<1>2. Listed(w) \subseteq Listed(v) /\ \A e \in Listed(w) : e \in Message /\ HeldIn(v, e)
  BY DEF Listed, Gains, HeldIn, Typed
<1>3. \A y \in v.hands : y.msg \in Message /\ HeldIn(v, y.msg)
  BY DEF HeldIn, Typed
<1>4. \A o \in Message : HeldIn(v, o) => o.id < m.id /\ o.id <= n /\ o.seq <= n
  BY DEF Numbered, Gains, Message
<1>5. m \in Message /\ m.id = n + 1 /\ m.seq = v.next + 1 /\ v.next \in Nat /\ v.next <= n
  BY DEF Gains, Typed, Numbered
<1> HIDE DEF m
<1>6. Numbered(n + 1, w)
  <2>1. w.next <= n + 1
    BY <1>5 DEF Gains
  <2>2. \A o \in Message : HeldIn(w, o) => o.id <= n + 1 /\ o.seq <= n + 1
    BY <1>1, <1>4, <1>5 DEF Message
  <2>3. \A p, o \in Message : HeldIn(w, p) /\ HeldIn(w, o) /\ p.id = o.id => p.seq = o.seq
    <3>1. SUFFICES ASSUME NEW p \in Message, NEW o \in Message, HeldIn(w, p), HeldIn(w, o), p.id = o.id
                   PROVE  p.seq = o.seq
      OBVIOUS
    <3>2. CASE HeldIn(v, p) /\ HeldIn(v, o)
      BY <3>1, <3>2 DEF Numbered
    <3>3. p.id \in Nat /\ o.id \in Nat
      BY DEF Message
    <3> QED
      BY <1>1, <1>4, <1>5, <3>1, <3>2, <3>3
  <2>4. OneRowPerId(w.rows)
    BY DEF Numbered, Gains
  <2>5. \A y \in w.hands : \A e \in Listed(w) : e.id # y.msg.id
    <3>1. SUFFICES ASSUME NEW y \in w.hands, NEW e \in Listed(w), e.id = y.msg.id
                   PROVE  FALSE
      OBVIOUS
    <3>2. CASE y \in v.hands
      BY <1>2, <3>1, <3>2 DEF Numbered
    <3>3. CASE y = x
      <4>1. e.id = m.id /\ e.id < m.id
        BY <1>2, <1>4, <3>1, <3>3 DEF m
      <4> QED
        BY <1>5, <4>1
    <3> QED
      BY <3>2, <3>3 DEF Gains
  <2>6. \A y, z \in w.hands : y.msg.id = z.msg.id => y = z
    <3>1. \A y \in v.hands : y.msg.id # x.msg.id
      BY <1>3, <1>4, <1>5 DEF m, Message
    <3>2. \A y, z \in v.hands : y.msg.id = z.msg.id => y = z
      BY DEF Numbered
    <3>3. w.hands \subseteq v.hands \cup {x}
      BY DEF Gains
    <3> QED
      BY <3>1, <3>2, <3>3
  <2>7. \A e \in w.summaries : \A o \in w.rows : o.id = e.id => o.role = "summary"
    BY DEF Numbered, Gains
  <2> QED
    BY <2>1, <2>2, <2>3, <2>4, <2>5, <2>6, <2>7 DEF Numbered
<1>7. ASSUME Ordered(v), Complete(w), Current(v) \/ (v.memory = {} /\ v.next = 0)
      PROVE  Ordered(w) /\ Current(w)
  <2>1. /\ \A e \in w.restores : \E r \in w.rows : r.seq >= e.seq
        /\ \A e \in w.compacts : Cardinality(Above(w, e)) >= KeepFloor
    <3>1. \A e : Above(w, e) = Above(v, e)
      BY DEF Above, Gains
    <3> QED
      BY <1>7, <3>1 DEF Ordered, Gains
  <2>2. \A o \in Message : HeldIn(w, o) => o = m \/ (o.seq <= v.next /\ HeldIn(v, o))
    <3>1. CASE Current(v)
      BY <1>1, <3>1 DEF Current
    <3>2. CASE v.memory = {}
      <4>1. w.memory = {m}
        BY <3>2 DEF Gains, m
      <4>2. w.rows = {}
        <5>1. \A r \in w.rows : r.id = m.id /\ r \in Message /\ HeldIn(v, r)
          BY <1>2, <1>7, <4>1 DEF Complete, Listed
        <5> QED
          BY <1>4, <1>5, <5>1 DEF Message
      <4>3. \A y \in w.hands : y = x
        <5>1. \A y \in w.hands : y.msg.id = m.id
          BY <1>7, <4>1 DEF Complete
        <5>2. \A y \in v.hands : y.msg.id # m.id
          BY <1>3, <1>4, <1>5 DEF Message
        <5> QED
          BY <5>1, <5>2 DEF Gains
      <4>4. w.restores = {}
        BY <2>1, <4>2
      <4>5. w.compacts = {}
        <5>1. \A e \in w.compacts : Above(w, e) = {}
          BY <4>2 DEF Above
        <5>2. \A e \in w.compacts : Cardinality(Above(w, e)) = 0
          BY <5>1, FS_EmptySet
        <5>3. \A e \in w.compacts : Cardinality(Above(w, e)) >= KeepFloor
          BY <2>1
        <5> QED
          BY <5>2, <5>3, ConversationAssumption
      <4> QED
        BY <4>1, <4>2, <4>3, <4>4, <4>5 DEF HeldIn, Listed, m
    <3> QED
      BY <1>7, <3>1, <3>2
  <2>3. \A p, o \in Message : HeldIn(w, p) /\ HeldIn(w, o) /\ p.id < o.id => p.seq < o.seq
    <3>1. SUFFICES ASSUME NEW p \in Message, NEW o \in Message, HeldIn(w, p), HeldIn(w, o), p.id < o.id
                   PROVE  p.seq < o.seq
      OBVIOUS
    <3>2. CASE p = m
      <4>1. o # m
        BY <1>5, <3>1, <3>2 DEF Message
      <4>2. o.id < m.id
        BY <1>4, <2>2, <3>1, <4>1
      <4> QED
        BY <1>5, <3>1, <3>2, <4>2 DEF Message
    <3>3. CASE p # m
      <4>1. p.seq <= v.next /\ HeldIn(v, p)
        BY <2>2, <3>1, <3>3
      <4>2. CASE o = m
        BY <1>5, <4>1, <4>2 DEF Message
      <4>3. CASE o # m
        BY <1>7, <2>2, <3>1, <4>1, <4>3 DEF Ordered
      <4> QED
        BY <4>2, <4>3
    <3> QED
      BY <3>2, <3>3
  <2>4. \A o \in Message : HeldIn(w, o) => o.seq <= w.next
    BY <1>5, <2>2 DEF Gains, Message
  <2> QED
    BY <1>7, <2>1, <2>3, <2>4 DEF Ordered, Current
<1> QED
  BY <1>6, <1>7

\* The message that x holds becomes a row, and x holds it no more.
Stores(v, w, x) ==
    /\ x \in v.hands
    /\ w.rows = v.rows \cup {x.msg}
    /\ w.hands \subseteq v.hands \ {x}
    /\ w.restores \subseteq v.restores
    /\ w.compacts \subseteq v.compacts
    /\ w.summaries \subseteq v.summaries
    /\ w.memory = v.memory /\ w.next = v.next

\* More rows are as many above each message.
LEMMA MoreAbove ==
    ASSUME NEW v, NEW w, NEW e, v.rows \subseteq w.rows, IsFiniteSet(w.rows),
           Cardinality(Above(v, e)) >= KeepFloor
    PROVE  Cardinality(Above(w, e)) >= KeepFloor
<1>1. Above(v, e) \subseteq Above(w, e) /\ Above(w, e) \subseteq w.rows
  BY DEF Above
<1>2. IsFiniteSet(Above(w, e)) /\ IsFiniteSet(Above(v, e))
  BY <1>1, FS_Subset
<1>3. Cardinality(Above(v, e)) <= Cardinality(Above(w, e))
  BY <1>1, <1>2, FS_Subset
<1>4. Cardinality(Above(v, e)) \in Nat /\ Cardinality(Above(w, e)) \in Nat
  BY <1>2, FS_CardinalityType
<1> QED
  BY <1>3, <1>4, ConversationAssumption

\* So does the storing of a held message.
LEMMA StoresInvariant ==
    ASSUME NEW v, NEW w, NEW x, NEW n \in Nat, Typed(v), Typed(w), Stores(v, w, x), Numbered(n, v)
    PROVE  /\ Numbered(n, w)
           /\ Ordered(v) => Ordered(w)
           /\ Current(v) /\ Complete(w) => Current(w)
<1>1. \A m : HeldIn(w, m) => HeldIn(v, m)
  BY DEF HeldIn, Listed, Stores
<1>2. x.msg \in Message /\ x \in v.hands
  BY DEF Stores, Typed
<1>3. \A y \in w.hands : y \in v.hands /\ y.msg.id # x.msg.id
  BY DEF Stores, Numbered
<1>4. Listed(w) \subseteq Listed(v) \cup {x.msg}
  BY DEF Listed, Stores
<1>5. \A e \in Listed(v) : e.id # x.msg.id
  BY <1>2 DEF Numbered
<1>6. Numbered(n, w)
  <2>1. w.next <= n
    BY DEF Numbered, Stores
  <2>2. \A m \in Message : HeldIn(w, m) => m.id <= n /\ m.seq <= n
    BY <1>1 DEF Numbered
  <2>3. \A m, o \in Message : HeldIn(w, m) /\ HeldIn(w, o) /\ m.id = o.id => m.seq = o.seq
    BY <1>1 DEF Numbered
  <2>4. OneRowPerId(w.rows)
    BY <1>5 DEF Numbered, Stores, OneRowPerId, Listed
  <2>5. \A y \in w.hands : \A e \in Listed(w) : e.id # y.msg.id
    BY <1>3, <1>4 DEF Numbered
  <2>6. \A y, z \in w.hands : y.msg.id = z.msg.id => y = z
    BY <1>3 DEF Numbered
  <2>7. \A e \in w.summaries : \A o \in w.rows : o.id = e.id => o.role = "summary"
    <3>1. \A e \in w.summaries : e \in v.summaries /\ e \in Listed(v)
      BY DEF Stores, Typed, Listed
    <3> QED
      BY <1>5, <3>1 DEF Numbered, Stores
  <2> QED
    BY <2>1, <2>2, <2>3, <2>4, <2>5, <2>6, <2>7 DEF Numbered
<1>7. ASSUME Ordered(v)
      PROVE  Ordered(w)
  <2>1. \A m, o \in Message : HeldIn(w, m) /\ HeldIn(w, o) /\ m.id < o.id => m.seq < o.seq
    BY <1>1, <1>7 DEF Ordered
  <2>2. \A e \in w.restores : \E m \in w.rows : m.seq >= e.seq
    BY <1>7 DEF Ordered, Stores
  <2>3. v.rows \subseteq w.rows /\ IsFiniteSet(w.rows)
    BY DEF Stores, Typed
  <2>4. \A e \in w.compacts : Cardinality(Above(w, e)) >= KeepFloor
    BY <1>7, <2>3, MoreAbove DEF Ordered, Stores
  <2> QED
    BY <2>1, <2>2, <2>4 DEF Ordered
<1>8. ASSUME Current(v), Complete(w)
      PROVE  Current(w)
  BY <1>1, <1>8 DEF Current, Stores
<1> QED
  BY <1>6, <1>7, <1>8

\* Rows are listed: all of them to be restored, or those before the last
\* KeepFloor to be compacted.
Lists(v, w) ==
    /\ w.rows = v.rows
    /\ w.hands \subseteq v.hands
    /\ w.restores \subseteq v.restores \cup v.rows
    /\ w.compacts \subseteq v.compacts
                    \cup {e \in v.rows : Cardinality({o \in v.rows : Before(e, o)}) >= KeepFloor}
    /\ w.summaries \subseteq v.summaries
    /\ w.memory = v.memory /\ w.next = v.next

\* So does a listing: what a compaction lists has KeepFloor rows above it.
LEMMA ListsInvariant ==
    ASSUME NEW v, NEW w, NEW n \in Nat, Typed(v), Typed(w), Lists(v, w), Numbered(n, v)
    PROVE  /\ Numbered(n, w)
           /\ Ordered(v) => Ordered(w)
           /\ Current(v) /\ Complete(w) => Current(w)
<1>1. \A m : HeldIn(w, m) => HeldIn(v, m)
  BY DEF HeldIn, Listed, Lists
<1>2. Listed(w) \subseteq Listed(v)
  BY DEF Listed, Lists
<1>3. Numbered(n, w)
  <2>1. w.next <= n
    BY DEF Numbered, Lists
  <2>2. \A m \in Message : HeldIn(w, m) => m.id <= n /\ m.seq <= n
    BY <1>1 DEF Numbered
  <2>3. \A m, o \in Message : HeldIn(w, m) /\ HeldIn(w, o) /\ m.id = o.id => m.seq = o.seq
    BY <1>1 DEF Numbered
  <2>4. OneRowPerId(w.rows)
    BY DEF Numbered, Lists
  <2>5. \A x \in w.hands : \A e \in Listed(w) : e.id # x.msg.id
    BY <1>2 DEF Numbered, Lists
  <2>6. \A x, y \in w.hands : x.msg.id = y.msg.id => x = y
    BY DEF Numbered, Lists
  <2>7. \A e \in w.summaries : \A o \in w.rows : o.id = e.id => o.role = "summary"
    BY DEF Numbered, Lists
  <2> QED
    BY <2>1, <2>2, <2>3, <2>4, <2>5, <2>6, <2>7 DEF Numbered
<1>4. ASSUME Ordered(v)
      PROVE  Ordered(w)
  <2>1. \A m, o \in Message : HeldIn(w, m) /\ HeldIn(w, o) /\ m.id < o.id => m.seq < o.seq
    BY <1>1, <1>4 DEF Ordered
  <2>2. \A e \in w.restores : \E m \in w.rows : m.seq >= e.seq
    <3>1. \A e \in v.rows : e.seq >= e.seq
      BY DEF Typed, Message
    <3> QED
      BY <1>4, <3>1 DEF Ordered, Lists
  <2>3. ASSUME NEW e \in v.rows, Cardinality({o \in v.rows : Before(e, o)}) >= KeepFloor
        PROVE  Cardinality(Above(v, e)) >= KeepFloor
    <3>1. \A o \in v.rows : Before(e, o) => o.seq > e.seq
      <4>1. \A o \in v.rows : o \in Message /\ HeldIn(v, o)
        BY DEF Typed, HeldIn, Listed
      <4>2. \A o \in v.rows : e.id < o.id => e.seq < o.seq
        BY <1>4, <4>1 DEF Ordered
      <4> QED
        BY <4>1, <4>2 DEF Before, Message
    <3> DEFINE F == {o \in v.rows : Before(e, o)}
    <3>2. F \subseteq Above(v, e) /\ Above(v, e) \subseteq v.rows
      BY <3>1 DEF Above
    <3> HIDE DEF F
    <3>3. IsFiniteSet(Above(v, e)) /\ IsFiniteSet(F)
      BY <3>2, FS_Subset DEF Typed
    <3>4. Cardinality(F) <= Cardinality(Above(v, e))
      BY <3>2, <3>3, FS_Subset
    <3>5. Cardinality(F) \in Nat /\ Cardinality(Above(v, e)) \in Nat
      BY <3>3, FS_CardinalityType
    <3>6. Cardinality(F) >= KeepFloor
      BY <2>3 DEF F
    <3> QED
      BY <3>4, <3>5, <3>6, ConversationAssumption
  <2>4. \A e : Above(w, e) = Above(v, e)
    BY DEF Above, Lists
  <2>5. \A e \in w.compacts : Cardinality(Above(w, e)) >= KeepFloor
    BY <1>4, <2>3, <2>4 DEF Ordered, Lists
  <2> QED
    BY <2>1, <2>2, <2>5 DEF Ordered
<1>5. ASSUME Current(v), Complete(w)
      PROVE  Current(w)
  BY <1>1, <1>5 DEF Current, Lists
<1> QED
  BY <1>3, <1>4, <1>5

\* A listing replaces memory.
Restores(v, w, n) ==
    /\ w.rows = v.rows
    /\ w.hands \subseteq v.hands
    /\ w.restores \subseteq v.restores
    /\ w.compacts \subseteq v.compacts
    /\ w.summaries \subseteq v.summaries
    /\ w.memory \subseteq v.restores
    /\ w.next <= n /\ \A e \in w.memory : e.seq <= w.next

\* So does a restore: what memory misses no more has a listed number, hence a
\* sequence the restored counter is past.
LEMMA RestoresInvariant ==
    ASSUME NEW v, NEW w, NEW n \in Nat, Typed(v), Typed(w), Restores(v, w, n), Numbered(n, v)
    PROVE  /\ Numbered(n, w)
           /\ Ordered(v) => Ordered(w)
           /\ Ordered(v) /\ Complete(w) => Current(w)
<1>1. \A m : HeldIn(w, m) => HeldIn(v, m)
  BY DEF HeldIn, Listed, Restores
<1>2. Listed(w) \subseteq Listed(v)
  BY DEF Listed, Restores
<1>3. Numbered(n, w)
  <2>1. w.next <= n
    BY DEF Restores
  <2>2. \A m \in Message : HeldIn(w, m) => m.id <= n /\ m.seq <= n
    BY <1>1 DEF Numbered
  <2>3. \A m, o \in Message : HeldIn(w, m) /\ HeldIn(w, o) /\ m.id = o.id => m.seq = o.seq
    BY <1>1 DEF Numbered
  <2>4. OneRowPerId(w.rows)
    BY DEF Numbered, Restores
  <2>5. \A x \in w.hands : \A e \in Listed(w) : e.id # x.msg.id
    BY <1>2 DEF Numbered, Restores
  <2>6. \A x, y \in w.hands : x.msg.id = y.msg.id => x = y
    BY DEF Numbered, Restores
  <2>7. \A e \in w.summaries : \A o \in w.rows : o.id = e.id => o.role = "summary"
    BY DEF Numbered, Restores
  <2> QED
    BY <2>1, <2>2, <2>3, <2>4, <2>5, <2>6, <2>7 DEF Numbered
<1>4. ASSUME Ordered(v)
      PROVE  Ordered(w)
  <2>1. \A m, o \in Message : HeldIn(w, m) /\ HeldIn(w, o) /\ m.id < o.id => m.seq < o.seq
    BY <1>1, <1>4 DEF Ordered
  <2>2. \A e \in w.restores : \E m \in w.rows : m.seq >= e.seq
    BY <1>4 DEF Ordered, Restores
  <2>3. \A e : Above(w, e) = Above(v, e)
    BY DEF Above, Restores
  <2>4. \A e \in w.compacts : Cardinality(Above(w, e)) >= KeepFloor
    BY <1>4, <2>3 DEF Ordered, Restores
  <2> QED
    BY <2>1, <2>2, <2>4 DEF Ordered
<1>5. ASSUME Ordered(v), Complete(w)
      PROVE  Current(w)
  <2>1. \A m \in w.memory : m \in Message /\ HeldIn(v, m) /\ m.seq <= w.next
    BY DEF Restores, Typed, HeldIn, Listed
  <2>2. \A m \in w.rows : m \in Message /\ HeldIn(v, m) /\ m.seq <= w.next
    <3>1. \A m \in w.rows : m \in Message /\ HeldIn(v, m)
      BY DEF Restores, Typed, HeldIn, Listed
    <3>2. \A m \in w.rows : \E o \in w.memory : o.id = m.id
      BY <1>5 DEF Complete
    <3> QED
      BY <2>1, <3>1, <3>2 DEF Numbered
  <2>3. \A x \in w.hands : x.msg \in Message /\ HeldIn(v, x.msg) /\ x.msg.seq <= w.next
    <3>1. \A x \in w.hands : x.msg \in Message /\ HeldIn(v, x.msg)
      BY DEF Restores, Typed, HeldIn, Listed
    <3>2. \A x \in w.hands : \E o \in w.memory : o.id = x.msg.id
      BY <1>5 DEF Complete
    <3> QED
      BY <2>1, <3>1, <3>2 DEF Numbered
  <2>4. \A e \in w.restores : e.seq <= w.next
    <3>1. ASSUME NEW e \in w.restores
          PROVE  e.seq <= w.next
      <4>1. PICK m \in w.rows : m.seq >= e.seq
        BY <1>4, <1>5 DEF Ordered
      <4>2. e.seq \in Nat /\ m.seq \in Nat /\ w.next \in Nat
        BY DEF Typed, Message
      <4> QED
        BY <2>2, <4>1, <4>2
    <3> QED
      BY <3>1
  <2>5. \A e \in w.compacts : e.seq <= w.next
    <3>1. ASSUME NEW e \in w.compacts
          PROVE  e.seq <= w.next
      <4>1. Cardinality(Above(w, e)) >= KeepFloor
        BY <1>4, <1>5 DEF Ordered
      <4>2. Above(w, e) # {}
        BY <4>1, FS_EmptySet, ConversationAssumption
      <4>3. PICK m \in w.rows : m.seq > e.seq
        BY <4>2 DEF Above
      <4>4. e.seq \in Nat /\ m.seq \in Nat /\ w.next \in Nat
        BY DEF Typed, Message
      <4> QED
        BY <2>2, <4>3, <4>4
    <3> QED
      BY <3>1
  <2> QED
    BY <1>5, <2>1, <2>2, <2>3, <2>4, <2>5 DEF Current, HeldIn, Listed
<1> QED
  BY <1>3, <1>4, <1>5

\* The rows of a fork, of a session that had nothing, are rows of another.
Copies(u, w) ==
    /\ w.rows \subseteq u.rows
    /\ w.hands = {} /\ w.restores = {} /\ w.compacts = {} /\ w.memory = {}
    /\ w.next = 0

\* So does a fork.
LEMMA CopiesInvariant ==
    ASSUME NEW u, NEW w, NEW n \in Nat, Typed(u), Typed(w), Copies(u, w), Numbered(n, u)
    PROVE  Numbered(n, w) /\ (Ordered(u) => Ordered(w))
<1>1. \A m : HeldIn(w, m) => HeldIn(u, m)
  BY DEF HeldIn, Listed, Copies
<1>2. w.summaries = {}
  BY DEF Copies, Typed
<1>3. OneRowPerId(w.rows)
  BY DEF Numbered, Copies, OneRowPerId
<1>4. Numbered(n, w)
  BY <1>1, <1>2, <1>3 DEF Numbered, Copies
<1>5. Ordered(u) => Ordered(w)
  BY <1>1 DEF Ordered, Copies
<1> QED
  BY <1>4, <1>5

\* Rows that a compaction listed are deleted; perhaps one is to be summarized.
Deletes(v, w, L) ==
    /\ L \subseteq v.compacts
    /\ w.rows = {m \in v.rows : \A e \in L : m.id # e.id}
    /\ w.hands \subseteq v.hands
    /\ w.restores \subseteq v.restores
    /\ w.compacts \subseteq v.compacts
    /\ w.summaries \subseteq v.summaries \cup L
    /\ w.memory = v.memory /\ w.next = v.next

\* A row at or below which a row is deleted has KeepFloor rows left above it.
LEMMA DeletesLeave ==
    ASSUME NEW v, NEW w, NEW L, NEW n \in Nat, Typed(v), Typed(w), Deletes(v, w, L), Numbered(n, v),
           Ordered(v), NEW e \in Message, NEW m \in v.rows, m \notin w.rows, e.seq <= m.seq
    PROVE  Cardinality(Above(v, e)) >= KeepFloor /\ Cardinality(Above(w, e)) >= KeepFloor
<1> DEFINE S == {d.seq : d \in L}
<1>1. PICK d \in L : d.id = m.id
  BY DEF Deletes
<1>2. \A c \in L : c \in Message /\ c \in v.compacts /\ HeldIn(v, c) /\ c.seq \in Nat /\ c.seq <= n
  <2>1. \A c \in L : c \in Message /\ c \in v.compacts /\ HeldIn(v, c)
    BY DEF Deletes, Typed, HeldIn, Listed
  <2> QED
    BY <2>1 DEF Numbered, Message
<1>3. m \in Message /\ HeldIn(v, m) /\ m.seq \in Nat
  BY DEF Typed, HeldIn, Listed, Message
<1>4. d.seq = m.seq
  BY <1>1, <1>2, <1>3 DEF Numbered
<1>5. S \in SUBSET Nat /\ S # {} /\ \A x \in S : x <= n
  BY <1>1, <1>2
<1>6. Max(S) \in S /\ \A x \in S : x <= Max(S)
  <2> HIDE DEF S
  <2> QED
    BY <1>5, MaxOf
<1>7. PICK t \in L : t.seq = Max(S)
  BY <1>6
<1>8. \A c \in L : c.seq <= t.seq
  BY <1>6, <1>7
<1> HIDE DEF S
<1>9. Above(v, t) \subseteq Above(v, e) /\ Above(v, t) \subseteq Above(w, e)
  <2>1. ASSUME NEW o \in v.rows, o.seq > t.seq
        PROVE  o.seq > e.seq /\ o \in w.rows
    <3>1. o \in Message /\ HeldIn(v, o) /\ o.seq \in Nat /\ e.seq \in Nat /\ t.seq \in Nat
      BY <1>2 DEF Typed, HeldIn, Listed, Message
    <3>2. o.seq > e.seq
      <4>1. m.seq <= t.seq
        BY <1>1, <1>4, <1>8
      <4> QED
        BY <1>3, <2>1, <3>1, <4>1
    <3>3. \A c \in L : o.id # c.id
      <4>1. SUFFICES ASSUME NEW c \in L, o.id = c.id PROVE FALSE
        OBVIOUS
      <4>2. o.seq = c.seq
        BY <1>2, <3>1, <4>1 DEF Numbered
      <4>3. c.seq <= t.seq /\ c.seq \in Nat
        BY <1>2, <1>8
      <4> QED
        BY <2>1, <3>1, <4>2, <4>3
    <3> QED
      BY <3>2, <3>3 DEF Deletes
  <2> QED
    BY <2>1 DEF Above
<1>10. Cardinality(Above(v, t)) >= KeepFloor
  BY <1>2 DEF Ordered
<1>11. IsFiniteSet(Above(v, e)) /\ IsFiniteSet(Above(w, e)) /\ IsFiniteSet(Above(v, t))
  <2>1. Above(v, e) \subseteq v.rows /\ Above(w, e) \subseteq w.rows /\ Above(v, t) \subseteq v.rows
    BY DEF Above
  <2> QED
    BY <2>1, FS_Subset DEF Typed
<1>12. /\ Cardinality(Above(v, t)) <= Cardinality(Above(v, e))
       /\ Cardinality(Above(v, t)) <= Cardinality(Above(w, e))
  BY <1>9, <1>11, FS_Subset
<1>13. /\ Cardinality(Above(v, t)) \in Nat /\ Cardinality(Above(v, e)) \in Nat
       /\ Cardinality(Above(w, e)) \in Nat
  BY <1>11, FS_CardinalityType
<1> QED
  BY <1>10, <1>12, <1>13, ConversationAssumption

\* So does a deletion, for the listings of the other requests as well.
LEMMA DeletesInvariant ==
    ASSUME NEW v, NEW w, NEW L, NEW n \in Nat, Typed(v), Typed(w), Deletes(v, w, L), Numbered(n, v)
    PROVE  /\ Numbered(n, w)
           /\ Ordered(v) => Ordered(w)
           /\ Current(v) /\ Complete(w) => Current(w)
<1>1. w.rows \subseteq v.rows
  BY DEF Deletes
<1>2. \A m : HeldIn(w, m) => HeldIn(v, m)
  BY <1>1 DEF HeldIn, Listed, Deletes
<1>3. Listed(w) \subseteq Listed(v)
  BY <1>1 DEF Listed, Deletes
<1>4. Numbered(n, w)
  <2>1. w.next <= n
    BY DEF Numbered, Deletes
  <2>2. \A m \in Message : HeldIn(w, m) => m.id <= n /\ m.seq <= n
    BY <1>2 DEF Numbered
  <2>3. \A m, o \in Message : HeldIn(w, m) /\ HeldIn(w, o) /\ m.id = o.id => m.seq = o.seq
    BY <1>2 DEF Numbered
  <2>4. OneRowPerId(w.rows)
    BY <1>1 DEF Numbered, OneRowPerId
  <2>5. \A x \in w.hands : \A e \in Listed(w) : e.id # x.msg.id
    BY <1>3 DEF Numbered, Deletes
  <2>6. \A x, y \in w.hands : x.msg.id = y.msg.id => x = y
    BY DEF Numbered, Deletes
  <2>7. \A e \in w.summaries : \A o \in w.rows : o.id = e.id => o.role = "summary"
    <3>1. ASSUME NEW e \in w.summaries, NEW o \in w.rows, o.id = e.id
          PROVE  o.role = "summary"
      <4>1. CASE e \in L
        BY <3>1, <4>1 DEF Deletes
      <4>2. CASE e \in v.summaries
        BY <1>1, <3>1, <4>2 DEF Numbered
      <4> QED
        BY <4>1, <4>2 DEF Deletes
    <3> QED
      BY <3>1
  <2> QED
    BY <2>1, <2>2, <2>3, <2>4, <2>5, <2>6, <2>7 DEF Numbered
<1>5. ASSUME Ordered(v)
      PROVE  Ordered(w)
  <2>1. \A m, o \in Message : HeldIn(w, m) /\ HeldIn(w, o) /\ m.id < o.id => m.seq < o.seq
    BY <1>2, <1>5 DEF Ordered
  <2>2. ASSUME NEW e \in w.restores
        PROVE  \E m \in w.rows : m.seq >= e.seq
    <3>1. e \in Message /\ e \in v.restores
      BY DEF Deletes, Typed
    <3>2. PICK m \in v.rows : m.seq >= e.seq
      BY <1>5, <3>1 DEF Ordered
    <3>3. CASE m \notin w.rows
      <4>1. m.seq \in Nat /\ e.seq \in Nat
        BY <3>1 DEF Typed, Message
      <4>2. e.seq <= m.seq
        BY <3>2, <4>1
      <4>3. Cardinality(Above(w, e)) >= KeepFloor
        BY <1>5, <3>1, <3>3, <4>2, DeletesLeave
      <4>4. Above(w, e) # {}
        BY <4>3, FS_EmptySet, ConversationAssumption
      <4>5. PICK o \in w.rows : o.seq > e.seq
        BY <4>4 DEF Above
      <4>6. o.seq \in Nat
        BY DEF Typed, Message
      <4> QED
        BY <4>1, <4>5, <4>6
    <3> QED
      BY <3>2, <3>3
  <2>3. ASSUME NEW e \in w.compacts
        PROVE  Cardinality(Above(w, e)) >= KeepFloor
    <3>1. e \in Message /\ e \in v.compacts /\ e.seq \in Nat
      BY DEF Deletes, Typed, Message
    <3>2. CASE \E m \in v.rows : m \notin w.rows /\ e.seq <= m.seq
      BY <1>5, <3>1, <3>2, DeletesLeave
    <3>3. CASE \A m \in v.rows : m \in w.rows \/ ~(e.seq <= m.seq)
      <4>1. \A m \in v.rows : m.seq \in Nat
        BY DEF Typed, Message
      <4>2. Above(w, e) = Above(v, e)
        BY <1>1, <3>1, <3>3, <4>1 DEF Above
      <4> QED
        BY <1>5, <3>1, <4>2 DEF Ordered
    <3> QED
      BY <3>2, <3>3
  <2> QED
    BY <2>1, <2>2, <2>3 DEF Ordered
<1>6. ASSUME Current(v), Complete(w)
      PROVE  Current(w)
  BY <1>2, <1>6 DEF Current, Deletes
<1> QED
  BY <1>4, <1>5, <1>6

\* The summary m takes the place of e.
Replaces(v, w, e, m) ==
    /\ e \in v.summaries
    /\ m \in Message /\ m.id = e.id /\ m.seq = e.seq /\ m.role = "summary"
    /\ \A o \in v.rows : o.role = "summary" => o.seq # m.seq
    /\ w.rows = v.rows \cup {m}
    /\ w.hands \subseteq v.hands
    /\ w.restores \subseteq v.restores
    /\ w.compacts \subseteq v.compacts
    /\ w.summaries \subseteq v.summaries
    /\ w.memory = v.memory /\ w.next = v.next

\* So does the insertion of a summary: its row is gone, for a summary row of its
\* sequence would have stopped it.
LEMMA ReplacesInvariant ==
    ASSUME NEW v, NEW w, NEW e, NEW m, NEW n \in Nat, Typed(v), Typed(w), Replaces(v, w, e, m),
           Numbered(n, v)
    PROVE  /\ Numbered(n, w)
           /\ Ordered(v) => Ordered(w)
           /\ Current(v) /\ Complete(w) => Current(w)
<1>1. \A o : HeldIn(w, o) => HeldIn(v, o) \/ o = m
  BY DEF HeldIn, Listed, Replaces
<1>2. /\ e \in Message /\ HeldIn(v, e) /\ e \in Listed(v)
      /\ m \in Message /\ m.id = e.id /\ m.seq = e.seq /\ m.role = "summary"
  BY DEF Replaces, Typed, HeldIn, Listed
<1>3. \A o \in Message : HeldIn(w, o) => \E p \in Message : HeldIn(v, p) /\ p.id = o.id /\ p.seq = o.seq
  BY <1>1, <1>2
<1>4. \A o \in Listed(w) : \E p \in Listed(v) : p.id = o.id
  BY <1>2 DEF Listed, Replaces
<1>5. \A o \in v.rows : o.id # m.id
  <2>1. SUFFICES ASSUME NEW o \in v.rows, o.id = m.id PROVE FALSE
    OBVIOUS
  <2>2. o \in Message /\ HeldIn(v, o)
    BY DEF Typed, HeldIn, Listed
  <2>3. o.role = "summary"
    BY <1>2, <2>1 DEF Numbered, Replaces
  <2>4. o.seq = m.seq
    BY <1>2, <2>1, <2>2 DEF Numbered
  <2> QED
    BY <2>3, <2>4 DEF Replaces
<1>6. Numbered(n, w)
  <2>1. w.next <= n
    BY DEF Numbered, Replaces
  <2>2. \A o \in Message : HeldIn(w, o) => o.id <= n /\ o.seq <= n
    BY <1>3 DEF Numbered
  <2>3. \A o, p \in Message : HeldIn(w, o) /\ HeldIn(w, p) /\ o.id = p.id => o.seq = p.seq
    <3>1. SUFFICES ASSUME NEW o \in Message, NEW p \in Message, HeldIn(w, o), HeldIn(w, p), o.id = p.id
                   PROVE  o.seq = p.seq
      OBVIOUS
    <3>2. PICK a \in Message : HeldIn(v, a) /\ a.id = o.id /\ a.seq = o.seq
      BY <1>3, <3>1
    <3>3. PICK b \in Message : HeldIn(v, b) /\ b.id = p.id /\ b.seq = p.seq
      BY <1>3, <3>1
    <3> QED
      BY <3>1, <3>2, <3>3 DEF Numbered
  <2>4. OneRowPerId(w.rows)
    BY <1>5 DEF Numbered, OneRowPerId, Replaces
  <2>5. \A x \in w.hands : \A o \in Listed(w) : o.id # x.msg.id
    BY <1>4 DEF Numbered, Replaces
  <2>6. \A x, y \in w.hands : x.msg.id = y.msg.id => x = y
    BY DEF Numbered, Replaces
  <2>7. \A d \in w.summaries : \A o \in w.rows : o.id = d.id => o.role = "summary"
    BY DEF Numbered, Replaces
  <2> QED
    BY <2>1, <2>2, <2>3, <2>4, <2>5, <2>6, <2>7 DEF Numbered
<1>7. ASSUME Ordered(v)
      PROVE  Ordered(w)
  <2>1. \A o, p \in Message : HeldIn(w, o) /\ HeldIn(w, p) /\ o.id < p.id => o.seq < p.seq
    <3>1. SUFFICES ASSUME NEW o \in Message, NEW p \in Message, HeldIn(w, o), HeldIn(w, p), o.id < p.id
                   PROVE  o.seq < p.seq
      OBVIOUS
    <3>2. PICK a \in Message : HeldIn(v, a) /\ a.id = o.id /\ a.seq = o.seq
      BY <1>3, <3>1
    <3>3. PICK b \in Message : HeldIn(v, b) /\ b.id = p.id /\ b.seq = p.seq
      BY <1>3, <3>1
    <3>4. a.id < b.id
      BY <3>1, <3>2, <3>3
    <3>5. a.seq < b.seq
      BY <1>7, <3>2, <3>3, <3>4 DEF Ordered
    <3> QED
      BY <3>2, <3>3, <3>5
  <2>2. \A o \in w.restores : \E p \in w.rows : p.seq >= o.seq
    BY <1>7 DEF Ordered, Replaces
  <2>3. v.rows \subseteq w.rows /\ IsFiniteSet(w.rows)
    BY DEF Replaces, Typed
  <2>4. \A o \in w.compacts : Cardinality(Above(w, o)) >= KeepFloor
    BY <1>7, <2>3, MoreAbove DEF Ordered, Replaces
  <2> QED
    BY <2>1, <2>2, <2>4 DEF Ordered
<1>8. ASSUME Current(v), Complete(w)
      PROVE  Current(w)
  <2>1. \A o \in Message : HeldIn(w, o) => o.seq <= v.next
    BY <1>3, <1>8 DEF Current
  <2> QED
    BY <1>8, <2>1 DEF Current, Replaces
<1> QED
  BY <1>6, <1>7, <1>8

-----------------------------------------------------------------------------
(* What requests carry *)

\* What the operators that end or move on a request do to it.
LEMMA Moves ==
    ASSUME Structure, NEW c \in Client
    PROVE  /\ Reply(c) => /\ req' \in [Client -> Request] /\ req'[c] = Idle
                          /\ \A d \in Client : d # c => req'[d] = req[d]
           /\ \A at \in Places, s \in Session : \A list \in Seq(Message) : Goto(c, at, s, list) =>
                 /\ req' \in [Client -> Request]
                 /\ req'[c].at = at /\ req'[c].session = s /\ req'[c].list = list /\ req'[c].call = 0
                 /\ \A d \in Client : d # c => req'[d] = req[d]
<1>1. req \in [Client -> Request] /\ Idle \in Request
  BY Values DEF Structure, TypeOK
<1>2. Reply(c) => /\ req' \in [Client -> Request] /\ req'[c] = Idle
                  /\ \A d \in Client : d # c => req'[d] = req[d]
  BY <1>1 DEF Reply
<1>3. ASSUME NEW at \in Places, NEW s \in Session, NEW list \in Seq(Message), Goto(c, at, s, list)
      PROVE  /\ req' \in [Client -> Request]
             /\ req'[c].at = at /\ req'[c].session = s /\ req'[c].list = list /\ req'[c].call = 0
             /\ \A d \in Client : d # c => req'[d] = req[d]
  <2> DEFINE q == [at |-> at, session |-> s, list |-> list, call |-> 0]
  <2>1. q \in Request
    BY DEF Request
  <2>2. q.at = at /\ q.session = s /\ q.list = list /\ q.call = 0
    OBVIOUS
  <2>3. req' = [req EXCEPT ![c] = q]
    BY <1>3 DEF Goto
  <2> HIDE DEF q
  <2> QED
    BY <1>1, <2>1, <2>2, <2>3
<1> QED
  BY <1>2, <1>3

\* The request of c is answered or goes on; those of the others stay.
Served(c) ==
    /\ req' \in [Client -> Request]
    /\ \A d \in Client : d # c => req'[d] = req[d]
    /\ \/ req'[c] = Idle
       \/ /\ req'[c].at # "idle" /\ req'[c].session \in stored'
          /\ req'[c].at = "match" => req'[c].list = <<>>
          /\ req'[c].at \in CarriesOne => Len(req'[c].list) = 1
          /\ req'[c].at \in {"delete", "summarize"} => Len(req'[c].list) >= 1
          /\ req'[c].at \in CarriesOne \cup {"match"} => req'[c].session \in active'

\* Sessions gain rows and become active; nothing is forgotten.
Grows ==
    /\ stored \subseteq stored' /\ stored' \subseteq Session
    /\ active \subseteq active' /\ active' \subseteq stored'

\* Serving one request keeps what all of them carry.
LEMMA RequestsKept ==
    ASSUME Structure, Grows, NEW c \in Client, Served(c)
    PROVE  /\ req' \in [Client -> Request] /\ Requests'
           /\ \A d \in Client : req'[d].at \in CarriesOne \cup {"match"} => req'[d].session \in active'
<1>1. \A d \in Client : d # c => req'[d] = req[d]
  BY DEF Served
<1>2. Idle.at = "idle" /\ Idle.list = <<>>
  BY DEF Idle
<1>3. ASSUME NEW d \in Client
      PROVE  /\ req'[d].at = "idle" => req'[d] = Idle
             /\ req'[d].at # "idle" => req'[d].session \in stored'
             /\ req'[d].at \in {"idle", "match"} => req'[d].list = <<>>
             /\ req'[d].at \in CarriesOne => Len(req'[d].list) = 1
             /\ req'[d].at \in {"delete", "summarize"} => Len(req'[d].list) >= 1
             /\ req'[d].at \in CarriesOne \cup {"match"} => req'[d].session \in active'
  <2>1. CASE d # c
    BY <1>1, <2>1 DEF Structure, Requests, Activity, Grows
  <2>2. CASE d = c /\ req'[c] = Idle
    BY <1>2, <2>2 DEF CarriesOne
  <2>3. CASE d = c /\ req'[c] # Idle
    BY <2>3 DEF Served
  <2> QED
    BY <2>1, <2>2, <2>3
<1>4. Requests'
  BY <1>3 DEF Requests
<1> QED
  BY <1>3, <1>4 DEF Served

\* The rest of the structure, when the conversations and tables of active
\* sessions alone change.
LEMMA StructureKept ==
    ASSUME Structure, Grows, req' \in [Client -> Request], Requests',
           \A d \in Client : req'[d].at \in CarriesOne \cup {"match"} => req'[d].session \in active',
           conv' \in [Session -> Memory], turns' \in [Session -> SUBSET Message],
           bound' \in [Client -> Session \cup {None}], relays' \in SUBSET Relay,
           todo' \in [Client -> SUBSET Nat], made' \in Nat, losses' \in Nat, Remember,
           \A s \in Session : IsFiniteSet(turns'[s]) /\ (s \notin stored' => turns'[s] = turns[s]),
           \A r \in relays' : r.session \in active',
           \A s \in Session : s \notin active' => conv'[s] = conv[s]
    PROVE  Structure'
<1>1. lost' \in SUBSET Session
  BY DEF Remember, Structure, TypeOK
<1>2. TypeOK'
  BY <1>1 DEF TypeOK, Grows
<1>3. Activity'
  BY DEF Activity, Structure, Grows
<1> QED
  BY <1>2, <1>3 DEF Structure

-----------------------------------------------------------------------------
(* The actions and the views *)

\* The fields of a view.
LEMMA ViewFields ==
    ASSUME NEW t
    PROVE  /\ View(t).rows = turns[t]
           /\ View(t).memory = Entries(conv[t].messages)
           /\ View(t).next = conv[t].storageSequence
           /\ \A x : x \in View(t).hands <=>
                 \/ \E c \in AtPlace(CarriesOne, t) : x = [by |-> <<"request", c>>, msg |-> req[c].list[1]]
                 \/ \E r \in relays : r.session = t /\ r.at = "persist" /\ x = [by |-> <<"relay", r>>, msg |-> r.msg]
           /\ \A e : e \in View(t).restores <=> \E c \in AtPlace({"restore"}, t) : e \in Entries(req[c].list)
           /\ \A e : e \in View(t).compacts <=>
                 \E c \in AtPlace({"delete", "summarize"}, t) : e \in Entries(req[c].list)
           /\ \A e : e \in View(t).summaries <=> \E c \in AtPlace({"summarize"}, t) : e = req[c].list[1]
BY DEF View

\* The fields of the next view.
LEMMA ViewFieldsNext ==
    ASSUME NEW t
    PROVE  /\ View(t)'.rows = turns'[t]
           /\ View(t)'.memory = Entries(conv'[t].messages)
           /\ View(t)'.next = conv'[t].storageSequence
           /\ \A x : x \in View(t)'.hands <=>
                 \/ \E c \in AtPlace(CarriesOne, t)' : x = [by |-> <<"request", c>>, msg |-> req'[c].list[1]]
                 \/ \E r \in relays' : r.session = t /\ r.at = "persist" /\ x = [by |-> <<"relay", r>>, msg |-> r.msg]
           /\ \A e : e \in View(t)'.restores <=> \E c \in AtPlace({"restore"}, t)' : e \in Entries(req'[c].list)
           /\ \A e : e \in View(t)'.compacts <=>
                 \E c \in AtPlace({"delete", "summarize"}, t)' : e \in Entries(req'[c].list)
           /\ \A e : e \in View(t)'.summaries <=> \E c \in AtPlace({"summarize"}, t)' : e = req'[c].list[1]
BY DEF View

\* Who is at a place.
LEMMA AtPlaces ==
    ASSUME NEW t, NEW at
    PROVE  /\ \A c : c \in AtPlace(at, t) <=> c \in Client /\ req[c].session = t /\ req[c].at \in at
           /\ \A c : c \in AtPlace(at, t)' <=> c \in Client /\ req'[c].session = t /\ req'[c].at \in at
BY DEF AtPlace

\* The entries of a listing.
LEMMA ListEntries ==
    ASSUME NEW list \in Seq(Message)
    PROVE  /\ Entries(list) \subseteq Message
           /\ Len(list) >= 1 => list[1] \in Message /\ list[1] \in Entries(list)
<1>1. Len(list) \in Nat /\ DOMAIN list = 1 .. Len(list)
  OBVIOUS
<1>2. \A i \in 1 .. Len(list) : list[i] \in Message
  BY ElementOfSeq
<1> QED
  BY <1>1, <1>2 DEF Entries

TypedState == \A t \in Session : Typed(View(t))

\* The views of a structured state are typed.
LEMMA TypedViews ==
    Structure => TypedState
<1> SUFFICES ASSUME Structure, NEW t \in Session PROVE Typed(View(t))
  BY DEF TypedState
<1>1. \A c \in Client : req[c].list \in Seq(Message)
  BY DEF Structure, TypeOK, Request
<1>2. \A c \in Client : Entries(req[c].list) \subseteq Message
  BY <1>1, ListEntries
<1>3. \A c \in Client : req[c].at \in CarriesOne \cup {"delete", "summarize"}
                           => req[c].list[1] \in Entries(req[c].list) /\ req[c].list[1] \in Message
  <2>1. \A c \in Client : req[c].at \in CarriesOne \cup {"delete", "summarize"} => Len(req[c].list) >= 1
    BY SMTT(30) DEF Structure, Requests
  <2> QED
    BY <1>1, <2>1, ListEntries
<1>4. View(t).rows \in SUBSET Message /\ IsFiniteSet(View(t).rows)
  BY ViewFields DEF Structure, TypeOK, Activity
<1>5. \A x \in View(t).hands : x.msg \in Message
  <2>1. \A r \in relays : r.msg \in Message
    BY DEF Structure, TypeOK, Relay
  <2>2. \A c \in AtPlace(CarriesOne, t) : req[c].list[1] \in Message
    BY <1>3, AtPlaces
  <2>3. \A x \in View(t).hands :
           \/ \E c \in AtPlace(CarriesOne, t) : x = [by |-> <<"request", c>>, msg |-> req[c].list[1]]
           \/ \E r \in relays : x = [by |-> <<"relay", r>>, msg |-> r.msg]
    BY ViewFields
  <2> QED
    BY <2>1, <2>2, <2>3
<1>6. View(t).restores \in SUBSET Message /\ View(t).compacts \in SUBSET Message
  <2>1. \A e \in View(t).restores : e \in Message
    BY <1>2, ViewFields, AtPlaces
  <2>2. \A e \in View(t).compacts : e \in Message
    BY <1>2, ViewFields, AtPlaces
  <2> QED
    BY <2>1, <2>2
<1>7. View(t).summaries \in SUBSET View(t).compacts
  <2>1. \A e \in View(t).summaries : \E c \in AtPlace({"delete", "summarize"}, t) : e \in Entries(req[c].list)
    BY <1>3, ViewFields, AtPlaces
  <2> QED
    BY <2>1, ViewFields
<1>8. View(t).memory \in SUBSET Message /\ View(t).next \in Nat
  <2>1. conv[t].messages \in Seq(Message) /\ conv[t].storageSequence \in Nat
    BY DEF Structure, TypeOK, Memory
  <2> QED
    BY <2>1, ViewFields, ListEntries
<1> QED
  BY <1>4, <1>5, <1>6, <1>7, <1>8 DEF Typed

\* So are those of the next.
LEMMA TypedNext ==
    ASSUME Structure', NEW t \in Session
    PROVE  Typed(View(t)')
<1>1. (Structure => TypedState)'
  BY TypedViews, PTL
<1>2. Typed(View(t))'
  BY <1>1 DEF TypedState
<1> QED
  BY <1>2 DEF Typed

\* Only the request of c changes, and the relays that store are the same or fewer.
LEMMA OneRequest ==
    ASSUME NEW t \in Session, NEW c \in Client, \A d \in Client : d # c => req'[d] = req[d],
           \A r \in relays' : r.at = "persist" => r \in relays
    PROVE  /\ \A x \in View(t)'.hands :
                 \/ x \in View(t).hands /\ x.by # <<"request", c>>
                 \/ c \in AtPlace(CarriesOne, t)' /\ x = [by |-> <<"request", c>>, msg |-> req'[c].list[1]]
           /\ \A e \in View(t)'.restores :
                 e \in View(t).restores \/ (c \in AtPlace({"restore"}, t)' /\ e \in Entries(req'[c].list))
           /\ \A e \in View(t)'.compacts :
                 \/ e \in View(t).compacts
                 \/ c \in AtPlace({"delete", "summarize"}, t)' /\ e \in Entries(req'[c].list)
           /\ \A e \in View(t)'.summaries :
                 e \in View(t).summaries \/ (c \in AtPlace({"summarize"}, t)' /\ e = req'[c].list[1])
<1>1. ASSUME NEW x \in View(t)'.hands
      PROVE  \/ x \in View(t).hands /\ x.by # <<"request", c>>
             \/ c \in AtPlace(CarriesOne, t)' /\ x = [by |-> <<"request", c>>, msg |-> req'[c].list[1]]
  <2>1. CASE \E d \in AtPlace(CarriesOne, t)' : x = [by |-> <<"request", d>>, msg |-> req'[d].list[1]]
    <3>1. PICK d \in AtPlace(CarriesOne, t)' : x = [by |-> <<"request", d>>, msg |-> req'[d].list[1]]
      BY <2>1
    <3>2. CASE d # c
      <4>1. d \in AtPlace(CarriesOne, t) /\ req'[d] = req[d]
        BY <3>1, <3>2, AtPlaces
      <4>2. x \in View(t).hands
        BY <3>1, <4>1, ViewFields
      <4>3. x.by # <<"request", c>>
        BY <3>1, <3>2
      <4> QED
        BY <4>2, <4>3
    <3> QED
      BY <3>1, <3>2
  <2>2. CASE \E r \in relays' : r.session = t /\ r.at = "persist" /\ x = [by |-> <<"relay", r>>, msg |-> r.msg]
    <3>1. x \in View(t).hands
      BY <2>2, ViewFields
    <3>2. x.by # <<"request", c>>
      BY <2>2
    <3> QED
      BY <3>1, <3>2
  <2> QED
    BY <2>1, <2>2, ViewFieldsNext
<1>2. ASSUME NEW at, NEW d \in AtPlace(at, t)'
      PROVE  d = c \/ (d \in AtPlace(at, t) /\ req'[d] = req[d])
  BY <1>2, AtPlaces
<1>3. ASSUME NEW e \in View(t)'.restores
      PROVE  e \in View(t).restores \/ (c \in AtPlace({"restore"}, t)' /\ e \in Entries(req'[c].list))
  BY <1>2, ViewFields, ViewFieldsNext
<1>4. ASSUME NEW e \in View(t)'.compacts
      PROVE  \/ e \in View(t).compacts
             \/ c \in AtPlace({"delete", "summarize"}, t)' /\ e \in Entries(req'[c].list)
  BY <1>2, ViewFields, ViewFieldsNext
<1>5. ASSUME NEW e \in View(t)'.summaries
      PROVE  e \in View(t).summaries \/ (c \in AtPlace({"summarize"}, t)' /\ e = req'[c].list[1])
  BY <1>2, ViewFields, ViewFieldsNext
<1> QED
  BY <1>1, <1>3, <1>4, <1>5

\* Only relay r changes, into q or into none.
LEMMA OneRelay ==
    ASSUME NEW t \in Session, NEW r, NEW q, req' = req, relays' \in {relays \ {r}, (relays \ {r}) \cup {q}}
    PROVE  /\ \A x \in View(t)'.hands :
                 \/ x \in View(t).hands /\ x.by # <<"relay", r>>
                 \/ q \in relays' /\ q.session = t /\ q.at = "persist" /\ x = [by |-> <<"relay", q>>, msg |-> q.msg]
           /\ \A e \in View(t)'.restores : e \in View(t).restores
           /\ \A e \in View(t)'.compacts : e \in View(t).compacts
           /\ \A e \in View(t)'.summaries : e \in View(t).summaries
<1>1. ASSUME NEW at
      PROVE  AtPlace(at, t)' = AtPlace(at, t)
  BY DEF AtPlace
<1>2. ASSUME NEW x \in View(t)'.hands
      PROVE  \/ x \in View(t).hands /\ x.by # <<"relay", r>>
             \/ q \in relays' /\ q.session = t /\ q.at = "persist" /\ x = [by |-> <<"relay", q>>, msg |-> q.msg]
  <2>1. CASE \E d \in AtPlace(CarriesOne, t)' : x = [by |-> <<"request", d>>, msg |-> req'[d].list[1]]
    <3>1. x \in View(t).hands
      BY <1>1, <2>1, ViewFields
    <3>2. x.by # <<"relay", r>>
      BY <2>1
    <3> QED
      BY <3>1, <3>2
  <2>2. CASE \E p \in relays' : p.session = t /\ p.at = "persist" /\ x = [by |-> <<"relay", p>>, msg |-> p.msg]
    <3>1. PICK p \in relays' : p.session = t /\ p.at = "persist" /\ x = [by |-> <<"relay", p>>, msg |-> p.msg]
      BY <2>2
    <3>2. CASE p = q
      BY <3>1, <3>2
    <3>3. CASE p # q
      <4>1. p \in relays /\ p # r
        BY <3>3
      <4>2. x \in View(t).hands /\ x.by # <<"relay", r>>
        BY <3>1, <4>1, ViewFields
      <4> QED
        BY <4>2
    <3> QED
      BY <3>2, <3>3
  <2> QED
    BY <2>1, <2>2, ViewFieldsNext
<1>3. \A e \in View(t)'.restores : e \in View(t).restores
  BY <1>1, ViewFields, ViewFieldsNext
<1>4. \A e \in View(t)'.compacts : e \in View(t).compacts
  BY <1>1, ViewFields, ViewFieldsNext
<1>5. \A e \in View(t)'.summaries : e \in View(t).summaries
  BY <1>1, ViewFields, ViewFieldsNext
<1> QED
  BY <1>2, <1>3, <1>4, <1>5

Numbers == \A s \in Session : Numbered(made, View(s))
InOrder == lost = {} => \A s \in Session : Ordered(View(s)) /\ (s \in active => Current(View(s)))

\* What a step may do to the view of session t.
Changes(t) ==
    \/ made' \in Nat /\ made <= made' /\ Keeps(View(t), View(t)')
    \/ /\ t \in active' /\ made' = made + 1
       /\ \E x : x.msg \in Message /\ Gains(View(t), View(t)', x, made)
    \/ made' = made /\ Restores(View(t), View(t)', made)
    \/ /\ t \notin active' /\ made' = made
       /\ \E u \in Session : Copies(View(u), View(t)')
    \/ /\ t \in active' => t \in active
       /\ made' = made
       /\ \/ \E x : Stores(View(t), View(t)', x)
          \/ Lists(View(t), View(t)')
          \/ \E L : Deletes(View(t), View(t)', L)
          \/ \E e, m : Replaces(View(t), View(t)', e, m)

\* While lost is empty, the memory of an active session misses nothing.
LEMMA NothingMissed ==
    ASSUME Structure', NEW t \in Session, t \in active', Remember, lost' = {}
    PROVE  Complete(View(t)')
<1>1. ~Misses(t)'
  BY DEF Remember
<1>2. \A m \in turns'[t] \cup InFlight(t)' : \E i \in DOMAIN conv'[t].messages : conv'[t].messages[i].id = m.id
  BY <1>1 DEF Misses
<1>3. \A m \in turns'[t] \cup InFlight(t)' : \E o \in View(t)'.memory : o.id = m.id
  BY <1>2, ViewFieldsNext DEF Entries
<1>4. \A x \in View(t)'.hands : x.msg \in InFlight(t)'
  <2>1. \A c \in AtPlace(CarriesOne, t)' : req'[c].list[1] \in InFlight(t)'
    BY AtPlaces DEF InFlight, CarriesOne
  <2>2. \A r \in relays' : r.session = t /\ r.at = "persist" => r.msg \in InFlight(t)'
    BY DEF InFlight
  <2> QED
    BY <2>1, <2>2, ViewFieldsNext
<1> QED
  BY <1>3, <1>4, ViewFieldsNext DEF Complete

\* Each way a view may change keeps the invariant.
LEMMA ChangesInvariant ==
    ASSUME Structure, Numbers, InOrder, Structure', Remember, NEW t \in Session, Changes(t)
    PROVE  /\ Numbered(made', View(t)')
           /\ lost' = {} => Ordered(View(t)') /\ (t \in active' => Current(View(t)'))
<1> DEFINE v == View(t)
           w == View(t)'
<1>1. made \in Nat /\ Typed(v) /\ Typed(w) /\ Numbered(made, v)
  BY TypedViews, TypedNext DEF Structure, TypeOK, Numbers, TypedState
<1>2. lost' = {} => /\ lost = {} /\ Ordered(v)
                    /\ t \in active => Current(v)
                    /\ t \in active' => Complete(w)
  <2>1. lost' = {} => lost = {}
    BY DEF Remember
  <2>2. lost' = {} /\ t \in active' => Complete(w)
    BY NothingMissed
  <2> QED
    BY <2>1, <2>2 DEF InOrder
<1>3. t \notin active => v.memory = {} /\ v.next = 0
  <2>1. t \notin active => conv[t] = NewConversation
    BY DEF Structure, Activity
  <2>2. Entries(<<>>) = {}
    BY DEF Entries
  <2> QED
    BY <2>1, <2>2, ViewFields, Values
<1> HIDE DEF v, w
<1>4. CASE made' \in Nat /\ made <= made' /\ Keeps(v, w)
  <2>1. /\ Numbered(made', w)
        /\ Ordered(v) => Ordered(w)
        /\ Ordered(v) /\ Complete(w) /\ (Current(v) \/ v.memory = {}) => Current(w)
    BY <1>1, <1>4, KeepsInvariant
  <2> QED
    BY <1>2, <1>3, <2>1 DEF v, w
<1>5. CASE t \in active' /\ made' = made + 1 /\ \E x : x.msg \in Message /\ Gains(v, w, x, made)
  <2>1. PICK x : x.msg \in Message /\ Gains(v, w, x, made)
    BY <1>5
  <2>2. /\ Numbered(made + 1, w)
        /\ Ordered(v) /\ Complete(w) /\ (Current(v) \/ (v.memory = {} /\ v.next = 0))
              => Ordered(w) /\ Current(w)
    BY <1>1, <2>1, GainsInvariant
  <2> QED
    BY <1>2, <1>3, <1>5, <2>2 DEF v, w
<1>6. CASE made' = made /\ Restores(v, w, made)
  <2>1. /\ Numbered(made, w)
        /\ Ordered(v) => Ordered(w)
        /\ Ordered(v) /\ Complete(w) => Current(w)
    BY <1>1, <1>6, RestoresInvariant
  <2> QED
    BY <1>2, <1>6, <2>1 DEF v, w
<1>7. CASE t \notin active' /\ made' = made /\ \E u \in Session : Copies(View(u), w)
  <2>1. PICK u \in Session : Copies(View(u), w)
    BY <1>7
  <2>2. Typed(View(u)) /\ Numbered(made, View(u)) /\ (lost' = {} => Ordered(View(u)))
    BY <1>2, TypedViews DEF TypedState, Numbers, InOrder
  <2>3. Numbered(made, w) /\ (Ordered(View(u)) => Ordered(w))
    BY <1>1, <2>1, <2>2, CopiesInvariant
  <2> QED
    BY <1>7, <2>2, <2>3 DEF w
<1>8. ASSUME t \in active' => t \in active, made' = made,
             /\ Numbered(made, w)
             /\ Ordered(v) => Ordered(w)
             /\ Current(v) /\ Complete(w) => Current(w)
      PROVE  /\ Numbered(made', View(t)')
             /\ lost' = {} => Ordered(View(t)') /\ (t \in active' => Current(View(t)'))
  BY <1>2, <1>8 DEF v, w
<1>9. CASE t \in active' => t \in active
  <2>1. ASSUME made' = made, NEW x, Stores(v, w, x)
        PROVE  /\ Numbered(made, w)
               /\ Ordered(v) => Ordered(w)
               /\ Current(v) /\ Complete(w) => Current(w)
    BY <1>1, <2>1, StoresInvariant
  <2>2. ASSUME made' = made, Lists(v, w)
        PROVE  /\ Numbered(made, w)
               /\ Ordered(v) => Ordered(w)
               /\ Current(v) /\ Complete(w) => Current(w)
    BY <1>1, <2>2, ListsInvariant
  <2>3. ASSUME made' = made, NEW L, Deletes(v, w, L)
        PROVE  /\ Numbered(made, w)
               /\ Ordered(v) => Ordered(w)
               /\ Current(v) /\ Complete(w) => Current(w)
    BY <1>1, <2>3, DeletesInvariant
  <2>4. ASSUME made' = made, NEW e, NEW m, Replaces(v, w, e, m)
        PROVE  /\ Numbered(made, w)
               /\ Ordered(v) => Ordered(w)
               /\ Current(v) /\ Complete(w) => Current(w)
    BY <1>1, <2>4, ReplacesInvariant
  <2>5. made' = made /\ (\/ \E x : Stores(v, w, x)
                         \/ Lists(v, w)
                         \/ \E L : Deletes(v, w, L)
                         \/ \E e, m : Replaces(v, w, e, m))
           => /\ Numbered(made, w)
              /\ Ordered(v) => Ordered(w)
              /\ Current(v) /\ Complete(w) => Current(w)
    BY <2>1, <2>2, <2>3, <2>4
  <2>6. made' = made /\ (\/ \E x : Stores(v, w, x)
                         \/ Lists(v, w)
                         \/ \E L : Deletes(v, w, L)
                         \/ \E e, m : Replaces(v, w, e, m))
           => /\ Numbered(made', View(t)')
              /\ lost' = {} => Ordered(View(t)') /\ (t \in active' => Current(View(t)'))
    BY <1>8, <1>9, <2>5
  <2> QED
    BY <1>4, <1>5, <1>6, <1>7, <2>6 DEF Changes, v, w
<1> QED
  BY <1>4, <1>5, <1>6, <1>7, <1>9 DEF Changes, v, w

\* A step that leaves the structure and changes each view in one of these ways.
Proper == Structure' /\ \A t \in Session : Changes(t)

\* Steps that make, store and list nothing.
LEMMA Quietly ==
    ASSUME Structure, Remember, Grows, NEW c \in Client, Served(c), req'[c].at \in {"idle", "match"},
           conv' \in [Session -> Memory],
           \A t \in Session : conv'[t] = conv[t] \/ (t \in active' /\ conv'[t] = NewConversation),
           turns' = turns, relays' = relays, made' = made,
           bound' \in [Client -> Session \cup {None}], todo' \in [Client -> SUBSET Nat], losses' \in Nat
    PROVE  Proper
<1>1. /\ req' \in [Client -> Request] /\ Requests'
      /\ \A d \in Client : req'[d].at \in CarriesOne \cup {"match"} => req'[d].session \in active'
  BY RequestsKept
<1>2. /\ turns' \in [Session -> SUBSET Message] /\ relays' \in SUBSET Relay /\ made' \in Nat
      /\ \A s \in Session : IsFiniteSet(turns'[s])
      /\ \A r \in relays' : r.session \in active'
  BY DEF Structure, TypeOK, Activity, Grows
<1>3. Structure'
  BY <1>1, <1>2, StructureKept
<1>4. ASSUME NEW t \in Session
      PROVE  Keeps(View(t), View(t)')
  <2>1. \A d \in Client : d # c => req'[d] = req[d]
    BY DEF Served
  <2>2. \A at : c \in AtPlace(at, t)' => req'[c].at \in at
    BY AtPlaces
  <2>3. ~(c \in AtPlace(CarriesOne, t)') /\ ~(c \in AtPlace({"restore"}, t)')
        /\ ~(c \in AtPlace({"delete", "summarize"}, t)') /\ ~(c \in AtPlace({"summarize"}, t)')
    BY <2>2 DEF CarriesOne
  <2>4. /\ View(t)'.hands \subseteq View(t).hands
        /\ View(t)'.restores \subseteq View(t).restores
        /\ View(t)'.compacts \subseteq View(t).compacts
        /\ View(t)'.summaries \subseteq View(t).summaries
    BY <2>1, <2>3, OneRequest
  <2>5. View(t)'.rows = View(t).rows
    BY ViewFields, ViewFieldsNext
  <2>6. \/ View(t)'.memory = View(t).memory /\ View(t)'.next = View(t).next
        \/ View(t)'.memory = {} /\ View(t)'.next = 0
    <3>1. Entries(<<>>) = {}
      BY DEF Entries
    <3>2. CASE conv'[t] = conv[t]
      BY <3>2, ViewFields, ViewFieldsNext
    <3>3. CASE conv'[t] = NewConversation
      BY <3>1, <3>3, ViewFieldsNext, Values
    <3> QED
      BY <3>2, <3>3
  <2> QED
    BY <2>4, <2>5, <2>6 DEF Keeps
<1>5. made' \in Nat /\ made <= made'
  BY <1>2
<1> QED
  BY <1>3, <1>4, <1>5 DEF Proper, Changes

\* turn.submit with a sequence other than the next.
LEMMA RefusedSubmit ==
    ASSUME Structure, Remember, NEW c \in Client, NEW s \in Session, NEW n, SubmitRefused(c, s, n)
    PROVE  Proper
<1>1. /\ conv' = conv /\ req' = req /\ made' = made /\ turns' = turns /\ relays' = relays /\ todo' = todo
      /\ losses' = losses /\ req[c] = Idle
      /\ stored' = stored \cup {s} /\ active' = active \cup {s}
      /\ bound' = [bound EXCEPT ![c] = IF @ = None THEN s ELSE @]
  BY DEF SubmitRefused, Submitting, Receive
<1>2. Grows
  BY <1>1 DEF Grows, Structure, TypeOK, Activity
<1>3. Served(c) /\ req'[c].at \in {"idle", "match"}
  BY <1>1, Values DEF Served, Structure, TypeOK
<1>4. bound' \in [Client -> Session \cup {None}]
  BY <1>1 DEF Structure, TypeOK
<1>5. conv' \in [Session -> Memory] /\ todo' \in [Client -> SUBSET Nat] /\ losses' \in Nat
  BY <1>1 DEF Structure, TypeOK
<1> QED
  BY <1>1, <1>2, <1>3, <1>4, <1>5, Quietly

\* session.create.
LEMMA CreatedSession ==
    ASSUME Structure, Remember, NEW c \in Client, NEW s \in Session, SessionCreate(c, s)
    PROVE  Proper
<1>1. /\ conv' = conv /\ req' = req /\ made' = made /\ turns' = turns /\ relays' = relays /\ todo' = todo
      /\ losses' = losses /\ req[c] = Idle
      /\ stored' = stored \cup {s} /\ active' = active \cup {s}
      /\ bound' = [bound EXCEPT ![c] = s]
  BY DEF SessionCreate, Receive
<1>2. Grows
  BY <1>1 DEF Grows, Structure, TypeOK, Activity
<1>3. Served(c) /\ req'[c].at \in {"idle", "match"}
  BY <1>1, Values DEF Served, Structure, TypeOK
<1>4. bound' \in [Client -> Session \cup {None}]
  BY <1>1 DEF Structure, TypeOK
<1>5. conv' \in [Session -> Memory] /\ todo' \in [Client -> SUBSET Nat] /\ losses' \in Nat
  BY <1>1 DEF Structure, TypeOK
<1> QED
  BY <1>1, <1>2, <1>3, <1>4, <1>5, Quietly

\* A request fails.
LEMMA Failed ==
    ASSUME Structure, Remember, NEW c \in Client, Fail(c)
    PROVE  Proper
<1>1. /\ conv' = conv /\ made' = made /\ turns' = turns /\ relays' = relays /\ todo' = todo
      /\ losses' = losses /\ stored' = stored /\ active' = active /\ bound' = bound /\ Reply(c)
  BY DEF Fail
<1>2. Grows
  BY <1>1 DEF Grows, Structure, TypeOK, Activity
<1>3. Served(c) /\ req'[c].at \in {"idle", "match"}
  BY <1>1, Moves, Values DEF Served
<1>4. /\ conv' \in [Session -> Memory] /\ todo' \in [Client -> SUBSET Nat] /\ losses' \in Nat
      /\ bound' \in [Client -> Session \cup {None}]
  BY <1>1 DEF Structure, TypeOK
<1> QED
  BY <1>1, <1>2, <1>3, <1>4, Quietly

\* tool.result matches a pending call.
LEMMA MatchedResult ==
    ASSUME Structure, Remember, NEW c \in Client, ToolResultMatched(c)
    PROVE  Proper
<1>1. PICK k \in todo[c] :
        /\ req' = [req EXCEPT ![c] = [at |-> "match", session |-> bound[c], list |-> <<>>, call |-> k]]
        /\ todo' = [todo EXCEPT ![c] = @ \ {k}]
  BY DEF ToolResultMatched
<1>2. /\ conv' = conv /\ made' = made /\ turns' = turns /\ relays' = relays
      /\ losses' = losses /\ stored' = stored /\ active' = active /\ bound' = bound /\ bound[c] \in active
  BY DEF ToolResultMatched
<1>3. Grows
  BY <1>2 DEF Grows, Structure, TypeOK, Activity
<1>4. k \in Nat /\ bound[c] \in Session /\ bound[c] \in stored
  BY <1>2 DEF Structure, TypeOK, Activity
<1>5. Served(c) /\ req'[c].at \in {"idle", "match"}
  <2> DEFINE q == [at |-> "match", session |-> bound[c], list |-> <<>>, call |-> k]
  <2>1. q \in Request
    <3>1. <<>> \in Seq(Message)
      OBVIOUS
    <3> QED
      BY <1>4, <3>1 DEF Request, Places
  <2>2. q.at = "match" /\ q.session = bound[c] /\ q.list = <<>>
    OBVIOUS
  <2>3. req' = [req EXCEPT ![c] = q]
    BY <1>1
  <2> HIDE DEF q
  <2>4. req' \in [Client -> Request] /\ req'[c] = q /\ \A d \in Client : d # c => req'[d] = req[d]
    BY <2>1, <2>3 DEF Structure, TypeOK
  <2> QED
    BY <1>2, <1>4, <2>2, <2>4 DEF Served, CarriesOne
<1>6. conv' \in [Session -> Memory] /\ losses' \in Nat /\ bound' \in [Client -> Session \cup {None}]
  BY <1>2 DEF Structure, TypeOK
<1>7. todo' \in [Client -> SUBSET Nat]
  BY <1>1 DEF Structure, TypeOK
<1> QED
  BY <1>2, <1>3, <1>5, <1>6, <1>7, Quietly

\* tool.result matches none.
LEMMA RefusedResult ==
    ASSUME Structure, Remember, NEW c \in Client, ToolResultRefused(c)
    PROVE  Proper
<1>1. PICK k \in todo[c] : todo' = [todo EXCEPT ![c] = @ \ {k}]
  BY DEF ToolResultRefused
<1>2. /\ conv' = conv /\ made' = made /\ turns' = turns /\ relays' = relays /\ req' = req /\ req[c] = Idle
      /\ losses' = losses /\ stored' = stored /\ active' = active /\ bound' = bound
  BY DEF ToolResultRefused, Receive
<1>3. Grows
  BY <1>2 DEF Grows, Structure, TypeOK, Activity
<1>4. Served(c) /\ req'[c].at \in {"idle", "match"}
  BY <1>2, Values DEF Served, Structure, TypeOK
<1>5. conv' \in [Session -> Memory] /\ losses' \in Nat /\ bound' \in [Client -> Session \cup {None}]
  BY <1>2 DEF Structure, TypeOK
<1>6. todo' \in [Client -> SUBSET Nat]
  BY <1>1 DEF Structure, TypeOK
<1> QED
  BY <1>2, <1>3, <1>4, <1>5, <1>6, Quietly

\* session.clear empties the memory.
LEMMA Cleared ==
    ASSUME Structure, Remember, NEW c \in Client, SessionClear(c)
    PROVE  Proper
<1>1. PICK s \in stored : active' = active \cup {s} /\ conv' = [conv EXCEPT ![s] = NewConversation]
  BY DEF SessionClear
<1>2. /\ made' = made /\ turns' = turns /\ relays' = relays /\ req' = req /\ req[c] = Idle
      /\ losses' = losses /\ stored' = stored /\ bound' = bound /\ todo' = todo
  BY DEF SessionClear, Receive
<1>3. Grows
  BY <1>1, <1>2 DEF Grows, Structure, TypeOK, Activity
<1>4. Served(c) /\ req'[c].at \in {"idle", "match"}
  BY <1>2, Values DEF Served, Structure, TypeOK
<1>5. /\ conv' \in [Session -> Memory]
      /\ \A t \in Session : conv'[t] = conv[t] \/ (t \in active' /\ conv'[t] = NewConversation)
  BY <1>1, Values DEF Structure, TypeOK
<1>6. losses' \in Nat /\ bound' \in [Client -> Session \cup {None}] /\ todo' \in [Client -> SUBSET Nat]
  BY <1>2 DEF Structure, TypeOK
<1> QED
  BY <1>2, <1>3, <1>4, <1>5, <1>6, Quietly

\* A client reconnects.
LEMMA Reconnected ==
    ASSUME Structure, Remember, NEW c \in Client, Reconnect(c)
    PROVE  Proper
<1>1. /\ conv' = conv /\ made' = made /\ turns' = turns /\ relays' = relays /\ req' = req /\ req[c] = Idle
      /\ losses' = losses + 1 /\ stored' = stored /\ active' = active /\ todo' = todo
      /\ bound' = [bound EXCEPT ![c] = None]
  BY DEF Reconnect, Receive
<1>2. Grows
  BY <1>1 DEF Grows, Structure, TypeOK, Activity
<1>3. Served(c) /\ req'[c].at \in {"idle", "match"}
  BY <1>1, Values DEF Served, Structure, TypeOK
<1>4. /\ conv' \in [Session -> Memory] /\ losses' \in Nat /\ bound' \in [Client -> Session \cup {None}]
      /\ todo' \in [Client -> SUBSET Nat]
  BY <1>1 DEF Structure, TypeOK
<1> QED
  BY <1>1, <1>2, <1>3, <1>4, Quietly

\* Appending adds one entry.
LEMMA OneMore ==
    ASSUME NEW list \in Seq(Message), NEW m \in Message
    PROVE  /\ Entries(Append(list, m)) = Entries(list) \cup {m}
           /\ <<m>> \in Seq(Message) /\ Len(<<m>>) = 1 /\ <<m>>[1] = m
<1>1. /\ Len(list) \in Nat /\ DOMAIN list = 1 .. Len(list)
      /\ DOMAIN Append(list, m) = 1 .. Len(list) + 1
      /\ \A i \in 1 .. Len(list) : Append(list, m)[i] = list[i]
      /\ Append(list, m)[Len(list) + 1] = m
  BY AppendProperties, LenProperties
<1>2. \A e \in Entries(Append(list, m)) : e \in Entries(list) \/ e = m
  BY <1>1 DEF Entries
<1>3. \A e \in Entries(list) : e \in Entries(Append(list, m))
  BY <1>1 DEF Entries
<1>4. Len(list) + 1 \in DOMAIN Append(list, m)
  BY <1>1
<1>5. m \in Entries(Append(list, m))
  BY <1>1, <1>4 DEF Entries
<1>6. Entries(Append(list, m)) = Entries(list) \cup {m}
  BY <1>2, <1>3, <1>5
<1>7. <<m>> \in Seq(Message) /\ Len(<<m>>) = 1 /\ <<m>>[1] = m
  OBVIOUS
<1> QED
  BY <1>6, <1>7

\* What a message's joining does to the memory of each session.
LEMMA JoinedMemory ==
    ASSUME Structure, NEW s \in Session, NEW m \in Message, Joins(s, m)
    PROVE  /\ View(s)'.memory = View(s).memory \cup {m} /\ View(s)'.next = View(s).next + 1
           /\ \A t \in Session : t # s =>
                 View(t)'.memory = View(t).memory /\ View(t)'.next = View(t).next
<1>1. conv[s].messages \in Seq(Message)
  BY DEF Structure, TypeOK, Memory
<1>2. Entries(Append(conv[s].messages, m)) = Entries(conv[s].messages) \cup {m}
  BY <1>1, OneMore
<1>3. View(s)'.memory = View(s).memory \cup {m} /\ View(s)'.next = View(s).next + 1
  <2>1. View(s)'.memory = Entries(conv'[s].messages) /\ View(s)'.next = conv'[s].storageSequence
    BY ViewFieldsNext
  <2>2. View(s).memory = Entries(conv[s].messages) /\ View(s).next = conv[s].storageSequence
    BY ViewFields
  <2>3. /\ conv'[s].messages = Append(conv[s].messages, m)
        /\ conv'[s].storageSequence = conv[s].storageSequence + 1
    BY DEF Joins
  <2> QED
    BY <1>2, <2>1, <2>2, <2>3
<1>4. \A t \in Session : t # s =>
                 View(t)'.memory = View(t).memory /\ View(t)'.next = View(t).next
  BY ViewFields, ViewFieldsNext DEF Joins
<1> QED
  BY <1>3, <1>4

\* A request appends a message and goes on to store it.
LEMMA RequestAppends ==
    ASSUME Structure, Remember, Grows, NEW c \in Client, NEW s \in Session, s \in active',
           NEW m \in Message, m.id = made + 1, m.seq = conv[s].storageSequence + 1, Joins(s, m),
           NEW at \in CarriesOne, Goto(c, at, s, <<m>>), made' = made + 1,
           turns' = turns, relays' = relays, losses' = losses, todo' = todo,
           bound' \in [Client -> Session \cup {None}]
    PROVE  Proper
<1>1. <<m>> \in Seq(Message) /\ Len(<<m>>) = 1 /\ <<m>>[1] = m /\ at \in Places
  <2>1. <<m>> \in Seq(Message)
    OBVIOUS
  <2> QED
    BY <2>1 DEF CarriesOne, Places
<1>2. /\ req' \in [Client -> Request] /\ req'[c].at = at /\ req'[c].session = s /\ req'[c].list = <<m>>
      /\ \A d \in Client : d # c => req'[d] = req[d]
  <2> DEFINE l == <<m>>
  <2>1. l \in Seq(Message) /\ Goto(c, at, s, l)
    BY <1>1
  <2> HIDE DEF l
  <2>2. /\ req' \in [Client -> Request] /\ req'[c].at = at /\ req'[c].session = s /\ req'[c].list = l
        /\ \A d \in Client : d # c => req'[d] = req[d]
    BY <1>1, <2>1, Moves
  <2> QED
    BY <2>2 DEF l
<1>3. Served(c)
  BY <1>1, <1>2 DEF Served, CarriesOne, Grows
<1>4. /\ Requests'
      /\ \A d \in Client : req'[d].at \in CarriesOne \cup {"match"} => req'[d].session \in active'
  BY <1>3, RequestsKept
<1>5. /\ turns' \in [Session -> SUBSET Message] /\ relays' \in SUBSET Relay /\ made' \in Nat
      /\ \A t \in Session : IsFiniteSet(turns'[t])
      /\ \A r \in relays' : r.session \in active'
      /\ losses' \in Nat /\ todo' \in [Client -> SUBSET Nat]
  BY DEF Structure, TypeOK, Activity, Grows
<1>6. conv' \in [Session -> Memory] /\ \A t \in Session : t \notin active' => conv'[t] = conv[t]
  BY DEF Joins
<1>7. Structure'
  BY <1>2, <1>4, <1>5, <1>6, StructureKept
<1>8. /\ View(s)'.memory = View(s).memory \cup {m} /\ View(s)'.next = View(s).next + 1
      /\ \A t \in Session : t # s => View(t)'.memory = View(t).memory /\ View(t)'.next = View(t).next
  BY JoinedMemory
<1>9. ASSUME NEW t \in Session
      PROVE  Changes(t)
  <2> DEFINE x == [by |-> <<"request", c>>, msg |-> m]
  <2>1. ~(c \in AtPlace({"restore"}, t)')
        /\ ~(c \in AtPlace({"delete", "summarize"}, t)') /\ ~(c \in AtPlace({"summarize"}, t)')
    BY <1>2, AtPlaces DEF CarriesOne
  <2>2. /\ View(t)'.restores \subseteq View(t).restores
        /\ View(t)'.compacts \subseteq View(t).compacts
        /\ View(t)'.summaries \subseteq View(t).summaries
        /\ \A y \in View(t)'.hands : y \in View(t).hands \/ (c \in AtPlace(CarriesOne, t)' /\ y = x)
    BY <1>1, <1>2, <2>1, OneRequest
  <2>3. View(t)'.rows = View(t).rows
    BY ViewFields, ViewFieldsNext
  <2>4. CASE t = s
    <3>1. x.msg = m /\ View(s).next = conv[s].storageSequence
      BY ViewFields
    <3> HIDE DEF x
    <3>2. View(t)'.hands \subseteq View(t).hands \cup {x}
      BY <2>2
    <3>3. Gains(View(t), View(t)', x, made)
      BY <1>8, <2>2, <2>3, <2>4, <3>1, <3>2 DEF Gains
    <3> QED
      BY <2>4, <3>1, <3>3 DEF Changes
  <2>5. CASE t # s
    <3>1. ~(c \in AtPlace(CarriesOne, t)')
      BY <1>2, <2>5, AtPlaces
    <3>2. Keeps(View(t), View(t)')
      BY <1>8, <2>2, <2>3, <2>5, <3>1 DEF Keeps
    <3>3. made' \in Nat /\ made <= made'
      BY <1>5 DEF Structure, TypeOK
    <3> QED
      BY <3>2, <3>3 DEF Changes
  <2> QED
    BY <2>4, <2>5
<1> QED
  BY <1>7, <1>9 DEF Proper

\* turn.submit appends the user turn.
LEMMA AppendedSubmit ==
    ASSUME Structure, Remember, NEW c \in Client, NEW s \in Session, NEW n, SubmitAppended(c, s, n)
    PROVE  Proper
<1> DEFINE m == NewMessage(s, "user", 0, 0)
<1>1. /\ made' = made + 1 /\ turns' = turns /\ relays' = relays /\ todo' = todo /\ losses' = losses
      /\ stored' = stored \cup {s} /\ active' = active \cup {s}
      /\ bound' = [bound EXCEPT ![c] = IF @ = None THEN s ELSE @]
      /\ AppendUserTurn(s, 0) /\ Goto(c, "create", s, <<m>>)
  BY DEF SubmitAppended, Submitting
<1>2. Grows
  BY <1>1 DEF Grows, Structure, TypeOK, Activity
<1>3. m \in Message /\ m.id = made + 1 /\ m.seq = conv[s].storageSequence + 1
  BY NewMessages DEF Structure, Roles
<1>4. Joins(s, m)
  BY <1>1, UserJoins DEF Structure
<1>5. bound' \in [Client -> Session \cup {None}]
  BY <1>1 DEF Structure, TypeOK
<1>6. "create" \in CarriesOne /\ s \in active'
  BY <1>1 DEF CarriesOne
<1> HIDE DEF m
<1> QED
  BY <1>1, <1>2, <1>3, <1>4, <1>5, <1>6, RequestAppends

\* tool.result appends the user turn.
LEMMA AppendedResult ==
    ASSUME Structure, Remember, NEW c \in Client, ToolResultAppended(c)
    PROVE  Proper
<1> DEFINE s == req[c].session
           m == NewMessage(s, "user", 0, req[c].call)
<1>1. /\ req[c].at = "match" /\ made' = made + 1 /\ turns' = turns /\ relays' = relays /\ todo' = todo
      /\ losses' = losses /\ stored' = stored /\ active' = active /\ bound' = bound
      /\ AppendUserTurn(s, req[c].call) /\ Goto(c, "persist", s, <<m>>)
  BY DEF ToolResultAppended
<1>2. s \in active /\ s \in Session /\ req[c].call \in Nat
  <2>1. s \in active
    BY <1>1 DEF Structure, Activity
  <2> QED
    BY <2>1 DEF Structure, TypeOK, Request
<1> HIDE DEF s
<1>3. Grows
  BY <1>1 DEF Grows, Structure, TypeOK, Activity
<1>4. m \in Message /\ m.id = made + 1 /\ m.seq = conv[s].storageSequence + 1
  BY <1>2, NewMessages, SMTT(30) DEF Structure, Roles
<1>5. Joins(s, m)
  BY <1>1, <1>2, UserJoins DEF Structure
<1>6. bound' \in [Client -> Session \cup {None}]
  BY <1>1 DEF Structure, TypeOK
<1>7. "persist" \in CarriesOne /\ s \in active'
  BY <1>1, <1>2 DEF CarriesOne
<1> HIDE DEF m
<1> QED
  BY <1>1, <1>2, <1>3, <1>4, <1>5, <1>6, <1>7, RequestAppends

\* A relay appends the assistant turn.
LEMMA AppendedRelay ==
    ASSUME Structure, Remember, NEW r, RelayAppended(r)
    PROVE  Proper
<1> DEFINE s == r.session
           m == NewMessage(s, "assistant", r.call, 0)
           q == [r EXCEPT !.at = "persist", !.msg = m]
           x == [by |-> <<"relay", q>>, msg |-> m]
<1>1. /\ r \in relays /\ made' = made + 1 /\ turns' = turns /\ todo' = todo /\ req' = req
      /\ losses' = losses /\ stored' = stored /\ active' = active /\ bound' = bound
      /\ AppendAssistantTurn(s, r.call)
      /\ relays' = (relays \ {r}) \cup {q}
  BY DEF RelayAppended
<1>2. r \in Relay /\ s \in active /\ s \in Session /\ r.call \in Nat
  BY <1>1 DEF Structure, TypeOK, Activity, Relay
<1>3. m \in Message /\ m.id = made + 1 /\ m.seq = conv[s].storageSequence + 1
  BY <1>2, NewMessages DEF Structure, Roles
<1>4. Joins(s, m)
  BY <1>1, <1>2, AssistantJoins DEF Structure
<1> HIDE DEF m
<1>5. q \in Relay /\ q.session = s /\ q.at = "persist" /\ q.msg = m
  BY <1>2, <1>3 DEF Relay
<1>6. x.msg = m /\ x.by = <<"relay", q>>
  OBVIOUS
<1> HIDE DEF s, q
<1>7. Grows
  BY <1>1 DEF Grows, Structure, TypeOK, Activity
<1>8. /\ req' \in [Client -> Request] /\ Requests'
      /\ \A d \in Client : req'[d].at \in CarriesOne \cup {"match"} => req'[d].session \in active'
      /\ turns' \in [Session -> SUBSET Message] /\ made' \in Nat
      /\ \A t \in Session : IsFiniteSet(turns'[t])
      /\ losses' \in Nat /\ todo' \in [Client -> SUBSET Nat] /\ bound' \in [Client -> Session \cup {None}]
  BY <1>1 DEF Structure, TypeOK, Activity, Requests
<1>9. relays' \in SUBSET Relay /\ \A p \in relays' : p.session \in active'
  BY <1>1, <1>2, <1>5 DEF Structure, TypeOK, Activity
<1>10. conv' \in [Session -> Memory] /\ \A t \in Session : t \notin active' => conv'[t] = conv[t]
  BY <1>1, <1>2, <1>4 DEF Joins
<1>11. Structure'
  BY <1>1, <1>7, <1>8, <1>9, <1>10, StructureKept
<1>12. /\ View(s)'.memory = View(s).memory \cup {m} /\ View(s)'.next = View(s).next + 1
       /\ \A t \in Session : t # s => View(t)'.memory = View(t).memory /\ View(t)'.next = View(t).next
  BY <1>2, <1>3, <1>4, JoinedMemory
<1>13. ASSUME NEW t \in Session
       PROVE  Changes(t)
  <2>1. /\ \A y \in View(t)'.hands : y \in View(t).hands \/ (q.session = t /\ y = x)
        /\ \A e \in View(t)'.restores : e \in View(t).restores
        /\ \A e \in View(t)'.compacts : e \in View(t).compacts
        /\ \A e \in View(t)'.summaries : e \in View(t).summaries
    <3>1. req' = req /\ relays' \in {relays \ {r}, (relays \ {r}) \cup {q}}
      BY <1>1
    <3>2. /\ \A y \in View(t)'.hands :
                 \/ y \in View(t).hands /\ y.by # <<"relay", r>>
                 \/ /\ q \in relays' /\ q.session = t /\ q.at = "persist"
                    /\ y = [by |-> <<"relay", q>>, msg |-> q.msg]
          /\ \A e \in View(t)'.restores : e \in View(t).restores
          /\ \A e \in View(t)'.compacts : e \in View(t).compacts
          /\ \A e \in View(t)'.summaries : e \in View(t).summaries
      BY <3>1, OneRelay
    <3> QED
      BY <1>5, <3>2
  <2>2. View(t)'.rows = View(t).rows
    BY <1>1, ViewFields, ViewFieldsNext
  <2> HIDE DEF x
  <2>3. CASE t = s
    <3>1. View(s).next = conv[s].storageSequence
      BY ViewFields
    <3>2. View(t)'.hands \subseteq View(t).hands \cup {x}
      BY <2>1
    <3>3. Gains(View(t), View(t)', x, made)
      BY <1>3, <1>6, <1>12, <2>1, <2>2, <2>3, <3>1, <3>2 DEF Gains
    <3> QED
      BY <1>1, <1>2, <1>3, <1>6, <2>3, <3>3 DEF Changes
  <2>4. CASE t # s
    <3>1. View(t)'.hands \subseteq View(t).hands
      BY <1>5, <2>1, <2>4
    <3>2. Keeps(View(t), View(t)')
      BY <1>12, <2>1, <2>2, <2>4, <3>1 DEF Keeps
    <3>3. made' \in Nat /\ made <= made'
      BY <1>1, <1>8 DEF Structure, TypeOK
    <3> QED
      BY <3>2, <3>3 DEF Changes
  <2> QED
    BY <2>3, <2>4
<1> QED
  BY <1>11, <1>13 DEF Proper

\* What the storing of a message does to the tables.
LEMMA RowAdded ==
    ASSUME Structure, NEW s \in Session, NEW m \in Message, turns' = [turns EXCEPT ![s] = @ \cup {m}]
    PROVE  /\ turns' \in [Session -> SUBSET Message]
           /\ \A t \in Session : IsFiniteSet(turns'[t])
           /\ turns'[s] = turns[s] \cup {m}
           /\ \A t \in Session : t # s => turns'[t] = turns[t]
<1>1. turns \in [Session -> SUBSET Message] /\ \A t \in Session : IsFiniteSet(turns[t])
  BY DEF Structure, TypeOK, Activity
<1>2. IsFiniteSet(turns[s] \cup {m})
  BY <1>1, FS_AddElement
<1>3. turns'[s] = turns[s] \cup {m} /\ \A t \in Session : t # s => turns'[t] = turns[t]
  BY <1>1
<1>4. turns' \in [Session -> SUBSET Message]
  BY <1>1
<1> QED
  BY <1>1, <1>2, <1>3, <1>4

\* The memory of a session is as it was.
LEMMA SameMemory ==
    ASSUME NEW t, conv' = conv
    PROVE  View(t)'.memory = View(t).memory /\ View(t)'.next = View(t).next
BY ViewFields, ViewFieldsNext

\* A request stores the message it carries, and is answered.
LEMMA RequestStores ==
    ASSUME Structure, Remember, NEW c \in Client, req[c].at \in CarriesOne, Reply(c),
           turns' = [turns EXCEPT ![req[c].session] = @ \cup {req[c].list[1]}],
           relays' \in SUBSET Relay, \A r \in relays' : r \in relays \/ (r.at = "stream" /\ r.session \in active),
           conv' = conv, active' = active, stored' = stored, made' = made, losses' = losses,
           bound' = bound, todo' = todo
    PROVE  Proper
<1> DEFINE s == req[c].session
           m == req[c].list[1]
           x == [by |-> <<"request", c>>, msg |-> m]
<1>1. s \in Session /\ s \in active /\ s \in stored
  <2>1. s \in active
    BY DEF Structure, Activity
  <2> QED
    BY <2>1 DEF Structure, TypeOK, Activity
<1>2. m \in Message
  <2>1. req[c].list \in Seq(Message) /\ Len(req[c].list) >= 1
    <3>1. req[c].list \in Seq(Message)
      BY DEF Structure, TypeOK, Request
    <3>2. Len(req[c].list) = 1
      BY DEF Structure, Requests
    <3> QED
      BY <3>1, <3>2
  <2> QED
    BY <2>1, ListEntries
<1>3. x.by = <<"request", c>> /\ x.msg = m /\ c \in AtPlace(CarriesOne, s) /\ x \in View(s).hands
  <2>1. c \in AtPlace(CarriesOne, s)
    BY AtPlaces
  <2> QED
    BY <2>1, ViewFields
<1> HIDE DEF m, s, x
<1>4. turns' = [turns EXCEPT ![s] = @ \cup {m}]
  BY DEF s, m
<1>5. /\ turns' \in [Session -> SUBSET Message]
      /\ \A t \in Session : IsFiniteSet(turns'[t])
      /\ turns'[s] = turns[s] \cup {m}
      /\ \A t \in Session : t # s => turns'[t] = turns[t]
  BY <1>1, <1>2, <1>4, RowAdded
<1>6. Grows
  BY DEF Grows, Structure, TypeOK, Activity
<1>7. /\ req'[c] = Idle /\ Served(c)
      /\ \A d \in Client : d # c => req'[d] = req[d]
  BY Moves DEF Served
<1>8. /\ req' \in [Client -> Request] /\ Requests'
      /\ \A d \in Client : req'[d].at \in CarriesOne \cup {"match"} => req'[d].session \in active'
  BY <1>6, <1>7, RequestsKept
<1>9. /\ made' \in Nat /\ conv' \in [Session -> Memory]
      /\ losses' \in Nat /\ todo' \in [Client -> SUBSET Nat] /\ bound' \in [Client -> Session \cup {None}]
      /\ \A r \in relays' : r.session \in active'
  BY DEF Structure, TypeOK, Activity
<1>10. \A t \in Session : t \notin stored' => turns'[t] = turns[t]
  BY <1>1, <1>5
<1>11. Structure'
  BY <1>5, <1>6, <1>8, <1>9, <1>10, StructureKept
<1>12. ASSUME NEW t \in Session
       PROVE  Changes(t)
  <2>1. \A r \in relays' : r.at = "persist" => r \in relays
    OBVIOUS
  <2>2. \A at : c \in AtPlace(at, t)' => "idle" \in at
    BY <1>7, AtPlaces, Values
  <2>3. ~(c \in AtPlace(CarriesOne, t)') /\ ~(c \in AtPlace({"restore"}, t)')
        /\ ~(c \in AtPlace({"delete", "summarize"}, t)') /\ ~(c \in AtPlace({"summarize"}, t)')
    BY <2>2 DEF CarriesOne
  <2>4. /\ \A y \in View(t)'.hands : y \in View(t).hands /\ y.by # <<"request", c>>
        /\ View(t)'.restores \subseteq View(t).restores
        /\ View(t)'.compacts \subseteq View(t).compacts
        /\ View(t)'.summaries \subseteq View(t).summaries
    BY <1>7, <2>1, <2>3, OneRequest
  <2>5. View(t)'.memory = View(t).memory /\ View(t)'.next = View(t).next
    BY SameMemory
  <2>6. View(t)'.rows = turns'[t] /\ View(t).rows = turns[t]
    BY ViewFields, ViewFieldsNext
  <2>7. CASE t = s
    <3>1. View(t)'.hands \subseteq View(t).hands \ {x}
      BY <1>3, <2>4
    <3>2. View(t)'.rows = View(t).rows \cup {x.msg}
      BY <1>3, <1>5, <2>6, <2>7
    <3>3. Stores(View(t), View(t)', x)
      BY <1>3, <2>4, <2>5, <2>7, <3>1, <3>2 DEF Stores
    <3> QED
      BY <3>3 DEF Changes
  <2>8. CASE t # s
    <3>1. Keeps(View(t), View(t)')
      BY <1>5, <2>4, <2>5, <2>6, <2>8 DEF Keeps
    <3>2. made' \in Nat /\ made <= made'
      BY <1>9
    <3> QED
      BY <3>1, <3>2 DEF Changes
  <2> QED
    BY <2>7, <2>8
<1> QED
  BY <1>11, <1>12 DEF Proper

\* turn.submit creates its run and stores the turn.
LEMMA CreatedSubmit ==
    ASSUME Structure, Remember, NEW c \in Client, SubmitCreated(c)
    PROVE  Proper
<1> DEFINE s == req[c].session
           m == req[c].list[1]
           q == [at |-> "stream", client |-> c, session |-> s, turn |-> m.id, call |-> 0, msg |-> m]
<1>1. /\ req[c].at = "create" /\ turns' = [turns EXCEPT ![s] = @ \cup {m}] /\ Reply(c)
      /\ relays' \in {relays, relays \cup {q}}
      /\ conv' = conv /\ active' = active /\ stored' = stored /\ made' = made /\ losses' = losses
      /\ bound' = bound /\ todo' = todo
  BY DEF SubmitCreated
<1>2. req[c].at \in CarriesOne
  BY <1>1 DEF CarriesOne
<1>3. s \in active /\ s \in Session
  <2>1. s \in active
    BY <1>2 DEF Structure, Activity
  <2> QED
    BY <2>1 DEF Structure, TypeOK
<1>4. m \in Message /\ m.id \in Nat
  <2>1. req[c].list \in Seq(Message) /\ Len(req[c].list) >= 1
    <3>1. req[c].list \in Seq(Message)
      BY DEF Structure, TypeOK, Request
    <3>2. Len(req[c].list) = 1
      BY <1>2 DEF Structure, Requests
    <3> QED
      BY <3>1, <3>2
  <2>2. m \in Message
    BY <2>1, ListEntries
  <2> QED
    BY <2>2 DEF Message
<1>5. q \in Relay /\ q.at = "stream" /\ q.session = s
  <2> HIDE DEF m, s
  <2> QED
    BY <1>3, <1>4 DEF Relay
<1> HIDE DEF q
<1>6. relays' \in SUBSET Relay /\ \A r \in relays' : r \in relays \/ (r.at = "stream" /\ r.session \in active)
  BY <1>1, <1>3, <1>5 DEF Structure, TypeOK
<1> QED
  BY <1>1, <1>2, <1>6, RequestStores

\* tool.result stores its turn.
LEMMA PersistedResult ==
    ASSUME Structure, Remember, NEW c \in Client, ToolResultPersisted(c)
    PROVE  Proper
<1>1. /\ req[c].at = "persist" /\ turns' = [turns EXCEPT ![req[c].session] = @ \cup {req[c].list[1]}] /\ Reply(c)
      /\ relays' = relays
      /\ conv' = conv /\ active' = active /\ stored' = stored /\ made' = made /\ losses' = losses
      /\ bound' = bound /\ todo' = todo
  BY DEF ToolResultPersisted
<1>2. req[c].at \in CarriesOne
  BY <1>1 DEF CarriesOne
<1>3. relays' \in SUBSET Relay /\ \A r \in relays' : r \in relays
  BY <1>1 DEF Structure, TypeOK
<1> QED
  BY <1>1, <1>2, <1>3, RequestStores

\* Relays come and go, or change; requests and conversations stay.
LEMMA RelayStructure ==
    ASSUME Structure, Remember, conv' = conv, active' = active, stored' = stored, bound' = bound, req' = req,
           made' = made, losses' = losses, todo' \in [Client -> SUBSET Nat],
           turns' \in [Session -> SUBSET Message], \A t \in Session : IsFiniteSet(turns'[t]),
           \A t \in Session : t \notin stored => turns'[t] = turns[t],
           relays' \in SUBSET Relay, \A r \in relays' : r.session \in active
    PROVE  Structure' /\ made' \in Nat /\ made <= made'
<1>1. Grows
  BY DEF Grows, Structure, TypeOK, Activity
<1>2. /\ req' \in [Client -> Request] /\ Requests'
      /\ \A d \in Client : req'[d].at \in CarriesOne \cup {"match"} => req'[d].session \in active'
      /\ losses' \in Nat /\ bound' \in [Client -> Session \cup {None}]
      /\ made' \in Nat /\ conv' \in [Session -> Memory]
  BY DEF Structure, TypeOK, Activity, Requests
<1>3. Structure'
  BY <1>1, <1>2, StructureKept
<1> QED
  BY <1>2, <1>3

\* A relay stores its turn, or does not.
LEMMA PersistedRelay ==
    ASSUME Structure, Remember, NEW r, RelayPersisted(r)
    PROVE  Proper
<1> DEFINE s == r.session
           m == r.msg
           x == [by |-> <<"relay", r>>, msg |-> m]
<1>1. /\ r \in relays /\ r.at = "persist" /\ relays' = relays \ {r}
      /\ turns' = turns \/ turns' = [turns EXCEPT ![s] = @ \cup {m}]
      /\ conv' = conv /\ active' = active /\ stored' = stored /\ made' = made /\ losses' = losses
      /\ bound' = bound /\ todo' = todo /\ req' = req
  BY DEF RelayPersisted
<1>2. s \in Session /\ s \in active /\ s \in stored /\ m \in Message
  BY <1>1 DEF Structure, TypeOK, Activity, Relay
<1>3. x.by = <<"relay", r>> /\ x.msg = m /\ x \in View(s).hands
  BY <1>1, ViewFields
<1> HIDE DEF m, s, x
<1>4. /\ turns' \in [Session -> SUBSET Message]
      /\ \A t \in Session : IsFiniteSet(turns'[t])
      /\ \A t \in Session : t # s => turns'[t] = turns[t]
      /\ turns'[s] = turns[s] \/ turns'[s] = turns[s] \cup {m}
  <2>1. CASE turns' = turns
    BY <2>1 DEF Structure, TypeOK, Activity
  <2>2. CASE turns' = [turns EXCEPT ![s] = @ \cup {m}]
    BY <1>2, <2>2, RowAdded
  <2> QED
    BY <1>1, <2>1, <2>2
<1>5. Structure' /\ made' \in Nat /\ made <= made'
  <2>1. todo' \in [Client -> SUBSET Nat] /\ relays' \in SUBSET Relay /\ \A q \in relays' : q.session \in active
    BY <1>1 DEF Structure, TypeOK, Activity
  <2>2. \A t \in Session : t \notin stored => turns'[t] = turns[t]
    BY <1>2, <1>4
  <2> QED
    BY <1>1, <1>4, <2>1, <2>2, RelayStructure
<1>6. ASSUME NEW t \in Session
      PROVE  Changes(t)
  <2>1. /\ \A y \in View(t)'.hands : y \in View(t).hands /\ y.by # <<"relay", r>>
        /\ \A e \in View(t)'.restores : e \in View(t).restores
        /\ \A e \in View(t)'.compacts : e \in View(t).compacts
        /\ \A e \in View(t)'.summaries : e \in View(t).summaries
    <3>1. req' = req /\ relays' \in {relays \ {r}, (relays \ {r}) \cup {r}} /\ r \notin relays'
      BY <1>1
    <3>2. \A y \in View(t)'.hands :
                 \/ y \in View(t).hands /\ y.by # <<"relay", r>>
                 \/ /\ r \in relays' /\ r.session = t /\ r.at = "persist"
                    /\ y = [by |-> <<"relay", r>>, msg |-> r.msg]
      BY <3>1, OneRelay
    <3>3. /\ \A e \in View(t)'.restores : e \in View(t).restores
          /\ \A e \in View(t)'.compacts : e \in View(t).compacts
          /\ \A e \in View(t)'.summaries : e \in View(t).summaries
      BY <3>1, OneRelay
    <3> QED
      BY <3>1, <3>2, <3>3
  <2>2. View(t)'.memory = View(t).memory /\ View(t)'.next = View(t).next
    BY <1>1, SameMemory
  <2>3. View(t)'.rows = turns'[t] /\ View(t).rows = turns[t]
    BY ViewFields, ViewFieldsNext
  <2>4. CASE turns'[t] = turns[t]
    <3>1. Keeps(View(t), View(t)')
      BY <2>1, <2>2, <2>3, <2>4 DEF Keeps
    <3> QED
      BY <1>5, <3>1 DEF Changes
  <2>5. CASE turns'[t] # turns[t]
    <3>1. t = s
      BY <1>4, <2>5
    <3>2. View(t)'.hands \subseteq View(t).hands \ {x}
      BY <1>3, <2>1
    <3>3. View(t)'.rows = View(t).rows \cup {x.msg}
      BY <1>3, <1>4, <2>3, <2>5, <3>1
    <3>4. Stores(View(t), View(t)', x)
      BY <1>3, <2>1, <2>2, <3>1, <3>2, <3>3 DEF Stores
    <3> QED
      BY <1>1, <3>4 DEF Changes
  <2> QED
    BY <2>4, <2>5
<1> QED
  BY <1>5, <1>6 DEF Proper

\* A relay announces a tool call.
LEMMA CalledRelay ==
    ASSUME Structure, Remember, NEW r, RelayToolCall(r)
    PROVE  Proper
<1> DEFINE q == [r EXCEPT !.call = r.turn]
<1>1. /\ r \in relays /\ r.at = "stream" /\ relays' = (relays \ {r}) \cup {q}
      /\ todo' = [todo EXCEPT ![r.client] = @ \cup {r.turn}]
      /\ conv' = conv /\ active' = active /\ stored' = stored /\ made' = made /\ losses' = losses
      /\ bound' = bound /\ turns' = turns /\ req' = req
  BY DEF RelayToolCall
<1>2. r \in Relay /\ r.session \in active /\ r.turn \in Nat
  BY <1>1 DEF Structure, TypeOK, Activity, Relay
<1>3. q \in Relay /\ q.session = r.session /\ q.at = "stream"
  BY <1>1, <1>2 DEF Relay
<1> HIDE DEF q
<1>4. Structure' /\ made' \in Nat /\ made <= made'
  <2>1. todo' \in [Client -> SUBSET Nat]
    BY <1>1, <1>2 DEF Structure, TypeOK
  <2>2. relays' \in SUBSET Relay /\ \A p \in relays' : p.session \in active
    BY <1>1, <1>2, <1>3 DEF Structure, TypeOK, Activity
  <2>3. /\ turns' \in [Session -> SUBSET Message] /\ \A t \in Session : IsFiniteSet(turns'[t])
        /\ \A t \in Session : t \notin stored => turns'[t] = turns[t]
    BY <1>1 DEF Structure, TypeOK, Activity
  <2> QED
    BY <1>1, <2>1, <2>2, <2>3, RelayStructure
<1>5. ASSUME NEW t \in Session
      PROVE  Changes(t)
  <2>1. req' = req /\ relays' \in {relays \ {r}, (relays \ {r}) \cup {q}}
    BY <1>1
  <2>2. \A y \in View(t)'.hands :
                 \/ y \in View(t).hands /\ y.by # <<"relay", r>>
                 \/ /\ q \in relays' /\ q.session = t /\ q.at = "persist"
                    /\ y = [by |-> <<"relay", q>>, msg |-> q.msg]
    BY <2>1, OneRelay
  <2>3. /\ \A e \in View(t)'.restores : e \in View(t).restores
        /\ \A e \in View(t)'.compacts : e \in View(t).compacts
        /\ \A e \in View(t)'.summaries : e \in View(t).summaries
    BY <2>1, OneRelay
  <2>4. View(t)'.memory = View(t).memory /\ View(t)'.next = View(t).next
    BY <1>1, SameMemory
  <2>5. View(t)'.rows = View(t).rows
    BY <1>1, ViewFields, ViewFieldsNext
  <2>6. View(t)'.hands \subseteq View(t).hands
    BY <1>3, <2>2
  <2>7. Keeps(View(t), View(t)')
    BY <2>3, <2>4, <2>5, <2>6 DEF Keeps
  <2> QED
    BY <1>4, <2>7 DEF Changes
<1> QED
  BY <1>4, <1>5 DEF Proper

\* The server crashes: all memory is lost, the tables stay.
LEMMA Crashed ==
    ASSUME Structure, Remember, Crash
    PROVE  Proper
<1>1. /\ losses' = losses + 1 /\ conv' = [s \in Session |-> NewConversation] /\ active' = {}
      /\ bound' = [c \in Client |-> None] /\ req' = [c \in Client |-> Idle] /\ relays' = {}
      /\ turns' = turns /\ stored' = stored /\ todo' = todo /\ made' = made
  BY DEF Crash
<1>2. TypeOK'
  <2>1. conv' \in [Session -> Memory] /\ req' \in [Client -> Request] /\ bound' \in [Client -> Session \cup {None}]
    BY <1>1, Values
  <2>2. losses' \in Nat /\ lost' \in SUBSET Session
    BY <1>1 DEF Remember, Structure, TypeOK
  <2> QED
    BY <1>1, <2>1, <2>2 DEF Structure, TypeOK
<1>3. Requests'
  BY <1>1, Values DEF Requests, CarriesOne
<1>4. Activity'
  BY <1>1, Values DEF Structure, Activity, CarriesOne
<1>5. ASSUME NEW t \in Session
      PROVE  Changes(t)
  <2>1. \A at : "idle" \notin at => AtPlace(at, t)' = {}
    BY <1>1, AtPlaces, Values
  <2>2. /\ AtPlace(CarriesOne, t)' = {} /\ AtPlace({"restore"}, t)' = {}
        /\ AtPlace({"delete", "summarize"}, t)' = {} /\ AtPlace({"summarize"}, t)' = {}
    BY <2>1 DEF CarriesOne
  <2>3. /\ \A x : ~(x \in View(t)'.hands)
        /\ \A x : ~(x \in View(t)'.restores)
        /\ \A x : ~(x \in View(t)'.compacts)
        /\ \A x : ~(x \in View(t)'.summaries)
    BY <1>1, <2>2, ViewFieldsNext
  <2>4. View(t)'.rows = View(t).rows
    BY <1>1, ViewFields, ViewFieldsNext
  <2>5. View(t)'.memory = {} /\ View(t)'.next = 0
    <3>1. Entries(<<>>) = {}
      BY DEF Entries
    <3>2. conv'[t] = NewConversation
      BY <1>1
    <3> QED
      BY <3>1, <3>2, ViewFieldsNext, Values
  <2>6. Keeps(View(t), View(t)')
    BY <2>3, <2>4, <2>5 DEF Keeps
  <2>7. made' \in Nat /\ made <= made'
    BY <1>1 DEF Structure, TypeOK
  <2> QED
    BY <2>6, <2>7 DEF Changes
<1> QED
  BY <1>2, <1>3, <1>4, <1>5 DEF Proper, Structure

\* The tables of every state are such that their listing is in order.
LEMMA RowsAreListed ==
    ASSUME Structure, Numbers, NEW s \in Session
    PROVE  /\ ListTurns(s) \in Seq(turns[s]) /\ ListTurns(s) \in Seq(Message)
           /\ Len(ListTurns(s)) = Cardinality(turns[s]) /\ Cardinality(turns[s]) \in Nat
           /\ DOMAIN ListTurns(s) = 1 .. Cardinality(turns[s])
           /\ \A i \in 1 .. Cardinality(turns[s]) :
                 /\ ListTurns(s)[i] \in turns[s]
                 /\ Cardinality({o \in turns[s] : Before(ListTurns(s)[i], o)}) = Cardinality(turns[s]) - i
<1>1. turns[s] \in SUBSET Message /\ IsFiniteSet(turns[s])
  BY DEF Structure, TypeOK, Activity
<1>2. OneRowPerId(turns[s])
  BY ViewFields DEF Numbers, Numbered
<1>3. /\ ListTurns(s) \in Seq(turns[s])
      /\ Len(ListTurns(s)) = Cardinality(turns[s]) /\ Cardinality(turns[s]) \in Nat
      /\ \A i \in 1 .. Cardinality(turns[s]) :
            Cardinality({o \in turns[s] : Before(ListTurns(s)[i], o)}) = Cardinality(turns[s]) - i
  BY <1>1, <1>2, TurnsAreListed
<1> DEFINE l == ListTurns(s)
           n == Cardinality(turns[s])
<1> HIDE DEF l, n
<1>4. l \in Seq(turns[s]) /\ Len(l) = n /\ n \in Nat
  BY <1>3 DEF l, n
<1>5. DOMAIN l = 1 .. n /\ \A i \in 1 .. n : l[i] \in turns[s]
  BY <1>4
<1>6. l \in Seq(Message)
  BY <1>1, <1>4
<1> QED
  BY <1>3, <1>5, <1>6 DEF l, n

\* A request lists rows of a session, to restore or to compact them.
LEMMA RequestLists ==
    ASSUME Structure, Remember, NEW c \in Client, NEW s \in stored, NEW at \in {"restore", "delete"},
           NEW list \in Seq(Message), Goto(c, at, s, list), at = "delete" => Len(list) >= 1,
           \A e \in Entries(list) :
              /\ e \in turns[s]
              /\ at = "delete" => Cardinality({o \in turns[s] : Before(e, o)}) >= KeepFloor,
           conv' = conv, active' = active, turns' = turns, stored' = stored, bound' = bound,
           relays' = relays, todo' = todo, made' = made, losses' = losses
    PROVE  Proper
<1>1. at \in Places /\ s \in Session
  BY DEF Places, Structure, TypeOK
<1>2. /\ req' \in [Client -> Request] /\ req'[c].at = at /\ req'[c].session = s /\ req'[c].list = list
      /\ \A d \in Client : d # c => req'[d] = req[d]
  BY <1>1, Moves
<1>3. Grows
  BY DEF Grows, Structure, TypeOK, Activity
<1>4. Served(c)
  BY <1>2 DEF Served, CarriesOne
<1>5. /\ Requests'
      /\ \A d \in Client : req'[d].at \in CarriesOne \cup {"match"} => req'[d].session \in active'
  BY <1>3, <1>4, RequestsKept
<1>6. /\ turns' \in [Session -> SUBSET Message] /\ relays' \in SUBSET Relay /\ made' \in Nat
      /\ \A t \in Session : IsFiniteSet(turns'[t])
      /\ \A r \in relays' : r.session \in active'
      /\ losses' \in Nat /\ todo' \in [Client -> SUBSET Nat] /\ conv' \in [Session -> Memory]
      /\ bound' \in [Client -> Session \cup {None}]
  BY DEF Structure, TypeOK, Activity
<1>7. Structure'
  BY <1>2, <1>3, <1>5, <1>6, StructureKept
<1>8. ASSUME NEW t \in Session
      PROVE  Lists(View(t), View(t)')
  <2>1. ~(c \in AtPlace(CarriesOne, t)') /\ ~(c \in AtPlace({"summarize"}, t)')
        /\ (c \in AtPlace({"restore"}, t)' => t = s)
        /\ (c \in AtPlace({"delete", "summarize"}, t)' => t = s /\ at = "delete")
    BY <1>2, AtPlaces DEF CarriesOne
  <2>2. View(t)'.hands \subseteq View(t).hands /\ View(t)'.summaries \subseteq View(t).summaries
    BY <1>2, <2>1, OneRequest
  <2>3. /\ \A e \in View(t)'.restores : e \in View(t).restores \/ (t = s /\ e \in Entries(list))
        /\ \A e \in View(t)'.compacts : e \in View(t).compacts \/ (t = s /\ at = "delete" /\ e \in Entries(list))
    BY <1>2, <2>1, OneRequest
  <2>4. View(t)'.memory = View(t).memory /\ View(t)'.next = View(t).next
    BY SameMemory
  <2>5. View(t)'.rows = View(t).rows /\ View(t).rows = turns[t]
    BY ViewFields, ViewFieldsNext
  <2>6. View(t)'.restores \subseteq View(t).restores \cup View(t).rows
    BY <2>3, <2>5
  <2>7. View(t)'.compacts \subseteq View(t).compacts
           \cup {e \in View(t).rows : Cardinality({o \in View(t).rows : Before(e, o)}) >= KeepFloor}
    BY <2>3, <2>5
  <2> QED
    BY <2>2, <2>4, <2>5, <2>6, <2>7 DEF Lists
<1> QED
  BY <1>7, <1>8 DEF Proper, Changes

\* session.resume lists the turns.
LEMMA ListedResume ==
    ASSUME Structure, Numbers, Remember, NEW c \in Client, NEW s \in Session, ResumeListed(c, s)
    PROVE  Proper
<1> DEFINE l == ListTurns(s)
<1>1. /\ s \in stored /\ Goto(c, "restore", s, l)
      /\ conv' = conv /\ active' = active /\ turns' = turns /\ stored' = stored /\ bound' = bound
      /\ relays' = relays /\ todo' = todo /\ made' = made /\ losses' = losses
  BY DEF ResumeListed
<1>2. l \in Seq(Message) /\ \A e \in Entries(l) : e \in turns[s]
  BY RowsAreListed DEF Entries
<1> HIDE DEF l
<1>3. "restore" \in {"restore", "delete"} /\ "restore" # "delete"
  OBVIOUS
<1> QED
  BY <1>1, <1>2, <1>3, RequestLists

\* compact.apply lists the turns before the last KeepFloor.
LEMMA ListedCompaction ==
    ASSUME Structure, Numbers, Remember, NEW c \in Client, CompactListed(c)
    PROVE  Proper
<1>1. PICK s \in stored : Cardinality(turns[s]) > KeepFloor /\ Goto(c, "delete", s, Older(ListTurns(s)))
  BY DEF CompactListed
<1>2. /\ conv' = conv /\ active' = active /\ turns' = turns /\ stored' = stored /\ bound' = bound
      /\ relays' = relays /\ todo' = todo /\ made' = made /\ losses' = losses
  BY DEF CompactListed
<1>3. s \in Session
  BY DEF Structure, TypeOK
<1> DEFINE l == ListTurns(s)
           n == Cardinality(turns[s])
           o == Older(l)
<1>4. /\ l \in Seq(turns[s]) /\ l \in Seq(Message) /\ Len(l) = n /\ n \in Nat
      /\ \A i \in 1 .. n :
            /\ l[i] \in turns[s]
            /\ Cardinality({m \in turns[s] : Before(l[i], m)}) = n - i
  BY <1>3, RowsAreListed
<1> HIDE DEF l, n
<1>5. n > KeepFloor /\ KeepFloor \in Nat
  BY <1>1, ConversationAssumption DEF n
<1>6. /\ o \in Seq(Message) /\ Len(o) = n - KeepFloor
      /\ \A i \in 1 .. n - KeepFloor : o[i] = l[i]
  <2>1. o = SubSeq(l, 1, n - KeepFloor) /\ 1 \in Nat /\ n - KeepFloor \in 1 .. n
    BY <1>4, <1>5 DEF Older
  <2> HIDE DEF o
  <2>2. o \in Seq(Message) /\ Len(o) = n - KeepFloor /\ \A i \in 1 .. n - KeepFloor : o[i] = l[i]
    BY <1>4, <1>5, <2>1
  <2> QED
    BY <2>2
<1> HIDE DEF o
<1>7. ASSUME NEW e \in Entries(o)
      PROVE  e \in turns[s] /\ Cardinality({m \in turns[s] : Before(e, m)}) >= KeepFloor
  <2>1. PICK i \in 1 .. n - KeepFloor : e = o[i]
    BY <1>6 DEF Entries
  <2>2. i \in 1 .. n /\ e = l[i]
    BY <1>4, <1>5, <1>6, <2>1
  <2>3. e \in turns[s] /\ Cardinality({m \in turns[s] : Before(e, m)}) = n - i
    BY <1>4, <2>2
  <2>4. n - i >= KeepFloor
    BY <1>4, <1>5, <2>1
  <2> QED
    BY <2>3, <2>4
<1>8. Goto(c, "delete", s, o) /\ Len(o) >= 1
  BY <1>1, <1>4, <1>5, <1>6 DEF o, l
<1>9. "delete" \in {"restore", "delete"}
  OBVIOUS
<1> QED
  BY <1>2, <1>6, <1>7, <1>8, <1>9, RequestLists

\* session.resume replaces the conversation with what it listed.
LEMMA RestoredResume ==
    ASSUME Structure, Numbers, Remember, NEW c \in Client, ResumeRestored(c)
    PROVE  Proper
<1> DEFINE s == req[c].session
           l == req[c].list
           cv == RestoreFromTurns(conv[s], l)
<1>1. /\ req[c].at = "restore" /\ Reply(c)
      /\ active' = active \cup {s} /\ bound' = [bound EXCEPT ![c] = s]
      /\ conv' = [conv EXCEPT ![s] = RestoreFromTurns(@, l)]
      /\ turns' = turns /\ stored' = stored /\ relays' = relays /\ todo' = todo /\ made' = made
      /\ losses' = losses
  BY DEF ResumeRestored
<1>2. s \in stored /\ s \in Session /\ l \in Seq(Message)
  BY <1>1 DEF Structure, TypeOK, Requests, Request
<1>3. \A e \in Entries(l) : e \in View(s).restores /\ e \in Message /\ e.seq <= made
  <2>1. c \in AtPlace({"restore"}, s)
    BY <1>1, AtPlaces
  <2>2. \A e \in Entries(l) : e \in View(s).restores /\ e \in Message
    BY <1>2, <2>1, ViewFields, ListEntries
  <2>3. \A e \in Message : e \in View(s).restores => e.seq <= made
    BY <1>2 DEF Numbers, Numbered, HeldIn, Listed
  <2> QED
    BY <2>2, <2>3
<1>4. made \in Nat /\ \A i \in DOMAIN l : l[i].seq <= made
  BY <1>3 DEF Entries, Structure, TypeOK
<1> HIDE DEF s, l
<1>5. conv' = [conv EXCEPT ![s] = cv]
  BY <1>1
<1>6. /\ cv.messages = l /\ cv.storageSequence \in Nat /\ cv.storageSequence <= made
      /\ \A i \in DOMAIN l : l[i].seq <= cv.storageSequence
  BY <1>2, <1>4, Restored
<1>7. cv \in Memory
  <2>1. cv.userSequence = UserTurns(l) /\ UserTurns(l) \in Nat
    BY <1>2, <1>4, Restored, UserTurnsCount
  <2>2. cv = [messages |-> cv.messages, userSequence |-> cv.userSequence, storageSequence |-> cv.storageSequence]
    BY DEF RestoreFromTurns
  <2> HIDE DEF cv
  <2> QED
    BY <1>2, <1>6, <2>1, <2>2 DEF Memory
<1> HIDE DEF cv
<1>8. conv' \in [Session -> Memory] /\ conv'[s] = cv /\ \A t \in Session : t # s => conv'[t] = conv[t]
  BY <1>2, <1>5, <1>7 DEF Structure, TypeOK
<1>9. Grows
  BY <1>1, <1>2 DEF Grows, Structure, TypeOK, Activity
<1>10. /\ req'[c] = Idle /\ Served(c)
       /\ \A d \in Client : d # c => req'[d] = req[d]
  BY <1>1, Moves DEF Served
<1>11. /\ req' \in [Client -> Request] /\ Requests'
       /\ \A d \in Client : req'[d].at \in CarriesOne \cup {"match"} => req'[d].session \in active'
  BY <1>9, <1>10, RequestsKept
<1>12. /\ turns' \in [Session -> SUBSET Message] /\ relays' \in SUBSET Relay /\ made' \in Nat
       /\ \A t \in Session : IsFiniteSet(turns'[t])
       /\ \A r \in relays' : r.session \in active'
       /\ losses' \in Nat /\ todo' \in [Client -> SUBSET Nat]
  BY <1>1 DEF Structure, TypeOK, Activity
<1>13. bound' \in [Client -> Session \cup {None}] /\ \A t \in Session : t \notin active' => conv'[t] = conv[t]
  BY <1>1, <1>2, <1>8 DEF Structure, TypeOK
<1>14. Structure'
  BY <1>1, <1>8, <1>9, <1>11, <1>12, <1>13, StructureKept
<1>15. ASSUME NEW t \in Session
       PROVE  Changes(t)
  <2>1. \A at : c \in AtPlace(at, t)' => "idle" \in at
    BY <1>10, AtPlaces, Values
  <2>2. ~(c \in AtPlace(CarriesOne, t)') /\ ~(c \in AtPlace({"restore"}, t)')
        /\ ~(c \in AtPlace({"delete", "summarize"}, t)') /\ ~(c \in AtPlace({"summarize"}, t)')
    BY <2>1 DEF CarriesOne
  <2>3. /\ View(t)'.hands \subseteq View(t).hands
        /\ View(t)'.restores \subseteq View(t).restores
        /\ View(t)'.compacts \subseteq View(t).compacts
        /\ View(t)'.summaries \subseteq View(t).summaries
    BY <1>1, <1>10, <2>2, OneRequest
  <2>4. View(t)'.rows = View(t).rows
    BY <1>1, ViewFields, ViewFieldsNext
  <2>5. CASE t = s
    <3>1. View(t)'.memory = Entries(l) /\ View(t)'.next = cv.storageSequence
      BY <1>6, <1>8, <2>5, ViewFieldsNext
    <3>2. \A e \in Entries(l) : e.seq <= cv.storageSequence
      BY <1>6 DEF Entries
    <3>3. View(t)'.memory \subseteq View(t).restores
      BY <1>3, <2>5, <3>1 DEF l, s
    <3>4. Restores(View(t), View(t)', made)
      BY <1>6, <2>3, <2>4, <3>1, <3>2, <3>3 DEF Restores
    <3> QED
      BY <1>1, <3>4 DEF Changes
  <2>6. CASE t # s
    <3>1. View(t)'.memory = View(t).memory /\ View(t)'.next = View(t).next
      BY <1>8, <2>6, ViewFields, ViewFieldsNext
    <3>2. Keeps(View(t), View(t)')
      BY <2>3, <2>4, <3>1 DEF Keeps
    <3>3. made' \in Nat /\ made <= made'
      BY <1>1, <1>4
    <3> QED
      BY <3>2, <3>3 DEF Changes
  <2> QED
    BY <2>5, <2>6
<1> QED
  BY <1>14, <1>15 DEF Proper

\* Nothing is held for a session without a row.
LEMMA UnstoredIsEmpty ==
    ASSUME Structure, NEW s \in Session, s \notin stored
    PROVE  /\ View(s).hands = {} /\ View(s).restores = {} /\ View(s).compacts = {}
           /\ View(s).memory = {} /\ View(s).next = 0 /\ turns[s] = {}
<1>1. ASSUME NEW at, "idle" \notin at
      PROVE  AtPlace(at, s) = {}
  BY <1>1, AtPlaces DEF Structure, Requests
<1>2. AtPlace(CarriesOne, s) = {} /\ AtPlace({"restore"}, s) = {} /\ AtPlace({"delete", "summarize"}, s) = {}
  BY <1>1 DEF CarriesOne
<1>3. s \notin active /\ \A r \in relays : r.session # s
  BY DEF Structure, Activity
<1>4. View(s).hands = {} /\ View(s).restores = {} /\ View(s).compacts = {}
  BY <1>2, <1>3, ViewFields
<1>5. View(s).memory = {} /\ View(s).next = 0
  <2>1. Entries(<<>>) = {}
    BY DEF Entries
  <2>2. conv[s] = NewConversation
    BY <1>3 DEF Structure, Activity
  <2> QED
    BY <2>1, <2>2, ViewFields, Values
<1> QED
  BY <1>4, <1>5 DEF Structure, Activity

\* session.fork copies the first turns of a session to one that has none.
LEMMA Forked ==
    ASSUME Structure, Numbers, Remember, NEW c \in Client, SessionFork(c)
    PROVE  Proper
<1>1. PICK src \in stored, s \in Session \ stored : \E k \in 0 .. Cardinality(turns[src]) :
        /\ stored' = stored \cup {s}
        /\ turns' = [turns EXCEPT ![s] = ToSet(SubSeq(ListTurns(src), 1, k))]
  BY DEF SessionFork
<1>2. PICK k \in 0 .. Cardinality(turns[src]) :
        /\ stored' = stored \cup {s}
        /\ turns' = [turns EXCEPT ![s] = ToSet(SubSeq(ListTurns(src), 1, k))]
  BY <1>1
<1>3. /\ conv' = conv /\ active' = active /\ bound' = bound /\ req' = req /\ req[c] = Idle
      /\ relays' = relays /\ todo' = todo /\ made' = made /\ losses' = losses
  BY DEF SessionFork, Receive
<1> DEFINE new == ToSet(SubSeq(ListTurns(src), 1, k))
<1>4. src \in Session
  BY DEF Structure, TypeOK
<1>5. new \subseteq turns[src]
  <2> DEFINE l == ListTurns(src)
             n == Cardinality(turns[src])
             z == SubSeq(l, 1, k)
  <2>1. l \in Seq(turns[src]) /\ Len(l) = n /\ n \in Nat
    BY <1>4, RowsAreListed
  <2> HIDE DEF l, n
  <2>2. k \in Nat /\ k <= Len(l)
    BY <2>1 DEF n
  <2>3. \A i \in DOMAIN z : z[i] \in turns[src]
    BY <2>1, <2>2
  <2> HIDE DEF z
  <2>4. ToSet(z) \subseteq turns[src]
    BY <2>3 DEF ToSet
  <2> QED
    BY <2>4 DEF z, l
<1> HIDE DEF new
<1>6. new \in SUBSET Message /\ IsFiniteSet(new)
  <2>1. turns[src] \in SUBSET Message /\ IsFiniteSet(turns[src])
    BY <1>4 DEF Structure, TypeOK, Activity
  <2> QED
    BY <1>5, <2>1, FS_Subset
<1>7. turns' = [turns EXCEPT ![s] = new]
  BY <1>2 DEF new
<1>8. turns' \in [Session -> SUBSET Message] /\ turns'[s] = new /\ \A t \in Session : t # s => turns'[t] = turns[t]
  BY <1>6, <1>7 DEF Structure, TypeOK
<1>9. Grows
  BY <1>2, <1>3 DEF Grows, Structure, TypeOK, Activity
<1>10. Served(c)
  BY <1>3 DEF Served, Structure, TypeOK
<1>11. /\ req' \in [Client -> Request] /\ Requests'
       /\ \A d \in Client : req'[d].at \in CarriesOne \cup {"match"} => req'[d].session \in active'
  BY <1>9, <1>10, RequestsKept
<1>12. /\ relays' \in SUBSET Relay /\ made' \in Nat /\ conv' \in [Session -> Memory]
       /\ \A r \in relays' : r.session \in active'
       /\ losses' \in Nat /\ todo' \in [Client -> SUBSET Nat] /\ bound' \in [Client -> Session \cup {None}]
  BY <1>3 DEF Structure, TypeOK, Activity
<1>13. \A t \in Session : IsFiniteSet(turns'[t]) /\ (t \notin stored' => turns'[t] = turns[t])
  BY <1>2, <1>6, <1>8 DEF Structure, Activity
<1>14. Structure'
  BY <1>3, <1>8, <1>9, <1>11, <1>12, <1>13, StructureKept
<1>15. ASSUME NEW t \in Session
       PROVE  Changes(t)
  <2>1. \A at : AtPlace(at, t)' = AtPlace(at, t)
    BY <1>3 DEF AtPlace
  <2>2. /\ \A x \in View(t)'.hands : x \in View(t).hands
        /\ \A x \in View(t)'.restores : x \in View(t).restores
        /\ \A x \in View(t)'.compacts : x \in View(t).compacts
        /\ \A x \in View(t)'.summaries : x \in View(t).summaries
    <3>1. \A x \in View(t)'.hands : x \in View(t).hands
      BY <1>3, <2>1, ViewFields, ViewFieldsNext
    <3>2. \A x \in View(t)'.restores : x \in View(t).restores
      BY <1>3, <2>1, ViewFields, ViewFieldsNext
    <3>3. \A x \in View(t)'.compacts : x \in View(t).compacts
      BY <1>3, <2>1, ViewFields, ViewFieldsNext
    <3>4. \A x \in View(t)'.summaries : x \in View(t).summaries
      BY <1>3, <2>1, ViewFields, ViewFieldsNext
    <3> QED
      BY <3>1, <3>2, <3>3, <3>4
  <2>3. View(t)'.memory = View(t).memory /\ View(t)'.next = View(t).next
    BY <1>3, SameMemory
  <2>4. View(t)'.rows = turns'[t] /\ View(t).rows = turns[t] /\ View(src).rows = turns[src]
    BY ViewFields, ViewFieldsNext
  <2>5. CASE t = s
    <3>1. /\ View(t).hands = {} /\ View(t).restores = {} /\ View(t).compacts = {}
          /\ View(t).memory = {} /\ View(t).next = 0
      BY <2>5, UnstoredIsEmpty
    <3>2. View(t)'.rows \subseteq View(src).rows
      BY <1>5, <1>8, <2>4, <2>5
    <3>3. Copies(View(src), View(t)')
      BY <2>2, <2>3, <3>1, <3>2 DEF Copies
    <3>4. t \notin active'
      BY <1>3, <2>5 DEF Structure, Activity
    <3> QED
      BY <1>3, <1>4, <3>3, <3>4 DEF Changes
  <2>6. CASE t # s
    <3>1. Keeps(View(t), View(t)')
      BY <1>8, <2>2, <2>3, <2>4, <2>6 DEF Keeps
    <3>2. made' \in Nat /\ made <= made'
      BY <1>3 DEF Structure, TypeOK
    <3> QED
      BY <3>1, <3>2 DEF Changes
  <2> QED
    BY <2>5, <2>6
<1> QED
  BY <1>14, <1>15 DEF Proper

\* Rows that were listed are deleted; the compaction is over or goes on.
LEMMA DeletedRows ==
    ASSUME Structure, Remember, NEW c \in Client, CompactDeleted(c)
    PROVE  /\ Proper
           /\ \A t \in Session : made' = made /\ \E L : Deletes(View(t), View(t)', L)
<1> DEFINE s == req[c].session
           l == req[c].list
<1>1. /\ req[c].at = "delete"
      /\ conv' = conv /\ active' = active /\ stored' = stored /\ bound' = bound /\ relays' = relays
      /\ todo' = todo /\ made' = made /\ losses' = losses
  BY DEF CompactDeleted
<1>2. PICK k \in 0 .. Len(l) :
        /\ turns' = [turns EXCEPT ![s] = {m \in @ : m.id \notin {l[i].id : i \in 1 .. k}}]
        /\ \/ Reply(c)
           \/ k = Len(l) /\ Goto(c, "summarize", s, l)
  BY DEF CompactDeleted
<1>3. s \in stored /\ s \in Session /\ l \in Seq(Message)
  BY <1>1 DEF Structure, TypeOK, Requests, Request
<1>4. Len(l) >= 1 /\ Len(l) \in Nat
  BY <1>1, <1>3 DEF Structure, Requests
<1>5. \A e \in Entries(l) : e \in View(s).compacts
  <2>1. c \in AtPlace({"delete", "summarize"}, s)
    BY <1>1, AtPlaces
  <2> QED
    BY <2>1, ViewFields
<1> HIDE DEF s, l
<1> DEFINE L == {l[i] : i \in 1 .. k}
           rows == {m \in turns[s] : \A e \in L : m.id # e.id}
<1>6. L \subseteq Entries(l)
  <2>1. \A i \in 1 .. k : i \in DOMAIN l
    BY <1>3, <1>4
  <2> QED
    BY <2>1 DEF Entries
<1>7. {m \in turns[s] : m.id \notin {l[i].id : i \in 1 .. k}} = rows
  OBVIOUS
<1>8. turns' = [turns EXCEPT ![s] = rows]
  <2>1. turns' = [turns EXCEPT ![s] = {m \in turns[s] : m.id \notin {l[i].id : i \in 1 .. k}}]
    BY <1>2
  <2> QED
    BY <1>7, <2>1
<1>9. rows \subseteq turns[s] /\ turns[s] \in SUBSET Message /\ IsFiniteSet(turns[s])
  BY <1>3 DEF Structure, TypeOK, Activity
<1> HIDE DEF rows
<1>10. IsFiniteSet(rows)
  BY <1>9, FS_Subset
<1>11. /\ turns' \in [Session -> SUBSET Message] /\ turns'[s] = rows
       /\ \A t \in Session : t # s => turns'[t] = turns[t]
  BY <1>3, <1>8, <1>9 DEF Structure, TypeOK
<1>12. /\ req' \in [Client -> Request] /\ \A d \in Client : d # c => req'[d] = req[d]
       /\ \/ req'[c] = Idle
          \/ k = Len(l) /\ req'[c].at = "summarize" /\ req'[c].session = s /\ req'[c].list = l
  <2>1. "summarize" \in Places
    BY DEF Places
  <2>2. CASE Reply(c)
    BY <2>2, Moves
  <2>3. CASE k = Len(l) /\ Goto(c, "summarize", s, l)
    BY <1>3, <2>1, <2>3, Moves
  <2> QED
    BY <1>2, <2>2, <2>3
<1>13. Served(c)
  BY <1>1, <1>3, <1>4, <1>12 DEF Served, CarriesOne
<1>14. Grows
  BY <1>1 DEF Grows, Structure, TypeOK, Activity
<1>15. /\ Requests'
       /\ \A d \in Client : req'[d].at \in CarriesOne \cup {"match"} => req'[d].session \in active'
  BY <1>13, <1>14, RequestsKept
<1>16. /\ relays' \in SUBSET Relay /\ made' \in Nat /\ conv' \in [Session -> Memory]
       /\ \A r \in relays' : r.session \in active'
       /\ losses' \in Nat /\ todo' \in [Client -> SUBSET Nat] /\ bound' \in [Client -> Session \cup {None}]
  BY <1>1 DEF Structure, TypeOK, Activity
<1>17. \A t \in Session : IsFiniteSet(turns'[t]) /\ (t \notin stored' => turns'[t] = turns[t])
  BY <1>1, <1>3, <1>10, <1>11 DEF Structure, Activity
<1>18. Structure'
  BY <1>1, <1>11, <1>12, <1>14, <1>15, <1>16, <1>17, StructureKept
<1>19. ASSUME NEW t \in Session
       PROVE  \E D : Deletes(View(t), View(t)', D)
  <2>1. ~(c \in AtPlace(CarriesOne, t)') /\ ~(c \in AtPlace({"restore"}, t)')
        /\ (c \in AtPlace({"delete", "summarize"}, t)' \/ c \in AtPlace({"summarize"}, t)'
               => t = s /\ k = Len(l) /\ req'[c].list = l)
    BY <1>12, AtPlaces, Values DEF CarriesOne
  <2>2. /\ View(t)'.hands \subseteq View(t).hands
        /\ View(t)'.restores \subseteq View(t).restores
        /\ \A e \in View(t)'.compacts : e \in View(t).compacts \/ (t = s /\ e \in Entries(l))
        /\ \A e \in View(t)'.summaries : e \in View(t).summaries \/ (t = s /\ k = Len(l) /\ e = l[1])
    BY <1>1, <1>12, <2>1, OneRequest
  <2>3. View(t)'.compacts \subseteq View(t).compacts
    BY <1>5, <2>2
  <2>4. View(t)'.memory = View(t).memory /\ View(t)'.next = View(t).next
    BY <1>1, SameMemory
  <2>5. View(t)'.rows = turns'[t] /\ View(t).rows = turns[t]
    BY ViewFields, ViewFieldsNext
  <2>6. CASE t = s
    <3>1. L \subseteq View(t).compacts
      BY <1>5, <1>6, <2>6
    <3>2. View(t)'.rows = {m \in View(t).rows : \A e \in L : m.id # e.id}
      BY <1>11, <2>5, <2>6 DEF rows
    <3>3. k = Len(l) => l[1] \in L
      BY <1>4
    <3> HIDE DEF L
    <3>4. View(t)'.summaries \subseteq View(t).summaries \cup L
      BY <2>2, <3>3
    <3>5. Deletes(View(t), View(t)', L)
      BY <2>2, <2>3, <2>4, <3>1, <3>2, <3>4 DEF Deletes
    <3> QED
      BY <3>5
  <2>7. CASE t # s
    <3>1. View(t)'.rows = {m \in View(t).rows : \A e \in {} : m.id # e.id}
      BY <1>11, <2>5, <2>7
    <3>2. View(t)'.summaries \subseteq View(t).summaries \cup {}
      BY <2>2, <2>7
    <3>3. Deletes(View(t), View(t)', {})
      BY <2>2, <2>3, <2>4, <3>1, <3>2 DEF Deletes
    <3> QED
      BY <3>3
  <2> QED
    BY <2>6, <2>7
<1> QED
  BY <1>1, <1>18, <1>19 DEF Proper, Changes

\* The summary of the listed turns is stored.
LEMMA InsertedSummary ==
    ASSUME Structure, Remember, NEW c \in Client, CompactInserted(c)
    PROVE  Proper
<1> DEFINE s == req[c].session
           l == req[c].list
           m == Summary(l)
<1>1. /\ req[c].at = "summarize" /\ Reply(c)
      /\ \A o \in turns[s] : o.role = "summary" => o.seq # m.seq
      /\ turns' = [turns EXCEPT ![s] = @ \cup {m}]
      /\ conv' = conv /\ active' = active /\ stored' = stored /\ bound' = bound /\ relays' = relays
      /\ todo' = todo /\ made' = made /\ losses' = losses
  BY DEF CompactInserted
<1>2. s \in stored /\ s \in Session /\ l \in Seq(Message)
  BY <1>1 DEF Structure, TypeOK, Requests, Request
<1>3. Len(l) >= 1
  BY <1>1 DEF Structure, Requests
<1>4. l[1] \in Message
  BY <1>2, <1>3, ListEntries
<1>5. m \in Message /\ m.id = l[1].id /\ m.seq = l[1].seq /\ m.role = "summary"
  <2> DEFINE e == l[1]
  <2>1. m = [[[e EXCEPT !.role = "summary"] EXCEPT !.call = 0] EXCEPT !.answers = 0]
    BY DEF Summary
  <2>2. e \in Message
    BY <1>4
  <2> HIDE DEF e
  <2>3. m = [id |-> e.id, seq |-> e.seq, role |-> "summary", call |-> 0, answers |-> 0]
    BY <2>1, <2>2 DEF Message
  <2> HIDE DEF m
  <2> QED
    BY <2>2, <2>3 DEF Message, Roles, e
<1>6. l[1] \in View(s).summaries
  <2>1. c \in AtPlace({"summarize"}, s)
    BY <1>1, AtPlaces
  <2> QED
    BY <2>1, ViewFields
<1> HIDE DEF s, l, m
<1>7. /\ turns' \in [Session -> SUBSET Message]
      /\ \A t \in Session : IsFiniteSet(turns'[t])
      /\ turns'[s] = turns[s] \cup {m}
      /\ \A t \in Session : t # s => turns'[t] = turns[t]
  BY <1>1, <1>2, <1>5, RowAdded
<1>8. Grows
  BY <1>1 DEF Grows, Structure, TypeOK, Activity
<1>9. /\ req'[c] = Idle /\ Served(c)
      /\ \A d \in Client : d # c => req'[d] = req[d]
  BY <1>1, Moves DEF Served
<1>10. /\ req' \in [Client -> Request] /\ Requests'
       /\ \A d \in Client : req'[d].at \in CarriesOne \cup {"match"} => req'[d].session \in active'
  BY <1>8, <1>9, RequestsKept
<1>11. /\ relays' \in SUBSET Relay /\ made' \in Nat /\ conv' \in [Session -> Memory]
       /\ \A r \in relays' : r.session \in active'
       /\ losses' \in Nat /\ todo' \in [Client -> SUBSET Nat] /\ bound' \in [Client -> Session \cup {None}]
  BY <1>1 DEF Structure, TypeOK, Activity
<1>12. \A t \in Session : t \notin stored' => turns'[t] = turns[t]
  BY <1>1, <1>2, <1>7
<1>13. Structure'
  BY <1>1, <1>7, <1>8, <1>10, <1>11, <1>12, StructureKept
<1>14. ASSUME NEW t \in Session
       PROVE  Changes(t)
  <2>1. \A at : c \in AtPlace(at, t)' => "idle" \in at
    BY <1>9, AtPlaces, Values
  <2>2. ~(c \in AtPlace(CarriesOne, t)') /\ ~(c \in AtPlace({"restore"}, t)')
        /\ ~(c \in AtPlace({"delete", "summarize"}, t)') /\ ~(c \in AtPlace({"summarize"}, t)')
    BY <2>1 DEF CarriesOne
  <2>3. /\ View(t)'.hands \subseteq View(t).hands
        /\ View(t)'.restores \subseteq View(t).restores
        /\ View(t)'.compacts \subseteq View(t).compacts
        /\ View(t)'.summaries \subseteq View(t).summaries
    BY <1>1, <1>9, <2>2, OneRequest
  <2>4. View(t)'.memory = View(t).memory /\ View(t)'.next = View(t).next
    BY <1>1, SameMemory
  <2>5. View(t)'.rows = turns'[t] /\ View(t).rows = turns[t]
    BY ViewFields, ViewFieldsNext
  <2>6. CASE t = s
    <3> DEFINE e == l[1]
    <3>1. e \in View(t).summaries /\ m.id = e.id /\ m.seq = e.seq
      BY <1>5, <1>6, <2>6
    <3>2. View(t)'.rows = View(t).rows \cup {m} /\ \A o \in View(t).rows : o.role = "summary" => o.seq # m.seq
      BY <1>1, <1>7, <2>5, <2>6 DEF s, m, l
    <3> HIDE DEF e
    <3>3. Replaces(View(t), View(t)', e, m)
      BY <1>5, <2>3, <2>4, <3>1, <3>2 DEF Replaces
    <3> QED
      BY <1>1, <3>3 DEF Changes
  <2>7. CASE t # s
    <3>1. Keeps(View(t), View(t)')
      BY <1>7, <2>3, <2>4, <2>5, <2>7 DEF Keeps
    <3>2. made' \in Nat /\ made <= made'
      BY <1>1 DEF Structure, TypeOK
    <3> QED
      BY <3>1, <3>2 DEF Changes
  <2> QED
    BY <2>6, <2>7
<1> QED
  BY <1>13, <1>14 DEF Proper

-----------------------------------------------------------------------------
(* The theorems *)

\* Every step keeps the structure and changes the views properly.
LEMMA StepIsProper ==
    ASSUME Structure, Numbers, Next
    PROVE  Proper
<1>1. Remember
  BY DEF Next
<1>2. CASE ClientStep
  <2>1. PICK c \in Client :
        \/ \E s \in Session, n \in 1 .. MaxMessages : SubmitAppended(c, s, n) \/ SubmitRefused(c, s, n)
        \/ \E s \in Session : SessionCreate(c, s) \/ ResumeListed(c, s)
        \/ ToolResultMatched(c) \/ ToolResultRefused(c)
        \/ SessionClear(c) \/ SessionFork(c) \/ CompactListed(c)
    BY <1>2 DEF ClientStep
  <2>2. ASSUME NEW s \in Session, NEW n, SubmitAppended(c, s, n) \/ SubmitRefused(c, s, n)
        PROVE  Proper
    BY <1>1, <2>2, AppendedSubmit, RefusedSubmit
  <2>3. ASSUME NEW s \in Session, SessionCreate(c, s) \/ ResumeListed(c, s)
        PROVE  Proper
    BY <1>1, <2>3, CreatedSession, ListedResume
  <2>4. ToolResultMatched(c) \/ ToolResultRefused(c) => Proper
    BY <1>1, MatchedResult, RefusedResult
  <2>5. SessionClear(c) \/ SessionFork(c) \/ CompactListed(c) => Proper
    BY <1>1, Cleared, Forked, ListedCompaction
  <2> QED
    BY <2>1, <2>2, <2>3, <2>4, <2>5
<1>3. CASE ServerStep
  <2>1. ASSUME NEW c \in Client,
               \/ ToolResultAppended(c) \/ ToolResultPersisted(c)
               \/ CompactDeleted(c) \/ CompactInserted(c)
        PROVE  Proper
    BY <1>1, <2>1, AppendedResult, PersistedResult, DeletedRows, InsertedSummary
  <2>2. ASSUME NEW r \in relays, RelayToolCall(r) \/ RelayAppended(r) \/ RelayPersisted(r)
        PROVE  Proper
    BY <1>1, <2>2, CalledRelay, AppendedRelay, PersistedRelay
  <2>3. Crash => Proper
    BY <1>1, Crashed
  <2> QED
    BY <1>3, <2>1, <2>2, <2>3 DEF ServerStep
<1>4. CASE \E c \in Client : Answer(c) \/ Reconnect(c)
  <2>1. PICK c \in Client : Answer(c) \/ Reconnect(c)
    BY <1>4
  <2> QED
    BY <1>1, <2>1, CreatedSubmit, RestoredResume, Failed, Reconnected DEF Answer
<1> QED
  BY <1>2, <1>3, <1>4 DEF Next

ConversationInv == Structure /\ Numbers /\ InOrder

\* The first state has the invariant.
LEMMA ConversationInit == Init => ConversationInv
<1> SUFFICES ASSUME Init PROVE ConversationInv
  OBVIOUS
<1>1. TypeOK
  BY Values DEF Init, TypeOK
<1>2. Requests
  BY Values DEF Init, Requests, CarriesOne
<1>3. Activity
  BY FS_EmptySet, Values DEF Init, Activity, CarriesOne
<1>4. ASSUME NEW t \in Session
      PROVE  Numbered(made, View(t)) /\ Ordered(View(t)) /\ t \notin active
  <2>1. t \notin stored /\ t \notin active /\ made = 0
    BY DEF Init
  <2>2. /\ View(t).hands = {} /\ View(t).restores = {} /\ View(t).compacts = {}
        /\ View(t).memory = {} /\ View(t).next = 0 /\ View(t).rows = {}
    BY <1>1, <1>2, <1>3, <2>1, UnstoredIsEmpty, ViewFields DEF Structure
  <2>3. View(t).summaries = {}
    BY <1>1, <1>2, <1>3, <2>2, TypedViews DEF Structure, TypedState, Typed
  <2>4. \A m : ~HeldIn(View(t), m)
    BY <2>2 DEF HeldIn, Listed
  <2> QED
    BY <2>1, <2>2, <2>3, <2>4 DEF Numbered, Ordered, OneRowPerId
<1> QED
  BY <1>1, <1>2, <1>3, <1>4 DEF ConversationInv, Structure, Numbers, InOrder

\* Every step keeps it.
LEMMA ConversationStep == ConversationInv /\ [Next]_vars => ConversationInv'
<1> SUFFICES ASSUME ConversationInv, [Next]_vars PROVE ConversationInv'
  OBVIOUS
<1>1. CASE Next
  <2>1. Structure' /\ Remember /\ \A t \in Session : Changes(t)
    BY <1>1, StepIsProper DEF ConversationInv, Proper, Next
  <2>2. ASSUME NEW t \in Session
        PROVE  /\ Numbered(made', View(t)')
               /\ lost' = {} => Ordered(View(t)') /\ (t \in active' => Current(View(t)'))
    BY <2>1, ChangesInvariant DEF ConversationInv
  <2>3. Numbers'
    BY <2>2 DEF Numbers
  <2>4. InOrder'
    BY <2>2 DEF InOrder
  <2> QED
    BY <2>1, <2>3, <2>4 DEF ConversationInv
<1>2. CASE UNCHANGED vars
  <2>1. Structure'
    BY <1>2 DEF vars, ConversationInv, Structure, TypeOK, Requests, Activity
  <2>2. \A t \in Session : View(t)' = View(t)
    BY <1>2 DEF vars, View, AtPlace
  <2>3. Numbers' /\ InOrder'
    BY <1>2, <2>2 DEF vars, ConversationInv, Numbers, InOrder
  <2> QED
    BY <2>1, <2>3 DEF ConversationInv
<1> QED
  BY <1>1, <1>2

\* Whatever the clients submit, clear, resume, fork and compact at once, and whatever is
\* lost: the numbers of messages tell their sequences, at most one row, request or
\* relay has each, and while no memory has missed a turn, sequences are in the order
\* of making and every counter is past all of its session.
THEOREM ConversationInvariance == Spec => []ConversationInv
<1> QED
  BY ConversationInit, ConversationStep, PTL DEF Spec

\* turns.go ListTurns, ORDER BY sequence: the stored turns of a session are in the
\* order they were made, as long as no conversation in memory missed one.
THEOREM TurnsAreInOrder == Spec => []StoredInOrder
<1>1. ConversationInv => StoredInOrder
  <2> SUFFICES ASSUME ConversationInv, lost = {}, NEW s \in Session, NEW a \in turns[s], NEW b \in turns[s],
                      a.id < b.id
               PROVE  a.seq < b.seq
    BY DEF StoredInOrder
  <2>1. Ordered(View(s)) /\ turns[s] \in SUBSET Message
    BY DEF ConversationInv, InOrder, Structure, TypeOK
  <2>2. HeldIn(View(s), a) /\ HeldIn(View(s), b)
    BY ViewFields DEF HeldIn, Listed
  <2> QED
    BY <2>1, <2>2 DEF Ordered
<1> QED
  BY <1>1, ConversationInvariance, PTL

Counted(cv) == cv.userSequence = UserTurns(cv.messages)

\* An empty conversation has no user turns.
LEMMA NewIsCounted == Counted(NewConversation)
<1>1. {i \in DOMAIN <<>> : <<>>[i].role = "user"} = {}
  OBVIOUS
<1>2. UserTurns(<<>>) = 0
  BY <1>1, FS_EmptySet DEF UserTurns
<1> QED
  BY <1>2 DEF Counted, NewConversation

\* A message that joins is counted.
LEMMA JoinsCounted ==
    ASSUME Structure, NEW s \in Session, NEW m \in Message, Joins(s, m), Counted(conv[s])
    PROVE  Counted(conv'[s])
<1>1. conv[s].messages \in Seq(Message)
  BY DEF Structure, TypeOK, Memory
<1>2. UserTurns(Append(conv[s].messages, m)) = UserTurns(conv[s].messages) + (IF m.role = "user" THEN 1 ELSE 0)
  BY <1>1, UserTurnsCount
<1>3. conv'[s].messages = Append(conv[s].messages, m)
      /\ conv'[s].userSequence = conv[s].userSequence + (IF m.role = "user" THEN 1 ELSE 0)
  BY DEF Joins
<1> QED
  BY <1>2, <1>3 DEF Counted

\* A step leaves the conversation of t, resets it, has a message join it, or
\* replaces it with a listing.
Recounts(t) ==
    \/ conv'[t] = conv[t]
    \/ conv'[t] = NewConversation
    \/ \E m \in Message : Joins(t, m)
    \/ \E list \in Seq(Message) : conv'[t] = RestoreFromTurns(conv[t], list)

\* No step changes a conversation otherwise.
LEMMA StepRecounts ==
    ASSUME Structure, Next
    PROVE  \A t \in Session : Recounts(t)
<1>1. ASSUME conv' = conv
      PROVE  \A t \in Session : Recounts(t)
  BY <1>1 DEF Recounts
<1>2. ASSUME NEW s \in Session, NEW m \in Message, Joins(s, m)
      PROVE  \A t \in Session : Recounts(t)
  BY <1>2 DEF Recounts, Joins
<1>3. ASSUME NEW c \in Client, NEW s \in Session, NEW n, SubmitAppended(c, s, n) \/ SubmitRefused(c, s, n)
      PROVE  \A t \in Session : Recounts(t)
  <2>1. CASE SubmitAppended(c, s, n)
    <3> DEFINE m == NewMessage(s, "user", 0, 0)
    <3>1. m \in Message
      BY NewMessages DEF Structure, Roles
    <3>2. Joins(s, m)
      BY <2>1, UserJoins DEF SubmitAppended, Structure
    <3> HIDE DEF m
    <3> QED
      BY <1>2, <3>1, <3>2
  <2>2. CASE SubmitRefused(c, s, n)
    BY <1>1, <2>2 DEF SubmitRefused
  <2> QED
    BY <1>3, <2>1, <2>2
<1>4. ASSUME NEW c \in Client, ToolResultAppended(c)
      PROVE  \A t \in Session : Recounts(t)
  <2> DEFINE s == req[c].session
             m == NewMessage(s, "user", 0, req[c].call)
  <2>1. s \in Session /\ req[c].call \in Nat
    <3>1. s \in active
      BY <1>4 DEF Structure, Activity, ToolResultAppended
    <3> QED
      BY <3>1 DEF Structure, TypeOK, Request
  <2>2. AppendUserTurn(s, req[c].call)
    BY <1>4 DEF ToolResultAppended
  <2> HIDE DEF s
  <2>3. m \in Message /\ Joins(s, m)
    BY <2>1, <2>2, NewMessages, UserJoins DEF Structure, Roles
  <2> HIDE DEF m
  <2> QED
    BY <1>2, <2>1, <2>3
<1>5. ASSUME NEW r \in relays, RelayAppended(r)
      PROVE  \A t \in Session : Recounts(t)
  <2> DEFINE s == r.session
             m == NewMessage(s, "assistant", r.call, 0)
  <2>1. s \in Session /\ r.call \in Nat
    BY DEF Structure, TypeOK, Relay
  <2>2. AppendAssistantTurn(s, r.call)
    BY <1>5 DEF RelayAppended
  <2> HIDE DEF s
  <2>3. m \in Message /\ Joins(s, m)
    BY <2>1, <2>2, NewMessages, AssistantJoins DEF Structure, Roles
  <2> HIDE DEF m
  <2> QED
    BY <1>2, <2>1, <2>3
<1>6. ASSUME NEW c \in Client, SessionClear(c)
      PROVE  \A t \in Session : Recounts(t)
  BY <1>6 DEF SessionClear, Recounts, Structure, TypeOK
<1>7. ASSUME NEW c \in Client, ResumeRestored(c)
      PROVE  \A t \in Session : Recounts(t)
  <2>1. req[c].list \in Seq(Message)
    BY DEF Structure, TypeOK, Request
  <2>2. conv' = [conv EXCEPT ![req[c].session] = RestoreFromTurns(conv[req[c].session], req[c].list)]
    BY <1>7 DEF ResumeRestored
  <2> QED
    BY <2>1, <2>2 DEF Recounts, Structure, TypeOK
<1>8. Crash => \A t \in Session : Recounts(t)
  BY DEF Crash, Recounts
<1>9. ASSUME NEW c \in Client
      PROVE  /\ SubmitCreated(c) \/ Fail(c) \/ Reconnect(c) \/ ToolResultMatched(c) => conv' = conv
             /\ ToolResultRefused(c) \/ SessionFork(c) \/ CompactListed(c) => conv' = conv
             /\ CompactDeleted(c) \/ CompactInserted(c) \/ ToolResultPersisted(c) => conv' = conv
             /\ \A s : SessionCreate(c, s) \/ ResumeListed(c, s) => conv' = conv
  BY DEF SubmitCreated, Fail, Reconnect, ToolResultMatched, ToolResultRefused, SessionFork, CompactListed,
         CompactDeleted, CompactInserted, ToolResultPersisted, SessionCreate, ResumeListed
<1>10. CASE ClientStep
  <2>1. PICK c \in Client :
        \/ \E s \in Session, n \in 1 .. MaxMessages : SubmitAppended(c, s, n) \/ SubmitRefused(c, s, n)
        \/ \E s \in Session : SessionCreate(c, s) \/ ResumeListed(c, s)
        \/ ToolResultMatched(c) \/ ToolResultRefused(c)
        \/ SessionClear(c) \/ SessionFork(c) \/ CompactListed(c)
    BY <1>10 DEF ClientStep
  <2>2. CASE \E s \in Session, n \in 1 .. MaxMessages : SubmitAppended(c, s, n) \/ SubmitRefused(c, s, n)
    BY <1>3, <2>2
  <2>3. CASE SessionClear(c)
    BY <1>6, <2>3
  <2>4. CASE \/ \E s \in Session : SessionCreate(c, s) \/ ResumeListed(c, s)
             \/ ToolResultMatched(c) \/ ToolResultRefused(c)
             \/ SessionFork(c) \/ CompactListed(c)
    <3>1. conv' = conv
      BY <1>9, <2>4
    <3> QED
      BY <1>1, <3>1
  <2> QED
    BY <2>1, <2>2, <2>3, <2>4
<1>11. CASE ServerStep
  <2>1. ASSUME NEW c \in Client,
               \/ ToolResultAppended(c) \/ ToolResultPersisted(c)
               \/ CompactDeleted(c) \/ CompactInserted(c)
        PROVE  \A t \in Session : Recounts(t)
    <3>1. ~ToolResultAppended(c) => conv' = conv
      BY <1>9, <2>1
    <3> QED
      BY <1>1, <1>4, <3>1
  <2>2. ASSUME NEW r \in relays, RelayToolCall(r) \/ RelayAppended(r) \/ RelayPersisted(r)
        PROVE  \A t \in Session : Recounts(t)
    <3>1. ~RelayAppended(r) => conv' = conv
      BY <2>2 DEF RelayToolCall, RelayPersisted
    <3> QED
      BY <1>1, <1>5, <3>1
  <2> QED
    BY <1>8, <1>11, <2>1, <2>2 DEF ServerStep
<1>12. CASE \E c \in Client : Answer(c) \/ Reconnect(c)
  <2>1. PICK c \in Client : Answer(c) \/ Reconnect(c)
    BY <1>12
  <2>2. ~ResumeRestored(c) => conv' = conv
    BY <1>9, <2>1 DEF Answer
  <2> QED
    BY <1>1, <1>7, <2>2
<1> QED
  BY <1>10, <1>11, <1>12 DEF Next

\* conversation.go userSequence: the next wire sequence is always one more than the
\* user messages in memory, through clear, restore and staged tool results.
THEOREM SequenceIsCounted == Spec => []SequenceCountsUserTurns
<1>1. Init => SequenceCountsUserTurns
  BY NewIsCounted DEF Init, SequenceCountsUserTurns, Counted
<1>2. ConversationInv /\ SequenceCountsUserTurns /\ [Next]_vars => SequenceCountsUserTurns'
  <2> SUFFICES ASSUME ConversationInv, SequenceCountsUserTurns, [Next]_vars, NEW t \in Session
               PROVE  Counted(conv'[t])
    BY DEF SequenceCountsUserTurns, Counted
  <2>1. Counted(conv[t])
    BY DEF SequenceCountsUserTurns, Counted
  <2>2. CASE UNCHANGED vars
    BY <2>1, <2>2 DEF vars
  <2>3. CASE Next
    <3>1. Recounts(t)
      BY <2>3, StepRecounts DEF ConversationInv
    <3>2. ASSUME NEW m \in Message, Joins(t, m)
          PROVE  Counted(conv'[t])
      BY <2>1, <3>2, JoinsCounted DEF ConversationInv
    <3>3. ASSUME NEW list \in Seq(Message), conv'[t] = RestoreFromTurns(conv[t], list)
          PROVE  Counted(conv'[t])
      BY <3>3 DEF RestoreFromTurns, Counted
    <3> QED
      BY <2>1, <3>1, <3>2, <3>3, NewIsCounted DEF Recounts
  <2> QED
    BY <2>2, <2>3
<1> QED
  BY <1>1, <1>2, ConversationInvariance, PTL DEF Spec

\* Compaction alone takes rows away.
LEMMA RowsStay ==
    ASSUME Structure, Next, ~(\E c \in Client : CompactDeleted(c)), NEW t \in Session
    PROVE  turns[t] \subseteq turns'[t]
<1>1. turns' = turns => turns[t] \subseteq turns'[t]
  OBVIOUS
<1>2. ASSUME NEW s, NEW m, turns' = [turns EXCEPT ![s] = @ \cup {m}]
      PROVE  turns[t] \subseteq turns'[t]
  BY <1>2 DEF Structure, TypeOK
<1>3. ASSUME NEW c \in Client, SubmitCreated(c) \/ ToolResultPersisted(c) \/ CompactInserted(c)
      PROVE  turns[t] \subseteq turns'[t]
  BY <1>2, <1>3 DEF SubmitCreated, ToolResultPersisted, CompactInserted
<1>4. ASSUME NEW r, RelayPersisted(r)
      PROVE  turns[t] \subseteq turns'[t]
  BY <1>1, <1>2, <1>4 DEF RelayPersisted
<1>5. ASSUME NEW c \in Client, SessionFork(c)
      PROVE  turns[t] \subseteq turns'[t]
  <2>1. PICK s \in Session \ stored : \E rows : turns' = [turns EXCEPT ![s] = rows]
    BY <1>5 DEF SessionFork
  <2>2. turns[s] = {}
    BY DEF Structure, Activity
  <2> QED
    BY <2>1, <2>2 DEF Structure, TypeOK
<1>6. ASSUME NEW c \in Client
      PROVE  /\ Fail(c) \/ Reconnect(c) \/ ToolResultMatched(c) \/ ToolResultRefused(c) => turns' = turns
             /\ ToolResultAppended(c) \/ CompactListed(c) \/ SessionClear(c) => turns' = turns
             /\ ResumeRestored(c) => turns' = turns
             /\ \A s : SessionCreate(c, s) \/ ResumeListed(c, s) => turns' = turns
             /\ \A s, n : SubmitAppended(c, s, n) \/ SubmitRefused(c, s, n) => turns' = turns
  BY DEF Fail, Reconnect, ToolResultMatched, ToolResultRefused, ToolResultAppended, CompactListed, SessionClear,
         ResumeRestored, SessionCreate, ResumeListed, SubmitAppended, SubmitRefused, Submitting
<1>7. CASE ClientStep
  <2>1. PICK c \in Client :
        \/ \E s \in Session, n \in 1 .. MaxMessages : SubmitAppended(c, s, n) \/ SubmitRefused(c, s, n)
        \/ \E s \in Session : SessionCreate(c, s) \/ ResumeListed(c, s)
        \/ ToolResultMatched(c) \/ ToolResultRefused(c)
        \/ SessionClear(c) \/ SessionFork(c) \/ CompactListed(c)
    BY <1>7 DEF ClientStep
  <2>2. ~SessionFork(c) => turns' = turns
    BY <1>6, <2>1
  <2> QED
    BY <1>1, <1>5, <2>2
<1>8. CASE ServerStep
  <2>1. ASSUME NEW c \in Client, ToolResultAppended(c) \/ ToolResultPersisted(c) \/ CompactInserted(c)
        PROVE  turns[t] \subseteq turns'[t]
    <3>1. ToolResultAppended(c) => turns' = turns
      BY <1>6
    <3> QED
      BY <1>1, <1>3, <2>1, <3>1
  <2>2. ASSUME NEW r \in relays, RelayToolCall(r) \/ RelayAppended(r) \/ RelayPersisted(r)
        PROVE  turns[t] \subseteq turns'[t]
    <3>1. ~RelayPersisted(r) => turns' = turns
      BY <2>2 DEF RelayToolCall, RelayAppended
    <3> QED
      BY <1>1, <1>4, <3>1
  <2>3. Crash => turns[t] \subseteq turns'[t]
    BY DEF Crash
  <2> QED
    BY <1>8, <2>1, <2>2, <2>3 DEF ServerStep
<1>9. CASE \E c \in Client : Answer(c) \/ Reconnect(c)
  <2>1. PICK c \in Client : Answer(c) \/ Reconnect(c)
    BY <1>9
  <2>2. ~SubmitCreated(c) => turns' = turns
    BY <1>6, <2>1 DEF Answer
  <2> QED
    BY <1>1, <1>3, <2>2
<1> QED
  BY <1>7, <1>8, <1>9 DEF Next

\* compact.go recentTurnsKeepFloor: no step removes one of the last KeepFloor turns,
\* though turns were stored or compacted since they were listed.
THEOREM RecentTurnsAreKept == Spec => RecentTurnsSurvive
<1>1. ASSUME ConversationInv, [Next]_vars, lost = {}, NEW s \in Session, NEW m \in turns[s],
             Cardinality({o \in turns[s] : o.seq > m.seq}) < KeepFloor
      PROVE  m \in turns'[s]
  <2>1. CASE UNCHANGED vars
    BY <1>1, <2>1 DEF vars
  <2>2. CASE Next /\ ~(\E c \in Client : CompactDeleted(c))
    <3>1. turns[s] \subseteq turns'[s]
      BY <1>1, <2>2, RowsStay DEF ConversationInv
    <3> QED
      BY <3>1
  <2>3. CASE Next /\ \E c \in Client : CompactDeleted(c)
    <3> DEFINE v == View(s)
               w == View(s)'
    <3>1. Structure' /\ \E L : Deletes(v, w, L)
      BY <1>1, <2>3, DeletedRows DEF ConversationInv, Proper, Next
    <3>2. Typed(v) /\ Typed(w) /\ made \in Nat /\ Numbered(made, v) /\ Ordered(v)
      BY <1>1, <3>1, TypedViews, TypedNext DEF ConversationInv, TypedState, Structure, TypeOK, Numbers, InOrder
    <3>3. v.rows = turns[s] /\ w.rows = turns'[s]
      BY ViewFields, ViewFieldsNext
    <3>4. Above(v, m) = {o \in turns[s] : o.seq > m.seq}
      BY <3>3 DEF Above
    <3>5. m \in Message /\ m.seq <= m.seq
      <4>1. m \in Message
        BY <1>1 DEF ConversationInv, Structure, TypeOK
      <4> QED
        BY <4>1 DEF Message
    <3>6. PICK L : Deletes(v, w, L)
      BY <3>1
    <3> HIDE DEF v, w
    <3>7. SUFFICES ASSUME m \notin w.rows PROVE FALSE
      BY <3>3
    <3>8. Cardinality(Above(v, m)) >= KeepFloor
      BY <3>2, <3>3, <3>5, <3>6, <3>7, DeletesLeave
    <3>9. IsFiniteSet(Above(v, m))
      <4>1. Above(v, m) \subseteq v.rows
        BY DEF Above
      <4> QED
        BY <3>2, <4>1, FS_Subset DEF Typed
    <3>10. Cardinality(Above(v, m)) \in Nat
      BY <3>9, FS_CardinalityType
    <3>11. Cardinality(Above(v, m)) < KeepFloor
      BY <1>1, <3>4
    <3> QED
      BY <3>8, <3>10, <3>11, ConversationAssumption
  <2> QED
    BY <1>1, <2>1, <2>2, <2>3
<1>2. ConversationInv /\ [Next]_vars =>
        [lost = {} => \A s \in Session :
            \A m \in turns[s] :
                Cardinality({o \in turns[s] : o.seq > m.seq}) < KeepFloor => m \in turns'[s]]_vars
  BY <1>1
<1> QED
  BY <1>2, ConversationInvariance, PTL DEF Spec, RecentTurnsSurvive
=============================================================================
