------------------------- MODULE TerminalHostProofs -------------------------
(***************************************************************************)
(* The terminal program keeps what it promises whatever its user, its      *)
(* goroutines and its connection do, for any number of runs, requests,     *)
(* messages and events.  HostInv is the inductive invariant: the adapter   *)
(* and the shell agree on the requests; the goroutines under way carry     *)
(* what their kind needs, and only approvals that were given; a shell that *)
(* streams has something to wait for; what was said is in order.  The      *)
(* shell's and the adapter's operators are proved first, as facts about    *)
(* the records they map; each action is then one lemma.                    *)
(***************************************************************************)
EXTENDS TerminalHost, WellFoundedInduction, SequenceTheorems, FiniteSetTheorems, TLAPS
-----------------------------------------------------------------------------
(* Recursion over sequences *)

\* A set of numbers has a least one: what stands for induction below.
LEMMA Least ==
    ASSUME NEW S \in SUBSET Nat, S # {}
    PROVE  \E n \in S : \A m \in S : n <= m
<1>1. IsWellFoundedOn(OpToRel(<, Nat), Nat)
  BY NatLessThanWellFounded
<1>2. PICK n \in S : \A m \in S : ~(<<m, n>> \in OpToRel(<, Nat))
  BY <1>1, WFMin
<1>3. \A m \in S : ~(m < n)
  BY <1>2 DEF OpToRel
<1>4. QED
  BY <1>3

\* f gives what FlattenSeq makes of the first sequences of s.
Flattens(s, n, f) == f = [i \in 1 .. n |-> IF i = 1 THEN s[i] ELSE f[i - 1] \o s[i]]

Flattening(s) == CHOOSE f : Flattens(s, Len(s), f)

\* The recursive function of FlattenSeq exists.
LEMMA FlattenExists == ASSUME NEW s, NEW n \in Nat PROVE \E f : Flattens(s, n, f)
<1> DEFINE Bad == {k \in Nat : ~\E f : Flattens(s, k, f)}
<1> SUFFICES ASSUME Bad # {} PROVE FALSE
  OBVIOUS
<1>1. PICK k \in Bad : \A j \in Bad : k <= j
  BY Least
<1>2. CASE k <= 1
  <2>1. Flattens(s, k, [i \in 1 .. k |-> s[i]])
    BY <1>1, <1>2 DEF Flattens
  <2>2. QED
    BY <2>1
<1>3. CASE k > 1
  <2>1. k - 1 \in Nat /\ k - 1 \notin Bad
    BY <1>1, <1>3
  <2>2. PICK g : Flattens(s, k - 1, g)
    BY <2>1
  <2> DEFINE h == [i \in 1 .. k |-> IF i = k THEN g[k - 1] \o s[k] ELSE g[i]]
  <2>3. \A i \in 1 .. k : h[i] = IF i = 1 THEN s[i] ELSE h[i - 1] \o s[i]
    <3> SUFFICES ASSUME NEW i \in 1 .. k
                 PROVE  h[i] = IF i = 1 THEN s[i] ELSE h[i - 1] \o s[i]
      OBVIOUS
    <3>1. CASE i = k
      <4>1. k - 1 \in 1 .. k /\ k \in 1 .. k /\ k - 1 # k /\ k # 1
        BY <1>1, <1>3
      <4>2. h[k - 1] = g[k - 1] /\ h[k] = g[k - 1] \o s[k]
        BY <4>1
      <4> HIDE DEF h
      <4>3. QED
        BY <3>1, <4>1, <4>2
    <3>2. CASE i # k
      <4>1. i \in 1 .. k - 1 /\ h[i] = g[i] /\ (i # 1 => h[i - 1] = g[i - 1])
        BY <1>3, <3>2
      <4>2. g[i] = IF i = 1 THEN s[i] ELSE g[i - 1] \o s[i]
        BY <2>2, <4>1 DEF Flattens
      <4>3. QED
        BY <4>1, <4>2
    <3>3. QED
      BY <3>1, <3>2
  <2>4. h = [i \in 1 .. k |-> h[i]]
    OBVIOUS
  <2> HIDE DEF h
  <2>5. Flattens(s, k, h)
    BY <2>3, <2>4 DEF Flattens
  <2>6. QED
    BY <2>5
<1>4. QED
  BY <1>2, <1>3

\* FlattenSeq computes it.
LEMMA FlattenIs ==
    ASSUME NEW s, Len(s) \in Nat
    PROVE  /\ Flattens(s, Len(s), Flattening(s))
           /\ FlattenSeq(s) = IF Len(s) = 0 THEN s ELSE Flattening(s)[Len(s)]
<1>1. \E f : Flattens(s, Len(s), f)
  BY FlattenExists
<1>2. FlattenSeq(s) = IF Len(s) = 0 THEN s ELSE Flattening(s)[Len(s)]
  BY DEF FlattenSeq, Flattening, Flattens
<1>3. QED
  BY <1>1, <1>2 DEF Flattening

\* One more sequence is flattened behind the others.
LEMMA FlattenAppend ==
    ASSUME NEW S, NEW s \in Seq(Seq(S)), NEW q \in Seq(S), FlattenSeq(s) \in Seq(S)
    PROVE  FlattenSeq(Append(s, q)) = FlattenSeq(s) \o q
<1> DEFINE n == Len(s)
           t == Append(s, q)
           f == Flattening(s)
           g == Flattening(t)
<1> DEFINE T == Seq(S)
<1>1. s \in Seq(T) /\ q \in T /\ n \in Nat
  OBVIOUS
<1> HIDE DEF T
<1>2. /\ t \in Seq(T) /\ Len(t) = n + 1 /\ t[n + 1] = q
      /\ \A i \in 1 .. n : t[i] = s[i]
  BY <1>1, AppendProperties
<1>3. /\ Flattens(s, n, f) /\ FlattenSeq(s) = IF n = 0 THEN s ELSE f[n]
      /\ Flattens(t, n + 1, g) /\ FlattenSeq(t) = g[n + 1]
  <2>1. Flattens(s, n, f) /\ FlattenSeq(s) = IF n = 0 THEN s ELSE f[n]
    BY <1>1, FlattenIs
  <2>2. /\ Flattens(t, Len(t), g)
        /\ FlattenSeq(t) = IF Len(t) = 0 THEN t ELSE g[Len(t)]
    <3>1. Len(t) \in Nat
      BY <1>1, <1>2
    <3> HIDE DEF t
    <3>2. QED
      BY <3>1, FlattenIs
  <2> HIDE DEF n, t, f, g
  <2>3. QED
    BY <1>1, <1>2, <2>1, <2>2
<1> HIDE DEF n, t, f, g
<1>4. CASE n = 0
  <2>1. g[1] = q
    BY <1>1, <1>2, <1>3, <1>4 DEF Flattens
  <2>2. s = <<>>
    BY <1>4, EmptySeq DEF n
  <2>3. FlattenSeq(s) \o q = q
    BY <1>3, <1>4, <2>2, ConcatEmptySeq
  <2>4. QED
    BY <1>3, <1>4, <2>1, <2>3 DEF t
<1>5. CASE n # 0
  <2> DEFINE Bad == {i \in 1 .. n : g[i] # f[i]}
  <2>1. Bad = {}
    <3> SUFFICES ASSUME Bad # {} PROVE FALSE
      OBVIOUS
    <3>1. Bad \in SUBSET Nat
      BY <1>1
    <3>2. PICK k \in Bad : \A j \in Bad : k <= j
      BY <3>1, Least
    <3>3. f[k] = IF k = 1 THEN s[k] ELSE f[k - 1] \o s[k]
      BY <1>3, <3>2 DEF Flattens
    <3>4. g[k] = IF k = 1 THEN t[k] ELSE g[k - 1] \o t[k]
      <4>1. k \in 1 .. n + 1
        BY <1>1, <3>2
      <4>2. QED
        BY <1>3, <4>1 DEF Flattens
    <3>5. k # 1 => k - 1 \in 1 .. n /\ k - 1 \notin Bad
      BY <1>1, <3>2
    <3>6. QED
      BY <1>2, <3>2, <3>3, <3>4, <3>5
  <2>2. n \in 1 .. n
    BY <1>1, <1>5
  <2>3. g[n] = f[n]
    BY <2>1, <2>2
  <2>4. g[n + 1] = g[n] \o q
    <3>1. n + 1 \in 1 .. n + 1 /\ n + 1 # 1 /\ (n + 1) - 1 = n
      BY <1>1, <1>5
    <3>2. g[n + 1] = IF n + 1 = 1 THEN t[n + 1] ELSE g[(n + 1) - 1] \o t[n + 1]
      BY <1>3, <3>1 DEF Flattens
    <3>3. QED
      BY <1>2, <3>1, <3>2
  <2>5. QED
    BY <1>3, <1>5, <2>3, <2>4 DEF t
<1>6. QED
  BY <1>4, <1>5

\* f gives what FoldLeft makes of the events whose places are in a set.
Shows(a, evts, D, f) ==
    f = [s \in SUBSET D |->
            IF s = {} THEN a ELSE LET x == Max(s) IN ToShell(f[s \ {x}], evts[x])]

Showing(a, evts) == CHOOSE f : Shows(a, evts, DOMAIN evts, f)

\* Max is the greatest member, when that is known.
LEMMA MaxIs == ASSUME NEW k \in Nat, NEW s \in SUBSET (1 .. k), k \in s PROVE Max(s) = k
<1>1. \A y \in s : k >= y
  OBVIOUS
<1>2. \A x \in s : (\A y \in s : x >= y) => x = k
  OBVIOUS
<1>3. QED
  BY <1>1, <1>2 DEF Max

\* The recursive function of FoldLeft exists.
LEMMA ShowsExists == ASSUME NEW a, NEW evts, NEW n \in Nat
                     PROVE  \E f : Shows(a, evts, 1 .. n, f)
<1> DEFINE Bad == {k \in Nat : ~\E f : Shows(a, evts, 1 .. k, f)}
<1> SUFFICES ASSUME Bad # {} PROVE FALSE
  OBVIOUS
<1>1. PICK k \in Bad : \A j \in Bad : k <= j
  BY Least
<1>2. CASE k = 0
  <2>1. SUBSET (1 .. k) = {{}}
    BY <1>2
  <2>2. Shows(a, evts, 1 .. k, [s \in SUBSET (1 .. k) |-> a])
    BY <2>1 DEF Shows
  <2>3. QED
    BY <2>2
<1>3. CASE k # 0
  <2>1. k - 1 \in Nat /\ k - 1 \notin Bad
    BY <1>1, <1>3
  <2>2. PICK g : Shows(a, evts, 1 .. k - 1, g)
    BY <2>1
  <2> DEFINE h == [s \in SUBSET (1 .. k) |->
                      IF k \in s THEN ToShell(g[s \ {k}], evts[k]) ELSE g[s]]
             Value(s) == IF s = {} THEN a ELSE LET x == Max(s) IN ToShell(h[s \ {x}], evts[x])
  <2>3. \A s \in SUBSET (1 .. k) : h[s] = Value(s)
    <3> SUFFICES ASSUME NEW s \in SUBSET (1 .. k) PROVE h[s] = Value(s)
      OBVIOUS
    <3>1. CASE k \in s
      <4>1. Max(s) = k /\ s # {}
        BY <1>1, <3>1, MaxIs
      <4>2. s \ {k} \in SUBSET (1 .. k) /\ k \notin s \ {k}
        OBVIOUS
      <4>3. h[s \ {k}] = g[s \ {k}] /\ h[s] = ToShell(g[s \ {k}], evts[k])
        BY <3>1, <4>2
      <4> HIDE DEF h
      <4>4. QED
        BY <4>1, <4>3
    <3>2. CASE k \notin s
      <4>1. s \in SUBSET (1 .. k - 1) /\ h[s] = g[s]
        BY <1>1, <3>2
      <4>2. g[s] = IF s = {} THEN a ELSE LET x == Max(s) IN ToShell(g[s \ {x}], evts[x])
        BY <2>2, <4>1 DEF Shows
      <4>3. \A x : h[s \ {x}] = g[s \ {x}]
        BY <3>2
      <4> HIDE DEF h
      <4>4. QED
        BY <4>1, <4>2, <4>3
    <3>3. QED
      BY <3>1, <3>2
  <2>4. h = [s \in SUBSET (1 .. k) |-> h[s]]
    OBVIOUS
  <2> HIDE DEF h
  <2>5. Shows(a, evts, 1 .. k, h)
    BY <2>3, <2>4 DEF Shows
  <2>6. QED
    BY <2>5
<1>4. QED
  BY <1>2, <1>3

\* AllToShell computes it.
LEMMA ShowingIs ==
    ASSUME NEW a, NEW evts, NEW n \in Nat, DOMAIN evts = 1 .. n
    PROVE  /\ Shows(a, evts, 1 .. n, Showing(a, evts))
           /\ AllToShell(a, evts) = Showing(a, evts)[1 .. n]
<1>1. \E f : Shows(a, evts, 1 .. n, f)
  BY ShowsExists
<1>2. AllToShell(a, evts) = Showing(a, evts)[DOMAIN evts]
  BY DEF AllToShell, FoldLeft, MapThenFoldSet, Showing, Shows
<1>3. QED
  BY <1>1, <1>2 DEF Showing
-----------------------------------------------------------------------------
(* The shell *)

ShellRecord(R) ==
    [rows : R, streaming : BOOLEAN, armed : BOOLEAN, run : Run \cup {None},
     queued : Seq(Nat), sent : Seq(Seq(Nat)), perms : Seq(Perm), active : Nat,
     preview : BOOLEAN]

\* A pending request is always the active one.
ShellOK(s) ==
    /\ s \in ShellRecord({s.rows})
    /\ s.perms # <<>> => s.active \in 1 .. Len(s.perms)

\* What a step of the shell leaves of the user's messages and of the requests.
SameQueue(s, t) == t.queued = s.queued /\ t.sent = s.sent
SamePerms(s, t) == t.perms = s.perms
Still(s, t)     == SameQueue(s, t) /\ SamePerms(s, t) /\ t.streaming = s.streaming

\* A message or the whole queue leaves as one submission.
Begun(s, t, said) == t.sent = Append(s.sent, said) /\ t.streaming = TRUE

\* Whatever waits leaves, or nothing waits.
Released(s, t) ==
    \/ s.queued = <<>> /\ SameQueue(s, t)
    \/ s.queued # <<>> /\ Begun(s, t, s.queued) /\ t.queued = <<>>

\* The shell with some of its fields new.
WithRows(s, rows, b, c, r) ==
    [s EXCEPT !.rows = rows, !.streaming = b, !.armed = c, !.run = r]
WithQueue(s, q)     == [s EXCEPT !.queued = q]
WithPerms(s, ps, i) == [s EXCEPT !.perms = ps, !.active = i]

\* Rows are the shell's own business.
LEMMA NewRows ==
    ASSUME NEW s, ShellOK(s), NEW rows,
           NEW b \in BOOLEAN, NEW c \in BOOLEAN, NEW r \in Run \cup {None}
    PROVE  LET t == WithRows(s, rows, b, c, r)
           IN  ShellOK(t) /\ SameQueue(s, t) /\ SamePerms(s, t) /\ t.streaming = b
<1> DEFINE t == WithRows(s, rows, b, c, r)
<1>1. s \in ShellRecord({s.rows})
  BY DEF ShellOK
<1>2. /\ t \in ShellRecord({rows}) /\ t.rows = rows /\ t.streaming = b /\ t.sent = s.sent
      /\ t.queued = s.queued /\ t.perms = s.perms /\ t.active = s.active
  BY <1>1 DEF ShellRecord, WithRows
<1> HIDE DEF t
<1>3. QED
  BY <1>2 DEF ShellOK, SameQueue, SamePerms, t

\* A record keeps the fields it is not given anew.
LEMMA KeptFields ==
    ASSUME NEW s, ShellOK(s)
    PROVE  /\ s.streaming \in BOOLEAN /\ s.armed \in BOOLEAN /\ s.run \in Run \cup {None}
           /\ s.queued \in Seq(Nat) /\ s.sent \in Seq(Seq(Nat)) /\ s.perms \in Seq(Perm)
           /\ s.active \in Nat /\ s.preview \in BOOLEAN
<1>1. s \in ShellRecord({s.rows})
  BY DEF ShellOK
<1>2. QED
  BY <1>1 DEF ShellRecord

\* queue.go: beginSubmission.
LEMMA Begins ==
    ASSUME NEW s, ShellOK(s), NEW said \in Seq(Nat)
    PROVE  LET t == BeginSubmission(s, said)
           IN  ShellOK(t) /\ Begun(s, t, said) /\ t.queued = s.queued /\ SamePerms(s, t)
<1> DEFINE rows == Append(s.rows, Row(Len(s.sent) + 1, None))
           more == Append(s.sent, said)
           t == [s EXCEPT !.rows = rows, !.streaming = TRUE, !.armed = FALSE,
                          !.sent = more]
<1>1. BeginSubmission(s, said) = t
  BY DEF BeginSubmission
<1>2. s \in ShellRecord({s.rows})
  BY DEF ShellOK
<1>3. more \in Seq(Seq(Nat))
  BY <1>2 DEF ShellRecord
<1> HIDE DEF rows, more
<1>4. /\ t \in ShellRecord({rows}) /\ t.rows = rows /\ t.streaming = TRUE /\ t.sent = more
      /\ t.queued = s.queued /\ t.perms = s.perms /\ t.active = s.active
  BY <1>2, <1>3 DEF ShellRecord
<1> HIDE DEF t
<1>5. QED
  BY <1>1, <1>4 DEF ShellOK, more, Begun, SamePerms

\* The queue alone changes.
LEMMA Queues ==
    ASSUME NEW s, ShellOK(s), NEW q \in Seq(Nat)
    PROVE  LET t == WithQueue(s, q)
           IN  ShellOK(t) /\ t.queued = q /\ t.sent = s.sent /\ SamePerms(s, t)
               /\ t.streaming = s.streaming
<1> DEFINE t == WithQueue(s, q)
<1>1. s \in ShellRecord({s.rows})
  BY DEF ShellOK
<1>2. /\ t \in ShellRecord({s.rows}) /\ t.rows = s.rows /\ t.streaming = s.streaming
      /\ t.sent = s.sent /\ t.queued = q /\ t.perms = s.perms /\ t.active = s.active
  BY <1>1 DEF ShellRecord, WithQueue
<1> HIDE DEF t
<1>3. QED
  BY <1>2 DEF ShellOK, SamePerms, t

\* queue.go: what waits leaves as one merged submission.
LEMMA Releases ==
    ASSUME NEW s, ShellOK(s)
    PROVE  LET t == Release(s)
           IN  ShellOK(t) /\ Released(s, t) /\ SamePerms(s, t)
               /\ (s.queued = <<>> => t.streaming = s.streaming)
<1>1. CASE s.queued = <<>>
  BY <1>1 DEF Release, Released, SameQueue, SamePerms
<1>2. CASE s.queued # <<>>
  <2> DEFINE d == DrainQueue(s)
  <2>1. s.queued \in Seq(Nat) /\ <<>> \in Seq(Nat)
    BY KeptFields, EmptySeq
  <2>2. ShellOK(d) /\ d.queued = <<>> /\ d.sent = s.sent /\ SamePerms(s, d)
    <3>1. d = WithQueue(s, <<>>)
      BY DEF DrainQueue, WithQueue
    <3> HIDE DEF d
    <3>2. QED
      BY <2>1, <3>1, Queues
  <2>3. Release(s) = BeginSubmission(d, s.queued)
    BY <1>2 DEF Release
  <2> HIDE DEF d
  <2>4. QED
    BY <1>2, <2>1, <2>2, <2>3, Begins, ZenonT(30) DEF Released, Begun, SamePerms
<1>3. QED
  BY <1>1, <1>2

\* The requests alone change.
LEMMA Offers ==
    ASSUME NEW s, ShellOK(s), NEW ps \in Seq(Perm), NEW i \in Nat,
           ps # <<>> => i \in 1 .. Len(ps)
    PROVE  LET t == WithPerms(s, ps, i)
           IN  ShellOK(t) /\ t.perms = ps /\ SameQueue(s, t) /\ t.streaming = s.streaming
<1> DEFINE t == WithPerms(s, ps, i)
<1>1. s \in ShellRecord({s.rows})
  BY DEF ShellOK
<1>2. /\ t \in ShellRecord({s.rows}) /\ t.rows = s.rows /\ t.streaming = s.streaming
      /\ t.sent = s.sent /\ t.queued = s.queued /\ t.perms = ps /\ t.active = i
  BY <1>1 DEF ShellRecord, WithPerms
<1> HIDE DEF t
<1>3. QED
  BY <1>2 DEF ShellOK, SameQueue, t

\* permissions.go: the first request with the id is taken out, and it was the only one.
LEMMA TakenOut ==
    ASSUME NEW ps \in Seq(Perm), NEW p,
           \A i, j \in 1 .. Len(ps) : ps[i] = ps[j] => i = j
    PROVE  LET left == RemoveFirst(ps, p)
           IN  /\ left \in Seq(Perm) /\ Len(left) <= Len(ps)
               /\ ToSet(left) = ToSet(ps) \ {p}
               /\ \A i, j \in 1 .. Len(left) : left[i] = left[j] => i = j
<1>1. Len(ps) \in Nat /\ ToSet(ps) = {ps[i] : i \in 1 .. Len(ps)}
  BY DEF ToSet
<1>2. CASE ~\E i \in 1 .. Len(ps) : ps[i] = p
  <2>1. RemoveFirst(ps, p) = ps /\ p \notin ToSet(ps)
    BY <1>1, <1>2 DEF RemoveFirst
  <2>2. QED
    BY <1>1, <2>1
<1>3. CASE \E i \in 1 .. Len(ps) : ps[i] = p
  <2>1. PICK k \in 1 .. Len(ps) : ps[k] = p
    BY <1>3
  <2> DEFINE I == {i \in 1 .. Len(ps) : ps[i] = p}
             left == RemoveAt(ps, k)
  <2>2. I = {k}
    BY <2>1
  <2>3. Min({k}) = k
    BY DEF Min
  <2>4. RemoveFirst(ps, p) = left
    <3>1. RemoveFirst(ps, p) = RemoveAt(ps, IF I # {} THEN Min(I) ELSE 0)
      BY <1>3 DEF RemoveFirst, SelectInSeq
    <3>2. QED
      BY <2>2, <2>3, <3>1
  <2> DEFINE u == SubSeq(ps, 1, k - 1)
             v == SubSeq(ps, k + 1, Len(ps))
  <2>5. /\ u \in Seq(Perm) /\ Len(u) = k - 1 /\ \A i \in 1 .. k - 1 : u[i] = ps[i]
    <3>1. \A i \in 1 .. k - 1 : ps[i] \in Perm
      BY <1>1, <2>1
    <3>2. /\ u \in Seq(Perm) /\ Len(u) = (IF 1 <= k - 1 THEN (k - 1) - 1 + 1 ELSE 0)
          /\ \A i \in 1 .. (k - 1) - 1 + 1 : u[i] = ps[1 + i - 1]
      BY <1>1, <2>1, <3>1, SubSeqProperties
    <3> HIDE DEF u
    <3>3. QED
      BY <2>1, <3>2
  <2>6. /\ v \in Seq(Perm) /\ Len(v) = Len(ps) - k
        /\ \A i \in 1 .. Len(ps) - k : v[i] = ps[i + k]
    <3>1. \A i \in k + 1 .. Len(ps) : ps[i] \in Perm
      BY <1>1, <2>1
    <3>2. /\ v \in Seq(Perm)
          /\ Len(v) = (IF k + 1 <= Len(ps) THEN Len(ps) - (k + 1) + 1 ELSE 0)
          /\ \A i \in 1 .. Len(ps) - (k + 1) + 1 : v[i] = ps[(k + 1) + i - 1]
      <4>1. k + 1 \in Int /\ Len(ps) \in Int
        BY <1>1, <2>1
      <4>2. QED
        BY <3>1, <4>1, SubSeqProperties
    <3> HIDE DEF v
    <3>3. /\ k \in Nat /\ k <= Len(ps) /\ Len(ps) - (k + 1) + 1 = Len(ps) - k
          /\ Len(ps) \in Nat /\ (~(k + 1 <= Len(ps)) => Len(ps) - k = 0)
      BY <1>1, <2>1
    <3>4. Len(v) = Len(ps) - k
      BY <3>2, <3>3
    <3>5. \A i \in 1 .. Len(ps) - k : v[i] = ps[i + k]
      <4> SUFFICES ASSUME NEW i \in 1 .. Len(ps) - k PROVE v[i] = ps[i + k]
        OBVIOUS
      <4> DEFINE n == Len(ps)
      <4>a. k \in Nat /\ n \in Nat /\ i \in 1 .. n - k
        BY <3>3
      <4> HIDE DEF n
      <4>b. (k + 1) + i - 1 = i + k /\ i \in 1 .. n - (k + 1) + 1
        BY <4>a
      <4>1. (k + 1) + i - 1 = i + k /\ i \in 1 .. Len(ps) - (k + 1) + 1
        BY <4>b DEF n
      <4>2. v[i] = ps[(k + 1) + i - 1]
        BY <3>2, <4>1
      <4>3. QED
        BY <4>1, <4>2
    <3>6. QED
      BY <3>2, <3>4, <3>5
  <2>7. left = u \o v
    BY DEF RemoveAt
  <2> HIDE DEF u, v, left
  <2>8. /\ left \in Seq(Perm) /\ Len(left) = Len(ps) - 1
        /\ \A i \in 1 .. Len(ps) - 1 : left[i] = IF i < k THEN ps[i] ELSE ps[i + 1]
    <3>1. /\ left \in Seq(Perm) /\ Len(left) = Len(u) + Len(v)
          /\ \A i \in 1 .. Len(u) + Len(v) :
                 left[i] = IF i <= Len(u) THEN u[i] ELSE v[i - Len(u)]
      <4>1. u \in Seq(Perm) /\ v \in Seq(Perm)
        BY <2>5, <2>6
      <4>2. /\ u \o v \in Seq(Perm) /\ Len(u \o v) = Len(u) + Len(v)
            /\ \A i \in 1 .. Len(u) + Len(v) :
                   (u \o v)[i] = IF i <= Len(u) THEN u[i] ELSE v[i - Len(u)]
        BY <4>1, ConcatProperties
      <4>3. QED
        BY <2>7, <4>2
    <3>a. k \in Nat /\ 1 <= k /\ k <= Len(ps) /\ Len(u) + Len(v) = Len(ps) - 1
      BY <1>1, <2>1, <2>5, <2>6
    <3>2. ASSUME NEW i \in 1 .. Len(ps) - 1, i < k PROVE left[i] = ps[i]
      <4>1. i \in 1 .. Len(u) + Len(v) /\ i <= Len(u) /\ i \in 1 .. k - 1
        BY <2>5, <3>a, <3>2
      <4>2. QED
        BY <2>5, <3>1, <4>1
    <3>3. ASSUME NEW i \in 1 .. Len(ps) - 1, ~(i < k) PROVE left[i] = v[i - (k - 1)]
      <4>1. i \in 1 .. Len(u) + Len(v) /\ ~(i <= Len(u))
        BY <2>5, <3>a, <3>3
      <4>2. QED
        BY <2>5, <3>1, <4>1
    <3>4. \A i \in 1 .. Len(ps) - 1 : ~(i < k) => left[i] = ps[i + 1]
      <4> SUFFICES ASSUME NEW i \in 1 .. Len(ps) - 1, ~(i < k) PROVE left[i] = ps[i + 1]
        OBVIOUS
      <4>1. i - (k - 1) \in 1 .. Len(ps) - k /\ (i - (k - 1)) + k = i + 1
        BY <1>1, <2>1
      <4>2. v[i - (k - 1)] = ps[(i - (k - 1)) + k]
        BY <2>6, <4>1
      <4>3. QED
        BY <3>3, <4>1, <4>2
    <3>5. QED
      BY <1>1, <3>a, <3>1, <3>2, <3>4
  <2>9. \A i, j \in 1 .. Len(left) : left[i] = left[j] => i = j
    BY <1>1, <2>1, <2>8
  <2>10. ToSet(left) = {left[i] : i \in 1 .. Len(ps) - 1}
    BY <1>1, <2>8 DEF ToSet
  <2>11. \A i \in 1 .. Len(ps) - 1 : left[i] \in ToSet(ps) \ {p}
    BY <1>1, <2>1, <2>8
  <2>12. ASSUME NEW q \in ToSet(ps) \ {p} PROVE \E i \in 1 .. Len(ps) - 1 : left[i] = q
    <3>1. PICK j \in 1 .. Len(ps) : ps[j] = q /\ j # k
      BY <1>1, <2>1, <2>12
    <3>2. CASE j < k
      <4>1. j \in 1 .. Len(ps) - 1 /\ left[j] = q
        BY <1>1, <2>1, <2>8, <3>1, <3>2
      <4>2. QED
        BY <4>1
    <3>3. CASE j > k
      <4>1. j - 1 \in 1 .. Len(ps) - 1 /\ ~(j - 1 < k) /\ (j - 1) + 1 = j
        BY <1>1, <2>1, <3>1, <3>3
      <4>2. left[j - 1] = q
        BY <2>8, <3>1, <4>1
      <4>3. QED
        BY <4>1, <4>2
    <3>4. QED
      BY <1>1, <2>1, <3>1, <3>2, <3>3
  <2>13. ToSet(left) = ToSet(ps) \ {p}
    BY <2>10, <2>11, <2>12
  <2>14. QED
    BY <1>1, <2>4, <2>8, <2>9, <2>13
<1>4. QED
  BY <1>2, <1>3
-----------------------------------------------------------------------------
(* What an event of the host does to the shell *)

Kind == {"accepted", "refused", "started", "delta", "completed", "stopped", "failed",
         "requested", "resolved", "cleared", "preview"}

EventRecord == [type : Kind, sub : Nat, run : Run \cup {None}, perm : Perm \cup {None},
                chunk : Nat]
EventOK(e) ==
    /\ e \in EventRecord
    /\ e.type \in {"delta", "started"} => e.run \in Run
    /\ e.type = "requested" => e.perm \in Perm

Deltas == {e \in EventRecord : e.type = "delta" /\ e.run \in Run}

\* Every request that is offered has an id of its own.
Once(ps) == \A i, j \in 1 .. Len(ps) : ps[i] = ps[j] => i = j

\* A row of the transcript changes, and the rest of the shell stays.
OtherRows(s, rows) == [s EXCEPT !.rows = rows]

\* A change of the rows alone keeps the shell well formed and everything else of it.
LEMMA TextOnlyRows ==
    ASSUME NEW s, ShellOK(s), NEW rows
    PROVE  LET t == OtherRows(s, rows) IN ShellOK(t) /\ Still(s, t)
<1> DEFINE t == WithRows(s, rows, s.streaming, s.armed, s.run)
<1>0. s \in ShellRecord({s.rows})
  BY DEF ShellOK
<1>1. /\ s.streaming \in BOOLEAN /\ s.armed \in BOOLEAN /\ s.run \in Run \cup {None}
      /\ OtherRows(s, rows) = t
  <2>1. OtherRows(s, rows) = t
    BY <1>0 DEF OtherRows, WithRows, ShellRecord
  <2> HIDE DEF t
  <2>2. QED
    BY <2>1, KeptFields
<1>2. ShellOK(t) /\ SameQueue(s, t) /\ SamePerms(s, t) /\ t.streaming = s.streaming
  BY <1>1, NewRows
<1>3. QED
  BY <1>1, <1>2 DEF Still

\* events.go: RunDelta appends to a row, or drops the text.
LEMMA DeltaIsStill ==
    ASSUME NEW s, ShellOK(s), NEW r, NEW chunk
    PROVE  LET t == RunDelta(s, r, chunk) IN ShellOK(t) /\ Still(s, t)
<1> DEFINE i == RowFor(s, r)
           rows == [s.rows EXCEPT ![i] =
                       [s.rows[i] EXCEPT !.text = Append(s.rows[i].text, [run |-> r, chunk |-> chunk])]]
<1>1. CASE i = 0
  BY <1>1 DEF RunDelta, Still, SameQueue, SamePerms
<1>2. CASE i # 0
  <2>1. RunDelta(s, r, chunk) = OtherRows(s, rows)
    BY <1>2 DEF RunDelta, OtherRows
  <2> HIDE DEF rows
  <2>2. QED
    BY <2>1, TextOnlyRows
<1>3. QED
  BY <1>1, <1>2

\* The run of the shell alone changes, and its rows.
LEMMA Assigns ==
    ASSUME NEW s, ShellOK(s), NEW sub, NEW r \in Run \cup {None}
    PROVE  LET t == SubmissionAccepted(s, sub, r) IN ShellOK(t) /\ Still(s, t)
<1> DEFINE t1 == WithRows(s, s.rows, s.streaming, s.armed, r)
           t0 == [s EXCEPT !.run = r]
           rows == [i \in DOMAIN t0.rows |->
                       IF sub # 0 /\ t0.rows[i].sub = sub THEN [t0.rows[i] EXCEPT !.run = r]
                       ELSE t0.rows[i]]
<1>1. s \in ShellRecord({s.rows}) /\ s.streaming \in BOOLEAN /\ s.armed \in BOOLEAN
  BY KeptFields DEF ShellOK
<1>2. t0 = t1
  BY <1>1 DEF ShellRecord, WithRows
<1>3. ShellOK(t1) /\ SameQueue(s, t1) /\ SamePerms(s, t1) /\ t1.streaming = s.streaming
  BY <1>1, NewRows
<1>4. SubmissionAccepted(s, sub, r) = OtherRows(t0, rows)
  BY DEF SubmissionAccepted, AssignRun, OtherRows
<1> HIDE DEF t0, t1, rows
<1>5. QED
  BY <1>2, <1>3, <1>4, TextOnlyRows DEF Still, SameQueue, SamePerms

\* A refused submission ends the streaming.
LEMMA FailedIsQuiet ==
    ASSUME NEW s, ShellOK(s), NEW sub
    PROVE  LET t == SubmissionFailed(s, sub)
           IN  ShellOK(t) /\ SameQueue(s, t) /\ SamePerms(s, t) /\ t.streaming = FALSE
<1> DEFINE u == RemovePlaceholder(s, sub)
           rows == SelectSeq(s.rows, LAMBDA row : row.sub # sub)
<1>1. u = OtherRows(s, rows)
  BY DEF RemovePlaceholder, OtherRows
<1> HIDE DEF rows
<1>2. ShellOK(u) /\ Still(s, u)
  BY <1>1, TextOnlyRows
<1> HIDE DEF u
<1>3. u \in ShellRecord({u.rows})
  BY <1>2 DEF ShellOK
<1> DEFINE t == [u EXCEPT !.streaming = FALSE, !.armed = FALSE, !.run = None]
<1>4. t = WithRows(u, u.rows, FALSE, FALSE, None)
  BY <1>3 DEF ShellRecord, WithRows
<1>5. SubmissionFailed(s, sub) = t
  BY DEF SubmissionFailed, u
<1> HIDE DEF t
<1>6. ShellOK(t) /\ SameQueue(u, t) /\ SamePerms(u, t) /\ t.streaming = FALSE
  BY <1>2, <1>4, NewRows
<1>7. QED
  BY <1>2, <1>5, <1>6 DEF Still, SameQueue, SamePerms

\* events.go: a run that starts sets the shell streaming.
LEMMA StartedStreams ==
    ASSUME NEW s, ShellOK(s), NEW sub, NEW r \in Run \cup {None}
    PROVE  LET t == RunStarted(s, sub, r)
           IN  ShellOK(t) /\ SameQueue(s, t) /\ SamePerms(s, t)
<1> DEFINE u == [s EXCEPT !.streaming = TRUE, !.run = r]
<1>1. s \in ShellRecord({s.rows}) /\ s.armed \in BOOLEAN
  BY KeptFields DEF ShellOK
<1>2. u = WithRows(s, s.rows, TRUE, s.armed, r)
  BY <1>1 DEF ShellRecord, WithRows
<1>3. \/ RunStarted(s, sub, r) = u
      \/ \E rows : RunStarted(s, sub, r) = OtherRows(u, rows)
  <2> DEFINE r1 == [i \in DOMAIN u.rows |->
                       IF sub # 0 /\ u.rows[i].sub = sub THEN [u.rows[i] EXCEPT !.run = r]
                       ELSE u.rows[i]]
             r2 == Append(u.rows, Row(0, r))
  <2>1. \/ RunStarted(s, sub, r) = u
        \/ RunStarted(s, sub, r) = OtherRows(u, r1)
        \/ RunStarted(s, sub, r) = OtherRows(u, r2)
    BY DEF RunStarted, AssignRun, OtherRows
  <2> HIDE DEF r1, r2, u
  <2>2. QED
    BY <2>1
<1> HIDE DEF u
<1>4. ShellOK(u) /\ SameQueue(s, u) /\ SamePerms(s, u)
  BY <1>1, <1>2, NewRows
<1>5. QED
  BY <1>3, <1>4, TextOnlyRows DEF Still, SameQueue, SamePerms

\* events.go: the end of any run ends the streaming.
LEMMA EndedIsQuiet ==
    ASSUME NEW s, ShellOK(s), NEW r
    PROVE  LET t == RunEnded(s, r)
           IN  ShellOK(t) /\ SameQueue(s, t) /\ SamePerms(s, t) /\ t.streaming = FALSE
<1> DEFINE i == RowFor(s, r)
           rows == [s.rows EXCEPT ![i] = [s.rows[i] EXCEPT !.streaming = FALSE]]
           u == IF i = 0 THEN s ELSE [s EXCEPT !.rows[i].streaming = FALSE]
           t == [u EXCEPT !.streaming = FALSE, !.armed = FALSE, !.run = None]
<1>1. i # 0 => u = OtherRows(s, rows)
  BY DEF OtherRows
<1>2. i = 0 => u = s
  OBVIOUS
<1>3. RunEnded(s, r) = t
  BY DEF RunEnded
<1> HIDE DEF u, rows, i
<1>4. ShellOK(u) /\ Still(s, u)
  BY <1>1, <1>2, TextOnlyRows DEF Still, SameQueue, SamePerms
<1>5. u \in ShellRecord({u.rows})
  BY <1>4 DEF ShellOK
<1>6. t = WithRows(u, u.rows, FALSE, FALSE, None)
  BY <1>5 DEF ShellRecord, WithRows
<1> HIDE DEF t
<1>7. ShellOK(t) /\ SameQueue(u, t) /\ SamePerms(u, t) /\ t.streaming = FALSE
  BY <1>4, <1>6, NewRows
<1>8. QED
  BY <1>3, <1>4, <1>7 DEF Still, SameQueue, SamePerms

\* permissions.go: a new request is offered last and becomes the active one.
LEMMA RequestIsOffered ==
    ASSUME NEW s, ShellOK(s), NEW p \in Perm
    PROVE  LET t == PermissionRequested(s, p)
           IN  ShellOK(t) /\ SameQueue(s, t) /\ t.streaming = s.streaming
               /\ t.perms = Append(s.perms, p)
<1> DEFINE ps == Append(s.perms, p)
           i == Len(s.perms) + 1
<1>1. s.perms \in Seq(Perm)
  BY KeptFields
<1>2. ps \in Seq(Perm) /\ i \in Nat /\ i \in 1 .. Len(ps)
  BY <1>1, AppendProperties
<1>3. PermissionRequested(s, p) = WithPerms(s, ps, i)
  BY DEF PermissionRequested, WithPerms
<1> HIDE DEF ps, i
<1>4. LET t == PermissionRequested(s, p)
      IN  ShellOK(t) /\ SameQueue(s, t) /\ t.streaming = s.streaming /\ t.perms = ps
  BY <1>2, <1>3, Offers
<1>5. QED
  BY <1>4 DEF ps

\* permissions.go: the resolved request is withdrawn.
LEMMA ResolvedIsWithdrawn ==
    ASSUME NEW s, ShellOK(s), NEW p, Once(s.perms)
    PROVE  LET t == PermissionResolved(s, p)
           IN  ShellOK(t) /\ SameQueue(s, t) /\ t.streaming = s.streaming
               /\ t.perms = RemoveFirst(s.perms, p)
<1> DEFINE ps == RemoveFirst(s.perms, p)
           i == IF s.active > Len(ps) THEN Len(ps) ELSE s.active
<1>1. s.perms \in Seq(Perm) /\ s.active \in Nat
  BY KeptFields
<1>2. ps \in Seq(Perm) /\ Len(ps) <= Len(s.perms)
  BY <1>1, TakenOut DEF Once
<1>3. s \in ShellRecord({s.rows})
  BY DEF ShellOK
<1>4. PermissionResolved(s, p) = WithPerms(s, ps, i)
  BY <1>3 DEF PermissionResolved, ShellRecord, WithPerms
<1> HIDE DEF ps
<1>5. i \in Nat /\ (ps # <<>> => i \in 1 .. Len(ps))
  <2>1. ps # <<>> => Len(ps) >= 1
    BY <1>2, EmptySeq
  <2>2. Len(s.perms) >= 1 => s.perms # <<>>
    BY <1>1, EmptySeq
  <2>3. Len(ps) \in Nat /\ Len(s.perms) \in Nat
    BY <1>1, <1>2
  <2>4. Len(ps) >= 1 => s.active >= 1
    BY <1>1, <1>2, <2>2, <2>3 DEF ShellOK
  <2>5. QED
    BY <1>1, <2>1, <2>3, <2>4
<1> HIDE DEF i
<1>6. QED
  BY <1>2, <1>4, <1>5, Offers DEF ps

\* applyHostEvent, by the kind of the event: what becomes of the queue, of the requests
\* and of the streaming.
Applied(s, t, e) ==
    /\ ShellOK(t)
    /\ e.type \notin {"completed", "cleared"} => SameQueue(s, t)
    /\ e.type = "completed" => Released(s, t)
    /\ e.type = "cleared" => t.sent = s.sent /\ t.queued = <<>>
    /\ e.type \notin {"requested", "resolved"} => SamePerms(s, t)
    /\ e.type = "requested" => t.perms = Append(s.perms, e.perm)
    /\ e.type = "resolved" => t.perms = RemoveFirst(s.perms, e.perm)
    /\ e.type \notin {"started", "refused", "completed", "stopped", "failed"} =>
           t.streaming = s.streaming
    /\ e.type \in {"refused", "stopped", "failed"} => ~t.streaming
    /\ e.type = "completed" /\ s.queued = <<>> => ~t.streaming

\* model.go: what each host event does to the shell, whatever its state.
LEMMA Applies ==
    ASSUME NEW s, ShellOK(s), Once(s.perms), NEW e, EventOK(e)
    PROVE  Applied(s, ApplyHostEvent(s, e), e)
<1> DEFINE t == ApplyHostEvent(s, e)
<1>1. e.type \in Kind /\ e.run \in Run \cup {None}
  BY DEF EventOK, EventRecord
<1>2. CASE e.type = "accepted"
  BY <1>1, <1>2, Assigns DEF ApplyHostEvent, Applied, Still
<1>3. CASE e.type = "refused"
  BY <1>3, FailedIsQuiet DEF ApplyHostEvent, Applied
<1>4. CASE e.type = "started"
  BY <1>1, <1>4, StartedStreams DEF ApplyHostEvent, Applied
<1>5. CASE e.type = "delta"
  BY <1>5, DeltaIsStill DEF ApplyHostEvent, Applied, Still
<1>6. CASE e.type = "completed"
  <2> DEFINE u == RunEnded(s, e.run)
  <2>1. ShellOK(u) /\ SameQueue(s, u) /\ SamePerms(s, u) /\ u.streaming = FALSE
    BY EndedIsQuiet
  <2>2. t = Release(u)
    BY <1>6 DEF ApplyHostEvent, RunCompleted
  <2> HIDE DEF t, u
  <2>3. ShellOK(t) /\ Released(u, t) /\ SamePerms(u, t)
        /\ (u.queued = <<>> => t.streaming = u.streaming)
    BY <2>1, <2>2, Releases
  <2>4. QED
    BY <1>6, <2>1, <2>3 DEF Applied, Released, Begun, SameQueue, SamePerms, t
<1>7. CASE e.type \in {"stopped", "failed"}
  BY <1>7, EndedIsQuiet DEF ApplyHostEvent, Applied
<1>8. CASE e.type = "requested"
  BY <1>8, RequestIsOffered DEF ApplyHostEvent, Applied, EventOK
<1>9. CASE e.type = "resolved"
  BY <1>9, ResolvedIsWithdrawn DEF ApplyHostEvent, Applied
<1>10. CASE e.type = "cleared"
  <2> DEFINE u == OtherRows(s, <<>>)
             v == WithQueue(u, <<>>)
  <2>1. ShellOK(u) /\ Still(s, u)
    BY TextOnlyRows
  <2>2. t = v
    <3>1. s \in ShellRecord({s.rows})
      BY DEF ShellOK
    <3>2. QED
      BY <1>10, <3>1 DEF ApplyHostEvent, TranscriptClear, ShellRecord, OtherRows, WithQueue
  <2> HIDE DEF t, u
  <2>3. <<>> \in Seq(Nat)
    BY EmptySeq
  <2>4. ShellOK(v) /\ v.queued = <<>> /\ v.sent = u.sent /\ SamePerms(u, v)
        /\ v.streaming = u.streaming
    BY <2>1, <2>3, Queues
  <2> HIDE DEF v
  <2>5. QED
    BY <1>10, <2>1, <2>2, <2>4 DEF Applied, Still, SameQueue, SamePerms, t
<1>11. CASE e.type = "preview"
  <2>1. s \in ShellRecord({s.rows})
    BY DEF ShellOK
  <2> DEFINE v == [s EXCEPT !.preview = TRUE]
  <2>2. /\ v \in ShellRecord({s.rows}) /\ v.rows = s.rows /\ v.streaming = s.streaming
        /\ v.sent = s.sent /\ v.queued = s.queued /\ v.perms = s.perms /\ v.active = s.active
    BY <2>1 DEF ShellRecord
  <2>3. t = v
    BY <1>11 DEF ApplyHostEvent, PreviewLoaded
  <2> HIDE DEF t, v
  <2>4. QED
    BY <1>11, <2>2, <2>3 DEF Applied, ShellOK, SameQueue, SamePerms, t
<1>12. QED
  BY <1>1, <1>2, <1>3, <1>4, <1>5, <1>6, <1>7, <1>8, <1>9, <1>10, <1>11 DEF Kind
-----------------------------------------------------------------------------
(* The adapter *)

Text  == Seq(Deltas)
Apart == [Run -> Text]

AdapterOK(a) ==
    /\ a \in [shell : {a.shell}, attached : Run \cup {None}, pending : SUBSET Perm,
              paused : Text, detached : Apart]
    /\ ShellOK(a.shell)

\* The adapter with other things than its shell new.
WithParts(a, r, ps, held, apart) ==
    [a EXCEPT !.attached = r, !.pending = ps, !.paused = held, !.detached = apart]

\* The adapter stays well formed, and its shell the same, when its own parts change.
LEMMA NewParts ==
    ASSUME NEW a, AdapterOK(a), NEW r \in Run \cup {None}, NEW ps \in SUBSET Perm,
           NEW held \in Text, NEW apart \in Apart
    PROVE  LET b == WithParts(a, r, ps, held, apart)
           IN  /\ AdapterOK(b) /\ b.shell = a.shell /\ b.attached = r /\ b.pending = ps
               /\ b.paused = held /\ b.detached = apart
<1> DEFINE b == WithParts(a, r, ps, held, apart)
<1>1. /\ b \in [shell : {a.shell}, attached : Run \cup {None}, pending : SUBSET Perm,
                paused : Text, detached : Apart]
      /\ b.shell = a.shell /\ b.attached = r /\ b.pending = ps
      /\ b.paused = held /\ b.detached = apart
  BY DEF AdapterOK, WithParts
<1> HIDE DEF b
<1>2. QED
  BY <1>1 DEF AdapterOK, b

\* What the adapter holds.
LEMMA AdapterParts ==
    ASSUME NEW a, AdapterOK(a)
    PROVE  /\ ShellOK(a.shell) /\ a.attached \in Run \cup {None} /\ a.pending \in SUBSET Perm
           /\ a.paused \in Text /\ a.detached \in Apart
  BY DEF AdapterOK

\* An event reaches the shell alone.
LEMMA ToShellIs ==
    ASSUME NEW a, AdapterOK(a), NEW e, ShellOK(ApplyHostEvent(a.shell, e))
    PROVE  LET b == ToShell(a, e)
           IN  /\ AdapterOK(b) /\ b.shell = ApplyHostEvent(a.shell, e)
               /\ b.attached = a.attached /\ b.pending = a.pending
               /\ b.paused = a.paused /\ b.detached = a.detached
<1> DEFINE s == ApplyHostEvent(a.shell, e)
           b == [a EXCEPT !.shell = s]
<1> HIDE DEF s
<1>1. /\ b \in [shell : {s}, attached : Run \cup {None}, pending : SUBSET Perm,
                paused : Text, detached : Apart]
      /\ b.shell = s /\ b.attached = a.attached /\ b.pending = a.pending
      /\ b.paused = a.paused /\ b.detached = a.detached
  BY DEF AdapterOK
<1>2. ToShell(a, e) = b
  BY DEF ToShell, s
<1> HIDE DEF b
<1>3. QED
  BY <1>1, <1>2 DEF AdapterOK, s

\* Text reaches the transcript and nothing else.
TextOnly(a, b) ==
    /\ AdapterOK(b) /\ Still(a.shell, b.shell)
    /\ b.attached = a.attached /\ b.pending = a.pending
    /\ b.paused = a.paused /\ b.detached = a.detached

\* A delta handed to the shell adds text and changes nothing else.
LEMMA DeltaShows ==
    ASSUME NEW a, AdapterOK(a), NEW e \in Deltas
    PROVE  TextOnly(a, ToShell(a, e))
<1> DEFINE t == RunDelta(a.shell, e.run, e.chunk)
<1>1. ShellOK(t) /\ Still(a.shell, t)
  BY AdapterParts, DeltaIsStill
<1>2. ApplyHostEvent(a.shell, e) = t
  BY DEF Deltas, ApplyHostEvent
<1> HIDE DEF t
<1>3. QED
  BY <1>1, <1>2, ToShellIs DEF TextOnly

\* adapter.go: the text kept for a run, or held back, is handed over in its order and
\* leaves the messages and the requests alone.
LEMMA AllShown ==
    ASSUME NEW a, AdapterOK(a), NEW evts \in Text
    PROVE  TextOnly(a, AllToShell(a, evts))
<1> DEFINE n == Len(evts)
           f == Showing(a, evts)
           Bad == {k \in 0 .. n : ~TextOnly(a, f[1 .. k])}
<1>1. n \in Nat /\ DOMAIN evts = 1 .. n /\ \A k \in 1 .. n : evts[k] \in Deltas
  BY DEF Text
<1>2. Shows(a, evts, 1 .. n, f) /\ AllToShell(a, evts) = f[1 .. n]
  BY <1>1, ShowingIs
<1> HIDE DEF n, f
<1>3. Bad = {}
  <2> SUFFICES ASSUME Bad # {} PROVE FALSE
    OBVIOUS
  <2>1. PICK k \in Bad : \A j \in Bad : k <= j
    <3>1. Bad \in SUBSET Nat
      BY <1>1
    <3> HIDE DEF Bad
    <3>2. QED
      BY <3>1, Least
  <2>2. k \in 0 .. n /\ k \in Nat
    BY <1>1, <2>1
  <2>3. 1 .. k \in SUBSET (1 .. n)
    BY <1>1, <2>2
  <2>4. f[1 .. k] = IF 1 .. k = {} THEN a
                    ELSE ToShell(f[(1 .. k) \ {Max(1 .. k)}], evts[Max(1 .. k)])
    BY <1>2, <2>3 DEF Shows
  <2>5. CASE k = 0
    <3>1. 1 .. k = {}
      BY <2>5
    <3>2. f[1 .. k] = a
      BY <2>4, <3>1
    <3>3. QED
      BY <2>1, <3>2 DEF TextOnly, Still, SameQueue, SamePerms
  <2>6. CASE k # 0
    <3>1. k \in 1 .. k /\ 1 .. k # {} /\ (1 .. k) \ {k} = 1 .. k - 1
      <4> HIDE DEF Bad
      <4>1. \A x : x \in (1 .. k) \ {k} <=> x \in 1 .. k - 1
        BY <2>2, <2>6
      <4>2. k \in 1 .. k
        BY <2>2, <2>6
      <4>3. QED
        BY <4>1, <4>2
    <3>2. Max(1 .. k) = k
      BY <2>2, <3>1, MaxIs
    <3>3. k - 1 \in 0 .. n /\ k - 1 \notin Bad /\ k \in 1 .. n
      BY <1>1, <2>1, <2>2, <2>6
    <3> DEFINE b == f[1 .. k - 1]
    <3>4. TextOnly(a, b)
      BY <3>3
    <3>5. f[1 .. k] = ToShell(b, evts[k])
      BY <2>4, <3>1, <3>2
    <3> HIDE DEF b
    <3>6. TextOnly(b, f[1 .. k])
      BY <1>1, <3>3, <3>4, <3>5, DeltaShows DEF TextOnly
    <3>7. TextOnly(a, f[1 .. k])
      BY <3>4, <3>6 DEF TextOnly, Still, SameQueue, SamePerms
    <3>8. QED
      BY <2>1, <3>7
  <2>7. QED
    BY <2>5, <2>6
<1>4. n \in 0 .. n
  BY <1>1
<1>5. QED
  BY <1>2, <1>3, <1>4
-----------------------------------------------------------------------------
(* What an event of the host does to the adapter *)

Forwarded(a, b, e) ==
    /\ AdapterOK(b) /\ Applied(a.shell, b.shell, e)
    /\ e.type \notin {"requested", "resolved"} => b.pending = a.pending
    /\ e.type = "requested" => b.pending = a.pending \cup {e.perm}
    /\ e.type = "resolved" => b.pending = a.pending \ {e.perm}
    /\ b.paused # <<>> => b.pending # {} \/ (a.paused # <<>> /\ e.type # "resolved")

\* The text that follows an event changes nothing of what the event did.
LEMMA AppliedThenText ==
    ASSUME NEW s, NEW u, NEW t, NEW e, Applied(s, u, e), Still(u, t), ShellOK(t)
    PROVE  Applied(s, t, e)
  BY DEF Applied, Still, SameQueue, SamePerms, Released, Begun

\* The adapter hands an event over after some of its own parts have changed.
LEMMA HandedOver ==
    ASSUME NEW a, AdapterOK(a), Once(a.shell.perms), NEW e, EventOK(e),
           NEW r \in Run \cup {None}, NEW ps \in SUBSET Perm
    PROVE  LET b == ToShell(WithParts(a, r, ps, a.paused, a.detached), e)
           IN  /\ AdapterOK(b) /\ Applied(a.shell, b.shell, e) /\ b.pending = ps
               /\ b.paused = a.paused /\ b.detached = a.detached
<1> DEFINE c == WithParts(a, r, ps, a.paused, a.detached)
<1>1. /\ AdapterOK(c) /\ c.shell = a.shell /\ c.attached = r /\ c.pending = ps
      /\ c.paused = a.paused /\ c.detached = a.detached
  BY AdapterParts, NewParts
<1>2. Applied(a.shell, ApplyHostEvent(a.shell, e), e)
  BY AdapterParts, Applies
<1>3. ShellOK(ApplyHostEvent(a.shell, e))
  BY <1>2 DEF Applied
<1> HIDE DEF c
<1>4. QED
  BY <1>1, <1>2, <1>3, ToShellIs DEF c

\* adapter.go: what ForwardEvent makes of the adapter, for each event.
LEMMA Forwards ==
    ASSUME NEW a, AdapterOK(a), Once(a.shell.perms), NEW e, EventOK(e)
    PROVE  Forwarded(a, ForwardEvent(a, e), e)
<1> DEFINE b == ForwardEvent(a, e)
           s == a.shell
<1>1. /\ e.type \in Kind /\ e.run \in Run \cup {None} /\ e.perm \in Perm \cup {None}
      /\ e.type = "delta" => e \in Deltas
      /\ e.type = "started" => e.run \in Run
      /\ e.type = "requested" => e.perm \in Perm
  BY DEF EventOK, EventRecord, Deltas
<1>2. /\ ShellOK(s) /\ a.attached \in Run \cup {None} /\ a.pending \in SUBSET Perm
      /\ a.paused \in Text /\ a.detached \in Apart
  BY AdapterParts
<1>a. a = WithParts(a, a.attached, a.pending, a.paused, a.detached)
  BY DEF AdapterOK, WithParts
<1>3. CASE e.type = "delta"
  <2>1. b = ForwardDelta(a, e)
    BY <1>3 DEF ForwardEvent
  <2>2. CASE a.pending # {}
    <3> DEFINE c == WithParts(a, a.attached, a.pending, Append(a.paused, e), a.detached)
    <3>1. b = c
      BY <2>1, <2>2 DEF ForwardDelta, WithParts, AdapterOK
    <3>2. Append(a.paused, e) \in Text
      BY <1>1, <1>2, <1>3 DEF Text
    <3> HIDE DEF b
    <3>3. AdapterOK(b) /\ b.shell = s /\ b.pending = a.pending
      <4> DEFINE held == Append(a.paused, e)
      <4> HIDE DEF held
      <4>1. held \in Text /\ b = WithParts(a, a.attached, a.pending, held, a.detached)
        BY <3>1, <3>2 DEF held
      <4>2. QED
        BY <1>2, <4>1, NewParts, SMTT(30)
    <3>4. QED
      BY <1>2, <1>3, <2>2, <3>3 DEF Forwarded, Applied, SameQueue, SamePerms, b
  <2>3. CASE a.pending = {} /\ e.run # a.attached
    <3> DEFINE more == Append(a.detached[e.run], e)
               apart == [a.detached EXCEPT ![e.run] = more]
               c == WithParts(a, a.attached, a.pending, a.paused, apart)
    <3>1. e.run \in Run /\ more \in Text
      BY <1>1, <1>2, <1>3 DEF Deltas, Text, Apart
    <3>2. b = c
      BY <2>1, <2>3 DEF ForwardDelta, WithParts, AdapterOK
    <3>3. apart \in Apart
      <4> HIDE DEF more
      <4>1. QED
        BY <1>2, <3>1 DEF Apart
    <3> HIDE DEF b, apart
    <3>4. AdapterOK(b) /\ b.shell = s /\ b.pending = a.pending /\ b.paused = a.paused
      BY <1>2, <3>2, <3>3, NewParts
    <3>5. QED
      BY <1>2, <1>3, <3>4 DEF Forwarded, Applied, SameQueue, SamePerms, b
  <2>4. CASE a.pending = {} /\ e.run = a.attached
    <3>1. b = ToShell(a, e)
      BY <2>1, <2>4 DEF ForwardDelta
    <3>2. TextOnly(a, b)
      BY <1>1, <1>3, <3>1, DeltaShows
    <3> HIDE DEF b
    <3>3. ShellOK(b.shell)
      BY <3>2, AdapterParts DEF TextOnly
    <3>4. QED
      BY <1>3, <3>2, <3>3
         DEF Forwarded, TextOnly, Still, Applied, SameQueue, SamePerms, b
  <2>5. QED
    BY <2>2, <2>3, <2>4
<1>4. CASE e.type = "started"
  <2> DEFINE c == ToShell(WithParts(a, e.run, a.pending, a.paused, a.detached), e)
             apart == [a.detached EXCEPT ![e.run] = <<>>]
             d == WithParts(c, c.attached, c.pending, c.paused, apart)
  <2>1. /\ AdapterOK(c) /\ Applied(s, c.shell, e) /\ c.pending = a.pending
        /\ c.paused = a.paused /\ c.detached = a.detached
    BY <1>1, <1>2, HandedOver
  <2>2. [a EXCEPT !.attached = e.run] = WithParts(a, e.run, a.pending, a.paused, a.detached)
    BY DEF WithParts, AdapterOK
  <2>3. b = AllToShell([c EXCEPT !.detached[e.run] = <<>>], a.detached[e.run])
    BY <1>4, <2>2 DEF ForwardEvent, ForwardStarted
  <2> HIDE DEF c
  <2>4. [c EXCEPT !.detached[e.run] = <<>>] = d
    BY <2>1 DEF WithParts, AdapterOK
  <2>5. apart \in Apart
    <3>1. <<>> \in Text
      BY EmptySeq DEF Text
    <3>2. QED
      BY <1>2, <3>1 DEF Apart
  <2> HIDE DEF apart
  <2>6. AdapterOK(d) /\ d.shell = c.shell /\ d.pending = a.pending /\ d.paused = a.paused
    BY <2>1, <2>5, NewParts, AdapterParts
  <2>7. a.detached[e.run] \in Text
    BY <1>1, <1>2, <1>4 DEF Apart
  <2> HIDE DEF d, b
  <2>8. TextOnly(d, b)
    <3> DEFINE evts == a.detached[e.run]
    <3>1. evts \in Text /\ b = AllToShell(d, evts)
      BY <2>3, <2>4, <2>7 DEF b
    <3> HIDE DEF evts
    <3>2. QED
      BY <2>6, <3>1, AllShown
  <2>9. AdapterOK(b) /\ ShellOK(b.shell) /\ Still(c.shell, b.shell)
        /\ b.pending = a.pending /\ b.paused = a.paused
    BY <2>6, <2>8, AdapterParts DEF TextOnly
  <2>10. Applied(s, b.shell, e)
    BY <2>1, <2>9, AppliedThenText
  <2>11. QED
    BY <1>4, <2>9, <2>10 DEF Forwarded, b
<1>5. CASE e.type = "resolved"
  <2> DEFINE left == a.pending \ {e.perm}
             c == ToShell(WithParts(a, a.attached, left, a.paused, a.detached), e)
  <2>0. left \in SUBSET Perm
    BY <1>2
  <2> HIDE DEF left
  <2>1. /\ AdapterOK(c) /\ Applied(s, c.shell, e) /\ c.pending = left
        /\ c.paused = a.paused /\ c.detached = a.detached
    BY <1>2, <2>0, HandedOver
  <2>2. [a EXCEPT !.pending = left] = WithParts(a, a.attached, left, a.paused, a.detached)
    BY DEF WithParts, AdapterOK
  <2>3. b = IF left # {} THEN c ELSE AllToShell([c EXCEPT !.paused = <<>>], a.paused)
    BY <1>5, <2>2 DEF ForwardEvent, ForwardResolved, left
  <2> HIDE DEF c, b
  <2>4. CASE left # {}
    <3>1. b = c
      BY <2>3, <2>4
    <3>2. QED
      BY <1>5, <2>1, <2>4, <3>1 DEF Forwarded, b, left
  <2>5. CASE left = {}
    <3> DEFINE d == WithParts(c, c.attached, c.pending, <<>>, c.detached)
               evts == a.paused
    <3>1. [c EXCEPT !.paused = <<>>] = d
      BY <2>1 DEF WithParts, AdapterOK
    <3>2. <<>> \in Text
      BY EmptySeq DEF Text
    <3>3. AdapterOK(d) /\ d.shell = c.shell /\ d.pending = left /\ d.paused = <<>>
      BY <2>1, <3>2, NewParts, AdapterParts
    <3>4. evts \in Text /\ b = AllToShell(d, evts)
      BY <1>2, <2>3, <2>5, <3>1
    <3> HIDE DEF d, evts
    <3>5. TextOnly(d, b)
      BY <3>3, <3>4, AllShown
    <3>6. AdapterOK(b) /\ ShellOK(b.shell) /\ Still(c.shell, b.shell)
          /\ b.pending = left /\ b.paused = <<>>
      BY <3>3, <3>5, AdapterParts DEF TextOnly
    <3>7. Applied(s, b.shell, e)
      BY <2>1, <3>6, AppliedThenText
    <3>8. QED
      BY <1>5, <3>6, <3>7 DEF Forwarded, b, left
  <2>6. QED
    BY <2>4, <2>5
<1>6. CASE e.type = "accepted"
  <2>1. [a EXCEPT !.attached = e.run] = WithParts(a, e.run, a.pending, a.paused, a.detached)
    BY DEF WithParts, AdapterOK
  <2>2. b = ToShell(WithParts(a, e.run, a.pending, a.paused, a.detached), e)
    BY <1>6, <2>1 DEF ForwardEvent
  <2> DEFINE c == ToShell(WithParts(a, e.run, a.pending, a.paused, a.detached), e)
  <2>3. /\ AdapterOK(c) /\ Applied(s, c.shell, e) /\ c.pending = a.pending
        /\ c.paused = a.paused /\ c.detached = a.detached
    BY <1>1, <1>2, HandedOver
  <2>4. b = c
    BY <2>2
  <2> HIDE DEF c, b
  <2>5. QED
    BY <1>6, <2>3, <2>4 DEF Forwarded, b
<1>7. CASE e.type = "requested"
  <2> DEFINE ps == a.pending \cup {e.perm}
  <2>1. ps \in SUBSET Perm /\ ps # {}
    BY <1>1, <1>2, <1>7
  <2> HIDE DEF ps
  <2>2. [a EXCEPT !.pending = ps] = WithParts(a, a.attached, ps, a.paused, a.detached)
    BY DEF WithParts, AdapterOK
  <2>3. b = ToShell(WithParts(a, a.attached, ps, a.paused, a.detached), e)
    BY <1>7, <2>2 DEF ForwardEvent, ps
  <2> DEFINE c == ToShell(WithParts(a, a.attached, ps, a.paused, a.detached), e)
  <2>4. /\ AdapterOK(c) /\ Applied(s, c.shell, e) /\ c.pending = ps
        /\ c.paused = a.paused /\ c.detached = a.detached
    BY <1>1, <1>2, <2>1, HandedOver
  <2>5. b = c
    BY <2>3
  <2> HIDE DEF c, b
  <2>6. QED
    BY <1>7, <2>1, <2>4, <2>5 DEF Forwarded, b, ps
<1>8. CASE e.type \in {"completed", "stopped", "failed"}
  <2> DEFINE r == IF e.run = a.attached THEN None ELSE a.attached
  <2>1. r \in Run \cup {None}
    BY <1>2
  <2>2. (IF e.run = a.attached THEN [a EXCEPT !.attached = None] ELSE a)
           = WithParts(a, r, a.pending, a.paused, a.detached)
    BY DEF WithParts, AdapterOK
  <2> HIDE DEF r
  <2>3. b = ToShell(WithParts(a, r, a.pending, a.paused, a.detached), e)
    BY <1>8, <2>2 DEF ForwardEvent
  <2> DEFINE c == ToShell(WithParts(a, r, a.pending, a.paused, a.detached), e)
  <2>4. /\ AdapterOK(c) /\ Applied(s, c.shell, e) /\ c.pending = a.pending
        /\ c.paused = a.paused /\ c.detached = a.detached
    BY <1>1, <1>2, <2>1, HandedOver
  <2>5. b = c
    BY <2>3
  <2> HIDE DEF c, b
  <2>6. QED
    BY <1>8, <2>4, <2>5 DEF Forwarded, b
<1>9. CASE e.type \in {"refused", "cleared", "preview"}
  <2> DEFINE c == ToShell(WithParts(a, a.attached, a.pending, a.paused, a.detached), e)
  <2>1. b = ToShell(a, e)
    BY <1>9 DEF ForwardEvent
  <2>2. /\ AdapterOK(c) /\ Applied(s, c.shell, e) /\ c.pending = a.pending
        /\ c.paused = a.paused /\ c.detached = a.detached
    BY <1>1, <1>2, HandedOver
  <2> HIDE DEF b
  <2>3. b = c
    BY <1>a, <2>1
  <2> HIDE DEF c
  <2>4. QED
    BY <1>9, <2>2, <2>3 DEF Forwarded, b
<1>10. QED
  BY <1>1, <1>3, <1>4, <1>5, <1>6, <1>7, <1>8, <1>9 DEF Kind
-----------------------------------------------------------------------------
(* The invariant *)

\* The adapter and its shell hold the same requests, each once, and text is held back
\* for no other reason.
AdapterInv(a) ==
    /\ AdapterOK(a) /\ Once(a.shell.perms)
    /\ ToSet(a.shell.perms) = a.pending
    /\ a.paused # <<>> => a.pending # {}

Ends    == {e \in EventRecord : e.type \in Terminal}
Replays == Seq(Deltas \cup Ends)

TaskRecord ==
    [kind : {"submit", "interrupt", "resolve", "preview", "clear", "attach", "detach", "resume"},
     id : Nat, at : {"call", "accepted", "start", "stop", "tell", "replay"},
     run : Run \cup {None}, perm : Perm \cup {None}, decision : Decision \cup {None},
     replay : Replays]

\* What a goroutine works on has the sort its kind needs.
TaskOK(t) ==
    /\ t \in TaskRecord
    /\ t.kind = "submit" /\ t.at # "call" => t.run \in Run
    /\ t.kind = "attach" => t.run \in Run
    /\ t.kind = "resolve" => t.perm \in Perm

\* A goroutine sends a RunStarted of its own for a label or an attach only, and carries
\* an approval the user gave.
TaskInv(t) ==
    /\ TaskOK(t)
    /\ t.at = "start" => label
    /\ t.kind = "attach" => attachUsed
    /\ t.kind = "resolve" /\ t.decision = "approve" => t.perm \in approved

TasksInv == \A t \in tasks : TaskInv(t)

Prompts == [at : {"none", "open", "leaving", "gone"},
            chan : Decision \cup {None}, result : Decision \cup {None}]

PartsOK ==
    /\ hostRun \in Run \cup {None} /\ label \in BOOLEAN /\ live \in BOOLEAN
    /\ prompts \in [Perm -> Prompts]
    /\ runs \in [Run -> [state : RunState, log : Nat]]
    /\ typed \in Nat /\ keys \in Nat /\ drops \in Nat
    /\ wiped \in SUBSET (1 .. typed) /\ approved \in SUBSET Perm
    /\ attachUsed \in BOOLEAN

\* A request that was not made is not pending.
AskedInv == \A p \in Perm : prompts[p].at = "none" => p \notin ui.pending

\* An approval on its way to a tool call was given by the user.
ApprovedInv ==
    \A p \in Perm : "approve" \in {prompts[p].chan, prompts[p].result} => p \in approved

CallTask(t) == t.kind = "submit" /\ t.at = "call"
Calling(ts) == \E t \in ts : CallTask(t)
Working(rs) == \E r \in Run : rs[r].state \in {"live", "cancelled"}

\* A shell that streams waits for a call or for a run, unless something out of its sight
\* set it streaming or took the end away.
StreamInv ==
    /\ ui.shell.streaming => Calling(tasks) \/ Working(runs) \/ label \/ attachUsed \/ drops > 0
    /\ ~live => drops > 0

\* Everything said, in the order of the submissions and of the queue behind them.
SaidOK(s) == FlattenSeq(s.sent) \in Seq(Nat)
Said(s)   == FlattenSeq(s.sent) \o s.queued

InOrder(all, n, W) ==
    /\ ToSet(all) = (1 .. n) \ W
    /\ \A i, j \in DOMAIN all : i < j => all[i] < all[j]

SaidInv == SaidOK(ui.shell) /\ InOrder(Said(ui.shell), typed, wiped)

HostInv ==
    AdapterInv(ui) /\ TasksInv /\ PartsOK /\ AskedInv /\ ApprovedInv /\ StreamInv /\ SaidInv
-----------------------------------------------------------------------------
(* Requests *)

\* A sequence without repetitions is as long as its elements are many.
LEMMA OnceCounts ==
    ASSUME NEW ps, Len(ps) \in Nat, DOMAIN ps = 1 .. Len(ps), Once(ps)
    PROVE  Len(ps) = Cardinality(ToSet(ps))
<1> DEFINE n == Len(ps)
           f == [i \in 1 .. n |-> ps[i]]
           S == ToSet(ps)
<1>1. IsFiniteSet(1 .. n) /\ Cardinality(1 .. n) = n
  <2>1. n \in Nat
    OBVIOUS
  <2> HIDE DEF n
  <2>2. IsFiniteSet(1 .. n) /\ Cardinality(1 .. n) = IF 1 > n THEN 0 ELSE n - 1 + 1
    BY <2>1, FS_Interval
  <2>3. QED
    BY <2>1, <2>2
<1>2. S = {ps[i] : i \in 1 .. n}
  BY DEF ToSet
<1> HIDE DEF n, S
<1>3. f \in Bijection(1 .. n, S)
  BY <1>2 DEF Once, n, Bijection, Injection, Surjection, IsInjective
<1>4. ExistsBijection(1 .. n, S)
  BY <1>3 DEF ExistsBijection
<1>5. Cardinality(S) = Cardinality(1 .. n)
  BY <1>1, <1>4, FS_Bijection
<1>6. QED
  BY <1>1, <1>5 DEF n, S

\* One request more, or one less.
LEMMA RequestJoins ==
    ASSUME NEW ps \in Seq(Perm), Once(ps), NEW p \in Perm, p \notin ToSet(ps)
    PROVE  Once(Append(ps, p)) /\ ToSet(Append(ps, p)) = ToSet(ps) \cup {p}
<1> DEFINE n == Len(ps)
           qs == Append(ps, p)
<1>1. /\ n \in Nat /\ Len(qs) = n + 1 /\ qs[n + 1] = p
      /\ \A i \in 1 .. n : qs[i] = ps[i]
  BY AppendProperties
<1>2. ToSet(ps) = {ps[i] : i \in 1 .. n} /\ DOMAIN qs = 1 .. Len(qs)
  BY AppendProperties DEF ToSet
<1>3. \A i \in 1 .. n : ps[i] # p
  BY <1>2
<1> HIDE DEF qs
<1>4. Once(qs)
  <2>1. \A i, j \in 1 .. n : ps[i] = ps[j] => i = j
    BY DEF Once
  <2> HIDE DEF n
  <2>2. \A i, j \in 1 .. n + 1 : qs[i] = qs[j] => i = j
    BY <1>1, <1>3, <2>1
  <2>3. QED
    BY <1>1, <2>2 DEF Once
<1>5. ToSet(qs) = {qs[i] : i \in 1 .. n + 1}
  BY <1>1, <1>2 DEF ToSet
<1> HIDE DEF n
<1>6. \A q : q \in ToSet(qs) <=> q \in ToSet(ps) \cup {p}
  <2>1. ASSUME NEW i \in 1 .. n + 1 PROVE qs[i] \in ToSet(ps) \cup {p}
    BY <1>1, <1>2
  <2>2. ASSUME NEW i \in 1 .. n PROVE ps[i] \in ToSet(qs)
    <3>1. i \in 1 .. n + 1
      BY <1>1
    <3>2. QED
      BY <1>1, <1>5, <3>1
  <2>3. p \in ToSet(qs)
    <3>1. n + 1 \in 1 .. n + 1
      BY <1>1
    <3>2. QED
      BY <1>1, <1>5, <3>1
  <2>4. QED
    BY <1>2, <1>5, <2>1, <2>2, <2>3
<1>7. QED
  BY <1>4, <1>6 DEF qs

\* adapter.go, permissions.go: an event keeps the shell's requests and the adapter's the same.
LEMMA AdapterKeeps ==
    ASSUME NEW a, AdapterInv(a), NEW e, EventOK(e),
           e.type = "requested" => e.perm \notin a.pending
    PROVE  AdapterInv(ForwardEvent(a, e))
<1> DEFINE b == ForwardEvent(a, e)
           ps == a.shell.perms
<1>1. Forwarded(a, b, e)
  BY Forwards DEF AdapterInv
<1> HIDE DEF b
<1>2. AdapterOK(b) /\ (b.paused # <<>> => b.pending # {})
  BY <1>1 DEF Forwarded, AdapterInv
<1>3. ps \in Seq(Perm) /\ Once(ps) /\ ToSet(ps) = a.pending
  BY AdapterParts, KeptFields DEF AdapterInv
<1>4. CASE e.type = "requested"
  <2>1. b.shell.perms = Append(ps, e.perm) /\ b.pending = a.pending \cup {e.perm}
    BY <1>1, <1>4 DEF Forwarded, Applied
  <2>2. e.perm \in Perm
    BY <1>4 DEF EventOK
  <2> HIDE DEF ps
  <2>3. QED
    BY <1>2, <1>3, <1>4, <2>1, <2>2, RequestJoins DEF AdapterInv, b
<1>5. CASE e.type = "resolved"
  <2>1. b.shell.perms = RemoveFirst(ps, e.perm) /\ b.pending = a.pending \ {e.perm}
    BY <1>1, <1>5 DEF Forwarded, Applied
  <2> HIDE DEF ps
  <2>2. LET left == RemoveFirst(ps, e.perm)
        IN  ToSet(left) = ToSet(ps) \ {e.perm} /\ Once(left)
    BY <1>3, TakenOut DEF Once
  <2>3. QED
    BY <1>2, <1>3, <2>1, <2>2 DEF AdapterInv, b
<1>6. CASE e.type \notin {"requested", "resolved"}
  BY <1>1, <1>2, <1>3, <1>6 DEF Forwarded, Applied, SamePerms, AdapterInv, b
<1>7. QED
  BY <1>4, <1>5, <1>6
-----------------------------------------------------------------------------
(* What the user has said *)

\* What a shell has submitted and queued are messages.
LEMMA ShellSays ==
    ASSUME NEW s, ShellOK(s), SaidOK(s)
    PROVE  s.sent \in Seq(Seq(Nat)) /\ s.queued \in Seq(Nat) /\ FlattenSeq(s.sent) \in Seq(Nat)
  BY KeptFields DEF SaidOK

\* queue.go: one more submission.
LEMMA BegunSays ==
    ASSUME NEW s, ShellOK(s), SaidOK(s), NEW t, NEW said \in Seq(Nat), Begun(s, t, said)
    PROVE  SaidOK(t) /\ FlattenSeq(t.sent) = FlattenSeq(s.sent) \o said
<1>1. s.sent \in Seq(Seq(Nat)) /\ FlattenSeq(s.sent) \in Seq(Nat)
  BY ShellSays
<1>2. FlattenSeq(Append(s.sent, said)) = FlattenSeq(s.sent) \o said
  BY <1>1, FlattenAppend
<1>3. FlattenSeq(s.sent) \o said \in Seq(Nat)
  BY <1>1, ConcatProperties
<1>4. QED
  BY <1>2, <1>3 DEF Begun, SaidOK

\* queue.go: releasing the queue neither loses nor reorders what was said.
LEMMA ReleasedSays ==
    ASSUME NEW s, ShellOK(s), SaidOK(s), NEW t, Released(s, t)
    PROVE  SaidOK(t) /\ Said(t) = Said(s)
<1>1. CASE s.queued = <<>> /\ SameQueue(s, t)
  BY <1>1 DEF SameQueue, SaidOK, Said
<1>2. CASE s.queued # <<>> /\ Begun(s, t, s.queued) /\ t.queued = <<>>
  <2>1. s.queued \in Seq(Nat)
    BY ShellSays
  <2>2. SaidOK(t) /\ FlattenSeq(t.sent) = FlattenSeq(s.sent) \o s.queued
    BY <1>2, <2>1, BegunSays
  <2>3. FlattenSeq(t.sent) \o <<>> = FlattenSeq(t.sent)
    BY <2>2, ConcatEmptySeq DEF SaidOK
  <2>4. QED
    BY <1>2, <2>2, <2>3 DEF Said
<1>3. QED
  BY <1>1, <1>2 DEF Released

\* queue.go: a message is said last, whether it leaves at once, waits, or leaves with
\* those that wait.
LEMMA SubmitSays ==
    ASSUME NEW s, ShellOK(s), SaidOK(s), NEW m \in Nat
    PROVE  LET t == SubmitText(s, m)
           IN  /\ ShellOK(t) /\ SamePerms(s, t) /\ SaidOK(t) /\ Said(t) = Append(Said(s), m)
               /\ t.streaming
               /\ s.streaming \/ \E q : Begun(s, t, q)
<1> DEFINE t == SubmitText(s, m)
           F == FlattenSeq(s.sent)
           q == Append(s.queued, m)
           u == WithQueue(s, q)
<1>0. s.streaming \in BOOLEAN
  BY KeptFields
<1>1. s.queued \in Seq(Nat) /\ F \in Seq(Nat)
  BY ShellSays
<1>2. q \in Seq(Nat) /\ <<m>> \in Seq(Nat) /\ q # <<>>
  <2>1. q \in Seq(Nat) /\ q # <<>>
    BY <1>1, AppendProperties, ZenonT(30)
  <2>2. <<m>> \in Seq(Nat)
    OBVIOUS
  <2>3. QED
    BY <2>1, <2>2
<1>3. Append(F \o s.queued, m) = F \o q
  <2> DEFINE w == s.queued
  <2>1. w \in Seq(Nat) /\ <<m>> \in Seq(Nat) /\ q = Append(w, m)
    BY <1>1, <1>2
  <2> HIDE DEF w, q, F
  <2>2. q = w \o <<m>>
    BY <2>1, AppendIsConcat
  <2>3. F \o w \in Seq(Nat)
    BY <1>1, <2>1, ConcatProperties
  <2>4. Append(F \o w, m) = (F \o w) \o <<m>>
    BY <2>3, AppendIsConcat
  <2>5. (F \o w) \o <<m>> = F \o (w \o <<m>>)
    BY <1>1, <2>1, ConcatAssociative
  <2>6. QED
    BY <2>2, <2>4, <2>5 DEF w
<1>4. Enqueue(s, m) = u
  BY DEF Enqueue, WithQueue
<1> HIDE DEF q
<1>5. ShellOK(u) /\ u.queued = q /\ u.sent = s.sent /\ SamePerms(s, u)
      /\ u.streaming = s.streaming
  BY <1>2, Queues
<1> HIDE DEF u, F
<1>6. CASE s.streaming
  <2>1. t = u
    BY <1>4, <1>6 DEF SubmitText
  <2> HIDE DEF t
  <2>2. QED
    BY <1>3, <1>5, <1>6, <2>1 DEF Said, SaidOK, F, t
<1>7. CASE ~s.streaming /\ s.queued # <<>>
  <2>1. t = Release(u)
    BY <1>4, <1>7 DEF SubmitText
  <2>2. ShellOK(t) /\ Released(u, t) /\ SamePerms(u, t)
    BY <1>5, <2>1, Releases
  <2> HIDE DEF t
  <2>3. SaidOK(u) /\ Said(u) = F \o q
    BY <1>5 DEF SaidOK, Said, F
  <2>4. SaidOK(t) /\ Said(t) = F \o q
    BY <1>5, <2>2, <2>3, ReleasedSays
  <2>5. Begun(s, t, q)
    BY <1>2, <1>5, <2>2 DEF Released, Begun
  <2>6. QED
    BY <1>3, <1>5, <2>2, <2>4, <2>5 DEF Said, SamePerms, Begun, F, t
<1>8. CASE ~s.streaming /\ s.queued = <<>>
  <2>1. t = BeginSubmission(s, <<m>>)
    BY <1>8 DEF SubmitText
  <2>2. ShellOK(t) /\ Begun(s, t, <<m>>) /\ t.queued = <<>> /\ SamePerms(s, t)
    BY <1>2, <1>8, <2>1, Begins
  <2> HIDE DEF t
  <2>3. SaidOK(t) /\ FlattenSeq(t.sent) = F \o <<m>>
    BY <1>2, <2>2, BegunSays DEF F
  <2>4. Said(t) = F \o <<m>> /\ Said(s) = F
    BY <1>1, <1>2, <1>8, <2>2, <2>3, ConcatEmptySeq, ConcatProperties DEF Said, F
  <2>5. Append(F, m) = F \o <<m>>
    BY <1>1, AppendIsConcat
  <2>6. Said(t) = Append(Said(s), m)
    BY <2>4, <2>5
  <2>7. t.streaming
    BY <2>2 DEF Begun
  <2>8. QED
    BY <2>2, <2>3, <2>6, <2>7 DEF t
<1>9. QED
  BY <1>0, <1>6, <1>7, <1>8
-----------------------------------------------------------------------------
(* The order of what was said *)

\* A new message is numbered above the others.
LEMMA OrderGrows ==
    ASSUME NEW n \in Nat, NEW W \in SUBSET (1 .. n), NEW all \in Seq(Nat), InOrder(all, n, W)
    PROVE  InOrder(Append(all, n + 1), n + 1, W)
<1> DEFINE k == Len(all)
           new == Append(all, n + 1)
<1>1. /\ k \in Nat /\ Len(new) = k + 1 /\ new[k + 1] = n + 1 /\ new \in Seq(Nat)
      /\ \A i \in 1 .. k : new[i] = all[i]
  BY AppendProperties
<1>2. DOMAIN all = 1 .. k /\ DOMAIN new = 1 .. k + 1
  BY <1>1
<1>3. ToSet(all) = {all[i] : i \in 1 .. k} /\ ToSet(new) = {new[i] : i \in 1 .. k + 1}
  BY <1>2 DEF ToSet
<1> HIDE DEF k, new
<1>4. \A i \in 1 .. k : all[i] \in 1 .. n /\ all[i] \notin W
  BY <1>3 DEF InOrder
<1>5. ASSUME NEW i \in 1 .. k + 1, NEW j \in 1 .. k + 1, i < j PROVE new[i] < new[j]
  <2>1. i \in 1 .. k
    BY <1>1, <1>5
  <2>2. CASE j \in 1 .. k
    BY <1>1, <1>2, <1>5, <2>1, <2>2 DEF InOrder
  <2>3. CASE j = k + 1
    <3>1. new[i] \in 1 .. n /\ new[j] = n + 1
      BY <1>1, <1>4, <2>1, <2>3
    <3>2. QED
      BY <3>1
  <2>4. QED
    BY <1>1, <1>5, <2>2, <2>3
<1>6. \A x : x \in ToSet(new) <=> x \in (1 .. n + 1) \ W
  <2>1. ASSUME NEW i \in 1 .. k + 1 PROVE new[i] \in (1 .. n + 1) \ W
    <3>1. CASE i \in 1 .. k
      <4>1. new[i] \in (1 .. n) \ W
        BY <1>1, <1>4, <3>1
      <4>2. QED
        BY <4>1
    <3>2. CASE i = k + 1
      BY <1>1, <3>2
    <3>3. QED
      BY <1>1, <3>1, <3>2
  <2>2. ASSUME NEW x \in (1 .. n + 1) \ W PROVE \E i \in 1 .. k + 1 : new[i] = x
    <3>1. CASE x = n + 1
      <4>1. k + 1 \in 1 .. k + 1
        BY <1>1
      <4>2. QED
        BY <1>1, <3>1, <4>1
    <3>2. CASE x # n + 1
      <4>1. x \in (1 .. n) \ W
        BY <3>2
      <4>2. PICK i \in 1 .. k : all[i] = x
        BY <1>3, <4>1 DEF InOrder
      <4>3. i \in 1 .. k + 1 /\ new[i] = x
        BY <1>1, <4>2
      <4>4. QED
        BY <4>3
    <3>3. QED
      BY <3>1, <3>2
  <2>3. QED
    BY <1>3, <2>1, <2>2
<1>7. QED
  BY <1>2, <1>5, <1>6 DEF InOrder, new

\* What waited is wiped, and only that.
LEMMA OrderWiped ==
    ASSUME NEW n \in Nat, NEW W \in SUBSET (1 .. n), NEW F \in Seq(Nat), NEW q \in Seq(Nat),
           InOrder(F \o q, n, W)
    PROVE  /\ InOrder(F \o <<>>, n, W \cup ToSet(q))
           /\ W \cup ToSet(q) \in SUBSET (1 .. n)
<1> DEFINE k == Len(F)
           l == Len(q)
           all == F \o q
<1>1. /\ k \in Nat /\ l \in Nat /\ Len(all) = k + l /\ DOMAIN all = 1 .. k + l
      /\ DOMAIN F = 1 .. k /\ DOMAIN q = 1 .. l
      /\ \A i \in 1 .. k + l : all[i] = IF i <= k THEN F[i] ELSE q[i - k]
  BY ConcatProperties
<1>2. F \o <<>> = F
  BY ConcatEmptySeq
<1>3. /\ ToSet(all) = {all[i] : i \in 1 .. k + l} /\ ToSet(F) = {F[i] : i \in 1 .. k}
      /\ ToSet(q) = {q[i] : i \in 1 .. l}
  BY <1>1 DEF ToSet
<1>4. InOrder(all, n, W)
  OBVIOUS
<1> HIDE DEF k, l, all
<1>5. \A i \in 1 .. k : i \in 1 .. k + l /\ all[i] = F[i]
  <2> SUFFICES ASSUME NEW i \in 1 .. k PROVE i \in 1 .. k + l /\ all[i] = F[i]
    OBVIOUS
  <2>1. i \in 1 .. k + l /\ i <= k
    BY <1>1
  <2>2. QED
    BY <1>1, <2>1
<1>6. \A j \in 1 .. l : k + j \in 1 .. k + l /\ all[k + j] = q[j]
  <2> SUFFICES ASSUME NEW j \in 1 .. l PROVE k + j \in 1 .. k + l /\ all[k + j] = q[j]
    OBVIOUS
  <2>1. k + j \in 1 .. k + l /\ ~(k + j <= k) /\ (k + j) - k = j
    BY <1>1
  <2>2. QED
    BY <1>1, <2>1
<1>7. \A i \in 1 .. k, j \in 1 .. l : F[i] < q[j]
  <2> SUFFICES ASSUME NEW i \in 1 .. k, NEW j \in 1 .. l PROVE F[i] < q[j]
    OBVIOUS
  <2>1. i < k + j
    BY <1>1
  <2>2. QED
    BY <1>1, <1>4, <1>5, <1>6, <2>1 DEF InOrder
<1>8. \A i, j \in 1 .. k : i < j => F[i] < F[j]
  BY <1>1, <1>4, <1>5 DEF InOrder
<1>9. ToSet(q) \in SUBSET (1 .. n)
  <2>1. \A j \in 1 .. l : q[j] \in ToSet(all)
    BY <1>3, <1>6
  <2>2. QED
    BY <1>3, <1>4, <2>1 DEF InOrder
<1>10. ASSUME NEW x PROVE x \in ToSet(F) <=> x \in (1 .. n) \ (W \cup ToSet(q))
  <2>1. ASSUME NEW i \in 1 .. k PROVE F[i] \in (1 .. n) \ (W \cup ToSet(q))
    <3>1. F[i] \in ToSet(all)
      BY <1>3, <1>5
    <3>2. F[i] \in Nat
      BY <1>1
    <3>3. F[i] \notin ToSet(q)
      BY <1>3, <1>7, <3>2
    <3>4. QED
      BY <1>4, <3>1, <3>3 DEF InOrder
  <2>2. ASSUME x \in (1 .. n) \ (W \cup ToSet(q)) PROVE \E i \in 1 .. k : F[i] = x
    <3>1. PICK i \in 1 .. k + l : all[i] = x
      BY <1>3, <1>4, <2>2 DEF InOrder
    <3>2. CASE i <= k
      BY <1>1, <3>1, <3>2
    <3>3. CASE ~(i <= k)
      <4>1. i - k \in 1 .. l /\ q[i - k] = x
        BY <1>1, <3>1, <3>3
      <4>2. QED
        BY <1>3, <2>2, <4>1
    <3>4. QED
      BY <3>2, <3>3
  <2>3. QED
    BY <1>3, <2>1, <2>2
<1>11. QED
  BY <1>1, <1>2, <1>8, <1>9, <1>10 DEF InOrder
-----------------------------------------------------------------------------
(* A goroutine sends an event *)

\* A submission begins as a call that needs nothing.
LEMMA SubmitTaskOK ==
    ASSUME NEW i \in Nat
    PROVE  LET t == Task("submit", i)
           IN  TaskOK(t) /\ CallTask(t)
<1>1. <<>> \in Replays
  BY EmptySeq DEF Replays
<1>2. QED
  BY <1>1 DEF Task, TaskOK, TaskRecord, CallTask

\* What the shell has just said is on its way.
LEMMA SubmitsThem ==
    ASSUME NEW u, ShellOK(ui.shell), ShellOK(u.shell)
    PROVE  /\ \A t \in Submits(u) : TaskOK(t) /\ t.kind = "submit" /\ t.at = "call"
           /\ (\E q : Begun(ui.shell, u.shell, q)) => \E t \in Submits(u) : CallTask(t)
<1>1. sent \in Seq(Seq(Nat)) /\ u.shell.sent \in Seq(Seq(Nat))
  BY KeptFields DEF sent
<1>2. Len(sent) \in Nat
  BY <1>1
<1>3. \A i \in Len(sent) + 1 .. Len(u.shell.sent) : i \in Nat
  BY <1>1
<1>4. \A t \in Submits(u) : \E i \in Nat : t = Task("submit", i)
  BY <1>3 DEF Submits
<1>5. \A t \in Submits(u) : TaskOK(t) /\ t.kind = "submit" /\ t.at = "call"
  BY <1>4, SubmitTaskOK DEF CallTask
<1>6. ASSUME NEW q, Begun(ui.shell, u.shell, q) PROVE \E t \in Submits(u) : CallTask(t)
  <2>1. Len(u.shell.sent) = Len(sent) + 1
    BY <1>1, <1>6 DEF Begun, sent
  <2> DEFINE i == Len(sent) + 1
  <2>2. i \in Len(sent) + 1 .. Len(u.shell.sent) /\ i \in Nat
    BY <1>2, <2>1
  <2> HIDE DEF i
  <2>3. Task("submit", i) \in Submits(u) /\ CallTask(Task("submit", i))
    BY <2>2, SubmitTaskOK DEF Submits
  <2>4. QED
    BY <2>3
<1>7. QED
  BY <1>5, <1>6

\* What an event leaves of the messages and of the streaming.
LEMMA EventSays ==
    ASSUME NEW a, AdapterInv(a), SaidOK(a.shell), NEW e, EventOK(e)
    PROVE  LET b == ForwardEvent(a, e)
           IN  /\ SaidOK(b.shell)
               /\ e.type # "cleared" => Said(b.shell) = Said(a.shell)
               /\ e.type = "cleared" => Said(b.shell) = FlattenSeq(a.shell.sent) \o <<>>
               /\ b.shell.streaming =>
                      \/ e.type = "started"
                      \/ a.shell.streaming /\ e.type \notin {"refused", "stopped", "failed"}
                                           /\ e.type # "completed"
                      \/ \E q : Begun(a.shell, b.shell, q)
<1> DEFINE b == ForwardEvent(a, e)
           s == a.shell
           t == b.shell
<1>1. Applied(s, t, e) /\ AdapterOK(a) /\ ShellOK(s)
  BY Forwards, AdapterParts DEF AdapterInv, Forwarded
<1> HIDE DEF b
<1>2. CASE e.type = "completed"
  <2>1. Released(s, t)
    BY <1>1, <1>2 DEF Applied
  <2>2. SaidOK(t) /\ Said(t) = Said(s)
    BY <1>1, <2>1, ReleasedSays
  <2>3. s.queued = <<>> => ~t.streaming
    BY <1>1, <1>2 DEF Applied
  <2>4. QED
    BY <1>2, <2>1, <2>2, <2>3 DEF Released, b
<1>3. CASE e.type = "cleared"
  BY <1>1, <1>3 DEF Applied, SaidOK, Said, b
<1>4. CASE e.type \notin {"completed", "cleared"}
  BY <1>1, <1>4 DEF Applied, SameQueue, SaidOK, Said, b
<1>5. QED
  BY <1>2, <1>3, <1>4
-----------------------------------------------------------------------------
(* Tasks *)

Kinds == {"submit", "interrupt", "resolve", "preview", "clear", "attach", "detach", "resume"}
Ats   == {"call", "accepted", "start", "stop", "tell", "replay"}

\* A goroutine moves on.
Moved(t, at, r, replay) == [t EXCEPT !.at = at, !.run = r, !.replay = replay]

\* What a goroutine's record holds.
LEMMA TaskParts ==
    ASSUME NEW t, TaskOK(t)
    PROVE  /\ t.kind \in Kinds /\ t.id \in Nat /\ t.at \in Ats /\ t.run \in Run \cup {None}
           /\ t.perm \in Perm \cup {None} /\ t.decision \in Decision \cup {None}
           /\ t.replay \in Replays
  BY DEF TaskOK, TaskRecord, Kinds, Ats

\* A goroutine that moves on keeps its kind and what it was given.
LEMMA TaskMoves ==
    ASSUME NEW t, TaskOK(t), NEW at \in Ats, NEW r \in Run \cup {None}, NEW replay \in Replays
    PROVE  LET u == Moved(t, at, r, replay)
           IN  /\ u \in TaskRecord /\ u.kind = t.kind /\ u.id = t.id /\ u.at = at /\ u.run = r
               /\ u.perm = t.perm /\ u.decision = t.decision /\ u.replay = replay
  BY DEF TaskOK, TaskRecord, Moved, Ats

\* A goroutine begins with what it was given.
Given(kind, i, at, r, p, d, replay) ==
    [kind |-> kind, id |-> i, at |-> at, run |-> r, perm |-> p, decision |-> d,
     replay |-> replay]

\* A goroutine begins with a record of the right kind.
LEMMA TaskGiven ==
    ASSUME NEW kind \in Kinds, NEW i \in Nat, NEW at \in Ats, NEW r \in Run \cup {None},
           NEW p \in Perm \cup {None}, NEW d \in Decision \cup {None}, NEW replay \in Replays
    PROVE  LET u == Given(kind, i, at, r, p, d, replay)
           IN  /\ u \in TaskRecord /\ u.kind = kind /\ u.id = i /\ u.at = at /\ u.run = r
               /\ u.perm = p /\ u.decision = d /\ u.replay = replay
  BY DEF TaskRecord, Given, Kinds, Ats

\* A goroutine may have nothing to replay.
LEMMA NoReplay == <<>> \in Replays
  BY EmptySeq DEF Replays

\* production_runtime.go: the log of a run holds deltas and the end of the run.
LEMMA ReplayOK ==
    ASSUME PartsOK, NEW r \in Run
    PROVE  Replay(r) \in Replays
<1> DEFINE S == Deltas \cup Ends
           n == runs[r].log
           u == [i \in 1 .. n |-> Delta(r, i)]
           e == Event(runs[r].state, 0, r)
           v == IF runs[r].state \in Terminal THEN <<e>> ELSE <<>>
<1>1. n \in Nat
  BY DEF PartsOK
<1> HIDE DEF n
<1>2. \A i \in 1 .. n : Delta(r, i) \in S
  <2> SUFFICES ASSUME NEW i \in 1 .. n PROVE Delta(r, i) \in S
    OBVIOUS
  <2>1. i \in Nat
    BY <1>1
  <2>2. Delta(r, i) \in EventRecord /\ Delta(r, i).type = "delta" /\ Delta(r, i).run = r
    BY <2>1 DEF Delta, Event, EventRecord, Kind
  <2>3. QED
    BY <2>2 DEF Deltas
<1>3. runs[r].state \in Terminal => e \in S
  <2>1. runs[r].state \in Terminal => e \in EventRecord /\ e.type = runs[r].state
    BY DEF Event, EventRecord, Kind, Terminal
  <2>2. QED
    BY <2>1 DEF Ends
<1> HIDE DEF S, e
<1>4. u \in Seq(S)
  BY <1>1, <1>2
<1>5. v \in Seq(S)
  BY <1>3
<1>6. u \o v \in Seq(S)
  <2> HIDE DEF u, v
  <2>1. QED
    BY <1>4, <1>5, ConcatProperties
<1>7. Replay(r) = u \o v
  BY DEF Replay, n, e
<1>8. QED
  BY <1>6, <1>7 DEF Replays, S
-----------------------------------------------------------------------------
(* Events *)

\* An event of a run is well formed.
LEMMA EventIs ==
    ASSUME NEW type \in Kind, NEW i \in Nat, NEW r \in Run \cup {None},
           type \in {"delta", "started"} => r \in Run, type # "requested"
    PROVE  EventOK(Event(type, i, r)) /\ Event(type, i, r).type = type
  BY DEF Event, EventOK, EventRecord

\* An event of a request is well formed and names the request.
LEMMA PromptIs ==
    ASSUME NEW type \in {"requested", "resolved"}, NEW p \in Perm
    PROVE  LET e == Prompt(type, p) IN EventOK(e) /\ e.type = type /\ e.perm = p
  BY DEF Prompt, Event, EventOK, EventRecord, Kind

\* The text a run streams is a well formed event.
LEMMA DeltaIs ==
    ASSUME NEW r \in Run, NEW i \in Nat
    PROVE  EventOK(Delta(r, i)) /\ Delta(r, i).type = "delta"
  BY DEF Delta, Event, EventOK, EventRecord, Kind

\* What a log holds are well formed events, and none of them starts a run.
LEMMA ReplayedIs ==
    ASSUME NEW e \in Deltas \cup Ends
    PROVE  EventOK(e) /\ e.type \in {"delta", "completed", "failed", "stopped"}
  BY DEF Deltas, Ends, Terminal, EventOK
-----------------------------------------------------------------------------
(* A goroutine sends an event *)

\* Sending an event to the program: the adapter's invariant, what was said, the
\* requests, the goroutines and the streaming after it.
LEMMA Sends ==
    ASSUME HostInv, NEW e, EventOK(e), e.type = "requested" => e.perm \notin ui.pending,
           NEW left, Send(e, left)
    PROVE  /\ AdapterInv(ui') /\ SaidOK(ui'.shell)
           /\ e.type # "cleared" => Said(ui'.shell) = Said(ui.shell)
           /\ e.type = "cleared" => Said(ui'.shell) = FlattenSeq(sent) \o <<>>
           /\ e.type # "requested" => ui'.pending \subseteq ui.pending
           /\ e.type = "requested" => ui'.pending = ui.pending \cup {e.perm}
           /\ left \subseteq tasks'
           /\ \A t \in tasks' : t \in left \/ (TaskOK(t) /\ t.kind = "submit" /\ t.at = "call")
           /\ ui'.shell.streaming =>
                  \/ e.type = "started"
                  \/ ui.shell.streaming /\ e.type \notin {"refused", "stopped", "failed"}
                                        /\ e.type # "completed"
                  \/ Calling(tasks')
<1>1. ui' = ForwardEvent(ui, e) /\ tasks' = left \cup Submits(ui')
  BY DEF Send
<1>2. AdapterInv(ui) /\ SaidOK(ui.shell)
  BY DEF HostInv, SaidInv
<1>3. AdapterInv(ui')
  BY <1>1, <1>2, AdapterKeeps
<1>4. Forwarded(ui, ui', e)
  BY <1>1, <1>2, Forwards DEF AdapterInv
<1>5. ShellOK(ui.shell) /\ ShellOK(ui'.shell)
  BY <1>2, <1>3, AdapterParts DEF AdapterInv
<1>6. /\ SaidOK(ui'.shell)
      /\ e.type # "cleared" => Said(ui'.shell) = Said(ui.shell)
      /\ e.type = "cleared" => Said(ui'.shell) = FlattenSeq(ui.shell.sent) \o <<>>
      /\ ui'.shell.streaming =>
             \/ e.type = "started"
             \/ ui.shell.streaming /\ e.type \notin {"refused", "stopped", "failed"}
                                   /\ e.type # "completed"
             \/ \E q : Begun(ui.shell, ui'.shell, q)
  BY <1>1, <1>2, EventSays
<1>7. /\ \A t \in Submits(ui') : TaskOK(t) /\ t.kind = "submit" /\ t.at = "call"
      /\ (\E q : Begun(ui.shell, ui'.shell, q)) => \E t \in Submits(ui') : CallTask(t)
  BY <1>5, SubmitsThem
<1>8. (\E q : Begun(ui.shell, ui'.shell, q)) => Calling(tasks')
  BY <1>1, <1>7 DEF Calling
<1>9. ui'.pending = IF e.type = "requested" THEN ui.pending \cup {e.perm}
                    ELSE IF e.type = "resolved" THEN ui.pending \ {e.perm} ELSE ui.pending
  BY <1>4 DEF Forwarded
<1>10. QED
  BY <1>1, <1>3, <1>6, <1>7, <1>8, <1>9 DEF sent

\* What a goroutine that goes on keeps of the others.
LEMMA TaskInvKept ==
    ASSUME NEW t, TaskInv(t), label => label', attachUsed => attachUsed',
           approved \subseteq approved'
    PROVE  TaskInv(t)'
  BY DEF TaskInv

\* A goroutine that has yet to make its call claims nothing about the others.
LEMMA CallsAreFine ==
    ASSUME NEW t, TaskOK(t), CallTask(t)
    PROVE  TaskInv(t)'
  BY DEF TaskInv, CallTask

\* production_runtime.go: a goroutine that only sends an event.
LEMMA SendStep ==
    ASSUME HostInv, NEW e, EventOK(e), e.type \notin {"requested", "cleared"},
           e.type = "started" => label \/ attachUsed,
           NEW left, Send(e, left), \A t \in left : TaskInv(t),
           e.type # "refused" => \A t \in tasks : CallTask(t) => t \in left,
           hostRun' \in Run \cup {None}, UNCHANGED <<label, quiet>>
    PROVE  HostInv'
<1>1. /\ UNCHANGED label /\ UNCHANGED live /\ UNCHANGED runs /\ UNCHANGED prompts
      /\ UNCHANGED typed /\ UNCHANGED keys /\ UNCHANGED drops
      /\ UNCHANGED wiped /\ UNCHANGED approved /\ UNCHANGED attachUsed
  BY DEF quiet, serverVars, boundVars
<1>2. /\ AdapterInv(ui') /\ SaidOK(ui'.shell)
      /\ Said(ui'.shell) = Said(ui.shell)
      /\ ui'.pending \subseteq ui.pending
      /\ left \subseteq tasks'
      /\ \A t \in tasks' : t \in left \/ (TaskOK(t) /\ t.kind = "submit" /\ t.at = "call")
      /\ ui'.shell.streaming =>
             \/ e.type = "started"
             \/ ui.shell.streaming /\ e.type # "refused"
             \/ Calling(tasks')
  BY Sends
<1>3. TasksInv'
  <2>1. ASSUME NEW t \in tasks' PROVE TaskInv(t)'
    <3>1. CASE t \in left
      BY <1>1, <3>1, TaskInvKept
    <3>2. CASE TaskOK(t) /\ CallTask(t)
      BY <3>2, CallsAreFine
    <3>3. QED
      BY <1>2, <3>1, <3>2 DEF CallTask
  <2>2. QED
    BY <2>1 DEF TasksInv
<1>4. PartsOK'
  BY <1>1 DEF HostInv, PartsOK
<1>5. AskedInv'
  BY <1>1, <1>2 DEF HostInv, AskedInv
<1>6. ApprovedInv'
  BY <1>1 DEF HostInv, ApprovedInv
<1>7. StreamInv'
  <2>1. Working(runs') = Working(runs)
    BY <1>1
  <2>2. e.type # "refused" /\ Calling(tasks) => Calling(tasks')
    BY <1>2 DEF Calling
  <2>3. QED
    BY <1>1, <1>2, <2>1, <2>2 DEF HostInv, StreamInv
<1>8. SaidInv'
  BY <1>1, <1>2 DEF HostInv, SaidInv
<1>9. QED
  BY <1>2, <1>3, <1>4, <1>5, <1>6, <1>7, <1>8 DEF HostInv

\* A step that the shell does not see.
LEMMA LocalStep ==
    ASSUME HostInv, UNCHANGED <<ui, typed, wiped>>, TasksInv', PartsOK', ApprovedInv',
           \A p \in Perm : prompts'[p].at = "none" => prompts[p].at = "none",
           Calling(tasks) => Calling(tasks') \/ Working(runs'),
           Working(runs) => Working(runs') \/ drops' > 0,
           label => label', attachUsed => attachUsed', drops > 0 => drops' > 0,
           ~live' => drops' > 0
    PROVE  HostInv'
<1>1. AdapterInv(ui)' /\ SaidInv' /\ AskedInv'
  BY DEF HostInv, SaidInv, AskedInv
<1>2. StreamInv'
  BY DEF HostInv, StreamInv
<1>3. QED
  BY <1>1, <1>2 DEF HostInv
-----------------------------------------------------------------------------
(* The steps of the goroutines *)

\* What the invariant says of one goroutine.
LEMMA ATask ==
    ASSUME HostInv, NEW t \in tasks
    PROVE  TaskInv(t) /\ TaskOK(t)
  BY DEF HostInv, TasksInv, TaskInv

\* The other goroutines go on, and one that does not call stops.
LEMMA Others ==
    ASSUME HostInv, NEW t \in tasks
    PROVE  /\ \A u \in tasks \ {t} : TaskInv(u)
           /\ ~CallTask(t) => \A u \in tasks : CallTask(u) => u \in tasks \ {t}
  BY DEF HostInv, TasksInv

\* A refused submission reports RunRefused, which ends the streaming.
LEMMA KeepsSubmitFails ==
    ASSUME HostInv, NEW t \in tasks, SubmitFails(t)
    PROVE  HostInv'
<1> DEFINE e == Event("refused", t.id, None)
           left == tasks \ {t}
<1>1. Send(e, left) /\ UNCHANGED <<hostRun, label, quiet>>
  BY DEF SubmitFails
<1>2. EventOK(e) /\ e.type = "refused"
  BY ATask, TaskParts, EventIs DEF Kind
<1>3. \A u \in left : TaskInv(u)
  BY Others
<1>4. hostRun' \in Run \cup {None} /\ UNCHANGED <<label, quiet>>
  BY <1>1 DEF HostInv, PartsOK
<1> HIDE DEF e, left
<1>5. QED
  BY <1>1, <1>2, <1>3, <1>4, SendStep

\* An accepted submission notes the run, and with a label it sends RunStarted.
LEMMA KeepsSubmitAccepted ==
    ASSUME HostInv, NEW t \in tasks, SubmitAccepted(t)
    PROVE  HostInv'
<1> DEFINE e == Event("accepted", t.id, t.run)
           u == [t EXCEPT !.at = "start"]
           left == IF label THEN Becomes(t, u) ELSE tasks \ {t}
<1>1. Send(e, left) /\ UNCHANGED <<label, quiet>> /\ hostRun' = t.run
      /\ t.kind = "submit" /\ t.at = "accepted"
  BY DEF SubmitAccepted
<1>2. TaskInv(t) /\ TaskOK(t) /\ t.run \in Run /\ t.replay \in Replays /\ t.id \in Nat
  BY <1>1, ATask, TaskParts DEF TaskOK
<1>3. EventOK(e) /\ e.type = "accepted"
  BY <1>2, EventIs DEF Kind
<1>4. label => TaskInv(u)
  <2>1. u = Moved(t, "start", t.run, t.replay)
    BY <1>2 DEF Moved, TaskOK, TaskRecord
  <2> DEFINE w == Moved(t, "start", t.run, t.replay)
  <2>2. /\ w \in TaskRecord /\ w.kind = t.kind /\ w.id = t.id /\ w.at = "start" /\ w.run = t.run
        /\ w.perm = t.perm /\ w.decision = t.decision /\ w.replay = t.replay
    BY <1>2, TaskMoves DEF Ats
  <2> HIDE DEF w
  <2>3. label => TaskInv(w)
    BY <1>1, <1>2, <2>2 DEF TaskInv, TaskOK
  <2>4. QED
    BY <2>1, <2>3 DEF w
<1> HIDE DEF u, e
<1>5. \A x \in left : TaskInv(x)
  BY <1>4, Others DEF Becomes
<1>6. \A x \in tasks : CallTask(x) => x \in left
  BY <1>1 DEF CallTask, Becomes
<1> HIDE DEF left
<1>7. hostRun' \in Run \cup {None}
  BY <1>1, <1>2
<1>8. QED
  BY <1>1, <1>3, <1>5, <1>6, <1>7, SendStep

\* The RunStarted of a labelled submission keeps the invariant.
LEMMA KeepsSubmitStarted ==
    ASSUME HostInv, NEW t \in tasks, SubmitStarted(t)
    PROVE  HostInv'
<1> DEFINE e == Event("started", t.id, t.run)
           left == tasks \ {t}
<1>1. Send(e, left) /\ UNCHANGED <<hostRun, label, quiet>> /\ t.kind = "submit" /\ t.at = "start"
  BY DEF SubmitStarted
<1>2. TaskInv(t) /\ TaskOK(t) /\ t.run \in Run /\ t.id \in Nat
  BY <1>1, ATask, TaskParts DEF TaskOK
<1>3. EventOK(e) /\ e.type = "started" /\ label
  BY <1>1, <1>2, EventIs DEF Kind, TaskInv
<1>4. /\ \A u \in left : TaskInv(u)
      /\ \A u \in tasks : CallTask(u) => u \in left
  BY <1>1, Others DEF CallTask
<1>5. hostRun' \in Run \cup {None} /\ UNCHANGED <<label, quiet>>
  BY <1>1 DEF HostInv, PartsOK
<1> HIDE DEF e, left
<1>6. QED
  BY <1>1, <1>3, <1>4, <1>5, SendStep

\* The RunStopped that the host sends itself ends the streaming.
LEMMA KeepsInterruptStop ==
    ASSUME HostInv, NEW t \in tasks, InterruptStop(t)
    PROVE  HostInv'
<1> DEFINE e == Event("stopped", 0, t.run)
           left == tasks \ {t}
<1>1. Send(e, left) /\ UNCHANGED <<hostRun, label, quiet>> /\ t.kind = "interrupt"
  BY DEF InterruptStop
<1>2. EventOK(e) /\ e.type = "stopped"
  BY ATask, TaskParts, EventIs DEF Kind
<1>4. /\ \A u \in left : TaskInv(u)
      /\ \A u \in tasks : CallTask(u) => u \in left
  BY <1>1, Others DEF CallTask
<1>5. hostRun' \in Run \cup {None} /\ UNCHANGED <<label, quiet>>
  BY <1>1 DEF HostInv, PartsOK
<1> HIDE DEF e, left
<1>6. QED
  BY <1>1, <1>2, <1>4, <1>5, SendStep

\* A preview tells the shell nothing that the invariant is about.
LEMMA KeepsPreviewCall ==
    ASSUME HostInv, NEW t \in tasks, PreviewCall(t)
    PROVE  HostInv'
<1> DEFINE e == Event("preview", 0, None)
           left == tasks \ {t}
<1>1. Send(e, left) /\ UNCHANGED <<hostRun, label, quiet>> /\ t.kind = "preview"
  BY DEF PreviewCall
<1>2. EventOK(e) /\ e.type = "preview"
  BY EventIs DEF Kind
<1>4. /\ \A u \in left : TaskInv(u)
      /\ \A u \in tasks : CallTask(u) => u \in left
  BY <1>1, Others DEF CallTask
<1>5. hostRun' \in Run \cup {None} /\ UNCHANGED <<label, quiet>>
  BY <1>1 DEF HostInv, PartsOK
<1> HIDE DEF e, left
<1>6. QED
  BY <1>1, <1>2, <1>4, <1>5, SendStep

\* The outcome of an answer takes its request from shell and adapter alike.
LEMMA KeepsResolveTold ==
    ASSUME HostInv, NEW t \in tasks, ResolveTold(t)
    PROVE  HostInv'
<1> DEFINE e == Prompt("resolved", t.perm)
           left == tasks \ {t}
<1>1. Send(e, left) /\ UNCHANGED <<hostRun, label, quiet>> /\ t.kind = "resolve"
  BY DEF ResolveTold
<1>2. t.perm \in Perm
  BY <1>1, ATask DEF TaskOK
<1>3. EventOK(e) /\ e.type = "resolved"
  BY <1>2, PromptIs
<1>4. /\ \A u \in left : TaskInv(u)
      /\ \A u \in tasks : CallTask(u) => u \in left
  BY <1>1, Others DEF CallTask
<1>5. hostRun' \in Run \cup {None} /\ UNCHANGED <<label, quiet>>
  BY <1>1 DEF HostInv, PartsOK
<1> HIDE DEF e, left
<1>6. QED
  BY <1>1, <1>3, <1>4, <1>5, SendStep

\* A goroutine goes on, with what it has left to replay.
LEMMA GoesOn ==
    ASSUME NEW t, TaskInv(t), ~CallTask(t), NEW at \in {"stop", "tell", "replay"},
           NEW replay \in Replays
    PROVE  TaskInv(Moved(t, at, t.run, replay))
<1> DEFINE w == Moved(t, at, t.run, replay)
<1>1. TaskOK(t) /\ t.run \in Run \cup {None}
  BY TaskParts DEF TaskInv
<1>2. /\ w \in TaskRecord /\ w.kind = t.kind /\ w.id = t.id /\ w.at = at /\ w.run = t.run
      /\ w.perm = t.perm /\ w.decision = t.decision /\ w.replay = replay
  BY <1>1, TaskMoves DEF Ats
<1> HIDE DEF w
<1>3. TaskInv(w)
  BY <1>1, <1>2 DEF TaskInv, TaskOK, CallTask
<1>4. QED
  BY <1>3 DEF w

\* The RunStarted of an attached run keeps the invariant; its log is replayed next.
LEMMA KeepsAttachStarted ==
    ASSUME HostInv, NEW t \in tasks, AttachStarted(t)
    PROVE  HostInv'
<1> DEFINE e == Event("started", 0, t.run)
           u == [t EXCEPT !.at = "replay"]
           left == Becomes(t, u)
<1>1. Send(e, left) /\ UNCHANGED <<label, quiet>> /\ hostRun' = t.run /\ t.kind = "attach"
  BY DEF AttachStarted
<1>2. TaskInv(t) /\ TaskOK(t) /\ t.run \in Run /\ t.replay \in Replays /\ attachUsed
  BY <1>1, ATask, TaskParts DEF TaskOK, TaskInv
<1>3. EventOK(e) /\ e.type = "started"
  BY <1>2, EventIs DEF Kind
<1>4. TaskInv(u)
  <2>1. u = Moved(t, "replay", t.run, t.replay)
    BY <1>2 DEF Moved, TaskOK, TaskRecord
  <2>2. ~CallTask(t)
    BY <1>1 DEF CallTask
  <2> HIDE DEF u
  <2>3. QED
    BY <1>2, <2>1, <2>2, GoesOn
<1> HIDE DEF u, e
<1>5. \A x \in left : TaskInv(x)
  BY <1>4, Others DEF Becomes
<1>6. \A x \in tasks : CallTask(x) => x \in left
  BY <1>1 DEF CallTask, Becomes
<1> HIDE DEF left
<1>7. hostRun' \in Run \cup {None}
  BY <1>1, <1>2
<1>8. QED
  BY <1>1, <1>2, <1>3, <1>5, <1>6, <1>7, SendStep

\* A goroutine that ends and is no call.
LEMMA TaskEnds ==
    ASSUME HostInv, NEW t \in tasks, ~CallTask(t), tasks' = tasks \ {t},
           UNCHANGED <<ui, hostRun, label, quiet>>
    PROVE  HostInv'
<1>1. /\ UNCHANGED label /\ UNCHANGED live /\ UNCHANGED runs /\ UNCHANGED prompts
      /\ UNCHANGED typed /\ UNCHANGED keys /\ UNCHANGED drops /\ UNCHANGED hostRun
      /\ UNCHANGED wiped /\ UNCHANGED approved /\ UNCHANGED attachUsed
  BY DEF quiet, serverVars, boundVars
<1>2. TasksInv'
  <2>1. \A u \in tasks' : TaskInv(u)'
    BY <1>1, TaskInvKept, Others
  <2>2. QED
    BY <2>1 DEF TasksInv
<1>3. PartsOK' /\ ApprovedInv'
  BY <1>1 DEF HostInv, PartsOK, ApprovedInv
<1>4. Calling(tasks) => Calling(tasks')
  BY Others DEF Calling
<1>5. Working(runs') = Working(runs)
  BY <1>1
<1>6. ~live' => drops' > 0
  BY <1>1 DEF HostInv, StreamInv
<1>7. QED
  BY <1>1, <1>2, <1>3, <1>4, <1>5, <1>6, LocalStep

\* A replayed event keeps the invariant, wherever the replay stands.
LEMMA KeepsReplayNext ==
    ASSUME HostInv, NEW t \in tasks, ReplayNext(t)
    PROVE  HostInv'
<1>1. t.at = "replay" /\ UNCHANGED <<hostRun, label, quiet>> /\ ~CallTask(t)
  BY DEF ReplayNext, CallTask
<1>2. CASE t.replay = <<>>
  <2>1. tasks' = tasks \ {t} /\ UNCHANGED ui
    BY <1>2 DEF ReplayNext
  <2>2. QED
    BY <1>1, <2>1, TaskEnds
<1>3. CASE t.replay # <<>>
  <2> DEFINE e == Head(t.replay)
             more == Tail(t.replay)
             u == [t EXCEPT !.replay = more]
             left == Becomes(t, u)
  <2>1. Send(e, left)
    BY <1>3 DEF ReplayNext
  <2>2. TaskInv(t) /\ TaskOK(t) /\ t.replay \in Replays
    BY ATask, TaskParts
  <2>3. e \in Deltas \cup Ends /\ more \in Replays
    BY <1>3, <2>2 DEF Replays
  <2> HIDE DEF e, more
  <2>4. EventOK(e) /\ e.type \in {"delta", "completed", "failed", "stopped"}
    BY <2>3, ReplayedIs
  <2>5. TaskInv(u)
    <3>1. u = Moved(t, "replay", t.run, more)
      BY <1>1, <2>2 DEF Moved, TaskOK, TaskRecord
    <3> HIDE DEF u
    <3>2. QED
      BY <1>1, <2>2, <2>3, <3>1, GoesOn
  <2> HIDE DEF u
  <2>6. \A x \in left : TaskInv(x)
    BY <2>5, Others DEF Becomes
  <2>7. \A x \in tasks : CallTask(x) => x \in left
    BY <1>1 DEF Becomes
  <2> HIDE DEF left
  <2>8. hostRun' \in Run \cup {None}
    BY <1>1 DEF HostInv, PartsOK
  <2>9. QED
    BY <1>1, <2>1, <2>4, <2>6, <2>7, <2>8, SendStep
<1>4. QED
  BY <1>2, <1>3

\* A detached run's streaming ends only if the run is still the active one.
LEMMA KeepsDetachDone ==
    ASSUME HostInv, NEW t \in tasks, DetachDone(t)
    PROVE  HostInv'
<1>1. t.kind = "detach" /\ UNCHANGED <<label, quiet>> /\ ~CallTask(t)
  BY DEF DetachDone, CallTask
<1>2. CASE hostRun = t.run
  <2> DEFINE e == Event("stopped", 0, t.run)
             left == tasks \ {t}
  <2>1. Send(e, left) /\ hostRun' = None
    BY <1>2 DEF DetachDone
  <2>2. EventOK(e) /\ e.type = "stopped"
    BY ATask, TaskParts, EventIs DEF Kind
  <2>3. /\ \A u \in left : TaskInv(u)
        /\ \A u \in tasks : CallTask(u) => u \in left
    BY <1>1, Others
  <2>4. hostRun' \in Run \cup {None}
    BY <2>1
  <2> HIDE DEF e, left
  <2>5. QED
    BY <1>1, <2>1, <2>2, <2>3, <2>4, SendStep
<1>3. CASE hostRun # t.run
  <2>1. tasks' = tasks \ {t} /\ UNCHANGED <<ui, hostRun>>
    BY <1>3 DEF DetachDone
  <2>2. QED
    BY <1>1, <2>1, TaskEnds
<1>4. QED
  BY <1>2, <1>3

\* /clear wipes the messages that wait.
LEMMA KeepsClearDone ==
    ASSUME HostInv, NEW t \in tasks, ClearDone(t)
    PROVE  HostInv'
<1> DEFINE e == Event("cleared", 0, None)
           left == tasks \ {t}
           q == ui.shell.queued
           F == FlattenSeq(ui.shell.sent)
<1>1. Send(e, left) /\ hostRun' = None /\ wiped' = wiped \cup ToSet(q) /\ ~CallTask(t)
  BY DEF ClearDone, CallTask
<1>2. /\ UNCHANGED label /\ UNCHANGED live /\ UNCHANGED runs /\ UNCHANGED prompts
      /\ UNCHANGED typed /\ UNCHANGED keys /\ UNCHANGED drops
      /\ UNCHANGED approved /\ UNCHANGED attachUsed
  BY DEF ClearDone, serverVars, boundVars
<1>3. EventOK(e) /\ e.type = "cleared"
  BY EventIs DEF Kind
<1>4. /\ \A u \in left : TaskInv(u)
      /\ \A u \in tasks : CallTask(u) => u \in left
  BY <1>1, Others
<1> HIDE DEF e, left
<1>5. /\ AdapterInv(ui') /\ SaidOK(ui'.shell)
      /\ Said(ui'.shell) = FlattenSeq(sent) \o <<>>
      /\ ui'.pending \subseteq ui.pending
      /\ left \subseteq tasks'
      /\ \A x \in tasks' : x \in left \/ (TaskOK(x) /\ x.kind = "submit" /\ x.at = "call")
      /\ ui'.shell.streaming => ui.shell.streaming \/ Calling(tasks')
  BY <1>1, <1>3, Sends
<1>6. TasksInv'
  <2>1. ASSUME NEW x \in tasks' PROVE TaskInv(x)'
    <3>1. CASE x \in left
      BY <1>2, <1>4, <3>1, TaskInvKept
    <3>2. CASE TaskOK(x) /\ CallTask(x)
      BY <3>2, CallsAreFine
    <3>3. QED
      BY <1>5, <3>1, <3>2 DEF CallTask
  <2>2. QED
    BY <2>1 DEF TasksInv
<1>7. q \in Seq(Nat) /\ F \in Seq(Nat) /\ InOrder(F \o q, typed, wiped)
      /\ typed \in Nat /\ wiped \in SUBSET (1 .. typed)
  <2>1. SaidOK(ui.shell) /\ InOrder(Said(ui.shell), typed, wiped)
    BY DEF HostInv, SaidInv
  <2>2. ShellOK(ui.shell)
    BY AdapterParts DEF HostInv, AdapterInv
  <2>3. typed \in Nat /\ wiped \in SUBSET (1 .. typed)
    BY DEF HostInv, PartsOK
  <2>4. QED
    BY <2>1, <2>2, <2>3, ShellSays DEF Said
<1> HIDE DEF q, F
<1>8. InOrder(F \o <<>>, typed, wiped') /\ wiped' \in SUBSET (1 .. typed)
  BY <1>1, <1>7, OrderWiped
<1>9. SaidInv'
  BY <1>2, <1>5, <1>8 DEF SaidInv, F, sent
<1>10. PartsOK'
  BY <1>1, <1>2, <1>8 DEF HostInv, PartsOK
<1>11. AskedInv' /\ ApprovedInv'
  BY <1>2, <1>5 DEF HostInv, AskedInv, ApprovedInv
<1>12. StreamInv'
  <2>1. Working(runs') = Working(runs)
    BY <1>2
  <2>2. Calling(tasks) => Calling(tasks')
    BY <1>4, <1>5 DEF Calling
  <2>3. QED
    BY <1>2, <1>5, <2>1, <2>2 DEF HostInv, StreamInv
<1>13. QED
  BY <1>5, <1>6, <1>9, <1>10, <1>11, <1>12 DEF HostInv

\* The submission's call to the server makes a run that is not over.
LEMMA KeepsSubmitCall ==
    ASSUME HostInv, NEW t \in tasks, SubmitCall(t)
    PROVE  HostInv'
<1>1. PICK r \in Run :
          /\ runs[r].state = "absent" /\ runs' = [runs EXCEPT ![r].state = "live"]
          /\ tasks' = Becomes(t, [t EXCEPT !.at = "accepted", !.run = r])
  BY DEF SubmitCall
<1>2. /\ t.kind = "submit" /\ UNCHANGED <<ui, typed, wiped>>
      /\ UNCHANGED hostRun /\ UNCHANGED label /\ UNCHANGED live /\ UNCHANGED prompts
      /\ UNCHANGED keys /\ UNCHANGED drops /\ UNCHANGED approved /\ UNCHANGED attachUsed
      /\ UNCHANGED typed /\ UNCHANGED wiped
  BY DEF SubmitCall, boundVars, historyVars
<1> DEFINE u == [t EXCEPT !.at = "accepted", !.run = r]
<1>3. TaskInv(t) /\ TaskOK(t) /\ t.replay \in Replays
  BY ATask, TaskParts
<1>4. TaskInv(u)
  <2> DEFINE w == Moved(t, "accepted", r, t.replay)
  <2>1. u = w
    BY <1>3 DEF Moved, TaskOK, TaskRecord
  <2>2. /\ w \in TaskRecord /\ w.kind = t.kind /\ w.id = t.id /\ w.at = "accepted" /\ w.run = r
        /\ w.perm = t.perm /\ w.decision = t.decision /\ w.replay = t.replay
    BY <1>3, TaskMoves DEF Ats
  <2> HIDE DEF w
  <2>3. TaskInv(w)
    BY <1>2, <1>3, <2>2 DEF TaskInv, TaskOK
  <2>4. QED
    BY <2>1, <2>3 DEF w
<1> HIDE DEF u
<1>5. TasksInv'
  <2>1. \A x \in tasks' : TaskInv(x)
    BY <1>1, <1>4, Others DEF Becomes, u
  <2>2. \A x \in tasks' : TaskInv(x)'
    BY <1>2, <2>1, TaskInvKept
  <2>3. QED
    BY <2>2 DEF TasksInv
<1>6. PartsOK' /\ ApprovedInv'
  BY <1>1, <1>2 DEF HostInv, PartsOK, ApprovedInv, RunState
<1>7. Working(runs')
  BY <1>1 DEF HostInv, PartsOK, Working
<1>8. ~live' => drops' > 0
  BY <1>2 DEF HostInv, StreamInv
<1>9. QED
  BY <1>2, <1>5, <1>6, <1>7, <1>8, LocalStep

\* Cancelling a run leaves it at work until its stream has ended.
LEMMA CancelledOK ==
    ASSUME PartsOK, NEW r
    PROVE  /\ Cancelled(r) \in [Run -> [state : RunState, log : Nat]]
           /\ Working(Cancelled(r)) = Working(runs)
<1>1. \A q \in Run : Cancelled(r)[q] \in [state : RunState, log : Nat]
  BY DEF Cancelled, PartsOK, RunState
<1>2. Cancelled(r) \in [Run -> [state : RunState, log : Nat]]
  BY <1>1 DEF Cancelled
<1>3. \A q \in Run : Cancelled(r)[q].state \in {"live", "cancelled"}
                         <=> runs[q].state \in {"live", "cancelled"}
  BY DEF Cancelled, PartsOK
<1>4. QED
  BY <1>2, <1>3 DEF Working

\* An interrupt cancels at most the run it names.
LEMMA KeepsInterruptCall ==
    ASSUME HostInv, NEW t \in tasks, InterruptCall(t)
    PROVE  HostInv'
<1> DEFINE u == [t EXCEPT !.at = "stop"]
<1>1. t.kind = "interrupt" /\ runs' = Cancelled(t.run) /\ tasks' = Becomes(t, u)
  BY DEF InterruptCall
<1>2. /\ UNCHANGED <<ui, typed, wiped>>
      /\ UNCHANGED hostRun /\ UNCHANGED label /\ UNCHANGED live /\ UNCHANGED prompts
      /\ UNCHANGED keys /\ UNCHANGED drops /\ UNCHANGED approved /\ UNCHANGED attachUsed
      /\ UNCHANGED typed /\ UNCHANGED wiped
  BY DEF InterruptCall, boundVars, historyVars
<1>3. TaskInv(t) /\ TaskOK(t) /\ t.replay \in Replays /\ t.run \in Run \cup {None}
  BY ATask, TaskParts
<1>4. TaskInv(u)
  <2>1. u = Moved(t, "stop", t.run, t.replay)
    BY <1>3 DEF Moved, TaskOK, TaskRecord
  <2>2. ~CallTask(t)
    BY <1>1 DEF CallTask
  <2> HIDE DEF u
  <2>3. QED
    BY <1>3, <2>1, <2>2, GoesOn
<1> HIDE DEF u
<1>5. TasksInv'
  <2>1. \A x \in tasks' : TaskInv(x)
    BY <1>1, <1>4, Others DEF Becomes
  <2>2. \A x \in tasks' : TaskInv(x)'
    BY <1>2, <2>1, TaskInvKept
  <2>3. QED
    BY <2>2 DEF TasksInv
<1>6. runs' \in [Run -> [state : RunState, log : Nat]] /\ Working(runs') = Working(runs)
  BY <1>1, CancelledOK DEF HostInv
<1>7. PartsOK' /\ ApprovedInv'
  BY <1>2, <1>6 DEF HostInv, PartsOK, ApprovedInv
<1>8. Calling(tasks) => Calling(tasks')
  BY <1>1 DEF Calling, CallTask, Becomes
<1>9. ~live' => drops' > 0
  BY <1>2 DEF HostInv, StreamInv
<1>10. QED
  BY <1>2, <1>5, <1>6, <1>7, <1>8, <1>9, LocalStep

\* ResolvePermission: the decision of the goroutine goes to the request it was made for.
LEMMA KeepsResolve ==
    ASSUME HostInv, NEW t \in tasks, Resolve(t)
    PROVE  HostInv'
<1> DEFINE p == t.perm
           u == [t EXCEPT !.at = "tell"]
<1>1. /\ t.kind = "resolve" /\ UNCHANGED <<ui, typed, wiped>>
      /\ UNCHANGED hostRun /\ UNCHANGED label /\ UNCHANGED live /\ UNCHANGED runs
      /\ UNCHANGED keys /\ UNCHANGED drops /\ UNCHANGED approved /\ UNCHANGED attachUsed
      /\ UNCHANGED typed /\ UNCHANGED wiped
      /\ \/ /\ prompts[p].at \in {"open", "leaving"}
            /\ prompts' = [prompts EXCEPT ![p].chan = t.decision]
            /\ tasks' = Becomes(t, u)
         \/ tasks' = tasks \ {t} /\ UNCHANGED prompts
  BY DEF Resolve, boundVars, historyVars, serverVars
<1>2. /\ TaskInv(t) /\ TaskOK(t) /\ t.replay \in Replays /\ t.run \in Run \cup {None}
      /\ p \in Perm /\ t.decision \in Decision \cup {None}
      /\ t.decision = "approve" => p \in approved
  BY <1>1, ATask, TaskParts DEF TaskOK, TaskInv
<1>3. TaskInv(u)
  <2>1. u = Moved(t, "tell", t.run, t.replay)
    BY <1>2 DEF Moved, TaskOK, TaskRecord
  <2>2. ~CallTask(t)
    BY <1>1 DEF CallTask
  <2> HIDE DEF u
  <2>3. QED
    BY <1>2, <2>1, <2>2, GoesOn
<1> HIDE DEF u, p
<1>4. TasksInv'
  <2>1. \A x \in tasks' : TaskInv(x)
    BY <1>1, <1>3, Others DEF Becomes
  <2>2. \A x \in tasks' : TaskInv(x)'
    BY <1>1, <2>1, TaskInvKept
  <2>3. QED
    BY <2>2 DEF TasksInv
<1>5. prompts \in [Perm -> Prompts]
  BY DEF HostInv, PartsOK
<1>6. /\ prompts' \in [Perm -> Prompts]
      /\ \A x \in Perm : prompts'[x].at = prompts[x].at /\ prompts'[x].result = prompts[x].result
                            /\ prompts'[x].chan \in {prompts[x].chan} \cup
                                   (IF x = p THEN {t.decision} ELSE {})
  BY <1>1, <1>2, <1>5 DEF Prompts
<1>7. PartsOK'
  BY <1>1, <1>6 DEF HostInv, PartsOK
<1>8. ApprovedInv'
  BY <1>1, <1>2, <1>6 DEF HostInv, ApprovedInv
<1>9. Calling(tasks) => Calling(tasks')
  BY <1>1 DEF Calling, CallTask, Becomes
<1>10. ~live' => drops' > 0
  BY <1>1 DEF HostInv, StreamInv
<1>11. Working(runs') = Working(runs)
  BY <1>1
<1>12. QED
  BY <1>1, <1>4, <1>6, <1>7, <1>8, <1>9, <1>10, <1>11, LocalStep

\* What a replay of the active run works on.
LEMMA ReplayOfOK ==
    ASSUME HostInv, hostRun # None, NEW i \in Nat
    PROVE  TaskInv(ReplayOf(hostRun, i))
<1> DEFINE log == Replay(hostRun)
           w == Given("resume", i, "replay", None, None, None, log)
<1>1. log \in Replays
  BY ReplayOK DEF HostInv, PartsOK
<1>2. ReplayOf(hostRun, i) = [Task("resume", i) EXCEPT !.at = "replay", !.replay = log]
  BY DEF ReplayOf
<1> HIDE DEF log
<1>3. ReplayOf(hostRun, i) = w
  BY <1>2 DEF Task, Given
<1>4. /\ w \in TaskRecord /\ w.kind = "resume" /\ w.id = i /\ w.at = "replay" /\ w.run = None
      /\ w.perm = None /\ w.decision = None /\ w.replay = log
  <2>1. "resume" \in Kinds /\ "replay" \in Ats /\ None \in Run \cup {None}
        /\ None \in Perm \cup {None} /\ None \in Decision \cup {None}
    BY DEF Kinds, Ats
  <2>2. QED
    BY <1>1, <2>1, TaskGiven
<1> HIDE DEF w
<1>5. QED
  BY <1>3, <1>4 DEF TaskInv, TaskOK

\* A resumption begins a replay, or ends without one.
LEMMA KeepsResumeRuns ==
    ASSUME HostInv, NEW t \in tasks, ResumeRuns(t)
    PROVE  HostInv'
<1>1. t.kind = "resume" /\ UNCHANGED <<ui, hostRun, label, quiet>> /\ ~CallTask(t)
  BY DEF ResumeRuns, CallTask
<1>2. CASE live /\ hostRun # None
  <2> DEFINE u == ReplayOf(hostRun, t.id)
  <2>1. tasks' = Becomes(t, u)
    BY <1>2 DEF ResumeRuns
  <2>2. TaskInv(u)
    BY <1>2, ATask, TaskParts, ReplayOfOK
  <2> HIDE DEF u
  <2>3. /\ UNCHANGED label /\ UNCHANGED live /\ UNCHANGED runs /\ UNCHANGED prompts
        /\ UNCHANGED typed /\ UNCHANGED keys /\ UNCHANGED drops /\ UNCHANGED hostRun
        /\ UNCHANGED wiped /\ UNCHANGED approved /\ UNCHANGED attachUsed
    BY <1>1 DEF quiet, serverVars, boundVars
  <2>4. TasksInv'
    <3>1. \A x \in tasks' : TaskInv(x)
      BY <2>1, <2>2, Others DEF Becomes
    <3>2. \A x \in tasks' : TaskInv(x)'
      BY <2>3, <3>1, TaskInvKept
    <3>3. QED
      BY <3>2 DEF TasksInv
  <2>5. PartsOK' /\ ApprovedInv'
    BY <2>3 DEF HostInv, PartsOK, ApprovedInv
  <2>6. Calling(tasks) => Calling(tasks')
    BY <1>1, <2>1 DEF Calling, Becomes
  <2>7. Working(runs') = Working(runs)
    BY <2>3
  <2>8. ~live' => drops' > 0
    BY <2>3 DEF HostInv, StreamInv
  <2>9. QED
    BY <1>1, <2>3, <2>4, <2>5, <2>6, <2>7, <2>8, LocalStep
<1>3. CASE ~(live /\ hostRun # None)
  <2>1. tasks' = tasks \ {t}
    BY <1>3 DEF ResumeRuns
  <2>2. QED
    BY <1>1, <2>1, TaskEnds
<1>4. QED
  BY <1>2, <1>3
-----------------------------------------------------------------------------
(* The keys *)

\* The adapter's invariant outlives a change of its shell that keeps the requests.
LEMMA NewShellOf ==
    ASSUME NEW a, AdapterInv(a), NEW s, ShellOK(s), SamePerms(a.shell, s)
    PROVE  LET b == [a EXCEPT !.shell = s]
           IN  AdapterInv(b) /\ b.shell = s /\ b.pending = a.pending
<1> DEFINE b == [a EXCEPT !.shell = s]
<1>1. AdapterOK(a)
  BY DEF AdapterInv
<1>2. /\ b \in [shell : {s}, attached : Run \cup {None}, pending : SUBSET Perm,
                paused : Text, detached : Apart]
      /\ b.shell = s /\ b.pending = a.pending /\ b.paused = a.paused
  BY <1>1 DEF AdapterOK
<1> HIDE DEF b
<1>3. QED
  BY <1>2 DEF AdapterInv, AdapterOK, SamePerms, b

\* A key that leaves what was said, and adds goroutines, keeps the invariant.
LEMMA KeyStep ==
    ASSUME HostInv, NEW shell, NEW new, Key(shell, new),
           ShellOK(shell), SamePerms(ui.shell, shell),
           SaidOK(shell), Said(shell) = Said(ui.shell),
           shell.streaming => ui.shell.streaming \/ Calling(new),
           \A t \in new : TaskInv(t)',
           approved \subseteq approved', approved' \in SUBSET Perm,
           UNCHANGED <<wiped, attachUsed>>
    PROVE  HostInv'
<1>1. /\ ui' = [ui EXCEPT !.shell = shell] /\ tasks' = tasks \cup new /\ keys' = keys + 1
      /\ UNCHANGED hostRun /\ UNCHANGED label /\ UNCHANGED live /\ UNCHANGED runs
      /\ UNCHANGED prompts /\ UNCHANGED typed /\ UNCHANGED drops
      /\ UNCHANGED wiped /\ UNCHANGED attachUsed
  BY DEF Key, serverVars
<1>2. AdapterInv(ui)
  BY DEF HostInv
<1>3. AdapterInv(ui') /\ ui'.shell = shell /\ ui'.pending = ui.pending
  <2> DEFINE b == [ui EXCEPT !.shell = shell]
  <2>1. AdapterInv(b) /\ b.shell = shell /\ b.pending = ui.pending
    BY <1>2, NewShellOf
  <2> HIDE DEF b
  <2>2. ui' = b
    BY <1>1 DEF b
  <2>3. QED
    BY <2>1, <2>2
<1>4. TasksInv'
  <2>1. \A t \in tasks : TaskInv(t)
    BY DEF HostInv, TasksInv
  <2>2. \A t \in tasks : TaskInv(t)'
    BY <1>1, <2>1, TaskInvKept
  <2>3. QED
    BY <1>1, <2>2 DEF TasksInv
<1>5. PartsOK'
  BY <1>1 DEF HostInv, PartsOK
<1>6. AskedInv' /\ ApprovedInv'
  BY <1>1, <1>3 DEF HostInv, AskedInv, ApprovedInv
<1>7. StreamInv'
  <2>1. Working(runs') = Working(runs)
    BY <1>1
  <2>2. Calling(tasks) \/ Calling(new) => Calling(tasks')
    BY <1>1 DEF Calling
  <2>3. QED
    BY <1>1, <1>3, <2>1, <2>2 DEF HostInv, StreamInv
<1>8. SaidInv'
  BY <1>1, <1>3 DEF HostInv, SaidInv
<1>9. QED
  BY <1>3, <1>4, <1>5, <1>6, <1>7, <1>8 DEF HostInv

\* What the invariant says of the shell.
LEMMA TheShell ==
    ASSUME HostInv
    PROVE  /\ ShellOK(ui.shell) /\ SaidOK(ui.shell) /\ keys \in Nat /\ typed \in Nat
           /\ hostRun \in Run \cup {None} /\ approved \in SUBSET Perm /\ drops \in Nat
           /\ ui.shell.perms \in Seq(Perm) /\ ui.shell.run \in Run \cup {None}
<1>1. ShellOK(ui.shell)
  BY AdapterParts DEF HostInv, AdapterInv
<1>2. QED
  BY <1>1, KeptFields DEF HostInv, SaidInv, PartsOK

\* The key that leaves the shell's messages and requests alone.
LEMMA StillSays ==
    ASSUME NEW s, SaidOK(s), NEW t, SameQueue(s, t)
    PROVE  SaidOK(t) /\ Said(t) = Said(s)
  BY DEF SameQueue, SaidOK, Said

\* Enter on an empty composer answers a request or releases the queue in order.
LEMMA KeepsEnterEmpty ==
    ASSUME HostInv, EnterEmpty
    PROVE  HostInv'
<1> DEFINE t == Release(ui.shell)
           i == Len(sent) + 1
           new == {Task("submit", i)}
<1>1. Key(t, new) /\ UNCHANGED historyVars
  BY DEF EnterEmpty
<1>2. ShellOK(t) /\ Released(ui.shell, t) /\ SamePerms(ui.shell, t)
  BY TheShell, Releases
<1> HIDE DEF t
<1>3. SaidOK(t) /\ Said(t) = Said(ui.shell)
  BY <1>2, TheShell, ReleasedSays
<1>4. i \in Nat
  <2>1. sent \in Seq(Seq(Nat))
    BY TheShell, KeptFields DEF sent
  <2>2. QED
    BY <2>1
<1> HIDE DEF i
<1>5. TaskOK(Task("submit", i)) /\ CallTask(Task("submit", i))
  BY <1>4, SubmitTaskOK
<1>6. Calling(new) /\ \A x \in new : TaskInv(x)'
  BY <1>5, CallsAreFine DEF Calling
<1>7. /\ approved \subseteq approved' /\ approved' \in SUBSET Perm
      /\ UNCHANGED <<wiped, attachUsed>>
  BY <1>1, TheShell DEF historyVars
<1> HIDE DEF new
<1>8. QED
  BY <1>1, <1>2, <1>3, <1>6, <1>7, KeyStep

\* What a key asks a goroutine to do.
LEMMA GivenOK ==
    ASSUME NEW kind \in Kinds, kind # "submit", kind # "resolve", NEW i \in Nat,
           NEW r \in Run \cup {None}, NEW at \in {"call", "replay"}, NEW replay \in Replays,
           kind = "attach" => r \in Run
    PROVE  LET w == Given(kind, i, at, r, None, None, replay)
           IN  TaskOK(w) /\ w.kind = kind /\ w.at = at
<1> DEFINE w == Given(kind, i, at, r, None, None, replay)
<1>1. None \in Perm \cup {None} /\ None \in Decision \cup {None} /\ at \in Ats /\ kind \in Kinds
  BY DEF Ats
<1>2. /\ w \in TaskRecord /\ w.kind = kind /\ w.id = i /\ w.at = at /\ w.run = r
      /\ w.perm = None /\ w.decision = None /\ w.replay = replay
  BY <1>1 DEF TaskRecord, Given, Kinds, Ats
<1> HIDE DEF w
<1>3. TaskOK(w)
  BY <1>2 DEF TaskOK
<1>4. QED
  BY <1>2, <1>3 DEF w

\* The answer is for the request it was given for.
LEMMA AnswerIs ==
    ASSUME NEW p, NEW d
    PROVE  DispatchResolvePermission(p, d) = Given("resolve", keys, "call", None, p, d, <<>>)
<1>1. ASSUME NEW t, t = Task("resolve", keys)
      PROVE  [t EXCEPT !.perm = p, !.decision = d]
                = Given("resolve", keys, "call", None, p, d, <<>>)
  <2> DEFINE u == [t EXCEPT !.perm = p]
  <2>1. u = Given("resolve", keys, "call", None, p, None, <<>>)
    BY <1>1 DEF Task, Given
  <2> HIDE DEF u
  <2>2. [u EXCEPT !.decision = d] = Given("resolve", keys, "call", None, p, d, <<>>)
    BY <2>1 DEF Given
  <2>3. QED
    BY <2>2 DEF u
<1>2. QED
  BY <1>1 DEF DispatchResolvePermission

\* The goroutine that carries an answer is well formed.
LEMMA AnswerOK ==
    ASSUME NEW i \in Nat, NEW p \in Perm, NEW d \in Decision
    PROVE  LET w == Given("resolve", i, "call", None, p, d, <<>>)
           IN  TaskOK(w) /\ w.kind = "resolve" /\ w.at = "call" /\ w.perm = p /\ w.decision = d
<1> DEFINE w == Given("resolve", i, "call", None, p, d, <<>>)
<1>1. None \in Run \cup {None} /\ p \in Perm \cup {None} /\ d \in Decision \cup {None}
      /\ "call" \in Ats /\ "resolve" \in Kinds
  BY DEF Ats, Kinds
<1>2. /\ w \in TaskRecord /\ w.kind = "resolve" /\ w.id = i /\ w.at = "call" /\ w.run = None
      /\ w.perm = p /\ w.decision = d /\ w.replay = <<>>
  BY <1>1, NoReplay DEF TaskRecord, Given, Kinds, Ats
<1> HIDE DEF w
<1>3. TaskOK(w)
  BY <1>2 DEF TaskOK
<1>4. QED
  BY <1>2, <1>3 DEF w

\* A goroutine that is neither an answer nor an attach, and sends no RunStarted.
LEMMA PlainTask ==
    ASSUME NEW t, TaskOK(t), t.kind \notin {"resolve", "attach"}, t.at # "start"
    PROVE  TaskInv(t)'
  BY DEF TaskInv

\* The answer goes out with the request that is active at the key.
LEMMA KeepsAnswerPermission ==
    ASSUME HostInv, NEW d \in Decision, AnswerPermission(d)
    PROVE  HostInv'
<1> DEFINE p == ActivePermission(ui.shell)
           w == DispatchResolvePermission(p, d)
           new == {w}
<1>1. /\ ui.shell.perms # <<>> /\ Key(ui.shell, new)
      /\ approved' = IF d = "approve" THEN approved \cup {p} ELSE approved
      /\ UNCHANGED <<wiped, attachUsed>>
  BY DEF AnswerPermission
<1>2. p \in Perm
  <2>1. ui.shell.active \in 1 .. Len(ui.shell.perms) /\ ui.shell.perms \in Seq(Perm)
    BY <1>1, TheShell DEF ShellOK
  <2>2. QED
    BY <2>1 DEF ActivePermission
<1>3. w = Given("resolve", keys, "call", None, p, d, <<>>)
  BY AnswerIs
<1> HIDE DEF p
<1>4. TaskOK(w) /\ w.kind = "resolve" /\ w.at = "call" /\ w.perm = p /\ w.decision = d
  <2> DEFINE g == Given("resolve", keys, "call", None, p, d, <<>>)
  <2>1. TaskOK(g) /\ g.kind = "resolve" /\ g.at = "call" /\ g.perm = p /\ g.decision = d
    BY <1>2, TheShell, AnswerOK
  <2> HIDE DEF g, w
  <2>2. QED
    BY <1>3, <2>1 DEF g
<1>5. approved \subseteq approved' /\ approved' \in SUBSET Perm
  BY <1>1, <1>2, TheShell
<1>6. \A t \in new : TaskInv(t)'
  <2> SUFFICES ASSUME NEW t, t = w PROVE TaskInv(t)'
    OBVIOUS
  <2>1. TaskOK(t) /\ t.kind = "resolve" /\ t.at = "call" /\ t.perm = p /\ t.decision = d
    BY <1>4
  <2>2. d = "approve" => p \in approved'
    BY <1>1
  <2>3. t.decision = "approve" => t.perm \in approved'
    BY <2>1, <2>2
  <2> HIDE DEF w
  <2>4. QED
    BY <2>1, <2>3 DEF TaskInv
<1> HIDE DEF w, new
<1>7. ShellOK(ui.shell) /\ SamePerms(ui.shell, ui.shell) /\ SaidOK(ui.shell)
  BY TheShell DEF SamePerms
<1>8. QED
  BY <1>1, <1>5, <1>6, <1>7, KeyStep

\* Opening a token adds a goroutine and no more.
LEMMA KeepsPreviewKey ==
    ASSUME HostInv, PreviewKey
    PROVE  HostInv'
<1> DEFINE w == Task("preview", keys)
           r == None
           new == {w}
<1>1. Key(ui.shell, new) /\ UNCHANGED historyVars
  BY DEF PreviewKey, DispatchLoadPreview
<1>2. w = Given("preview", keys, "call", r, None, None, <<>>)
  BY DEF Task, Given
<1>3. TaskOK(w) /\ w.kind = "preview" /\ w.at = "call"
  <2> DEFINE g == Given("preview", keys, "call", r, None, None, <<>>)
  <2>1. keys \in Nat /\ "preview" \in Kinds /\ r \in Run \cup {None}
        /\ <<>> \in Replays
    BY TheShell, NoReplay DEF Kinds
  <2> HIDE DEF r
  <2>2. TaskOK(g) /\ g.kind = "preview" /\ g.at = "call"
    BY <2>1, GivenOK
  <2> HIDE DEF g, w
  <2>3. QED
    BY <1>2, <2>2 DEF g
<1>4. \A t \in new : TaskInv(t)'
  <2> SUFFICES ASSUME NEW t, t = w PROVE TaskInv(t)'
    OBVIOUS
  <2> HIDE DEF w
  <2>1. QED
    BY <1>3, PlainTask
<1> HIDE DEF w, new
<1>5. /\ approved \subseteq approved' /\ approved' \in SUBSET Perm
      /\ UNCHANGED <<wiped, attachUsed>>
  BY <1>1, TheShell DEF historyVars
<1>6. ShellOK(ui.shell) /\ SamePerms(ui.shell, ui.shell) /\ SaidOK(ui.shell)
  BY TheShell DEF SamePerms
<1>7. QED
  BY <1>1, <1>4, <1>5, <1>6, KeyStep

\* model.go: Esc closes the preview or arms the interrupt.
LEMMA EscIsStill ==
    ASSUME NEW s, ShellOK(s)
    PROVE  LET t == Esc(s) IN ShellOK(t) /\ Still(s, t)
<1> DEFINE u == [s EXCEPT !.preview = FALSE]
           v == [s EXCEPT !.armed = ~s.armed]
<1>1. s \in ShellRecord({s.rows})
  BY DEF ShellOK
<1>2. /\ u \in ShellRecord({s.rows}) /\ u.rows = s.rows /\ u.streaming = s.streaming
      /\ u.sent = s.sent /\ u.queued = s.queued /\ u.perms = s.perms /\ u.active = s.active
  BY <1>1 DEF ShellRecord
<1>3. /\ v \in ShellRecord({s.rows}) /\ v.rows = s.rows /\ v.streaming = s.streaming
      /\ v.sent = s.sent /\ v.queued = s.queued /\ v.perms = s.perms /\ v.active = s.active
  BY <1>1 DEF ShellRecord
<1>4. Esc(s) \in {s, u, v}
  BY DEF Esc
<1> HIDE DEF u, v
<1>5. /\ ShellOK(u) /\ Still(s, u)
      /\ ShellOK(v) /\ Still(s, v)
  BY <1>2, <1>3 DEF ShellOK, Still, SameQueue, SamePerms
<1>6. QED
  BY <1>4, <1>5 DEF Still, SameQueue, SamePerms

\* Esc interrupts, and keeps what was said and what is asked.
LEMMA KeepsEscKey ==
    ASSUME HostInv, EscKey
    PROVE  HostInv'
<1> DEFINE s == Esc(ui.shell)
           w == DispatchInterrupt
           r == ui.shell.run
           new == IF EscInterrupts(ui.shell) THEN {w} ELSE {}
<1>1. Key(s, new) /\ UNCHANGED historyVars
  BY DEF EscKey
<1>2. ShellOK(s) /\ Still(ui.shell, s)
  BY TheShell, EscIsStill
<1>3. w = Given("interrupt", keys, "call", r, None, None, <<>>)
  BY DEF DispatchInterrupt, Task, Given
<1>4. TaskOK(w) /\ w.kind = "interrupt" /\ w.at = "call"
  <2> DEFINE g == Given("interrupt", keys, "call", r, None, None, <<>>)
  <2>1. keys \in Nat /\ "interrupt" \in Kinds /\ r \in Run \cup {None}
        /\ <<>> \in Replays
    BY TheShell, NoReplay DEF Kinds
  <2> HIDE DEF r
  <2>2. TaskOK(g) /\ g.kind = "interrupt" /\ g.at = "call"
    BY <2>1, GivenOK
  <2> HIDE DEF g, w
  <2>3. QED
    BY <1>3, <2>2 DEF g
<1>5. \A t \in new : TaskInv(t)'
  <2> SUFFICES ASSUME NEW t, t = w PROVE TaskInv(t)'
    OBVIOUS
  <2> HIDE DEF w
  <2>1. QED
    BY <1>4, PlainTask
<1> HIDE DEF w, new, s
<1>6. /\ approved \subseteq approved' /\ approved' \in SUBSET Perm
      /\ UNCHANGED <<wiped, attachUsed>>
  BY <1>1, TheShell DEF historyVars
<1>7. SamePerms(ui.shell, s) /\ SaidOK(s) /\ Said(s) = Said(ui.shell)
      /\ s.streaming = ui.shell.streaming
  BY <1>2, TheShell, StillSays DEF Still
<1>8. QED
  BY <1>1, <1>2, <1>5, <1>6, <1>7, KeyStep

\* permissions.go: the arrows move within the pending requests.
LEMMA KeepsArrowKey ==
    ASSUME HostInv, ArrowKey
    PROVE  HostInv'
<1>1. PICK i \in DOMAIN ui.shell.perms : Key(MovePermission(ui.shell, i), {})
  BY DEF ArrowKey
<1> DEFINE s == MovePermission(ui.shell, i)
<1>2. ShellOK(s) /\ Still(ui.shell, s)
  <2> DEFINE v == [ui.shell EXCEPT !.active = i]
  <2>1. /\ ui.shell \in ShellRecord({ui.shell.rows}) /\ ShellOK(ui.shell)
        /\ i \in 1 .. Len(ui.shell.perms) /\ i \in Nat
    BY TheShell DEF ShellOK
  <2>2. /\ v \in ShellRecord({ui.shell.rows}) /\ v.rows = ui.shell.rows
        /\ v.streaming = ui.shell.streaming /\ v.sent = ui.shell.sent
        /\ v.queued = ui.shell.queued /\ v.perms = ui.shell.perms /\ v.active = i
    BY <2>1 DEF ShellRecord
  <2>3. s \in {ui.shell, v}
    BY DEF MovePermission
  <2> HIDE DEF v, s
  <2>4. ShellOK(v) /\ Still(ui.shell, v)
    BY <2>1, <2>2 DEF ShellOK, Still, SameQueue, SamePerms
  <2>5. QED
    BY <2>1, <2>3, <2>4 DEF Still, SameQueue, SamePerms
<1>3. UNCHANGED historyVars
  BY DEF ArrowKey
<1> HIDE DEF s
<1>4. /\ approved \subseteq approved' /\ approved' \in SUBSET Perm
      /\ UNCHANGED <<wiped, attachUsed>>
  BY <1>3, TheShell DEF historyVars
<1>5. SamePerms(ui.shell, s) /\ SaidOK(s) /\ Said(s) = Said(ui.shell)
      /\ s.streaming = ui.shell.streaming
  BY <1>2, TheShell, StillSays DEF Still
<1> DEFINE new == {}
<1>6. Key(s, new) /\ \A t \in new : TaskInv(t)'
  BY <1>1 DEF s
<1> HIDE DEF new
<1>7. QED
  BY <1>2, <1>4, <1>5, <1>6, KeyStep

\* Enter on a message: it is said last.
LEMMA KeepsEnterText ==
    ASSUME HostInv, EnterText
    PROVE  HostInv'
<1> DEFINE m == typed + 1
           s == SubmitText(ui.shell, m)
<1>1. /\ ui' = [ui EXCEPT !.shell = SubmitText(ui.shell, typed + 1)]
      /\ typed' = typed + 1 /\ tasks' = tasks \cup Submits(ui')
      /\ UNCHANGED hostRun /\ UNCHANGED label /\ UNCHANGED live /\ UNCHANGED runs
      /\ UNCHANGED prompts /\ UNCHANGED keys /\ UNCHANGED drops
      /\ UNCHANGED wiped /\ UNCHANGED attachUsed /\ UNCHANGED approved
  BY DEF EnterText, serverVars, historyVars
<1>2. AdapterInv(ui) /\ ShellOK(ui.shell) /\ SaidOK(ui.shell) /\ typed \in Nat /\ m \in Nat
  BY TheShell DEF HostInv
<1>a. ui' = [ui EXCEPT !.shell = s] /\ typed' = m
  BY <1>1
<1> HIDE DEF m
<1>3. /\ ShellOK(s) /\ SamePerms(ui.shell, s) /\ SaidOK(s)
      /\ Said(s) = Append(Said(ui.shell), m)
      /\ s.streaming /\ (ui.shell.streaming \/ \E q : Begun(ui.shell, s, q))
  BY <1>2, SubmitSays
<1> HIDE DEF s
<1>4. AdapterInv(ui') /\ ui'.shell = s /\ ui'.pending = ui.pending
  <2> DEFINE b == [ui EXCEPT !.shell = s]
  <2>1. AdapterInv(b) /\ b.shell = s /\ b.pending = ui.pending
    BY <1>2, <1>3, NewShellOf
  <2> HIDE DEF b
  <2>2. ui' = b
    BY <1>a DEF b
  <2>3. QED
    BY <2>1, <2>2
<1>5. /\ \A t \in Submits(ui') : TaskOK(t) /\ t.kind = "submit" /\ t.at = "call"
      /\ (\E q : Begun(ui.shell, s, q)) => \E t \in Submits(ui') : CallTask(t)
  <2>1. ShellOK(ui'.shell)
    BY <1>3, <1>4
  <2>2. /\ \A t \in Submits(ui') : TaskOK(t) /\ t.kind = "submit" /\ t.at = "call"
        /\ (\E q : Begun(ui.shell, ui'.shell, q)) => \E t \in Submits(ui') : CallTask(t)
    BY <1>2, <2>1, SubmitsThem
  <2>3. QED
    BY <1>4, <2>2
<1>6. TasksInv'
  <2>1. \A t \in tasks : TaskInv(t)
    BY DEF HostInv, TasksInv
  <2>2. \A t \in tasks : TaskInv(t)'
    BY <1>1, <2>1, TaskInvKept
  <2>3. \A t \in Submits(ui') : TaskInv(t)'
    BY <1>5, CallsAreFine DEF CallTask
  <2>4. \A t \in tasks' : t \in tasks \/ t \in Submits(ui')
    BY <1>1
  <2>5. \A t \in tasks' : TaskInv(t)'
    BY <2>2, <2>3, <2>4
  <2>6. QED
    BY <2>5 DEF TasksInv
<1>7. wiped \in SUBSET (1 .. typed)
  BY DEF HostInv, PartsOK
<1>8. PartsOK'
  <2>1. wiped' \in SUBSET (1 .. typed')
    BY <1>1, <1>2, <1>7
  <2>2. typed' \in Nat
    BY <1>2, <1>a
  <2>3. QED
    BY <1>1, <2>1, <2>2 DEF HostInv, PartsOK
<1>9. AskedInv' /\ ApprovedInv'
  BY <1>1, <1>4 DEF HostInv, AskedInv, ApprovedInv
<1>10. StreamInv'
  <2>1. Working(runs') = Working(runs)
    BY <1>1
  <2>2. Calling(tasks) => Calling(tasks')
    BY <1>1 DEF Calling
  <2>3. (\E q : Begun(ui.shell, s, q)) => Calling(tasks')
    BY <1>1, <1>5 DEF Calling
  <2>4. QED
    BY <1>1, <1>3, <2>1, <2>2, <2>3 DEF HostInv, StreamInv
<1>11. SaidInv'
  <2> DEFINE all == Said(ui.shell)
  <2>1. InOrder(all, typed, wiped)
    BY DEF HostInv, SaidInv
  <2>2. all \in Seq(Nat)
    <3>1. FlattenSeq(ui.shell.sent) \in Seq(Nat) /\ ui.shell.queued \in Seq(Nat)
      BY <1>2, ShellSays
    <3>2. QED
      BY <3>1, ConcatProperties DEF Said
  <2> HIDE DEF all
  <2>3. InOrder(Append(all, typed + 1), typed + 1, wiped)
    BY <1>2, <1>7, <2>1, <2>2, OrderGrows
  <2>4. Said(ui'.shell) = Append(all, typed + 1) /\ SaidOK(ui'.shell)
    BY <1>3, <1>4 DEF all, m
  <2>5. QED
    BY <1>1, <2>3, <2>4 DEF SaidInv
<1>12. QED
  BY <1>4, <1>6, <1>8, <1>9, <1>10, <1>11 DEF HostInv
-----------------------------------------------------------------------------
(* The slash commands *)

\* A slash command that adds goroutines, and may cancel runs, keeps the invariant.
LEMMA CommandStep ==
    ASSUME HostInv, NEW new, Command(new), \A t \in new : TaskInv(t)',
           runs' \in [Run -> [state : RunState, log : Nat]], Working(runs') = Working(runs),
           label' \in BOOLEAN, label => label', attachUsed' \in BOOLEAN, attachUsed => attachUsed',
           UNCHANGED <<hostRun, live>>
    PROVE  HostInv'
<1>1. /\ tasks' = tasks \cup new /\ keys' = keys + 1
      /\ UNCHANGED ui /\ UNCHANGED prompts /\ UNCHANGED typed /\ UNCHANGED drops
      /\ UNCHANGED wiped /\ UNCHANGED approved /\ UNCHANGED hostRun /\ UNCHANGED live
  BY DEF Command
<1>2. TasksInv'
  <2>1. \A t \in tasks : TaskInv(t)
    BY DEF HostInv, TasksInv
  <2>2. \A t \in tasks : TaskInv(t)'
    BY <1>1, <2>1, TaskInvKept
  <2>3. QED
    BY <1>1, <2>2 DEF TasksInv
<1>3. PartsOK' /\ ApprovedInv'
  BY <1>1 DEF HostInv, PartsOK, ApprovedInv
<1>4. Calling(tasks) => Calling(tasks')
  BY <1>1 DEF Calling
<1>5. ~live' => drops' > 0
  BY <1>1 DEF HostInv, StreamInv
<1>6. QED
  BY <1>1, <1>2, <1>3, <1>4, <1>5, LocalStep

\* What stays when a command does nothing to the runs.
LEMMA RunsStay ==
    ASSUME HostInv, UNCHANGED runs
    PROVE  runs' \in [Run -> [state : RunState, log : Nat]] /\ Working(runs') = Working(runs)
  BY DEF HostInv, PartsOK

\* The two flags are Booleans.
LEMMA Flags == ASSUME HostInv PROVE label \in BOOLEAN /\ attachUsed \in BOOLEAN
  BY DEF HostInv, PartsOK

\* A goroutine of a command of the given kind.
LEMMA CommandTask ==
    ASSUME HostInv, NEW kind \in Kinds, kind \notin {"submit", "resolve", "attach"},
           NEW r \in Run \cup {None}
    PROVE  LET w == Given(kind, keys, "call", r, None, None, <<>>)
           IN  TaskOK(w) /\ w.kind = kind /\ w.at = "call"
<1>1. keys \in Nat /\ <<>> \in Replays
  BY TheShell, NoReplay
<1> DEFINE w == Given(kind, keys, "call", r, None, None, <<>>)
<1>2. TaskOK(w) /\ w.kind = kind /\ w.at = "call"
  BY <1>1, GivenOK
<1>3. QED
  BY <1>2

\* /clear adds its goroutine, which does the wiping later.
LEMMA KeepsClearCommand ==
    ASSUME HostInv, ClearCommand
    PROVE  HostInv'
<1> DEFINE w == DispatchHostCommand("clear")
           r == None
           new == {w}
<1>1. Command(new) /\ UNCHANGED <<hostRun, label, serverVars, attachUsed>>
  BY DEF ClearCommand
<1>2. w = Given("clear", keys, "call", r, None, None, <<>>)
  BY DEF DispatchHostCommand, Task, Given
<1>3. r \in Run \cup {None} /\ "clear" \in Kinds
  BY DEF Kinds
<1> HIDE DEF r, w
<1>4. TaskOK(w) /\ w.kind = "clear" /\ w.at = "call"
  BY <1>2, <1>3, CommandTask
<1>5. \A t \in new : TaskInv(t)'
  BY <1>4, PlainTask
<1> HIDE DEF new
<1>6. UNCHANGED runs /\ UNCHANGED <<hostRun, live>> /\ UNCHANGED label /\ UNCHANGED attachUsed
  BY <1>1 DEF serverVars
<1>7. runs' \in [Run -> [state : RunState, log : Nat]] /\ Working(runs') = Working(runs)
  BY <1>6, RunsStay
<1>8. QED
  BY <1>1, <1>5, <1>6, <1>7, Flags, CommandStep

\* /detach adds its goroutine.
LEMMA KeepsDetachCommand ==
    ASSUME HostInv, DetachCommand
    PROVE  HostInv'
<1> DEFINE w == [DispatchHostCommand("detach") EXCEPT !.run = hostRun]
           new == {w}
<1>1. Command(new) /\ UNCHANGED <<hostRun, label, serverVars, attachUsed>>
  BY DEF DetachCommand
<1>2. w = Given("detach", keys, "call", hostRun, None, None, <<>>)
  BY DEF DispatchHostCommand, Task, Given
<1>3. hostRun \in Run \cup {None} /\ "detach" \in Kinds
  BY TheShell DEF Kinds
<1> HIDE DEF w
<1>4. TaskOK(w) /\ w.kind = "detach" /\ w.at = "call"
  BY <1>2, <1>3, CommandTask
<1>5. \A t \in new : TaskInv(t)'
  BY <1>4, PlainTask
<1> HIDE DEF new
<1>6. UNCHANGED runs /\ UNCHANGED <<hostRun, live>> /\ UNCHANGED label /\ UNCHANGED attachUsed
  BY <1>1 DEF serverVars
<1>7. runs' \in [Run -> [state : RunState, log : Nat]] /\ Working(runs') = Working(runs)
  BY <1>6, RunsStay
<1>8. QED
  BY <1>1, <1>5, <1>6, <1>7, Flags, CommandStep

\* /cancel may cancel a run, which stays one that is not over until its end is sent.
LEMMA KeepsCancelCommand ==
    ASSUME HostInv, CancelCommand
    PROVE  HostInv'
<1> DEFINE new == {}
<1>1. Command(new) /\ runs' = Cancelled(hostRun) /\ UNCHANGED <<hostRun, live>>
      /\ UNCHANGED label /\ UNCHANGED attachUsed
  BY DEF CancelCommand
<1>2. \A t \in new : TaskInv(t)'
  OBVIOUS
<1> HIDE DEF new
<1>3. runs' \in [Run -> [state : RunState, log : Nat]] /\ Working(runs') = Working(runs)
  BY <1>1, CancelledOK DEF HostInv
<1>4. QED
  BY <1>1, <1>2, <1>3, Flags, CommandStep

\* /model sets the label of the submissions that follow.
LEMMA KeepsModelCommand ==
    ASSUME HostInv, ModelCommand
    PROVE  HostInv'
<1> DEFINE new == {}
<1>1. Command(new) /\ UNCHANGED runs /\ UNCHANGED <<hostRun, live>>
      /\ label' = TRUE /\ UNCHANGED attachUsed
  BY DEF ModelCommand, serverVars
<1>2. \A t \in new : TaskInv(t)'
  OBVIOUS
<1> HIDE DEF new
<1>3. runs' \in [Run -> [state : RunState, log : Nat]] /\ Working(runs') = Working(runs)
  BY <1>1, RunsStay
<1>4. QED
  BY <1>1, <1>2, <1>3, Flags, CommandStep

\* /resume adds the goroutine that replays.
LEMMA KeepsResumeCommand ==
    ASSUME HostInv, ResumeCommand
    PROVE  HostInv'
<1> DEFINE w == ReplayOf(hostRun, keys)
           new == {w}
<1>1. Command(new) /\ UNCHANGED runs /\ UNCHANGED <<hostRun, live>>
      /\ UNCHANGED label /\ UNCHANGED attachUsed /\ UNCHANGED approved /\ hostRun # None
  BY DEF ResumeCommand, serverVars, Command
<1>2. TaskInv(w)
  BY <1>1, TheShell, ReplayOfOK
<1>3. \A t \in new : TaskInv(t)'
  <2> SUFFICES ASSUME NEW t, t = w PROVE TaskInv(t)'
    OBVIOUS
  <2>1. TaskInv(t)
    BY <1>2
  <2> HIDE DEF w
  <2>2. QED
    BY <1>1, <2>1, TaskInvKept
<1> HIDE DEF w, new
<1>4. runs' \in [Run -> [state : RunState, log : Nat]] /\ Working(runs') = Working(runs)
  BY <1>1, RunsStay
<1>5. QED
  BY <1>1, <1>3, <1>4, Flags, CommandStep

\* /attach adds its goroutine and is noted.
LEMMA KeepsAttachCommand ==
    ASSUME HostInv, NEW r \in Run, AttachCommand(r)
    PROVE  HostInv'
<1> DEFINE log == Replay(r)
           w == [DispatchHostCommand("attach") EXCEPT !.run = r, !.replay = log]
           new == {w}
<1>1. Command(new) /\ UNCHANGED runs /\ UNCHANGED <<hostRun, live>> /\ UNCHANGED label
      /\ attachUsed' = TRUE
  BY DEF AttachCommand, serverVars
<1>2. log \in Replays
  BY ReplayOK DEF HostInv
<1> HIDE DEF log
<1>3. w = Given("attach", keys, "call", r, None, None, log)
  <2> DEFINE t == DispatchHostCommand("attach")
             u == [t EXCEPT !.run = r]
  <2>1. t = Given("attach", keys, "call", None, None, None, <<>>)
    BY DEF DispatchHostCommand, Task, Given
  <2> HIDE DEF t
  <2>2. u = Given("attach", keys, "call", r, None, None, <<>>)
    BY <2>1 DEF Given
  <2> HIDE DEF u
  <2>3. [u EXCEPT !.replay = log] = Given("attach", keys, "call", r, None, None, log)
    BY <2>2 DEF Given
  <2>4. QED
    BY <2>3 DEF t, u
<1>4. TaskOK(w) /\ w.kind = "attach" /\ w.at = "call"
  <2> DEFINE k == "attach"
             at == "call"
  <2>1. r \in Run \cup {None} /\ k \in Kinds /\ k # "submit" /\ k # "resolve"
        /\ keys \in Nat /\ at \in {"call", "replay"}
    BY TheShell DEF Kinds
  <2>2. w = Given(k, keys, at, r, None, None, log)
    BY <1>3
  <2> HIDE DEF k, at, w
  <2>3. TaskOK(w) /\ w.kind = k /\ w.at = at
    BY <1>2, <2>1, <2>2, GivenOK
  <2>4. QED
    BY <2>3 DEF k, at
<1> HIDE DEF w
<1>5. \A t \in new : TaskInv(t)'
  BY <1>1, <1>4 DEF TaskInv
<1> HIDE DEF new
<1>6. runs' \in [Run -> [state : RunState, log : Nat]] /\ Working(runs') = Working(runs)
  BY <1>1, RunsStay
<1>7. QED
  BY <1>1, <1>5, <1>6, Flags, CommandStep
-----------------------------------------------------------------------------
(* The requests of the tool calls *)

\* A new request is shown once and makes the adapter hold text back.
LEMMA KeepsAsk ==
    ASSUME HostInv, NEW p \in Perm, Ask(p)
    PROVE  HostInv'
<1> DEFINE e == Prompt("requested", p)
<1>1. /\ prompts[p].at = "none" /\ prompts' = [prompts EXCEPT ![p].at = "open"]
      /\ Send(e, tasks)
      /\ UNCHANGED hostRun /\ UNCHANGED label /\ UNCHANGED live /\ UNCHANGED runs
      /\ UNCHANGED typed /\ UNCHANGED keys /\ UNCHANGED drops
      /\ UNCHANGED wiped /\ UNCHANGED approved /\ UNCHANGED attachUsed
  BY DEF Ask, serverVars, boundVars, historyVars
<1>2. EventOK(e) /\ e.type = "requested" /\ e.perm = p /\ p \notin ui.pending
  BY <1>1, PromptIs DEF HostInv, AskedInv
<1> HIDE DEF e
<1>3. /\ AdapterInv(ui') /\ SaidOK(ui'.shell) /\ Said(ui'.shell) = Said(ui.shell)
      /\ ui'.pending = ui.pending \cup {p}
      /\ tasks \subseteq tasks'
      /\ \A t \in tasks' : t \in tasks \/ (TaskOK(t) /\ t.kind = "submit" /\ t.at = "call")
      /\ ui'.shell.streaming => ui.shell.streaming \/ Calling(tasks')
  BY <1>1, <1>2, Sends
<1>4. TasksInv'
  <2>1. ASSUME NEW t \in tasks' PROVE TaskInv(t)'
    <3>1. CASE t \in tasks
      BY <1>1, <3>1, TaskInvKept DEF HostInv, TasksInv
    <3>2. CASE TaskOK(t) /\ CallTask(t)
      BY <3>2, CallsAreFine
    <3>3. QED
      BY <1>3, <3>1, <3>2 DEF CallTask
  <2>2. QED
    BY <2>1 DEF TasksInv
<1>5. /\ prompts' \in [Perm -> Prompts]
      /\ \A x \in Perm : /\ prompts'[x].chan = prompts[x].chan
                         /\ prompts'[x].result = prompts[x].result
                         /\ prompts'[x].at = IF x = p THEN "open" ELSE prompts[x].at
  BY <1>1 DEF HostInv, PartsOK, Prompts
<1>6. PartsOK'
  BY <1>1, <1>5 DEF HostInv, PartsOK
<1>7. AskedInv' /\ ApprovedInv'
  BY <1>1, <1>3, <1>5 DEF HostInv, AskedInv, ApprovedInv
<1>8. StreamInv'
  <2>1. Working(runs') = Working(runs)
    BY <1>1
  <2>2. Calling(tasks) => Calling(tasks')
    BY <1>3 DEF Calling
  <2>3. QED
    BY <1>1, <1>3, <2>1, <2>2 DEF HostInv, StreamInv
<1>9. SaidInv'
  BY <1>1, <1>3 DEF HostInv, SaidInv
<1>10. QED
  BY <1>3, <1>4, <1>6, <1>7, <1>8, <1>9 DEF HostInv

\* A callback that moves on.
LEMMA PromptStep ==
    ASSUME HostInv, prompts' \in [Perm -> Prompts], ApprovedInv',
           \A x \in Perm : prompts'[x].at = "none" => prompts[x].at = "none",
           UNCHANGED <<ui, tasks, hostRun, label, serverVars, boundVars, historyVars>>
    PROVE  HostInv'
<1>1. /\ UNCHANGED ui /\ UNCHANGED tasks /\ UNCHANGED hostRun /\ UNCHANGED label
      /\ UNCHANGED live /\ UNCHANGED runs /\ UNCHANGED typed /\ UNCHANGED keys
      /\ UNCHANGED drops /\ UNCHANGED wiped /\ UNCHANGED approved /\ UNCHANGED attachUsed
  BY DEF serverVars, boundVars, historyVars
<1>2. TasksInv'
  BY <1>1, TaskInvKept DEF HostInv, TasksInv
<1>3. PartsOK'
  BY <1>1 DEF HostInv, PartsOK
<1>4. ~live' => drops' > 0
  BY <1>1 DEF HostInv, StreamInv
<1>5. Calling(tasks') = Calling(tasks) /\ Working(runs') = Working(runs)
  BY <1>1
<1>6. QED
  BY <1>1, <1>2, <1>3, <1>4, <1>5, LocalStep

\* A callback returns approve only on an approval that its channel held.
LEMMA KeepsDecided ==
    ASSUME HostInv, NEW p \in Perm, Decided(p)
    PROVE  HostInv'
<1>1. prompts \in [Perm -> Prompts] /\ UNCHANGED approved
  BY DEF HostInv, PartsOK, Decided, historyVars
<1>2. UNCHANGED <<ui, tasks, hostRun, label, serverVars, boundVars, historyVars>>
  BY DEF Decided
<1> DEFINE c == prompts[p].chan
<1>3. prompts[p].at = "open" /\ c \in Decision \cup {None}
  BY <1>1 DEF Decided, Prompts
<1>4. None # "approve"
  BY HostAssumption
<1>5. ApprovedInv
  BY DEF HostInv
<1>6. CASE prompts' = [prompts EXCEPT ![p] = [at |-> "leaving", chan |-> None, result |-> c]]
  <2>1. /\ prompts' \in [Perm -> Prompts]
        /\ \A x \in Perm : prompts'[x] = IF x = p
                THEN [at |-> "leaving", chan |-> None, result |-> c] ELSE prompts[x]
    BY <1>1, <1>3, <1>6 DEF Prompts
  <2>2. ApprovedInv'
    BY <1>1, <1>4, <1>5, <2>1 DEF ApprovedInv
  <2>3. \A x \in Perm : prompts'[x].at = "none" => prompts[x].at = "none"
    BY <2>1
  <2>4. QED
    BY <1>2, <2>1, <2>2, <2>3, PromptStep
<1>7. CASE prompts' = [prompts EXCEPT ![p].at = "leaving", ![p].result = "deny"]
  <2>1. /\ prompts' \in [Perm -> Prompts]
        /\ \A x \in Perm : x # p => prompts'[x] = prompts[x]
        /\ prompts'[p].at = "leaving" /\ prompts'[p].chan = c /\ prompts'[p].result = "deny"
    BY <1>1, <1>3, <1>7 DEF Prompts, Decision
  <2>2. ApprovedInv'
    BY <1>1, <1>4, <1>5, <2>1 DEF ApprovedInv
  <2>3. \A x \in Perm : prompts'[x].at = "none" => prompts[x].at = "none"
    BY <2>1
  <2>4. QED
    BY <1>2, <2>1, <2>2, <2>3, PromptStep
<1>8. QED
  BY <1>6, <1>7 DEF Decided

\* The tool call goes its way; the shell may still show its request.
LEMMA KeepsLeave ==
    ASSUME HostInv, NEW p \in Perm, Leave(p)
    PROVE  HostInv'
<1>1. prompts \in [Perm -> Prompts] /\ UNCHANGED approved
  BY DEF HostInv, PartsOK, Leave, historyVars
<1>2. UNCHANGED <<ui, tasks, hostRun, label, serverVars, boundVars, historyVars>>
  BY DEF Leave
<1>3. None # "approve"
  BY HostAssumption
<1>4. /\ prompts' \in [Perm -> Prompts]
      /\ \A x \in Perm : x # p => prompts'[x] = prompts[x]
      /\ prompts'[p].at = "gone" /\ prompts'[p].chan = None
      /\ prompts'[p].result = prompts[p].result
  BY <1>1 DEF Leave, Prompts
<1>5. ApprovedInv'
  BY <1>1, <1>3, <1>4 DEF HostInv, ApprovedInv
<1>6. \A x \in Perm : prompts'[x].at = "none" => prompts[x].at = "none"
  BY <1>4
<1>7. QED
  BY <1>2, <1>4, <1>5, <1>6, PromptStep
-----------------------------------------------------------------------------
(* The server's events *)

\* The client's read loop sends an event of a run.
LEMMA RunSends ==
    ASSUME HostInv, NEW e, EventOK(e), e.type \in {"delta", "completed"}, Send(e, tasks),
           runs' \in [Run -> [state : RunState, log : Nat]],
           e.type = "delta" => Working(runs') = Working(runs),
           UNCHANGED <<hostRun, label, live, prompts, boundVars, historyVars>>
    PROVE  HostInv'
<1>1. /\ UNCHANGED hostRun /\ UNCHANGED label /\ UNCHANGED live /\ UNCHANGED prompts
      /\ UNCHANGED typed /\ UNCHANGED keys /\ UNCHANGED drops
      /\ UNCHANGED wiped /\ UNCHANGED approved /\ UNCHANGED attachUsed
  BY DEF boundVars, historyVars
<1>2. /\ AdapterInv(ui') /\ SaidOK(ui'.shell) /\ Said(ui'.shell) = Said(ui.shell)
      /\ ui'.pending \subseteq ui.pending
      /\ tasks \subseteq tasks'
      /\ \A t \in tasks' : t \in tasks \/ (TaskOK(t) /\ t.kind = "submit" /\ t.at = "call")
      /\ ui'.shell.streaming => (ui.shell.streaming /\ e.type = "delta") \/ Calling(tasks')
  BY Sends
<1>3. TasksInv'
  <2>1. ASSUME NEW t \in tasks' PROVE TaskInv(t)'
    <3>1. CASE t \in tasks
      BY <1>1, <3>1, TaskInvKept DEF HostInv, TasksInv
    <3>2. CASE TaskOK(t) /\ CallTask(t)
      BY <3>2, CallsAreFine
    <3>3. QED
      BY <1>2, <3>1, <3>2 DEF CallTask
  <2>2. QED
    BY <2>1 DEF TasksInv
<1>4. PartsOK'
  BY <1>1 DEF HostInv, PartsOK
<1>5. AskedInv' /\ ApprovedInv'
  BY <1>1, <1>2 DEF HostInv, AskedInv, ApprovedInv
<1>6. StreamInv'
  <2>1. Calling(tasks) => Calling(tasks')
    BY <1>2 DEF Calling
  <2>2. QED
    BY <1>1, <1>2, <2>1 DEF HostInv, StreamInv
<1>7. SaidInv'
  BY <1>1, <1>2 DEF HostInv, SaidInv
<1>8. QED
  BY <1>2, <1>3, <1>4, <1>5, <1>6, <1>7 DEF HostInv

\* Streamed text keeps the invariant, shown or held back.
LEMMA KeepsTokenDelta ==
    ASSUME HostInv, NEW r \in Run, TokenDelta(r)
    PROVE  HostInv'
<1> DEFINE i == runs[r].log + 1
           e == Delta(r, i)
<1>1. /\ Send(e, tasks) /\ runs' = [runs EXCEPT ![r].log = @ + 1]
      /\ UNCHANGED <<hostRun, label, live, prompts, boundVars, historyVars>>
  BY DEF TokenDelta
<1>2. runs \in [Run -> [state : RunState, log : Nat]]
  BY DEF HostInv, PartsOK
<1>3. /\ runs' \in [Run -> [state : RunState, log : Nat]]
      /\ \A q \in Run : runs'[q].state = runs[q].state
  BY <1>1, <1>2
<1>4. Working(runs') = Working(runs)
  BY <1>3 DEF Working
<1>5. i \in Nat
  BY <1>2
<1>6. EventOK(e) /\ e.type = "delta"
  BY <1>5, DeltaIs
<1> HIDE DEF e
<1>7. QED
  BY <1>1, <1>3, <1>4, <1>6, RunSends

\* The end of a run ends the streaming or submits what was queued.
LEMMA KeepsTurnComplete ==
    ASSUME HostInv, NEW r \in Run, NEW o \in {"completed", "failed", "cancelled"},
           TurnComplete(r, o)
    PROVE  HostInv'
<1> DEFINE e == Event("completed", 0, r)
<1>1. /\ Send(e, tasks)
      /\ runs' = [runs EXCEPT ![r].state = IF o = "cancelled" THEN "stopped" ELSE o]
      /\ UNCHANGED <<hostRun, label, live, prompts, boundVars, historyVars>>
  BY DEF TurnComplete, historyVars
<1>2. runs' \in [Run -> [state : RunState, log : Nat]]
  BY <1>1 DEF HostInv, PartsOK, RunState, Terminal
<1>3. EventOK(e) /\ e.type = "completed"
  BY EventIs DEF Kind
<1> HIDE DEF e
<1>4. QED
  BY <1>1, <1>2, <1>3, RunSends
-----------------------------------------------------------------------------
(* The connection *)

\* A lost connection ends the runs and is counted, so nothing is promised of them.
LEMMA KeepsConnectionLost ==
    ASSUME HostInv, ConnectionLost
    PROVE  HostInv'
<1>1. /\ live' = FALSE /\ drops' = drops + 1 /\ UNCHANGED <<ui, typed, wiped>>
      /\ UNCHANGED tasks /\ UNCHANGED hostRun /\ UNCHANGED label /\ UNCHANGED prompts
      /\ UNCHANGED typed /\ UNCHANGED keys /\ UNCHANGED wiped /\ UNCHANGED approved
      /\ UNCHANGED attachUsed
  BY DEF ConnectionLost, historyVars
<1>2. drops \in Nat /\ drops' \in Nat /\ drops' > 0
  BY <1>1, TheShell
<1>3. runs' \in [Run -> [state : RunState, log : Nat]]
  BY DEF ConnectionLost, HostInv, PartsOK, RunState, Terminal
<1>4. TasksInv'
  BY <1>1, TaskInvKept DEF HostInv, TasksInv
<1>5. PartsOK' /\ ApprovedInv'
  BY <1>1, <1>2, <1>3 DEF HostInv, PartsOK, ApprovedInv
<1>6. Calling(tasks') = Calling(tasks)
  BY <1>1
<1>7. QED
  BY <1>1, <1>2, <1>4, <1>5, <1>6, LocalStep

\* A new connection adds the goroutine that resumes the known runs.
LEMMA KeepsConnectionReady ==
    ASSUME HostInv, ConnectionReady
    PROVE  HostInv'
<1> DEFINE i == MaxInputs + drops
           w == Task("resume", i)
           r == None
<1>1. /\ live' = TRUE /\ tasks' = tasks \cup {w} /\ UNCHANGED <<ui, typed, wiped>>
      /\ UNCHANGED hostRun /\ UNCHANGED label /\ UNCHANGED prompts /\ UNCHANGED runs
      /\ UNCHANGED typed /\ UNCHANGED keys /\ UNCHANGED drops /\ UNCHANGED wiped
      /\ UNCHANGED approved /\ UNCHANGED attachUsed
  BY DEF ConnectionReady, boundVars, historyVars
<1>2. i \in Nat
  BY TheShell, HostAssumption
<1> HIDE DEF i
<1>3. w = Given("resume", i, "call", r, None, None, <<>>)
  BY DEF Task, Given
<1>4. TaskOK(w) /\ w.kind = "resume" /\ w.at = "call"
  <2>1. r \in Run \cup {None} /\ "resume" \in Kinds /\ <<>> \in Replays
    BY NoReplay DEF Kinds
  <2> HIDE DEF r, w
  <2>2. QED
    BY <1>2, <1>3, <2>1, GivenOK
<1> HIDE DEF r, w
<1>5. TasksInv'
  <2>1. \A t \in tasks : TaskInv(t)
    BY DEF HostInv, TasksInv
  <2>2. \A t \in tasks : TaskInv(t)'
    BY <1>1, <2>1, TaskInvKept
  <2>3. \A t : t = w => TaskInv(t)'
    BY <1>4, PlainTask
  <2>4. QED
    BY <1>1, <2>2, <2>3 DEF TasksInv
<1>6. PartsOK' /\ ApprovedInv'
  BY <1>1 DEF HostInv, PartsOK, ApprovedInv
<1>7. Calling(tasks) => Calling(tasks')
  BY <1>1 DEF Calling
<1>8. Working(runs') = Working(runs)
  BY <1>1
<1>9. QED
  BY <1>1, <1>5, <1>6, <1>7, <1>8, LocalStep
-----------------------------------------------------------------------------
(* The theorems *)

\* The invariant holds of a fresh program.
LEMMA HostInitially == ASSUME Init PROVE HostInv
<1>1. /\ ui = NewAdapter /\ tasks = {} /\ hostRun = None /\ label = FALSE /\ live = TRUE
      /\ prompts = [p \in Perm |-> [at |-> "none", chan |-> None, result |-> None]]
      /\ runs = [r \in Run |-> [state |-> "absent", log |-> 0]]
      /\ typed = 0 /\ keys = 0 /\ drops = 0
      /\ wiped = {} /\ approved = {} /\ attachUsed = FALSE
  BY DEF Init
<1> DEFINE s == NewShell
<1>2. /\ <<>> \in Seq(Nat) /\ <<>> \in Seq(Seq(Nat)) /\ <<>> \in Seq(Perm) /\ <<>> \in Text
      /\ Len(<<>>) = 0 /\ ToSet(<<>>) = {}
  <2>1. Len(<<>>) = 0 /\ <<>> \in Seq(Nat) /\ <<>> \in Seq(Seq(Nat)) /\ <<>> \in Seq(Perm)
        /\ <<>> \in Seq(Deltas)
    BY EmptySeq
  <2>2. DOMAIN <<>> = {}
    OBVIOUS
  <2>3. QED
    BY <2>1, <2>2 DEF ToSet, Text
<1>3. ShellOK(s) /\ s.perms = <<>> /\ s.sent = <<>> /\ s.queued = <<>> /\ s.streaming = FALSE
  <2>1. s \in ShellRecord({s.rows}) /\ s.perms = <<>>
    BY <1>2 DEF NewShell, ShellRecord
  <2>2. QED
    BY <2>1 DEF ShellOK, NewShell
<1>4. AdapterInv(ui)
  <2>1. /\ ui \in [shell : {ui.shell}, attached : Run \cup {None}, pending : SUBSET Perm,
                   paused : Text, detached : Apart]
        /\ ui.shell = s /\ ui.pending = {} /\ ui.paused = <<>>
    <3> HIDE DEF s
    <3>1. ui = [shell |-> s, attached |-> None, pending |-> {}, paused |-> <<>>,
                detached |-> [r \in Run |-> <<>>]]
      BY <1>1 DEF NewAdapter, s
    <3>2. [r \in Run |-> <<>>] \in Apart
      BY <1>2 DEF Apart
    <3>3. QED
      BY <1>2, <3>1, <3>2
  <2> HIDE DEF s
  <2>2. Once(<<>>)
    BY <1>2 DEF Once
  <2>3. QED
    BY <1>2, <1>3, <2>1, <2>2 DEF AdapterInv, AdapterOK
<1>5. ui.shell = s /\ ui.pending = {}
  BY <1>1 DEF NewAdapter
<1> HIDE DEF s
<1>6. TasksInv
  BY <1>1 DEF TasksInv
<1>7. PartsOK /\ AskedInv
  BY <1>1, <1>5 DEF PartsOK, AskedInv, Prompts, RunState
<1>8. ApprovedInv
  BY <1>1, HostAssumption DEF ApprovedInv
<1>9. StreamInv
  BY <1>1, <1>3, <1>5 DEF StreamInv
<1>10. SaidInv
  <2>1. FlattenSeq(<<>>) = <<>>
    BY <1>2, FlattenIs
  <2>2. <<>> \o <<>> = <<>>
    BY <1>2, ConcatEmptySeq
  <2>3. Said(ui.shell) = <<>> /\ SaidOK(ui.shell)
    BY <1>2, <1>3, <1>5, <2>1, <2>2 DEF Said, SaidOK
  <2>4. InOrder(<<>>, 0, {})
    <3>1. DOMAIN <<>> = {}
      OBVIOUS
    <3>2. QED
      BY <1>2, <3>1 DEF InOrder
  <2>5. QED
    BY <1>1, <2>3, <2>4 DEF SaidInv
<1>11. QED
  BY <1>4, <1>6, <1>7, <1>8, <1>9, <1>10 DEF HostInv

\* Every step of a goroutine keeps the invariant.
LEMMA KeepsTaskStep == ASSUME HostInv, NEW t \in tasks, TaskStep(t) PROVE HostInv'
  BY KeepsSubmitFails, KeepsSubmitCall, KeepsSubmitAccepted, KeepsSubmitStarted,
     KeepsInterruptCall, KeepsInterruptStop, KeepsResolve, KeepsResolveTold, KeepsClearDone,
     KeepsAttachStarted, KeepsReplayNext, KeepsDetachDone, KeepsResumeRuns, KeepsPreviewCall
     DEF TaskStep

\* Every step of the user keeps the invariant.
LEMMA KeepsUserStep == ASSUME HostInv, UserStep PROVE HostInv'
  BY KeepsEnterText, KeepsEnterEmpty, KeepsEscKey, KeepsArrowKey, KeepsPreviewKey,
     KeepsAnswerPermission, KeepsClearCommand, KeepsDetachCommand, KeepsCancelCommand,
     KeepsModelCommand, KeepsResumeCommand, KeepsAttachCommand
     DEF UserStep

\* A stuttering step keeps the invariant.
LEMMA KeepsStutter == ASSUME HostInv, UNCHANGED vars PROVE HostInv'
<1>1. /\ UNCHANGED <<ui, tasks, hostRun, label, serverVars, boundVars, historyVars>>
      /\ UNCHANGED prompts /\ UNCHANGED approved
  BY DEF vars, historyVars
<1>2. prompts' \in [Perm -> Prompts] /\ ApprovedInv'
      /\ \A x \in Perm : prompts'[x].at = "none" => prompts[x].at = "none"
  BY <1>1 DEF HostInv, PartsOK, ApprovedInv
<1>3. QED
  BY <1>1, <1>2, PromptStep

\* The invariant of the terminal program holds after every key, every event of the
\* server and every step of the goroutines that the program starts (model.go,
\* adapter.go, production_runtime.go).
THEOREM HostInvariance == Spec => []HostInv
<1>1. Init => HostInv
  BY HostInitially
<1>2. ASSUME HostInv, [Next]_vars PROVE HostInv'
  <2>1. CASE UserStep
    BY <1>2, <2>1, KeepsUserStep
  <2>2. CASE \E t \in tasks : TaskStep(t)
    BY <1>2, <2>2, KeepsTaskStep
  <2>3. CASE \E p \in Perm : Ask(p) \/ Decided(p) \/ Leave(p)
    BY <1>2, <2>3, KeepsAsk, KeepsDecided, KeepsLeave
  <2>4. CASE \E r \in Run : RunStep(r)
    BY <1>2, <2>4, KeepsTokenDelta, KeepsTurnComplete DEF RunStep
  <2>5. CASE ConnectionLost \/ ConnectionReady
    BY <1>2, <2>5, KeepsConnectionLost, KeepsConnectionReady
  <2>6. CASE UNCHANGED vars
    BY <1>2, <2>6, KeepsStutter
  <2>7. QED
    BY <1>2, <2>1, <2>2, <2>3, <2>4, <2>5, <2>6 DEF Next
<1>3. QED
  BY <1>1, <1>2, PTL DEF Spec

\* Whatever keys are pressed and whenever the host's events arrive, each message is
\* submitted once and in the order typed, still waits, or was wiped by /clear
\* (queue.go).
THEOREM TypedStaysInOrder == Spec => []TypedIsKeptInOrder
<1>1. HostInv => TypedIsKeptInOrder
  BY DEF HostInv, SaidInv, InOrder, Said, TypedIsKeptInOrder, sent
<1>2. QED
  BY <1>1, HostInvariance, PTL

\* The requests the shell offers are, each once, those for which the adapter holds
\* text back, however answers, denials and events interleave (adapter.go,
\* permissions.go).
THEOREM PromptsStayAgreed == Spec => []PromptsAgree
<1>1. ASSUME HostInv PROVE PromptsAgree
  <2> DEFINE ps == ui.shell.perms
  <2>1. ps \in Seq(Perm) /\ AdapterInv(ui)
    BY <1>1, TheShell DEF HostInv
  <2>2. Len(ps) \in Nat /\ DOMAIN ps = 1 .. Len(ps) /\ Once(ps) /\ ToSet(ps) = ui.pending
    BY <2>1 DEF AdapterInv
  <2> HIDE DEF ps
  <2>3. Len(ps) = Cardinality(ToSet(ps))
    BY <2>2, OnceCounts
  <2>4. QED
    BY <2>1, <2>2, <2>3 DEF AdapterInv, PromptsAgree, ps
<1>2. QED
  BY <1>1, HostInvariance, PTL

\* No tool runs but on the user's approval of its own request, however late, repeated
\* or out of turn the answers are (production_runtime.go).
THEOREM ToolsRunOnApproval == Spec => []OnlyApprovedToolsRun
<1>1. HostInv => OnlyApprovedToolsRun
  BY DEF HostInv, ApprovedInv, OnlyApprovedToolsRun
<1>2. QED
  BY <1>1, HostInvariance, PTL

\* A streaming shell has a submission under way or a run that is not over to end its
\* streaming, but for a lost connection, a labelled or an attached run (events.go).
THEOREM StreamsCanEnd == Spec => []StreamingHasAnEnd
<1>1. HostInv => StreamingHasAnEnd
  BY DEF HostInv, StreamInv, Calling, CallTask, Working, StreamingHasAnEnd
<1>2. QED
  BY <1>1, HostInvariance, PTL
=============================================================================
