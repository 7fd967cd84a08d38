--------------------------- MODULE GatewayProofs ---------------------------
(***************************************************************************)
(* What TLAPS proves of Gateway, for any runs, endpoints, routing, hours   *)
(* and conversations: a process that works on the file has its tables, the *)
(* totals count the rows, the request reaches its upstream, the capture    *)
(* and the relay tell the same of a completed turn, and a request that was *)
(* cut to a window is paired.                                              *)
(*                                                                         *)
(* The recursive functions behind MapThenSumSet and FoldLeft are reached   *)
(* through what they compute at one member more: a least counterexample    *)
(* shows that they exist and that a fact holds of every prefix.            *)
(***************************************************************************)
EXTENDS Gateway, FiniteSetTheorems, SequenceTheorems, WellFoundedInduction, TLAPS

\* A set of numbers has a least one: what stands for induction below.
LEMMA Least ==
    ASSUME NEW S \in SUBSET Nat, S # {}
    PROVE  \E n \in S : \A m \in S : n <= m
<1>1. IsWellFoundedOn(OpToRel(<, Nat), Nat)
  BY NatLessThanWellFounded
<1>2. PICK n \in S : \A m \in S : ~(<<m, n>> \in OpToRel(<, Nat))
  BY <1>1, WFMin
<1>3. \A m \in S : ~(m < n)
  BY <1>2 DEF OpToRel
<1>4. QED
  BY <1>3

-----------------------------------------------------------------------------
(* Sums *)

\* The choice of MapThenSumSet.
Pick(s) == CHOOSE x \in s : TRUE

\* f adds up what g gives the members of a set.
Adds(g, S, f) ==
    f = [s \in SUBSET S |-> IF s = {} THEN 0 ELSE LET x == Pick(s) IN g[x] + f[s \ {x}]]

Adding(g, S) == CHOOSE f : Adds(g, S, f)
Total(g, S) == Adding(g, S)[S]

\* Small(S, n): the subsets of S with at most n members.
Small(S, n) == {s \in SUBSET S : Cardinality(s) <= n}

\* The same, over small sets only.
AddsSmall(g, S, n, f) ==
    f = [s \in Small(S, n) |-> IF s = {} THEN 0 ELSE LET x == Pick(s) IN g[x] + f[s \ {x}]]

\* A set that is not empty has the member that is picked, and is smaller without it.
LEMMA Picked ==
    ASSUME NEW s, IsFiniteSet(s), s # {}
    PROVE  /\ Pick(s) \in s /\ IsFiniteSet(s \ {Pick(s)})
           /\ Cardinality(s) \in Nat /\ Cardinality(s \ {Pick(s)}) \in Nat
           /\ Cardinality(s \ {Pick(s)}) < Cardinality(s)
<1>1. Pick(s) \in s
  BY DEF Pick
<1>2. Cardinality(s) \in Nat
  BY FS_CardinalityType
<1>3. IsFiniteSet(s \ {Pick(s)}) /\ Cardinality(s \ {Pick(s)}) = Cardinality(s) - 1
  BY <1>1, FS_RemoveElement
<1>4. Cardinality(s \ {Pick(s)}) \in Nat
  BY <1>3, FS_CardinalityType
<1>5. QED
  BY <1>1, <1>2, <1>3, <1>4

\* The recursive function of a sum exists, up to any size.
LEMMA AddsSmallExists ==
    ASSUME NEW g, NEW S, IsFiniteSet(S), NEW n \in Nat
    PROVE  \E f : AddsSmall(g, S, n, f)
<1> DEFINE Bad == {k \in Nat : ~\E f : AddsSmall(g, S, k, f)}
<1> SUFFICES ASSUME Bad # {} PROVE FALSE
  OBVIOUS
<1>1. PICK k \in Bad : \A j \in Bad : k <= j
  BY Least
<1>2. \A s \in SUBSET S : IsFiniteSet(s) /\ Cardinality(s) \in Nat
  BY FS_Subset, FS_CardinalityType
<1>3. CASE k = 0
  <2>1. \A s \in Small(S, 0) : s = {}
    BY <1>2, FS_EmptySet DEF Small
  <2>2. AddsSmall(g, S, 0, [s \in Small(S, 0) |-> 0])
    BY <2>1 DEF AddsSmall
  <2>3. QED
    BY <1>3, <2>2
<1>4. CASE k # 0
  <2>1. k - 1 \in Nat /\ k - 1 \notin Bad
    BY <1>1, <1>4
  <2>2. PICK e : AddsSmall(g, S, k - 1, e)
    BY <2>1
  <2> DEFINE h == [s \in Small(S, k) |->
                      IF s = {} THEN 0 ELSE LET x == Pick(s) IN g[x] + e[s \ {x}]]
  <2>3. \A s \in Small(S, k - 1) : s \in Small(S, k) /\ h[s] = e[s]
    <3>1. \A s \in Small(S, k - 1) : s \in Small(S, k)
      BY <1>1, <1>2, <2>1 DEF Small
    <3>2. \A s \in Small(S, k - 1) :
              e[s] = IF s = {} THEN 0 ELSE LET x == Pick(s) IN g[x] + e[s \ {x}]
      BY <2>2 DEF AddsSmall
    <3>3. QED
      BY <3>1, <3>2
  <2>4. \A s \in Small(S, k) :
            h[s] = IF s = {} THEN 0 ELSE LET x == Pick(s) IN g[x] + h[s \ {x}]
    <3> SUFFICES ASSUME NEW s \in Small(S, k), s # {}
                 PROVE  h[s] = g[Pick(s)] + h[s \ {Pick(s)}]
      OBVIOUS
    <3>1. s \in SUBSET S /\ Cardinality(s) <= k /\ IsFiniteSet(s)
      BY <1>2 DEF Small
    <3>2. s \ {Pick(s)} \in Small(S, k - 1)
      BY <1>1, <3>1, Picked DEF Small
    <3>3. h[s] = g[Pick(s)] + e[s \ {Pick(s)}]
      OBVIOUS
    <3> HIDE DEF h
    <3>4. QED
      BY <2>3, <3>2, <3>3
  <2>5. h = [s \in Small(S, k) |-> h[s]]
    OBVIOUS
  <2> HIDE DEF h
  <2>6. AddsSmall(g, S, k, h)
    BY <2>4, <2>5 DEF AddsSmall
  <2>7. QED
    BY <2>6
<1>5. QED
  BY <1>3, <1>4

\* The recursive function of a sum exists.
LEMMA AddingAdds ==
    ASSUME NEW g, NEW S, IsFiniteSet(S)
    PROVE  Adds(g, S, Adding(g, S))
<1>1. Cardinality(S) \in Nat
  BY FS_CardinalityType
<1>2. PICK f : AddsSmall(g, S, Cardinality(S), f)
  BY <1>1, AddsSmallExists
<1>3. Small(S, Cardinality(S)) = SUBSET S
  BY FS_Subset DEF Small
<1>4. Adds(g, S, f)
  BY <1>2, <1>3 DEF AddsSmall, Adds
<1>5. QED
  BY <1>4 DEF Adding

\* What such a function gives a set.
LEMMA AddsIs ==
    ASSUME NEW g, NEW S, NEW f, Adds(g, S, f), NEW s \in SUBSET S
    PROVE  /\ s = {} => f[s] = 0
           /\ s # {} => f[s] = g[Pick(s)] + f[s \ {Pick(s)}]
  BY DEF Adds

\* What Adding gives a set.
LEMMA AddingIs ==
    ASSUME NEW g, NEW S, IsFiniteSet(S), NEW s \in SUBSET S
    PROVE  /\ s = {} => Adding(g, S)[s] = 0
           /\ s # {} => Adding(g, S)[s] = g[Pick(s)] + Adding(g, S)[s \ {Pick(s)}]
  BY AddingAdds, AddsIs

\* A sum depends on nothing but the members of the set and what they give.
LEMMA SameSums ==
    ASSUME NEW g, NEW S, NEW f, Adds(g, S, f), NEW g2, NEW S2, NEW f2, Adds(g2, S2, f2),
           NEW s \in SUBSET S, IsFiniteSet(s), s \in SUBSET S2, \A x \in s : g[x] = g2[x]
    PROVE  f[s] = f2[s]
<1> DEFINE Bad == {k \in Nat : \E u \in SUBSET s : Cardinality(u) = k /\ f[u] # f2[u]}
<1>1. \A u \in SUBSET s : IsFiniteSet(u) /\ Cardinality(u) \in Nat
  BY FS_Subset, FS_CardinalityType
<1>2. \A u \in SUBSET s : /\ u = {} => f[u] = 0 /\ f2[u] = 0
                          /\ u # {} => /\ f[u] = g[Pick(u)] + f[u \ {Pick(u)}]
                                       /\ f2[u] = g2[Pick(u)] + f2[u \ {Pick(u)}]
  <2> SUFFICES ASSUME NEW u \in SUBSET s
               PROVE  /\ u = {} => f[u] = 0 /\ f2[u] = 0
                      /\ u # {} => /\ f[u] = g[Pick(u)] + f[u \ {Pick(u)}]
                                   /\ f2[u] = g2[Pick(u)] + f2[u \ {Pick(u)}]
    OBVIOUS
  <2>1. u \in SUBSET S /\ u \in SUBSET S2
    OBVIOUS
  <2>2. /\ u = {} => f[u] = 0
        /\ u # {} => f[u] = g[Pick(u)] + f[u \ {Pick(u)}]
    BY <2>1, AddsIs
  <2>3. /\ u = {} => f2[u] = 0
        /\ u # {} => f2[u] = g2[Pick(u)] + f2[u \ {Pick(u)}]
    BY <2>1, AddsIs
  <2>4. QED
    BY <2>2, <2>3
<1>3. SUFFICES ASSUME f[s] # f2[s] PROVE FALSE
  OBVIOUS
<1>4. Cardinality(s) \in Bad
  BY <1>1, <1>3
<1>5. PICK k \in Bad : \A j \in Bad : k <= j
  BY <1>4, Least
<1>6. PICK u \in SUBSET s : Cardinality(u) = k /\ f[u] # f2[u]
  BY <1>5
<1>7. u # {}
  BY <1>2, <1>6
<1>8. Pick(u) \in u /\ Cardinality(u \ {Pick(u)}) < k /\ Cardinality(u \ {Pick(u)}) \in Nat
  BY <1>1, <1>6, <1>7, Picked
<1>9. f[u \ {Pick(u)}] = f2[u \ {Pick(u)}]
  <2>1. u \ {Pick(u)} \in SUBSET s
    OBVIOUS
  <2>2. QED
    BY <1>5, <1>8, <2>1
<1>10. QED
  BY <1>2, <1>6, <1>7, <1>8, <1>9

\* The same of the sums of two sets.
LEMMA SameSum ==
    ASSUME NEW g, NEW S, IsFiniteSet(S), NEW g2, NEW S2, IsFiniteSet(S2),
           NEW s \in SUBSET S, s \in SUBSET S2, \A x \in s : g[x] = g2[x]
    PROVE  Adding(g, S)[s] = Adding(g2, S2)[s]
<1>1. Adds(g, S, Adding(g, S)) /\ Adds(g2, S2, Adding(g2, S2)) /\ IsFiniteSet(s)
  BY AddingAdds, FS_Subset
<1>2. QED
  BY <1>1, SameSums

\* A sum of numbers is a number.
LEMMA SumIsNat ==
    ASSUME NEW g, NEW S, IsFiniteSet(S), \A x \in S : g[x] \in Nat, NEW s \in SUBSET S
    PROVE  Adding(g, S)[s] \in Nat
<1> DEFINE f == Adding(g, S)
           Bad == {k \in Nat : \E u \in SUBSET S : Cardinality(u) = k /\ f[u] \notin Nat}
<1>1. \A u \in SUBSET S : IsFiniteSet(u) /\ Cardinality(u) \in Nat
  BY FS_Subset, FS_CardinalityType
<1>2. \A u \in SUBSET S : /\ u = {} => f[u] = 0
                          /\ u # {} => f[u] = g[Pick(u)] + f[u \ {Pick(u)}]
  BY AddingIs
<1> HIDE DEF f
<1>3. SUFFICES ASSUME f[s] \notin Nat PROVE FALSE
  BY DEF f
<1>4. Cardinality(s) \in Bad
  BY <1>1, <1>3
<1>5. PICK k \in Bad : \A j \in Bad : k <= j
  BY <1>4, Least
<1>6. PICK u \in SUBSET S : Cardinality(u) = k /\ f[u] \notin Nat
  BY <1>5
<1> HIDE DEF Bad
<1>7. u # {}
  <2>1. u = {} => f[u] = 0
    BY <1>2
  <2>2. QED
    BY <1>6, <2>1
<1>8. Pick(u) \in u /\ Cardinality(u \ {Pick(u)}) < k /\ Cardinality(u \ {Pick(u)}) \in Nat
  BY <1>1, <1>6, <1>7, Picked
<1>9. f[u \ {Pick(u)}] \in Nat
  <2>1. u \ {Pick(u)} \in SUBSET S
    OBVIOUS
  <2>2. QED
    BY <1>5, <1>8, <2>1 DEF Bad
<1>10. g[Pick(u)] \in Nat /\ f[u] = g[Pick(u)] + f[u \ {Pick(u)}]
  BY <1>2, <1>7, <1>8
<1>11. QED
  BY <1>6, <1>9, <1>10

\* Any member may be taken out first.
LEMMA TakeOut ==
    ASSUME NEW g, NEW S, IsFiniteSet(S), \A x \in S : g[x] \in Nat,
           NEW s \in SUBSET S, NEW x \in s
    PROVE  Adding(g, S)[s] = g[x] + Adding(g, S)[s \ {x}]
<1> DEFINE f == Adding(g, S)
           Bad == {k \in Nat : \E u \in SUBSET S : \E y \in u :
                      Cardinality(u) = k /\ f[u] # g[y] + f[u \ {y}]}
<1>1. \A u \in SUBSET S : IsFiniteSet(u) /\ Cardinality(u) \in Nat
  BY FS_Subset, FS_CardinalityType
<1>2. \A u \in SUBSET S : u # {} => f[u] = g[Pick(u)] + f[u \ {Pick(u)}]
  BY AddingIs
<1>3. \A u \in SUBSET S : f[u] \in Nat
  BY SumIsNat
<1> HIDE DEF f
<1>4. SUFFICES ASSUME f[s] # g[x] + f[s \ {x}] PROVE FALSE
  BY DEF f
<1>5. Cardinality(s) \in Bad
  BY <1>1, <1>4
<1>6. PICK k \in Bad : \A j \in Bad : k <= j
  BY <1>5, Least
<1>7. \A v \in SUBSET S : Cardinality(v) < k => \A y \in v : f[v] = g[y] + f[v \ {y}]
  <2> SUFFICES ASSUME NEW v \in SUBSET S, Cardinality(v) < k, NEW y \in v,
                      f[v] # g[y] + f[v \ {y}]
               PROVE  FALSE
    OBVIOUS
  <2>1. Cardinality(v) \in Bad
    BY <1>1
  <2>2. k \in Nat /\ Cardinality(v) \in Nat /\ k <= Cardinality(v)
    BY <1>1, <1>6, <2>1
  <2>3. QED
    BY <2>2
<1>8. PICK u \in SUBSET S : \E y \in u : Cardinality(u) = k /\ f[u] # g[y] + f[u \ {y}]
  BY <1>6
<1>9. PICK y \in u : Cardinality(u) = k /\ f[u] # g[y] + f[u \ {y}]
  BY <1>8
<1> DEFINE z == Pick(u)
<1>10. z \in u /\ Cardinality(u \ {z}) < k /\ Cardinality(u \ {z}) \in Nat
  BY <1>1, <1>9, Picked
<1>11. f[u] = g[z] + f[u \ {z}]
  BY <1>2, <1>9
<1> HIDE DEF z
<1>12. y # z
  BY <1>9, <1>11
<1>13. f[u \ {z}] = g[y] + f[u \ {y, z}]
  <2>1. u \ {z} \in SUBSET S /\ y \in u \ {z} /\ (u \ {z}) \ {y} = u \ {y, z}
    BY <1>12
  <2>2. QED
    BY <1>10, <1>7, <2>1
<1>14. f[u \ {y}] = g[z] + f[u \ {y, z}]
  <2>1. u \ {y} \in SUBSET S /\ z \in u \ {y} /\ (u \ {y}) \ {z} = u \ {y, z}
    BY <1>10, <1>12
  <2>2. Cardinality(u \ {y}) = Cardinality(u) - 1 /\ Cardinality(u) \in Nat
    BY <1>1, <1>9, FS_RemoveElement
  <2>3. Cardinality(u \ {y}) < k
    BY <1>9, <2>2
  <2>4. QED
    BY <1>7, <2>1, <2>3, SMTT(30)
<1>15. g[y] \in Nat /\ g[z] \in Nat /\ f[u \ {y, z}] \in Nat
  <2>1. y \in S /\ z \in S /\ u \ {y, z} \in SUBSET S
    BY <1>10
  <2>2. QED
    BY <1>3, <2>1
<1>16. QED
  BY <1>9, <1>11, <1>13, <1>14, <1>15

\* Nothings add up to nothing.
LEMMA ZeroSum ==
    ASSUME NEW g, NEW S, IsFiniteSet(S), NEW s \in SUBSET S, \A x \in s : g[x] = 0
    PROVE  Adding(g, S)[s] = 0
<1> DEFINE f == Adding(g, S)
           Bad == {k \in Nat : \E u \in SUBSET s : Cardinality(u) = k /\ f[u] # 0}
<1>1. \A u \in SUBSET s : IsFiniteSet(u) /\ Cardinality(u) \in Nat
  BY FS_Subset, FS_CardinalityType
<1>2. \A u \in SUBSET S : /\ u = {} => f[u] = 0
                          /\ u # {} => f[u] = g[Pick(u)] + f[u \ {Pick(u)}]
  <2>1. Adds(g, S, f)
    BY AddingAdds
  <2> HIDE DEF f
  <2>2. QED
    BY <2>1, AddsIs
<1> HIDE DEF f
<1>3. SUFFICES ASSUME f[s] # 0 PROVE FALSE
  BY DEF f
<1>4. Cardinality(s) \in Bad
  BY <1>1, <1>3
<1>5. PICK k \in Bad : \A j \in Bad : k <= j
  BY <1>4, Least
<1>6. PICK u \in SUBSET s : Cardinality(u) = k /\ f[u] # 0
  BY <1>5
<1>7. u # {} /\ u \in SUBSET S
  BY <1>2, <1>6
<1>8. Pick(u) \in u /\ Cardinality(u \ {Pick(u)}) < k /\ Cardinality(u \ {Pick(u)}) \in Nat
  BY <1>1, <1>6, <1>7, Picked
<1>9. f[u \ {Pick(u)}] = 0
  <2>1. u \ {Pick(u)} \in SUBSET s
    OBVIOUS
  <2>2. QED
    BY <1>5, <1>8, <2>1
<1>10. g[Pick(u)] = 0
  BY <1>8
<1>11. f[u] = g[Pick(u)] + f[u \ {Pick(u)}]
  BY <1>2, <1>7
<1>12. QED
  BY <1>6, <1>9, <1>10, <1>11

\* A member that gives more makes the sum that much greater.
LEMMA TotalAdds ==
    ASSUME NEW S, IsFiniteSet(S), NEW g, NEW h, \A x \in S : g[x] \in Nat /\ h[x] \in Nat,
           NEW y \in S, NEW n \in Nat, h[y] = g[y] + n, \A x \in S \ {y} : h[x] = g[x]
    PROVE  Total(h, S) = Total(g, S) + n
<1>1. S \in SUBSET S /\ S \ {y} \in SUBSET S
  OBVIOUS
<1>2. /\ Adding(g, S)[S] = g[y] + Adding(g, S)[S \ {y}]
      /\ Adding(h, S)[S] = h[y] + Adding(h, S)[S \ {y}]
  BY <1>1, TakeOut
<1>3. Adding(h, S)[S \ {y}] = Adding(g, S)[S \ {y}]
  BY <1>1, SameSum
<1>4. Adding(g, S)[S \ {y}] \in Nat /\ g[y] \in Nat
  BY <1>1, SumIsNat
<1>5. QED
  BY <1>2, <1>3, <1>4 DEF Total

\* A new member adds what it gives.
LEMMA TotalGrows ==
    ASSUME NEW S, IsFiniteSet(S), NEW g, NEW h, NEW y, y \notin S,
           \A x \in S : g[x] \in Nat /\ h[x] = g[x], h[y] \in Nat
    PROVE  Total(h, S \cup {y}) = Total(g, S) + h[y]
<1> DEFINE T == S \cup {y}
<1>1. IsFiniteSet(T)
  BY FS_AddElement
<1>2. T \in SUBSET T /\ y \in T /\ T \ {y} = S /\ S \in SUBSET T /\ S \in SUBSET S
      /\ \A x \in T : h[x] \in Nat
  OBVIOUS
<1> HIDE DEF T
<1>3. Adding(h, T)[T] = h[y] + Adding(h, T)[S]
  BY <1>1, <1>2, TakeOut
<1>4. Adding(h, T)[S] = Adding(g, S)[S]
  BY <1>1, <1>2, SameSum
<1>5. Adding(g, S)[S] \in Nat
  BY <1>2, SumIsNat
<1>6. QED
  BY <1>3, <1>4, <1>5 DEF Total, T

\* When one member alone gives anything, it is the sum.
LEMMA TotalOfOne ==
    ASSUME NEW S, IsFiniteSet(S), NEW g, NEW y \in S, g[y] \in Nat,
           \A x \in S \ {y} : g[x] = 0
    PROVE  Total(g, S) = g[y]
<1>1. S \in SUBSET S /\ S \ {y} \in SUBSET S /\ \A x \in S : g[x] \in Nat
  OBVIOUS
<1>2. Adding(g, S)[S] = g[y] + Adding(g, S)[S \ {y}]
  BY <1>1, TakeOut
<1>3. Adding(g, S)[S \ {y}] = 0
  BY <1>1, ZeroSum
<1>4. QED
  BY <1>2, <1>3 DEF Total
-----------------------------------------------------------------------------
(* The sums of the tables *)

Counts(t)  == SumOver(t, LAMBDA x : x.count)
Outputs(t) == SumOver(t, LAMBDA x : x.output)
RowsOutput(R) == MapThenSumSet(LAMBDA r : r.output, R)

CountOf(t)  == [b \in DOMAIN t |-> t[b].count]
OutputOf(t) == [b \in DOMAIN t |-> t[b].output]
GivenBy(R)  == [r \in R |-> r.output]

\* The sum of the counts.
LEMMA CountsAre ==
    ASSUME NEW t, IsFiniteSet(DOMAIN t)
    PROVE  Counts(t) = Total(CountOf(t), DOMAIN t)
<1> DEFINE S == DOMAIN t
           g == CountOf(t)
           Is(f) == f = [s \in SUBSET S |->
                            IF s = {} THEN 0
                            ELSE LET x == CHOOSE x \in s : TRUE IN t[x].count + f[s \ {x}]]
           c == CHOOSE f : Is(f)
<1>1. Counts(t) = c[S]
  BY DEF Counts, SumOver, MapThenSumSet, MapThenFoldSet
<1>2. \A f : Adds(g, S, f) <=> Is(f)
  <2> SUFFICES ASSUME NEW f PROVE Adds(g, S, f) <=> Is(f)
    OBVIOUS
  <2>1. \A s \in SUBSET S : s # {} => g[Pick(s)] = t[Pick(s)].count
    BY DEF Pick, CountOf
  <2> HIDE DEF g, S
  <2>2. QED
    BY <2>1 DEF Adds, Pick
<1>3. \E f : Adds(g, S, f)
  BY AddingAdds
<1> HIDE DEF g, S, Is
<1>4. \E f : Is(f)
  BY <1>2, <1>3
<1>5. Is(c)
  BY <1>4
<1>6. Adds(g, S, c)
  BY <1>2, <1>5
<1>7. Adds(g, S, Adding(g, S)) /\ IsFiniteSet(S) /\ S \in SUBSET S
  BY AddingAdds DEF S
<1> HIDE DEF c
<1>8. c[S] = Adding(g, S)[S]
  BY <1>6, <1>7, SameSums
<1>9. QED
  BY <1>1, <1>8 DEF Total, g, S

\* The sum of the output tokens.
LEMMA OutputsAre ==
    ASSUME NEW t, IsFiniteSet(DOMAIN t)
    PROVE  Outputs(t) = Total(OutputOf(t), DOMAIN t)
<1> DEFINE S == DOMAIN t
           g == OutputOf(t)
           Is(f) == f = [s \in SUBSET S |->
                            IF s = {} THEN 0
                            ELSE LET x == CHOOSE x \in s : TRUE IN t[x].output + f[s \ {x}]]
           c == CHOOSE f : Is(f)
<1>1. Outputs(t) = c[S]
  BY DEF Outputs, SumOver, MapThenSumSet, MapThenFoldSet
<1>2. \A f : Adds(g, S, f) <=> Is(f)
  <2> SUFFICES ASSUME NEW f PROVE Adds(g, S, f) <=> Is(f)
    OBVIOUS
  <2>1. \A s \in SUBSET S : s # {} => g[Pick(s)] = t[Pick(s)].output
    BY DEF Pick, OutputOf
  <2> HIDE DEF g, S
  <2>2. QED
    BY <2>1 DEF Adds, Pick
<1>3. \E f : Adds(g, S, f)
  BY AddingAdds
<1> HIDE DEF g, S, Is
<1>4. \E f : Is(f)
  BY <1>2, <1>3
<1>5. Is(c)
  BY <1>4
<1>6. Adds(g, S, c)
  BY <1>2, <1>5
<1>7. Adds(g, S, Adding(g, S)) /\ IsFiniteSet(S) /\ S \in SUBSET S
  BY AddingAdds DEF S
<1> HIDE DEF c
<1>8. c[S] = Adding(g, S)[S]
  BY <1>6, <1>7, SameSums
<1>9. QED
  BY <1>1, <1>8 DEF Total, g, S

\* The sum of the rows' output tokens.
LEMMA RowsOutputIs ==
    ASSUME NEW R, IsFiniteSet(R)
    PROVE  RowsOutput(R) = Total(GivenBy(R), R)
<1> DEFINE S == R
           g == GivenBy(R)
           Is(f) == f = [s \in SUBSET S |->
                            IF s = {} THEN 0
                            ELSE LET x == CHOOSE x \in s : TRUE IN x.output + f[s \ {x}]]
           c == CHOOSE f : Is(f)
<1>1. RowsOutput(R) = c[S]
  BY DEF RowsOutput, MapThenSumSet, MapThenFoldSet
<1>2. \A f : Adds(g, S, f) <=> Is(f)
  <2> SUFFICES ASSUME NEW f PROVE Adds(g, S, f) <=> Is(f)
    OBVIOUS
  <2>1. \A s \in SUBSET S : s # {} => g[Pick(s)] = Pick(s).output
    BY DEF Pick, GivenBy
  <2> HIDE DEF g, S
  <2>2. QED
    BY <2>1 DEF Adds, Pick
<1>3. \E f : Adds(g, S, f)
  BY AddingAdds
<1> HIDE DEF g, S, Is
<1>4. \E f : Is(f)
  BY <1>2, <1>3
<1>5. Is(c)
  BY <1>4
<1>6. Adds(g, S, c)
  BY <1>2, <1>5
<1>7. Adds(g, S, Adding(g, S)) /\ IsFiniteSet(S) /\ S \in SUBSET S
  BY AddingAdds DEF S
<1> HIDE DEF c
<1>8. c[S] = Adding(g, S)[S]
  BY <1>6, <1>7, SameSums
<1>9. QED
  BY <1>1, <1>8 DEF Total, g, S

-----------------------------------------------------------------------------
(* The totals *)

TotalRecord == [count : Nat, output : Nat]

\* A table of totals counts each of the rows.
TableCounts(t, R) == Counts(t) = Cardinality(R) /\ Outputs(t) = RowsOutput(R)

\* SaveRequest: a new row is counted in one bucket, and the table counts the rows.
LEMMA SaveCounts ==
    ASSUME NEW B, IsFiniteSet(B), NEW t \in [B -> TotalRecord], NEW b \in B,
           NEW R, IsFiniteSet(R), \A r \in R : r.output \in Nat,
           NEW row, row \notin R, row.output \in Nat, TableCounts(t, R)
    PROVE  LET u == [t EXCEPT ![b] = Counted(t[b], row)]
           IN  u \in [B -> TotalRecord] /\ TableCounts(u, R \cup {row})
<1> DEFINE u == [t EXCEPT ![b] = Counted(t[b], row)]
<1>1. /\ DOMAIN t = B /\ DOMAIN u = B
      /\ \A x \in B : t[x] \in TotalRecord
      /\ \A x \in B \ {b} : u[x] = t[x]
      /\ u[b] = Counted(t[b], row)
  OBVIOUS
<1>2. \A x \in B : t[x].count \in Nat /\ t[x].output \in Nat
  BY <1>1 DEF TotalRecord
<1>3. /\ Counted(t[b], row) \in TotalRecord
      /\ Counted(t[b], row).count = t[b].count + 1
      /\ Counted(t[b], row).output = t[b].output + row.output
  BY <1>2 DEF Counted, TotalRecord
<1>4. u \in [B -> TotalRecord]
  BY <1>3
<1> HIDE DEF u
<1>5. \A x \in B : u[x].count \in Nat /\ u[x].output \in Nat
  BY <1>4 DEF TotalRecord
<1>6. Counts(u) = Counts(t) + 1
  <2>1. /\ \A x \in B : CountOf(t)[x] = t[x].count /\ CountOf(u)[x] = u[x].count
    BY <1>1 DEF CountOf
  <2>2. /\ \A x \in B : CountOf(t)[x] \in Nat /\ CountOf(u)[x] \in Nat
        /\ CountOf(u)[b] = CountOf(t)[b] + 1
        /\ \A x \in B \ {b} : CountOf(u)[x] = CountOf(t)[x]
    BY <1>1, <1>2, <1>3, <1>5, <2>1
  <2>3. Total(CountOf(u), B) = Total(CountOf(t), B) + 1
    BY <2>2, TotalAdds
  <2>4. QED
    BY <1>1, <2>3, CountsAre
<1>7. Outputs(u) = Outputs(t) + row.output
  <2>1. /\ \A x \in B : OutputOf(t)[x] = t[x].output /\ OutputOf(u)[x] = u[x].output
    BY <1>1 DEF OutputOf
  <2>2. /\ \A x \in B : OutputOf(t)[x] \in Nat /\ OutputOf(u)[x] \in Nat
        /\ OutputOf(u)[b] = OutputOf(t)[b] + row.output
        /\ \A x \in B \ {b} : OutputOf(u)[x] = OutputOf(t)[x]
    BY <1>1, <1>2, <1>3, <1>5, <2>1
  <2>3. Total(OutputOf(u), B) = Total(OutputOf(t), B) + row.output
    BY <2>2, TotalAdds
  <2>4. QED
    BY <1>1, <2>3, OutputsAre
<1>8. RowsOutput(R \cup {row}) = RowsOutput(R) + row.output
  <2> DEFINE T == R \cup {row}
  <2>1. IsFiniteSet(T)
    BY FS_AddElement
  <2>2. /\ \A x \in R : GivenBy(R)[x] \in Nat /\ GivenBy(T)[x] = GivenBy(R)[x]
        /\ GivenBy(T)[row] = row.output
    BY DEF GivenBy
  <2> HIDE DEF T
  <2>3. Total(GivenBy(T), R \cup {row}) = Total(GivenBy(R), R) + GivenBy(T)[row]
    <3> DEFINE g == GivenBy(R)
               h == GivenBy(T)
    <3>1. h[row] \in Nat
      BY <2>2
    <3>2. \A x \in R : g[x] \in Nat /\ h[x] = g[x]
      BY <2>2
    <3> HIDE DEF g, h
    <3>3. Total(h, R \cup {row}) = Total(g, R) + h[row]
      BY <3>1, <3>2, TotalGrows
    <3>4. QED
      BY <3>3 DEF g, h
  <2>4. RowsOutput(T) = Total(GivenBy(T), T) /\ RowsOutput(R) = Total(GivenBy(R), R)
    BY <2>1, RowsOutputIs
  <2>5. QED
    BY <2>2, <2>3, <2>4 DEF T
<1>9. Cardinality(R \cup {row}) = Cardinality(R) + 1
  BY FS_AddElement
<1>10. QED
  BY <1>4, <1>6, <1>7, <1>8, <1>9 DEF TableCounts, u

\* RebuildMetrics: one bucket has everything.
LEMMA RebuildCounts ==
    ASSUME NEW B, IsFiniteSet(B), Literal \in B, NEW t, DOMAIN t = B,
           IsFiniteSet(rows), \A r \in rows : r.output \in Nat
    PROVE  Rebuilt(t) \in [B -> TotalRecord] /\ TableCounts(Rebuilt(t), rows)
<1> DEFINE u == Rebuilt(t)
           out == RowsOutput(rows)
<1>1. Cardinality(rows) \in Nat
  BY FS_CardinalityType
<1>2. out \in Nat
  <2>1. \A x \in rows : GivenBy(rows)[x] \in Nat
    BY DEF GivenBy
  <2>2. Total(GivenBy(rows), rows) \in Nat
    BY <2>1, SumIsNat DEF Total
  <2>3. QED
    BY <2>2, RowsOutputIs
<1>3. u = [b \in B |-> IF b = Literal THEN [count |-> Cardinality(rows), output |-> out] ELSE Zero]
  BY DEF Rebuilt, RowsOutput
<1> HIDE DEF u, out
<1>4. /\ DOMAIN u = B /\ u[Literal] = [count |-> Cardinality(rows), output |-> out]
      /\ \A b \in B \ {Literal} : u[b] = Zero
      /\ u \in [B -> TotalRecord]
  BY <1>1, <1>2, <1>3 DEF Zero, TotalRecord
<1>5. /\ u[Literal].count = Cardinality(rows) /\ u[Literal].output = out
      /\ \A b \in B \ {Literal} : u[b].count = 0 /\ u[b].output = 0
  BY <1>4 DEF Zero
<1>6. Counts(u) = Cardinality(rows)
  <2>1. /\ CountOf(u)[Literal] = Cardinality(rows)
        /\ \A b \in B \ {Literal} : CountOf(u)[b] = 0
    BY <1>4, <1>5 DEF CountOf
  <2>2. Total(CountOf(u), B) = CountOf(u)[Literal]
    BY <1>1, <2>1, TotalOfOne
  <2>3. QED
    BY <1>4, <2>1, <2>2, CountsAre
<1>7. Outputs(u) = out
  <2>1. /\ OutputOf(u)[Literal] = out
        /\ \A b \in B \ {Literal} : OutputOf(u)[b] = 0
    BY <1>4, <1>5 DEF OutputOf
  <2>2. Total(OutputOf(u), B) = OutputOf(u)[Literal]
    BY <1>2, <2>1, TotalOfOne
  <2>3. QED
    BY <1>4, <2>1, <2>2, OutputsAre
<1>8. QED
  BY <1>4, <1>6, <1>7 DEF TableCounts, u, out

\* An empty table counts no rows.
LEMMA EmptyCounts ==
    ASSUME NEW B, IsFiniteSet(B), NEW t, t = [b \in B |-> Zero]
    PROVE  t \in [B -> TotalRecord] /\ TableCounts(t, {})
<1>1. DOMAIN t = B /\ \A b \in B : t[b].count = 0 /\ t[b].output = 0
  BY DEF Zero
<1>2. t \in [B -> TotalRecord]
  BY DEF Zero, TotalRecord
<1>3. (\A b \in B : CountOf(t)[b] = 0) /\ (\A b \in B : OutputOf(t)[b] = 0)
  BY <1>1 DEF CountOf, OutputOf
<1>4. Total(CountOf(t), B) = 0 /\ Total(OutputOf(t), B) = 0
  <2>1. B \in SUBSET B
    OBVIOUS
  <2>2. QED
    BY <1>3, <2>1, ZeroSum DEF Total
<1>5. IsFiniteSet({}) /\ Cardinality({}) = 0
  BY FS_EmptySet
<1>6. RowsOutput({}) = 0
  <2>1. Total(GivenBy({}), {}) = 0
    <3>1. {} \in SUBSET {} /\ \A x \in {} : GivenBy({})[x] = 0
      OBVIOUS
    <3>2. QED
      BY <1>5, <3>1, ZeroSum DEF Total
  <2>2. QED
    BY <1>5, <2>1, RowsOutputIs
<1>7. Counts(t) = 0 /\ Outputs(t) = 0
  BY <1>1, <1>4, CountsAre, OutputsAre
<1>8. QED
  BY <1>2, <1>5, <1>6, <1>7 DEF TableCounts

-----------------------------------------------------------------------------
(* The store *)

Opening == [at : {"closed", "migrating", "v1", "open", "failed"}, step : 1 .. 5]

\* A process that migrates has the tables of the steps it has passed, the file those
\* of its version, and a process that works on it has all of them.
SchemaInv ==
    /\ file \in [version : 0 .. 4, has : SUBSET Version]
    /\ 1 .. file.version \subseteq file.has
    /\ opener \in [Process -> Opening]
    /\ \A p \in Process :
        /\ opener[p].at = "migrating" => 1 .. opener[p].step - 1 \subseteq file.has
        /\ opener[p].at = "v1" => 1 \in file.has
        /\ opener[p].at = "open" => file.has = Version

\* Both tables of totals count the rows.
TotalsInv ==
    /\ IsFiniteSet(rows)
    /\ \A row \in rows : row.output \in Nat
    /\ hourly \in [Hour \cup {Literal} -> TotalRecord] /\ TableCounts(hourly, rows)
    /\ daily \in [{Day, Literal} -> TotalRecord] /\ TableCounts(daily, rows)

\* What the invariant asks of one process.
Fits(o, has) ==
    /\ o \in Opening
    /\ o.at = "migrating" => 1 .. o.step - 1 \subseteq has
    /\ o.at = "v1" => 1 \in has
    /\ o.at = "open" => has = Version

\* More tables do a process no harm.
LEMMA MoreTables ==
    ASSUME NEW o, NEW has, Fits(o, has), NEW more \in SUBSET Version, has \subseteq more
    PROVE  Fits(o, more)
  BY DEF Fits

\* A step of a process that adds tables and leaves it with what it has passed.
LEMMA SchemaStep ==
    ASSUME SchemaInv, NEW p \in Process, NEW o, NEW v \in 0 .. 4, NEW more \in SUBSET Version,
           file' = [version |-> v, has |-> file.has \cup more],
           1 .. v \subseteq file.has \cup more,
           opener' = [opener EXCEPT ![p] = o], Fits(o, file.has \cup more)
    PROVE  SchemaInv'
<1> DEFINE has == file.has \cup more
<1>1. file.has \in SUBSET Version /\ has \in SUBSET Version /\ file.has \subseteq has
  BY DEF SchemaInv
<1>2. \A q \in Process : Fits(opener[q], file.has)
  BY DEF SchemaInv, Fits
<1>3. file' \in [version : 0 .. 4, has : SUBSET Version] /\ file'.version = v /\ file'.has = has
  BY <1>1
<1> HIDE DEF has
<1>4. \A q \in Process : Fits(opener[q], has)
  BY <1>1, <1>2, MoreTables
<1>5. /\ opener' \in [Process -> Opening]
      /\ \A q \in Process : opener'[q] = IF q = p THEN o ELSE opener[q]
  BY DEF SchemaInv, Fits
<1>6. \A q \in Process : Fits(opener'[q], has)
  BY <1>4, <1>5 DEF has
<1>7. QED
  BY <1>3, <1>5, <1>6 DEF SchemaInv, Fits, has

\* NewSQLiteStore reads the version.
LEMMA OpenStoreKeeps ==
    ASSUME SchemaInv, NEW p \in Process, OpenStore(p)
    PROVE  SchemaInv'
<1> DEFINE o == [at |-> "migrating", step |-> NextStep(file.version)]
<1>1. file.version \in 0 .. 4 /\ file.has \in SUBSET Version
      /\ file = [version |-> file.version, has |-> file.has]
  BY DEF SchemaInv
<1>2. Fits(o, file.has)
  BY <1>1 DEF SchemaInv, Fits, Opening, NextStep
<1>3. file' = [version |-> file.version, has |-> file.has \cup {}] /\ file.has \cup {} = file.has
  BY <1>1 DEF OpenStore
<1>4. opener' = [opener EXCEPT ![p] = o] /\ 1 .. file.version \subseteq file.has
  BY DEF OpenStore, SchemaInv
<1> HIDE DEF o
<1>5. QED
  BY <1>1, <1>2, <1>3, <1>4, SchemaStep

\* A migration adds the tables of its step, whatever version another process has
\* written meanwhile.
LEMMA MigrateKeeps ==
    ASSUME SchemaInv, NEW p \in Process, Migrate(p)
    PROVE  SchemaInv'
<1>1. /\ file.version \in 0 .. 4 /\ file.has \in SUBSET Version
      /\ file = [version |-> file.version, has |-> file.has]
      /\ opener[p] \in Opening /\ Fits(opener[p], file.has)
      /\ 1 .. file.version \subseteq file.has
      /\ opener \in [Process -> Opening]
      /\ opener[p] = [at |-> opener[p].at, step |-> opener[p].step]
  BY DEF SchemaInv, Fits, Opening
<1>2. \A i \in {2, 3, 4} : At(p, i) =>
          LET o == [at |-> "migrating", step |-> i + 1]
              more == {i}
          IN  /\ more \in SUBSET Version /\ 1 .. i \subseteq file.has \cup more
              /\ Passed(p) = [opener EXCEPT ![p] = o]
              /\ Fits(o, file.has \cup more)
  <2> SUFFICES ASSUME NEW i \in {2, 3, 4}, At(p, i)
               PROVE  LET o == [at |-> "migrating", step |-> i + 1]
                          more == {i}
                      IN  /\ more \in SUBSET Version /\ 1 .. i \subseteq file.has \cup more
                          /\ Passed(p) = [opener EXCEPT ![p] = o]
                          /\ Fits(o, file.has \cup more)
    OBVIOUS
  <2>1. opener[p].at = "migrating" /\ opener[p].step = i /\ 1 .. i - 1 \subseteq file.has
    BY <1>1 DEF At, Fits
  <2>2. 1 .. i \subseteq file.has \cup {i} /\ {i} \in SUBSET Version
    BY <2>1 DEF Version
  <2>3. [opener[p] EXCEPT !.step = @ + 1] = [at |-> "migrating", step |-> i + 1]
    BY <1>1, <2>1
  <2>4. Passed(p) = [opener EXCEPT ![p] = [at |-> "migrating", step |-> i + 1]]
    BY <2>3 DEF Passed
  <2>5. [at |-> "migrating", step |-> i + 1] \in Opening
    BY DEF Opening
  <2>6. Fits([at |-> "migrating", step |-> i + 1], file.has \cup {i})
    BY <2>2, <2>5 DEF Fits
  <2>7. QED
    BY <2>2, <2>4, <2>6
<1>3. CASE MigrateToV1(p)
  <2> DEFINE o == [opener[p] EXCEPT !.at = "v1"]
  <2>1. /\ file' = [version |-> file.version, has |-> file.has \cup {1}]
        /\ {1} \in SUBSET Version
        /\ 1 .. file.version \subseteq file.has \cup {1}
    BY <1>1, <1>3 DEF MigrateToV1, Version
  <2>2. opener' = [opener EXCEPT ![p] = o]
    BY <1>3 DEF MigrateToV1
  <2>3. o = [at |-> "v1", step |-> opener[p].step]
    BY <1>1
  <2>4. Fits(o, file.has \cup {1})
    BY <1>1, <2>3 DEF Fits, Opening
  <2> HIDE DEF o
  <2>5. QED
    BY <1>1, <2>1, <2>2, <2>4, SchemaStep
<1>4. CASE MigrateToV1Version(p)
  <2> DEFINE o == [at |-> "migrating", step |-> 2]
  <2>1. 1 \in file.has /\ opener[p].at = "v1"
    BY <1>1, <1>4 DEF MigrateToV1Version, Fits
  <2>2. /\ file' = [version |-> 1, has |-> file.has \cup {}] /\ {} \in SUBSET Version
        /\ file.has \cup {} = file.has /\ 1 .. 1 \subseteq file.has
    BY <1>1, <1>4, <2>1 DEF MigrateToV1Version
  <2>3. [opener[p] EXCEPT !.at = "migrating", !.step = 2] = o
    <3> DEFINE w == opener[p]
    <3>1. w \in Opening
      BY <1>1
    <3> HIDE DEF w
    <3>2. [w EXCEPT !.at = "migrating", !.step = 2] = [[w EXCEPT !.at = "migrating"] EXCEPT !.step = 2]
      OBVIOUS
    <3>3. [w EXCEPT !.at = "migrating"] = [at |-> "migrating", step |-> w.step]
      BY <3>1 DEF Opening
    <3>4. [[at |-> "migrating", step |-> w.step] EXCEPT !.step = 2] = o
      OBVIOUS
    <3>5. QED
      BY <3>2, <3>3, <3>4 DEF w
  <2>4. opener' = [opener EXCEPT ![p] = o]
    BY <1>4, <2>3 DEF MigrateToV1Version
  <2>5. Fits(o, file.has)
    BY <2>1 DEF Fits, Opening
  <2>6. 1 \in 0 .. 4
    OBVIOUS
  <2> HIDE DEF o
  <2>7. QED
    BY <2>2, <2>4, <2>5, <2>6, SchemaStep
<1>5. ASSUME NEW i \in {2, 3}, CreateTables(p, i) PROVE SchemaInv'
  <2>1. CASE i \in file.has
    <3> DEFINE o == [opener[p] EXCEPT !.at = "failed"]
    <3>1. /\ file' = [version |-> file.version, has |-> file.has \cup {}]
          /\ {} \in SUBSET Version /\ file.has \cup {} = file.has
      BY <1>1, <1>5, <2>1 DEF CreateTables
    <3>2. opener' = [opener EXCEPT ![p] = o]
      BY <1>5, <2>1 DEF CreateTables
    <3>3. o = [at |-> "failed", step |-> opener[p].step]
      BY <1>1
    <3>4. Fits(o, file.has)
      BY <1>1, <3>3 DEF Fits, Opening
    <3> HIDE DEF o
    <3>5. QED
      BY <1>1, <3>1, <3>2, <3>4, SchemaStep
  <2>2. CASE i \notin file.has
    <3> DEFINE o == [at |-> "migrating", step |-> i + 1]
               more == {i}
    <3>1. At(p, i) /\ file' = [version |-> i, has |-> file.has \cup more] /\ opener' = Passed(p)
      BY <1>5, <2>2 DEF CreateTables
    <3>2. /\ more \in SUBSET Version /\ 1 .. i \subseteq file.has \cup more
          /\ Passed(p) = [opener EXCEPT ![p] = o] /\ Fits(o, file.has \cup more)
      BY <1>2, <3>1
    <3>3. i \in 0 .. 4
      OBVIOUS
    <3> HIDE DEF o, more
    <3>4. QED
      BY <3>1, <3>2, <3>3, SchemaStep
  <2>3. QED
    BY <2>1, <2>2
<1>6. CASE MigrateToV4(p)
  <2> DEFINE o == [at |-> "migrating", step |-> 4 + 1]
             more == {4}
  <2>1. At(p, 4) /\ file' = [version |-> 4, has |-> file.has \cup more] /\ opener' = Passed(p)
    BY <1>6 DEF MigrateToV4
  <2>2. /\ more \in SUBSET Version /\ 1 .. 4 \subseteq file.has \cup more
        /\ Passed(p) = [opener EXCEPT ![p] = o] /\ Fits(o, file.has \cup more)
    BY <1>2, <2>1
  <2>3. 4 \in 0 .. 4
    OBVIOUS
  <2> HIDE DEF o, more
  <2>4. QED
    BY <2>1, <2>2, <2>3, SchemaStep
<1>7. CASE Opened(p)
  <2> DEFINE o == [opener[p] EXCEPT !.at = "open"]
  <2>1. /\ file' = [version |-> file.version, has |-> file.has \cup {}]
        /\ {} \in SUBSET Version /\ file.has \cup {} = file.has
    BY <1>1, <1>7 DEF Opened
  <2>2. opener' = [opener EXCEPT ![p] = o]
    BY <1>7 DEF Opened
  <2>3. o = [at |-> "open", step |-> opener[p].step]
    BY <1>1
  <2>4. file.has = Version
    <3>1. opener[p].at = "migrating" /\ opener[p].step = 5
      BY <1>1, <1>7 DEF Opened, Opening
    <3>2. 1 .. 4 \subseteq file.has
      BY <1>1, <3>1 DEF Fits
    <3>3. QED
      BY <1>1, <3>2 DEF Version
  <2>5. Fits(o, file.has)
    BY <1>1, <2>3, <2>4 DEF Fits, Opening
  <2> HIDE DEF o
  <2>6. QED
    BY <1>1, <2>1, <2>2, <2>5, SchemaStep
<1>8. QED
  BY <1>3, <1>4, <1>5, <1>6, <1>7 DEF Migrate, MigrateToV2, MigrateToV3

\* A process that closes the file, or dies with it open or half migrated.
LEMMA CloseStoreKeeps ==
    ASSUME SchemaInv, NEW p \in Process, CloseStore(p)
    PROVE  SchemaInv'
<1>1. /\ file.version \in 0 .. 4 /\ file.has \cup {} = file.has
      /\ file' = [version |-> file.version, has |-> file.has \cup {}]
      /\ 1 .. file.version \subseteq file.has
  BY DEF SchemaInv, CloseStore
<1>2. Fits(Closed, file.has) /\ opener' = [opener EXCEPT ![p] = Closed]
  BY DEF Fits, Closed, Opening, CloseStore
<1>3. {} \in SUBSET Version
  OBVIOUS
<1>4. QED
  BY <1>1, <1>2, <1>3, SchemaStep

\* A step that leaves the file alone.
LEMMA SchemaStays ==
    ASSUME SchemaInv, UNCHANGED <<file, opener>>
    PROVE  SchemaInv'
  BY DEF SchemaInv

\* A step that leaves rows and totals alone.
LEMMA TotalsStay ==
    ASSUME TotalsInv, UNCHANGED <<rows, hourly, daily>>
    PROVE  TotalsInv'
  BY DEF TotalsInv

\* SaveRequest: a new row is counted once by the hour and once by the day.
LEMMA SaveKeeps ==
    ASSUME TotalsInv, NEW row, SaveRequest(row), row \notin rows, row.output \in Nat,
           row.hour \in Hour
    PROVE  TotalsInv'
<1> DEFINE R == rows \cup {row}
           H == Hour \cup {Literal}
           D == {Day, Literal}
           h == [hourly EXCEPT ![row.hour] = Counted(hourly[row.hour], row)]
           d == [daily EXCEPT ![Day] = Counted(daily[Day], row)]
<1>1. rows' = R /\ hourly' = h /\ daily' = d
  BY DEF SaveRequest
<1>2. IsFiniteSet(R) /\ \A r \in R : r.output \in Nat
  BY FS_AddElement DEF TotalsInv
<1>3. IsFiniteSet(H) /\ IsFiniteSet(D)
  <2>1. IsFiniteSet({Day}) /\ IsFiniteSet({Day} \cup {Literal})
    BY FS_EmptySet, FS_AddElement, FS_Singleton
  <2>2. {Day} \cup {Literal} = D
    OBVIOUS
  <2>3. QED
    BY <2>1, <2>2, RequestStoreAssumption, FS_AddElement
<1>4. h \in [H -> TotalRecord] /\ TableCounts(h, R)
  <2>1. hourly \in [H -> TotalRecord] /\ row.hour \in H /\ TableCounts(hourly, rows)
        /\ IsFiniteSet(rows) /\ \A r \in rows : r.output \in Nat
    BY DEF TotalsInv
  <2> HIDE DEF H
  <2>2. QED
    BY <1>3, <2>1, SaveCounts
<1>5. d \in [D -> TotalRecord] /\ TableCounts(d, R)
  <2>1. daily \in [D -> TotalRecord] /\ Day \in D /\ TableCounts(daily, rows)
        /\ IsFiniteSet(rows) /\ \A r \in rows : r.output \in Nat
    BY DEF TotalsInv
  <2> HIDE DEF D
  <2>2. QED
    BY <1>3, <2>1, SaveCounts
<1> HIDE DEF R, h, d
<1>6. QED
  BY <1>1, <1>2, <1>4, <1>5 DEF TotalsInv

\* RebuildMetrics counts every row again.
LEMMA RebuildKeeps ==
    ASSUME TotalsInv, NEW p, RebuildMetrics(p)
    PROVE  TotalsInv'
<1> DEFINE H == Hour \cup {Literal}
           D == {Day, Literal}
<1>1. rows' = rows /\ hourly' = Rebuilt(hourly) /\ daily' = Rebuilt(daily)
  BY DEF RebuildMetrics
<1>2. DOMAIN hourly = H /\ DOMAIN daily = D /\ Literal \in H /\ Literal \in D
      /\ IsFiniteSet(rows) /\ \A r \in rows : r.output \in Nat
  BY DEF TotalsInv
<1>3. IsFiniteSet(H) /\ IsFiniteSet(D)
  <2>1. IsFiniteSet({Day}) /\ IsFiniteSet({Day} \cup {Literal})
    BY FS_EmptySet, FS_AddElement, FS_Singleton
  <2>2. {Day} \cup {Literal} = D
    OBVIOUS
  <2>3. QED
    BY <2>1, <2>2, RequestStoreAssumption, FS_AddElement
<1> HIDE DEF H, D
<1>4. /\ Rebuilt(hourly) \in [H -> TotalRecord] /\ TableCounts(Rebuilt(hourly), rows)
      /\ Rebuilt(daily) \in [D -> TotalRecord] /\ TableCounts(Rebuilt(daily), rows)
  BY <1>2, <1>3, RebuildCounts
<1>5. QED
  BY <1>1, <1>2, <1>4 DEF TotalsInv, H, D

\* A new file holds nothing and counts nothing.
LEMMA StoreInitially ==
    ASSUME StoreInit
    PROVE  SchemaInv /\ TotalsInv
<1>1. SchemaInv
  BY DEF StoreInit, SchemaInv, Closed, Opening
<1>2. IsFiniteSet(Hour \cup {Literal}) /\ IsFiniteSet({Day, Literal}) /\ IsFiniteSet({})
  <2>1. IsFiniteSet({Day}) /\ IsFiniteSet({Day} \cup {Literal}) /\ IsFiniteSet({})
    BY FS_EmptySet, FS_AddElement, FS_Singleton
  <2>2. {Day} \cup {Literal} = {Day, Literal}
    OBVIOUS
  <2>3. QED
    BY <2>1, <2>2, RequestStoreAssumption, FS_AddElement
<1>3. rows = {} /\ hourly = [h \in Hour \cup {Literal} |-> Zero]
      /\ daily = [d \in {Day, Literal} |-> Zero]
  BY DEF StoreInit
<1>4. hourly \in [Hour \cup {Literal} -> TotalRecord] /\ TableCounts(hourly, {})
  BY <1>2, <1>3, EmptyCounts
<1>5. daily \in [{Day, Literal} -> TotalRecord] /\ TableCounts(daily, {})
  BY <1>2, <1>3, EmptyCounts
<1>6. QED
  BY <1>1, <1>2, <1>3, <1>4, <1>5 DEF TotalsInv

-----------------------------------------------------------------------------
(* Streams and their readings *)

\* The provider types whose streams the proxy captures.
Captured == {"anthropic", "openai"}

EventKind == {"message_start", "message_delta", "delta", "message_stop", "error", "bad",
              "chunk", "finish", "usage", "[DONE]", "object", "done"}
EventRecord == [kind : EventKind, n : Nat]
Reading == [text : Nat, input : Nat, output : Nat]

BadStream(s) == \E i \in DOMAIN s : s[i].kind = "bad"

\* A report of usage is not empty, or the relay would keep the earlier one and the
\* capture would not.
Telling(type, e) ==
    /\ type = "anthropic" /\ e.kind \in {"message_start", "message_delta"} => e.n > 0
    /\ type = "openai" /\ e.kind = "usage" => e.n > 0

\* Nothing follows the terminal event.
EventFits(type, s, i) ==
    /\ s[i] \in EventRecord /\ Telling(type, s[i])
    /\ ParseStreamEvent(type, s[i]).type = "done" => i = Len(s)

\* What is known of a stream.
StreamOK(type, s) ==
    /\ Len(s) \in Nat \ {0} /\ DOMAIN s = 1 .. Len(s)
    /\ \A i \in 1 .. Len(s) : EventFits(type, s, i)

\* What an event does to the stream it is in.
LEMMA EventIsFit ==
    ASSUME NEW type, NEW s, NEW i, NEW e \in EventRecord, s[i] = e, Telling(type, e),
           i = Len(s) \/ ParseStreamEvent(type, e).type # "done"
    PROVE  EventFits(type, s, i)
  BY DEF EventFits

\* Anthropic's streams.
LEMMA AnthropicStreams ==
    ASSUME NEW s \in Streams["anthropic"]
    PROVE  StreamOK("anthropic", s)
<1>1. CASE s = << Ev("message_start", 2), Ev("message_delta", 1), Ev("delta", 0),
                  Ev("message_delta", 3), Ev("message_stop", 0) >>
  <2>1. Len(s) = 5 /\ DOMAIN s = 1 .. 5
    BY <1>1
  <2>2. EventFits("anthropic", s, 1)
    <3>1. s[1] = Ev("message_start", 2)
      BY <1>1
    <3>2. Ev("message_start", 2) \in EventRecord
      BY DEF EventRecord, EventKind, Ev
    <3>3. Telling("anthropic", Ev("message_start", 2))
      BY DEF Telling, Ev
    <3>4. 1 = Len(s) \/ ParseStreamEvent("anthropic", Ev("message_start", 2)).type # "done"
      BY <2>1 DEF ParseStreamEvent, ParseAnthropic, Canonical, Ev
    <3>5. QED
      BY <3>1, <3>2, <3>3, <3>4, EventIsFit
  <2>3. EventFits("anthropic", s, 2)
    <3>1. s[2] = Ev("message_delta", 1)
      BY <1>1
    <3>2. Ev("message_delta", 1) \in EventRecord
      BY DEF EventRecord, EventKind, Ev
    <3>3. Telling("anthropic", Ev("message_delta", 1))
      BY DEF Telling, Ev
    <3>4. 2 = Len(s) \/ ParseStreamEvent("anthropic", Ev("message_delta", 1)).type # "done"
      BY <2>1 DEF ParseStreamEvent, ParseAnthropic, Canonical, Ev
    <3>5. QED
      BY <3>1, <3>2, <3>3, <3>4, EventIsFit
  <2>4. EventFits("anthropic", s, 3)
    <3>1. s[3] = Ev("delta", 0)
      BY <1>1
    <3>2. Ev("delta", 0) \in EventRecord
      BY DEF EventRecord, EventKind, Ev
    <3>3. Telling("anthropic", Ev("delta", 0))
      BY DEF Telling, Ev
    <3>4. 3 = Len(s) \/ ParseStreamEvent("anthropic", Ev("delta", 0)).type # "done"
      BY <2>1 DEF ParseStreamEvent, ParseAnthropic, Canonical, Ev
    <3>5. QED
      BY <3>1, <3>2, <3>3, <3>4, EventIsFit
  <2>5. EventFits("anthropic", s, 4)
    <3>1. s[4] = Ev("message_delta", 3)
      BY <1>1
    <3>2. Ev("message_delta", 3) \in EventRecord
      BY DEF EventRecord, EventKind, Ev
    <3>3. Telling("anthropic", Ev("message_delta", 3))
      BY DEF Telling, Ev
    <3>4. 4 = Len(s) \/ ParseStreamEvent("anthropic", Ev("message_delta", 3)).type # "done"
      BY <2>1 DEF ParseStreamEvent, ParseAnthropic, Canonical, Ev
    <3>5. QED
      BY <3>1, <3>2, <3>3, <3>4, EventIsFit
  <2>6. EventFits("anthropic", s, 5)
    <3>1. s[5] = Ev("message_stop", 0)
      BY <1>1
    <3>2. Ev("message_stop", 0) \in EventRecord
      BY DEF EventRecord, EventKind, Ev
    <3>3. Telling("anthropic", Ev("message_stop", 0))
      BY DEF Telling, Ev
    <3>4. 5 = Len(s) \/ ParseStreamEvent("anthropic", Ev("message_stop", 0)).type # "done"
      BY <2>1 DEF ParseStreamEvent, ParseAnthropic, Canonical, Ev
    <3>5. QED
      BY <3>1, <3>2, <3>3, <3>4, EventIsFit
  <2>7. QED
    BY <2>1, <2>2, <2>3, <2>4, <2>5, <2>6 DEF StreamOK
<1>2. CASE s = << Ev("message_start", 2), Ev("delta", 0), Ev("error", 0) >>
  <2>1. Len(s) = 3 /\ DOMAIN s = 1 .. 3
    BY <1>2
  <2>2. EventFits("anthropic", s, 1)
    <3>1. s[1] = Ev("message_start", 2)
      BY <1>2
    <3>2. Ev("message_start", 2) \in EventRecord
      BY DEF EventRecord, EventKind, Ev
    <3>3. Telling("anthropic", Ev("message_start", 2))
      BY DEF Telling, Ev
    <3>4. 1 = Len(s) \/ ParseStreamEvent("anthropic", Ev("message_start", 2)).type # "done"
      BY <2>1 DEF ParseStreamEvent, ParseAnthropic, Canonical, Ev
    <3>5. QED
      BY <3>1, <3>2, <3>3, <3>4, EventIsFit
  <2>3. EventFits("anthropic", s, 2)
    <3>1. s[2] = Ev("delta", 0)
      BY <1>2
    <3>2. Ev("delta", 0) \in EventRecord
      BY DEF EventRecord, EventKind, Ev
    <3>3. Telling("anthropic", Ev("delta", 0))
      BY DEF Telling, Ev
    <3>4. 2 = Len(s) \/ ParseStreamEvent("anthropic", Ev("delta", 0)).type # "done"
      BY <2>1 DEF ParseStreamEvent, ParseAnthropic, Canonical, Ev
    <3>5. QED
      BY <3>1, <3>2, <3>3, <3>4, EventIsFit
  <2>4. EventFits("anthropic", s, 3)
    <3>1. s[3] = Ev("error", 0)
      BY <1>2
    <3>2. Ev("error", 0) \in EventRecord
      BY DEF EventRecord, EventKind, Ev
    <3>3. Telling("anthropic", Ev("error", 0))
      BY DEF Telling, Ev
    <3>4. 3 = Len(s) \/ ParseStreamEvent("anthropic", Ev("error", 0)).type # "done"
      BY <2>1 DEF ParseStreamEvent, ParseAnthropic, Canonical, Ev
    <3>5. QED
      BY <3>1, <3>2, <3>3, <3>4, EventIsFit
  <2>5. QED
    BY <2>1, <2>2, <2>3, <2>4 DEF StreamOK
<1>3. CASE s = << Ev("bad", 0), Ev("delta", 0), Ev("message_stop", 0) >>
  <2>1. Len(s) = 3 /\ DOMAIN s = 1 .. 3
    BY <1>3
  <2>2. EventFits("anthropic", s, 1)
    <3>1. s[1] = Ev("bad", 0)
      BY <1>3
    <3>2. Ev("bad", 0) \in EventRecord
      BY DEF EventRecord, EventKind, Ev
    <3>3. Telling("anthropic", Ev("bad", 0))
      BY DEF Telling, Ev
    <3>4. 1 = Len(s) \/ ParseStreamEvent("anthropic", Ev("bad", 0)).type # "done"
      BY <2>1 DEF ParseStreamEvent, ParseAnthropic, Canonical, Ev
    <3>5. QED
      BY <3>1, <3>2, <3>3, <3>4, EventIsFit
  <2>3. EventFits("anthropic", s, 2)
    <3>1. s[2] = Ev("delta", 0)
      BY <1>3
    <3>2. Ev("delta", 0) \in EventRecord
      BY DEF EventRecord, EventKind, Ev
    <3>3. Telling("anthropic", Ev("delta", 0))
      BY DEF Telling, Ev
    <3>4. 2 = Len(s) \/ ParseStreamEvent("anthropic", Ev("delta", 0)).type # "done"
      BY <2>1 DEF ParseStreamEvent, ParseAnthropic, Canonical, Ev
    <3>5. QED
      BY <3>1, <3>2, <3>3, <3>4, EventIsFit
  <2>4. EventFits("anthropic", s, 3)
    <3>1. s[3] = Ev("message_stop", 0)
      BY <1>3
    <3>2. Ev("message_stop", 0) \in EventRecord
      BY DEF EventRecord, EventKind, Ev
    <3>3. Telling("anthropic", Ev("message_stop", 0))
      BY DEF Telling, Ev
    <3>4. 3 = Len(s) \/ ParseStreamEvent("anthropic", Ev("message_stop", 0)).type # "done"
      BY <2>1 DEF ParseStreamEvent, ParseAnthropic, Canonical, Ev
    <3>5. QED
      BY <3>1, <3>2, <3>3, <3>4, EventIsFit
  <2>5. QED
    BY <2>1, <2>2, <2>3, <2>4 DEF StreamOK
<1>4. QED
  BY <1>1, <1>2, <1>3 DEF Streams

\* OpenAI's streams.
LEMMA OpenAIStreams ==
    ASSUME NEW s \in Streams["openai"]
    PROVE  StreamOK("openai", s)
<1>1. CASE s = << Ev("chunk", 0), Ev("finish", 0), Ev("usage", 2), Ev("[DONE]", 0) >>
  <2>1. Len(s) = 4 /\ DOMAIN s = 1 .. 4
    BY <1>1
  <2>2. EventFits("openai", s, 1)
    <3>1. s[1] = Ev("chunk", 0)
      BY <1>1
    <3>2. Ev("chunk", 0) \in EventRecord
      BY DEF EventRecord, EventKind, Ev
    <3>3. Telling("openai", Ev("chunk", 0))
      BY DEF Telling, Ev
    <3>4. 1 = Len(s) \/ ParseStreamEvent("openai", Ev("chunk", 0)).type # "done"
      BY <2>1 DEF ParseStreamEvent, ParseOpenAI, Canonical, Ev
    <3>5. QED
      BY <3>1, <3>2, <3>3, <3>4, EventIsFit
  <2>3. EventFits("openai", s, 2)
    <3>1. s[2] = Ev("finish", 0)
      BY <1>1
    <3>2. Ev("finish", 0) \in EventRecord
      BY DEF EventRecord, EventKind, Ev
    <3>3. Telling("openai", Ev("finish", 0))
      BY DEF Telling, Ev
    <3>4. 2 = Len(s) \/ ParseStreamEvent("openai", Ev("finish", 0)).type # "done"
      BY <2>1 DEF ParseStreamEvent, ParseOpenAI, Canonical, Ev
    <3>5. QED
      BY <3>1, <3>2, <3>3, <3>4, EventIsFit
  <2>4. EventFits("openai", s, 3)
    <3>1. s[3] = Ev("usage", 2)
      BY <1>1
    <3>2. Ev("usage", 2) \in EventRecord
      BY DEF EventRecord, EventKind, Ev
    <3>3. Telling("openai", Ev("usage", 2))
      BY DEF Telling, Ev
    <3>4. 3 = Len(s) \/ ParseStreamEvent("openai", Ev("usage", 2)).type # "done"
      BY <2>1 DEF ParseStreamEvent, ParseOpenAI, Canonical, Ev
    <3>5. QED
      BY <3>1, <3>2, <3>3, <3>4, EventIsFit
  <2>5. EventFits("openai", s, 4)
    <3>1. s[4] = Ev("[DONE]", 0)
      BY <1>1
    <3>2. Ev("[DONE]", 0) \in EventRecord
      BY DEF EventRecord, EventKind, Ev
    <3>3. Telling("openai", Ev("[DONE]", 0))
      BY DEF Telling, Ev
    <3>4. 4 = Len(s) \/ ParseStreamEvent("openai", Ev("[DONE]", 0)).type # "done"
      BY <2>1 DEF ParseStreamEvent, ParseOpenAI, Canonical, Ev
    <3>5. QED
      BY <3>1, <3>2, <3>3, <3>4, EventIsFit
  <2>6. QED
    BY <2>1, <2>2, <2>3, <2>4, <2>5 DEF StreamOK
<1>2. CASE s = << Ev("chunk", 0), Ev("finish", 0), Ev("[DONE]", 0) >>
  <2>1. Len(s) = 3 /\ DOMAIN s = 1 .. 3
    BY <1>2
  <2>2. EventFits("openai", s, 1)
    <3>1. s[1] = Ev("chunk", 0)
      BY <1>2
    <3>2. Ev("chunk", 0) \in EventRecord
      BY DEF EventRecord, EventKind, Ev
    <3>3. Telling("openai", Ev("chunk", 0))
      BY DEF Telling, Ev
    <3>4. 1 = Len(s) \/ ParseStreamEvent("openai", Ev("chunk", 0)).type # "done"
      BY <2>1 DEF ParseStreamEvent, ParseOpenAI, Canonical, Ev
    <3>5. QED
      BY <3>1, <3>2, <3>3, <3>4, EventIsFit
  <2>3. EventFits("openai", s, 2)
    <3>1. s[2] = Ev("finish", 0)
      BY <1>2
    <3>2. Ev("finish", 0) \in EventRecord
      BY DEF EventRecord, EventKind, Ev
    <3>3. Telling("openai", Ev("finish", 0))
      BY DEF Telling, Ev
    <3>4. 2 = Len(s) \/ ParseStreamEvent("openai", Ev("finish", 0)).type # "done"
      BY <2>1 DEF ParseStreamEvent, ParseOpenAI, Canonical, Ev
    <3>5. QED
      BY <3>1, <3>2, <3>3, <3>4, EventIsFit
  <2>4. EventFits("openai", s, 3)
    <3>1. s[3] = Ev("[DONE]", 0)
      BY <1>2
    <3>2. Ev("[DONE]", 0) \in EventRecord
      BY DEF EventRecord, EventKind, Ev
    <3>3. Telling("openai", Ev("[DONE]", 0))
      BY DEF Telling, Ev
    <3>4. 3 = Len(s) \/ ParseStreamEvent("openai", Ev("[DONE]", 0)).type # "done"
      BY <2>1 DEF ParseStreamEvent, ParseOpenAI, Canonical, Ev
    <3>5. QED
      BY <3>1, <3>2, <3>3, <3>4, EventIsFit
  <2>5. QED
    BY <2>1, <2>2, <2>3, <2>4 DEF StreamOK
<1>3. QED
  BY <1>1, <1>2 DEF Streams

\* Ollama's stream.
LEMMA OllamaStreams ==
    ASSUME NEW s \in Streams["ollama"]
    PROVE  StreamOK("ollama", s)
<1>1. CASE s = << Ev("object", 0), Ev("done", 2) >>
  <2>1. Len(s) = 2 /\ DOMAIN s = 1 .. 2
    BY <1>1
  <2>2. EventFits("ollama", s, 1)
    <3>1. s[1] = Ev("object", 0)
      BY <1>1
    <3>2. Ev("object", 0) \in EventRecord
      BY DEF EventRecord, EventKind, Ev
    <3>3. Telling("ollama", Ev("object", 0))
      BY DEF Telling, Ev
    <3>4. 1 = Len(s) \/ ParseStreamEvent("ollama", Ev("object", 0)).type # "done"
      BY <2>1 DEF ParseStreamEvent, ParseOllama, Canonical, Ev
    <3>5. QED
      BY <3>1, <3>2, <3>3, <3>4, EventIsFit
  <2>3. EventFits("ollama", s, 2)
    <3>1. s[2] = Ev("done", 2)
      BY <1>1
    <3>2. Ev("done", 2) \in EventRecord
      BY DEF EventRecord, EventKind, Ev
    <3>3. Telling("ollama", Ev("done", 2))
      BY DEF Telling, Ev
    <3>4. 2 = Len(s) \/ ParseStreamEvent("ollama", Ev("done", 2)).type # "done"
      BY <2>1 DEF ParseStreamEvent, ParseOllama, Canonical, Ev
    <3>5. QED
      BY <3>1, <3>2, <3>3, <3>4, EventIsFit
  <2>4. QED
    BY <2>1, <2>2, <2>3 DEF StreamOK
<1>2. QED
  BY <1>1 DEF Streams

\* Every stream of every provider.
LEMMA StreamsAre ==
    ASSUME NEW type \in ProviderType, NEW s \in Streams[type]
    PROVE  StreamOK(type, s)
  BY AnthropicStreams, OpenAIStreams, OllamaStreams DEF ProviderType

-----------------------------------------------------------------------------
(* The two decoders *)

\* A step of the capture's reading.
Whole(type, acc, e) ==
    IF type = "anthropic" THEN ReassembleAnthropic(acc, e) ELSE ReassembleOpenAI(acc, e)

\* A reading is three numbers.
LEMMA ReadingIs ==
    ASSUME NEW a \in Reading
    PROVE  /\ a = [text |-> a.text, input |-> a.input, output |-> a.output]
           /\ a.text \in Nat /\ a.input \in Nat /\ a.output \in Nat
  BY DEF Reading

\* The relay's reading, field by field.
LEMMA AccumulateIs ==
    ASSUME NEW a \in Reading, NEW ev
    PROVE  Accumulate(a, ev) =
               [text   |-> IF ev.type = "text" THEN a.text + 1 ELSE a.text,
                input  |-> IF ev.type \in {"input", "both"} /\ ev.n > 0 THEN ev.n ELSE a.input,
                output |-> IF ev.type \in {"output", "both"} /\ ev.n > 0 THEN ev.n ELSE a.output]
<1> DEFINE x == IF ev.type = "text" THEN a.text + 1 ELSE a.text
           y == IF ev.type \in {"input", "both"} /\ ev.n > 0 THEN ev.n ELSE a.input
           z == IF ev.type \in {"output", "both"} /\ ev.n > 0 THEN ev.n ELSE a.output
           R(t, i, o) == [text |-> t, input |-> i, output |-> o]
<1>1. Accumulate(a, ev) = [a EXCEPT !.text = x, !.input = y, !.output = z]
  BY DEF Accumulate
<1> HIDE DEF x, y, z
<1>2. [a EXCEPT !.text = x, !.input = y, !.output = z] =
          [[[a EXCEPT !.text = x] EXCEPT !.input = y] EXCEPT !.output = z]
  OBVIOUS
<1>3. [a EXCEPT !.text = x] = R(x, a.input, a.output)
  BY DEF Reading
<1>4. [R(x, a.input, a.output) EXCEPT !.input = y] = R(x, y, a.output)
  OBVIOUS
<1>5. [R(x, y, a.output) EXCEPT !.output = z] = R(x, y, z)
  OBVIOUS
<1>6. Accumulate(a, ev) = R(x, y, z)
  BY <1>1, <1>2, <1>3, <1>4, <1>5
<1>7. QED
  BY <1>6 DEF x, y, z

\* The relay reads numbers.
LEMMA AccumulateReads ==
    ASSUME NEW type \in ProviderType, NEW e \in EventRecord, NEW a \in Reading
    PROVE  Accumulate(a, ParseStreamEvent(type, e)) \in Reading
<1> DEFINE ev == ParseStreamEvent(type, e)
<1>1. e.n \in Nat
  BY DEF EventRecord
<1>2. ev.n \in Nat
  <2>1. ParseAnthropic(e).n \in Nat
    BY <1>1 DEF ParseAnthropic, Canonical
  <2>2. ParseOpenAI(e).n \in Nat
    BY <1>1 DEF ParseOpenAI, Canonical
  <2>3. ParseOllama(e).n \in Nat
    BY DEF ParseOllama, Canonical
  <2>4. ev = ParseAnthropic(e) \/ ev = ParseOpenAI(e) \/ ev = ParseOllama(e)
    BY DEF ParseStreamEvent, ProviderType
  <2> HIDE DEF ev
  <2>5. QED
    BY <2>1, <2>2, <2>3, <2>4
<1> HIDE DEF ev
<1>3. a.text \in Nat /\ a.input \in Nat /\ a.output \in Nat
  BY ReadingIs
<1> DEFINE x == IF ev.type = "text" THEN a.text + 1 ELSE a.text
           y == IF ev.type \in {"input", "both"} /\ ev.n > 0 THEN ev.n ELSE a.input
           z == IF ev.type \in {"output", "both"} /\ ev.n > 0 THEN ev.n ELSE a.output
<1>4. x \in Nat /\ y \in Nat /\ z \in Nat
  BY <1>2, <1>3
<1>5. Accumulate(a, ev) = [text |-> x, input |-> y, output |-> z]
  BY AccumulateIs
<1> HIDE DEF x, y, z
<1>6. Accumulate(a, ev) \in Reading
  BY <1>4, <1>5 DEF Reading
<1>7. QED
  BY <1>6 DEF ev

\* Both decoders make the same of an event (streaming.go, capture.go).
LEMMA DecodersAgree ==
    ASSUME NEW type \in Captured, NEW e \in EventRecord, Telling(type, e), NEW a \in Reading
    PROVE  /\ Accumulate(a, ParseStreamEvent(type, e)) = Whole(type, a, e)
           /\ Whole(type, a, e) \in Reading
<1> DEFINE ev == ParseStreamEvent(type, e)
           R(t, i, o) == [text |-> t, input |-> i, output |-> o]
<1>1. a = R(a.text, a.input, a.output) /\ e.n \in Nat
      /\ a.text \in Nat /\ a.input \in Nat /\ a.output \in Nat
  BY ReadingIs DEF EventRecord
<1>2. Accumulate(a, ev) = R(IF ev.type = "text" THEN a.text + 1 ELSE a.text,
                            IF ev.type \in {"input", "both"} /\ ev.n > 0 THEN ev.n ELSE a.input,
                            IF ev.type \in {"output", "both"} /\ ev.n > 0 THEN ev.n ELSE a.output)
  BY AccumulateIs
<1>3. CASE type = "anthropic"
  <2>1. /\ e.kind = "delta" => ev.type = "text"
        /\ e.kind = "message_start" => ev.type = "input" /\ ev.n = e.n
        /\ e.kind = "message_delta" => ev.type = "output" /\ ev.n = e.n
        /\ e.kind \notin {"delta", "message_start", "message_delta"} => ev.type \in {"done", "skip"}
    BY <1>3 DEF ParseStreamEvent, ParseAnthropic, Canonical
  <2>2. Whole(type, a, e) =
            R(IF e.kind = "delta" THEN a.text + 1 ELSE a.text,
              IF e.kind = "message_start" THEN e.n ELSE a.input,
              IF e.kind = "message_delta" THEN e.n ELSE a.output)
    BY <1>1, <1>3 DEF Whole, ReassembleAnthropic, Reading
  <2>3. e.kind \in {"message_start", "message_delta"} => e.n > 0
    BY <1>3 DEF Telling
  <2> HIDE DEF ev
  <2>4. Accumulate(a, ev) = Whole(type, a, e)
    BY <1>2, <2>1, <2>2, <2>3
  <2>5. Whole(type, a, e) \in Reading
    BY <1>1, <2>2 DEF Reading
  <2>6. QED
    BY <2>4, <2>5 DEF ev
<1>4. CASE type = "openai"
  <2>1. /\ e.kind = "chunk" => ev.type = "text"
        /\ e.kind = "usage" => ev.type = "both" /\ ev.n = e.n
        /\ e.kind \notin {"chunk", "usage"} => ev.type \in {"done", "skip"}
    BY <1>4 DEF ParseStreamEvent, ParseOpenAI, Canonical
  <2>2. Whole(type, a, e) =
            R(IF e.kind = "chunk" THEN a.text + 1 ELSE a.text,
              IF e.kind = "usage" THEN e.n ELSE a.input,
              IF e.kind = "usage" THEN e.n ELSE a.output)
    BY <1>1, <1>4 DEF Whole, ReassembleOpenAI, Reading
  <2>3. e.kind = "usage" => e.n > 0
    BY <1>4 DEF Telling
  <2> HIDE DEF ev
  <2>4. Accumulate(a, ev) = Whole(type, a, e)
    BY <1>2, <2>1, <2>2, <2>3
  <2>5. Whole(type, a, e) \in Reading
    BY <1>1, <2>2 DEF Reading
  <2>6. QED
    BY <2>4, <2>5 DEF ev
<1>5. QED
  BY <1>3, <1>4 DEF Captured

\* f gives what the capture makes of the events whose places are in a set.
Folds(type, s, D, f) ==
    f = [u \in SUBSET D |->
            IF u = {} THEN Nothing ELSE LET x == Max(u) IN Whole(type, f[u \ {x}], s[x])]

Folding(type, s) == CHOOSE f : Folds(type, s, DOMAIN s, f)

\* The reading of the first k events.
Part(type, s, k) == Folding(type, s)[1 .. k]

\* Max is the greatest member, when that is known.
LEMMA MaxIs == ASSUME NEW k \in Nat, NEW s \in SUBSET (1 .. k), k \in s PROVE Max(s) = k
<1>1. \A y \in s : k >= y
  OBVIOUS
<1>2. \A x \in s : (\A y \in s : x >= y) => x = k
  OBVIOUS
<1>3. QED
  BY <1>1, <1>2 DEF Max

\* The recursive function of FoldLeft exists.
LEMMA FoldsExists == ASSUME NEW type, NEW s, NEW n \in Nat
                     PROVE  \E f : Folds(type, s, 1 .. n, f)
<1> DEFINE Bad == {k \in Nat : ~\E f : Folds(type, s, 1 .. k, f)}
<1> SUFFICES ASSUME Bad # {} PROVE FALSE
  OBVIOUS
<1>1. PICK k \in Bad : \A j \in Bad : k <= j
  BY Least
<1>2. CASE k = 0
  <2>1. SUBSET (1 .. k) = {{}}
    BY <1>2
  <2>2. Folds(type, s, 1 .. k, [u \in SUBSET (1 .. k) |-> Nothing])
    BY <2>1 DEF Folds
  <2>3. QED
    BY <2>2
<1>3. CASE k # 0
  <2>1. k - 1 \in Nat /\ k - 1 \notin Bad
    BY <1>1, <1>3
  <2>2. PICK g : Folds(type, s, 1 .. k - 1, g)
    BY <2>1
  <2> DEFINE h == [u \in SUBSET (1 .. k) |->
                      IF k \in u THEN Whole(type, g[u \ {k}], s[k]) ELSE g[u]]
             Value(u) == IF u = {} THEN Nothing
                         ELSE LET x == Max(u) IN Whole(type, h[u \ {x}], s[x])
  <2>3. \A u \in SUBSET (1 .. k) : h[u] = Value(u)
    <3> SUFFICES ASSUME NEW u \in SUBSET (1 .. k) PROVE h[u] = Value(u)
      OBVIOUS
    <3>1. CASE k \in u
      <4>1. Max(u) = k /\ u # {}
        BY <1>1, <3>1, MaxIs
      <4>2. u \ {k} \in SUBSET (1 .. k) /\ k \notin u \ {k}
        OBVIOUS
      <4>3. h[u \ {k}] = g[u \ {k}] /\ h[u] = Whole(type, g[u \ {k}], s[k])
        BY <3>1, <4>2
      <4> HIDE DEF h
      <4>4. QED
        BY <4>1, <4>3
    <3>2. CASE k \notin u
      <4>1. u \in SUBSET (1 .. k - 1) /\ h[u] = g[u]
        BY <1>1, <3>2
      <4>2. g[u] = IF u = {} THEN Nothing
                   ELSE LET x == Max(u) IN Whole(type, g[u \ {x}], s[x])
        BY <2>2, <4>1 DEF Folds
      <4>3. \A x : h[u \ {x}] = g[u \ {x}]
        BY <3>2
      <4> HIDE DEF h
      <4>4. QED
        BY <4>1, <4>2, <4>3
    <3>3. QED
      BY <3>1, <3>2
  <2>4. h = [u \in SUBSET (1 .. k) |-> h[u]]
    OBVIOUS
  <2> HIDE DEF h
  <2>5. Folds(type, s, 1 .. k, h)
    BY <2>3, <2>4 DEF Folds
  <2>6. QED
    BY <2>5
<1>4. QED
  BY <1>2, <1>3

\* ReassembleStream computes it, unless an event does not decode.
LEMMA ReassembledIs ==
    ASSUME NEW type, NEW s, StreamOK(type, s)
    PROVE  /\ Folds(type, s, 1 .. Len(s), Folding(type, s))
           /\ ReassembleStream(type, s) = IF BadStream(s) THEN Nothing ELSE Part(type, s, Len(s))
<1>1. DOMAIN s = 1 .. Len(s) /\ Len(s) \in Nat
  BY DEF StreamOK
<1>2. \E f : Folds(type, s, 1 .. Len(s), f)
  BY <1>1, FoldsExists
<1>3. Folds(type, s, 1 .. Len(s), Folding(type, s))
  BY <1>1, <1>2 DEF Folding
<1>4. ReassembleStream(type, s) = IF BadStream(s) THEN Nothing ELSE Folding(type, s)[DOMAIN s]
  BY DEF ReassembleStream, FoldLeft, MapThenFoldSet, Folding, Folds, BadStream, Whole
<1>5. QED
  BY <1>1, <1>3, <1>4 DEF Part

\* One event more.
LEMMA PartStep ==
    ASSUME NEW type, NEW s, StreamOK(type, s), NEW k \in 1 .. Len(s)
    PROVE  Part(type, s, k) = Whole(type, Part(type, s, k - 1), s[k])
<1> DEFINE f == Folding(type, s)
<1>1. Folds(type, s, 1 .. Len(s), f) /\ Len(s) \in Nat
  BY ReassembledIs DEF StreamOK
<1>2. 1 .. k \in SUBSET (1 .. Len(s)) /\ 1 .. k # {} /\ (1 .. k) \ {k} = 1 .. k - 1 /\ k \in 1 .. k
  <2>1. k \in Nat /\ k >= 1 /\ k <= Len(s)
    BY <1>1
  <2>2. k \in 1 .. k /\ 1 .. k \in SUBSET (1 .. Len(s))
    BY <1>1, <2>1
  <2>3. (1 .. k) \ {k} = 1 .. k - 1
    BY <2>1
  <2>4. QED
    BY <2>2, <2>3
<1>3. Max(1 .. k) = k
  BY <1>1, <1>2, MaxIs
<1> HIDE DEF f
<1>4. f[1 .. k] = Whole(type, f[(1 .. k) \ {Max(1 .. k)}], s[Max(1 .. k)])
  BY <1>1, <1>2 DEF Folds
<1>5. QED
  BY <1>2, <1>3, <1>4 DEF Part, f

\* No event.
LEMMA PartNone ==
    ASSUME NEW type, NEW s, StreamOK(type, s)
    PROVE  Part(type, s, 0) = Nothing
<1> DEFINE f == Folding(type, s)
<1>1. Folds(type, s, 1 .. Len(s), f)
  BY ReassembledIs
<1> HIDE DEF f
<1>2. f[{}] = Nothing
  BY <1>1 DEF Folds
<1>3. 1 .. 0 = {}
  OBVIOUS
<1>4. QED
  BY <1>2, <1>3 DEF Part, f

\* What is read of a stream are numbers.
LEMMA PartIsReading ==
    ASSUME NEW type \in Captured, NEW s, StreamOK(type, s), NEW k \in 0 .. Len(s)
    PROVE  Part(type, s, k) \in Reading
<1> DEFINE Bad == {j \in Nat : j <= Len(s) /\ Part(type, s, j) \notin Reading}
<1>1. Len(s) \in Nat /\ \A i \in 1 .. Len(s) : EventFits(type, s, i)
  BY DEF StreamOK
<1> SUFFICES ASSUME Bad # {} PROVE FALSE
  BY <1>1
<1>2. PICK j \in Bad : \A i \in Bad : j <= i
  BY Least
<1>3. CASE j = 0
  BY <1>2, <1>3, PartNone DEF Nothing, Reading
<1>4. CASE j # 0
  <2>1. j \in 1 .. Len(s) /\ j - 1 \in Nat /\ j - 1 \notin Bad
    BY <1>1, <1>2, <1>4
  <2>2. Part(type, s, j - 1) \in Reading
    BY <1>1, <2>1
  <2>3. s[j] \in EventRecord /\ Telling(type, s[j])
    BY <1>1, <2>1 DEF EventFits
  <2>4. Whole(type, Part(type, s, j - 1), s[j]) \in Reading
    BY <2>2, <2>3, DecodersAgree
  <2>5. QED
    BY <1>2, <2>1, <2>4, PartStep
<1>5. QED
  BY <1>3, <1>4

\* The relay has read the first k events, or the capture will not be read at all.
Partial(type, s, k, told) == BadStream(s) \/ told = Part(type, s, k)

\* What the relay and the capture tell of a stream.
Reads(type, s, told) == ReassembleStream(type, s) \in {Nothing, told}

\* The relay reads one event more.
LEMMA ReadsOn ==
    ASSUME NEW type \in Captured, NEW s, StreamOK(type, s), NEW k \in 1 .. Len(s), NEW told,
           Partial(type, s, k - 1, told)
    PROVE  Partial(type, s, k, Accumulate(told, ParseStreamEvent(type, s[k])))
<1>1. CASE BadStream(s)
  BY <1>1 DEF Partial
<1>2. CASE ~BadStream(s)
  <2>1. told = Part(type, s, k - 1) /\ Len(s) \in Nat /\ k - 1 \in 0 .. Len(s)
    BY <1>2 DEF Partial, StreamOK
  <2>2. told \in Reading
    BY <2>1, PartIsReading
  <2>3. s[k] \in EventRecord /\ Telling(type, s[k])
    BY DEF StreamOK, EventFits
  <2>4. Accumulate(told, ParseStreamEvent(type, s[k])) = Whole(type, told, s[k])
    BY <2>2, <2>3, DecodersAgree
  <2>5. QED
    BY <2>1, <2>4, PartStep DEF Partial
<1>3. QED
  BY <1>1, <1>2

\* When the relay has read it all, the capture tells the same or nothing.
LEMMA ReadsAll ==
    ASSUME NEW type, NEW s, StreamOK(type, s), NEW told, Partial(type, s, Len(s), told)
    PROVE  Reads(type, s, told)
  BY ReassembledIs DEF Partial, Reads

\* What the capture makes of a stream are numbers.
LEMMA ReassembledIsReading ==
    ASSUME NEW type \in Captured, NEW s, StreamOK(type, s)
    PROVE  ReassembleStream(type, s) \in Reading
<1>1. Len(s) \in 0 .. Len(s) /\ Nothing \in Reading
  BY DEF StreamOK, Nothing, Reading
<1>2. QED
  BY <1>1, ReassembledIs, PartIsReading

-----------------------------------------------------------------------------
(* A turn and its exchange *)

TurnRecord ==
    [at : {"idle", "sent", "streaming", "done"}, ep : Endpoint \cup {None},
     shape : {None} \cup UNION {Shapes[type] : type \in ProviderType},
     ctx : {"live", "cancelling", "cancelled", "lost"}, pos : Nat, told : Reading,
     result : Outcome \cup {None}]

CaptureRecord ==
    [run : Run, hour : Hour, ok : BOOLEAN, text : Nat, input : Nat, output : Nat]

ExchRecord ==
    [ex : {"none", "direct", "copying", "saving", "saved", "lost"}, target : Endpoint \cup {None},
     stream : {<<>>} \cup UNION {Streams[type] : type \in ProviderType}, fwd : Nat,
     tail : {"open", "eof", "reset"}, record : CaptureRecord \cup {None}]

Triple(rec) == [text |-> rec.text, input |-> rec.input, output |-> rec.output]

\* What a record of an exchange that was a stream says: what the capture makes of the
\* stream, or nothing; and when the turn has completed, what the relay told.
Tells(t, x, rec) ==
    rec.ok => /\ t.at = "streaming" =>
                    Triple(rec) \in {Nothing, ReassembleStream(TypeOf[x.target], x.stream)}
              /\ t.result = "completed" => Triple(rec) \in {Nothing, t.told}

Idle(t, x) ==
    /\ t.ep = None /\ t.pos = 0 /\ t.told = Nothing
    /\ x.ex = "none" /\ x.stream = <<>> /\ x.fwd = 0 /\ x.tail = "open"

Sent(t, x) ==
    /\ t.ep \in Endpoint /\ t.pos = 0 /\ t.told = Nothing
    /\ x.stream = <<>> /\ x.fwd = 0 /\ x.tail = "open" /\ x.ex \in {"direct", "copying"}
    /\ x.target \in Endpoint
    /\ x.ex = "copying" => TypeOf[t.ep] \in Captured
    /\ KeyOf[t.ep] = TypeOf[t.ep] => x.target = t.ep

\* The relay is not ahead of the proxy, and has made of the events it has read what the
\* capture makes of them.
Streaming(t, x) ==
    /\ t.ep \in Endpoint /\ x.target = t.ep /\ x.stream \in Streams[TypeOf[t.ep]]
    /\ x.fwd <= Len(x.stream) /\ t.pos <= x.fwd /\ x.ex # "none"
    /\ x.ex # "direct" => /\ TypeOf[t.ep] \in Captured
                          /\ Partial(TypeOf[t.ep], x.stream, t.pos, t.told)
    /\ x.tail = "eof" \/ x.ex \in {"saving", "saved"} => x.fwd = Len(x.stream)

\* The proxy may be at work after the turn has ended.
Done(t, x) ==
    /\ t.ep = None /\ x.ex # "direct"
    /\ x.ex = "copying" => /\ x.target \in Endpoint /\ TypeOf[x.target] \in Captured
                           /\ x.stream \in Streams[TypeOf[x.target]]
                           /\ t.result = "completed" => Reads(TypeOf[x.target], x.stream, t.told)

Stage(t, x) ==
    /\ t.at = "idle" => Idle(t, x)
    /\ t.at = "sent" => Sent(t, x)
    /\ t.at = "streaming" => Streaming(t, x)
    /\ t.at = "done" => Done(t, x)
    /\ t.at # "done" => t.result = None

\* The record that waits to be saved, and the row that was saved.
Saving(r, t, x) ==
    x.ex = "saving" => x.record \in CaptureRecord /\ x.record.run = r /\ Tells(t, x, x.record)
Saved(r, t, x, R) == \A row \in R : row.run = r => x.ex = "saved" /\ Tells(t, x, row)

RunOK(r, t, x, R) ==
    /\ t \in TurnRecord /\ x \in ExchRecord
    /\ Stage(t, x) /\ Saving(r, t, x) /\ Saved(r, t, x, R)

RunsInv ==
    /\ turn \in [Run -> TurnRecord] /\ exch \in [Run -> ExchRecord]
    /\ \A r \in Run : RunOK(r, turn[r], exch[r], rows)

\* A step of one run, of its turn and its exchange.
LEMMA OneRun ==
    ASSUME RunsInv, NEW r \in Run, NEW t, NEW x,
           turn' = [turn EXCEPT ![r] = t], exch' = [exch EXCEPT ![r] = x], rows' = rows,
           RunOK(r, t, x, rows)
    PROVE  RunsInv'
<1>1. t \in TurnRecord /\ x \in ExchRecord
  BY DEF RunOK
<1>2. turn \in [Run -> TurnRecord] /\ exch \in [Run -> ExchRecord]
      /\ \A q \in Run : RunOK(q, turn[q], exch[q], rows)
  BY DEF RunsInv
<1>3. turn' \in [Run -> TurnRecord] /\ exch' \in [Run -> ExchRecord]
  BY <1>1, <1>2
<1>4. \A q \in Run : turn'[q] = (IF q = r THEN t ELSE turn[q])
                     /\ exch'[q] = (IF q = r THEN x ELSE exch[q])
  BY <1>2
<1>5. \A q \in Run : RunOK(q, turn'[q], exch'[q], rows)
  BY <1>2, <1>4
<1>6. QED
  BY <1>3, <1>5 DEF RunsInv

\* A step of its turn alone, or of its exchange alone.
LEMMA Alone ==
    ASSUME RunsInv, NEW r \in Run
    PROVE  /\ turn = [turn EXCEPT ![r] = turn[r]] /\ exch = [exch EXCEPT ![r] = exch[r]]
           /\ RunOK(r, turn[r], exch[r], rows)
  BY DEF RunsInv

\* A step that leaves the runs alone.
LEMMA RunsStay ==
    ASSUME RunsInv, UNCHANGED <<turn, exch, rows>>
    PROVE  RunsInv'
  BY DEF RunsInv

\* What is left of a turn and of an exchange.
LEMMA EndedIs ==
    ASSUME NEW t, NEW result
    PROVE  Ended(t, result) = [at |-> "done", ep |-> None, shape |-> None, ctx |-> "live",
                               pos |-> 0, told |-> t.told, result |-> result]
<1> DEFINE T(at, told, res) == [at |-> at, ep |-> None, shape |-> None, ctx |-> "live",
                                pos |-> 0, told |-> told, result |-> res]
<1>1. Ended(t, result) =
          [[[IdleTurn EXCEPT !.at = "done"] EXCEPT !.told = t.told] EXCEPT !.result = result]
  BY DEF Ended
<1>2. IdleTurn = T("idle", Nothing, None)
  BY DEF IdleTurn
<1>3. [T("idle", Nothing, None) EXCEPT !.at = "done"] = T("done", Nothing, None)
  OBVIOUS
<1>4. [T("done", Nothing, None) EXCEPT !.told = t.told] = T("done", t.told, None)
  OBVIOUS
<1>5. [T("done", t.told, None) EXCEPT !.result = result] = T("done", t.told, result)
  OBVIOUS
<1>6. QED
  BY <1>1, <1>2, <1>3, <1>4, <1>5

\* See EndedIs.
LEMMA LeftIs ==
    ASSUME NEW x
    PROVE  Left(x) = [ex |-> IF x.ex = "direct" THEN "none" ELSE x.ex, target |-> None,
                      stream |-> <<>>, fwd |-> 0, tail |-> "open", record |-> x.record]
<1> DEFINE X(ex, rec) == [ex |-> ex, target |-> None, stream |-> <<>>, fwd |-> 0,
                          tail |-> "open", record |-> rec]
           e == IF x.ex = "direct" THEN "none" ELSE x.ex
<1>1. Left(x) = [[NoExchange EXCEPT !.ex = e] EXCEPT !.record = x.record]
  BY DEF Left
<1>2. NoExchange = X("none", None)
  BY DEF NoExchange
<1> HIDE DEF e
<1>3. [X("none", None) EXCEPT !.ex = e] = X(e, None)
  OBVIOUS
<1>4. [X(e, None) EXCEPT !.record = x.record] = X(e, x.record)
  OBVIOUS
<1>5. QED
  BY <1>1, <1>2, <1>3, <1>4 DEF e

\* An exchange as its handler leaves it.
LEMMA OverIs ==
    ASSUME RunsInv, NEW r \in Run, NEW ex, NEW record
    PROVE  \E x :
              /\ Over(r, ex, record) = [exch EXCEPT ![r] = x]
              /\ turn[r].at = "streaming" =>
                    x = [ex |-> ex, target |-> exch[r].target, stream |-> exch[r].stream,
                         fwd |-> exch[r].fwd, tail |-> exch[r].tail, record |-> record]
              /\ turn[r].at # "streaming" =>
                    x = [ex |-> IF ex = "direct" THEN "none" ELSE ex, target |-> None,
                         stream |-> <<>>, fwd |-> 0, tail |-> "open", record |-> record]
<1> DEFINE e == exch[r]
           X(a, b) == [ex |-> a, target |-> e.target, stream |-> e.stream, fwd |-> e.fwd,
                       tail |-> e.tail, record |-> b]
           y == [e EXCEPT !.ex = ex, !.record = record]
           x == IF turn[r].at = "streaming" THEN y ELSE Left(y)
<1>1. Over(r, ex, record) = [exch EXCEPT ![r] = x]
  BY DEF Over
<1>2. y = [[e EXCEPT !.ex = ex] EXCEPT !.record = record]
  OBVIOUS
<1>3. e \in ExchRecord
  BY DEF RunsInv
<1> HIDE DEF e
<1>4. [e EXCEPT !.ex = ex] = X(ex, e.record)
  BY <1>3 DEF ExchRecord
<1>5. [X(ex, e.record) EXCEPT !.record = record] = X(ex, record)
  OBVIOUS
<1>6. y = X(ex, record)
  BY <1>2, <1>4, <1>5
<1> HIDE DEF y
<1>7. y.ex = ex /\ y.record = record
  BY <1>6
<1>8. Left(y) = [ex |-> IF ex = "direct" THEN "none" ELSE ex, target |-> None,
                 stream |-> <<>>, fwd |-> 0, tail |-> "open", record |-> record]
  BY <1>7, LeftIs
<1>9. QED
  BY <1>1, <1>6, <1>8 DEF e

-----------------------------------------------------------------------------
(* The steps of a run *)

\* A turn that fails before it is sent.
LEMMA TurnFailsKeeps ==
    ASSUME RunsInv, NEW r \in Run, NEW mode, TurnFails(r, mode)
    PROVE  RunsInv'
<1> DEFINE t == turn[r]
           x == exch[r]
           u == Ended(t, "failed")
<1>1. RunOK(r, t, x, rows) /\ exch = [exch EXCEPT ![r] = x]
  BY Alone
<1>2. turn' = [turn EXCEPT ![r] = u] /\ exch' = exch /\ rows' = rows /\ t.at = "idle"
  BY DEF TurnFails, Failed, storeVars
<1> HIDE DEF t, x
<1>3. u = [at |-> "done", ep |-> None, shape |-> None, ctx |-> "live",
           pos |-> 0, told |-> t.told, result |-> "failed"]
  BY EndedIs
<1> HIDE DEF u
<1>4. u \in TurnRecord
  BY <1>1, <1>3 DEF RunOK, TurnRecord, Outcome
<1>5. Idle(t, x)
  BY <1>1, <1>2 DEF RunOK, Stage
<1>6. Stage(u, x)
  BY <1>3, <1>5 DEF Stage, Done, Idle
<1>7. Saving(r, u, x) /\ Saved(r, u, x, rows)
  BY <1>1, <1>5 DEF RunOK, Idle, Saving, Saved
<1>8. RunOK(r, u, x, rows)
  BY <1>1, <1>4, <1>6, <1>7 DEF RunOK
<1>9. exch' = [exch EXCEPT ![r] = x]
  BY <1>1, <1>2
<1>10. QED
  BY <1>2, <1>8, <1>9, OneRun

\* The proxy finds the adapter of an endpoint whose streams it can read.
LEMMA DetectIs ==
    ASSUME NEW e, TypeOf[e] \in Captured
    PROVE  Detect(e) = TypeOf[e]
  BY DEF Detect, DetectAnthropic, DetectOpenAI, HasVersion, Path, Captured

\* The proxy sends a request on to the endpoint the turn was dispatched to, if the
\* configuration has it under its adapter's name (proxy/server.go).
LEMMA DirectorFinds ==
    ASSUME NEW e \in Endpoint, Proxied(e)
    PROVE  /\ Director(e) \in Endpoint /\ TypeOf[e] \in Captured
           /\ KeyOf[e] = TypeOf[e] => Director(e) = e
<1>1. TypeOf[e] \in Captured
  BY GatewayAssumption DEF Proxied, ProviderType, Captured
<1>2. Detect(e) = TypeOf[e]
  BY <1>1, DetectIs
<1>3. Director(e) \in Endpoint
  <2> DEFINE named == {f \in Endpoint : KeyOf[f] = Detect(e)}
  <2>1. Director(e) = IF named = {} THEN DefaultUpstream ELSE CHOOSE f \in named : TRUE
    BY DEF Director
  <2>2. named # {} => (CHOOSE f \in named : TRUE) \in named
    OBVIOUS
  <2>3. QED
    BY <2>1, <2>2, GatewayAssumption
<1>4. ASSUME KeyOf[e] = TypeOf[e] PROVE Director(e) = e
  <2> DEFINE named == {f \in Endpoint : KeyOf[f] = Detect(e)}
  <2>1. named = {e}
    BY <1>1, <1>2, <1>4, GatewayAssumption DEF Captured
  <2>2. Director(e) = IF named = {} THEN DefaultUpstream ELSE CHOOSE f \in named : TRUE
    BY DEF Director
  <2>3. QED
    BY <2>1, <2>2
<1>5. QED
  BY <1>1, <1>3, <1>4

\* A turn is dispatched.
LEMMA DispatchKeeps ==
    ASSUME RunsInv, NEW r \in Run, NEW mode, Dispatch(r, mode)
    PROVE  RunsInv'
<1> DEFINE t == turn[r]
           x == exch[r]
           e == catalog[ResolveForTurn(mode)[1]]
<1>1. RunOK(r, t, x, rows) /\ exch = [exch EXCEPT ![r] = x]
  BY Alone
<1>2. PICK s \in Shapes[TypeOf[e]] :
          turn' = [turn EXCEPT ![r] = [t EXCEPT !.at = "sent", !.ep = e, !.shape = s]]
  BY DEF Dispatch
<1>3. /\ exch' = [exch EXCEPT ![r] = [x EXCEPT !.ex = IF Proxied(e) THEN "copying" ELSE "direct",
                                               !.target = IF Proxied(e) THEN Director(e) ELSE e]]
      /\ rows' = rows /\ t.at = "idle" /\ e \in Endpoint
  BY DEF Dispatch, storeVars
<1> DEFINE ex == IF Proxied(e) THEN "copying" ELSE "direct"
           target == IF Proxied(e) THEN Director(e) ELSE e
           u == [t EXCEPT !.at = "sent", !.ep = e, !.shape = s]
           y == [x EXCEPT !.ex = ex, !.target = target]
<1> HIDE DEF t, x, e
<1>4. /\ ex \in {"copying", "direct"} /\ target \in Endpoint
      /\ ex = "copying" => TypeOf[e] \in Captured
      /\ KeyOf[e] = TypeOf[e] => target = e
  BY <1>3, DirectorFinds
<1> HIDE DEF ex, target
<1>5. t \in TurnRecord /\ x \in ExchRecord /\ Idle(t, x) /\ t.result = None
  BY <1>1, <1>3 DEF RunOK, Stage
<1>6. u = [at |-> "sent", ep |-> e, shape |-> s, ctx |-> t.ctx, pos |-> t.pos,
           told |-> t.told, result |-> t.result]
  <2> DEFINE T(a, b, c) == [at |-> a, ep |-> b, shape |-> c, ctx |-> t.ctx, pos |-> t.pos,
                            told |-> t.told, result |-> t.result]
  <2>1. u = [[[t EXCEPT !.at = "sent"] EXCEPT !.ep = e] EXCEPT !.shape = s]
    OBVIOUS
  <2>2. [t EXCEPT !.at = "sent"] = T("sent", t.ep, t.shape)
    BY <1>5 DEF TurnRecord
  <2>3. [T("sent", t.ep, t.shape) EXCEPT !.ep = e] = T("sent", e, t.shape)
    OBVIOUS
  <2>4. [T("sent", e, t.shape) EXCEPT !.shape = s] = T("sent", e, s)
    OBVIOUS
  <2>5. QED
    BY <2>1, <2>2, <2>3, <2>4
<1>7. y = [ex |-> ex, target |-> target, stream |-> x.stream, fwd |-> x.fwd, tail |-> x.tail,
           record |-> x.record]
  <2> DEFINE X(a, b) == [ex |-> a, target |-> b, stream |-> x.stream, fwd |-> x.fwd,
                         tail |-> x.tail, record |-> x.record]
  <2>1. y = [[x EXCEPT !.ex = ex] EXCEPT !.target = target]
    OBVIOUS
  <2>2. [x EXCEPT !.ex = ex] = X(ex, x.target)
    BY <1>5 DEF ExchRecord
  <2>3. [X(ex, x.target) EXCEPT !.target = target] = X(ex, target)
    OBVIOUS
  <2>4. QED
    BY <2>1, <2>2, <2>3
<1>8. turn' = [turn EXCEPT ![r] = u] /\ exch' = [exch EXCEPT ![r] = y]
  BY <1>2, <1>3 DEF ex, target
<1> HIDE DEF u, y
<1>9. u \in TurnRecord
  <2>1. TypeOf[e] \in ProviderType
    BY <1>3, GatewayAssumption
  <2>2. s \in UNION {Shapes[type] : type \in ProviderType}
    BY <1>2, <2>1
  <2> DEFINE U == UNION {Shapes[type] : type \in ProviderType}
  <2> HIDE DEF U
  <2>3. s \in U
    BY <2>2 DEF U
  <2>4. t \in [at : {"idle", "sent", "streaming", "done"}, ep : Endpoint \cup {None},
               shape : {None} \cup U, ctx : {"live", "cancelling", "cancelled", "lost"},
               pos : Nat, told : Reading, result : Outcome \cup {None}]
    BY <1>5 DEF TurnRecord, U
  <2>5. u \in [at : {"idle", "sent", "streaming", "done"}, ep : Endpoint \cup {None},
               shape : {None} \cup U, ctx : {"live", "cancelling", "cancelled", "lost"},
               pos : Nat, told : Reading, result : Outcome \cup {None}]
    BY <1>3, <1>6, <2>3, <2>4
  <2>6. QED
    BY <2>5 DEF TurnRecord, U
<1>10. y \in ExchRecord
  <2> DEFINE U == UNION {Streams[type] : type \in ProviderType}
  <2> HIDE DEF U
  <2>1. x \in [ex : {"none", "direct", "copying", "saving", "saved", "lost"},
               target : Endpoint \cup {None}, stream : {<<>>} \cup U, fwd : Nat,
               tail : {"open", "eof", "reset"}, record : CaptureRecord \cup {None}]
    BY <1>5 DEF ExchRecord, U
  <2>2. QED
    BY <1>4, <1>7, <2>1 DEF ExchRecord, U
<1>11. Stage(u, y)
  <2>1. Sent(u, y)
    BY <1>3, <1>4, <1>5, <1>6, <1>7 DEF Sent, Idle
  <2>2. QED
    BY <1>5, <1>6, <2>1 DEF Stage
<1>12. Saving(r, u, y) /\ Saved(r, u, y, rows)
  BY <1>1, <1>4, <1>5, <1>7 DEF RunOK, Idle, Saving, Saved
<1>13. RunOK(r, u, y, rows)
  BY <1>9, <1>10, <1>11, <1>12 DEF RunOK
<1>14. QED
  BY <1>3, <1>8, <1>13, OneRun

\* The provider answers.
LEMMA AnswersKeeps ==
    ASSUME RunsInv, NEW r \in Run, Answers(r)
    PROVE  RunsInv'
<1> DEFINE t == turn[r]
           x == exch[r]
<1>1. RunOK(r, t, x, rows)
  BY Alone
<1>2. PICK s \in Streams[TypeOf[t.ep]] : exch' = [exch EXCEPT ![r] = [x EXCEPT !.stream = s]]
  BY DEF Answers
<1>3. /\ turn' = [turn EXCEPT ![r] = [t EXCEPT !.at = "streaming", !.shape = None]]
      /\ rows' = rows /\ t.at = "sent" /\ x.target = t.ep
  BY DEF Answers, storeVars
<1> DEFINE u == [t EXCEPT !.at = "streaming", !.shape = None]
           y == [x EXCEPT !.stream = s]
<1> HIDE DEF t, x
<1>4. t \in TurnRecord /\ x \in ExchRecord /\ Sent(t, x) /\ t.result = None
  BY <1>1, <1>3 DEF RunOK, Stage
<1>5. u = [at |-> "streaming", ep |-> t.ep, shape |-> None, ctx |-> t.ctx, pos |-> t.pos,
           told |-> t.told, result |-> t.result]
  <2>1. u = [[t EXCEPT !.at = "streaming"] EXCEPT !.shape = None]
    OBVIOUS
  <2> DEFINE T(b) == [at |-> "streaming", ep |-> t.ep, shape |-> b, ctx |-> t.ctx,
                      pos |-> t.pos, told |-> t.told, result |-> t.result]
  <2>2. [t EXCEPT !.at = "streaming"] = T(t.shape)
    BY <1>4 DEF TurnRecord
  <2>3. [T(t.shape) EXCEPT !.shape = None] = T(None)
    OBVIOUS
  <2>4. QED
    BY <2>1, <2>2, <2>3
<1>6. y = [ex |-> x.ex, target |-> x.target, stream |-> s, fwd |-> x.fwd, tail |-> x.tail,
           record |-> x.record]
  BY <1>4 DEF ExchRecord
<1> HIDE DEF u, y
<1>7. u \in TurnRecord
  BY <1>4, <1>5 DEF TurnRecord
<1>8. TypeOf[t.ep] \in ProviderType
  BY <1>4, GatewayAssumption DEF Sent
<1>9. y \in ExchRecord
  <2>1. s \in UNION {Streams[type] : type \in ProviderType}
    BY <1>2, <1>8
  <2> DEFINE U == UNION {Streams[type] : type \in ProviderType}
  <2> HIDE DEF U
  <2>2. s \in U
    BY <2>1 DEF U
  <2>3. QED
    BY <1>4, <1>6, <2>2 DEF ExchRecord, U
<1>10. StreamOK(TypeOf[t.ep], s)
  BY <1>8, <1>2, StreamsAre
<1>11. Stage(u, y)
  <2>1. Partial(TypeOf[t.ep], s, 0, Nothing)
    BY <1>10, PartNone DEF Partial
  <2>2. 0 <= Len(s)
    BY <1>10 DEF StreamOK
  <2>3. Streaming(u, y)
    BY <1>2, <1>3, <1>4, <1>5, <1>6, <2>1, <2>2 DEF Sent, Streaming
  <2>4. QED
    BY <1>4, <1>5, <2>3 DEF Stage
<1>12. Saving(r, u, y) /\ Saved(r, u, y, rows)
  BY <1>1, <1>4, <1>6 DEF RunOK, Sent, Saving, Saved
<1>13. RunOK(r, u, y, rows)
  BY <1>7, <1>9, <1>11, <1>12 DEF RunOK
<1>14. turn' = [turn EXCEPT ![r] = u] /\ exch' = [exch EXCEPT ![r] = y] /\ rows' = rows
  BY <1>2, <1>3 DEF u, y, t, x
<1>15. QED
  BY <1>13, <1>14, OneRun

\* An event is delivered.
LEMMA DeliversKeeps ==
    ASSUME RunsInv, NEW r \in Run, Delivers(r)
    PROVE  RunsInv'
<1> DEFINE t == turn[r]
           x == exch[r]
           y == [x EXCEPT !.fwd = x.fwd + 1]
<1>1. RunOK(r, t, x, rows) /\ turn = [turn EXCEPT ![r] = t]
  BY Alone
<1>2. /\ exch' = [exch EXCEPT ![r] = y] /\ turn' = turn /\ rows' = rows
      /\ x.ex \in {"direct", "copying"} /\ x.tail = "open" /\ x.fwd < Len(x.stream)
  BY DEF Delivers, storeVars
<1> HIDE DEF t, x
<1>3. t \in TurnRecord /\ x \in ExchRecord /\ Stage(t, x)
  BY <1>1 DEF RunOK
<1>4. y = [ex |-> x.ex, target |-> x.target, stream |-> x.stream, fwd |-> x.fwd + 1,
           tail |-> x.tail, record |-> x.record]
  BY <1>3 DEF ExchRecord
<1> HIDE DEF y
<1>5. y \in ExchRecord /\ x.fwd \in Nat
  <2> DEFINE U == UNION {Streams[type] : type \in ProviderType}
  <2> HIDE DEF U
  <2>1. x \in [ex : {"none", "direct", "copying", "saving", "saved", "lost"},
               target : Endpoint \cup {None}, stream : {<<>>} \cup U, fwd : Nat,
               tail : {"open", "eof", "reset"}, record : CaptureRecord \cup {None}]
    BY <1>3 DEF ExchRecord, U
  <2>2. x.fwd \in Nat /\ x.fwd + 1 \in Nat
    BY <2>1
  <2>3. QED
    BY <1>4, <2>1, <2>2 DEF ExchRecord, U
<1>6. Stage(t, y)
  <2>1. t.at # "idle"
    BY <1>2, <1>3 DEF Stage, Idle
  <2>2. t.at # "sent"
    <3>1. Len(<<>>) = 0
      OBVIOUS
    <3>2. QED
      BY <1>2, <1>3, <3>1 DEF Stage, Sent
  <2>3. t.at = "done" => Done(t, y)
    BY <1>3, <1>4 DEF Stage, Done
  <2>4. ASSUME t.at = "streaming" PROVE Streaming(t, y)
    <3>1. Streaming(t, x) /\ x.stream \in Streams[TypeOf[t.ep]] /\ t.ep \in Endpoint
      BY <1>3, <2>4 DEF Stage, Streaming
    <3>2. Len(x.stream) \in Nat /\ t.pos \in Nat
      BY <1>3, <3>1, StreamsAre, GatewayAssumption DEF StreamOK, TurnRecord
    <3>3. y.fwd <= Len(y.stream) /\ t.pos <= y.fwd
      BY <1>2, <1>4, <1>5, <3>1, <3>2 DEF Streaming
    <3>4. y.tail # "eof" /\ y.ex \notin {"saving", "saved"}
      BY <1>2, <1>4
    <3>5. QED
      BY <1>4, <3>1, <3>3, <3>4 DEF Streaming
  <2>5. QED
    BY <1>3, <2>1, <2>2, <2>3, <2>4 DEF Stage
<1>7. Saving(r, t, y) /\ Saved(r, t, y, rows)
  BY <1>1, <1>2, <1>4 DEF RunOK, Saving, Saved
<1>8. RunOK(r, t, y, rows)
  BY <1>3, <1>5, <1>6, <1>7 DEF RunOK
<1>9. turn' = [turn EXCEPT ![r] = t]
  BY <1>1, <1>2
<1>10. QED
  BY <1>2, <1>8, <1>9, OneRun

\* The response ends, or its connection breaks.
LEMMA ProviderEndsKeeps ==
    ASSUME RunsInv, NEW r \in Run, ProviderEnds(r)
    PROVE  RunsInv'
<1> DEFINE t == turn[r]
           x == exch[r]
<1>1. RunOK(r, t, x, rows) /\ turn = [turn EXCEPT ![r] = t]
  BY Alone
<1>2. /\ turn' = turn /\ rows' = rows /\ x.ex \in {"direct", "copying"} /\ x.stream # <<>>
      /\ \E tail \in {"eof", "reset"} :
            /\ exch' = [exch EXCEPT ![r] = [x EXCEPT !.tail = tail]]
            /\ tail = "eof" => x.fwd = Len(x.stream)
  BY DEF ProviderEnds, storeVars
<1>3. PICK tail \in {"eof", "reset"} :
          /\ exch' = [exch EXCEPT ![r] = [x EXCEPT !.tail = tail]]
          /\ tail = "eof" => x.fwd = Len(x.stream)
  BY <1>2
<1> DEFINE y == [x EXCEPT !.tail = tail]
<1> HIDE DEF t, x
<1>4. t \in TurnRecord /\ x \in ExchRecord /\ Stage(t, x)
  BY <1>1 DEF RunOK
<1>5. y = [ex |-> x.ex, target |-> x.target, stream |-> x.stream, fwd |-> x.fwd,
           tail |-> tail, record |-> x.record]
  BY <1>4 DEF ExchRecord
<1> HIDE DEF y
<1>6. y \in ExchRecord
  <2> DEFINE U == UNION {Streams[type] : type \in ProviderType}
  <2> HIDE DEF U
  <2>1. x \in [ex : {"none", "direct", "copying", "saving", "saved", "lost"},
               target : Endpoint \cup {None}, stream : {<<>>} \cup U, fwd : Nat,
               tail : {"open", "eof", "reset"}, record : CaptureRecord \cup {None}]
    BY <1>4 DEF ExchRecord, U
  <2>2. QED
    BY <1>5, <2>1 DEF ExchRecord, U
<1>7. Stage(t, y)
  <2>1. t.at # "idle" /\ t.at # "sent"
    BY <1>2, <1>4 DEF Stage, Idle, Sent
  <2>2. t.at = "done" => Done(t, y)
    BY <1>4, <1>5 DEF Stage, Done
  <2>3. t.at = "streaming" => Streaming(t, y)
    BY <1>2, <1>3, <1>4, <1>5 DEF Stage, Streaming
  <2>4. QED
    BY <1>4, <2>1, <2>2, <2>3 DEF Stage
<1>8. Saving(r, t, y) /\ Saved(r, t, y, rows)
  BY <1>1, <1>2, <1>5 DEF RunOK, Saving, Saved
<1>9. RunOK(r, t, y, rows)
  BY <1>4, <1>6, <1>7, <1>8 DEF RunOK
<1>10. turn' = [turn EXCEPT ![r] = t] /\ exch' = [exch EXCEPT ![r] = y]
  BY <1>1, <1>2, <1>3 DEF y
<1>11. QED
  BY <1>2, <1>9, <1>10, OneRun

\* A result is not missing.
LEMMA NoneIsNoOutcome == None # "completed" /\ "completed" \in Outcome /\ "failed" \in Outcome
                         /\ "cancelled" \in Outcome /\ "gone" \in Outcome
  BY GatewayAssumption DEF Outcome

\* The dispatch fails: the proxy, if it has the exchange, captures an error.
LEMMA DispatchFailsKeeps ==
    ASSUME RunsInv, NEW r \in Run, DispatchFails(r)
    PROVE  RunsInv'
<1> DEFINE t == turn[r]
           x == exch[r]
           u == Ended(t, "failed")
<1>1. RunOK(r, t, x, rows)
  BY Alone
<1>2. turn' = [turn EXCEPT ![r] = u] /\ rows' = rows /\ t.at = "sent"
  BY DEF DispatchFails, Failed, storeVars
<1>3. t \in TurnRecord /\ x.ex \in {"direct", "copying"}
  BY <1>1, <1>2 DEF RunOK, Stage, Sent
<1>4. \E y : /\ exch' = [exch EXCEPT ![r] = y]
             /\ y \in ExchRecord /\ y.ex \in {"saving", "none"}
             /\ y.ex = "saving" => y.record \in CaptureRecord /\ y.record.run = r /\ ~y.record.ok
  <2> DEFINE X(ex, record) == [ex |-> ex, target |-> None, stream |-> <<>>, fwd |-> 0,
                               tail |-> "open", record |-> record]
  <2>1. \A ex \in {"saving", "none"}, record \in CaptureRecord \cup {None} :
            X(ex, record) \in ExchRecord
    BY DEF ExchRecord
  <2>2. CASE ViaProxy(r)
    <3>1. PICK h \in Hour : exch' = Over(r, "saving", ErrorRecord(r, h))
      BY <2>2 DEF DispatchFails
    <3>2. ErrorRecord(r, h) \in CaptureRecord /\ ErrorRecord(r, h).run = r
          /\ ~ErrorRecord(r, h).ok
      BY DEF ErrorRecord, CaptureRecord
    <3> DEFINE rec == ErrorRecord(r, h)
    <3> HIDE DEF rec
    <3>3. turn[r].at # "streaming"
      BY <1>2
    <3>4. PICK y : /\ Over(r, "saving", rec) = [exch EXCEPT ![r] = y]
                   /\ turn[r].at # "streaming" =>
                        y = [ex |-> IF "saving" = "direct" THEN "none" ELSE "saving", target |-> None,
                             stream |-> <<>>, fwd |-> 0, tail |-> "open", record |-> rec]
      BY OverIs
    <3>5. y = X("saving", rec)
      BY <3>3, <3>4
    <3>6. y \in ExchRecord /\ y.ex = "saving" /\ y.record = rec
      BY <2>1, <3>2, <3>5 DEF rec
    <3>7. exch' = [exch EXCEPT ![r] = y]
      BY <3>1, <3>4 DEF rec
    <3>8. QED
      BY <3>2, <3>6, <3>7 DEF rec
  <2>3. CASE ~ViaProxy(r)
    <3>1. exch' = Over(r, "none", None)
      BY <2>3 DEF DispatchFails
    <3>2. turn[r].at # "streaming"
      BY <1>2
    <3>3. PICK y : /\ Over(r, "none", None) = [exch EXCEPT ![r] = y]
                   /\ turn[r].at # "streaming" =>
                        y = [ex |-> IF "none" = "direct" THEN "none" ELSE "none", target |-> None,
                             stream |-> <<>>, fwd |-> 0, tail |-> "open", record |-> None]
      BY OverIs
    <3>4. y = X("none", None)
      BY <3>2, <3>3
    <3>5. y \in ExchRecord /\ y.ex = "none" /\ exch' = [exch EXCEPT ![r] = y]
      BY <2>1, <3>1, <3>3, <3>4
    <3>6. QED
      BY <3>5
  <2>4. QED
    BY <2>2, <2>3
<1>5. PICK y : /\ exch' = [exch EXCEPT ![r] = y]
               /\ y \in ExchRecord /\ y.ex \in {"saving", "none"}
               /\ y.ex = "saving" => y.record \in CaptureRecord /\ y.record.run = r /\ ~y.record.ok
  BY <1>4
<1> HIDE DEF t, x
<1>6. u = [at |-> "done", ep |-> None, shape |-> None, ctx |-> "live",
           pos |-> 0, told |-> t.told, result |-> "failed"]
  BY EndedIs
<1> HIDE DEF u
<1>7. u \in TurnRecord
  BY <1>3, <1>6 DEF TurnRecord, Outcome
<1>8. Stage(u, y)
  BY <1>5, <1>6 DEF Stage, Done
<1>9. Saving(r, u, y) /\ Saved(r, u, y, rows)
  BY <1>1, <1>3, <1>5 DEF RunOK, Saving, Saved, Tells
<1>10. RunOK(r, u, y, rows)
  BY <1>5, <1>7, <1>8, <1>9 DEF RunOK
<1>11. QED
  BY <1>2, <1>5, <1>10, OneRun

\* Of a stream that is being read.
LEMMA StreamingIs ==
    ASSUME NEW r, NEW t, NEW x, NEW R, RunOK(r, t, x, R), t.at = "streaming"
    PROVE  /\ t \in TurnRecord /\ x \in ExchRecord /\ Streaming(t, x) /\ t.result = None
           /\ t.result # "completed" /\ TypeOf[t.ep] \in ProviderType
           /\ StreamOK(TypeOf[t.ep], x.stream)
<1>1. t \in TurnRecord /\ x \in ExchRecord /\ Streaming(t, x) /\ t.result = None
  BY DEF RunOK, Stage
<1>2. TypeOf[t.ep] \in ProviderType
  BY <1>1, GatewayAssumption DEF Streaming
<1>3. StreamOK(TypeOf[t.ep], x.stream)
  BY <1>1, <1>2, StreamsAre DEF Streaming
<1>4. QED
  BY <1>1, <1>2, <1>3, NoneIsNoOutcome

\* The relay reads an event.
LEMMA ReadEventKeeps ==
    ASSUME RunsInv, NEW r \in Run, ReadEvent(r)
    PROVE  RunsInv'
<1> DEFINE t == turn[r]
           x == exch[r]
           type == TypeOf[t.ep]
           told == Accumulate(t.told, ParseStreamEvent(type, x.stream[t.pos + 1]))
           ctx == IF t.ctx = "cancelling" THEN "cancelled" ELSE t.ctx
           u == [t EXCEPT !.pos = t.pos + 1, !.told = told, !.ctx = ctx]
<1>1. RunOK(r, t, x, rows) /\ exch = [exch EXCEPT ![r] = x]
  BY Alone
<1>2. turn' = [turn EXCEPT ![r] = u] /\ exch' = exch /\ rows' = rows
  BY DEF ReadEvent, NextRead, Event, storeVars
<1>3. t.at = "streaming" /\ t.pos < x.fwd
  BY DEF ReadEvent
<1> HIDE DEF t, x
<1>4. /\ t \in TurnRecord /\ x \in ExchRecord /\ Streaming(t, x) /\ t.result = None
      /\ t.result # "completed" /\ type \in ProviderType /\ StreamOK(type, x.stream)
  BY <1>1, <1>3, StreamingIs
<1>5. t.pos \in Nat /\ x.fwd \in Nat /\ Len(x.stream) \in Nat
      /\ t.pos + 1 \in 1 .. Len(x.stream) /\ t.pos + 1 <= x.fwd /\ (t.pos + 1) - 1 = t.pos
  <2>1. t.pos \in Nat /\ x.fwd \in Nat /\ Len(x.stream) \in Nat /\ x.fwd <= Len(x.stream)
    BY <1>4 DEF TurnRecord, ExchRecord, StreamOK, Streaming
  <2>2. QED
    BY <1>3, <2>1
<1>6. x.stream[t.pos + 1] \in EventRecord /\ t.told \in Reading
  BY <1>4, <1>5 DEF StreamOK, EventFits, TurnRecord
<1>7. told \in Reading
  BY <1>4, <1>6, AccumulateReads
<1>8. ASSUME x.ex # "direct" PROVE type \in Captured /\ Partial(type, x.stream, t.pos + 1, told)
  <2>1. type \in Captured /\ Partial(type, x.stream, (t.pos + 1) - 1, t.told)
    BY <1>4, <1>5, <1>8 DEF Streaming
  <2> DEFINE k == t.pos + 1
  <2>2. k \in 1 .. Len(x.stream) /\ Partial(type, x.stream, k - 1, t.told)
    BY <1>5, <2>1
  <2> HIDE DEF k
  <2>3. Partial(type, x.stream, k, Accumulate(t.told, ParseStreamEvent(type, x.stream[k])))
    BY <1>4, <2>1, <2>2, ReadsOn
  <2>4. QED
    BY <2>1, <2>3 DEF k
<1>9. ctx \in {"live", "cancelling", "cancelled", "lost"}
  BY <1>4 DEF TurnRecord
<1> HIDE DEF told, ctx, type
<1>10. u = [at |-> t.at, ep |-> t.ep, shape |-> t.shape, ctx |-> ctx, pos |-> t.pos + 1,
            told |-> told, result |-> t.result]
  <2> DEFINE T(a, b, c) == [at |-> t.at, ep |-> t.ep, shape |-> t.shape, ctx |-> c, pos |-> a,
                            told |-> b, result |-> t.result]
  <2>1. u = [[[t EXCEPT !.pos = t.pos + 1] EXCEPT !.told = told] EXCEPT !.ctx = ctx]
    OBVIOUS
  <2>2. [t EXCEPT !.pos = t.pos + 1] = T(t.pos + 1, t.told, t.ctx)
    BY <1>4 DEF TurnRecord
  <2>3. [T(t.pos + 1, t.told, t.ctx) EXCEPT !.told = told] = T(t.pos + 1, told, t.ctx)
    OBVIOUS
  <2>4. [T(t.pos + 1, told, t.ctx) EXCEPT !.ctx = ctx] = T(t.pos + 1, told, ctx)
    OBVIOUS
  <2>5. QED
    BY <2>1, <2>2, <2>3, <2>4
<1> HIDE DEF u
<1>11. u \in TurnRecord
  <2> DEFINE U == UNION {Shapes[p] : p \in ProviderType}
  <2> HIDE DEF U
  <2>1. t \in [at : {"idle", "sent", "streaming", "done"}, ep : Endpoint \cup {None},
               shape : {None} \cup U, ctx : {"live", "cancelling", "cancelled", "lost"},
               pos : Nat, told : Reading, result : Outcome \cup {None}]
    BY <1>4 DEF TurnRecord, U
  <2>2. t.pos + 1 \in Nat
    BY <1>5
  <2>3. QED
    BY <1>7, <1>9, <1>10, <2>1, <2>2 DEF TurnRecord, U
<1>12. Stage(u, x)
  <2>1. Streaming(u, x)
    BY <1>4, <1>5, <1>8, <1>10 DEF Streaming, type
  <2>2. QED
    BY <1>3, <1>4, <1>10, <2>1 DEF Stage
<1>13. Saving(r, u, x) /\ Saved(r, u, x, rows)
  BY <1>1, <1>3, <1>4, <1>10 DEF RunOK, Saving, Saved, Tells
<1>14. RunOK(r, u, x, rows)
  BY <1>4, <1>11, <1>12, <1>13 DEF RunOK
<1>15. exch' = [exch EXCEPT ![r] = x]
  BY <1>1, <1>2
<1>16. QED
  BY <1>2, <1>14, <1>15, OneRun

\* The relay leaves its loop; a turn that completes has read the stream to its end.
LEMMA LeaveLoopKeeps ==
    ASSUME RunsInv, NEW r \in Run, NEW result \in Outcome, LeaveLoop(r, result),
           result = "completed" /\ exch[r].ex # "direct"
               => turn[r].pos = Len(exch[r].stream)
    PROVE  RunsInv'
<1> DEFINE t == turn[r]
           x == exch[r]
           u == Ended(t, result)
           y == IF x.ex = "copying" THEN x ELSE Left(x)
<1>1. RunOK(r, t, x, rows) /\ exch = [exch EXCEPT ![r] = x]
  BY Alone
<1>2. turn' = [turn EXCEPT ![r] = u] /\ exch' = [exch EXCEPT ![r] = y] /\ rows' = rows
      /\ t.at = "streaming"
  BY <1>1 DEF LeaveLoop, storeVars
<1>3. result = "completed" /\ x.ex # "direct" => t.pos = Len(x.stream)
  OBVIOUS
<1> HIDE DEF t, x
<1>4. /\ t \in TurnRecord /\ x \in ExchRecord /\ Streaming(t, x)
      /\ t.result # "completed" /\ StreamOK(TypeOf[t.ep], x.stream)
  BY <1>1, <1>2, StreamingIs
<1>5. u = [at |-> "done", ep |-> None, shape |-> None, ctx |-> "live",
           pos |-> 0, told |-> t.told, result |-> result]
  BY EndedIs
<1>6. Left(x) = [ex |-> IF x.ex = "direct" THEN "none" ELSE x.ex, target |-> None,
                 stream |-> <<>>, fwd |-> 0, tail |-> "open", record |-> x.record]
  BY LeftIs
<1>7. y \in ExchRecord /\ y.record = x.record
      /\ y.ex = IF x.ex = "direct" THEN "none" ELSE x.ex
  BY <1>4, <1>6 DEF ExchRecord
<1>8. y.ex = "copying" => y = x
  BY <1>7
<1> HIDE DEF u, y
<1>9. u \in TurnRecord
  BY <1>4, <1>5 DEF TurnRecord
<1>10. ASSUME result = "completed", x.ex # "direct"
       PROVE  Reads(TypeOf[t.ep], x.stream, t.told)
  <2>1. Partial(TypeOf[t.ep], x.stream, Len(x.stream), t.told)
    BY <1>3, <1>4, <1>10 DEF Streaming
  <2>2. QED
    BY <1>4, <2>1, ReadsAll
<1>11. Stage(u, y)
  <2>1. y.ex # "direct"
    BY <1>7
  <2>2. ASSUME y.ex = "copying"
        PROVE  /\ y.target \in Endpoint /\ TypeOf[y.target] \in Captured
               /\ y.stream \in Streams[TypeOf[y.target]]
               /\ result = "completed" => Reads(TypeOf[y.target], y.stream, t.told)
    BY <1>4, <1>7, <1>8, <1>10, <2>2 DEF Streaming
  <2>3. Done(u, y)
    BY <1>5, <2>1, <2>2 DEF Done
  <2>4. QED
    BY <1>5, <2>3 DEF Stage
<1>12. ASSUME NEW rec, Tells(t, x, rec), x.ex # "direct" PROVE Tells(u, y, rec)
  <2>1. rec.ok => Triple(rec) \in {Nothing, ReassembleStream(TypeOf[t.ep], x.stream)}
    BY <1>2, <1>4, <1>12 DEF Tells, Streaming
  <2>2. rec.ok /\ result = "completed" => Triple(rec) \in {Nothing, t.told}
    BY <1>10, <1>12, <2>1 DEF Reads
  <2>3. QED
    BY <1>5, <2>2 DEF Tells
<1>13. Saving(r, u, y)
  BY <1>1, <1>7, <1>12 DEF RunOK, Saving
<1>14. Saved(r, u, y, rows)
  BY <1>1, <1>7, <1>12 DEF RunOK, Saved
<1>15. RunOK(r, u, y, rows)
  BY <1>7, <1>9, <1>11, <1>13, <1>14 DEF RunOK
<1>16. QED
  BY <1>2, <1>15, OneRun

\* The relay's own end: nothing follows the terminal event, and the end of the proxy's
\* response comes after all of its events.
LEMMA RelayKeeps ==
    ASSUME RunsInv, NEW r \in Run,
           RelayCompletes(r) \/ RelayTimesOut(r) \/ RelayBreaks(r) \/ RelayCancelled(r)
    PROVE  RunsInv'
<1>1. CASE RelayCompletes(r)
  <2> DEFINE t == turn[r]
             x == exch[r]
  <2>1. RunOK(r, t, x, rows)
    BY Alone
  <2>2. /\ t.at = "streaming"
        /\ \/ t.pos > 0 /\ ParseStreamEvent(TypeOf[t.ep], x.stream[t.pos]).type = "done"
           \/ t.pos = x.fwd /\ x.ex # "direct" /\ x.ex \in {"saving", "saved"}
           \/ x.ex = "direct"
    BY <1>1 DEF RelayCompletes, LeaveLoop, SawDone, Event, Waits, AtEnd, ViaProxy
  <2> HIDE DEF t, x
  <2>3. /\ t \in TurnRecord /\ x \in ExchRecord /\ Streaming(t, x)
        /\ StreamOK(TypeOf[t.ep], x.stream)
    BY <2>1, <2>2, StreamingIs
  <2>4. ASSUME x.ex # "direct" PROVE t.pos = Len(x.stream)
    <3>1. CASE t.pos > 0 /\ ParseStreamEvent(TypeOf[t.ep], x.stream[t.pos]).type = "done"
      <4>1. t.pos \in Nat /\ Len(x.stream) \in Nat /\ x.fwd \in Nat
            /\ x.fwd <= Len(x.stream) /\ t.pos <= x.fwd
        BY <2>3 DEF TurnRecord, ExchRecord, StreamOK, Streaming
      <4>2. t.pos \in 1 .. Len(x.stream)
        BY <3>1, <4>1
      <4>3. EventFits(TypeOf[t.ep], x.stream, t.pos)
        BY <2>3, <4>2 DEF StreamOK
      <4>4. QED
        BY <3>1, <4>3 DEF EventFits
    <3>2. CASE t.pos = x.fwd /\ x.ex \in {"saving", "saved"}
      BY <2>3, <3>2 DEF Streaming
    <3>3. QED
      BY <2>2, <2>4, <3>1, <3>2
  <2>5. LeaveLoop(r, "completed") /\ "completed" \in Outcome
    BY <1>1, NoneIsNoOutcome DEF RelayCompletes
  <2>6. QED
    BY <2>4, <2>5, LeaveLoopKeeps DEF t, x
<1>2. CASE RelayTimesOut(r) \/ RelayBreaks(r)
  <2>1. LeaveLoop(r, "failed") /\ "failed" \in Outcome /\ "failed" # "completed"
    BY <1>2, NoneIsNoOutcome DEF RelayTimesOut, RelayBreaks
  <2>2. QED
    BY <2>1, LeaveLoopKeeps
<1>3. CASE RelayCancelled(r)
  <2>1. LeaveLoop(r, "cancelled") /\ "cancelled" \in Outcome /\ "cancelled" # "completed"
    BY <1>3, NoneIsNoOutcome DEF RelayCancelled
  <2>2. QED
    BY <2>1, LeaveLoopKeeps
<1>4. QED
  BY <1>1, <1>2, <1>3

\* The context of a turn, which nothing kept of it depends on.
LEMMA ContextChanges ==
    ASSUME NEW r, NEW t, NEW x, NEW R, RunOK(r, t, x, R),
           NEW c \in {"live", "cancelling", "cancelled", "lost"}
    PROVE  RunOK(r, [t EXCEPT !.ctx = c], x, R)
<1> DEFINE u == [t EXCEPT !.ctx = c]
<1>1. t \in TurnRecord /\ x \in ExchRecord /\ Stage(t, x) /\ Saving(r, t, x) /\ Saved(r, t, x, R)
  BY DEF RunOK
<1>2. u = [at |-> t.at, ep |-> t.ep, shape |-> t.shape, ctx |-> c, pos |-> t.pos,
           told |-> t.told, result |-> t.result]
  BY <1>1 DEF TurnRecord
<1> HIDE DEF u
<1>3. u \in TurnRecord
  <2> DEFINE U == UNION {Shapes[p] : p \in ProviderType}
  <2> HIDE DEF U
  <2>1. t \in [at : {"idle", "sent", "streaming", "done"}, ep : Endpoint \cup {None},
               shape : {None} \cup U, ctx : {"live", "cancelling", "cancelled", "lost"},
               pos : Nat, told : Reading, result : Outcome \cup {None}]
    BY <1>1 DEF TurnRecord, U
  <2>2. QED
    BY <1>2, <2>1 DEF TurnRecord, U
<1>4. u.at = t.at /\ u.ep = t.ep /\ u.pos = t.pos /\ u.told = t.told /\ u.result = t.result
  BY <1>2
<1>5. Stage(u, x)
  BY <1>1, <1>4 DEF Stage, Idle, Sent, Streaming, Done
<1>6. Saving(r, u, x) /\ Saved(r, u, x, R)
  BY <1>1, <1>4 DEF Saving, Saved, Tells
<1>7. QED
  BY <1>1, <1>3, <1>5, <1>6 DEF RunOK, u

\* A turn is cancelled, or its harness goes.
LEMMA CancelKeeps ==
    ASSUME RunsInv, NEW r \in Run, Cancel(r) \/ Disconnects(r)
    PROVE  RunsInv'
<1> DEFINE t == turn[r]
           x == exch[r]
<1>1. RunOK(r, t, x, rows) /\ exch = [exch EXCEPT ![r] = x]
  BY Alone
<1>2. PICK c \in {"live", "cancelling", "cancelled", "lost"} :
          turn' = [turn EXCEPT ![r] = [t EXCEPT !.ctx = c]]
  BY DEF Cancel, Disconnects
<1>3. exch' = [exch EXCEPT ![r] = x] /\ rows' = rows
  BY <1>1 DEF Cancel, Disconnects, storeVars
<1> DEFINE u == [t EXCEPT !.ctx = c]
<1>4. RunOK(r, u, x, rows) /\ turn' = [turn EXCEPT ![r] = u]
  BY <1>1, <1>2, ContextChanges
<1> HIDE DEF u, t, x
<1>5. QED
  BY <1>3, <1>4, OneRun

\* The proxy has the whole stream and builds the record.
LEMMA CopyEndsKeeps ==
    ASSUME RunsInv, NEW r \in Run, CopyEnds(r)
    PROVE  RunsInv'
<1> DEFINE t == turn[r]
           x == exch[r]
<1>1. RunOK(r, t, x, rows) /\ turn = [turn EXCEPT ![r] = t]
  BY Alone
<1>2. PICK h \in Hour, read \in {ReassembleStream(Detect(x.target), x.stream), Nothing} :
          exch' = Over(r, "saving", StreamRecord(r, h, read))
  BY DEF CopyEnds
<1>3. turn' = turn /\ rows' = rows /\ x.ex = "copying" /\ x.tail = "eof"
  BY DEF CopyEnds, storeVars
<1> DEFINE rec == StreamRecord(r, h, read)
<1> HIDE DEF rec
<1>4. PICK y : /\ Over(r, "saving", rec) = [exch EXCEPT ![r] = y]
               /\ turn[r].at = "streaming" =>
                    y = [ex |-> "saving", target |-> exch[r].target, stream |-> exch[r].stream,
                         fwd |-> exch[r].fwd, tail |-> exch[r].tail, record |-> rec]
               /\ turn[r].at # "streaming" =>
                    y = [ex |-> IF "saving" = "direct" THEN "none" ELSE "saving", target |-> None,
                         stream |-> <<>>, fwd |-> 0, tail |-> "open", record |-> rec]
  BY OverIs
<1>5. /\ exch' = [exch EXCEPT ![r] = y]
      /\ t.at = "streaming" =>
            y = [ex |-> "saving", target |-> x.target, stream |-> x.stream,
                 fwd |-> x.fwd, tail |-> x.tail, record |-> rec]
      /\ t.at # "streaming" =>
            y = [ex |-> "saving", target |-> None, stream |-> <<>>, fwd |-> 0,
                 tail |-> "open", record |-> rec]
  BY <1>2, <1>4 DEF rec
<1> HIDE DEF t, x
<1>6. t \in TurnRecord /\ x \in ExchRecord /\ Stage(t, x) /\ t.at \in {"streaming", "done"}
  BY <1>1, <1>3 DEF RunOK, TurnRecord, Stage, Idle, Sent
<1>7. TypeOf[x.target] \in Captured /\ x.stream \in Streams[TypeOf[x.target]]
  BY <1>3, <1>6 DEF Stage, Streaming, Done
<1>8. read \in Reading /\ read \in {Nothing, ReassembleStream(TypeOf[x.target], x.stream)}
  <2>1. Detect(x.target) = TypeOf[x.target]
    BY <1>7, DetectIs
  <2>2. StreamOK(TypeOf[x.target], x.stream)
    BY <1>7, StreamsAre DEF Captured, ProviderType
  <2>3. ReassembleStream(TypeOf[x.target], x.stream) \in Reading
    BY <1>7, <2>2, ReassembledIsReading
  <2>4. Nothing \in Reading
    BY DEF Nothing, Reading
  <2>5. QED
    BY <1>2, <2>1, <2>3, <2>4
<1>9. rec \in CaptureRecord /\ rec.run = r /\ Triple(rec) = read
  <2>1. read = [text |-> read.text, input |-> read.input, output |-> read.output]
        /\ read.text \in Nat /\ read.input \in Nat /\ read.output \in Nat
    BY <1>8, ReadingIs
  <2>2. rec = [run |-> r, hour |-> h, ok |-> TRUE, text |-> read.text, input |-> read.input,
               output |-> read.output]
    BY DEF rec, StreamRecord
  <2>3. rec \in CaptureRecord
    BY <2>1, <2>2 DEF CaptureRecord
  <2>4. QED
    BY <2>1, <2>2, <2>3 DEF Triple
<1>10. y \in ExchRecord /\ y.ex = "saving" /\ y.record = rec
  <2> DEFINE U == UNION {Streams[type] : type \in ProviderType}
  <2> HIDE DEF U
  <2>1. x \in [ex : {"none", "direct", "copying", "saving", "saved", "lost"},
               target : Endpoint \cup {None}, stream : {<<>>} \cup U, fwd : Nat,
               tail : {"open", "eof", "reset"}, record : CaptureRecord \cup {None}]
    BY <1>6 DEF ExchRecord, U
  <2>2. QED
    BY <1>5, <1>9, <2>1 DEF ExchRecord, U
<1>11. Stage(t, y)
  <2>1. ASSUME t.at = "streaming" PROVE Streaming(t, y)
    BY <1>3, <1>5, <1>6, <2>1 DEF Stage, Streaming
  <2>2. ASSUME t.at = "done" PROVE Done(t, y)
    BY <1>6, <1>10, <2>2 DEF Stage, Done
  <2>3. QED
    BY <1>6, <2>1, <2>2 DEF Stage
<1>12. Saving(r, t, y)
  <2>1. t.at = "streaming" =>
            Triple(rec) \in {Nothing, ReassembleStream(TypeOf[y.target], y.stream)}
    BY <1>5, <1>8, <1>9
  <2>2. ASSUME t.result = "completed" PROVE Triple(rec) \in {Nothing, t.told}
    <3>1. t.at = "done" /\ Reads(TypeOf[x.target], x.stream, t.told)
      BY <1>3, <1>6, <2>2, NoneIsNoOutcome DEF Stage, Done
    <3>2. QED
      BY <1>8, <1>9, <3>1 DEF Reads
  <2>3. QED
    BY <1>9, <1>10, <2>1, <2>2 DEF Saving, Tells
<1>13. Saved(r, t, y, rows)
  BY <1>1, <1>3 DEF RunOK, Saved
<1>14. RunOK(r, t, y, rows)
  BY <1>6, <1>10, <1>11, <1>12, <1>13 DEF RunOK
<1>15. turn' = [turn EXCEPT ![r] = t]
  BY <1>1, <1>3
<1>16. QED
  BY <1>3, <1>5, <1>14, <1>15, OneRun

\* The copy breaks off, and nothing is captured.
LEMMA CopyAbortsKeeps ==
    ASSUME RunsInv, NEW r \in Run, CopyAborts(r)
    PROVE  RunsInv'
<1> DEFINE t == turn[r]
           x == exch[r]
<1>1. RunOK(r, t, x, rows) /\ turn = [turn EXCEPT ![r] = t]
  BY Alone
<1>2. /\ turn' = turn /\ rows' = rows /\ x.ex = "copying"
      /\ x.tail = "reset" \/ x.stream # <<>>
      /\ exch' = Over(r, "lost", None)
  BY DEF CopyAborts, storeVars
<1>3. PICK y : /\ Over(r, "lost", None) = [exch EXCEPT ![r] = y]
               /\ turn[r].at = "streaming" =>
                    y = [ex |-> "lost", target |-> exch[r].target, stream |-> exch[r].stream,
                         fwd |-> exch[r].fwd, tail |-> exch[r].tail, record |-> None]
               /\ turn[r].at # "streaming" =>
                    y = [ex |-> IF "lost" = "direct" THEN "none" ELSE "lost", target |-> None,
                         stream |-> <<>>, fwd |-> 0, tail |-> "open", record |-> None]
  BY OverIs
<1>4. /\ exch' = [exch EXCEPT ![r] = y]
      /\ t.at = "streaming" =>
            y = [ex |-> "lost", target |-> x.target, stream |-> x.stream,
                 fwd |-> x.fwd, tail |-> x.tail, record |-> None]
      /\ t.at # "streaming" =>
            y = [ex |-> "lost", target |-> None, stream |-> <<>>, fwd |-> 0,
                 tail |-> "open", record |-> None]
  BY <1>2, <1>3
<1> HIDE DEF t, x
<1>5. t \in TurnRecord /\ x \in ExchRecord /\ Stage(t, x) /\ t.at \in {"streaming", "done"}
  BY <1>1, <1>2 DEF RunOK, TurnRecord, Stage, Idle, Sent
<1>6. y \in ExchRecord /\ y.ex = "lost"
  <2> DEFINE U == UNION {Streams[type] : type \in ProviderType}
  <2> HIDE DEF U
  <2>1. x \in [ex : {"none", "direct", "copying", "saving", "saved", "lost"},
               target : Endpoint \cup {None}, stream : {<<>>} \cup U, fwd : Nat,
               tail : {"open", "eof", "reset"}, record : CaptureRecord \cup {None}]
    BY <1>5 DEF ExchRecord, U
  <2>2. QED
    BY <1>4, <2>1 DEF ExchRecord, U
<1>7. Stage(t, y)
  <2>1. ASSUME t.at = "streaming" PROVE Streaming(t, y)
    BY <1>2, <1>4, <1>5, <2>1 DEF Stage, Streaming
  <2>2. ASSUME t.at = "done" PROVE Done(t, y)
    BY <1>5, <1>6, <2>2 DEF Stage, Done
  <2>3. QED
    BY <1>5, <2>1, <2>2 DEF Stage
<1>8. Saving(r, t, y) /\ Saved(r, t, y, rows)
  BY <1>1, <1>2, <1>6 DEF RunOK, Saving, Saved
<1>9. RunOK(r, t, y, rows)
  BY <1>5, <1>6, <1>7, <1>8 DEF RunOK
<1>10. turn' = [turn EXCEPT ![r] = t]
  BY <1>1, <1>2
<1>11. QED
  BY <1>2, <1>4, <1>9, <1>10, OneRun

\* A row of somebody else.
LEMMA OtherRow ==
    ASSUME NEW r, NEW t, NEW x, NEW R, RunOK(r, t, x, R), NEW row, row.run # r
    PROVE  RunOK(r, t, x, R \cup {row})
  BY DEF RunOK, Saved

\* A new row, unlike those saved before.
LEMMA ClientKeeps ==
    ASSUME RunsInv, TotalsInv, NEW c \in Client, ClientTraffic(c)
    PROVE  RunsInv' /\ TotalsInv'
<1>1. PICK h \in Hour :
          SaveRequest([run |-> c, hour |-> h, ok |-> TRUE, text |-> 1, input |-> 1, output |-> 1])
  BY DEF ClientTraffic
<1> DEFINE row == [run |-> c, hour |-> h, ok |-> TRUE, text |-> 1, input |-> 1, output |-> 1]
<1>2. row.run = c /\ row.hour \in Hour /\ row.output \in Nat
  OBVIOUS
<1>3. SaveRequest(row) /\ turn' = turn /\ exch' = exch /\ \A q \in rows : q.run # c
  BY <1>1 DEF ClientTraffic
<1> HIDE DEF row
<1>4. row \notin rows
  BY <1>2, <1>3
<1>5. TotalsInv'
  BY <1>2, <1>3, <1>4, SaveKeeps
<1>6. rows' = rows \cup {row}
  BY <1>3 DEF SaveRequest
<1>7. \A r \in Run : row.run # r
  BY <1>2, GatewayAssumption
<1>8. \A r \in Run : RunOK(r, turn[r], exch[r], rows \cup {row})
  BY <1>7, OtherRow DEF RunsInv
<1>9. RunsInv'
  BY <1>3, <1>6, <1>8 DEF RunsInv
<1>10. QED
  BY <1>5, <1>9

\* The row of a run is saved once, and tells what the record told.
LEMMA SaveRunKeeps ==
    ASSUME RunsInv, TotalsInv, NEW r \in Run, Save(r)
    PROVE  RunsInv' /\ TotalsInv'
<1> DEFINE t == turn[r]
           x == exch[r]
           rec == x.record
<1>1. RunOK(r, t, x, rows)
  BY Alone
<1>2. SaveRequest(rec) /\ turn' = turn /\ x.ex = "saving" /\ exch' = Over(r, "saved", None)
  BY DEF Save
<1>3. rec \in CaptureRecord /\ rec.run = r /\ Tells(t, x, rec) /\ Stage(t, x)
      /\ t \in TurnRecord /\ x \in ExchRecord
  BY <1>1, <1>2 DEF RunOK, Saving
<1>4. \A row \in rows : row.run # r
  BY <1>1, <1>2 DEF RunOK, Saved
<1>5. PICK y : /\ Over(r, "saved", None) = [exch EXCEPT ![r] = y]
               /\ turn[r].at = "streaming" =>
                    y = [ex |-> "saved", target |-> exch[r].target, stream |-> exch[r].stream,
                         fwd |-> exch[r].fwd, tail |-> exch[r].tail, record |-> None]
               /\ turn[r].at # "streaming" =>
                    y = [ex |-> IF "saved" = "direct" THEN "none" ELSE "saved", target |-> None,
                         stream |-> <<>>, fwd |-> 0, tail |-> "open", record |-> None]
  BY OverIs
<1>6. /\ exch' = [exch EXCEPT ![r] = y]
      /\ t.at = "streaming" =>
            y = [ex |-> "saved", target |-> x.target, stream |-> x.stream,
                 fwd |-> x.fwd, tail |-> x.tail, record |-> None]
      /\ t.at # "streaming" =>
            y = [ex |-> "saved", target |-> None, stream |-> <<>>, fwd |-> 0,
                 tail |-> "open", record |-> None]
  BY <1>2, <1>5
<1> HIDE DEF t, x, rec
<1>7. t.at \in {"streaming", "done"}
  BY <1>2, <1>3 DEF TurnRecord, Stage, Idle, Sent
<1>8. y \in ExchRecord /\ y.ex = "saved"
  <2> DEFINE U == UNION {Streams[type] : type \in ProviderType}
  <2> HIDE DEF U
  <2>1. x \in [ex : {"none", "direct", "copying", "saving", "saved", "lost"},
               target : Endpoint \cup {None}, stream : {<<>>} \cup U, fwd : Nat,
               tail : {"open", "eof", "reset"}, record : CaptureRecord \cup {None}]
    BY <1>3 DEF ExchRecord, U
  <2>2. QED
    BY <1>6, <2>1 DEF ExchRecord, U
<1>9. Stage(t, y)
  <2>1. ASSUME t.at = "streaming" PROVE Streaming(t, y)
    BY <1>2, <1>3, <1>6, <2>1 DEF Stage, Streaming
  <2>2. ASSUME t.at = "done" PROVE Done(t, y)
    BY <1>3, <1>8, <2>2 DEF Stage, Done
  <2>3. QED
    BY <1>3, <1>7, <2>1, <2>2 DEF Stage
<1>10. Saving(r, t, y)
  BY <1>8 DEF Saving
<1>11. Tells(t, y, rec)
  <2>1. t.at = "streaming" => y.target = x.target /\ y.stream = x.stream
    BY <1>6
  <2>2. QED
    BY <1>3, <2>1 DEF Tells
<1>12. Saved(r, t, y, rows \cup {rec})
  BY <1>4, <1>8, <1>11 DEF Saved
<1>13. RunOK(r, t, y, rows \cup {rec})
  BY <1>3, <1>8, <1>9, <1>10, <1>12 DEF RunOK
<1>14. rows' = rows \cup {rec} /\ rec \notin rows
  BY <1>2, <1>3, <1>4 DEF SaveRequest
<1>15. TotalsInv'
  <2>1. rec.hour \in Hour /\ rec.output \in Nat
    BY <1>3 DEF CaptureRecord
  <2>2. QED
    BY <1>2, <1>14, <2>1, SaveKeeps
<1>16. \A q \in Run \ {r} : RunOK(q, turn[q], exch[q], rows \cup {rec})
  BY <1>3, OtherRow DEF RunsInv
<1>17. /\ exch \in [Run -> ExchRecord] /\ turn \in [Run -> TurnRecord]
       /\ exch' \in [Run -> ExchRecord] /\ exch'[r] = y
       /\ \A q \in Run \ {r} : exch'[q] = exch[q]
  BY <1>6, <1>8 DEF RunsInv
<1>18. \A q \in Run : RunOK(q, turn[q], exch'[q], rows \cup {rec})
  BY <1>13, <1>16, <1>17 DEF t
<1>19. RunsInv'
  BY <1>2, <1>14, <1>17, <1>18 DEF RunsInv
<1>20. QED
  BY <1>15, <1>19

\* The runtime's connections are cut.
LEMMA SignalKeeps ==
    ASSUME RunsInv, Signal
    PROVE  RunsInv'
<1> DEFINE U(r) == IF turn[r].at \in {"sent", "streaming"} THEN [turn[r] EXCEPT !.ctx = "lost"]
                   ELSE turn[r]
<1>1. turn' = [r \in Run |-> U(r)] /\ exch' = exch /\ rows' = rows
  BY DEF Signal, storeVars
<1>2. ASSUME NEW r \in Run PROVE RunOK(r, U(r), exch[r], rows)
  <2>1. RunOK(r, turn[r], exch[r], rows)
    BY DEF RunsInv
  <2>2. RunOK(r, [turn[r] EXCEPT !.ctx = "lost"], exch[r], rows)
    BY <2>1, ContextChanges
  <2>3. QED
    BY <2>1, <2>2
<1> HIDE DEF U
<1>3. \A r \in Run : U(r) \in TurnRecord
  BY <1>2 DEF RunOK
<1>4. turn' \in [Run -> TurnRecord] /\ \A r \in Run : turn'[r] = U(r)
  BY <1>1, <1>3
<1>5. \A r \in Run : RunOK(r, turn'[r], exch[r], rows)
  BY <1>2, <1>4
<1>6. QED
  BY <1>1, <1>4, <1>5 DEF RunsInv

\* The process goes, and with it what it had not saved.
LEMMA ExitKeeps ==
    ASSUME RunsInv, Exit
    PROVE  RunsInv'
<1> DEFINE U(r) == IF turn[r].at \in {"idle", "done"} THEN turn[r] ELSE Ended(turn[r], "gone")
           Y(r) == IF exch[r].ex \in {"copying", "saving"} THEN [NoExchange EXCEPT !.ex = "lost"]
                   ELSE Left(exch[r])
<1>1. turn' = [r \in Run |-> U(r)] /\ exch' = [r \in Run |-> Y(r)] /\ rows' = rows
  BY DEF Exit, CloseStore
<1>2. ASSUME NEW r \in Run PROVE RunOK(r, U(r), Y(r), rows)
  <2> DEFINE t == turn[r]
             x == exch[r]
             u == U(r)
             y == Y(r)
  <2>1. RunOK(r, t, x, rows)
    BY DEF RunsInv
  <2>2. t.at \in {"idle", "done"} => u = t
    OBVIOUS
  <2>3. t.at \notin {"idle", "done"} =>
            u = [at |-> "done", ep |-> None, shape |-> None, ctx |-> "live",
                 pos |-> 0, told |-> t.told, result |-> "gone"]
    BY EndedIs
  <2>4. y.ex = (IF x.ex \in {"copying", "saving"} THEN "lost"
                ELSE IF x.ex = "direct" THEN "none" ELSE x.ex)
        /\ y.target = None /\ y.stream = <<>> /\ y.fwd = 0 /\ y.tail = "open"
        /\ y.record = (IF x.ex \in {"copying", "saving"} THEN None ELSE x.record)
        /\ y = [ex |-> y.ex, target |-> None, stream |-> <<>>, fwd |-> 0, tail |-> "open",
                record |-> y.record]
    <3>1. CASE x.ex \in {"copying", "saving"}
      <4>1. y = [ex |-> "lost", target |-> None, stream |-> <<>>, fwd |-> 0, tail |-> "open",
                 record |-> None]
        BY <3>1 DEF NoExchange
      <4> HIDE DEF y, x
      <4>2. QED
        BY <3>1, <4>1
    <3>2. CASE x.ex \notin {"copying", "saving"}
      <4>1. y = Left(x)
        BY <3>2
      <4>2. y = [ex |-> IF x.ex = "direct" THEN "none" ELSE x.ex, target |-> None,
                 stream |-> <<>>, fwd |-> 0, tail |-> "open", record |-> x.record]
        BY <4>1, LeftIs
      <4> HIDE DEF y, x
      <4>3. QED
        BY <3>2, <4>2
    <3>3. QED
      BY <3>1, <3>2
  <2> HIDE DEF t, x, u, y
  <2>5. t \in TurnRecord /\ x \in ExchRecord /\ Stage(t, x)
    BY <2>1 DEF RunOK
  <2>6. u \in TurnRecord
    <3>1. CASE t.at \in {"idle", "done"}
      BY <2>2, <2>5, <3>1
    <3>2. CASE t.at \notin {"idle", "done"}
      BY <2>3, <2>5, <3>2 DEF TurnRecord, Outcome
    <3>3. QED
      BY <3>1, <3>2
  <2>7. y \in ExchRecord
    <3>1. y.ex \in {"none", "saved", "lost"} /\ y.record \in CaptureRecord \cup {None}
      BY <2>4, <2>5 DEF ExchRecord
    <3>2. QED
      BY <2>4, <3>1 DEF ExchRecord
  <2>8. y.ex \notin {"direct", "copying", "saving"}
    BY <2>4
  <2>9. Stage(u, y)
    <3>1. CASE t.at = "idle"
      <4>1. Idle(t, x) /\ t.result = None /\ u = t
        BY <2>2, <2>5, <3>1 DEF Stage
      <4>2. Idle(t, y)
        BY <2>4, <4>1 DEF Idle
      <4>3. QED
        BY <3>1, <4>1, <4>2 DEF Stage
    <3>2. CASE t.at # "idle"
      <4>1. u.at = "done" /\ u.ep = None
        BY <2>2, <2>3, <2>5, <3>2 DEF Stage, Done
      <4>2. Done(u, y)
        BY <2>8, <4>1 DEF Done
      <4>3. QED
        BY <4>1, <4>2 DEF Stage
    <3>3. QED
      BY <3>1, <3>2
  <2>10. Saving(r, u, y)
    BY <2>8 DEF Saving
  <2>11. Saved(r, u, y, rows)
    <3> SUFFICES ASSUME NEW row \in rows, row.run = r PROVE y.ex = "saved" /\ Tells(u, y, row)
      BY DEF Saved
    <3>1. x.ex = "saved" /\ Tells(t, x, row)
      BY <2>1 DEF RunOK, Saved
    <3>2. u.at # "streaming"
      BY <2>2, <2>3
    <3>3. u.result = "completed" => u = t
      BY <2>2, <2>3
    <3>4. QED
      BY <2>4, <3>1, <3>2, <3>3 DEF Tells
  <2>12. RunOK(r, u, y, rows)
    BY <2>6, <2>7, <2>9, <2>10, <2>11 DEF RunOK
  <2>13. QED
    BY <2>12 DEF u, y
<1> HIDE DEF U, Y
<1>3. \A r \in Run : U(r) \in TurnRecord /\ Y(r) \in ExchRecord
  BY <1>2 DEF RunOK
<1>4. /\ turn' \in [Run -> TurnRecord] /\ exch' \in [Run -> ExchRecord]
      /\ \A r \in Run : turn'[r] = U(r) /\ exch'[r] = Y(r)
  BY <1>1, <1>3
<1>5. \A r \in Run : RunOK(r, turn'[r], exch'[r], rows)
  BY <1>2, <1>4
<1>6. QED
  BY <1>1, <1>4, <1>5 DEF RunsInv

\* Before anything is sent.
LEMMA RunsInitially ==
    ASSUME Init
    PROVE  RunsInv
<1>1. turn = [r \in Run |-> IdleTurn] /\ exch = [r \in Run |-> NoExchange] /\ rows = {}
  BY DEF Init, StoreInit
<1>2. IdleTurn \in TurnRecord
  BY DEF IdleTurn, TurnRecord, Nothing, Reading
<1>3. NoExchange \in ExchRecord
  BY DEF NoExchange, ExchRecord
<1>4. Stage(IdleTurn, NoExchange)
  BY DEF Stage, Idle, IdleTurn, NoExchange
<1>5. ASSUME NEW r \in Run PROVE RunOK(r, IdleTurn, NoExchange, {})
  <2>1. Saving(r, IdleTurn, NoExchange) /\ Saved(r, IdleTurn, NoExchange, {})
    BY DEF Saving, Saved, NoExchange
  <2>2. QED
    BY <1>2, <1>3, <1>4, <2>1 DEF RunOK
<1>6. \A r \in Run : turn[r] = IdleTurn /\ exch[r] = NoExchange
  BY <1>1
<1>7. turn \in [Run -> TurnRecord] /\ exch \in [Run -> ExchRecord]
  BY <1>1, <1>2, <1>3
<1>8. \A r \in Run : RunOK(r, turn[r], exch[r], rows)
  BY <1>1, <1>5, <1>6
<1>9. QED
  BY <1>7, <1>8 DEF RunsInv

-----------------------------------------------------------------------------
(* The window of a conversation *)

IsSeq(s) == Len(s) \in Nat /\ DOMAIN s = 1 .. Len(s)

\* A message of a conversation, as far as its estimate needs it.
Estimated(m) == m.text \in BOOLEAN /\ IsFiniteSet(m.calls) /\ IsFiniteSet(m.results)

\* A message that says, asks or answers something is estimated at one token at least.
LEMMA TokensAre ==
    ASSUME NEW m, Estimated(m)
    PROVE  /\ EstimateMessageTokens(m) \in Nat
           /\ EstimateMessageTokens(m) > 0 <=> m.text \/ m.calls # {} \/ m.results # {}
<1>1. /\ Cardinality(m.calls) \in Nat /\ (Cardinality(m.calls) = 0 <=> m.calls = {})
      /\ Cardinality(m.results) \in Nat /\ (Cardinality(m.results) = 0 <=> m.results = {})
  BY FS_CardinalityType, FS_EmptySet DEF Estimated
<1>2. Text(m) \in {0, 1} /\ (Text(m) = 1 <=> m.text)
  BY DEF Text, Estimated
<1>3. EstimateMessageTokens(m) = Text(m) + Cardinality(m.calls) + Cardinality(m.results)
  BY DEF EstimateMessageTokens
<1> DEFINE n == Text(m)
           c == Cardinality(m.calls)
           d == Cardinality(m.results)
<1> HIDE DEF n, c, d
<1>4. n \in {0, 1} /\ c \in Nat /\ d \in Nat => n + c + d \in Nat /\ (n + c + d > 0 <=> n # 0 \/ c # 0 \/ d # 0)
  OBVIOUS
<1>5. QED
  BY <1>1, <1>2, <1>3, <1>4 DEF n, c, d

\* A step of NotEmpty.
Keep(p, m) == IF EstimateMessageTokens(m) > 0 THEN Append(p, m) ELSE p

\* f gives what NotEmpty makes of the messages whose places are in a set.
Keeps(s, D, f) ==
    f = [u \in SUBSET D |-> IF u = {} THEN <<>> ELSE LET x == Max(u) IN Keep(f[u \ {x}], s[x])]

Keeping(s) == CHOOSE f : Keeps(s, DOMAIN s, f)

\* The messages of the first k that are not empty.
Present(s, k) == Keeping(s)[1 .. k]

\* See FoldsExists.
LEMMA KeepsExists == ASSUME NEW s, NEW n \in Nat PROVE \E f : Keeps(s, 1 .. n, f)
<1> DEFINE Bad == {k \in Nat : ~\E f : Keeps(s, 1 .. k, f)}
<1> SUFFICES ASSUME Bad # {} PROVE FALSE
  OBVIOUS
<1>1. PICK k \in Bad : \A j \in Bad : k <= j
  BY Least
<1>2. CASE k = 0
  <2>1. SUBSET (1 .. k) = {{}}
    BY <1>2
  <2>2. Keeps(s, 1 .. k, [u \in SUBSET (1 .. k) |-> <<>>])
    BY <2>1 DEF Keeps
  <2>3. QED
    BY <2>2
<1>3. CASE k # 0
  <2>1. k - 1 \in Nat /\ k - 1 \notin Bad
    BY <1>1, <1>3
  <2>2. PICK g : Keeps(s, 1 .. k - 1, g)
    BY <2>1
  <2> DEFINE h == [u \in SUBSET (1 .. k) |->
                      IF k \in u THEN Keep(g[u \ {k}], s[k]) ELSE g[u]]
             Value(u) == IF u = {} THEN <<>> ELSE LET x == Max(u) IN Keep(h[u \ {x}], s[x])
  <2>3. \A u \in SUBSET (1 .. k) : h[u] = Value(u)
    <3> SUFFICES ASSUME NEW u \in SUBSET (1 .. k) PROVE h[u] = Value(u)
      OBVIOUS
    <3>1. CASE k \in u
      <4>1. Max(u) = k /\ u # {}
        BY <1>1, <3>1, MaxIs
      <4>2. u \ {k} \in SUBSET (1 .. k) /\ k \notin u \ {k}
        OBVIOUS
      <4>3. h[u \ {k}] = g[u \ {k}] /\ h[u] = Keep(g[u \ {k}], s[k])
        BY <3>1, <4>2
      <4> HIDE DEF h
      <4>4. QED
        BY <4>1, <4>3
    <3>2. CASE k \notin u
      <4>1. u \in SUBSET (1 .. k - 1) /\ h[u] = g[u]
        BY <1>1, <3>2
      <4>2. g[u] = IF u = {} THEN <<>> ELSE LET x == Max(u) IN Keep(g[u \ {x}], s[x])
        BY <2>2, <4>1 DEF Keeps
      <4>3. \A x : h[u \ {x}] = g[u \ {x}]
        BY <3>2
      <4> HIDE DEF h
      <4>4. QED
        BY <4>1, <4>2, <4>3
    <3>3. QED
      BY <3>1, <3>2
  <2>4. h = [u \in SUBSET (1 .. k) |-> h[u]]
    OBVIOUS
  <2> HIDE DEF h
  <2>5. Keeps(s, 1 .. k, h)
    BY <2>3, <2>4 DEF Keeps
  <2>6. QED
    BY <2>5
<1>4. QED
  BY <1>2, <1>3

\* NotEmpty, message by message.
LEMMA NotEmptyIs ==
    ASSUME NEW s, IsSeq(s)
    PROVE  /\ NotEmpty(s) = Present(s, Len(s))
           /\ Present(s, 0) = <<>>
           /\ \A k \in 1 .. Len(s) : Present(s, k) = Keep(Present(s, k - 1), s[k])
<1>1. DOMAIN s = 1 .. Len(s) /\ Len(s) \in Nat
  BY DEF IsSeq
<1>2. \E f : Keeps(s, 1 .. Len(s), f)
  BY <1>1, KeepsExists
<1> DEFINE f == Keeping(s)
<1>3. Keeps(s, 1 .. Len(s), f)
  BY <1>1, <1>2 DEF Keeping
<1>4. NotEmpty(s) = f[DOMAIN s]
  BY DEF NotEmpty, FoldLeft, MapThenFoldSet, Keeping, Keeps, Keep
<1>5. NotEmpty(s) = Present(s, Len(s))
  BY <1>1, <1>4 DEF Present
<1> HIDE DEF f
<1>6. f[{}] = <<>> /\ 1 .. 0 = {}
  BY <1>3 DEF Keeps
<1>7. ASSUME NEW k \in 1 .. Len(s)
      PROVE  f[1 .. k] = Keep(f[1 .. k - 1], s[k])
  <2>1. k \in Nat /\ k >= 1 /\ k <= Len(s)
    BY <1>1
  <2>2. k \in 1 .. k /\ 1 .. k \in SUBSET (1 .. Len(s))
    BY <1>1, <2>1
  <2>3. (1 .. k) \ {k} = 1 .. k - 1
    BY <2>1
  <2>4. Max(1 .. k) = k
    BY <2>1, <2>2, MaxIs
  <2>5. f[1 .. k] = Keep(f[(1 .. k) \ {Max(1 .. k)}], s[Max(1 .. k)])
    <3>1. 1 .. k # {}
      BY <2>2
    <3>2. QED
      BY <1>3, <2>2, <3>1 DEF Keeps
  <2>6. QED
    BY <2>3, <2>4, <2>5
<1>8. QED
  BY <1>5, <1>6, <1>7 DEF Present, f

\* p holds the messages of the first k of s that are not empty, in their order: the i-th
\* of p is the f[i]-th of s.
Thins(s, k, p, f) ==
    /\ IsSeq(p) /\ p \in Seq({s[i] : i \in 1 .. Len(s)})
    /\ \A i \in 1 .. Len(p) : /\ f[i] \in 1 .. k /\ p[i] = s[f[i]]
                              /\ EstimateMessageTokens(s[f[i]]) > 0
    /\ \A i, j \in 1 .. Len(p) : i < j => f[i] < f[j]
    /\ \A j \in 1 .. k : EstimateMessageTokens(s[j]) > 0 => \E i \in 1 .. Len(p) : f[i] = j

\* One message more.
LEMMA ThinsOn ==
    ASSUME NEW s, IsSeq(s), NEW k \in 1 .. Len(s), NEW p, NEW f, Thins(s, k - 1, p, f)
    PROVE  \E g : Thins(s, k, Keep(p, s[k]), g)
<1>1. k \in Nat /\ k >= 1 /\ k - 1 \in Nat /\ Len(s) \in Nat /\ Len(p) \in Nat
  BY DEF IsSeq, Thins
<1>2. CASE ~(EstimateMessageTokens(s[k]) > 0)
  <2>1. Keep(p, s[k]) = p
    BY <1>2 DEF Keep
  <2>2. \A j \in 1 .. k : j \in 1 .. k - 1 \/ j = k
    BY <1>1
  <2>3. \A j \in 1 .. k - 1 : j \in 1 .. k
    BY <1>1
  <2>4. Thins(s, k, p, f)
    BY <1>2, <2>2, <2>3 DEF Thins
  <2>5. QED
    BY <2>1, <2>4
<1>3. CASE EstimateMessageTokens(s[k]) > 0
  <2> DEFINE q == Append(p, s[k])
             n == Len(p)
             S == {s[i] : i \in 1 .. Len(s)}
             g == [i \in 1 .. n + 1 |-> IF i = n + 1 THEN k ELSE f[i]]
  <2>1. Keep(p, s[k]) = q
    BY <1>3 DEF Keep
  <2>2. p \in Seq(S) /\ s[k] \in S
    BY DEF Thins
  <2> HIDE DEF S
  <2>3. q \in Seq(S) /\ Len(q) = n + 1 /\ q[n + 1] = s[k] /\ \A i \in 1 .. n : q[i] = p[i]
    BY <2>2, AppendProperties
  <2>4. IsSeq(q)
    BY <1>1, <2>3, LenProperties DEF IsSeq
  <2> HIDE DEF q
  <2>5. \A i \in 1 .. n + 1 : i \in 1 .. n \/ i = n + 1
    BY <1>1
  <2>6. n + 1 \in 1 .. n + 1 /\ g[n + 1] = k /\ \A i \in 1 .. n : i \in 1 .. n + 1 /\ i # n + 1 /\ g[i] = f[i]
    BY <1>1
  <2> HIDE DEF g
  <2>7. \A i \in 1 .. n : f[i] \in 1 .. k - 1 /\ f[i] \in 1 .. k /\ f[i] < k
    BY <1>1 DEF Thins
  <2>8. ASSUME NEW i \in 1 .. n + 1
        PROVE  g[i] \in 1 .. k /\ q[i] = s[g[i]] /\ EstimateMessageTokens(s[g[i]]) > 0
    <3>1. CASE i = n + 1
      <4>1. k \in 1 .. k
        BY <1>1
      <4>2. QED
        BY <1>3, <2>3, <2>6, <3>1, <4>1
    <3>2. CASE i \in 1 .. n
      BY <2>3, <2>6, <2>7, <3>2 DEF Thins
    <3>3. QED
      BY <2>5, <3>1, <3>2
  <2>9. ASSUME NEW i \in 1 .. n + 1, NEW j \in 1 .. n + 1, i < j
        PROVE  g[i] < g[j]
    <3>1. i \in 1 .. n
      BY <1>1, <2>9
    <3>2. CASE j = n + 1
      BY <2>6, <2>7, <3>1, <3>2
    <3>3. CASE j \in 1 .. n
      <4>1. f[i] < f[j]
        BY <2>9, <3>1, <3>3 DEF Thins
      <4>2. QED
        BY <2>6, <3>1, <3>3, <4>1
    <3>4. QED
      BY <2>5, <3>2, <3>3
  <2>10. ASSUME NEW j \in 1 .. k, EstimateMessageTokens(s[j]) > 0
         PROVE  \E i \in 1 .. n + 1 : g[i] = j
    <3>1. CASE j = k
      BY <2>6, <3>1
    <3>2. CASE j # k
      <4>1. j \in 1 .. k - 1
        BY <1>1, <3>2
      <4>2. PICK i \in 1 .. n : f[i] = j
        BY <2>10, <4>1 DEF Thins
      <4>3. QED
        BY <2>6, <4>2
    <3>3. QED
      BY <3>1, <3>2
  <2>11. Thins(s, k, q, g)
    BY <2>3, <2>4, <2>8, <2>9, <2>10 DEF Thins, S
  <2>12. QED
    BY <2>1, <2>11
<1>4. QED
  BY <1>2, <1>3

\* NotEmpty leaves out what is empty, and nothing else.
LEMMA NotEmptyThins ==
    ASSUME NEW s, IsSeq(s)
    PROVE  \E f : Thins(s, Len(s), NotEmpty(s), f)
<1> DEFINE Bad == {k \in Nat : k <= Len(s) /\ ~\E f : Thins(s, k, Present(s, k), f)}
<1>1. Len(s) \in Nat
  BY DEF IsSeq
<1>2. ASSUME Bad # {} PROVE FALSE
  <2>1. PICK k \in Bad : \A j \in Bad : k <= j
    BY <1>2, Least
  <2>2. CASE k = 0
    <3>1. Len(<<>>) = 0 /\ <<>> \in Seq({s[i] : i \in 1 .. Len(s)}) /\ 1 .. 0 = {}
      BY EmptySeq
    <3>2. IsSeq(<<>>)
      BY <3>1 DEF IsSeq
    <3>3. Thins(s, 0, <<>>, <<>>)
      BY <3>1, <3>2 DEF Thins
    <3>4. QED
      BY <2>1, <2>2, <3>3, NotEmptyIs
  <2>3. CASE k # 0
    <3>1. k \in 1 .. Len(s) /\ k - 1 \in Nat /\ k - 1 <= Len(s) /\ k - 1 \notin Bad
      BY <1>1, <2>1, <2>3
    <3>2. PICK f : Thins(s, k - 1, Present(s, k - 1), f)
      BY <3>1
    <3>3. \E g : Thins(s, k, Keep(Present(s, k - 1), s[k]), g)
      BY <3>1, <3>2, ThinsOn
    <3>4. Present(s, k) = Keep(Present(s, k - 1), s[k])
      BY <3>1, NotEmptyIs
    <3>5. QED
      BY <2>1, <3>3, <3>4
  <2>4. QED
    BY <2>2, <2>3
<1>3. Len(s) \notin Bad
  BY <1>2
<1>4. QED
  BY <1>1, <1>3, NotEmptyIs

\* Messages of a conversation that is being cut.
Estimating(s) == IsSeq(s) /\ \A i \in 1 .. Len(s) : Estimated(s[i])

\* Pairs survive the removal of what is empty.
LEMMA NotEmptyPairs ==
    ASSUME NEW s, Estimating(s), Paired(s)
    PROVE  /\ IsSeq(NotEmpty(s)) /\ Paired(NotEmpty(s))
           /\ \A i \in 1 .. Len(NotEmpty(s)) : \E j \in 1 .. Len(s) : NotEmpty(s)[i] = s[j]
           /\ Len(s) = 0 => Len(NotEmpty(s)) = 0
           /\ Len(s) > 0 /\ s[Len(s)].text
                  => Len(NotEmpty(s)) > 0 /\ NotEmpty(s)[Len(NotEmpty(s))] = s[Len(s)]
<1> DEFINE p == NotEmpty(s)
           n == Len(p)
<1>1. IsSeq(s) /\ DOMAIN s = 1 .. Len(s) /\ Len(s) \in Nat
  BY DEF Estimating, IsSeq
<1>2. PICK f : Thins(s, Len(s), p, f)
  BY <1>1, NotEmptyThins
<1> HIDE DEF p
<1>3. IsSeq(p) /\ n \in Nat /\ DOMAIN p = 1 .. n
  BY <1>2 DEF Thins, IsSeq
<1>4. \A i \in 1 .. n : f[i] \in 1 .. Len(s) /\ p[i] = s[f[i]]
  BY <1>2 DEF Thins
<1>5. \A j \in 1 .. Len(s) : s[j].text \/ s[j].calls # {} \/ s[j].results # {}
                                => \E i \in 1 .. n : f[i] = j
  BY <1>2, TokensAre DEF Thins, Estimating
<1>6. \A i, j \in 1 .. n : f[i] < f[j] => i < j
  <2> SUFFICES ASSUME NEW i \in 1 .. n, NEW j \in 1 .. n, f[i] < f[j] PROVE i < j
    OBVIOUS
  <2>1. f[i] \in Nat /\ f[j] \in Nat /\ i \in Nat /\ j \in Nat
    BY <1>1, <1>3, <1>4
  <2>2. i # j
    BY <2>1
  <2>3. ~(j < i)
    <3>1. j < i => f[j] < f[i]
      BY <1>2 DEF Thins
    <3>2. QED
      BY <2>1, <3>1
  <2>4. QED
    BY <2>1, <2>2, <2>3
<1>7. ASSUME NEW i \in 1 .. n, NEW c \in p[i].calls
      PROVE  \E j \in 1 .. n : j > i /\ c \in p[j].results
  <2>1. f[i] \in DOMAIN s /\ c \in s[f[i]].calls
    BY <1>1, <1>4
  <2>2. PICK k \in DOMAIN s : k > f[i] /\ c \in s[k].results
    BY <2>1 DEF Paired
  <2>3. PICK j \in 1 .. n : f[j] = k
    BY <1>1, <1>5, <2>2
  <2>4. c \in p[j].results /\ f[i] < f[j]
    BY <1>1, <1>4, <2>1, <2>2, <2>3
  <2>5. i < j
    BY <1>6, <2>4
  <2>6. i \in Nat /\ j \in Nat
    BY <1>3
  <2>7. QED
    BY <2>4, <2>5, <2>6
<1>8. ASSUME NEW j \in 1 .. n, NEW c \in p[j].results
      PROVE  \E i \in 1 .. n : i < j /\ c \in p[i].calls
  <2>1. f[j] \in DOMAIN s /\ c \in s[f[j]].results
    BY <1>1, <1>4
  <2>2. PICK k \in DOMAIN s : k < f[j] /\ c \in s[k].calls
    BY <2>1 DEF Paired
  <2>3. PICK i \in 1 .. n : f[i] = k
    BY <1>1, <1>5, <2>2
  <2>4. QED
    BY <1>4, <1>6, <2>2, <2>3
<1>9. Paired(p)
  BY <1>3, <1>7, <1>8 DEF Paired
<1>10. Len(s) = 0 => n = 0
  <2>1. Len(s) = 0 => 1 .. Len(s) = {}
    BY <1>1
  <2>2. n # 0 => 1 \in 1 .. n
    BY <1>3
  <2>3. QED
    BY <1>4, <2>1, <2>2
<1>11. ASSUME Len(s) > 0, s[Len(s)].text PROVE n > 0 /\ p[n] = s[Len(s)]
  <2>1. Len(s) \in 1 .. Len(s)
    BY <1>1, <1>11
  <2>2. PICK i \in 1 .. n : f[i] = Len(s)
    BY <1>5, <1>11, <2>1
  <2>3. n \in Nat /\ i \in Nat /\ i <= n /\ n > 0 /\ n \in 1 .. n
    BY <1>3, <2>2
  <2>4. ~(i < n)
    <3>1. f[n] \in 1 .. Len(s) /\ (i < n => f[i] < f[n])
      BY <1>2, <1>4, <2>3 DEF Thins
    <3>2. ~(Len(s) < f[n])
      BY <1>1, <3>1
    <3>3. QED
      BY <2>2, <3>1, <3>2
  <2> HIDE DEF n
  <2>5. i = n
    BY <2>3, <2>4
  <2>6. QED
    BY <1>4, <2>2, <2>3, <2>5
<1>12. QED
  BY <1>3, <1>4, <1>9, <1>10, <1>11 DEF p

\* What is submitted, message by message.
LEMMA SubmittedIs ==
    ASSUME NEW msgs, Submitted(msgs)
    PROVE  /\ IsSeq(msgs) /\ Len(msgs) > 0
           /\ msgs[Len(msgs)].role = "user" /\ msgs[Len(msgs)].text
           /\ \A i \in 1 .. Len(msgs) : /\ Estimated(msgs[i])
                                        /\ msgs[i] \in Message(Calls(msgs) \cup Results(msgs))
                                        /\ msgs[i].results # {} => msgs[i].calls = {}
           /\ \A i, j \in 1 .. Len(msgs) : msgs[i].calls \cap msgs[j].results # {} => i < j
<1> DEFINE ids == Calls(msgs) \cup Results(msgs)
           M == Message(ids)
<1>1. msgs \in Seq(M) /\ IsFiniteSet(ids) /\ msgs # <<>>
  BY DEF Submitted
<1>2. /\ Last(msgs).role = "user" /\ Last(msgs).text
      /\ \A i, j \in DOMAIN msgs : msgs[i].calls \cap msgs[j].results # {} => i < j
  BY DEF Submitted
<1>3. ASSUME NEW i \in DOMAIN msgs, msgs[i].results # {} PROVE msgs[i].calls = {}
  <2>1. \A j \in DOMAIN msgs : /\ msgs[j].calls # {} => msgs[j].role = "assistant"
                               /\ msgs[j].results # {} => msgs[j].role = "user"
    BY Zenon DEF Submitted
  <2>2. "user" # "assistant"
    OBVIOUS
  <2>3. QED
    BY <1>3, <2>1, <2>2
<1> HIDE DEF ids
<1>4. \A m \in M : Estimated(m)
  <2> SUFFICES ASSUME NEW m \in M PROVE Estimated(m)
    OBVIOUS
  <2>1. m.text \in BOOLEAN /\ m.calls \in SUBSET ids /\ m.results \in SUBSET ids
    BY DEF Message
  <2>2. IsFiniteSet(m.calls) /\ IsFiniteSet(m.results)
    BY <1>1, <2>1, FS_Subset
  <2>3. QED
    BY <2>1, <2>2 DEF Estimated
<1> HIDE DEF M
<1>5. Len(msgs) \in Nat \ {0} /\ DOMAIN msgs = 1 .. Len(msgs)
      /\ \A i \in 1 .. Len(msgs) : msgs[i] \in M
  BY <1>1, EmptySeq, LenProperties, ElementOfSeq
<1>6. Last(msgs) = msgs[Len(msgs)]
  BY DEF Last
<1>7. IsSeq(msgs) /\ Len(msgs) > 0
  BY <1>5 DEF IsSeq
<1>8. \A i \in 1 .. Len(msgs) : Estimated(msgs[i]) /\ msgs[i] \in Message(Calls(msgs) \cup Results(msgs))
  BY <1>4, <1>5 DEF M, ids
<1>9. /\ \A i, j \in 1 .. Len(msgs) : msgs[i].calls \cap msgs[j].results # {} => i < j
      /\ \A i \in 1 .. Len(msgs) : msgs[i].results # {} => msgs[i].calls = {}
  BY <1>2, <1>3, <1>5
<1>10. QED
  BY <1>2, <1>6, <1>7, <1>8, <1>9

\* Both sides are filtered by what they were before.
LEMMA ReconcileIs ==
    ASSUME NEW s, IsSeq(s), \A i \in 1 .. Len(s) : Estimated(s[i]), NEW ids,
           \A i \in 1 .. Len(s) : s[i] \in Message(ids)
    PROVE  /\ IsSeq(Reconcile(s)) /\ Len(Reconcile(s)) = Len(s)
           /\ \A i \in 1 .. Len(s) :
                /\ Reconcile(s)[i] \in Message(ids)
                /\ Reconcile(s)[i].role = s[i].role /\ Reconcile(s)[i].text = s[i].text
                /\ Reconcile(s)[i].calls = s[i].calls \cap Results(s)
                /\ Reconcile(s)[i].results = s[i].results \cap Calls(s)
<1> DEFINE C == Calls(s)
           R == Results(s)
           F(m) == [m EXCEPT !.results = m.results \cap C, !.calls = m.calls \cap R]
           n == Len(s)
<1>1. Reconcile(s) = [i \in 1 .. n |-> F(s[i])] /\ n \in Nat
  BY DEF Reconcile, IsSeq
<1> HIDE DEF C, R, n
<1>2. ASSUME NEW m \in Message(ids)
      PROVE  /\ F(m) \in Message(ids) /\ F(m).role = m.role /\ F(m).text = m.text
             /\ F(m).calls = m.calls \cap R /\ F(m).results = m.results \cap C
  <2>1. F(m) = [[m EXCEPT !.results = m.results \cap C] EXCEPT !.calls = m.calls \cap R]
    OBVIOUS
  <2> DEFINE a == m.results \cap C
             b == m.calls \cap R
             X(x, y) == [role |-> m.role, text |-> m.text, calls |-> y, results |-> x]
  <2> HIDE DEF a, b
  <2>2. [m EXCEPT !.results = a] = X(a, m.calls)
    BY DEF Message
  <2>3. [X(a, m.calls) EXCEPT !.calls = b] = X(a, b)
    OBVIOUS
  <2>4. F(m) = X(a, b)
    BY <2>1, <2>2, <2>3 DEF a, b
  <2>5. X(a, b) \in Message(ids)
    BY DEF Message, a, b
  <2> HIDE DEF F
  <2>6. QED
    BY <2>4, <2>5 DEF a, b
<1> HIDE DEF F
<1>3. \A i \in 1 .. n : Reconcile(s)[i] = F(s[i])
  BY <1>1
<1>4. DOMAIN Reconcile(s) = 1 .. n
  BY <1>1
<1>5. Len(Reconcile(s)) = n
  BY <1>1
<1>6. QED
  BY <1>1, <1>2, <1>3, <1>4, <1>5 DEF IsSeq, n, C, R

\* The end of a conversation, its pairs reconciled: what is left is paired, and ends with
\* what the user has just said.
LEMMA ReconcilePairs ==
    ASSUME NEW msgs, Submitted(msgs), NEW c \in 1 .. Len(msgs) + 1
    PROVE  LET s == Reconcile(SubSeq(msgs, c, Len(msgs)))
           IN  /\ Estimating(s) /\ Paired(s)
               /\ \A i \in 1 .. Len(s) : /\ s[i] \in Message(Calls(msgs) \cup Results(msgs))
                                         /\ s[i].results # {} => s[i].calls = {}
               /\ Len(s) > 0 => /\ s[Len(s)].role = "user" /\ s[Len(s)].text
                                /\ s[Len(s)].results \subseteq msgs[Len(msgs)].results
<1> DEFINE N == Len(msgs)
           sub == SubSeq(msgs, c, N)
           s == Reconcile(sub)
           n == Len(sub)
           ids == Calls(msgs) \cup Results(msgs)
<1>1. /\ IsSeq(msgs) /\ N > 0 /\ msgs[N].role = "user" /\ msgs[N].text
      /\ \A i \in 1 .. N : /\ Estimated(msgs[i]) /\ msgs[i] \in Message(ids)
                           /\ msgs[i].results # {} => msgs[i].calls = {}
      /\ \A i, j \in 1 .. N : msgs[i].calls \cap msgs[j].results # {} => i < j
  BY SubmittedIs
<1> HIDE DEF ids
<1>2. N \in Nat /\ c \in Nat /\ c >= 1 /\ c <= N + 1 /\ N \in Int /\ c \in Int
  BY <1>1 DEF IsSeq
<1>3. \A i \in c .. N : msgs[i] \in Message(ids)
  BY <1>1, <1>2
<1> HIDE DEF N
<1>4. /\ sub \in Seq(Message(ids)) /\ n = (IF c <= N THEN N - c + 1 ELSE 0)
      /\ \A i \in 1 .. N - c + 1 : sub[i] = msgs[c + i - 1]
  BY <1>2, <1>3, SubSeqProperties
<1>5. n \in Nat /\ n = N - c + 1 /\ IsSeq(sub)
  <2>1. n \in Nat /\ DOMAIN sub = 1 .. n
    BY <1>4, LenProperties
  <2>2. n = N - c + 1
    BY <1>2, <1>4
  <2>3. QED
    BY <2>1, <2>2 DEF IsSeq
<1> HIDE DEF sub, n
<1>6. \A i \in 1 .. n : c + i - 1 \in 1 .. N /\ sub[i] = msgs[c + i - 1]
  BY <1>2, <1>4, <1>5
<1>7. \A i \in 1 .. n : /\ Estimated(sub[i]) /\ sub[i] \in Message(ids)
                        /\ sub[i].results # {} => sub[i].calls = {}
  BY <1>1, <1>6
<1>8. /\ IsSeq(s) /\ Len(s) = n
      /\ \A i \in 1 .. n : /\ s[i] \in Message(ids)
                           /\ s[i].role = sub[i].role /\ s[i].text = sub[i].text
                           /\ s[i].calls = sub[i].calls \cap Results(sub)
                           /\ s[i].results = sub[i].results \cap Calls(sub)
  BY <1>5, <1>7, ReconcileIs DEF n
<1> HIDE DEF s
<1>9. \A i \in 1 .. n : Estimated(s[i])
  <2> SUFFICES ASSUME NEW i \in 1 .. n PROVE Estimated(s[i])
    OBVIOUS
  <2>1. IsFiniteSet(s[i].calls) /\ IsFiniteSet(s[i].results)
    <3>1. IsFiniteSet(sub[i].calls) /\ IsFiniteSet(sub[i].results)
      BY <1>7 DEF Estimated
    <3>2. s[i].calls \in SUBSET sub[i].calls /\ s[i].results \in SUBSET sub[i].results
      BY <1>8
    <3>3. QED
      BY <3>1, <3>2, FS_Subset
  <2>2. QED
    BY <1>7, <1>8, <2>1 DEF Estimated
<1>10. DOMAIN sub = 1 .. n /\ DOMAIN s = 1 .. n
  BY <1>5, <1>8 DEF IsSeq, n
<1>11. ASSUME NEW i \in 1 .. n, NEW j \in 1 .. n, NEW x, x \in sub[i].calls, x \in sub[j].results
       PROVE  i < j
  <2>1. c + i - 1 \in 1 .. N /\ c + j - 1 \in 1 .. N
        /\ x \in msgs[c + i - 1].calls /\ x \in msgs[c + j - 1].results
    BY <1>6, <1>11
  <2>2. c + i - 1 < c + j - 1
    BY <1>1, <2>1 DEF N
  <2>3. i \in Nat /\ j \in Nat
    BY <1>5
  <2>4. QED
    BY <1>2, <2>2, <2>3
<1>12. ASSUME NEW i \in 1 .. n, NEW x \in s[i].calls
       PROVE  \E j \in 1 .. n : j > i /\ x \in s[j].results
  <2>1. x \in sub[i].calls /\ x \in Results(sub)
    BY <1>8
  <2>2. PICK j \in 1 .. n : x \in sub[j].results
    BY <1>10, <2>1 DEF Results
  <2>3. x \in Calls(sub)
    BY <1>10, <2>1 DEF Calls
  <2>4. x \in s[j].results /\ i < j
    BY <1>8, <1>11, <2>1, <2>2, <2>3
  <2>5. i \in Nat /\ j \in Nat
    BY <1>5
  <2>6. QED
    BY <2>4, <2>5
<1>13. ASSUME NEW j \in 1 .. n, NEW x \in s[j].results
       PROVE  \E i \in 1 .. n : i < j /\ x \in s[i].calls
  <2>1. x \in sub[j].results /\ x \in Calls(sub)
    BY <1>8
  <2>2. PICK i \in 1 .. n : x \in sub[i].calls
    BY <1>10, <2>1 DEF Calls
  <2>3. x \in Results(sub)
    BY <1>10, <2>1 DEF Results
  <2>4. QED
    BY <1>8, <1>11, <2>1, <2>2, <2>3
<1>14. Paired(s)
  BY <1>10, <1>12, <1>13 DEF Paired
<1>15. n > 0 => s[n].role = "user" /\ s[n].text /\ s[n].results \subseteq msgs[N].results
  <2>1. n > 0 => n \in 1 .. n /\ c + n - 1 = N
    BY <1>2, <1>5
  <2>2. n > 0 => sub[n] = msgs[N]
    BY <1>6, <2>1
  <2>3. QED
    BY <1>1, <1>8, <2>1, <2>2 DEF N
<1>16. \A i \in 1 .. n : s[i].results # {} => s[i].calls = {}
  BY <1>7, <1>8
<1>17. QED
  BY <1>8, <1>9, <1>14, <1>15, <1>16 DEF Estimating, s, sub, N, ids

\* The window starts somewhere, at the end of the conversation if nothing fits.
LEMMA CutoffExists ==
    ASSUME NEW msgs, IsSeq(msgs), NEW window \in Nat
    PROVE  Min({i \in 1 .. Len(msgs) + 1 : TokensFrom(msgs, i) <= window}) \in 1 .. Len(msgs) + 1
<1> DEFINE N == Len(msgs)
           S == {i \in 1 .. N + 1 : TokensFrom(msgs, i) <= window}
<1>1. N \in Nat /\ N + 1 \in 1 .. N + 1
  BY DEF IsSeq
<1>2. TokensFrom(msgs, N + 1) = 0
  <2>1. SubSeq(msgs, N + 1, N) = <<>>
    BY <1>1, SubSeqEmpty
  <2>2. DOMAIN <<>> = {} /\ SUBSET {} = {{}}
    OBVIOUS
  <2>3. FoldLeft(LAMBDA k, m : k + EstimateMessageTokens(m), 0, <<>>) = 0
    BY <2>2 DEF FoldLeft, MapThenFoldSet
  <2>4. QED
    BY <2>1, <2>3 DEF TokensFrom
<1>3. N + 1 \in S
  BY <1>1, <1>2
<1>4. S \in SUBSET Nat /\ S # {}
  BY <1>1, <1>3
<1>5. \E x \in S : \A y \in S : x <= y
  BY <1>4, Least
<1>6. Min(S) \in S
  BY <1>5 DEF Min
<1>7. QED
  BY <1>6

\* A message of the user with text, and with no results but those of another.
Says(m, said) == m.role = "user" /\ m.text /\ m.results \subseteq said.results

\* Truncate.
LEMMA CutIsPaired ==
    ASSUME NEW msgs, Submitted(msgs), NEW window \in Nat
    PROVE  /\ IsSeq(Cut(msgs, window)) /\ Paired(Cut(msgs, window))
           /\ \A i \in 1 .. Len(Cut(msgs, window)) :
                 /\ Cut(msgs, window)[i] \in Message(Calls(msgs) \cup Results(msgs))
                 /\ Cut(msgs, window)[i].results # {} => Cut(msgs, window)[i].calls = {}
           /\ Len(Cut(msgs, window)) > 0
                  => Says(Cut(msgs, window)[Len(Cut(msgs, window))], msgs[Len(msgs)])
<1> DEFINE cutoff == Min({i \in 1 .. Len(msgs) + 1 : TokensFrom(msgs, i) <= window})
           s == Reconcile(SubSeq(msgs, cutoff, Len(msgs)))
           p == NotEmpty(s)
           M == Message(Calls(msgs) \cup Results(msgs))
<1>1. cutoff \in 1 .. Len(msgs) + 1
  BY SubmittedIs, CutoffExists
<1>2. Cut(msgs, window) = IF \E i \in DOMAIN p : p[i].role = "user" THEN p ELSE <<>>
  BY DEF Cut
<1> HIDE DEF cutoff
<1>3. /\ Estimating(s) /\ Paired(s)
      /\ Len(s) > 0 => s[Len(s)].text /\ Says(s[Len(s)], msgs[Len(msgs)])
      /\ \A i \in 1 .. Len(s) : s[i] \in M /\ (s[i].results # {} => s[i].calls = {})
  BY <1>1, ReconcilePairs DEF Says
<1> HIDE DEF s, M
<1>4. Len(s) \in Nat
  BY <1>3 DEF Estimating, IsSeq
<1>5. /\ IsSeq(p) /\ Paired(p)
      /\ Len(s) = 0 => Len(p) = 0
      /\ \A i \in 1 .. Len(p) : \E j \in 1 .. Len(s) : p[i] = s[j]
      /\ Len(s) > 0 /\ s[Len(s)].text => Len(p) > 0 /\ p[Len(p)] = s[Len(s)]
  BY <1>3, NotEmptyPairs
<1> HIDE DEF p
<1>6. Len(p) > 0 => Says(p[Len(p)], msgs[Len(msgs)])
  <2>1. CASE Len(s) = 0
    BY <1>5, <2>1
  <2>2. CASE Len(s) > 0
    BY <1>3, <1>5, <2>2
  <2>3. QED
    BY <1>4, <2>1, <2>2
<1>7. Len(<<>>) = 0 /\ DOMAIN <<>> = {}
  OBVIOUS
<1>8. IsSeq(<<>>) /\ Paired(<<>>) /\ ~(Len(<<>>) > 0)
  <2>1. 1 .. 0 = {}
    OBVIOUS
  <2>2. QED
    BY <1>7, <2>1 DEF IsSeq, Paired
<1>9. CASE Cut(msgs, window) = p
  <2>1. \A i \in 1 .. Len(p) : p[i] \in M /\ (p[i].results # {} => p[i].calls = {})
    BY <1>3, <1>5
  <2>2. QED
    BY <1>5, <1>6, <1>9, <2>1 DEF M
<1>10. CASE Cut(msgs, window) = <<>>
  <2>1. 1 .. Len(<<>>) = {}
    BY <1>7
  <2>2. QED
    BY <1>8, <1>10, <2>1
<1>11. QED
  BY <1>2, <1>9, <1>10

\* OpenAI's format keeps the calls and the results of a message that has not both, and
\* a message without results as it is.
LEMMA OpenAIKeeps ==
    ASSUME NEW ids, NEW m \in Message(ids), m.results # {} => m.calls = {}
    PROVE  /\ FormatOpenAI(m).calls = m.calls /\ FormatOpenAI(m).results = m.results
           /\ FormatOpenAI(m) = m \/ (m.results # {} /\ FormatOpenAI(m).role = "tool")
<1>1. CASE m.results # {}
  BY <1>1 DEF FormatOpenAI
<1>2. CASE m.results = {}
  BY <1>2 DEF FormatOpenAI
<1>3. QED
  BY <1>1, <1>2

\* Ollama's has no calls and no results.
LEMMA OllamaKeeps ==
    ASSUME NEW ids, NEW m \in Message(ids)
    PROVE  /\ FormatOllama(m).role = m.role /\ (m.text => FormatOllama(m).text)
           /\ FormatOllama(m).calls = {} /\ FormatOllama(m).results = {}
<1> DEFINE t == m.text \/ m.results # {}
           X(b, c, d) == [role |-> m.role, text |-> b, calls |-> c, results |-> d]
<1>1. FormatOllama(m) = [m EXCEPT !.calls = {}, !.results = {}, !.text = t]
  BY DEF FormatOllama
<1>2. m.text => t
  OBVIOUS
<1> HIDE DEF t
<1>3. [m EXCEPT !.calls = {}, !.results = {}, !.text = t] =
          [[[m EXCEPT !.calls = {}] EXCEPT !.results = {}] EXCEPT !.text = t]
  OBVIOUS
<1>4. [m EXCEPT !.calls = {}] = X(m.text, {}, m.results)
  BY DEF Message
<1>5. [X(m.text, {}, m.results) EXCEPT !.results = {}] = X(m.text, {}, {})
  OBVIOUS
<1>6. [X(m.text, {}, {}) EXCEPT !.text = t] = X(t, {}, {})
  OBVIOUS
<1>7. FormatOllama(m) = X(t, {}, {})
  BY <1>1, <1>3, <1>4, <1>5, <1>6
<1>8. QED
  BY <1>2, <1>7

\* The adapters' formats keep the calls and results together, and what the last message
\* says; OpenAI's may keep only the results it answers with.
LEMMA FormatKeepsPairs ==
    ASSUME NEW type \in ProviderType, NEW c, Submitted(c), NEW w \in Nat, w > 0
    PROVE  /\ Paired(FormatMessages(type, c, w))
           /\ FormatMessages(type, c, w) # <<>>
                => LET m == Last(FormatMessages(type, c, w)) IN
                   \/ m.role = "user" /\ m.text
                   \/ type = "openai" /\ Last(c).results # {} /\ m.role = "tool"
<1> DEFINE k == Cut(c, w)
           n == Len(k)
           ids == Calls(c) \cup Results(c)
           F(m) == CASE type = "anthropic" -> FormatAnthropic(m)
                     [] type = "openai"    -> FormatOpenAI(m)
                     [] type = "ollama"    -> FormatOllama(m)
           p == FormatMessages(type, c, w)
<1>1. /\ IsSeq(k) /\ Paired(k)
      /\ n > 0 => Says(k[n], Last(c))
      /\ \A i \in 1 .. n : k[i] \in Message(ids) /\ (k[i].results # {} => k[i].calls = {})
  BY CutIsPaired DEF Last
<1>2. p = [i \in DOMAIN k |-> F(k[i])]
  <2>1. Truncate(c, w) = k
    BY DEF Truncate
  <2> HIDE DEF k
  <2>2. QED
    BY <2>1 DEF FormatMessages
<1> HIDE DEF k, p, ids
<1>3. /\ type = "anthropic" => \A m : F(m) = m
      /\ type = "openai" => \A m : F(m) = FormatOpenAI(m)
      /\ type = "ollama" => \A m : F(m) = FormatOllama(m)
  BY DEF FormatAnthropic
<1> HIDE DEF F
<1>4. n \in Nat /\ DOMAIN k = 1 .. n
  BY <1>1 DEF IsSeq
<1>5. DOMAIN p = 1 .. n /\ Len(p) = n /\ \A i \in 1 .. n : p[i] = F(k[i])
  <2>1. p = [i \in 1 .. n |-> F(k[i])]
    BY <1>2, <1>4
  <2> HIDE DEF n
  <2>2. QED
    BY <1>4, <2>1
<1> HIDE DEF n
<1>6. ASSUME NEW m \in Message(ids), Says(m, Last(c)), m.results # {} => m.calls = {}
      PROVE  \/ F(m).role = "user" /\ F(m).text
             \/ type = "openai" /\ Last(c).results # {} /\ F(m).role = "tool"
  <2> DEFINE said == Last(c)
  <2> HIDE DEF said
  <2>0. m.role = "user" /\ m.text /\ m.results \subseteq said.results
    BY <1>6 DEF Says, said
  <2>1. CASE type = "anthropic"
    BY <1>3, <2>0, <2>1
  <2>2. CASE type = "openai"
    <3>1. F(m) = m \/ (m.results # {} /\ F(m).role = "tool")
      BY <1>3, <1>6, <2>2, OpenAIKeeps
    <3>2. CASE F(m) = m
      BY <2>0, <3>2
    <3>3. CASE m.results # {} /\ F(m).role = "tool"
      <4>1. said.results # {}
        BY <2>0, <3>3
      <4>2. QED
        BY <2>2, <3>3, <4>1 DEF said
    <3>4. QED
      BY <3>1, <3>2, <3>3
  <2>3. CASE type = "ollama"
    BY <1>3, <2>0, <2>3, OllamaKeeps
  <2>4. QED
    BY <2>1, <2>2, <2>3 DEF ProviderType
<1>7. \/ \A i \in 1 .. n : F(k[i]).calls = k[i].calls /\ F(k[i]).results = k[i].results
      \/ \A i \in 1 .. n : F(k[i]).calls = {} /\ F(k[i]).results = {}
  <2>1. CASE type = "anthropic"
    BY <1>3, <2>1
  <2>2. CASE type = "openai"
    BY <1>1, <1>3, <2>2, OpenAIKeeps
  <2>3. CASE type = "ollama"
    BY <1>1, <1>3, <2>3, OllamaKeeps
  <2>4. QED
    BY <2>1, <2>2, <2>3 DEF ProviderType
<1>8. Paired(p)
  <2>1. CASE \A i \in 1 .. n : F(k[i]).calls = k[i].calls /\ F(k[i]).results = k[i].results
    <3>1. \A i \in 1 .. n : p[i].calls = k[i].calls /\ p[i].results = k[i].results
      BY <1>5, <2>1
    <3>2. QED
      BY <1>1, <1>4, <1>5, <3>1 DEF Paired
  <2>2. CASE \A i \in 1 .. n : F(k[i]).calls = {} /\ F(k[i]).results = {}
    BY <1>5, <2>2 DEF Paired
  <2>3. QED
    BY <1>7, <2>1, <2>2
<1>9. ASSUME p # <<>>
      PROVE  \/ Last(p).role = "user" /\ Last(p).text
             \/ type = "openai" /\ Last(c).results # {} /\ Last(p).role = "tool"
  <2>1. n # 0
    <3>1. ASSUME n = 0 PROVE FALSE
      <4>1. DOMAIN p = {}
        BY <1>5, <3>1
      <4>2. p = [i \in {} |-> F(k[i])]
        BY <1>2, <1>4, <1>5, <4>1
      <4>3. [i \in {} |-> F(k[i])] = <<>>
        OBVIOUS
      <4>4. QED
        BY <1>9, <4>2, <4>3
    <3>2. QED
      BY <3>1
  <2>2. n \in 1 .. n /\ n > 0
    BY <1>4, <2>1
  <2>3. k[n] \in Message(ids) /\ Says(k[n], Last(c)) /\ (k[n].results # {} => k[n].calls = {})
    BY <1>1, <2>2
  <2>4. Last(p) = F(k[n])
    BY <1>5, <2>2 DEF Last
  <2>5. QED
    BY <1>6, <2>3, <2>4
<1>10. QED
  BY <1>8, <1>9 DEF p

-----------------------------------------------------------------------------
(* The theorems *)

GatewayInv == SchemaInv /\ TotalsInv /\ RunsInv

\* Every step keeps the invariant.
LEMMA GatewayStep ==
    ASSUME GatewayInv, [Next]_vars
    PROVE  GatewayInv'
<1> USE DEF GatewayInv
<1>1. CASE StoreSteps
  <2>1. RunsInv'
    BY <1>1, RunsStay DEF StoreSteps, OpenStore, Migrate, MigrateToV1, MigrateToV1Version,
       MigrateToV2, MigrateToV3, CreateTables, MigrateToV4, Opened, RebuildMetrics
  <2>2. CASE \E p \in Process : OpenStore(p) \/ Migrate(p)
    <3>1. PICK p \in Process : OpenStore(p) \/ Migrate(p)
      BY <2>2
    <3>2. SchemaInv'
      BY <3>1, OpenStoreKeeps, MigrateKeeps
    <3>3. TotalsInv'
      BY <3>1, TotalsStay DEF OpenStore, Migrate, MigrateToV1, MigrateToV1Version,
         MigrateToV2, MigrateToV3, CreateTables, MigrateToV4, Opened
    <3>4. QED
      BY <2>1, <3>2, <3>3
  <2>3. CASE RebuildMetrics("cli")
    <3>1. SchemaInv'
      BY <2>3, SchemaStays DEF RebuildMetrics
    <3>2. TotalsInv'
      BY <2>3, RebuildKeeps
    <3>3. QED
      BY <2>1, <3>1, <3>2
  <2>4. QED
    BY <1>1, <2>2, <2>3 DEF StoreSteps
<1>2. CASE CommandEnds
  <2>1. SchemaInv'
    BY <1>2, CloseStoreKeeps DEF CommandEnds, Process
  <2>2. TotalsInv' /\ RunsInv'
    BY <1>2, TotalsStay, RunsStay DEF CommandEnds, CloseStore
  <2>3. QED
    BY <2>1, <2>2
<1>3. CASE Stop \/ Crash
  <2>1. Exit
    BY <1>3 DEF Stop, Crash
  <2>2. SchemaInv'
    BY <2>1, CloseStoreKeeps DEF Exit, Process
  <2>3. TotalsInv'
    BY <2>1, TotalsStay DEF Exit, CloseStore
  <2>4. RunsInv'
    BY <2>1, ExitKeeps
  <2>5. QED
    BY <2>2, <2>3, <2>4
<1>4. CASE \E c \in Client : ClientTraffic(c)
  <2>1. PICK c \in Client : ClientTraffic(c)
    BY <1>4
  <2>2. RunsInv' /\ TotalsInv'
    BY <2>1, ClientKeeps
  <2>3. SchemaInv'
    BY <2>1, SchemaStays DEF ClientTraffic, SaveRequest
  <2>4. QED
    BY <2>2, <2>3
<1>5. ASSUME NEW r \in Run, Save(r) PROVE GatewayInv'
  <2>1. RunsInv' /\ TotalsInv'
    BY <1>5, SaveRunKeeps
  <2>2. SchemaInv'
    BY <1>5, SchemaStays DEF Save, SaveRequest
  <2>3. QED
    BY <2>1, <2>2
<1>6. ASSUME UNCHANGED storeVars, RunsInv' PROVE GatewayInv'
  BY <1>6, SchemaStays, TotalsStay DEF storeVars
<1>7. CASE Serve \/ \E m \in Model \cup {None} : ModelSwitch(m)
  <2>1. UNCHANGED storeVars /\ UNCHANGED <<turn, exch>>
    BY <1>7 DEF Serve, ModelSwitch
  <2>2. RunsInv'
    BY <2>1, RunsStay DEF storeVars
  <2>3. QED
    BY <1>6, <2>1, <2>2
<1>8. CASE Signal
  <2>1. UNCHANGED storeVars /\ RunsInv'
    BY <1>8, SignalKeeps DEF Signal
  <2>2. QED
    BY <1>6, <2>1
<1>9. CASE \E r \in Run, mode \in DOMAIN Routing : TurnFails(r, mode) \/ Dispatch(r, mode)
  <2>1. PICK r \in Run, mode \in DOMAIN Routing : TurnFails(r, mode) \/ Dispatch(r, mode)
    BY <1>9
  <2>2. RunsInv'
    BY <2>1, TurnFailsKeeps, DispatchKeeps
  <2>3. UNCHANGED storeVars
    BY <2>1 DEF TurnFails, Failed, Dispatch
  <2>4. QED
    BY <1>6, <2>2, <2>3
<1>10. ASSUME NEW r \in Run, Answers(r) \/ DispatchFails(r) \/ Delivers(r) \/ ProviderEnds(r)
                             \/ ReadEvent(r)
       PROVE  GatewayInv'
  <2>1. RunsInv'
    BY <1>10, AnswersKeeps, DispatchFailsKeeps, DeliversKeeps, ProviderEndsKeeps, ReadEventKeeps
  <2>2. UNCHANGED storeVars
    BY <1>10 DEF Answers, DispatchFails, Failed, Delivers, ProviderEnds, ReadEvent
  <2>3. QED
    BY <1>6, <2>1, <2>2
<1>11. ASSUME NEW r \in Run, RelayCompletes(r) \/ RelayTimesOut(r) \/ RelayBreaks(r)
                             \/ RelayCancelled(r)
       PROVE  GatewayInv'
  <2>1. RunsInv'
    BY <1>11, RelayKeeps
  <2>2. UNCHANGED storeVars
    BY <1>11 DEF RelayCompletes, RelayTimesOut, RelayBreaks, RelayCancelled, LeaveLoop
  <2>3. QED
    BY <1>6, <2>1, <2>2
<1>12. ASSUME NEW r \in Run, Cancel(r) \/ Disconnects(r) \/ CopyEnds(r) \/ CopyAborts(r)
       PROVE  GatewayInv'
  <2>1. RunsInv'
    BY <1>12, CancelKeeps, CopyEndsKeeps, CopyAbortsKeeps
  <2>2. UNCHANGED storeVars
    BY <1>12 DEF Cancel, Disconnects, CopyEnds, CopyAborts
  <2>3. QED
    BY <1>6, <2>1, <2>2
<1>13. CASE UNCHANGED vars
  <2>1. UNCHANGED storeVars /\ UNCHANGED <<turn, exch>>
    BY <1>13 DEF vars
  <2>2. RunsInv'
    BY <2>1, RunsStay DEF storeVars
  <2>3. QED
    BY <1>6, <2>1, <2>2
<1>14. QED
  BY <1>1, <1>2, <1>3, <1>4, <1>5, <1>7, <1>8, <1>9, <1>10, <1>11, <1>12, <1>13 DEF Next

\* The types of the store, the turns and their exchanges, and what relates them: the
\* tables of a process that migrates, the totals and the rows, and for each run how far
\* the proxy and the relay are in its stream and what has been made of it.
THEOREM GatewayInvariance == Spec => []GatewayInv
<1>1. Init => GatewayInv
  BY StoreInitially, RunsInitially DEF Init, GatewayInv
<1>2. GatewayInv /\ [Next]_vars => GatewayInv'
  BY GatewayStep
<1>3. QED
  BY <1>1, <1>2, PTL DEF Spec

\* sqlite.go migrate: with any number of migrations of both processes, interleaved and
\* cut off anywhere, a process that works on the file finds all of its tables.
THEOREM OpenerHasItsTables == Spec => []OpenIsMigrated
<1>1. GatewayInv => OpenIsMigrated
  BY DEF GatewayInv, SchemaInv, OpenIsMigrated, IsOpen
<1>2. QED
  BY <1>1, GatewayInvariance, PTL

\* sqlite.go SaveRequest, RebuildMetrics: both tables of totals count every row once.
THEOREM TotalsAgreeWithRows == Spec => []TotalsCountRows
<1>1. GatewayInv => TotalsCountRows
  BY DEF GatewayInv, TotalsInv, TableCounts, Counts, Outputs, RowsOutput, TotalsCountRows
<1>2. QED
  BY <1>1, GatewayInvariance, PTL

\* streaming.go, capture.go: whatever the interleaving of the provider, the proxy, the
\* relay, a cancel and a lost connection, the row of a completed turn tells what the relay
\* told, or nothing.
THEOREM CaptureTellsTheSame == Spec => []CaptureAgrees
<1>1. GatewayInv => CaptureAgrees
  <2> SUFFICES ASSUME GatewayInv, NEW row \in rows, row.run \in Run, row.ok,
                      turn[row.run].result = "completed"
               PROVE  [text |-> row.text, input |-> row.input, output |-> row.output]
                          \in {Nothing, turn[row.run].told}
    BY DEF CaptureAgrees
  <2>1. RunOK(row.run, turn[row.run], exch[row.run], rows)
    BY DEF GatewayInv, RunsInv
  <2>2. Tells(turn[row.run], exch[row.run], row)
    BY <2>1 DEF RunOK, Saved
  <2>3. QED
    BY <2>2 DEF Tells, Triple
<1>2. QED
  BY <1>1, GatewayInvariance, PTL

\* proxy/server.go, start.go: the request reaches the endpoint the turn was dispatched to,
\* through the proxy or without it.
THEOREM RequestReachesItsUpstream == Spec => []ReachesItsUpstream
<1>1. GatewayInv => ReachesItsUpstream
  <2> SUFFICES ASSUME GatewayInv, NEW r \in Run, turn[r].ep # None,
                      KeyOf[turn[r].ep] = TypeOf[turn[r].ep]
               PROVE  exch[r].target = turn[r].ep
    BY DEF ReachesItsUpstream
  <2> DEFINE t == turn[r]
             x == exch[r]
  <2>1. RunOK(r, t, x, rows)
    BY DEF GatewayInv, RunsInv
  <2>2. t.ep # None /\ KeyOf[t.ep] = TypeOf[t.ep]
    OBVIOUS
  <2> HIDE DEF t, x
  <2>3. t.at \in {"sent", "streaming"}
    BY <2>1, <2>2 DEF RunOK, TurnRecord, Stage, Idle, Done
  <2>4. x.target = t.ep
    BY <2>1, <2>2, <2>3 DEF RunOK, Stage, Sent, Streaming
  <2>5. QED
    BY <2>4 DEF t, x
<1>2. QED
  BY <1>1, GatewayInvariance, PTL

\* truncate.go, openai.go: whatever the conversation and the window, the request that is
\* sent holds a call only with its result and a result only after its call, and ends with
\* what the user has just said, unless that came with tool results and the adapter is
\* OpenAI's: then it ends with the results, and the text is lost.
THEOREM RequestsKeepPairs == Spec => []RequestsArePaired
<1>1. ASSUME NEW type \in ProviderType, NEW c \in Conversations, NEW w \in Windows,
             ShapeOf(type, c, w).cut
      PROVE  ShapeOf(type, c, w).paired /\ (ShapeOf(type, c, w).last \/ ShapeOf(type, c, w).answers)
  <2>1. w \in Nat /\ w > 0 /\ Submitted(c)
    BY <1>1, WireAssumption DEF ShapeOf
  <2> DEFINE p == FormatMessages(type, c, w)
             last == p # <<>> => Last(p).role = "user" /\ Last(p).text
             answers == /\ type = "openai" /\ Last(c).results # {}
                        /\ p # <<>> => Last(p).role = "tool"
  <2>2. Paired(p) /\ (last \/ answers)
    <3>1. /\ Paired(p)
          /\ p # <<>> => \/ Last(p).role = "user" /\ Last(p).text
                         \/ type = "openai" /\ Last(c).results # {} /\ Last(p).role = "tool"
      BY <2>1, FormatKeepsPairs
    <3> HIDE DEF p
    <3>2. QED
      BY <3>1
  <2>3. ShapeOf(type, c, w) = [sent |-> p # <<>>, cut |-> w > 0, paired |-> Paired(p),
                               last |-> last, answers |-> answers]
    BY DEF ShapeOf
  <2> HIDE DEF p, last, answers
  <2>4. QED
    BY <2>2, <2>3
<1>2. \A s \in UNION {Shapes[type] : type \in ProviderType} : s.cut => s.paired /\ (s.last \/ s.answers)
  <2>1. \A type \in ProviderType : \A s \in Shapes[type] :
            \E c \in Conversations, w \in Windows : s = ShapeOf(type, c, w)
    BY DEF Shapes
  <2>2. QED
    BY <1>1, <2>1
<1>3. GatewayInv => RequestsArePaired
  <2> DEFINE U == UNION {Shapes[type] : type \in ProviderType}
  <2> HIDE DEF U
  <2>1. \A s \in U : s.cut => s.paired /\ (s.last \/ s.answers)
    BY <1>2 DEF U
  <2>2. GatewayInv => \A r \in Run : turn[r].shape \in {None} \cup U
    BY DEF GatewayInv, RunsInv, TurnRecord, U
  <2>3. QED
    BY <2>1, <2>2 DEF RequestsArePaired
<1>4. QED
  BY <1>3, GatewayInvariance, PTL
=============================================================================
