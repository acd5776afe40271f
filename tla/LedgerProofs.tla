---------------------------- MODULE LedgerProofs ----------------------------
(***************************************************************************)
(* Proofs about Ledger, for any devices, records, limits and parameters:   *)
(* what VerifyChainSegment and the order of GetRecordsByDevice are worth,   *)
(* whatever order the records came in, what sharing and taking do to the    *)
(* credit of all devices together, and how the policies compare.            *)
(***************************************************************************)
EXTENDS Ledger, FiniteSetTheorems, TLAPS

-----------------------------------------------------------------------------
(* Numbers.                                                                 *)

\* Every non-empty set of naturals has a least element.  Induction over data
\* is done with this: the least counterexample has a predecessor that is none.
LEMMA LeastOf ==
  ASSUME NEW T \in SUBSET Nat, NEW z \in T
  PROVE  \E m \in T : \A n \in T : m <= n
  <1>. DEFINE R == OpToRel(<, Nat)
  <1>1. IsWellFoundedOn(R, Nat)  BY NatLessThanWellFounded
  <1>2. ASSUME NEW a \in Nat, NEW b \in Nat, a < b PROVE <<a, b>> \in R
    BY <1>2 DEF OpToRel
  <1>. HIDE DEF R
  <1>3. PICK m \in T : \A y \in T : ~(<<y, m>> \in R)  BY <1>1, WFMin
  <1>4. ASSUME NEW n \in T PROVE m <= n
    <2>1. m \in Nat /\ n \in Nat  OBVIOUS
    <2>2. ~(n < m)  BY <1>2, <1>3, <2>1
    <2>. QED  BY <2>1, <2>2
  <1>. QED  BY <1>4

\* A function that grows at every step grows over any distance.
LEMMA StepwiseGrowth ==
  ASSUME NEW n \in Nat, NEW g \in [1 .. n -> Int],
         \A i \in 1 .. n - 1 : g[i] < g[i + 1],
         NEW a \in 1 .. n, NEW b \in 1 .. n, a < b
  PROVE  g[a] < g[b]
  <1>. DEFINE T == {k \in a + 1 .. n : ~(g[a] < g[k])}
  <1>1. SUFFICES ASSUME b \in T PROVE FALSE
    OBVIOUS
  <1>2. T \in SUBSET Nat  OBVIOUS
  <1>3. PICK m \in T : \A k \in T : m <= k
    <2>. HIDE DEF T
    <2>. QED  BY <1>1, <1>2, LeastOf
  <1>4. m \in a + 1 .. n /\ ~(g[a] < g[m]) /\ g[a] \in Int /\ g[m] \in Int  OBVIOUS
  <1>5. m - 1 \in 1 .. n - 1 /\ g[m - 1] < g[m] /\ g[m - 1] \in Int
    <2>1. m - 1 \in 1 .. n - 1 /\ m - 1 + 1 = m  BY <1>4
    <2>. QED  BY <2>1
  <1>6. CASE m = a + 1
    BY <1>4, <1>5, <1>6
  <1>7. CASE m # a + 1
    <2>1. m - 1 \in a + 1 .. n /\ m - 1 \notin T
      BY <1>3, <1>4, <1>7
    <2>2. g[a] < g[m - 1]  BY <2>1
    <2>. QED  BY <1>4, <1>5, <2>2
  <1>. QED  BY <1>6, <1>7

\* The same for a function that never falls.
LEMMA StepwiseOrder ==
  ASSUME NEW n \in Nat, NEW g \in [1 .. n -> Int],
         \A i \in 1 .. n - 1 : g[i] <= g[i + 1],
         NEW a \in 1 .. n, NEW b \in 1 .. n, a < b
  PROVE  g[a] <= g[b]
  <1>. DEFINE T == {k \in a + 1 .. n : ~(g[a] <= g[k])}
  <1>1. SUFFICES ASSUME b \in T PROVE FALSE
    OBVIOUS
  <1>2. T \in SUBSET Nat  OBVIOUS
  <1>3. PICK m \in T : \A k \in T : m <= k
    <2>. HIDE DEF T
    <2>. QED  BY <1>1, <1>2, LeastOf
  <1>4. m \in a + 1 .. n /\ ~(g[a] <= g[m]) /\ g[a] \in Int /\ g[m] \in Int  OBVIOUS
  <1>5. m - 1 \in 1 .. n - 1 /\ g[m - 1] <= g[m] /\ g[m - 1] \in Int
    <2>1. m - 1 \in 1 .. n - 1 /\ m - 1 + 1 = m  BY <1>4
    <2>. QED  BY <2>1
  <1>6. CASE m = a + 1
    BY <1>4, <1>5, <1>6
  <1>7. CASE m # a + 1
    <2>1. m - 1 \in a + 1 .. n /\ m - 1 \notin T
      BY <1>3, <1>4, <1>7
    <2>2. g[a] <= g[m - 1]  BY <2>1
    <2>. QED  BY <1>4, <1>5, <2>2
  <1>. QED  BY <1>6, <1>7

\* A set of integers with an upper bound has a maximum, if it has a member.
LEMMA MaxIsMember ==
  ASSUME NEW S \in SUBSET Int, NEW z \in S, NEW c \in Int, \A v \in S : v <= c
  PROVE  Max(S) \in S /\ \A v \in S : v <= Max(S)
  <1>. DEFINE T == {c - v : v \in S}
  <1>1. T \in SUBSET Nat /\ c - z \in T  OBVIOUS
  <1>2. PICK m \in T : \A n \in T : m <= n
    <2>. HIDE DEF T
    <2>. QED  BY <1>1, LeastOf
  <1>3. PICK x \in S : m = c - x  OBVIOUS
  <1>4. \A v \in S : x >= v
    <2>. SUFFICES ASSUME NEW v \in S PROVE x >= v
      OBVIOUS
    <2>1. m <= c - v  BY <1>2
    <2>. QED  BY <2>1, <1>3
  <1>5. Max(S) \in S /\ \A v \in S : Max(S) >= v
    BY <1>4, Zenon DEF Max
  <1>. QED  BY <1>5

-----------------------------------------------------------------------------
(* Sums over finite sets.  SumFunctionOnSet takes the elements in the order *)
(* CHOOSE gives them.                                                       *)

\* f sums F over every subset of S: what SumFunctionOnSet recurs on.
IsSumTable(f, F, S) ==
  f = [s \in SUBSET S |->
         IF s = {} THEN 0 ELSE F[CHOOSE x \in s : TRUE] + f[s \ {CHOOSE x \in s : TRUE}]]

\* A finite set without one of its elements is smaller by one.
LEMMA OneLess ==
  ASSUME NEW S, IsFiniteSet(S), NEW x \in S
  PROVE  /\ IsFiniteSet(S \ {x}) /\ Cardinality(S \ {x}) = Cardinality(S) - 1
         /\ Cardinality(S) \in Nat /\ Cardinality(S \ {x}) \in Nat
         /\ Cardinality(S \ {x}) < Cardinality(S)
  <1>1. IsFiniteSet(S \ {x}) /\ Cardinality(S \ {x}) = Cardinality(S) - 1
    BY FS_RemoveElement
  <1>2. Cardinality(S) \in Nat /\ Cardinality(S \ {x}) \in Nat
    BY <1>1, FS_CardinalityType
  <1>. QED  BY <1>1, <1>2

\* The recursion of SumFunctionOnSet is sound over a finite set.
LEMMA SumTableExists ==
  ASSUME NEW S, IsFiniteSet(S), NEW F
  PROVE  \E f : IsSumTable(f, F, S)
  <1>. DEFINE ch(s) == CHOOSE x \in s : TRUE
              D(n) == {s \in SUBSET S : Cardinality(s) <= n}
              val(f, s) == IF s = {} THEN 0 ELSE F[ch(s)] + f[s \ {ch(s)}]
              Good(f, n) == DOMAIN f = D(n) /\ \A s \in D(n) : f[s] = val(f, s)
              T == {n \in Nat : ~\E f : Good(f, n)}
  <1>1. \A s \in SUBSET S : IsFiniteSet(s) /\ Cardinality(s) \in Nat
    BY FS_Subset, FS_CardinalityType
  <1>2. \A s \in SUBSET S : s # {} =>
          ch(s) \in s /\ s \ {ch(s)} \in SUBSET S /\ Cardinality(s \ {ch(s)}) = Cardinality(s) - 1
    BY <1>1, OneLess
  <1>3. \A n \in Nat : \E f : Good(f, n)
    <2>. SUFFICES ASSUME NEW z \in T PROVE FALSE
      OBVIOUS
    <2>1. T \in SUBSET Nat  OBVIOUS
    <2>2. PICK m \in T : \A k \in T : m <= k
      <3>. HIDE DEF T
      <3>. QED  BY <2>1, LeastOf
    <2>3. m \in Nat /\ ~\E f : Good(f, m)  OBVIOUS
    <2>4. CASE m = 0
      <3>. DEFINE f == [s \in D(m) |-> 0]
      <3>1. ASSUME NEW s \in D(m) PROVE s = {}
        <4>1. s \in SUBSET S /\ Cardinality(s) <= 0  BY <2>4
        <4>2. IsFiniteSet(s) /\ Cardinality(s) = 0  BY <1>1, <4>1
        <4>. QED  BY <4>2, FS_EmptySet
      <3>2. DOMAIN f = D(m) /\ \A s \in D(m) : f[s] = val(f, s)
        <4>. HIDE DEF D, ch
        <4>. QED  BY <3>1
      <3>. HIDE DEF f, D, val
      <3>. QED  BY <2>3, <3>2
    <2>5. CASE m # 0
      <3>1. m - 1 \in Nat /\ m - 1 < m  BY <2>3, <2>5
      <3>2. m - 1 \notin T
        <4>. HIDE DEF T
        <4>. QED  BY <2>2, <2>3, <3>1
      <3>3. PICK g : Good(g, m - 1)
        <4>. HIDE DEF Good
        <4>. QED  BY <3>1, <3>2
      <3>. DEFINE f == [s \in D(m) |-> val(g, s)]
      <3>4. ASSUME NEW s \in D(m), s # {} PROVE s \ {ch(s)} \in D(m - 1)
        <4>. HIDE DEF ch
        <4>1. s \in SUBSET S /\ Cardinality(s) <= m /\ Cardinality(s) \in Nat  BY <1>1
        <4>2. s \ {ch(s)} \in SUBSET S /\ Cardinality(s \ {ch(s)}) = Cardinality(s) - 1
          BY <3>4, <4>1, <1>2
        <4>. QED  BY <4>1, <4>2, <2>3
      <3>5. D(m - 1) \subseteq D(m)  BY <2>3, <1>1
      <3>6. \A s \in D(m - 1) : g[s] = val(g, s)  BY <3>3
      <3>7. ASSUME NEW s \in D(m) PROVE f[s] = val(f, s)
        <4>1. f[s] = val(g, s)
          <5>. HIDE DEF D, val
          <5>. QED  OBVIOUS
        <4>2. CASE s = {}  BY <4>1, <4>2
        <4>3. CASE s # {}
          <5>1. s \ {ch(s)} \in D(m - 1) /\ s \ {ch(s)} \in D(m)
            <6>. HIDE DEF D, ch
            <6>. QED  BY <3>4, <3>5, <4>3
          <5>2. f[s \ {ch(s)}] = g[s \ {ch(s)}]
            <6>. HIDE DEF D, ch, val
            <6>. QED  BY <5>1, <3>6
          <5>. HIDE DEF f, D, ch
          <5>. QED  BY <4>1, <4>3, <5>2
        <4>. QED  BY <4>2, <4>3
      <3>8. DOMAIN f = D(m)
        <4>. HIDE DEF D, val
        <4>. QED  OBVIOUS
      <3>. HIDE DEF f, D, val
      <3>. QED  BY <2>3, <3>7, <3>8
    <2>. QED  BY <2>4, <2>5
  <1>4. PICK f : Good(f, Cardinality(S))
    <2>1. Cardinality(S) \in Nat  BY FS_CardinalityType
    <2>. HIDE DEF Good
    <2>. QED  BY <2>1, <1>3
  <1>5. D(Cardinality(S)) = SUBSET S
    <2>1. \A s \in SUBSET S : Cardinality(s) <= Cardinality(S)  BY FS_Subset
    <2>. QED  BY <2>1
  <1>6. DOMAIN f = SUBSET S /\ \A s \in SUBSET S : f[s] = val(f, s)
    BY <1>4, <1>5
  <1>. DEFINE t == [s \in SUBSET S |-> f[s]]
  <1>7. ASSUME NEW s \in SUBSET S PROVE t[s] = val(t, s)
    <2>1. s \ {ch(s)} \in SUBSET S  OBVIOUS
    <2>. HIDE DEF ch
    <2>. QED  BY <1>6, <2>1
  <1>8. t = [s \in SUBSET S |-> val(t, s)]
    <2>1. t = [s \in SUBSET S |-> t[s]]  OBVIOUS
    <2>. HIDE DEF t, val
    <2>. QED  BY <1>7, <2>1
  <1>9. IsSumTable(t, F, S)
    <2>. HIDE DEF t
    <2>. QED  BY <1>8, Zenon DEF IsSumTable
  <1>. QED  BY <1>9

\* Over a finite set it is a table that sums: nothing is left to the choice of
\* the function that satisfies the recursion.
LEMMA SumIsTable ==
  ASSUME NEW S, IsFiniteSet(S), NEW F
  PROVE  \E f : IsSumTable(f, F, S) /\ SumFunctionOnSet(F, S) = f[S]
  <1>. DEFINE f == CHOOSE f : IsSumTable(f, F, S)
  <1>1. SumFunctionOnSet(F, S) = f[S]
    BY Zenon DEF SumFunctionOnSet, FoldFunctionOnSet, MapThenFoldSet, IsSumTable
  <1>2. IsSumTable(f, F, S)
    <2>1. \E g : IsSumTable(g, F, S)  BY SumTableExists
    <2>. QED  BY <2>1, Zenon
  <1>. QED  BY <1>1, <1>2, Zenon

\* Two tables agree on the sets that both have.
LEMMA SumTablesAgree ==
  ASSUME NEW S, IsFiniteSet(S), NEW R \in SUBSET S, NEW F, NEW f, NEW g,
         IsSumTable(f, F, S), IsSumTable(g, F, R), NEW s \in SUBSET R
  PROVE  f[s] = g[s]
  <1>. DEFINE ch(u) == CHOOSE x \in u : TRUE
              T == {n \in Nat : \E u \in SUBSET R : Cardinality(u) = n /\ f[u] # g[u]}
  <1>1. \A u \in SUBSET R : u \in SUBSET S /\ IsFiniteSet(u) /\ Cardinality(u) \in Nat
    BY FS_Subset, FS_CardinalityType
  <1>2. SUFFICES ASSUME Cardinality(s) \in T PROVE FALSE
    BY <1>1
  <1>3. T \in SUBSET Nat  OBVIOUS
  <1>4. PICK m \in T : \A k \in T : m <= k
    <2>. HIDE DEF T
    <2>. QED  BY <1>2, <1>3, LeastOf
  <1>5. PICK u \in SUBSET R : Cardinality(u) = m /\ f[u] # g[u]  OBVIOUS
  <1>. DEFINE v == u \ {ch(u)}
  <1>6. f[u] = IF u = {} THEN 0 ELSE F[ch(u)] + f[v]
    <2>1. u \in SUBSET S  BY <1>1
    <2>. QED  BY <2>1, Zenon DEF IsSumTable
  <1>7. g[u] = IF u = {} THEN 0 ELSE F[ch(u)] + g[v]
    BY Zenon DEF IsSumTable
  <1>8. u # {} /\ f[v] # g[v]  BY <1>5, <1>6, <1>7, Zenon
  <1>9. ch(u) \in u  BY <1>8, Zenon
  <1>10. v \in SUBSET R /\ Cardinality(v) \in Nat /\ Cardinality(v) < m /\ m \in Nat
    <2>. HIDE DEF ch
    <2>. QED  BY <1>1, <1>5, <1>9, OneLess
  <1>11. Cardinality(v) \in T
    <2>. HIDE DEF v
    <2>. QED  BY <1>8, <1>10
  <1>. HIDE DEF T, v
  <1>. QED  BY <1>4, <1>10, <1>11

\* A sum over nothing is 0; over more it is the value of the element that
\* CHOOSE gives and the sum over the others.
LEMMA SumChosen ==
  ASSUME NEW S, IsFiniteSet(S), NEW F
  PROVE  /\ S = {} => SumFunctionOnSet(F, S) = 0
         /\ S # {} => \E x \in S : SumFunctionOnSet(F, S) = F[x] + SumFunctionOnSet(F, S \ {x})
  <1>. DEFINE x == CHOOSE x \in S : TRUE
              R == S \ {x}
  <1>1. PICK f : IsSumTable(f, F, S) /\ SumFunctionOnSet(F, S) = f[S]
    BY SumIsTable
  <1>2. IsFiniteSet(R)  BY FS_RemoveElement
  <1>3. PICK g : IsSumTable(g, F, R) /\ SumFunctionOnSet(F, R) = g[R]
    <2>. HIDE DEF R
    <2>. QED  BY <1>2, SumIsTable
  <1>4. f[R] = g[R]
    <2>1. R \in SUBSET S /\ R \in SUBSET R  OBVIOUS
    <2>. HIDE DEF R
    <2>. QED  BY <2>1, <1>1, <1>3, SumTablesAgree
  <1>5. f[S] = IF S = {} THEN 0 ELSE F[x] + f[R]
    <2>1. S \in SUBSET S  OBVIOUS
    <2>. QED  BY <1>1, <2>1, Zenon DEF IsSumTable
  <1>6. S # {} => x \in S  BY Zenon
  <1>. HIDE DEF x
  <1>. QED  BY <1>1, <1>3, <1>4, <1>5, <1>6, Zenon
\* A sum of members of a set that is closed under addition is a member of it.
LEMMA SumClosed ==
  ASSUME NEW S, IsFiniteSet(S), NEW F, NEW V, 0 \in V, \A a, b \in V : a + b \in V,
         \A x \in S : F[x] \in V
  PROVE  SumFunctionOnSet(F, S) \in V
  <1>. DEFINE T == {n \in Nat : \E u \in SUBSET S : Cardinality(u) = n /\ SumFunctionOnSet(F, u) \notin V}
  <1>1. \A u \in SUBSET S : IsFiniteSet(u) /\ Cardinality(u) \in Nat
    BY FS_Subset, FS_CardinalityType
  <1>2. SUFFICES ASSUME Cardinality(S) \in T PROVE FALSE
    BY <1>1
  <1>3. T \in SUBSET Nat  OBVIOUS
  <1>4. PICK m \in T : \A k \in T : m <= k
    <2>. HIDE DEF T
    <2>. QED  BY <1>2, <1>3, LeastOf
  <1>5. PICK u \in SUBSET S : Cardinality(u) = m /\ SumFunctionOnSet(F, u) \notin V  OBVIOUS
  <1>6. u # {}  BY <1>1, <1>5, SumChosen
  <1>7. PICK x \in u : SumFunctionOnSet(F, u) = F[x] + SumFunctionOnSet(F, u \ {x})
    BY <1>1, <1>6, SumChosen
  <1>8. SumFunctionOnSet(F, u \ {x}) \notin V  BY <1>5, <1>7, Zenon
  <1>9. /\ Cardinality(u \ {x}) \in Nat /\ Cardinality(u \ {x}) < m /\ m \in Nat
        /\ u \ {x} \in SUBSET S
    BY <1>1, <1>5, OneLess
  <1>10. Cardinality(u \ {x}) \in T  BY <1>8, <1>9
  <1>. HIDE DEF T
  <1>. QED  BY <1>4, <1>9, <1>10

\* A sum of integers is an integer.
LEMMA SumInt ==
  ASSUME NEW S, IsFiniteSet(S), NEW F, \A x \in S : F[x] \in Int
  PROVE  SumFunctionOnSet(F, S) \in Int
  <1>1. 0 \in Int /\ \A a, b \in Int : a + b \in Int  OBVIOUS
  <1>. QED  BY <1>1, SumClosed, Zenon

\* A sum of naturals is a natural.
LEMMA SumNat ==
  ASSUME NEW S, IsFiniteSet(S), NEW F, \A x \in S : F[x] \in Nat
  PROVE  SumFunctionOnSet(F, S) \in Nat
  <1>1. 0 \in Nat /\ \A a, b \in Nat : a + b \in Nat  OBVIOUS
  <1>. QED  BY <1>1, SumClosed, Zenon

\* Any element may be taken out first: the order of a sum does not matter.
LEMMA SumTakeOut ==
  ASSUME NEW S, IsFiniteSet(S), NEW F, \A x \in S : F[x] \in Int, NEW y \in S
  PROVE  SumFunctionOnSet(F, S) = F[y] + SumFunctionOnSet(F, S \ {y})
  <1>. DEFINE Bad(u, x) == SumFunctionOnSet(F, u) # F[x] + SumFunctionOnSet(F, u \ {x})
              T == {n \in Nat : \E u \in SUBSET S : Cardinality(u) = n /\ \E x \in u : Bad(u, x)}
  <1>1. \A u \in SUBSET S : IsFiniteSet(u) /\ Cardinality(u) \in Nat /\ SumFunctionOnSet(F, u) \in Int
    BY FS_Subset, FS_CardinalityType, SumInt
  <1>2. SUFFICES ASSUME Cardinality(S) \in T PROVE FALSE
    BY <1>1
  <1>3. T \in SUBSET Nat  OBVIOUS
  <1>4. PICK m \in T : \A k \in T : m <= k
    <2>. HIDE DEF T
    <2>. QED  BY <1>2, <1>3, LeastOf
  <1>5. PICK u \in SUBSET S : Cardinality(u) = m /\ \E x \in u : Bad(u, x)  OBVIOUS
  <1>6. PICK x \in u : Bad(u, x)  BY <1>5
  <1>7. PICK c \in u : SumFunctionOnSet(F, u) = F[c] + SumFunctionOnSet(F, u \ {c})
    BY <1>1, SumChosen
  <1>8. x # c  BY <1>6, <1>7, Zenon
  <1>9. ASSUME NEW a \in u, NEW b \in u \ {a} PROVE ~Bad(u \ {a}, b)
    <2>1. /\ Cardinality(u \ {a}) \in Nat /\ Cardinality(u \ {a}) < m /\ m \in Nat
          /\ u \ {a} \in SUBSET S
      BY <1>1, <1>5, OneLess
    <2>2. Cardinality(u \ {a}) \notin T
      <3>. HIDE DEF T
      <3>. QED  BY <1>4, <2>1
    <2>. HIDE DEF Bad
    <2>. QED  BY <2>1, <2>2
  <1>10. SumFunctionOnSet(F, u \ {c}) = F[x] + SumFunctionOnSet(F, (u \ {c}) \ {x})
    <2>1. x \in u \ {c}  BY <1>8
    <2>. QED  BY <2>1, <1>9, Zenon
  <1>11. SumFunctionOnSet(F, u \ {x}) = F[c] + SumFunctionOnSet(F, (u \ {x}) \ {c})
    <2>1. c \in u \ {x}  BY <1>8
    <2>. QED  BY <2>1, <1>9, Zenon
  <1>12. (u \ {c}) \ {x} = (u \ {x}) \ {c}  OBVIOUS
  <1>13. PICK w : w = SumFunctionOnSet(F, (u \ {x}) \ {c})  OBVIOUS
  <1>14. w \in Int /\ F[x] \in Int /\ F[c] \in Int
    <2>1. (u \ {x}) \ {c} \in SUBSET S  OBVIOUS
    <2>. QED  BY <1>1, <1>13, <2>1
  <1>15. /\ SumFunctionOnSet(F, u) = F[c] + (F[x] + w)
         /\ SumFunctionOnSet(F, u \ {x}) = F[c] + w
    BY <1>7, <1>10, <1>11, <1>12, <1>13, Zenon
  <1>16. F[c] + (F[x] + w) = F[x] + (F[c] + w)  BY <1>14
  <1>. QED  BY <1>6, <1>15, <1>16, Zenon

\* What is summed over A and sent into B without a collision is at most the
\* sum over B, value by value.
LEMMA SumInjects ==
  ASSUME NEW A, IsFiniteSet(A), NEW B, IsFiniteSet(B), NEW F, NEW G,
         \A x \in A : F[x] \in Nat, \A y \in B : G[y] \in Nat,
         NEW p, \A x \in A : p[x] \in B /\ F[x] <= G[p[x]],
         \A x, y \in A : p[x] = p[y] => x = y
  PROVE  SumFunctionOnSet(F, A) <= SumFunctionOnSet(G, B)
  <1>. DEFINE Bad(u, v) == ~(SumFunctionOnSet(F, u) <= SumFunctionOnSet(G, v))
              Into(u, v) == \A x \in u : p[x] \in v
              T == {n \in Nat : \E u \in SUBSET A, v \in SUBSET B :
                                   Cardinality(u) = n /\ Into(u, v) /\ Bad(u, v)}
  <1>1. \A u \in SUBSET A : IsFiniteSet(u) /\ Cardinality(u) \in Nat /\ SumFunctionOnSet(F, u) \in Nat
    BY FS_Subset, FS_CardinalityType, SumNat
  <1>2. \A v \in SUBSET B : IsFiniteSet(v) /\ SumFunctionOnSet(G, v) \in Nat
    BY FS_Subset, SumNat
  <1>3. SUFFICES ASSUME Cardinality(A) \in T PROVE FALSE
    BY <1>1
  <1>4. T \in SUBSET Nat  OBVIOUS
  <1>5. PICK m \in T : \A k \in T : m <= k
    <2>. HIDE DEF T
    <2>. QED  BY <1>3, <1>4, LeastOf
  <1>6. PICK u \in SUBSET A, v \in SUBSET B : Cardinality(u) = m /\ Into(u, v) /\ Bad(u, v)
    <2>. HIDE DEF Into, Bad
    <2>. QED  OBVIOUS
  <1>7. u # {}
    <2>. SUFFICES ASSUME u = {} PROVE FALSE
      OBVIOUS
    <2>1. SumFunctionOnSet(F, u) = 0  BY <1>1, SumChosen
    <2>. QED  BY <2>1, <1>2, <1>6
  <1>8. PICK x \in u : TRUE  BY <1>7
  <1>. DEFINE a == SumFunctionOnSet(F, u \ {x})
              b == SumFunctionOnSet(G, v \ {p[x]})
  <1>9. u \ {x} \in SUBSET A /\ v \ {p[x]} \in SUBSET B /\ p[x] \in v  BY <1>6
  <1>10. a \in Nat /\ b \in Nat /\ F[x] \in Nat /\ G[p[x]] \in Nat /\ F[x] <= G[p[x]]
    BY <1>1, <1>2, <1>9
  <1>11. SumFunctionOnSet(F, u) = F[x] + a
    <2>1. \A y \in u : F[y] \in Int  OBVIOUS
    <2>. QED  BY <2>1, <1>1, SumTakeOut
  <1>12. SumFunctionOnSet(G, v) = G[p[x]] + b
    <2>1. \A y \in v : G[y] \in Int  OBVIOUS
    <2>. QED  BY <2>1, <1>2, <1>9, SumTakeOut
  <1>13. a <= b
    <2>1. Cardinality(u \ {x}) \in Nat /\ Cardinality(u \ {x}) < m /\ m \in Nat
      BY <1>1, <1>6, OneLess
    <2>2. Cardinality(u \ {x}) \notin T
      <3>. HIDE DEF T
      <3>. QED  BY <1>5, <2>1
    <2>3. Into(u \ {x}, v \ {p[x]})
      BY <1>6
    <2>4. ~Bad(u \ {x}, v \ {p[x]})
      <3>. HIDE DEF Bad, Into
      <3>. QED  BY <2>1, <2>2, <2>3, <1>9
    <2>. QED  BY <2>4
  <1>. HIDE DEF a, b
  <1>. QED  BY <1>6, <1>10, <1>11, <1>12, <1>13
\* Sums of the same naturals are the same.
LEMMA SumSame ==
  ASSUME NEW S, IsFiniteSet(S), NEW F, NEW G, \A x \in S : F[x] \in Nat /\ F[x] = G[x]
  PROVE  SumFunctionOnSet(F, S) = SumFunctionOnSet(G, S)
  <1>. DEFINE p == [x \in S |-> x]
  <1>1. \A x \in S : p[x] \in S /\ F[x] <= G[p[x]] /\ G[x] <= F[p[x]] /\ F[x] \in Nat /\ G[x] \in Nat
    OBVIOUS
  <1>2. \A x, y \in S : p[x] = p[y] => x = y  OBVIOUS
  <1>. HIDE DEF p
  <1>3. SumFunctionOnSet(F, S) <= SumFunctionOnSet(G, S)  BY <1>1, <1>2, SumInjects
  <1>4. SumFunctionOnSet(G, S) <= SumFunctionOnSet(F, S)  BY <1>1, <1>2, SumInjects
  <1>5. SumFunctionOnSet(F, S) \in Nat /\ SumFunctionOnSet(G, S) \in Nat  BY <1>1, SumNat
  <1>. QED  BY <1>3, <1>4, <1>5

\* A sum of zeros is 0.
LEMMA SumZero ==
  ASSUME NEW S, IsFiniteSet(S), NEW F, \A x \in S : F[x] = 0
  PROVE  SumFunctionOnSet(F, S) = 0
  <1>1. 0 \in {0} /\ \A a, b \in {0} : a + b \in {0}  OBVIOUS
  <1>2. \A x \in S : F[x] \in {0}  OBVIOUS
  <1>3. SumFunctionOnSet(F, S) \in {0}  BY <1>1, <1>2, SumClosed, Zenon
  <1>. QED  BY <1>3

\* A balance that holds for each holds for all together.
LEMMA SumBalance ==
  ASSUME NEW S, IsFiniteSet(S), NEW E, NEW I, NEW O,
         \A x \in S : E[x] \in Int /\ I[x] \in Int /\ O[x] \in Int /\ E[x] + I[x] <= O[x]
  PROVE  SumFunctionOnSet(E, S) + SumFunctionOnSet(I, S) <= SumFunctionOnSet(O, S)
  <1>. DEFINE Bad(u) == ~(SumFunctionOnSet(E, u) + SumFunctionOnSet(I, u) <= SumFunctionOnSet(O, u))
              T == {n \in Nat : \E u \in SUBSET S : Cardinality(u) = n /\ Bad(u)}
  <1>1. ASSUME NEW u \in SUBSET S
        PROVE  /\ IsFiniteSet(u) /\ Cardinality(u) \in Nat /\ SumFunctionOnSet(E, u) \in Int
               /\ SumFunctionOnSet(I, u) \in Int /\ SumFunctionOnSet(O, u) \in Int
    <2>1. IsFiniteSet(u) /\ Cardinality(u) \in Nat  BY FS_Subset, FS_CardinalityType
    <2>. QED  BY <2>1, SumInt
  <1>2. SUFFICES ASSUME Cardinality(S) \in T PROVE FALSE
    BY <1>1
  <1>3. T \in SUBSET Nat  OBVIOUS
  <1>4. PICK m \in T : \A k \in T : m <= k
    <2>. HIDE DEF T
    <2>. QED  BY <1>2, <1>3, LeastOf
  <1>5. PICK u \in SUBSET S : Cardinality(u) = m /\ Bad(u)
    <2>. HIDE DEF Bad
    <2>. QED  OBVIOUS
  <1>6. u # {}
    <2>. SUFFICES ASSUME u = {} PROVE FALSE
      OBVIOUS
    <2>1. SumFunctionOnSet(E, u) = 0 /\ SumFunctionOnSet(I, u) = 0 /\ SumFunctionOnSet(O, u) = 0
      BY <1>1, SumChosen
    <2>. QED  BY <2>1, <1>5
  <1>7. PICK x \in u : TRUE  BY <1>6
  <1>. DEFINE v == u \ {x}
  <1>8. v \in SUBSET S /\ Cardinality(v) \in Nat /\ Cardinality(v) < m /\ m \in Nat
    BY <1>1, <1>5, OneLess
  <1>9. ~Bad(v)
    <2>. HIDE DEF v, Bad
    <2>1. Cardinality(v) \notin T
      <3>. HIDE DEF T
      <3>. QED  BY <1>4, <1>8
    <2>. QED  BY <2>1, <1>8
  <1>10. /\ SumFunctionOnSet(E, u) = E[x] + SumFunctionOnSet(E, v)
         /\ SumFunctionOnSet(I, u) = I[x] + SumFunctionOnSet(I, v)
         /\ SumFunctionOnSet(O, u) = O[x] + SumFunctionOnSet(O, v)
    <2>1. \A y \in u : E[y] \in Int /\ I[y] \in Int /\ O[y] \in Int  OBVIOUS
    <2>. QED  BY <2>1, <1>1, SumTakeOut
  <1>11. /\ SumFunctionOnSet(E, v) \in Int /\ SumFunctionOnSet(I, v) \in Int
         /\ SumFunctionOnSet(O, v) \in Int
    BY <1>1, <1>8
  <1>12. E[x] \in Int /\ I[x] \in Int /\ O[x] \in Int /\ E[x] + I[x] <= O[x]  OBVIOUS
  <1>. HIDE DEF v
  <1>. QED  BY <1>5, <1>9, <1>10, <1>11, <1>12

\* Summing key by key is summing.
LEMMA SumByKey ==
  ASSUME NEW D, IsFiniteSet(D), NEW V, IsFiniteSet(V), NEW F, \A i \in D : F[i] \in Nat,
         NEW k, \A i \in D : k[i] \in V
  PROVE  SumFunctionOnSet([v \in V |-> SumFunctionOnSet(F, {i \in D : k[i] = v})], V)
           = SumFunctionOnSet(F, D)
  <1>. DEFINE H(u) == [v \in V |-> SumFunctionOnSet(F, {i \in u : k[i] = v})]
              Bad(u) == SumFunctionOnSet(H(u), V) # SumFunctionOnSet(F, u)
              T == {n \in Nat : \E u \in SUBSET D : Cardinality(u) = n /\ Bad(u)}
  <1>1. \A u \in SUBSET D : IsFiniteSet(u) /\ Cardinality(u) \in Nat /\ SumFunctionOnSet(F, u) \in Nat
    BY FS_Subset, FS_CardinalityType, SumNat
  <1>2. SUFFICES ASSUME Cardinality(D) \in T PROVE FALSE
    BY <1>1
  <1>3. T \in SUBSET Nat  OBVIOUS
  <1>4. PICK m \in T : \A l \in T : m <= l
    <2>. HIDE DEF T
    <2>. QED  BY <1>2, <1>3, LeastOf
  <1>5. PICK u \in SUBSET D : Cardinality(u) = m /\ Bad(u)
    <2>. HIDE DEF Bad
    <2>. QED  OBVIOUS
  <1>6. ASSUME NEW z \in SUBSET D, NEW v \in V
        PROVE  H(z)[v] = SumFunctionOnSet(F, {i \in z : k[i] = v}) /\ H(z)[v] \in Nat
    <2>1. {i \in z : k[i] = v} \in SUBSET D  OBVIOUS
    <2>. QED  BY <2>1, <1>1
  <1>7. u # {}
    <2>. SUFFICES ASSUME u = {} PROVE FALSE
      OBVIOUS
    <2>1. ASSUME NEW v \in V PROVE H(u)[v] = 0
      <3>1. {i \in u : k[i] = v} = {} /\ IsFiniteSet({})  BY FS_EmptySet
      <3>2. SumFunctionOnSet(F, {}) = 0  BY <3>1, SumChosen
      <3>. QED  BY <1>6, <3>1, <3>2, Zenon
    <2>2. SumFunctionOnSet(H(u), V) = 0
      <3>. HIDE DEF H
      <3>. QED  BY <2>1, SumZero
    <2>3. SumFunctionOnSet(F, u) = 0  BY <1>1, SumChosen
    <2>. QED  BY <2>2, <2>3, <1>5, Zenon
  <1>8. PICK x \in u : TRUE  BY <1>7
  <1>. DEFINE w == u \ {x}
              y == k[x]
  <1>9. w \in SUBSET D /\ Cardinality(w) \in Nat /\ Cardinality(w) < m /\ m \in Nat /\ y \in V
    BY <1>1, <1>5, OneLess
  <1>10. SumFunctionOnSet(H(w), V) = SumFunctionOnSet(F, w)
    <2>. HIDE DEF w, Bad
    <2>1. Cardinality(w) \notin T
      <3>. HIDE DEF T
      <3>. QED  BY <1>4, <1>9
    <2>2. ~Bad(w)  BY <2>1, <1>9
    <2>. QED  BY <2>2 DEF Bad
  <1>11. SumFunctionOnSet(F, u) = F[x] + SumFunctionOnSet(F, w)
    <2>1. \A i \in u : F[i] \in Int  OBVIOUS
    <2>. QED  BY <2>1, <1>1, SumTakeOut
  <1>12. H(u)[y] = F[x] + H(w)[y]
    <2>. DEFINE z == {i \in u : k[i] = y}
    <2>1. x \in z /\ z \in SUBSET D /\ z \ {x} = {i \in w : k[i] = y}  OBVIOUS
    <2>2. \A i \in z : F[i] \in Int  OBVIOUS
    <2>3. SumFunctionOnSet(F, z) = F[x] + SumFunctionOnSet(F, z \ {x})
      <3>. HIDE DEF z
      <3>. QED  BY <1>1, <2>1, <2>2, SumTakeOut
    <2>. QED  BY <1>6, <1>9, <2>1, <2>3, Zenon
  <1>13. \A v \in V \ {y} : H(u)[v] = H(w)[v]
    <2>. SUFFICES ASSUME NEW v \in V \ {y} PROVE H(u)[v] = H(w)[v]
      OBVIOUS
    <2>1. {i \in u : k[i] = v} = {i \in w : k[i] = v}  OBVIOUS
    <2>. QED  BY <2>1
  <1>. HIDE DEF H, w, y
  <1>14. IsFiniteSet(V \ {y})  BY FS_RemoveElement
  <1>15. SumFunctionOnSet(H(u), V \ {y}) = SumFunctionOnSet(H(w), V \ {y})
    <2>1. \A v \in V \ {y} : H(u)[v] \in Nat /\ H(u)[v] = H(w)[v]  BY <1>6, <1>13
    <2>. QED  BY <2>1, <1>14, SumSame
  <1>16. ASSUME NEW z \in SUBSET D
         PROVE  SumFunctionOnSet(H(z), V) = H(z)[y] + SumFunctionOnSet(H(z), V \ {y})
    <2>1. \A v \in V : H(z)[v] \in Nat  BY <1>6, Zenon
    <2>2. PICK h : h = H(z)  OBVIOUS
    <2>3. \A v \in V : h[v] \in Int  BY <2>1, <2>2
    <2>4. SumFunctionOnSet(h, V) = h[y] + SumFunctionOnSet(h, V \ {y})
      BY <2>3, <1>9, SumTakeOut
    <2>. QED  BY <2>2, <2>4, Zenon
  <1>17. SumFunctionOnSet(H(w), V \ {y}) \in Nat /\ H(w)[y] \in Nat /\ F[x] \in Nat
    <2>1. \A v \in V \ {y} : H(w)[v] \in Nat  BY <1>6, <1>9
    <2>. QED  BY <2>1, <1>6, <1>9, <1>14, SumNat
  <1>18. SumFunctionOnSet(H(u), V) = SumFunctionOnSet(F, u)
    <2>1. PICK r : r = SumFunctionOnSet(H(w), V \ {y})  OBVIOUS
    <2>2. PICK h : h = H(w)[y]  OBVIOUS
    <2>3. r \in Nat /\ h \in Nat /\ F[x] \in Nat  BY <2>1, <2>2, <1>17, Zenon
    <2>4. SumFunctionOnSet(H(u), V) = (F[x] + h) + r
      BY <2>1, <2>2, <1>12, <1>15, <1>16, Zenon
    <2>5. SumFunctionOnSet(F, u) = F[x] + (h + r)
      BY <2>1, <2>2, <1>9, <1>10, <1>11, <1>16, Zenon
    <2>6. (F[x] + h) + r = F[x] + (h + r)  BY <2>3
    <2>. QED  BY <2>4, <2>5, <2>6, Zenon
  <1>. QED  BY <1>5, <1>18, Zenon DEF Bad

-----------------------------------------------------------------------------
\* A list of as many elements as a finite set has, each once, lists them all.
LEMMA ListsAll ==
  ASSUME NEW S, IsFiniteSet(S), NEW q \in Injection(1 .. Cardinality(S), S)
  PROVE  /\ Cardinality(S) \in Nat /\ q \in [1 .. Cardinality(S) -> S]
         /\ \A i, j \in 1 .. Cardinality(S) : q[i] = q[j] => i = j
         /\ \A s \in S : \E i \in 1 .. Cardinality(S) : q[i] = s
  <1>. DEFINE n == Cardinality(S)
  <1>1. n \in Nat  BY FS_CardinalityType
  <1>2. q \in [1 .. n -> S] /\ \A i, j \in 1 .. n : q[i] = q[j] => i = j
    BY DEF Injection, IsInjective
  <1>3. q \in Injection(1 .. n, S)  OBVIOUS
  <1>4. IsFiniteSet(1 .. n) /\ Cardinality(1 .. n) = n
    BY <1>1, FS_Interval
  <1>5. q \in Surjection(1 .. n, S)
    <2>1. Cardinality(1 .. n) = Cardinality(S)  BY <1>4
    <2>. HIDE DEF n
    <2>. QED  BY <1>3, <2>1, FS_Injection
  <1>6. \A s \in S : \E i \in 1 .. n : q[i] = s
    BY <1>5 DEF Surjection
  <1>. QED  BY <1>1, <1>2, <1>6

-----------------------------------------------------------------------------
(* The records that are made.                                               *)

\* Indices are no greater than the number of records made.
IndicesAreSmall == \A i \in DOMAIN made : made[i].sidx <= i /\ made[i].ridx <= i

\* Later records have no earlier time.
TimesGrow == \A i, j \in DOMAIN made : i < j => made[i].time <= made[j].time

\* Record i of x continues the record of x made last before it.
Follows(i, x) ==
  LET before == {j \in Of(DOMAIN made, x) : j < i}
      p == prevOf(made[i], x) IN
    /\ p \in {0} \cup before
    /\ \A j \in before : j <= p
    /\ p # 0 => Index(i, x) = Index(p, x) + 1

\* A device that does not fork makes one chain.
HonestIsLinked == \A x \in Device \ Forking : \A i \in Of(DOMAIN made, x) : Follows(i, x)

Inv == TypeOK /\ IndicesAreSmall /\ TimesGrow /\ HonestIsLinked

\* What the type of the records says of one of them.
LEMMA RecordTypes ==
  ASSUME TypeOK, NEW i \in DOMAIN made
  PROVE  /\ Len(made) \in Nat /\ DOMAIN made = 1 .. Len(made) /\ i \in 1 .. Len(made)
         /\ made[i] \in Record /\ made[i].id = i
         /\ made[i].s \in Device /\ made[i].r \in Device
         /\ made[i].sidx \in Int /\ made[i].ridx \in Int /\ made[i].time \in Int
         /\ made[i].prevS \in Int /\ made[i].prevR \in Int
         /\ made[i].prevS >= 0 /\ made[i].prevR >= 0
         /\ \A x : Index(i, x) \in Int /\ prevOf(made[i], x) \in Nat /\ prevOf(made[i], x) < i
  <1>1. made \in Seq(Record)  BY DEF TypeOK
  <1>2. Len(made) \in Nat /\ DOMAIN made = 1 .. Len(made) /\ made[i] \in Record
    BY <1>1
  <1>3. made[i].id = i /\ made[i].prevS < i /\ made[i].prevR < i  BY DEF TypeOK
  <1>4. /\ made[i].s \in Device /\ made[i].r \in Device
        /\ made[i].sidx \in Int /\ made[i].ridx \in Int /\ made[i].time \in Int
        /\ made[i].prevS \in Nat /\ made[i].prevR \in Nat
    BY <1>2, WorldAssumption DEF Record
  <1>5. \A x : Index(i, x) \in Int /\ prevOf(made[i], x) \in Nat /\ prevOf(made[i], x) < i
    BY <1>3, <1>4 DEF Index, indexOf, prevOf
  <1>. QED  BY <1>2, <1>3, <1>4, <1>5

\* A device that does not fork continues after its last record.
LEMMA EndIsLast ==
  ASSUME TypeOK, HonestIsLinked, NEW x \in Device \ Forking, NEW e \in Ends(x)
  PROVE  e \in {0} \cup Of(DOMAIN made, x) /\ \A j \in Of(DOMAIN made, x) : j <= e
  <1>. DEFINE own == Of(DOMAIN made, x)
              T == {j \in own : ~(j <= e)}
  <1>1. e \in {0} \cup own /\ \A j \in ({0} \cup own) \ {0} : prevOf(made[j], x) # e
    BY DEF Ends
  <1>2. made \in Seq(Record)  BY DEF TypeOK
  <1>3. Len(made) \in Nat /\ DOMAIN made = 1 .. Len(made)  BY <1>2
  <1>4. own \subseteq DOMAIN made  BY DEF Of
  <1>5. SUFFICES ASSUME NEW z \in T PROVE FALSE
    BY <1>1
  <1>6. T \in SUBSET Nat  BY <1>3, <1>4
  <1>7. PICK m \in T : \A k \in T : m <= k
    <2>. HIDE DEF T
    <2>. QED  BY <1>5, <1>6, LeastOf
  <1>8. m \in own /\ m \in DOMAIN made /\ m \in Nat /\ e \in Nat /\ m > e /\ m # 0
    BY <1>1, <1>3, <1>4, <1>6
  <1>. DEFINE p == prevOf(made[m], x)
  <1>9. Follows(m, x)  BY <1>8 DEF HonestIsLinked
  <1>10. p \in Nat /\ p < m  BY <1>8, RecordTypes
  <1>11. p \in {0} \cup {j \in own : j < m} /\ \A j \in {j \in own : j < m} : j <= p
    BY <1>9 DEF Follows
  <1>12. p # e  BY <1>1, <1>8
  <1>. HIDE DEF p
  <1>13. p <= e
    <2>1. CASE p = 0  BY <2>1, <1>8
    <2>2. CASE p # 0
      <3>1. p \in own  BY <2>2, <1>11
      <3>2. p \notin T  BY <1>7, <1>8, <1>10
      <3>. QED  BY <3>1, <3>2
    <2>. QED  BY <2>1, <2>2
  <1>14. e <= p
    <2>1. CASE e = 0  BY <2>1, <1>10
    <2>2. CASE e # 0  BY <2>2, <1>1, <1>8, <1>11
    <2>. QED  BY <2>1, <2>2
  <1>. QED  BY <1>8, <1>10, <1>12, <1>13, <1>14

\* Only coSign makes records: the rest keeps what is said of them.
LEMMA SameRecords ==
  ASSUME UNCHANGED made, IndicesAreSmall, TimesGrow, HonestIsLinked
  PROVE  IndicesAreSmall' /\ TimesGrow' /\ HonestIsLinked'
  BY DEF IndicesAreSmall, TimesGrow, HonestIsLinked, Follows, Of, Index

\* coSign keeps the invariant: the new record continues an end of each chain.
LEMMA CoSignKeeps ==
  ASSUME Inv, NEW s \in Device, NEW r \in Device, NEW b \in Bytes, NEW t \in Time,
         coSign(s, r, b, t)
  PROVE  Inv'
  <1>. DEFINE n == Len(made) + 1
  <1>1. made \in Seq(Record) /\ Len(made) \in Nat /\ DOMAIN made = 1 .. Len(made)
    BY DEF Inv, TypeOK
  <1>2. Len(made) < MaxRecords /\ t \in Now /\ UNCHANGED <<db, evidence, session>>
    BY DEF coSign
  <1>3. PICK i \in Ends(s), j \in Ends(r) :
          made' = Append(made,
            [id |-> n, s |-> s, r |-> r, bytes |-> b, time |-> t,
             prevS |-> i, sidx |-> IF i = 0 THEN 1 ELSE Index(i, s) + 1,
             prevR |-> j, ridx |-> IF j = 0 THEN 1 ELSE Index(j, r) + 1])
    BY DEF coSign
  <1>. DEFINE si == IF i = 0 THEN 1 ELSE Index(i, s) + 1
              ri == IF j = 0 THEN 1 ELSE Index(j, r) + 1
              rec == [id |-> n, s |-> s, r |-> r, bytes |-> b, time |-> t,
                      prevS |-> i, sidx |-> si, prevR |-> j, ridx |-> ri]
  <1>4. i \in {0} \cup DOMAIN made /\ j \in {0} \cup DOMAIN made
    BY DEF Ends, Of
  <1>5. \A k \in DOMAIN made, x \in Device : Index(k, x) \in Int /\ Index(k, x) <= k /\ Index(k, x) >= 1
    <2>. SUFFICES ASSUME NEW k \in DOMAIN made
                  PROVE  \A x \in Device : Index(k, x) \in Int /\ Index(k, x) <= k /\ Index(k, x) >= 1
      OBVIOUS
    <2>1. made[k] \in Record  BY <1>1
    <2>2. made[k].sidx \in 1 .. MaxRecords /\ made[k].ridx \in 1 .. MaxRecords
      BY <2>1 DEF Record
    <2>3. made[k].sidx <= k /\ made[k].ridx <= k  BY DEF Inv, IndicesAreSmall
    <2>. QED  BY <2>2, <2>3, WorldAssumption DEF Index, indexOf
  <1>6. si \in Int /\ 1 <= si /\ si <= n /\ ri \in Int /\ 1 <= ri /\ ri <= n
    BY <1>1, <1>4, <1>5
  <1>. HIDE DEF si, ri
  <1>7. rec \in Record
    <2>1. n \in 1 .. MaxRecords /\ si \in 1 .. MaxRecords /\ ri \in 1 .. MaxRecords
      BY <1>1, <1>2, <1>6, WorldAssumption
    <2>2. i \in 0 .. MaxRecords /\ j \in 0 .. MaxRecords
      BY <1>1, <1>2, <1>4, WorldAssumption
    <2>3. t \in 0 .. MaxTime  BY DEF Time
    <2>. HIDE DEF n
    <2>. QED  BY <2>1, <2>2, <2>3 DEF Record
  <1>8. made' = Append(made, rec)  BY <1>3 DEF si, ri
  <1>9. /\ made' \in Seq(Record) /\ DOMAIN made' = 1 .. n
        /\ \A k \in DOMAIN made : made'[k] = made[k] /\ k \in 1 .. n /\ k < n
        /\ made'[n] = rec /\ n \in Nat
        /\ \A k \in 1 .. n : k \in DOMAIN made \/ k = n
    BY <1>1, <1>7, <1>8
  <1>10. /\ rec.id = n /\ rec.s = s /\ rec.r = r /\ rec.time = t
         /\ rec.prevS = i /\ rec.prevR = j /\ rec.sidx = si /\ rec.ridx = ri
    OBVIOUS
  <1>. HIDE DEF rec
  <1>11. TypeOK'
    <2>1. \A k \in DOMAIN made' : made'[k].id = k /\ made'[k].prevS < k /\ made'[k].prevR < k
      <3>. SUFFICES ASSUME NEW k \in 1 .. n
                    PROVE  made'[k].id = k /\ made'[k].prevS < k /\ made'[k].prevR < k
        BY <1>9
      <3>1. CASE k \in DOMAIN made  BY <3>1, <1>9 DEF Inv, TypeOK
      <3>2. CASE k = n  BY <3>2, <1>1, <1>4, <1>9, <1>10
      <3>. QED  BY <3>1, <3>2, <1>9
    <2>2. db' \subseteq DOMAIN made'
      BY <1>2, <1>9 DEF Inv, TypeOK
    <2>. QED  BY <2>1, <2>2, <1>2, <1>9 DEF Inv, TypeOK
  <1>12. IndicesAreSmall'
    <2>. SUFFICES ASSUME NEW k \in 1 .. n PROVE made'[k].sidx <= k /\ made'[k].ridx <= k
      BY <1>9 DEF IndicesAreSmall
    <2>1. CASE k \in DOMAIN made  BY <2>1, <1>9 DEF Inv, IndicesAreSmall
    <2>2. CASE k = n  BY <2>2, <1>6, <1>9, <1>10
    <2>. QED  BY <2>1, <2>2, <1>9
  <1>13. TimesGrow'
    <2>. SUFFICES ASSUME NEW k \in 1 .. n, NEW l \in 1 .. n, k < l
                  PROVE  made'[k].time <= made'[l].time
      BY <1>9 DEF TimesGrow
    <2>1. CASE l \in DOMAIN made
      <3>1. k \in DOMAIN made  BY <2>1, <1>1
      <3>. QED  BY <2>1, <3>1, <1>9 DEF Inv, TimesGrow
    <2>2. CASE l = n
      <3>1. k \in DOMAIN made /\ Len(made) \in DOMAIN made /\ made # <<>>  BY <2>2, <1>1
      <3>2. made[k].time \in Int /\ made[Len(made)].time \in Int
        BY <3>1, RecordTypes DEF Inv
      <3>3. made[k].time <= made[Len(made)].time
        <4>1. CASE k = Len(made)  BY <4>1, <3>2
        <4>2. CASE k # Len(made)  BY <4>2, <3>1, <1>1 DEF Inv, TimesGrow
        <4>. QED  BY <4>1, <4>2
      <3>4. made[Len(made)].time <= t /\ t \in Int
        BY <3>1, <3>2, <1>2, WorldAssumption DEF Now, Time
      <3>. QED  BY <2>2, <3>1, <3>2, <3>3, <3>4, <1>9, <1>10
    <2>. QED  BY <2>1, <2>2, <1>9
  <1>14. HonestIsLinked'
    <2>. SUFFICES ASSUME NEW x \in Device \ Forking, NEW k \in Of(DOMAIN made, x)' PROVE Follows(k, x)'
      BY DEF HonestIsLinked
    <2>. DEFINE own == Of(DOMAIN made, x)
    <2>1. k \in 1 .. n /\ Of(DOMAIN made, x)' \subseteq 1 .. n  BY <1>9 DEF Of
    <2>2. own \subseteq DOMAIN made /\ \A l \in DOMAIN made : l \in own <=> l \in Of(DOMAIN made, x)'
      BY <1>9 DEF Of
    <2>3. {l \in Of(DOMAIN made, x)' : l < k} = {l \in own : l < k}
      <3>1. \A l \in 1 .. n : l < k => l \in DOMAIN made  BY <2>1, <1>1
      <3>2. own \subseteq Of(DOMAIN made, x)'  BY <2>2
      <3>. HIDE DEF own
      <3>. QED  BY <3>1, <3>2, <2>1, <2>2
    <2>4. \A l \in DOMAIN made : Index(l, x)' = Index(l, x)
      BY <1>9 DEF Index
    <2>5. CASE k \in DOMAIN made
      <3>1. k \in own /\ Follows(k, x)  BY <2>2, <2>5 DEF Inv, HonestIsLinked
      <3>2. prevOf(made[k], x)' = prevOf(made[k], x)  BY <2>5, <1>9
      <3>3. prevOf(made[k], x) # 0 => prevOf(made[k], x) \in DOMAIN made
        BY <3>1, <2>2 DEF Follows
      <3>4. Index(k, x)' = Index(k, x)  BY <2>4, <2>5
      <3>5. prevOf(made[k], x) # 0 =>
               Index(prevOf(made[k], x), x)' = Index(prevOf(made[k], x), x)
        BY <3>2, <3>3, <2>4
      <3>. QED  BY <3>1, <3>2, <3>4, <3>5, <2>3 DEF Follows
    <2>6. CASE k = n
      <3>0. PICK e : e = prevOf(rec, x)  OBVIOUS
      <3>1. x \in {s, r}  BY <2>6, <1>9, <1>10 DEF Of
      <3>2. e \in Ends(x) /\ (e # 0 => indexOf(rec, x) = Index(e, x) + 1)
        BY <3>0, <3>1, <1>10 DEF prevOf, indexOf, si, ri
      <3>3. e \in {0} \cup own /\ \A l \in own : l <= e
        BY <3>2, EndIsLast DEF Inv
      <3>4. {l \in own : l < k} = own  BY <2>2, <2>6, <1>9
      <3>5. prevOf(made[k], x)' = e /\ Index(k, x)' = indexOf(rec, x)
        BY <3>0, <2>6, <1>9 DEF Index
      <3>6. e # 0 => Index(e, x)' = Index(e, x)
        BY <3>3, <2>2, <2>4
      <3>. QED  BY <3>2, <3>3, <3>4, <3>5, <3>6, <2>3 DEF Follows
    <2>. QED  BY <2>1, <2>5, <2>6, <1>9
  <1>. QED  BY <1>11, <1>12, <1>13, <1>14 DEF Inv

\* The node's own steps touch no record that is made.
LEMMA NodeKeeps ==
  ASSUME Inv, UNCHANGED made,
         db' \subseteq DOMAIN made, evidence' \subseteq Device,
         session' \in [state : {"VERIFYING", "TRANSFERRING", "REJECTED", "FAILED"}, peer : Device]
  PROVE  Inv'
  <1>1. IndicesAreSmall' /\ TimesGrow' /\ HonestIsLinked'
    BY SameRecords DEF Inv
  <1>2. TypeOK'  BY DEF Inv, TypeOK
  <1>. QED  BY <1>1, <1>2 DEF Inv

\* The invariant holds in every reachable state.
THEOREM Invariance == Spec => []Inv
  <1>. USE WorldAssumption
  <1>1. Init => Inv
    <2>. SUFFICES ASSUME Init PROVE Inv
      OBVIOUS
    <2>1. made = <<>> /\ DOMAIN made = {} /\ db = {} /\ evidence = {}
          /\ session \in [state : {"REJECTED"}, peer : Subject]
      BY DEF Init
    <2>2. TypeOK  BY <2>1 DEF TypeOK
    <2>. QED  BY <2>1, <2>2 DEF Inv, IndicesAreSmall, TimesGrow, HonestIsLinked, Of
  <1>2. Inv /\ [Next]_vars => Inv'
    <2>. SUFFICES ASSUME Inv, [Next]_vars PROVE Inv'
      OBVIOUS
    <2>. DEFINE Sessions == [state : {"VERIFYING", "TRANSFERRING", "REJECTED", "FAILED"}, peer : Device]
    <2>0. db \subseteq DOMAIN made /\ evidence \subseteq Device /\ session \in Sessions
      BY DEF Inv, TypeOK
    <2>1. ASSUME NEW p \in Pair, NEW b \in Bytes, NEW t \in Time, coSign(p[1], p[2], b, t)
          PROVE  Inv'
      <3>1. p[1] \in Device /\ p[2] \in Device  OBVIOUS
      <3>. QED  BY <2>1, <3>1, CoSignKeeps
    <2>2. ASSUME NEW i \in DOMAIN made, handleShareRecord(i) PROVE Inv'
      <3>1. UNCHANGED <<made, session>> /\ db' = db \cup {i}  BY <2>2 DEF handleShareRecord
      <3>2. evidence' = evidence  BY <2>2 DEF handleShareRecord, InsertForkEvidence
      <3>. QED  BY <2>0, <3>1, <3>2, NodeKeeps
    <2>3. ASSUME NEW x \in Device, learnFork(x) PROVE Inv'
      <3>1. UNCHANGED <<made, db, session>> /\ evidence' = evidence \cup {x}
        BY <2>3 DEF learnFork, InsertForkEvidence
      <3>. QED  BY <2>0, <3>1, NodeKeeps
    <2>4. ASSUME NEW x \in Subject, openSession(x) PROVE Inv'
      <3>1. UNCHANGED <<made, db, evidence>> /\ session' \in Sessions  BY <2>4 DEF openSession
      <3>. QED  BY <2>0, <3>1, NodeKeeps
    <2>5. CASE failVerifying
      <3>1. UNCHANGED <<made, db, evidence>> /\ session' \in Sessions
        BY <2>0, <2>5 DEF failVerifying
      <3>. QED  BY <2>0, <3>1, NodeKeeps
    <2>6. ASSUME NEW hs, NEW now, handleVerifying(hs, now) PROVE Inv'
      <3>1. UNCHANGED <<made, db, evidence>>  BY <2>6 DEF handleVerifying
      <3>2. \E st \in {"TRANSFERRING", "REJECTED"} : session' = [session EXCEPT !.state = st]
        BY <2>6 DEF handleVerifying
      <3>3. session' \in Sessions  BY <2>0, <3>2
      <3>. QED  BY <2>0, <3>1, <3>3, NodeKeeps
    <2>7. CASE UNCHANGED vars
      BY <2>0, <2>7, NodeKeeps DEF vars
    <2>. QED  BY <2>1, <2>2, <2>3, <2>4, <2>5, <2>6, <2>7 DEF Next
  <1>. QED  BY <1>1, <1>2, PTL DEF Spec

-----------------------------------------------------------------------------
(* What GetRecordsByDevice returns.                                         *)

\* q has the record of every row of S, each once, by time.
ListsRows(q, S) ==
  \E n \in Nat : \E p \in [1 .. n -> S] :
    /\ Len(q) = n /\ \A a \in 1 .. n : q[a] = made[p[a]]
    /\ \A i \in S : \E a \in 1 .. n : p[a] = i
    /\ \A a, b \in 1 .. n : p[a] = p[b] => a = b
    /\ \A a \in 1 .. n - 1 : made[p[a]].time <= made[p[a + 1]].time

\* A limit no smaller than the ledger cuts nothing: each selected row is
\* returned once, by time.
LEMMA AllRowsAreRead ==
  ASSUME Inv, NEW x, NEW from, NEW limit \in Nat, Len(made) <= limit,
         NEW q \in GetRecordsByDevice(x, from, limit)
  PROVE  q \in Seq(Record) /\ ListsRows(q, RowsFrom(x, from))
  <1>. DEFINE S == RowsFrom(x, from)
  <1>1. made \in Seq(Record) /\ Len(made) \in Nat /\ DOMAIN made = 1 .. Len(made)
    BY DEF Inv, TypeOK
  <1>2. S \subseteq DOMAIN made
    BY DEF RowsFrom, Of, Inv, TypeOK
  <1>3. /\ IsFiniteSet(1 .. Len(made)) /\ Cardinality(1 .. Len(made)) = Len(made)
    <2>1. PICK N \in Nat : N = Len(made)  BY <1>1
    <2>2. IsFiniteSet(1 .. N) /\ Cardinality(1 .. N) = N  BY FS_Interval
    <2>. QED  BY <2>1, <2>2
  <1>4. IsFiniteSet(S) /\ Cardinality(S) <= Len(made)
    <2>1. S \subseteq 1 .. Len(made)  BY <1>1, <1>2
    <2>. HIDE DEF S
    <2>. QED  BY <2>1, <1>3, FS_Subset
  <1>5. PICK p \in Injection(1 .. Cardinality(S), S) :
          /\ q = Rows(SubSeq(p, 1, Min({limit, Len(p)})))
          /\ \A i \in 1 .. Len(p) - 1 : made[p[i]].time <= made[p[i + 1]].time
    BY DEF GetRecordsByDevice, OrderBy, RowsFrom
  <1>. DEFINE n == Cardinality(S)
  <1>6. /\ n \in Nat /\ p \in [1 .. n -> S]
        /\ \A i, j \in 1 .. n : p[i] = p[j] => i = j
        /\ \A s \in S : \E i \in 1 .. n : p[i] = s
    <2>. HIDE DEF S
    <2>. QED  BY <1>4, ListsAll
  <1>7. n <= limit  BY <1>1, <1>4, <1>6
  <1>. HIDE DEF n, S
  <1>8. p \in Seq(S) /\ Len(p) = n /\ DOMAIN p = 1 .. n
    BY <1>6
  <1>9. Min({limit, n}) = n
    <2>1. n \in {limit, n} /\ \A y \in {limit, n} : n <= y  BY <1>6, <1>7
    <2>2. \A z \in {limit, n} : (\A y \in {limit, n} : z <= y) => z = n
      BY <1>6, <1>7
    <2>. QED  BY <2>1, <2>2 DEF Min
  <1>10. SubSeq(p, 1, n) = p  BY <1>6, <1>8
  <1>11. q = [i \in 1 .. n |-> made[p[i]]]
    BY <1>5, <1>8, <1>9, <1>10 DEF Rows
  <1>12. Len(q) = n /\ \A a \in 1 .. n : q[a] = made[p[a]]
    BY <1>6, <1>11
  <1>13. \A i \in S : \E a \in 1 .. n : p[a] = i  BY <1>6
  <1>14. \A a \in 1 .. n - 1 : made[p[a]].time <= made[p[a + 1]].time
    BY <1>5, <1>8
  <1>15. q \in Seq(Record)
    <2>1. \A i \in 1 .. n : p[i] \in DOMAIN made  BY <1>2, <1>6
    <2>2. \A i \in 1 .. n : made[p[i]] \in Record  BY <2>1, <1>1
    <2>3. q \in [1 .. n -> Record]  BY <2>2, <1>11
    <2>. QED  BY <2>3, <1>6
  <1>16. ListsRows(q, S)  BY <1>6, <1>12, <1>13, <1>14 DEF ListsRows
  <1>. QED  BY <1>15, <1>16 DEF S

\* A segment that VerifyChainSegment accepts has no index twice.
LEMMA VerifiedIsIncreasing ==
  ASSUME NEW n \in Nat, NEW q, Len(q) = n, NEW x,
         \A a \in 1 .. n : indexOf(q[a], x) \in Int,
         VerifyChainSegment(q, x),
         NEW a \in 1 .. n, NEW b \in 1 .. n, a < b
  PROVE  indexOf(q[a], x) < indexOf(q[b], x)
  <1>. DEFINE g == [k \in 1 .. n |-> indexOf(q[k], x)]
  <1>1. g \in [1 .. n -> Int]  OBVIOUS
  <1>2. \A i \in 1 .. n - 1 : g[i] < g[i + 1]
    <2>. SUFFICES ASSUME NEW i \in 1 .. n - 1 PROVE g[i] < g[i + 1]
      OBVIOUS
    <2>1. i \in 1 .. n /\ i + 1 \in 1 .. n  OBVIOUS
    <2>2. indexOf(q[i + 1], x) = indexOf(q[i], x) + 1  BY DEF VerifyChainSegment
    <2>3. indexOf(q[i], x) \in Int /\ indexOf(q[i + 1], x) \in Int  BY <2>1
    <2>. QED  BY <2>1, <2>2, <2>3
  <1>3. g[a] < g[b]
    <2>. HIDE DEF g
    <2>. QED  BY <1>1, <1>2, StepwiseGrowth
  <1>. QED  BY <1>3

\* In a state of the invariant, a ledger no longer than the query's limit lets
\* no device pass that has two stored records at one place of its chain.
LEMMA ForksAreStopped ==
  ASSUME Inv, Len(made) <= FetchLimit
  PROVE  BranchesAreRejected
  <1>. SUFFICES ASSUME NEW x \in Subject, NEW cp \in Checkpoints(x), NEW now \in Now,
                       PassesOnStored(x, cp, now),
                       NEW i \in Since(x, cp), NEW j \in Since(x, cp),
                       Index(i, x) = Index(j, x), i # j
                PROVE  FALSE
    BY DEF BranchesAreRejected
  <1>1. PICK q \in GetRecordsByDevice(x, cp.index, FetchLimit) : VerifyChainSegment(q, x)
    BY DEF PassesOnStored, EvaluatePolicy, lightRules, strictRules, NONE, LIGHT, STRICT
  <1>. DEFINE S == RowsFrom(x, cp.index)
  <1>2. i \in S /\ j \in S
    BY DEF Since, RowsFrom, Index, indexOf
  <1>3. FetchLimit \in Nat  BY WorldAssumption
  <1>listed. ListsRows(q, S)  BY <1>1, <1>3, AllRowsAreRead
  <1>0. PICK n \in Nat : \E p \in [1 .. n -> S] :
           /\ Len(q) = n /\ \A a \in 1 .. n : q[a] = made[p[a]]
           /\ \A k \in S : \E a \in 1 .. n : p[a] = k
    BY <1>listed DEF ListsRows
  <1>4. PICK p \in [1 .. n -> S] :
           /\ Len(q) = n /\ \A a \in 1 .. n : q[a] = made[p[a]]
           /\ \A k \in S : \E a \in 1 .. n : p[a] = k
    BY <1>0
  <1>5. S \subseteq DOMAIN made  BY DEF RowsFrom, Of, Inv, TypeOK
  <1>. HIDE DEF S
  <1>6. \A a \in 1 .. n : indexOf(q[a], x) = Index(p[a], x) /\ indexOf(q[a], x) \in Int
    <2>. SUFFICES ASSUME NEW a \in 1 .. n
                  PROVE  indexOf(q[a], x) = Index(p[a], x) /\ indexOf(q[a], x) \in Int
      OBVIOUS
    <2>1. p[a] \in DOMAIN made  BY <1>5
    <2>2. Index(p[a], x) \in Int  BY <2>1, RecordTypes DEF Inv
    <2>. QED  BY <2>2, <1>4 DEF Index
  <1>7. PICK a \in 1 .. n : p[a] = i  BY <1>2, <1>4
  <1>8. PICK b \in 1 .. n : p[b] = j  BY <1>2, <1>4
  <1>9. indexOf(q[a], x) = indexOf(q[b], x) /\ indexOf(q[a], x) \in Int
    BY <1>6, <1>7, <1>8
  <1>10. CASE a < b
    <2>1. indexOf(q[a], x) < indexOf(q[b], x)
      BY <1>1, <1>4, <1>6, <1>10, VerifiedIsIncreasing
    <2>. QED  BY <2>1, <1>9
  <1>11. CASE b < a
    <2>1. indexOf(q[b], x) < indexOf(q[a], x)
      BY <1>1, <1>4, <1>6, <1>11, VerifiedIsIncreasing
    <2>. QED  BY <2>1, <1>9
  <1>. QED  BY <1>7, <1>8, <1>10, <1>11

\* Ordering the records of a device by time orders them as they were made, when
\* no two have the same time.
LEMMA ReadAsMade ==
  ASSUME Inv, NEW x, HasWhole(x),
         NEW n \in Nat, NEW p \in [1 .. n -> Of(db, x)],
         \A a, b \in 1 .. n : p[a] = p[b] => a = b,
         \A a \in 1 .. n - 1 : made[p[a]].time <= made[p[a + 1]].time,
         NEW a \in 1 .. n, NEW b \in 1 .. n, a < b
  PROVE  p[a] < p[b]
  <1>. DEFINE g == [k \in 1 .. n |-> made[p[k]].time]
  <1>1. \A k \in 1 .. n : p[k] \in DOMAIN made /\ p[k] \in Of(db, x)
    BY DEF Of, Inv, TypeOK
  <1>2. \A k \in 1 .. n : p[k] \in Int /\ made[p[k]].time \in Int
    <2>1. \A i \in DOMAIN made : i \in Int /\ made[i].time \in Int
      <3>. SUFFICES ASSUME NEW i \in DOMAIN made PROVE i \in Int /\ made[i].time \in Int
        OBVIOUS
      <3>1. Len(made) \in Nat /\ i \in 1 .. Len(made) /\ made[i].time \in Int
        BY RecordTypes, Zenon DEF Inv
      <3>. QED  BY <3>1
    <2>. QED  BY <1>1, <2>1, Zenon
  <1>3. g \in [1 .. n -> Int]  BY <1>2
  <1>4. \A k \in 1 .. n - 1 : g[k] <= g[k + 1]
    <2>. SUFFICES ASSUME NEW k \in 1 .. n - 1 PROVE g[k] <= g[k + 1]
      OBVIOUS
    <2>1. k \in 1 .. n /\ k + 1 \in 1 .. n  OBVIOUS
    <2>. QED  BY <2>1
  <1>5. g[a] <= g[b]
    <2>. HIDE DEF g
    <2>. QED  BY <1>3, <1>4, StepwiseOrder
  <1>6. made[p[a]].time <= made[p[b]].time  BY <1>5
  <1>7. p[a] # p[b] /\ made[p[a]].time # made[p[b]].time
    BY <1>1 DEF HasWhole
  <1>8. ASSUME p[b] < p[a] PROVE FALSE
    <2>1. made[p[b]].time <= made[p[a]].time  BY <1>1, <1>8 DEF Inv, TimesGrow
    <2>. QED  BY <2>1, <1>2, <1>6, <1>7
  <1>. QED  BY <1>2, <1>7, <1>8

\* In a state of the invariant, the complete chain of a device that did not
\* fork is accepted.
LEMMA HonestPasses ==
  ASSUME Inv
  PROVE  HonestChainVerifies
  <1>. SUFFICES ASSUME NEW x \in Device \ Forking, HasWhole(x),
                       NEW q \in GetRecordsByDevice(x, 0, MaxRecords + 1)
                PROVE  VerifyChainSegment(q, x)
    BY DEF HonestChainVerifies
  <1>. DEFINE own == Of(DOMAIN made, x)
  <1>1. made \in Seq(Record) /\ Len(made) \in Nat /\ DOMAIN made = 1 .. Len(made)
    BY DEF Inv, TypeOK
  <1>2. MaxRecords + 1 \in Nat /\ Len(made) <= MaxRecords + 1
    <2>1. CASE Len(made) = 0  BY <2>1, WorldAssumption
    <2>2. CASE Len(made) # 0
      <3>1. Len(made) \in DOMAIN made  BY <2>2, <1>1
      <3>2. made[Len(made)].id = Len(made) /\ made[Len(made)] \in Record
        BY <3>1, RecordTypes DEF Inv
      <3>3. made[Len(made)].id \in 1 .. MaxRecords  BY <3>2 DEF Record
      <3>. QED  BY <3>2, <3>3, <1>1, WorldAssumption
    <2>. QED  BY <2>1, <2>2
  <1>3. Of(db, x) = own
    BY DEF HasWhole, Of, Inv, TypeOK
  <1>4. RowsFrom(x, 0) = Of(db, x)
    <2>1. \A i \in Of(db, x) : made[i].sidx >= 0
      <3>. SUFFICES ASSUME NEW i \in Of(db, x) PROVE made[i].sidx >= 0
        OBVIOUS
      <3>1. i \in DOMAIN made  BY DEF Of, Inv, TypeOK
      <3>2. made[i] \in Record  BY <3>1, RecordTypes DEF Inv
      <3>3. made[i].sidx \in 1 .. MaxRecords  BY <3>2 DEF Record
      <3>. QED  BY <3>3
    <2>. QED  BY <2>1 DEF RowsFrom
  <1>5. PICK n \in Nat : \E p \in [1 .. n -> Of(db, x)] :
           /\ Len(q) = n /\ \A a \in 1 .. n : q[a] = made[p[a]]
           /\ \A i \in Of(db, x) : \E a \in 1 .. n : p[a] = i
           /\ \A a, b \in 1 .. n : p[a] = p[b] => a = b
           /\ \A a \in 1 .. n - 1 : made[p[a]].time <= made[p[a + 1]].time
    <2>1. ListsRows(q, RowsFrom(x, 0))
      <3>1. PICK limit \in Nat : limit = MaxRecords + 1  BY <1>2
      <3>2. Len(made) <= limit /\ q \in GetRecordsByDevice(x, 0, limit)  BY <3>1, <1>2
      <3>. QED  BY <3>2, AllRowsAreRead
    <2>2. ListsRows(q, Of(db, x))  BY <2>1, <1>4
    <2>. QED  BY <2>2 DEF ListsRows
  <1>6. PICK p \in [1 .. n -> Of(db, x)] :
           /\ Len(q) = n /\ \A a \in 1 .. n : q[a] = made[p[a]]
           /\ \A i \in Of(db, x) : \E a \in 1 .. n : p[a] = i
           /\ \A a, b \in 1 .. n : p[a] = p[b] => a = b
           /\ \A a \in 1 .. n - 1 : made[p[a]].time <= made[p[a + 1]].time
    BY <1>5
  <1>7. \A a, b \in 1 .. n : a < b => p[a] < p[b]
    <2>. SUFFICES ASSUME NEW a \in 1 .. n, NEW b \in 1 .. n, a < b PROVE p[a] < p[b]
      OBVIOUS
    <2>1. /\ \A k, l \in 1 .. n : p[k] = p[l] => k = l
          /\ \A k \in 1 .. n - 1 : made[p[k]].time <= made[p[k + 1]].time
      BY <1>6
    <2>. QED  BY <2>1, ReadAsMade
  <1>. SUFFICES ASSUME NEW a \in 1 .. n - 1
                PROVE  /\ prevOf(q[a + 1], x) = q[a].id
                       /\ indexOf(q[a + 1], x) = indexOf(q[a], x) + 1
    BY <1>6 DEF VerifyChainSegment
  <1>8. a \in 1 .. n /\ a + 1 \in 1 .. n /\ a < a + 1  OBVIOUS
  <1>9. PICK u, v : u = p[a] /\ v = p[a + 1]  OBVIOUS
  <1>10. u \in own /\ v \in own /\ u \in DOMAIN made /\ v \in DOMAIN made
    BY <1>3, <1>8, <1>9 DEF Of
  <1>11. u < v /\ u \in Nat /\ v \in Nat /\ u >= 1
    BY <1>1, <1>7, <1>8, <1>9, <1>10
  <1>12. PICK w : w = prevOf(made[v], x)  OBVIOUS
  <1>13. w \in Nat /\ w < v  BY <1>10, <1>12, RecordTypes DEF Inv
  <1>14. /\ w \in {0} \cup {j \in own : j < v} /\ u <= w
         /\ w # 0 => Index(v, x) = Index(w, x) + 1
    BY <1>10, <1>11, <1>12 DEF Inv, HonestIsLinked, Follows
  <1>15. w # 0 /\ w \in own  BY <1>11, <1>13, <1>14
  <1>16. PICK c \in 1 .. n : p[c] = w  BY <1>3, <1>6, <1>15
  <1>17. c = a
    <2>1. ~(a + 1 < c)
      <3>1. a + 1 < c => v < w  BY <1>7, <1>8, <1>9, <1>16
      <3>. QED  BY <3>1, <1>11, <1>13
    <2>2. c # a + 1  BY <1>9, <1>11, <1>13, <1>16
    <2>3. ~(c < a)
      <3>1. c < a => w < u  BY <1>7, <1>8, <1>9, <1>16
      <3>. QED  BY <3>1, <1>11, <1>13, <1>14
    <2>. QED  BY <2>1, <2>2, <2>3
  <1>18. w = u  BY <1>9, <1>16, <1>17
  <1>19. q[a] = made[u] /\ q[a + 1] = made[v]  BY <1>6, <1>8, <1>9
  <1>20. made[u].id = u  BY <1>10, RecordTypes DEF Inv
  <1>. QED  BY <1>12, <1>14, <1>15, <1>18, <1>19, <1>20 DEF Index

-----------------------------------------------------------------------------
(* What credit is worth.                                                    *)

\* Dividing by a count makes nothing larger.
LEMMA DivAtMost ==
  ASSUME NEW a \in Nat, NEW c \in Nat \ {0}
  PROVE  a \div c \in Nat /\ a \div c <= a
  <1>. DEFINE d == a \div c
  <1>1. d \in Int /\ c * d <= a /\ a < c * d + c
    OBVIOUS
  <1>2. d >= 0  BY <1>1
  <1>3. c * d >= d  BY <1>1, <1>2
  <1>. QED  BY <1>1, <1>2, <1>3

\* What is left of a record's worth is between nothing and all of it.
LEMMA DecayIsPartial ==
  ASSUME NEW raw \in Nat, NEW time, NEW now
  PROVE  DecayedValue(raw, time, now) \in 0 .. raw
  <1>. DEFINE S == {0} \cup {v \in 1 .. raw : v ^ HalfLife * 2 ^ (now - time) <= raw ^ HalfLife}
  <1>1. S \subseteq 0 .. raw /\ 0 \in S
    <2>1. {v \in 1 .. raw : v ^ HalfLife * 2 ^ (now - time) <= raw ^ HalfLife} \subseteq 1 .. raw
      BY Zenon
    <2>2. \A T \in SUBSET (1 .. raw) : {0} \cup T \subseteq 0 .. raw  OBVIOUS
    <2>. QED  BY <2>1, <2>2, Zenon
  <1>2. Max(S) \in S
    <2>. HIDE DEF S
    <2>1. S \in SUBSET Int /\ raw \in Int /\ \A v \in S : v <= raw  BY <1>1
    <2>. QED  BY <1>1, <2>1, MaxIsMember
  <1>3. DecayedValue(raw, time, now) = IF now < time THEN raw ELSE Max(S)
    BY Zenon DEF DecayedValue
  <1>4. raw \in 0 .. raw  OBVIOUS
  <1>. HIDE DEF S
  <1>. QED  BY <1>1, <1>2, <1>3, <1>4, Zenon

\* The drip is at most MaxBalance, and nothing for a device without age.
LEMMA DripIsCapped ==
  ASSUME NEW created \in Int, NEW now \in Int
  PROVE  /\ ComputeDripAllowance(created, now) \in Int
         /\ ComputeDripAllowance(created, now) <= MaxBalance
         /\ created = now => ComputeDripAllowance(created, now) = 0
  <1>. DEFINE drip == ((now - created) * DripRate) \div Day
  <1>1. DripRate \in Nat /\ MaxBalance \in Nat /\ Day \in Nat \ {0}  BY ParamsAssumption
  <1>2. drip \in Int  BY <1>1
  <1>3. created = now => drip = 0
    <2>1. created = now => (now - created) * DripRate = 0  BY <1>1
    <2>2. 0 \div Day = 0  BY <1>1
    <2>. QED  BY <2>1, <2>2
  <1>4. ComputeDripAllowance(created, now) =
          IF now < created THEN 0 ELSE IF drip > MaxBalance THEN MaxBalance ELSE drip
    BY DEF ComputeDripAllowance
  <1>. HIDE DEF drip
  <1>. QED  BY <1>1, <1>2, <1>3, <1>4

\* The bytes of the rows q that x sent, and that it received.
SentBytes(q, x) == SumFunctionOnSet([i \in Sent(q, x) |-> q[i].bytes], Sent(q, x))
ReceivedBytes(q, x) == SumFunctionOnSet([i \in Received(q, x) |-> q[i].bytes], Received(q, x))

\* What the types of rows say.
LEMMA RowTypes ==
  ASSUME NEW q \in Seq(Record), NEW x
  PROVE  /\ Len(q) \in Nat /\ DOMAIN q = 1 .. Len(q) /\ \A i \in DOMAIN q : q[i].bytes \in Nat
         /\ IsFiniteSet(Sent(q, x)) /\ Sent(q, x) \subseteq DOMAIN q
         /\ IsFiniteSet(Received(q, x)) /\ Received(q, x) \subseteq DOMAIN q
         /\ SentBytes(q, x) \in Nat /\ ReceivedBytes(q, x) \in Nat
  <1>1. Len(q) \in Nat /\ DOMAIN q = 1 .. Len(q)  OBVIOUS
  <1>2. \A i \in DOMAIN q : q[i].bytes \in Nat
    <2>. SUFFICES ASSUME NEW i \in DOMAIN q PROVE q[i].bytes \in Nat
      OBVIOUS
    <2>1. q[i] \in Record  BY <1>1
    <2>. QED  BY <2>1, WorldAssumption DEF Record
  <1>3. Sent(q, x) \subseteq DOMAIN q /\ Received(q, x) \subseteq DOMAIN q
    BY DEF Sent, Received
  <1>4. IsFiniteSet(DOMAIN q)
    <2>1. PICK n \in Nat : n = Len(q)  BY <1>1
    <2>2. IsFiniteSet(1 .. n)  BY FS_Interval
    <2>. QED  BY <1>1, <2>1, <2>2
  <1>5. IsFiniteSet(Sent(q, x)) /\ IsFiniteSet(Received(q, x))
    BY <1>3, <1>4, FS_Subset
  <1>6. SentBytes(q, x) \in Nat /\ ReceivedBytes(q, x) \in Nat
    <2>. DEFINE F(S) == [i \in S |-> q[i].bytes]
    <2>1. ASSUME NEW S \in SUBSET DOMAIN q, IsFiniteSet(S) PROVE SumFunctionOnSet(F(S), S) \in Nat
      <3>1. \A i \in S : F(S)[i] \in Nat  BY <1>2
      <3>. HIDE DEF F
      <3>. QED  BY <2>1, <3>1, SumNat
    <2>2. SumFunctionOnSet(F(Sent(q, x)), Sent(q, x)) \in Nat  BY <2>1, <1>3, <1>5
    <2>3. SumFunctionOnSet(F(Received(q, x)), Received(q, x)) \in Nat  BY <2>1, <1>3, <1>5
    <2>. QED  BY <2>2, <2>3 DEF SentBytes, ReceivedBytes
  <1>. QED  BY <1>1, <1>2, <1>3, <1>5, <1>6

\* The window is a part of the rows: its positions, moved by an offset.
LEMMA WindowIsPart ==
  ASSUME NEW q \in Seq(Record)
  PROVE  /\ Window(q) \in Seq(Record)
         /\ \E o \in Nat : \A i \in DOMAIN Window(q) : i + o \in DOMAIN q /\ Window(q)[i] = q[i + o]
  <1>1. Len(q) \in Nat /\ DOMAIN q = 1 .. Len(q) /\ WindowSize \in Nat  BY ParamsAssumption
  <1>2. CASE Len(q) > WindowSize
    <2>. DEFINE o == Len(q) - WindowSize
                w == SubSeq(q, o + 1, Len(q))
    <2>1. Window(q) = w  BY <1>2 DEF Window
    <2>2. o \in Nat  BY <1>1, <1>2
    <2>3. w \in Seq(Record) /\ Len(w) = WindowSize /\ DOMAIN w = 1 .. WindowSize
          /\ \A i \in 1 .. WindowSize : w[i] = q[i + o]
      BY <1>1, <2>2
    <2>4. \A i \in DOMAIN w : i + o \in DOMAIN q /\ w[i] = q[i + o]
      <3>1. \A i \in 1 .. WindowSize : i + o \in 1 .. Len(q)  BY <1>1, <2>2
      <3>. HIDE DEF w, o
      <3>. QED  BY <2>3, <3>1, <1>1
    <2>. HIDE DEF w, o
    <2>. QED  BY <2>1, <2>2, <2>3, <2>4
  <1>3. CASE ~(Len(q) > WindowSize)
    <2>1. Window(q) = q  BY <1>3 DEF Window
    <2>2. 0 \in Nat /\ \A i \in DOMAIN q : i + 0 \in DOMAIN q /\ q[i] = q[i + 0]  BY <1>1
    <2>. QED  BY <2>1, <2>2
  <1>. QED  BY <1>2, <1>3

\* The diversity weighting credits no more than the bytes that were sent.
LEMMA WeightedIsPartial ==
  ASSUME NEW q \in Seq(Record), NEW x
  PROVE  DiversityWeightedCredit(q, x) \in Nat /\ DiversityWeightedCredit(q, x) <= SentBytes(q, x)
  <1>. DEFINE w == Window(q)
              A == Sent(w, x)
              B == Sent(q, x)
              count(r) == Cardinality({i \in A : w[i].r = r})
              F == [i \in A |-> w[i].bytes \div count(w[i].r)]
              G == [i \in B |-> q[i].bytes]
  <1>1. w \in Seq(Record)  BY WindowIsPart
  <1>2. PICK o \in Nat : \A i \in DOMAIN w : i + o \in DOMAIN q /\ w[i] = q[i + o]
    BY WindowIsPart
  <1>3. /\ IsFiniteSet(A) /\ A \subseteq DOMAIN w /\ \A i \in DOMAIN w : w[i].bytes \in Nat
        /\ DOMAIN w \subseteq Nat
    <2>. HIDE DEF w
    <2>. QED  BY <1>1, RowTypes
  <1>4. /\ IsFiniteSet(B) /\ B \subseteq DOMAIN q /\ \A i \in DOMAIN q : q[i].bytes \in Nat
    BY RowTypes
  <1>5. ASSUME NEW i \in A PROVE w[i].bytes \div count(w[i].r) \in Nat
                                 /\ w[i].bytes \div count(w[i].r) <= w[i].bytes
    <2>. DEFINE C == {j \in A : w[j].r = w[i].r}
    <2>1. C \in SUBSET A /\ i \in C  OBVIOUS
    <2>2. Cardinality(C) \in Nat \ {0}
      <3>. HIDE DEF C, A, w
      <3>1. IsFiniteSet(C)  BY <1>3, <2>1, FS_Subset
      <3>2. Cardinality(C) \in Nat /\ Cardinality(C) # 0  BY <2>1, <3>1, FS_CardinalityType, FS_EmptySet
      <3>. QED  BY <3>2
    <2>3. count(w[i].r) = Cardinality(C)  OBVIOUS
    <2>4. w[i].bytes \in Nat  BY <1>3
    <2>. HIDE DEF C, count, w, A
    <2>. QED  BY <2>2, <2>3, <2>4, DivAtMost
  <1>6. DiversityWeightedCredit(q, x) = SumFunctionOnSet(F, A)
    BY DEF DiversityWeightedCredit, SumFunction
  <1>7. \A i \in A : F[i] \in Nat /\ F[i] <= w[i].bytes
    <2>. HIDE DEF A, w, count
    <2>. QED  BY <1>5
  <1>8. \A i \in B : G[i] \in Nat /\ G[i] = q[i].bytes  BY <1>4
  <1>. DEFINE p == [i \in A |-> i + o]
  <1>9. \A i \in A : p[i] = i + o /\ p[i] \in B /\ q[p[i]] = w[i]
    <2>. SUFFICES ASSUME NEW i \in A PROVE p[i] = i + o /\ p[i] \in B /\ q[p[i]] = w[i]
      OBVIOUS
    <2>1. i \in DOMAIN w /\ w[i].s = x  BY DEF Sent
    <2>2. i + o \in DOMAIN q /\ w[i] = q[i + o]  BY <1>2, <2>1
    <2>3. i + o \in B  BY <2>1, <2>2 DEF Sent
    <2>. HIDE DEF A, B, w
    <2>. QED  BY <2>2, <2>3
  <1>10. \A i \in A : F[i] <= G[p[i]]
    <2>. HIDE DEF F, G, A, B, w, p
    <2>. QED  BY <1>7, <1>8, <1>9
  <1>11. \A i, j \in A : p[i] = p[j] => i = j
    <2>1. A \subseteq Nat  BY <1>3
    <2>. HIDE DEF A
    <2>. QED  BY <2>1
  <1>12. SentBytes(q, x) = SumFunctionOnSet(G, B)  BY DEF SentBytes
  <1>. HIDE DEF F, G, A, B, w, p
  <1>13. SumFunctionOnSet(F, A) <= SumFunctionOnSet(G, B)
    BY <1>3, <1>4, <1>7, <1>8, <1>9, <1>10, <1>11, SumInjects
  <1>14. SumFunctionOnSet(F, A) \in Nat  BY <1>3, <1>7, SumNat
  <1>. QED  BY <1>6, <1>12, <1>13, <1>14

\* Sharing earns at most the bytes sent; receiving costs all bytes received.
LEMMA BalanceIsBounded ==
  ASSUME NEW q \in Seq(Record), NEW x, NEW created \in Int, NEW now \in Int
  PROVE  /\ ComputeEffectiveBalance(q, x, created, now) \in Int
         /\ ComputeEffectiveBalance(q, x, created, now) + ReceivedBytes(q, x)
              <= ComputeDripAllowance(created, now) + SentBytes(q, x)
  <1>. DEFINE P == [i \in Sent(q, x) |-> q[i].bytes - DecayedValue(q[i].bytes, q[i].time, now)]
              penalty == SumFunctionOnSet(P, Sent(q, x))
              drip == ComputeDripAllowance(created, now)
              dwc == DiversityWeightedCredit(q, x)
              sent == SentBytes(q, x)
              received == ReceivedBytes(q, x)
  <1>1. ComputeEffectiveBalance(q, x, created, now) = drip + dwc - received - penalty
    BY DEF ComputeEffectiveBalance, SumFunction, ReceivedBytes
  <1>2. penalty \in Nat
    <2>1. IsFiniteSet(Sent(q, x)) /\ Sent(q, x) \subseteq DOMAIN q /\ \A i \in DOMAIN q : q[i].bytes \in Nat
      BY RowTypes
    <2>2. \A i \in Sent(q, x) : P[i] \in Nat
      <3>. SUFFICES ASSUME NEW i \in Sent(q, x) PROVE P[i] \in Nat
        OBVIOUS
      <3>1. q[i].bytes \in Nat  BY <2>1
      <3>2. DecayedValue(q[i].bytes, q[i].time, now) \in 0 .. q[i].bytes  BY <3>1, DecayIsPartial
      <3>3. P[i] = q[i].bytes - DecayedValue(q[i].bytes, q[i].time, now)  OBVIOUS
      <3>. HIDE DEF P
      <3>. QED  BY <3>1, <3>2, <3>3
    <2>. HIDE DEF P
    <2>. QED  BY <2>1, <2>2, SumNat
  <1>3. drip \in Int  BY DripIsCapped
  <1>4. dwc \in Nat /\ dwc <= sent  BY WeightedIsPartial
  <1>5. sent \in Nat /\ received \in Nat  BY RowTypes
  <1>. HIDE DEF penalty, drip, dwc, sent, received
  <1>6. /\ drip + dwc - received - penalty \in Int
        /\ (drip + dwc - received - penalty) + received <= drip + sent
    BY <1>2, <1>3, <1>4, <1>5
  <1>. QED  BY <1>1, <1>6 DEF drip, sent, received

-----------------------------------------------------------------------------
(* The credit of stored rows.                                               *)

\* The bytes of every record.
bytesOf == [i \in DOMAIN made |-> made[i].bytes]

\* The ids among the rows of x that it sent, and that it received.
SentRows(x, from) == {i \in RowsFrom(x, from) : made[i].s = x}
ReceivedRows(x, from) == {i \in RowsFrom(x, from) : made[i].r = x}

\* The stored rows are finitely many, and each has its bytes.
LEMMA StoredTypes ==
  ASSUME Inv
  PROVE  /\ IsFiniteSet(db) /\ db \subseteq DOMAIN made
         /\ \A i \in DOMAIN made : bytesOf[i] = made[i].bytes /\ bytesOf[i] \in Nat
  <1>1. made \in Seq(Record) /\ db \subseteq DOMAIN made  BY DEF Inv, TypeOK
  <1>2. Len(made) \in Nat /\ DOMAIN made = 1 .. Len(made)  BY <1>1
  <1>3. IsFiniteSet(DOMAIN made)
    <2>1. PICK n \in Nat : n = Len(made)  BY <1>2
    <2>2. IsFiniteSet(1 .. n)  BY FS_Interval
    <2>. QED  BY <1>2, <2>1, <2>2
  <1>4. IsFiniteSet(db)  BY <1>1, <1>3, FS_Subset
  <1>5. \A i \in DOMAIN made : bytesOf[i] = made[i].bytes /\ bytesOf[i] \in Nat
    BY <1>1, RowTypes DEF bytesOf
  <1>. QED  BY <1>1, <1>4, <1>5

\* Rows that are read count each record that is stored once: what x sent and
\* what it received in them is what the records say.
LEMMA RowsAreCounted ==
  ASSUME Inv, NEW x, NEW from, NEW limit \in Nat, Len(made) <= limit,
         NEW q \in GetRecordsByDevice(x, from, limit)
  PROVE  /\ q \in Seq(Record)
         /\ SentBytes(q, x) <= SumFunctionOnSet(bytesOf, SentRows(x, from))
         /\ SumFunctionOnSet(bytesOf, ReceivedRows(x, from)) <= ReceivedBytes(q, x)
  <1>. DEFINE S == RowsFrom(x, from)
  <1>2. q \in Seq(Record) /\ ListsRows(q, S)  BY AllRowsAreRead
  <1>0. PICK n \in Nat : \E p \in [1 .. n -> S] :
           /\ Len(q) = n /\ \A a \in 1 .. n : q[a] = made[p[a]]
           /\ \A i \in S : \E a \in 1 .. n : p[a] = i
           /\ \A a, b \in 1 .. n : p[a] = p[b] => a = b
    BY <1>2 DEF ListsRows
  <1>1. PICK p \in [1 .. n -> S] :
           /\ Len(q) = n /\ \A a \in 1 .. n : q[a] = made[p[a]]
           /\ \A i \in S : \E a \in 1 .. n : p[a] = i
           /\ \A a, b \in 1 .. n : p[a] = p[b] => a = b
    BY <1>0
  <1>3. /\ IsFiniteSet(db) /\ db \subseteq DOMAIN made
        /\ \A i \in DOMAIN made : bytesOf[i] = made[i].bytes /\ bytesOf[i] \in Nat
    BY StoredTypes
  <1>4. S \subseteq db /\ S \subseteq DOMAIN made  BY <1>3 DEF RowsFrom, Of
  <1>5. q \in Seq(Record) /\ DOMAIN q = 1 .. n  BY <1>1, <1>2
  <1>6. IsFiniteSet(Sent(q, x)) /\ IsFiniteSet(Received(q, x)) /\ \A a \in DOMAIN q : q[a].bytes \in Nat
    BY <1>5, RowTypes
  <1>. DEFINE A == SentRows(x, from)
              B == ReceivedRows(x, from)
  <1>7. IsFiniteSet(A) /\ A \subseteq S /\ IsFiniteSet(B) /\ B \subseteq S
    <2>1. A \subseteq S /\ B \subseteq S  BY DEF SentRows, ReceivedRows
    <2>. HIDE DEF A, B, S
    <2>2. A \in SUBSET db /\ B \in SUBSET db  BY <2>1, <1>4
    <2>. QED  BY <2>1, <2>2, <1>3, FS_Subset
  <1>8. SentBytes(q, x) <= SumFunctionOnSet(bytesOf, A)
    <2>. DEFINE F == [a \in Sent(q, x) |-> q[a].bytes]
    <2>1. \A a \in Sent(q, x) : a \in 1 .. n /\ p[a] \in S /\ q[a] = made[p[a]] /\ q[a].s = x
      BY <1>1, <1>5 DEF Sent
    <2>2. \A a \in Sent(q, x) : F[a] = q[a].bytes /\ F[a] \in Nat  BY <2>1, <1>5, <1>6
    <2>3. \A a \in Sent(q, x) : p[a] \in A  BY <2>1 DEF SentRows
    <2>4. \A i \in A : bytesOf[i] \in Nat  BY <1>3, <1>4, <1>7
    <2>5. ASSUME NEW a \in Sent(q, x) PROVE F[a] <= bytesOf[p[a]]
      <3>1. bytesOf[p[a]] = made[p[a]].bytes  BY <2>1, <1>3, <1>4
      <3>2. F[a] = bytesOf[p[a]] /\ F[a] \in Nat  BY <3>1, <2>1, <2>2
      <3>. QED  BY <3>2
    <2>6. \A a, b \in Sent(q, x) : p[a] = p[b] => a = b  BY <2>1, <1>1
    <2>7. SentBytes(q, x) = SumFunctionOnSet(F, Sent(q, x))  BY DEF SentBytes
    <2>. HIDE DEF F, A
    <2>8. SumFunctionOnSet(F, Sent(q, x)) <= SumFunctionOnSet(bytesOf, A)
      BY <2>2, <2>3, <2>4, <2>5, <2>6, <1>6, <1>7, SumInjects
    <2>. QED  BY <2>7, <2>8
  <1>9. SumFunctionOnSet(bytesOf, B) <= ReceivedBytes(q, x)
    <2>. DEFINE F == [a \in Received(q, x) |-> q[a].bytes]
                r == [i \in B |-> CHOOSE a \in 1 .. n : p[a] = i]
    <2>1. ASSUME NEW i \in B
          PROVE  r[i] \in 1 .. n /\ p[r[i]] = i
      <3>1. \E a \in 1 .. n : p[a] = i  BY <1>1, <1>7
      <3>2. r[i] = CHOOSE a \in 1 .. n : p[a] = i  OBVIOUS
      <3>. QED  BY <3>1, <3>2, Zenon
    <2>. HIDE DEF r
    <2>2. ASSUME NEW i \in B
          PROVE  /\ r[i] \in Received(q, x) /\ bytesOf[i] \in Nat /\ bytesOf[i] = F[r[i]]
                 /\ bytesOf[i] <= F[r[i]]
      <3>1. r[i] \in 1 .. n /\ q[r[i]] = made[i]  BY <2>1, <1>1
      <3>2. made[i].r = x  BY DEF ReceivedRows
      <3>3. r[i] \in Received(q, x)  BY <3>1, <3>2, <1>5 DEF Received
      <3>4. F[r[i]] = made[i].bytes  BY <3>1, <3>3
      <3>5. bytesOf[i] \in Nat /\ bytesOf[i] = made[i].bytes  BY <1>3, <1>4, <1>7
      <3>. QED  BY <3>3, <3>4, <3>5
    <2>3. \A i, j \in B : r[i] = r[j] => i = j  BY <2>1
    <2>4. \A a \in Received(q, x) : F[a] \in Nat  BY <1>6 DEF Received
    <2>5. ReceivedBytes(q, x) = SumFunctionOnSet(F, Received(q, x))  BY DEF ReceivedBytes
    <2>. HIDE DEF F, B
    <2>6. SumFunctionOnSet(bytesOf, B) <= SumFunctionOnSet(F, Received(q, x))
      BY <2>2, <2>3, <2>4, <1>6, <1>7, SumInjects
    <2>. QED  BY <2>5, <2>6
  <1>. QED  BY <1>5, <1>8, <1>9

\* Whatever records EvaluatePolicy looks at, stored ones or those of the
\* handshake: who passes LIGHT or STRICT has received less in them than it sent
\* in them and the greatest drip together.
THEOREM PassingIsPaidFor ==
  ASSUME NEW q \in Seq(Record), NEW e, NEW x, NEW policy \in {LIGHT, STRICT},
         NEW cp, cp.time \in Int, NEW now \in Int, EvaluatePolicy(e, x, policy, cp, q, now)
  PROVE  ReceivedBytes(q, x) < MaxBalance + SentBytes(q, x)
  <1>1. lightRules(x, cp, q, now) \/ strictRules(x, cp, q, now)
    BY DEF EvaluatePolicy, LIGHT, STRICT, NONE
  <1>2. ComputeEffectiveBalance(q, x, cp.time, now) > 0
    BY <1>1, Zenon DEF lightRules, strictRules
  <1>3. /\ ComputeEffectiveBalance(q, x, cp.time, now) \in Int
        /\ ComputeEffectiveBalance(q, x, cp.time, now) + ReceivedBytes(q, x)
              <= ComputeDripAllowance(cp.time, now) + SentBytes(q, x)
    BY BalanceIsBounded
  <1>4. ComputeDripAllowance(cp.time, now) \in Int /\ ComputeDripAllowance(cp.time, now) <= MaxBalance
    BY DripIsCapped
  <1>5. SentBytes(q, x) \in Nat /\ ReceivedBytes(q, x) \in Nat  BY RowTypes
  <1>6. MaxBalance \in Nat  BY ParamsAssumption
  <1>. QED  BY <1>2, <1>3, <1>4, <1>5, <1>6

\* While the query reads all there is, a device that passes on stored rows and
\* sent nothing in them has received less than MaxBalance in them.
LEMMA TakersSpendTheDrip ==
  ASSUME Inv, Len(made) <= FetchLimit
  PROVE  TakersAreBounded
  <1>. SUFFICES ASSUME NEW x \in Subject, NEW cp \in Checkpoints(x), NEW now \in Now,
                       PassesOnStored(x, cp, now), \A i \in RowsFrom(x, cp.index) : made[i].s # x
                PROVE  SumFunction([i \in RowsFrom(x, cp.index) |-> made[i].bytes]) < MaxBalance
    BY DEF TakersAreBounded
  <1>. DEFINE rows == RowsFrom(x, cp.index)
              F == [i \in rows |-> made[i].bytes]
  <1>0. PICK policy \in {LIGHT, STRICT} : \E q \in GetRecordsByDevice(x, cp.index, FetchLimit) :
          EvaluatePolicy(x \in evidence, x, policy, cp, q, now)
    BY DEF PassesOnStored
  <1>1. PICK q \in GetRecordsByDevice(x, cp.index, FetchLimit) :
          EvaluatePolicy(x \in evidence, x, policy, cp, q, now)
    BY <1>0
  <1>2. FetchLimit \in Nat  BY WorldAssumption
  <1>3. /\ q \in Seq(Record)
        /\ SentBytes(q, x) <= SumFunctionOnSet(bytesOf, SentRows(x, cp.index))
        /\ SumFunctionOnSet(bytesOf, ReceivedRows(x, cp.index)) <= ReceivedBytes(q, x)
    BY <1>2, RowsAreCounted
  <1>4. SumFunctionOnSet(bytesOf, SentRows(x, cp.index)) = 0
    <2>1. SentRows(x, cp.index) = {} /\ IsFiniteSet({})  BY FS_EmptySet DEF SentRows
    <2>2. SumFunctionOnSet(bytesOf, {}) = 0  BY <2>1, SumChosen
    <2>. QED  BY <2>1, <2>2
  <1>5. cp.time \in Int /\ now \in Int
    <2>1. PICK t \in Time : \E c, W : cp = ComputeCheckpoint(c, x, t, W)
      BY DEF Checkpoints
    <2>2. cp.time = t
      <3>1. PICK c, W : cp = ComputeCheckpoint(c, x, t, W)  BY <2>1
      <3>2. ComputeCheckpoint(c, x, t, W).time = t  BY Zenon DEF ComputeCheckpoint
      <3>. QED  BY <3>1, <3>2, Zenon
    <2>3. now \in Int
      <3>1. made \in Seq(Record)  BY DEF Inv, TypeOK
      <3>2. made # <<>> => Len(made) \in DOMAIN made  BY <3>1
      <3>3. (IF made = <<>> THEN 0 ELSE made[Len(made)].time) \in Int
        BY <3>2, RecordTypes DEF Inv
      <3>. QED  BY <3>3, WorldAssumption DEF Now
    <2>. QED  BY <2>2, <2>3 DEF Time
  <1>8. SentBytes(q, x) \in Nat /\ ReceivedBytes(q, x) \in Nat  BY <1>3, RowTypes
  <1>9. MaxBalance \in Nat  BY ParamsAssumption
  <1>10. ReceivedBytes(q, x) < MaxBalance
    <2>1. ReceivedBytes(q, x) < MaxBalance + SentBytes(q, x)
      BY <1>1, <1>3, <1>5, PassingIsPaidFor
    <2>. QED  BY <2>1, <1>3, <1>4, <1>8, <1>9
  <1>11. ReceivedRows(x, cp.index) = rows
    BY DEF ReceivedRows, RowsFrom, Of
  <1>12. SumFunction(F) = SumFunctionOnSet(F, rows)  BY DEF SumFunction
  <1>13. SumFunctionOnSet(F, rows) = SumFunctionOnSet(bytesOf, rows)
         /\ SumFunctionOnSet(bytesOf, rows) \in Nat
    <2>1. rows \in SUBSET db  BY DEF RowsFrom, Of
    <2>2. IsFiniteSet(rows)  BY <2>1, StoredTypes, FS_Subset
    <2>3. \A i \in rows : F[i] \in Nat /\ F[i] = bytesOf[i] /\ bytesOf[i] \in Nat
      BY <2>1, StoredTypes
    <2>. HIDE DEF rows, F
    <2>. QED  BY <2>2, <2>3, SumSame, SumNat
  <1>. HIDE DEF F, rows
  <1>14. SumFunction(F) < MaxBalance
    BY <1>3, <1>8, <1>9, <1>10, <1>11, <1>12, <1>13
  <1>. QED  BY <1>14 DEF F, rows

\* Finitely many ids can be listed in increasing order.
LEMMA Listed ==
  ASSUME NEW N \in Nat, NEW S \in SUBSET (1 .. N)
  PROVE  \E m \in Nat : \E q \in [1 .. m -> S] :
           /\ \A i \in 1 .. m - 1 : q[i] < q[i + 1]
           /\ \A s \in S : \E i \in 1 .. m : q[i] = s
  <1>. DEFINE Lists(R, m, q) == /\ \A i \in 1 .. m - 1 : q[i] < q[i + 1]
                                /\ \A s \in R : \E i \in 1 .. m : q[i] = s
              Has(R) == \E m \in Nat : \E q \in [1 .. m -> R] : Lists(R, m, q)
              T == {n \in Nat : \E R \in SUBSET (1 .. n) : ~Has(R)}
  <1>1. SUFFICES ASSUME N \in T PROVE FALSE
    <2>. HIDE DEF Lists
    <2>1. Has(S)
      <3>. HIDE DEF Has
      <3>. QED  OBVIOUS
    <2>. QED  BY <2>1 DEF Lists
  <1>2. T \in SUBSET Nat  OBVIOUS
  <1>3. PICK n \in T : \A k \in T : n <= k
    <2>. HIDE DEF T
    <2>. QED  BY <1>1, <1>2, LeastOf
  <1>4. n \in Nat /\ \E R \in SUBSET (1 .. n) : ~Has(R)
    <2>. HIDE DEF Has
    <2>. QED  OBVIOUS
  <1>5. PICK R \in SUBSET (1 .. n) : ~Has(R)  BY <1>4
  <1>6. R # {}
    <2>. SUFFICES ASSUME R = {} PROVE FALSE
      OBVIOUS
    <2>. DEFINE q == [i \in 1 .. 0 |-> 0]
    <2>1. 0 \in Nat /\ q \in [1 .. 0 -> R] /\ Lists(R, 0, q)  OBVIOUS
    <2>. HIDE DEF Lists, q
    <2>. QED  BY <2>1, <1>5
  <1>7. n # 0
    <2>1. 1 .. 0 = {}  OBVIOUS
    <2>. QED  BY <2>1, <1>5, <1>6
  <1>8. \A Q \in SUBSET (1 .. n - 1) : Has(Q)
    <2>1. n - 1 \in Nat /\ n - 1 < n  BY <1>4, <1>7
    <2>2. n - 1 \notin T
      <3>. HIDE DEF T
      <3>. QED  BY <2>1, <1>3, <1>4
    <2>. HIDE DEF Has
    <2>. QED  BY <2>1, <2>2
  <1>9. n \in R
    <2>. SUFFICES ASSUME n \notin R PROVE FALSE
      OBVIOUS
    <2>1. R \in SUBSET (1 .. n - 1)  BY <1>4
    <2>. HIDE DEF Has
    <2>. QED  BY <2>1, <1>5, <1>8
  <1>. DEFINE Q == R \ {n}
  <1>10. Q \in SUBSET (1 .. n - 1)  BY <1>4
  <1>11. PICK m \in Nat : \E q \in [1 .. m -> Q] : Lists(Q, m, q)
    <2>. HIDE DEF Lists, Q
    <2>. QED  BY <1>8, <1>10
  <1>12. PICK q \in [1 .. m -> Q] : Lists(Q, m, q)
    BY <1>11
  <1>. DEFINE g == [i \in 1 .. m + 1 |-> IF i = m + 1 THEN n ELSE q[i]]
  <1>13. \A i \in 1 .. m : g[i] = q[i] /\ q[i] \in Q /\ i \in 1 .. m + 1
    OBVIOUS
  <1>14. g[m + 1] = n /\ m + 1 \in 1 .. m + 1 /\ \A i \in 1 .. m + 1 : i = m + 1 \/ i \in 1 .. m
    OBVIOUS
  <1>15. g \in [1 .. m + 1 -> R]
    <2>1. \A i \in 1 .. m + 1 : g[i] \in R  BY <1>9, <1>13, <1>14
    <2>2. g = [i \in 1 .. m + 1 |-> g[i]]  OBVIOUS
    <2>. HIDE DEF g
    <2>. QED  BY <2>1, <2>2
  <1>. HIDE DEF g
  <1>16. ASSUME NEW i \in 1 .. (m + 1) - 1 PROVE g[i] < g[i + 1]
    <2>1. i \in 1 .. m  OBVIOUS
    <2>2. g[i] = q[i] /\ q[i] \in 1 .. n - 1  BY <2>1, <1>10, <1>13
    <2>3. CASE i = m
      <3>1. g[i + 1] = n  BY <2>3, <1>14
      <3>. QED  BY <2>2, <3>1, <1>4
    <2>4. CASE i # m
      <3>1. i \in 1 .. m - 1 /\ i + 1 \in 1 .. m  BY <2>1, <2>4
      <3>2. q[i] < q[i + 1]  BY <3>1, <1>12
      <3>. QED  BY <2>2, <3>1, <3>2, <1>13
    <2>. QED  BY <2>3, <2>4
  <1>17. ASSUME NEW s \in R PROVE \E i \in 1 .. m + 1 : g[i] = s
    <2>1. CASE s = n  BY <2>1, <1>14
    <2>2. CASE s # n
      <3>1. PICK i \in 1 .. m : q[i] = s  BY <2>2, <1>12
      <3>. QED  BY <3>1, <1>13
    <2>. QED  BY <2>1, <2>2
  <1>18. m + 1 \in Nat /\ Lists(R, m + 1, g)  BY <1>16, <1>17
  <1>19. Has(R)
    <2>. HIDE DEF Lists
    <2>. QED  BY <1>15, <1>18
  <1>. QED  BY <1>5, <1>19

\* GetRecordsByDevice returns an answer: the selected rows can be put in order.
LEMMA RowsCanBeRead ==
  ASSUME Inv, NEW x, NEW from, NEW limit
  PROVE  \E q : q \in GetRecordsByDevice(x, from, limit)
  <1>. DEFINE S == RowsFrom(x, from)
  <1>1. made \in Seq(Record) /\ Len(made) \in Nat /\ DOMAIN made = 1 .. Len(made)
    BY DEF Inv, TypeOK
  <1>2. S \in SUBSET (1 .. Len(made))
    BY <1>1 DEF RowsFrom, Of, Inv, TypeOK
  <1>3. PICK m \in Nat : \E q \in [1 .. m -> S] :
           /\ \A i \in 1 .. m - 1 : q[i] < q[i + 1]
           /\ \A s \in S : \E i \in 1 .. m : q[i] = s
    <2>. HIDE DEF S
    <2>. QED  BY <1>1, <1>2, Listed
  <1>4. PICK q \in [1 .. m -> S] :
           /\ \A i \in 1 .. m - 1 : q[i] < q[i + 1]
           /\ \A s \in S : \E i \in 1 .. m : q[i] = s
    BY <1>3
  <1>. HIDE DEF S
  <1>5. q \in [1 .. m -> Int]
    <2>1. S \subseteq Int  BY <1>2
    <2>. QED  BY <2>1
  <1>6. ASSUME NEW i \in 1 .. m, NEW j \in 1 .. m, q[i] = q[j] PROVE i = j
    <2>1. q[i] \in Int /\ q[j] \in Int  BY <1>5
    <2>2. i < j => q[i] < q[j]  BY <1>4, <1>5, StepwiseGrowth
    <2>3. j < i => q[j] < q[i]  BY <1>4, <1>5, StepwiseGrowth
    <2>4. i \in Int /\ j \in Int  OBVIOUS
    <2>. QED  BY <2>1, <2>2, <2>3, <2>4, <1>6
  <1>7. Cardinality(S) = m
    <2>1. q \in Bijection(1 .. m, S)
      BY <1>4, <1>6 DEF Bijection, Injection, IsInjective, Surjection
    <2>2. ExistsBijection(1 .. m, S)  BY <2>1 DEF ExistsBijection
    <2>3. IsFiniteSet(1 .. m) /\ Cardinality(1 .. m) = m  BY FS_Interval
    <2>. QED  BY <2>2, <2>3, FS_Bijection
  <1>8. q \in Injection(1 .. Cardinality(S), S)
    BY <1>6, <1>7 DEF Injection, IsInjective
  <1>9. Len(q) = m  OBVIOUS
  <1>10. ASSUME NEW i \in 1 .. Len(q) - 1 PROVE made[q[i]].time <= made[q[i + 1]].time
    <2>1. i \in 1 .. m - 1 /\ i \in 1 .. m /\ i + 1 \in 1 .. m  BY <1>9
    <2>2. q[i] < q[i + 1]  BY <2>1, <1>4
    <2>3. q[i] \in DOMAIN made /\ q[i + 1] \in DOMAIN made  BY <2>1, <1>1, <1>2
    <2>. QED  BY <2>2, <2>3 DEF Inv, TimesGrow
  <1>11. q \in OrderBy(S, LAMBDA i : made[i].time)
    BY <1>8, <1>10 DEF OrderBy
  <1>12. Rows(SubSeq(q, 1, Min({limit, Len(q)}))) \in GetRecordsByDevice(x, from, limit)
    BY <1>11 DEF GetRecordsByDevice, S, RowsFrom
  <1>. QED  BY <1>12

\* What one device earns, and the bytes it received, are at most what it sent.
LEMMA EarnedIsBounded ==
  ASSUME Inv, NEW x
  PROVE  /\ Earned(x) \in Int
         /\ Earned(x) + SumFunctionOnSet(bytesOf, {i \in db : made[i].r = x})
              <= SumFunctionOnSet(bytesOf, {i \in db : made[i].s = x})
  <1>. DEFINE I == SumFunctionOnSet(bytesOf, {i \in db : made[i].r = x})
              O == SumFunctionOnSet(bytesOf, {i \in db : made[i].s = x})
              Q == GetRecordsByDevice(x, 0, MaxRecords + 1)
              B == UNION {{ComputeEffectiveBalance(q, x, now, now) : q \in Q} : now \in Now}
  <1>1. made \in Seq(Record) /\ Len(made) \in Nat /\ DOMAIN made = 1 .. Len(made) /\ db \subseteq DOMAIN made
    BY DEF Inv, TypeOK
  <1>2. MaxRecords + 1 \in Nat /\ Len(made) <= MaxRecords + 1
    <2>1. MaxRecords \in Nat  BY WorldAssumption
    <2>2. CASE Len(made) = 0  BY <2>1, <2>2
    <2>3. CASE Len(made) # 0
      <3>1. Len(made) \in DOMAIN made  BY <2>3, <1>1
      <3>2. made[Len(made)].id = Len(made) /\ made[Len(made)] \in Record
        BY <3>1, RecordTypes DEF Inv
      <3>3. Len(made) \in 1 .. MaxRecords  BY <3>2 DEF Record
      <3>. QED  BY <2>1, <3>3
    <2>. QED  BY <2>2, <2>3
  <1>3. SentRows(x, 0) = {i \in db : made[i].s = x} /\ ReceivedRows(x, 0) = {i \in db : made[i].r = x}
    <2>1. \A i \in db : made[i].sidx >= 0
      <3>. SUFFICES ASSUME NEW i \in db PROVE made[i].sidx >= 0
        OBVIOUS
      <3>1. made[i] \in Record  BY <1>1
      <3>. QED  BY <3>1 DEF Record
    <2>. QED  BY <2>1 DEF SentRows, ReceivedRows, RowsFrom, Of
  <1>4. I \in Nat /\ O \in Nat
    <2>1. \A S \in SUBSET db : SumFunctionOnSet(bytesOf, S) \in Nat
      <3>. SUFFICES ASSUME NEW S \in SUBSET db PROVE SumFunctionOnSet(bytesOf, S) \in Nat
        OBVIOUS
      <3>1. IsFiniteSet(S) /\ \A i \in S : bytesOf[i] \in Nat  BY StoredTypes, FS_Subset
      <3>. QED  BY <3>1, SumNat
    <2>. QED  BY <2>1
  <1>5. ASSUME NEW q \in Q, NEW now \in Int
        PROVE  /\ ComputeEffectiveBalance(q, x, now, now) \in Int
               /\ ComputeEffectiveBalance(q, x, now, now) + I <= O
    <2>1. /\ q \in Seq(Record)
          /\ SentBytes(q, x) <= SumFunctionOnSet(bytesOf, SentRows(x, 0))
          /\ SumFunctionOnSet(bytesOf, ReceivedRows(x, 0)) <= ReceivedBytes(q, x)
      <3>1. PICK limit \in Nat : limit = MaxRecords + 1  BY <1>2
      <3>2. Len(made) <= limit /\ q \in GetRecordsByDevice(x, 0, limit)  BY <3>1, <1>2
      <3>. QED  BY <3>2, RowsAreCounted
    <2>2. SentBytes(q, x) <= O /\ I <= ReceivedBytes(q, x)  BY <2>1, <1>3
    <2>3. SentBytes(q, x) \in Nat /\ ReceivedBytes(q, x) \in Nat  BY <2>1, RowTypes
    <2>4. /\ ComputeEffectiveBalance(q, x, now, now) \in Int
          /\ ComputeEffectiveBalance(q, x, now, now) + ReceivedBytes(q, x)
               <= ComputeDripAllowance(now, now) + SentBytes(q, x)
      BY <2>1, BalanceIsBounded
    <2>5. ComputeDripAllowance(now, now) = 0  BY DripIsCapped
    <2>. HIDE DEF I, O
    <2>. QED  BY <2>2, <2>3, <2>4, <2>5, <1>4
  <1>6. Now \subseteq Int /\ MaxTime \in Now
    <2>1. MaxTime \in Nat  BY WorldAssumption
    <2>2. CASE made = <<>>  BY <2>1, <2>2 DEF Now
    <2>3. CASE made # <<>>
      <3>1. Len(made) \in DOMAIN made  BY <2>3, <1>1
      <3>2. made[Len(made)] \in Record  BY <3>1, <1>1
      <3>3. made[Len(made)].time \in 0 .. MaxTime  BY <3>2 DEF Record
      <3>. QED  BY <2>1, <2>3, <3>3 DEF Now
    <2>. QED  BY <2>2, <2>3
  <1>7. ASSUME NEW v \in B PROVE v \in Int /\ v <= O - I
    <2>1. PICK now \in Now : v \in {ComputeEffectiveBalance(q, x, now, now) : q \in Q}
      <3>. HIDE DEF Q
      <3>. QED  OBVIOUS
    <2>2. PICK q \in Q : v = ComputeEffectiveBalance(q, x, now, now)
      <3>. HIDE DEF Q
      <3>. QED  BY <2>1
    <2>3. now \in Int  BY <1>6
    <2>4. v \in Int /\ v + I <= O  BY <2>2, <2>3, <1>5, Zenon
    <2>. HIDE DEF I, O, B, Q
    <2>. QED  BY <2>4, <1>4
  <1>8. \E z : z \in B
    <2>1. PICK q : q \in Q  BY RowsCanBeRead
    <2>2. ComputeEffectiveBalance(q, x, MaxTime, MaxTime) \in B
      <3>. HIDE DEF Q
      <3>. QED  BY <2>1, <1>6
    <2>. HIDE DEF B
    <2>. QED  BY <2>2
  <1>9. Max(B) \in B
    <2>. HIDE DEF B, I, O
    <2>1. B \in SUBSET Int /\ O - I \in Int /\ \A v \in B : v <= O - I  BY <1>4, <1>7
    <2>2. PICK z : z \in B  BY <1>8
    <2>. QED  BY <2>1, <2>2, MaxIsMember
  <1>10. Earned(x) = Max(B)  BY DEF Earned
  <1>11. Earned(x) \in Int /\ Earned(x) <= O - I
    <2>. HIDE DEF B, I, O
    <2>. QED  BY <1>7, <1>9, <1>10
  <1>12. Earned(x) + I <= O
    <2>. HIDE DEF I, O
    <2>. QED  BY <1>4, <1>11
  <1>. QED  BY <1>11, <1>12

\* Each stored record's bytes are sent once and received once: over all
\* devices the two cancel.
LEMMA SharingCancels ==
  ASSUME Inv
  PROVE  SharingMakesNoCredit
  <1>. DEFINE I == [x \in Device |-> SumFunctionOnSet(bytesOf, {i \in db : made[i].r = x})]
              O == [x \in Device |-> SumFunctionOnSet(bytesOf, {i \in db : made[i].s = x})]
              E == [x \in Device |-> Earned(x)]
              rs == [i \in db |-> made[i].r]
              ss == [i \in db |-> made[i].s]
  <1>1. IsFiniteSet(Device)  BY WorldAssumption
  <1>2. IsFiniteSet(db) /\ db \subseteq DOMAIN made /\ \A i \in db : bytesOf[i] \in Nat
    BY StoredTypes
  <1>3. \A i \in db : rs[i] = made[i].r /\ rs[i] \in Device /\ ss[i] = made[i].s /\ ss[i] \in Device
    <2>1. \A i \in db : made[i].r \in Device /\ made[i].s \in Device
      BY <1>2, RecordTypes DEF Inv
    <2>. QED  BY <2>1
  <1>4. SumFunctionOnSet(I, Device) = SumFunctionOnSet(bytesOf, db)
    <2>. HIDE DEF rs, ss
    <2>1. SumFunctionOnSet([x \in Device |-> SumFunctionOnSet(bytesOf, {i \in db : rs[i] = x})], Device)
            = SumFunctionOnSet(bytesOf, db)
      BY <1>1, <1>2, <1>3, SumByKey
    <2>2. \A x : {i \in db : rs[i] = x} = {i \in db : made[i].r = x}  BY <1>3
    <2>3. I = [x \in Device |-> SumFunctionOnSet(bytesOf, {i \in db : rs[i] = x})]  BY <2>2
    <2>. HIDE DEF I
    <2>. QED  BY <2>1, <2>3, Zenon
  <1>5. SumFunctionOnSet(O, Device) = SumFunctionOnSet(bytesOf, db)
    <2>. HIDE DEF rs, ss
    <2>1. SumFunctionOnSet([x \in Device |-> SumFunctionOnSet(bytesOf, {i \in db : ss[i] = x})], Device)
            = SumFunctionOnSet(bytesOf, db)
      BY <1>1, <1>2, <1>3, SumByKey
    <2>2. \A x : {i \in db : ss[i] = x} = {i \in db : made[i].s = x}  BY <1>3
    <2>3. O = [x \in Device |-> SumFunctionOnSet(bytesOf, {i \in db : ss[i] = x})]  BY <2>2
    <2>. HIDE DEF O
    <2>. QED  BY <2>1, <2>3, Zenon
  <1>6. \A x \in Device : E[x] \in Int /\ I[x] \in Int /\ O[x] \in Int /\ E[x] + I[x] <= O[x]
    <2>. SUFFICES ASSUME NEW x \in Device
                  PROVE  E[x] \in Int /\ I[x] \in Int /\ O[x] \in Int /\ E[x] + I[x] <= O[x]
      OBVIOUS
    <2>1. /\ E[x] = Earned(x) /\ I[x] = SumFunctionOnSet(bytesOf, {i \in db : made[i].r = x})
          /\ O[x] = SumFunctionOnSet(bytesOf, {i \in db : made[i].s = x})
      OBVIOUS
    <2>2. \A S \in SUBSET db : SumFunctionOnSet(bytesOf, S) \in Nat
      <3>. SUFFICES ASSUME NEW S \in SUBSET db PROVE SumFunctionOnSet(bytesOf, S) \in Nat
        OBVIOUS
      <3>1. IsFiniteSet(S) /\ \A i \in S : bytesOf[i] \in Nat  BY <1>2, FS_Subset
      <3>. QED  BY <3>1, SumNat
    <2>3. I[x] \in Nat /\ O[x] \in Nat
      <3>1. {i \in db : made[i].r = x} \in SUBSET db /\ {i \in db : made[i].s = x} \in SUBSET db  OBVIOUS
      <3>. QED  BY <3>1, <2>1, <2>2, Zenon
    <2>4. E[x] \in Int /\ E[x] + I[x] <= O[x]  BY <2>1, EarnedIsBounded, Zenon
    <2>. HIDE DEF E, I, O
    <2>. QED  BY <2>3, <2>4
  <1>. HIDE DEF E, I, O
  <1>7. SumFunctionOnSet(E, Device) + SumFunctionOnSet(I, Device) <= SumFunctionOnSet(O, Device)
    BY <1>1, <1>6, SumBalance
  <1>8. SumFunctionOnSet(E, Device) \in Int  BY <1>1, <1>6, SumInt
  <1>9. SumFunctionOnSet(bytesOf, db) \in Nat  BY <1>2, SumNat
  <1>10. SumFunctionOnSet(E, Device) <= 0  BY <1>4, <1>5, <1>7, <1>8, <1>9
  <1>11. SumFunction([x \in Device |-> Earned(x)]) = SumFunctionOnSet(E, Device)
    BY DEF SumFunction, E
  <1>. QED  BY <1>10, <1>11 DEF SharingMakesNoCredit

-----------------------------------------------------------------------------
(* Theorems.                                                                *)

\* Every variable of the ledger model keeps its type, and a record comes after
\* the ones it names (storage/records.go, node.handleShareRecord).
THEOREM TypeCorrect == Spec => []TypeOK
  <1>1. Inv => TypeOK  BY DEF Inv
  <1>. QED  BY <1>1, Invariance, PTL

\* While no more records exist than the query of handleVerifying fetches, a
\* device with two branches in the node's ledger does not pass EvaluatePolicy,
\* whatever order its records came in and whatever checkpoint it shows.
THEOREM BranchesStop == Spec => [](Len(made) <= FetchLimit => BranchesAreRejected)
  <1>1. Inv => (Len(made) <= FetchLimit => BranchesAreRejected)
    BY ForksAreStopped
  <1>. QED  BY <1>1, Invariance, PTL

\* While no more records exist than the query fetches, a device that passes
\* EvaluatePolicy on stored rows in which it sent nothing has received less
\* than MaxBalance in them: the drip of ComputeEffectiveBalance is all it can
\* spend, whatever checkpoint it shows.
THEOREM TakersStop == Spec => [](Len(made) <= FetchLimit => TakersAreBounded)
  <1>1. Inv => (Len(made) <= FetchLimit => TakersAreBounded)
    BY TakersSpendTheDrip
  <1>. QED  BY <1>1, Invariance, PTL

\* Over all devices, ComputeEffectiveBalance makes no credit out of records:
\* what sharing earns is at most what receiving costs, for any number of
\* devices and records and any parameters of the credit package.
THEOREM NoCreditFromSharing == Spec => []SharingMakesNoCredit
  <1>1. Inv => SharingMakesNoCredit  BY SharingCancels
  <1>. QED  BY <1>1, Invariance, PTL

\* A device that did not fork passes VerifyChainSegment as soon as its records
\* are all stored, in whatever order they arrived, if their times differ.
THEOREM HonestChainsPass == Spec => []HonestChainVerifies
  <1>1. Inv => HonestChainVerifies  BY HonestPasses
  <1>. QED  BY <1>1, Invariance, PTL

\* The policies of EvaluatePolicy are ordered: who passes strict passes light,
\* and who passes any passes none, at the same time and on the same records.
THEOREM PoliciesAreOrdered ==
  ASSUME NEW e, NEW x, NEW cp, NEW q, NEW now, NEW W, cp.witnesses \in Seq(W)
  PROVE  /\ EvaluatePolicy(e, x, STRICT, cp, q, now) => EvaluatePolicy(e, x, LIGHT, cp, q, now)
         /\ EvaluatePolicy(e, x, LIGHT, cp, q, now) => EvaluatePolicy(e, x, NONE, cp, q, now)
  <1>1. Len(cp.witnesses) \in Nat /\ MinWitnesses \in Nat /\ MinWitnesses >= 1
    BY ParamsAssumption
  <1>2. strictRules(x, cp, q, now) => lightRules(x, cp, q, now)
    BY <1>1 DEF strictRules, lightRules
  <1>. QED  BY <1>2 DEF EvaluatePolicy, STRICT, LIGHT, NONE
=============================================================================
