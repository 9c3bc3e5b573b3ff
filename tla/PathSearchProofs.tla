--------------------------- MODULE PathSearchProofs ---------------------------
(***************************************************************************)
(* Theorems about PathSearch, for any entities, published claims and       *)
(* events, limits and changes: two frontiers that grow level by level miss *)
(* no shortest path, unless the answer says that something was cut.        *)
(***************************************************************************)
EXTENDS PathSearch, FiniteSetTheorems, WellFoundedInduction, TLAPS

\* A finite set of numbers has a greatest.
LEMMA MaxExists ==
    ASSUME NEW T \in SUBSET Nat, IsFiniteSet(T), T # {}
    PROVE  \E m \in T : \A t \in T : t <= m
  <1> DEFINE Above(m) == {t \in T : t > m}
             Aboves == {Above(m) : m \in T}
  <1>1. Aboves \subseteq FiniteSubsetsOf(T) /\ Aboves # {}
    <2>1. \A m \in T : IsFiniteSet(Above(m)) BY FS_Subset
    <2> QED BY <2>1 DEF FiniteSubsetsOf
  <1>2. IsWellFoundedOn(StrictSubsetOrdering(T), FiniteSubsetsOf(T))
    BY FS_StrictSubsetOrderingWellFounded
  <1>3. PICK U \in Aboves : \A V \in Aboves : <<V, U>> \notin StrictSubsetOrdering(T)
    BY <1>1, <1>2, WFMin
  <1>4. PICK m \in T : U = Above(m) BY <1>3
  <1>5. Above(m) = {}
    <2> SUFFICES ASSUME NEW n \in Above(m) PROVE FALSE
      OBVIOUS
    <2>1. Above(n) \subseteq Above(m) /\ Above(n) # Above(m)
      <3>1. n \in T /\ n > m /\ \A t \in T : t \in Nat OBVIOUS
      <3>2. n \notin Above(n) BY <3>1
      <3>3. \A t \in Above(n) : t \in T /\ t > m BY <3>1
      <3> QED BY <3>2, <3>3
    <2>2. <<Above(n), U>> \in StrictSubsetOrdering(T) BY <2>1, <1>4 DEF StrictSubsetOrdering
    <2> QED BY <2>2, <1>3
  <1> QED BY <1>5

\* What holds of 0 and passes on from each number to the next holds up to n.
LEMMA CountedUp ==
    ASSUME NEW n \in Nat, NEW S, 0 \in S, \A k \in 0..n : k \in S /\ k < n => k + 1 \in S
    PROVE  0..n \subseteq S
  <1> DEFINE T == {k \in 0..n : 0..k \subseteq S}
  <1>1. T \in SUBSET Nat /\ IsFiniteSet(T) /\ 0 \in T
    <2>1. IsFiniteSet(0..n) BY FS_Interval
    <2>2. T \in SUBSET (0..n) /\ 0..0 = {0} OBVIOUS
    <2>3. IsFiniteSet(T) BY <2>1, <2>2, FS_Subset
    <2> QED BY <2>2, <2>3
  <1>2. PICK m \in T : \A k \in T : k <= m
    <2> HIDE DEF T
    <2> QED BY <1>1, MaxExists
  <1>3. m \in 0..n /\ 0..m \subseteq S BY <1>2
  <1>4. ASSUME m < n PROVE FALSE
    <2>1. m + 1 \in S /\ m + 1 \in 0..n BY <1>3, <1>4
    <2>2. 0..(m + 1) \subseteq S
      <3>1. \A k \in 0..(m + 1) : k \in 0..m \/ k = m + 1 BY <1>3
      <3> QED BY <1>3, <2>1, <3>1
    <2>3. m + 1 \in T BY <2>1, <2>2
    <2> QED BY <1>2, <1>3, <2>3
  <1> QED BY <1>3, <1>4

\* A side of a search: entities met, how far, by which predecessors, on which level.
Distances(V, far) == \A n \in V : far[n] \in Nat
Tree(V, far, par, root) ==
    /\ root \in V /\ far[root] = 0 /\ par[root] = {} /\ DOMAIN par = V /\ Distances(V, far)
    /\ \A n \in V \ {root} : /\ par[n] # {}
                             /\ \A q \in par[n] : q \in V /\ far[q] + 1 = far[n]

\* Up to a level, who is beside one that was met was met, and not much later.
Closed(V, far, d, C, L) ==
    \A n \in V, m \in C : far[n] < d /\ {n, m} \in L => m \in V /\ far[m] <= far[n] + 1

\* k steps between entities of C, each over a pair of L.
Walk(p, k, C, L) == p \in [1..(k + 1) -> C] /\ \A i \in 1..k : {p[i], p[i + 1]} \in L

\* A walk from the root meets, up to the level, only who was met, and none later than it does.
LEMMA WalkIsMet ==
    ASSUME NEW V, NEW far, Distances(V, far), NEW d \in Nat, NEW C, NEW L, Closed(V, far, d, C, L),
           NEW k \in Nat, NEW p, Walk(p, k, C, L), p[1] \in V, far[p[1]] = 0
    PROVE  \A i \in 0..k : i <= d => p[i + 1] \in V /\ far[p[i + 1]] <= i
  <1> DEFINE S == {i \in 0..k : i <= d => p[i + 1] \in V /\ far[p[i + 1]] <= i}
  <1>1. 0 \in S
    <2>1. 0 + 1 = 1 /\ 0 \in 0..k OBVIOUS
    <2> QED BY <2>1
  <1>2. ASSUME NEW i \in 0..k, i \in S, i < k PROVE i + 1 \in S
    <2> SUFFICES ASSUME i + 1 <= d PROVE p[i + 2] \in V /\ far[p[i + 2]] <= i + 1
      <3>1. i + 1 \in 0..k /\ (i + 1) + 1 = i + 2 BY <1>2
      <3> QED BY <3>1
    <2>1. p[i + 1] \in V /\ far[p[i + 1]] <= i /\ far[p[i + 1]] \in Nat BY <1>2 DEF Distances
    <2>2. i + 1 \in 1..k /\ i + 2 \in 1..(k + 1) /\ (i + 1) + 1 = i + 2 BY <1>2
    <2>3. {p[i + 1], p[i + 2]} \in L /\ p[i + 2] \in C BY <2>2 DEF Walk
    <2>4. far[p[i + 1]] < d BY <2>1
    <2>5. p[i + 2] \in V /\ far[p[i + 2]] <= far[p[i + 1]] + 1 BY <2>1, <2>3, <2>4 DEF Closed
    <2>6. far[p[i + 2]] \in Nat BY <2>5 DEF Distances
    <2> QED BY <2>1, <2>5, <2>6
  <1> HIDE DEF S
  <1>3. 0..k \subseteq S BY <1>1, <1>2, CountedUp
  <1> QED BY <1>3 DEF S

\* On the way to one met on its level, each was met on its level.
LEMMA WalkIsExact ==
    ASSUME NEW V, NEW far, Distances(V, far), NEW d \in Nat, NEW C, NEW L, Closed(V, far, d, C, L),
           NEW k \in Nat, NEW p, Walk(p, k, C, L), p[1] \in V, far[p[1]] = 0,
           NEW a \in 0..k, a <= d, far[p[a + 1]] = a
    PROVE  \A i \in 0..a : p[i + 1] \in V /\ far[p[i + 1]] = i
  <1>1. \A i \in 0..k : i <= d => p[i + 1] \in V /\ far[p[i + 1]] <= i BY WalkIsMet
  <1>2. \A i \in 0..a : i \in 0..k /\ i <= d OBVIOUS
  <1> SUFFICES ASSUME NEW i \in 0..a, far[p[i + 1]] < i PROVE FALSE
    <2>1. \A j \in 0..a : far[p[j + 1]] \in Nat BY <1>1, <1>2 DEF Distances
    <2> QED BY <1>1, <1>2, <2>1
  <1> DEFINE S == {j \in 0..a : j >= i => far[p[j + 1]] < j}
  <1>3. 0 \in S
    <2>1. far[p[1]] = 0 OBVIOUS
    <2>2. i # 0 BY <2>1
    <2> QED BY <2>2
  <1>4. ASSUME NEW j \in 0..a, j \in S, j < a PROVE j + 1 \in S
    <2> SUFFICES ASSUME j + 1 >= i PROVE far[p[j + 2]] < j + 1
      <3>1. j + 1 \in 0..a /\ (j + 1) + 1 = j + 2 BY <1>4
      <3> QED BY <3>1
    <2>1. CASE j + 1 = i BY <2>1
    <2>2. CASE j >= i
      <3>1. far[p[j + 1]] < j BY <1>4, <2>2
      <3>2. p[j + 1] \in V /\ p[j + 2] \in V BY <1>1, <1>4
      <3>3. far[p[j + 1]] \in Nat /\ far[p[j + 2]] \in Nat BY <3>2 DEF Distances
      <3>4. j + 1 \in 1..k /\ j + 2 \in 1..(k + 1) /\ (j + 1) + 1 = j + 2 BY <1>4
      <3>5. {p[j + 1], p[j + 2]} \in L /\ p[j + 2] \in C BY <3>4 DEF Walk
      <3>6. far[p[j + 2]] <= far[p[j + 1]] + 1 BY <3>1, <3>2, <3>3, <3>5 DEF Closed
      <3> QED BY <3>1, <3>3, <3>6
    <2> QED BY <2>1, <2>2
  <1> HIDE DEF S
  <1>5. 0..a \subseteq S BY <1>3, <1>4, CountedUp
  <1>6. a \in S BY <1>5
  <1> QED BY <1>6 DEF S

\* Each entity of a tree has a chain, and a chain goes a level further each step.
LEMMA ChainsAre ==
    ASSUME NEW V, NEW far, NEW par, NEW root, Tree(V, far, par, root), NEW n \in V,
           NEW c \in Chains(par, far, n)
    PROVE  /\ far[n] \in Nat /\ c \in [1..(far[n] + 1) -> V] /\ c[1] = root /\ c[far[n] + 1] = n
           /\ \A k \in 1..far[n] : c[k] \in par[c[k + 1]]
           /\ \A k \in 1..(far[n] + 1) : far[c[k]] = k - 1
           /\ c \in Seq(V) /\ Len(c) = far[n] + 1
  <1> DEFINE d == far[n]
  <1>1. /\ d \in Nat /\ c \in [1..(d + 1) -> V] /\ c[d + 1] = n /\ par[c[1]] = {}
        /\ \A k \in 1..d : c[k] \in par[c[k + 1]]
    BY DEF Chains, Tree, Distances
  <1> HIDE DEF d
  <1>2. 1 \in 1..(d + 1) BY <1>1
  <1>3. c[1] = root BY <1>1, <1>2 DEF Tree
  <1> DEFINE S == {i \in 0..d : far[c[i + 1]] = i}
  <1>4. 0 \in S
    <2>1. 0 + 1 = 1 /\ 0 \in 0..d BY <1>1
    <2> QED BY <1>3, <2>1 DEF Tree
  <1>5. ASSUME NEW i \in 0..d, i \in S, i < d PROVE i + 1 \in S
    <2>1. i + 1 \in 1..d /\ (i + 1) + 1 = i + 2 /\ i + 1 \in 0..d /\ i + 2 \in 1..(d + 1) BY <1>1, <1>5
    <2>2. c[i + 1] \in par[c[i + 2]] /\ c[i + 2] \in V BY <1>1, <2>1
    <2>3. c[i + 2] # root BY <2>2 DEF Tree
    <2>4. far[c[i + 1]] + 1 = far[c[i + 2]] BY <2>2, <2>3 DEF Tree
    <2> QED BY <1>5, <2>1, <2>4
  <1> HIDE DEF S
  <1>6. 0..d \subseteq S BY <1>1, <1>4, <1>5, CountedUp
  <1>7. ASSUME NEW k \in 1..(d + 1) PROVE far[c[k]] = k - 1
    <2>1. k - 1 \in S /\ (k - 1) + 1 = k BY <1>1, <1>6
    <2> QED BY <2>1 DEF S
  <1>8. c \in Seq(V) /\ Len(c) = d + 1 BY <1>1
  <1> QED BY <1>1, <1>3, <1>7, <1>8 DEF d

\* chains() always has one to yield.
LEMMA ChainsExist ==
    ASSUME NEW V, NEW far, NEW par, NEW root, Tree(V, far, par, root), NEW n \in V
    PROVE  Chains(par, far, n) # {}
  <1> DEFINE S == {d \in 0..far[n] : \A m \in V : far[m] = d => Chains(par, far, m) # {}}
  <1>0. \A m \in V : far[m] \in Nat BY DEF Tree, Distances
  <1>1. ASSUME NEW m \in V, far[m] = 0 PROVE Chains(par, far, m) # {}
    <2>1. m = root
      <3> SUFFICES ASSUME m # root PROVE FALSE
        OBVIOUS
      <3>1. PICK q \in par[m] : q \in V /\ far[q] + 1 = far[m] BY DEF Tree
      <3>2. far[q] \in Nat BY <1>0, <3>1
      <3> QED BY <1>1, <3>1, <3>2
    <2> DEFINE c == [k \in 1..1 |-> m]
    <2>2. c \in [1..(far[m] + 1) -> V] /\ c[far[m] + 1] = m /\ c[1] = root /\ 1..far[m] = {} BY <1>1, <2>1
    <2> HIDE DEF c
    <2>3. c \in Chains(par, far, m) BY <2>2 DEF Chains, Tree
    <2> QED BY <2>3
  <1>2. 0 \in S BY <1>0, <1>1
  <1>3. ASSUME NEW d \in 0..far[n], d \in S, d < far[n] PROVE d + 1 \in S
    <2>1. ASSUME NEW m \in V, far[m] = d + 1 PROVE Chains(par, far, m) # {}
      <3>1. m # root BY <2>1 DEF Tree
      <3>2. PICK q \in par[m] : q \in V /\ far[q] + 1 = far[m] BY <3>1 DEF Tree
      <3>3. far[q] = d BY <1>0, <2>1, <3>2
      <3>4. PICK h : h \in Chains(par, far, q) BY <1>3, <3>2, <3>3
      <3>5. /\ h \in [1..(d + 1) -> V] /\ h[1] = root /\ h[d + 1] = q
            /\ \A k \in 1..d : h[k] \in par[h[k + 1]]
        <4>1. /\ h \in [1..(far[q] + 1) -> V] /\ h[1] = root /\ h[far[q] + 1] = q
              /\ \A k \in 1..far[q] : h[k] \in par[h[k + 1]]
          BY <3>2, <3>4, ChainsAre
        <4> QED BY <3>3, <4>1
      <3> DEFINE c == [k \in 1..(d + 2) |-> IF k <= d + 1 THEN h[k] ELSE m]
      <3>6. c \in [1..(d + 2) -> V] /\ c[1] = root /\ c[d + 2] = m /\ c[d + 1] = q
            /\ \A k \in 1..(d + 1) : c[k] = h[k]
        BY <3>5
      <3> HIDE DEF c
      <3>7. ASSUME NEW k \in 1..(d + 1) PROVE c[k] \in par[c[k + 1]]
        <4>1. CASE k = d + 1
          <5>1. (d + 1) + 1 = d + 2 OBVIOUS
          <5> QED BY <3>2, <3>6, <4>1, <5>1
        <4>2. CASE k # d + 1
          <5>1. k \in 1..d /\ k + 1 \in 1..(d + 1) BY <4>2
          <5> QED BY <3>5, <3>6, <5>1
        <4> QED BY <4>1, <4>2
      <3>8. c \in Chains(par, far, m)
        <4>1. far[m] + 1 = d + 2 /\ 1..far[m] = 1..(d + 1) BY <2>1
        <4>2. par[c[1]] = {} /\ DOMAIN par = V BY <3>6 DEF Tree
        <4> QED BY <3>6, <3>7, <4>1, <4>2 DEF Chains
      <3> QED BY <3>8
    <2>2. d + 1 \in 0..far[n] BY <1>0, <1>3
    <2> QED BY <2>1, <2>2
  <1> HIDE DEF S
  <1>4. far[n] \in Nat BY <1>0
  <1>5. 0..far[n] \subseteq S BY <1>2, <1>3, <1>4, CountedUp
  <1>6. far[n] \in S BY <1>4, <1>5
  <1> QED BY <1>6 DEF S

\* Rows cut at k are all of them or k.
LEMMA CutAtMost ==
    ASSUME NEW S, IsFiniteSet(S), NEW k \in Nat, NEW T \in AnyOf(S, k)
    PROVE  /\ T \subseteq S /\ IsFiniteSet(T) /\ Cardinality(T) \in Nat /\ Cardinality(T) <= k
           /\ T = S \/ Cardinality(T) = k
           /\ S # {} /\ k # 0 => T # {}
  <1>1. T \in SUBSET S /\ Cardinality(S) \in Nat BY FS_CardinalityType DEF AnyOf
  <1>2. IsFiniteSet(T) /\ Cardinality(T) \in Nat /\ (Cardinality(S) = Cardinality(T) => S = T)
    BY <1>1, FS_Subset, FS_CardinalityType
  <1>3. Cardinality(T) = IF Cardinality(S) > k THEN k ELSE Cardinality(S) BY DEF AnyOf
  <1>4. Cardinality(T) <= k /\ (T = S \/ Cardinality(T) = k) BY <1>1, <1>2, <1>3
  <1>5. ASSUME S # {}, k # 0 PROVE T # {}
    <2>1. Cardinality({}) = 0 BY FS_EmptySet
    <2> QED BY <1>4, <1>5, <2>1
  <1> QED BY <1>1, <1>2, <1>4, <1>5

\* Finitely many sequences of a length have their members in a finite set.
LEMMA FunctionsFinite ==
    ASSUME NEW S, IsFiniteSet(S), NEW n \in Nat
    PROVE  IsFiniteSet([1..n -> S])
  <1> DEFINE D == {k \in 0..n : IsFiniteSet([1..k -> S])}
  <1>1. 0 \in D
    <2> DEFINE e == [k \in 1..0 |-> k]
    <2>1. [1..0 -> S] = {e}
      <3>1. 1..0 = {} OBVIOUS
      <3> QED BY <3>1
    <2> HIDE DEF e
    <2>2. IsFiniteSet({e}) BY FS_Singleton
    <2>3. 0 \in 0..n OBVIOUS
    <2> QED BY <2>1, <2>2, <2>3
  <1>2. ASSUME NEW k \in 0..n, k \in D, k < n PROVE k + 1 \in D
    <2> DEFINE A == [1..k -> S] \X S
               B == [1..(k + 1) -> S]
               f == [a \in A |-> [l \in 1..(k + 1) |-> IF l <= k THEN a[1][l] ELSE a[2]]]
    <2>1. IsFiniteSet(A) BY <1>2, FS_Product
    <2>2. f \in [A -> B]
      <3>1. ASSUME NEW a \in A PROVE [l \in 1..(k + 1) |-> IF l <= k THEN a[1][l] ELSE a[2]] \in B
        <4>1. a[1] \in [1..k -> S] /\ a[2] \in S OBVIOUS
        <4>2. \A l \in 1..(k + 1) : l <= k => l \in 1..k BY <1>2
        <4> QED BY <4>1, <4>2
      <3> QED BY <3>1
    <2>3. ASSUME NEW b \in B PROVE \E a \in A : f[a] = b
      <3> DEFINE h == [l \in 1..k |-> b[l]]
                 a == <<h, b[k + 1]>>
      <3>1. k + 1 \in 1..(k + 1) /\ \A l \in 1..k : l \in 1..(k + 1) BY <1>2
      <3>2. a \in A BY <3>1
      <3>3. f[a] = b
        <4>1. f[a] = [l \in 1..(k + 1) |-> IF l <= k THEN a[1][l] ELSE a[2]] BY <3>2
        <4>2. ASSUME NEW l \in 1..(k + 1) PROVE (IF l <= k THEN a[1][l] ELSE a[2]) = b[l]
          <5>1. CASE l <= k
            <6>1. l \in 1..k BY <1>2, <5>1
            <6> QED BY <5>1, <6>1
          <5>2. CASE ~(l <= k)
            <6>1. l = k + 1 BY <1>2, <5>2
            <6> QED BY <5>2, <6>1
          <5> QED BY <5>1, <5>2
        <4>3. b = [l \in 1..(k + 1) |-> b[l]] OBVIOUS
        <4> QED BY <4>1, <4>2, <4>3
      <3> QED BY <3>2, <3>3
    <2> HIDE DEF f, A
    <2>4. f \in Surjection(A, B) BY <2>2, <2>3 DEF Surjection
    <2>5. IsFiniteSet(B) BY <2>1, <2>4, FS_Surjection
    <2>6. k + 1 \in 0..n BY <1>2
    <2> QED BY <2>5, <2>6
  <1> HIDE DEF D
  <1>3. 0..n \subseteq D BY <1>1, <1>2, CountedUp
  <1>4. n \in D BY <1>3
  <1> QED BY <1>4 DEF D

\* As many paths as there are entities to pass at the same step.
LEMMA AsManyPaths ==
    ASSUME NEW J, IsFiniteSet(J), NEW i, NEW Q, \A q \in Q : \E p \in J : p[i] = q
    PROVE  Cardinality(Q) <= Cardinality(J)
  <1> DEFINE f == [q \in Q |-> CHOOSE p \in J : p[i] = q]
  <1>1. \A q \in Q : f[q] \in J /\ f[q][i] = q OBVIOUS
  <1>2. f \in [Q -> J] BY <1>1
  <1>3. \A q, r \in Q : f[q] = f[r] => q = r
    <2> SUFFICES ASSUME NEW q \in Q, NEW r \in Q, f[q] = f[r] PROVE q = r
      OBVIOUS
    <2>1. f[q][i] = q /\ f[r][i] = r BY <1>1
    <2> HIDE DEF f
    <2> QED BY <2>1
  <1> HIDE DEF f
  <1>4. f \in Injection(Q, J) BY <1>2, <1>3 DEF Injection, IsInjective
  <1> QED BY <1>4, FS_Injection

\* All who may precede one that was met; each has them recorded, or as many as are kept.
Preceding(V, far, L, n) == {q \in V : far[q] + 1 = far[n] /\ {q, n} \in L}
Recorded(V, far, par, L, K) == \A n \in V : par[n] \in AnyOf(Preceding(V, far, L, n), K)

\* A way to one that was met, a level further each step.
Outward(h, V, far, L, root, n) ==
    /\ h \in [1..(far[n] + 1) -> V] /\ h[1] = root /\ h[far[n] + 1] = n
    /\ \A k \in 1..far[n] : {h[k], h[k + 1]} \in L
    /\ \A k \in 1..(far[n] + 1) : far[h[k]] = k - 1

\* The chains differ at step j for each member of Q.
Differ(par, far, n, j, Q) == \A q \in Q : \E c \in Chains(par, far, n) : c[j] = q

\* A way out is one of the chains, or at one step some chain passes each of K entities.
LEMMA ChainOrMany ==
    ASSUME NEW V, IsFiniteSet(V), NEW far, NEW par, NEW root, Tree(V, far, par, root), NEW L,
           NEW K \in Nat \ {0}, Recorded(V, far, par, L, K), NEW n \in V,
           NEW h, Outward(h, V, far, L, root, n)
    PROVE  h \in Chains(par, far, n) \/ \E j \in 1..far[n] : \E Q : Cardinality(Q) = K /\ Differ(par, far, n, j, Q)
  <1> DEFINE d == far[n]
             Bad == {k \in 1..d : h[k] \notin par[h[k + 1]]}
  <1>1. d \in Nat /\ \A m \in V : far[m] \in Nat BY DEF Tree, Distances
  <1>2. /\ h \in [1..(d + 1) -> V] /\ h[1] = root /\ h[d + 1] = n
        /\ \A k \in 1..d : {h[k], h[k + 1]} \in L
        /\ \A k \in 1..(d + 1) : far[h[k]] = k - 1
    BY DEF Outward
  <1>3. CASE Bad = {}
    <2>1. \A k \in 1..d : h[k] \in par[h[k + 1]] BY <1>3
    <2>2. par[h[1]] = {} /\ DOMAIN par = V BY <1>2 DEF Tree
    <2> QED BY <1>2, <2>1, <2>2 DEF Chains
  <1>4. CASE Bad # {}
    <2>1. Bad \in SUBSET Nat /\ IsFiniteSet(Bad)
      <3>1. IsFiniteSet(1..d) BY <1>1, FS_Interval
      <3>2. Bad \in SUBSET (1..d) OBVIOUS
      <3>3. IsFiniteSet(Bad) BY <3>1, <3>2, FS_Subset
      <3> QED BY <1>1, <3>2, <3>3
    <2>2. PICK j \in Bad : \A k \in Bad : k <= j
      <3> HIDE DEF Bad
      <3> QED BY <1>4, <2>1, MaxExists
    <2>3. /\ j \in 1..d /\ h[j] \notin par[h[j + 1]]
          /\ \A k \in 1..d : k > j => h[k] \in par[h[k + 1]]
      BY <1>1, <2>2
    <2> HIDE DEF Bad
    <2> DEFINE x == h[j + 1]
    <2>4. j \in 1..(d + 1) /\ j + 1 \in 1..(d + 1) /\ (j + 1) - 1 = j BY <1>1, <2>3
    <2>5. x \in V /\ far[x] = j /\ h[j] \in V /\ far[h[j]] = j - 1 BY <1>2, <2>4
    <2>6. h[j] \in Preceding(V, far, L, x) BY <1>2, <2>3, <2>5 DEF Preceding
    <2>7. Cardinality(par[x]) = K /\ par[x] \subseteq Preceding(V, far, L, x)
      <3>1. Preceding(V, far, L, x) \in SUBSET V BY DEF Preceding
      <3>2. IsFiniteSet(Preceding(V, far, L, x)) BY <3>1, FS_Subset
      <3>3. par[x] \in AnyOf(Preceding(V, far, L, x), K) BY <2>5 DEF Recorded
      <3>4. par[x] # Preceding(V, far, L, x) BY <2>3, <2>6
      <3> HIDE DEF x
      <3> QED BY <3>2, <3>3, <3>4, CutAtMost
    <2>8. ASSUME NEW q \in par[x] PROVE \E c \in Chains(par, far, n) : c[j] = q
      <3>1. q \in V /\ far[q] + 1 = j BY <2>5, <2>7 DEF Preceding
      <3>2. PICK b : b \in Chains(par, far, q) BY <3>1, ChainsExist
      <3>3. /\ b \in [1..j -> V] /\ b[1] = root /\ b[j] = q
            /\ \A k \in 1..(j - 1) : b[k] \in par[b[k + 1]]
        <4>1. /\ b \in [1..(far[q] + 1) -> V] /\ b[1] = root /\ b[far[q] + 1] = q
              /\ \A k \in 1..far[q] : b[k] \in par[b[k + 1]]
          BY <3>1, <3>2, ChainsAre
        <4>2. far[q] = j - 1 BY <1>1, <2>3, <3>1
        <4> QED BY <3>1, <4>1, <4>2
      <3> DEFINE c == [k \in 1..(d + 1) |-> IF k <= j THEN b[k] ELSE h[k]]
      <3>4. \A k \in 1..(d + 1) : k <= j => k \in 1..j /\ c[k] = b[k] BY <2>3
      <3>5. \A k \in 1..(d + 1) : k > j => c[k] = h[k] BY <2>3
      <3>6. c \in [1..(d + 1) -> V]
        <4>1. ASSUME NEW k \in 1..(d + 1) PROVE c[k] \in V
          <5>1. CASE k <= j BY <3>3, <3>4, <5>1
          <5>2. CASE k > j BY <1>2, <3>5, <5>2
          <5> QED BY <2>3, <5>1, <5>2
        <4>2. c = [k \in 1..(d + 1) |-> c[k]] OBVIOUS
        <4> HIDE DEF c
        <4> QED BY <4>1, <4>2
      <3> HIDE DEF c
      <3>7. c[1] = root /\ c[d + 1] = n /\ c[j] = q
        <4>1. 1 <= j /\ 1 \in 1..(d + 1) /\ d + 1 \in 1..(d + 1) /\ d + 1 > j BY <1>1, <2>3
        <4> QED BY <1>2, <2>4, <3>3, <3>4, <3>5, <4>1
      <3>8. ASSUME NEW k \in 1..d PROVE c[k] \in par[c[k + 1]]
        <4>1. k \in 1..(d + 1) /\ k + 1 \in 1..(d + 1) BY <1>1
        <4>2. CASE k < j
          <5>1. k \in 1..(j - 1) /\ k <= j /\ k + 1 <= j BY <2>3, <4>2
          <5>2. c[k] = b[k] /\ c[k + 1] = b[k + 1] BY <3>4, <4>1, <5>1
          <5> QED BY <3>3, <5>1, <5>2
        <4>3. CASE k = j
          <5>1. c[j + 1] = h[j + 1] BY <2>3, <2>4, <3>5
          <5> QED BY <3>7, <4>3, <5>1
        <4>4. CASE k > j
          <5>1. c[k] = h[k] /\ c[k + 1] = h[k + 1] BY <2>3, <3>5, <4>1, <4>4
          <5> QED BY <2>3, <4>4, <5>1
        <4> QED BY <2>3, <4>2, <4>3, <4>4
      <3>9. par[c[1]] = {} /\ DOMAIN par = V BY <3>7 DEF Tree
      <3>10. c \in Chains(par, far, n) BY <3>6, <3>7, <3>8, <3>9 DEF Chains
      <3> QED BY <3>7, <3>10
    <2>9. Differ(par, far, n, j, par[x]) BY <2>8 DEF Differ
    <2> QED BY <2>3, <2>7, <2>9
  <1> QED BY <1>3, <1>4

-----------------------------------------------------------------------------
(* Chains out and back make a path. *)

\* Two sides of n have been searched up to levels that a walk between the roots cannot avoid.
LEMMA WalksMeet ==
    ASSUME NEW V, NEW far, Distances(V, far), NEW W, NEW rest, Distances(W, rest), NEW C, NEW L,
           NEW d \in Nat, NEW e \in Nat, Closed(V, far, d, C, L), Closed(W, rest, e, C, L),
           NEW k \in Nat, NEW p, Walk(p, k, C, L),
           p[1] \in V, far[p[1]] = 0, p[k + 1] \in W, rest[p[k + 1]] = 0
    PROVE  \A a \in 0..k : a <= d /\ k - a <= e =>
             /\ p[a + 1] \in V /\ far[p[a + 1]] <= a /\ p[a + 1] \in W /\ rest[p[a + 1]] <= k - a
  <1> DEFINE q == [i \in 1..(k + 1) |-> p[k + 2 - i]]
  <1>1. \A i \in 0..k : i <= d => p[i + 1] \in V /\ far[p[i + 1]] <= i BY WalkIsMet
  <1>2. p \in [1..(k + 1) -> C] /\ \A i \in 1..k : {p[i], p[i + 1]} \in L BY DEF Walk
  <1>3. \A i \in 1..(k + 1) : k + 2 - i \in 1..(k + 1) /\ q[i] = p[k + 2 - i] OBVIOUS
  <1>4. q \in [1..(k + 1) -> C] BY <1>2, <1>3
  <1>5. q[1] = p[k + 1]
    <2>1. 1 \in 1..(k + 1) /\ k + 2 - 1 = k + 1 OBVIOUS
    <2> QED BY <1>3, <2>1
  <1> HIDE DEF q
  <1>6. ASSUME NEW i \in 1..k PROVE {q[i], q[i + 1]} \in L
    <2>1. i \in 1..(k + 1) /\ i + 1 \in 1..(k + 1) /\ k + 2 - (i + 1) = k + 1 - i OBVIOUS
    <2>2. q[i] = p[k + 2 - i] /\ q[i + 1] = p[k + 1 - i] BY <1>3, <2>1
    <2>3. k + 1 - i \in 1..k /\ (k + 1 - i) + 1 = k + 2 - i OBVIOUS
    <2>4. {p[k + 1 - i], p[k + 2 - i]} \in L BY <1>2, <2>3
    <2>5. {q[i], q[i + 1]} = {p[k + 1 - i], p[k + 2 - i]} BY <2>2
    <2> QED BY <2>4, <2>5
  <1>7. Walk(q, k, C, L) BY <1>4, <1>6 DEF Walk
  <1>8. \A i \in 0..k : i <= e => q[i + 1] \in W /\ rest[q[i + 1]] <= i BY <1>5, <1>7, WalkIsMet
  <1> SUFFICES ASSUME NEW a \in 0..k, a <= d, k - a <= e
               PROVE  /\ p[a + 1] \in V /\ far[p[a + 1]] <= a
                      /\ p[a + 1] \in W /\ rest[p[a + 1]] <= k - a
    OBVIOUS
  <1>9. k - a \in 0..k /\ (k - a) + 1 \in 1..(k + 1) /\ k + 2 - ((k - a) + 1) = a + 1 OBVIOUS
  <1>10. q[(k - a) + 1] = p[a + 1] BY <1>3, <1>9
  <1>11. q[(k - a) + 1] \in W /\ rest[q[(k - a) + 1]] <= k - a BY <1>8, <1>9
  <1> QED BY <1>1, <1>10, <1>11

\* Each of x + y + 1 entities of a path is one of the chain out, where both meet, or one of the chain back.
OnChains(p, V, far, W, rest, n, x, y) ==
    \A i \in 1..(x + y + 1) :
      \/ i \in 1..x /\ p[i] \in V /\ far[p[i]] = i - 1
      \/ i = x + 1 /\ p[i] = n
      \/ x + y + 2 - i \in 1..y /\ p[i] \in W /\ rest[p[i]] = x + y + 1 - i

PathOf(p, head, tail, x, y) ==
    /\ x \in Nat /\ y \in Nat /\ DOMAIN p = 1..(x + y + 1)
    /\ \A i \in 1..(x + 1) : p[i] = head[i]
    /\ \A i \in 1..(y + 1) : p[x + y + 2 - i] = tail[i]

\* What two chains to the same entity make.
LEMMA PathIs ==
    ASSUME NEW V, NEW far, NEW par, NEW root, Tree(V, far, par, root),
           NEW W, NEW rest, NEW sub, NEW other, Tree(W, rest, sub, other),
           NEW n \in V \cap W, NEW head \in Chains(par, far, n), NEW tail \in Chains(sub, rest, n)
    PROVE  /\ PathOf(Path(head, tail), head, tail, far[n], rest[n])
           /\ OnChains(Path(head, tail), V, far, W, rest, n, far[n], rest[n])
           /\ Path(head, tail)[1] = root /\ Path(head, tail)[far[n] + rest[n] + 1] = other
  <1> DEFINE a == far[n]
             b == rest[n]
             p == Path(head, tail)
  <1>0. n \in V /\ n \in W OBVIOUS
  <1>1. /\ a \in Nat /\ head \in [1..(a + 1) -> V] /\ head[1] = root /\ head[a + 1] = n /\ Len(head) = a + 1
        /\ \A k \in 1..(a + 1) : far[head[k]] = k - 1
    <2>1. Tree(V, far, par, root) /\ head \in Chains(par, far, n) OBVIOUS
    <2> QED BY <1>0, <2>1, ChainsAre
  <1>2. /\ b \in Nat /\ tail \in [1..(b + 1) -> W] /\ tail[1] = other /\ tail[b + 1] = n /\ Len(tail) = b + 1
        /\ \A k \in 1..(b + 1) : rest[tail[k]] = k - 1
    <2>1. Tree(W, rest, sub, other) /\ tail \in Chains(sub, rest, n) OBVIOUS
    <2> QED BY <1>0, <2>1, ChainsAre
  <1> HIDE DEF a, b
  <1>3. Len(head) + Len(tail) - 1 = a + b + 1 /\ Len(head) + Len(tail) = a + b + 2 BY <1>1, <1>2
  <1>4. DOMAIN p = 1..(a + b + 1) BY <1>3 DEF Path
  <1>5. ASSUME NEW k \in 1..(a + b + 1) PROVE p[k] = IF k <= a + 1 THEN head[k] ELSE tail[a + b + 2 - k]
    <2>1. k \in 1..(Len(head) + Len(tail) - 1) BY <1>3
    <2>2. p[k] = IF k <= Len(head) THEN head[k] ELSE tail[Len(head) + Len(tail) - k] BY <2>1 DEF Path
    <2> HIDE DEF p
    <2> QED BY <1>1, <1>2, <2>2
  <1> HIDE DEF p
  <1>6. ASSUME NEW i \in 1..(a + 1) PROVE p[i] = head[i]
    <2>1. i \in 1..(a + b + 1) /\ i <= a + 1 BY <1>1, <1>2
    <2> QED BY <1>5, <2>1
  <1>7. ASSUME NEW i \in 1..(b + 1) PROVE p[a + b + 2 - i] = tail[i]
    <2>1. a + b + 2 - i \in 1..(a + b + 1) /\ a + b + 2 - (a + b + 2 - i) = i BY <1>1, <1>2
    <2>2. CASE i = b + 1
      <3>1. a + b + 2 - i = a + 1 /\ a + 1 \in 1..(a + 1) BY <1>1, <1>2, <2>2
      <3> QED BY <1>1, <1>2, <1>6, <2>2, <3>1
    <2>3. CASE i # b + 1
      <3>1. ~(a + b + 2 - i <= a + 1) BY <1>1, <1>2, <2>3
      <3> QED BY <1>5, <2>1, <3>1
    <2> QED BY <2>2, <2>3
  <1>8. ASSUME NEW i \in 1..(a + b + 1)
        PROVE  \/ i \in 1..a /\ p[i] \in V /\ far[p[i]] = i - 1
               \/ i = a + 1 /\ p[i] = n
               \/ a + b + 2 - i \in 1..b /\ p[i] \in W /\ rest[p[i]] = a + b + 1 - i
    <2>1. CASE i <= a
      <3>1. i \in 1..a /\ i \in 1..(a + 1) BY <1>1, <2>1
      <3> QED BY <1>1, <1>6, <3>1
    <2>2. CASE i = a + 1
      <3>1. a + 1 \in 1..(a + 1) BY <1>1
      <3> QED BY <1>1, <1>6, <2>2, <3>1
    <2>3. CASE i > a + 1
      <3>1. a + b + 2 - i \in 1..b /\ ~(i <= a + 1) BY <1>1, <1>2, <2>3
      <3>2. a + b + 2 - i \in 1..(b + 1) /\ (a + b + 2 - i) - 1 = a + b + 1 - i BY <1>1, <1>2, <3>1
      <3>3. tail[a + b + 2 - i] \in W /\ rest[tail[a + b + 2 - i]] = a + b + 1 - i BY <1>2, <3>2
      <3>4. p[i] = tail[a + b + 2 - i] BY <1>5, <3>1
      <3> QED BY <3>1, <3>3, <3>4
    <2> QED BY <1>1, <2>1, <2>2, <2>3
  <1>9. p[1] = root /\ p[a + b + 1] = other
    <2>1. 1 \in 1..(a + 1) /\ 1 \in 1..(b + 1) /\ a + b + 2 - 1 = a + b + 1 BY <1>1, <1>2
    <2> QED BY <1>1, <1>2, <1>6, <1>7, <2>1
  <1>10. DOMAIN p = 1..(a + b + 1) BY <1>4
  <1>11. PathOf(p, head, tail, a, b) BY <1>1, <1>2, <1>6, <1>7, <1>10 DEF PathOf
  <1>12. OnChains(p, V, far, W, rest, n, a, b) BY <1>8 DEF OnChains
  <1> QED BY <1>9, <1>11, <1>12 DEF a, b, p

\* Each step of a path was a step to a recorded predecessor, on one side or the other.
Edges(V, par, E) == \A n \in V : \A q \in par[n] : {q, n} \in E

LEMMA PathSteps ==
    ASSUME NEW V, NEW far, NEW par, NEW root, Tree(V, far, par, root),
           NEW W, NEW rest, NEW sub, NEW other, Tree(W, rest, sub, other),
           NEW n \in V \cap W, NEW head \in Chains(par, far, n), NEW tail \in Chains(sub, rest, n),
           NEW E, Edges(V, par, E), Edges(W, sub, E)
    PROVE  \A i \in 1..(far[n] + rest[n]) : {Path(head, tail)[i], Path(head, tail)[i + 1]} \in E
  <1> DEFINE a == far[n]
             b == rest[n]
             p == Path(head, tail)
  <1>1. /\ a \in Nat /\ head \in [1..(a + 1) -> V] /\ \A k \in 1..a : head[k] \in par[head[k + 1]]
    BY ChainsAre
  <1>2. /\ b \in Nat /\ tail \in [1..(b + 1) -> W] /\ \A k \in 1..b : tail[k] \in sub[tail[k + 1]]
    BY ChainsAre
  <1>3. /\ \A i \in 1..(a + 1) : p[i] = head[i]
        /\ \A i \in 1..(b + 1) : p[a + b + 2 - i] = tail[i]
    BY PathIs DEF PathOf
  <1> HIDE DEF a, b, p
  <1> SUFFICES ASSUME NEW i \in 1..(a + b) PROVE {p[i], p[i + 1]} \in E
    BY DEF a, b, p
  <1>4. CASE i <= a
    <2>1. i \in 1..a /\ i \in 1..(a + 1) /\ i + 1 \in 1..(a + 1) BY <1>1, <1>4
    <2>2. {head[i], head[i + 1]} \in E BY <1>1, <2>1 DEF Edges
    <2> QED BY <1>3, <2>1, <2>2
  <1>5. CASE i > a
    <2> DEFINE k == a + b + 1 - i
    <2>1. /\ k \in 1..b /\ k \in 1..(b + 1) /\ k + 1 \in 1..(b + 1)
          /\ a + b + 2 - k = i + 1 /\ a + b + 2 - (k + 1) = i
      BY <1>1, <1>2, <1>5
    <2> HIDE DEF k
    <2>2. {tail[k], tail[k + 1]} \in E BY <1>2, <2>1 DEF Edges
    <2>3. p[i + 1] = tail[k] /\ p[i] = tail[k + 1] BY <1>3, <2>1
    <2>4. {p[i], p[i + 1]} = {tail[k], tail[k + 1]} BY <2>3
    <2> QED BY <2>2, <2>4
  <1> QED BY <1>1, <1>2, <1>4, <1>5

\* The simple paths of k steps between the two asked about.
Routes(k, C, L) == {p \in [1..(k + 1) -> C] : /\ p[1] = From /\ p[k + 1] = To /\ Simple(p)
                                              /\ \A l \in 1..k : {p[l], p[l + 1]} \in L}

\* The two sides of a search, and where they meet.
Trees(far, par) == \A s \in Sides : Tree(DOMAIN far[s], far[s], par[s], Root[s])
Both(far) == DOMAIN far["forward"] \cap DOMAIN far["backward"]

\* Below a level only what may be crossed was met.
Inside(V, far, d, C) == \A n \in V : far[n] < d => n \in C

\* The two ends that were asked about.
LEMMA RootsAre == Root["forward"] = From /\ Root["backward"] = To /\ Sides = {"forward", "backward"}
  BY DEF Root, Sides

\* Either side, by its name.
LEMMA TreesAre ==
    ASSUME NEW far, NEW par, Trees(far, par)
    PROVE  /\ Tree(DOMAIN far["forward"], far["forward"], par["forward"], From)
           /\ Tree(DOMAIN far["backward"], far["backward"], par["backward"], To)
  BY RootsAre DEF Trees

\* A joined path runs between the two asked about, over recorded pairs and through what may be crossed.
LEMMA JoinedInside ==
    ASSUME NEW far, NEW par, Trees(far, par), NEW E, \A s \in Sides : Edges(DOMAIN far[s], par[s], E),
           NEW meeting \in SUBSET Both(far), NEW C, meeting \subseteq C,
           NEW d, \A s \in Sides : d[s] \in Nat /\ Inside(DOMAIN far[s], far[s], d[s], C),
           \A s \in Sides, n \in meeting : far[s][n] <= d[s],
           NEW p \in JoinedSides(par, far, meeting)
    PROVE  \E n \in meeting : /\ far["forward"][n] \in Nat /\ far["backward"][n] \in Nat
                              /\ p \in Routes(far["forward"][n] + far["backward"][n], C, E)
  <1> DEFINE f == "forward"
             b == "backward"
  <1>0. PICK n \in meeting : \E head \in Chains(par[f], far[f], n), tail \in Chains(par[b], far[b], n) :
                              p = Path(head, tail) /\ Simple(p)
    BY DEF JoinedSides
  <1>1. PICK head \in Chains(par[f], far[f], n), tail \in Chains(par[b], far[b], n) :
          p = Path(head, tail) /\ Simple(p)
    BY <1>0
  <1>2. f \in Sides /\ b \in Sides /\ n \in DOMAIN far[f] \cap DOMAIN far[b] BY RootsAre DEF Both
  <1>3. /\ Tree(DOMAIN far[f], far[f], par[f], From) /\ Tree(DOMAIN far[b], far[b], par[b], To) BY TreesAre
  <1> HIDE DEF f, b
  <1> DEFINE x == far[f][n]
             y == far[b][n]
  <1>4. /\ PathOf(p, head, tail, x, y) /\ OnChains(p, DOMAIN far[f], far[f], DOMAIN far[b], far[b], n, x, y)
        /\ p[1] = From /\ p[x + y + 1] = To
    BY <1>1, <1>2, <1>3, PathIs
  <1>5. \A i \in 1..(x + y) : {p[i], p[i + 1]} \in E BY <1>1, <1>2, <1>3, PathSteps
  <1>6. x <= d[f] /\ y <= d[b] /\ d[f] \in Nat /\ d[b] \in Nat BY <1>1, <1>2
  <1>41. x \in Nat /\ y \in Nat /\ DOMAIN p = 1..(x + y + 1) BY <1>4 DEF PathOf
  <1>7. ASSUME NEW i \in 1..(x + y + 1) PROVE p[i] \in C
    <2>0. \/ i \in 1..x /\ p[i] \in DOMAIN far[f] /\ far[f][p[i]] = i - 1
          \/ i = x + 1 /\ p[i] = n
          \/ x + y + 2 - i \in 1..y /\ p[i] \in DOMAIN far[b] /\ far[b][p[i]] = x + y + 1 - i
      BY <1>4 DEF OnChains
    <2>1. CASE i \in 1..x /\ p[i] \in DOMAIN far[f] /\ far[f][p[i]] = i - 1
      <3>1. i - 1 < d[f] BY <1>41, <1>6, <2>1
      <3> QED BY <1>2, <2>1, <3>1 DEF Inside
    <2>2. CASE i = x + 1 /\ p[i] = n BY <1>1, <2>2
    <2>3. CASE x + y + 2 - i \in 1..y /\ p[i] \in DOMAIN far[b] /\ far[b][p[i]] = x + y + 1 - i
      <3>1. x + y + 1 - i < d[b] BY <1>41, <1>6, <2>3
      <3> QED BY <1>2, <2>3, <3>1 DEF Inside
    <2> QED BY <2>0, <2>1, <2>2, <2>3
  <1>8. p \in [1..(x + y + 1) -> C]
    <2>1. p = [i \in 1..(x + y + 1) |-> p[i]] BY <1>1, <1>41 DEF Path
    <2> HIDE DEF x, y
    <2> QED BY <1>7, <2>1
  <1>9. p \in Routes(x + y, C, E) BY <1>1, <1>4, <1>5, <1>8 DEF Routes
  <1> QED BY <1>41, <1>9 DEF f, b

\* Where the sides meet only on their last levels, what they join is simple.
LEMMA PathIsSimple ==
    ASSUME NEW V, NEW far, NEW par, NEW root, Tree(V, far, par, root),
           NEW W, NEW rest, NEW sub, NEW other, Tree(W, rest, sub, other),
           NEW n \in V \cap W, NEW head \in Chains(par, far, n), NEW tail \in Chains(sub, rest, n),
           \A m \in V \cap W : far[m] = far[n] /\ rest[m] = rest[n]
    PROVE  Simple(Path(head, tail))
  <1> DEFINE x == far[n]
             y == rest[n]
             p == Path(head, tail)
             A(i) == i \in 1..x /\ p[i] \in V /\ far[p[i]] = i - 1
             M(i) == i = x + 1 /\ p[i] = n
             Z(i) == x + y + 2 - i \in 1..y /\ p[i] \in W /\ rest[p[i]] = x + y + 1 - i
  <1>1. x \in Nat /\ y \in Nat /\ DOMAIN p = 1..(x + y + 1) BY PathIs DEF PathOf
  <1>2. \A i \in 1..(x + y + 1) : A(i) \/ M(i) \/ Z(i)
    <2>1. OnChains(p, V, far, W, rest, n, x, y) BY PathIs
    <2> HIDE DEF p, x, y
    <2> QED BY <2>1 DEF OnChains
  <1>3. n \in V /\ n \in W OBVIOUS
  <1>4. \A m : m \in V /\ m \in W => far[m] = x /\ rest[m] = y OBVIOUS
  <1>5. far[n] = x /\ rest[n] = y OBVIOUS
  <1> HIDE DEF p, x, y
  <1> SUFFICES ASSUME NEW i \in 1..(x + y + 1), NEW k \in 1..(x + y + 1), p[i] = p[k] PROVE i = k
    BY <1>1 DEF Simple, p
  <1>6. CASE A(i)
    <2>1. CASE A(k) BY <1>6, <2>1
    <2>2. CASE M(k) BY <1>1, <1>3, <1>4, <1>6, <2>2
    <2>3. CASE Z(k) BY <1>1, <1>3, <1>4, <1>6, <2>3
    <2> QED BY <1>2, <2>1, <2>2, <2>3
  <1>7. CASE M(i)
    <2>1. CASE A(k) BY <1>1, <1>3, <1>4, <1>7, <2>1
    <2>2. CASE M(k) BY <1>7, <2>2
    <2>3. CASE Z(k) BY <1>1, <1>3, <1>4, <1>7, <2>3
    <2> QED BY <1>2, <2>1, <2>2, <2>3
  <1>8. CASE Z(i)
    <2>1. CASE A(k) BY <1>1, <1>3, <1>4, <1>8, <2>1
    <2>2. CASE M(k) BY <1>1, <1>3, <1>4, <1>8, <2>2
    <2>3. CASE Z(k) BY <1>1, <1>8, <2>3
    <2> QED BY <1>2, <2>1, <2>2, <2>3
  <1> QED BY <1>2, <1>6, <1>7, <1>8

-----------------------------------------------------------------------------
(* Shortest paths are level by level. *)

\* Entities a step apart on a shortest path are a level apart on each side.
LEMMA WalksAreExact ==
    ASSUME NEW V, NEW far, Distances(V, far), NEW W, NEW rest, Distances(W, rest), NEW C, NEW L,
           NEW d \in Nat, NEW e \in Nat, Closed(V, far, d, C, L), Closed(W, rest, e, C, L),
           NEW p, Walk(p, d + e, C, L),
           p[1] \in V, far[p[1]] = 0, p[d + e + 1] \in W, rest[p[d + e + 1]] = 0,
           far[p[d + 1]] = d, rest[p[d + 1]] = e
    PROVE  /\ \A i \in 0..d : p[i + 1] \in V /\ far[p[i + 1]] = i
           /\ \A i \in 0..e : p[d + e + 1 - i] \in W /\ rest[p[d + e + 1 - i]] = i
  <1> DEFINE k == d + e
             q == [i \in 1..(k + 1) |-> p[k + 2 - i]]
  <1>1. d \in 0..k /\ d <= d /\ k \in Nat OBVIOUS
  <1>2. \A i \in 0..d : p[i + 1] \in V /\ far[p[i + 1]] = i
    <2> HIDE DEF q
    <2> QED BY <1>1, WalkIsExact
  <1>3. p \in [1..(k + 1) -> C] /\ \A i \in 1..k : {p[i], p[i + 1]} \in L BY DEF Walk
  <1>4. \A i \in 1..(k + 1) : k + 2 - i \in 1..(k + 1) /\ q[i] = p[k + 2 - i] OBVIOUS
  <1>5. q \in [1..(k + 1) -> C] BY <1>3, <1>4
  <1>6. q[1] = p[k + 1]
    <2>1. 1 \in 1..(k + 1) /\ k + 2 - 1 = k + 1 OBVIOUS
    <2> QED BY <1>4, <2>1
  <1> HIDE DEF q
  <1>7. ASSUME NEW i \in 1..k PROVE {q[i], q[i + 1]} \in L
    <2>1. i \in 1..(k + 1) /\ i + 1 \in 1..(k + 1) /\ k + 2 - (i + 1) = k + 1 - i OBVIOUS
    <2>2. q[i] = p[k + 2 - i] /\ q[i + 1] = p[k + 1 - i] BY <1>4, <2>1
    <2>3. k + 1 - i \in 1..k /\ (k + 1 - i) + 1 = k + 2 - i OBVIOUS
    <2>4. {p[k + 1 - i], p[k + 2 - i]} \in L BY <1>3, <2>3
    <2>5. {q[i], q[i + 1]} = {p[k + 1 - i], p[k + 2 - i]} BY <2>2
    <2> QED BY <2>4, <2>5
  <1>8. Walk(q, k, C, L) BY <1>5, <1>7 DEF Walk
  <1>9. e \in 0..k /\ q[e + 1] = p[d + 1]
    <2>1. e + 1 \in 1..(k + 1) /\ k + 2 - (e + 1) = d + 1 OBVIOUS
    <2> QED BY <1>4, <2>1
  <1>10. \A i \in 0..e : q[i + 1] \in W /\ rest[q[i + 1]] = i
    <2>1. q[1] \in W /\ rest[q[1]] = 0 /\ rest[q[e + 1]] = e BY <1>6, <1>9
    <2>2. e <= e OBVIOUS
    <2> HIDE DEF k
    <2> QED BY <1>1, <1>8, <1>9, <2>1, <2>2, WalkIsExact
  <1>11. ASSUME NEW i \in 0..e PROVE p[k + 1 - i] \in W /\ rest[p[k + 1 - i]] = i
    <2>1. i + 1 \in 1..(k + 1) /\ k + 2 - (i + 1) = k + 1 - i OBVIOUS
    <2>2. q[i + 1] = p[k + 1 - i] BY <1>4, <2>1
    <2> QED BY <1>10, <2>2
  <1> QED BY <1>2, <1>11

\* The halves of such a path are ways out from its ends.
LEMMA HalvesAre ==
    ASSUME NEW V, NEW far, Distances(V, far), NEW W, NEW rest, Distances(W, rest), NEW C, NEW L,
           NEW d \in Nat, NEW e \in Nat, Closed(V, far, d, C, L), Closed(W, rest, e, C, L),
           NEW p, Walk(p, d + e, C, L),
           p[1] \in V, far[p[1]] = 0, p[d + e + 1] \in W, rest[p[d + e + 1]] = 0,
           far[p[d + 1]] = d, rest[p[d + 1]] = e
    PROVE  /\ Outward([i \in 1..(d + 1) |-> p[i]], V, far, L, p[1], p[d + 1])
           /\ Outward([i \in 1..(e + 1) |-> p[d + e + 2 - i]], W, rest, L, p[d + e + 1], p[d + 1])
  <1> DEFINE h == [i \in 1..(d + 1) |-> p[i]]
             t == [i \in 1..(e + 1) |-> p[d + e + 2 - i]]
  <1>1. /\ \A i \in 0..d : p[i + 1] \in V /\ far[p[i + 1]] = i
        /\ \A i \in 0..e : p[d + e + 1 - i] \in W /\ rest[p[d + e + 1 - i]] = i
    BY WalksAreExact
  <1>2. \A i \in 1..(d + e) : {p[i], p[i + 1]} \in L BY DEF Walk
  <1>3. ASSUME NEW i \in 1..(d + 1) PROVE h[i] = p[i] /\ p[i] \in V /\ far[p[i]] = i - 1
    <2>1. i - 1 \in 0..d /\ (i - 1) + 1 = i OBVIOUS
    <2>2. p[(i - 1) + 1] \in V /\ far[p[(i - 1) + 1]] = i - 1 BY <1>1, <2>1
    <2> QED BY <2>1, <2>2
  <1>4. ASSUME NEW i \in 1..(e + 1) PROVE t[i] = p[d + e + 2 - i] /\ t[i] \in W /\ rest[t[i]] = i - 1
    <2>1. i - 1 \in 0..e /\ d + e + 1 - (i - 1) = d + e + 2 - i OBVIOUS
    <2>2. p[d + e + 1 - (i - 1)] \in W /\ rest[p[d + e + 1 - (i - 1)]] = i - 1 BY <1>1, <2>1
    <2> QED BY <2>1, <2>2
  <1>5. h \in [1..(d + 1) -> V] BY <1>3
  <1>6. t \in [1..(e + 1) -> W] BY <1>4
  <1>7. h[1] = p[1] /\ h[d + 1] = p[d + 1]
    <2>1. 1 \in 1..(d + 1) /\ d + 1 \in 1..(d + 1) OBVIOUS
    <2> QED BY <1>3, <2>1
  <1>8. t[1] = p[d + e + 1] /\ t[e + 1] = p[d + 1]
    <2>1. /\ 1 \in 1..(e + 1) /\ e + 1 \in 1..(e + 1)
          /\ d + e + 2 - 1 = d + e + 1 /\ d + e + 2 - (e + 1) = d + 1
      OBVIOUS
    <2> QED BY <1>4, <2>1
  <1> HIDE DEF h, t
  <1>9. ASSUME NEW i \in 1..d PROVE {h[i], h[i + 1]} \in L
    <2>1. i \in 1..(d + e) /\ i \in 1..(d + 1) /\ i + 1 \in 1..(d + 1) OBVIOUS
    <2> QED BY <1>2, <1>3, <2>1
  <1>10. ASSUME NEW i \in 1..e PROVE {t[i], t[i + 1]} \in L
    <2> DEFINE j == d + e + 1 - i
    <2>1. /\ i \in 1..(e + 1) /\ i + 1 \in 1..(e + 1) /\ j \in 1..(d + e)
          /\ d + e + 2 - i = j + 1 /\ d + e + 2 - (i + 1) = j
      OBVIOUS
    <2> HIDE DEF j
    <2>2. t[i] = p[j + 1] /\ t[i + 1] = p[j] /\ {p[j], p[j + 1]} \in L BY <1>2, <1>4, <2>1
    <2>3. {t[i], t[i + 1]} = {p[j], p[j + 1]} BY <2>2
    <2> QED BY <2>2, <2>3
  <1>11. Outward(h, V, far, L, p[1], p[d + 1]) BY <1>3, <1>5, <1>7, <1>9 DEF Outward
  <1>12. Outward(t, W, rest, L, p[d + e + 1], p[d + 1]) BY <1>4, <1>6, <1>8, <1>10 DEF Outward
  <1> QED BY <1>11, <1>12 DEF h, t

\* Each side was searched up to its level, with nothing cut.
Searched(far, par, d, C, L) ==
    \A s \in Sides : /\ d[s] \in Nat /\ IsFiniteSet(DOMAIN far[s])
                     /\ Closed(DOMAIN far[s], far[s], d[s], C, L)
                     /\ Recorded(DOMAIN far[s], far[s], par[s], L, MaxPaths)
                     /\ Inside(DOMAIN far[s], far[s], d[s], C)

MeetOnLevels(far, d) == \A s \in Sides, n \in Both(far) : far[s][n] = d[s]

\* What was searched, side by side.
LEMMA SidesAre ==
    ASSUME NEW far, NEW par, Trees(far, par), NEW d, NEW C, NEW L, Searched(far, par, d, C, L)
    PROVE  /\ d["forward"] \in Nat /\ d["backward"] \in Nat
           /\ Closed(DOMAIN far["forward"], far["forward"], d["forward"], C, L)
           /\ Closed(DOMAIN far["backward"], far["backward"], d["backward"], C, L)
           /\ Distances(DOMAIN far["forward"], far["forward"]) /\ Distances(DOMAIN far["backward"], far["backward"])
           /\ IsFiniteSet(DOMAIN far["forward"]) /\ IsFiniteSet(DOMAIN far["backward"])
           /\ Recorded(DOMAIN far["forward"], far["forward"], par["forward"], L, MaxPaths)
           /\ Recorded(DOMAIN far["backward"], far["backward"], par["backward"], L, MaxPaths)
  BY TreesAre, RootsAre DEF Searched, Tree

\* An entity has finitely many predecessors.
LEMMA PrecedingFinite ==
    ASSUME NEW V, IsFiniteSet(V), NEW far, NEW L, NEW n
    PROVE  IsFiniteSet(Preceding(V, far, L, n))
  <1>1. Preceding(V, far, L, n) \in SUBSET V BY DEF Preceding
  <1> QED BY <1>1, FS_Subset

\* What is recorded is a pair of those searched.
LEMMA RecordedEdges ==
    ASSUME NEW V, IsFiniteSet(V), NEW far, NEW par, NEW L, Recorded(V, far, par, L, MaxPaths)
    PROVE  Edges(V, par, L)
  <1> SUFFICES ASSUME NEW n \in V, NEW q \in par[n] PROVE {q, n} \in L
    BY DEF Edges
  <1>1. par[n] \in AnyOf(Preceding(V, far, L, n), MaxPaths) BY DEF Recorded
  <1>2. q \in Preceding(V, far, L, n) BY <1>1 DEF AnyOf
  <1> QED BY <1>2 DEF Preceding

\* Everything joined where they meet has the length of the levels, and none of that is lost.
LEMMA AllAreJoined ==
    ASSUME NEW far, NEW par, Trees(far, par), NEW d, NEW C, NEW L, Searched(far, par, d, C, L),
           MeetOnLevels(far, d), NEW n \in Both(far), NEW head \in Chains(par["forward"], far["forward"], n),
           NEW tail \in Chains(par["backward"], far["backward"], n)
    PROVE  Path(head, tail) \in JoinedSides(par, far, Both(far))
  <1> DEFINE f == "forward"
             b == "backward"
  <1>1. /\ Tree(DOMAIN far[f], far[f], par[f], From) /\ Tree(DOMAIN far[b], far[b], par[b], To) BY TreesAre
  <1>2. n \in DOMAIN far[f] \cap DOMAIN far[b] /\ f \in Sides /\ b \in Sides BY RootsAre DEF Both
  <1>3. \A m \in DOMAIN far[f] \cap DOMAIN far[b] : far[f][m] = far[f][n] /\ far[b][m] = far[b][n]
    BY <1>2 DEF MeetOnLevels, Both
  <1>4. Simple(Path(head, tail)) BY <1>1, <1>2, <1>3, PathIsSimple
  <1>5. far[f][n] + far[b][n] \in Nat BY <1>1, <1>2 DEF Tree, Distances
  <1>6. \A m \in Both(far) : far[f][n] + far[b][n] <= far[f][m] + far[b][m]
    BY <1>2, <1>3, <1>5 DEF Both
  <1> QED BY <1>4, <1>6 DEF JoinedSides

\* What join() joins is every path as long as the levels, or MaxPaths of them: a path whose
\* chains were cut passes an entity with MaxPaths predecessors, each of which has a path.
LEMMA JoinedEnough ==
    ASSUME MaxPaths \in Nat \ {0}, NEW far, NEW par, Trees(far, par), NEW d, NEW C, IsFiniteSet(C), NEW L,
           Searched(far, par, d, C, L), MeetOnLevels(far, d), Both(far) \subseteq C, NEW J,
           J = JoinedSides(par, far, Both(far)), NEW R, R = Routes(d["forward"] + d["backward"], C, L)
    PROVE  /\ J \subseteq R /\ IsFiniteSet(R) /\ (Both(far) # {} => J # {})
           /\ J = R \/ Cardinality(J) >= MaxPaths
  <1> DEFINE f == "forward"
             b == "backward"
             x == d[f]
             y == d[b]
             V == DOMAIN far[f]
             W == DOMAIN far[b]
  <1>1. /\ Tree(V, far[f], par[f], From) /\ Tree(W, far[b], par[b], To) BY TreesAre
  <1>2. /\ x \in Nat /\ y \in Nat /\ Closed(V, far[f], x, C, L) /\ Closed(W, far[b], y, C, L)
        /\ Distances(V, far[f]) /\ Distances(W, far[b]) /\ IsFiniteSet(V) /\ IsFiniteSet(W)
        /\ Recorded(V, far[f], par[f], L, MaxPaths) /\ Recorded(W, far[b], par[b], L, MaxPaths)
    BY SidesAre
  <1>3. \A n \in Both(far) : n \in V /\ n \in W /\ far[f][n] = x /\ far[b][n] = y
    BY RootsAre DEF MeetOnLevels, Both
  <1>4. J \subseteq R
    <2> SUFFICES ASSUME NEW p \in J PROVE p \in R
      OBVIOUS
    <2>1. \A s \in Sides : Edges(DOMAIN far[s], par[s], L) BY RecordedEdges DEF Searched
    <2>2. \A s \in Sides : d[s] \in Nat /\ Inside(DOMAIN far[s], far[s], d[s], C) BY DEF Searched
    <2>3. \A s \in Sides, n \in Both(far) : far[s][n] <= d[s] BY <2>2 DEF MeetOnLevels
    <2>4. PICK n \in Both(far) : p \in Routes(far[f][n] + far[b][n], C, L)
      <3>1. Both(far) \in SUBSET Both(far) /\ p \in JoinedSides(par, far, Both(far)) OBVIOUS
      <3> QED BY <2>1, <2>2, <2>3, <3>1, JoinedInside
    <2> QED BY <1>3, <2>4
  <1>5. IsFiniteSet(R)
    <2>1. x + y + 1 \in Nat BY <1>2
    <2>2. IsFiniteSet([1..(x + y + 1) -> C]) BY <2>1, FunctionsFinite
    <2>3. R \in SUBSET [1..(x + y + 1) -> C] BY DEF Routes
    <2> QED BY <2>2, <2>3, FS_Subset
  <1>6. IsFiniteSet(J) BY <1>4, <1>5, FS_Subset
  <1>7. ASSUME NEW n \in Both(far) PROVE J # {}
    <2>1. PICK head : head \in Chains(par[f], far[f], n) BY <1>1, <1>3, ChainsExist
    <2>2. PICK tail : tail \in Chains(par[b], far[b], n) BY <1>1, <1>3, ChainsExist
    <2> QED BY <2>1, <2>2, AllAreJoined
  <1>8. ASSUME NEW p \in R, p \notin J PROVE Cardinality(J) >= MaxPaths
    <2> DEFINE n == p[x + 1]
               h == [i \in 1..(x + 1) |-> p[i]]
               t == [i \in 1..(y + 1) |-> p[x + y + 2 - i]]
    <2>1. Walk(p, x + y, C, L) /\ p[1] = From /\ p[x + y + 1] = To
      BY DEF Routes, Walk
    <2>2. p[1] \in V /\ far[f][p[1]] = 0 /\ p[x + y + 1] \in W /\ far[b][p[x + y + 1]] = 0 BY <1>1, <2>1 DEF Tree
    <2>3. n \in Both(far)
      <3>1. x \in 0..(x + y) /\ x <= x /\ (x + y) - x <= y /\ x + y \in Nat BY <1>2
      <3>2. n \in V /\ n \in W
        <4> HIDE DEF x, y, V, W
        <4> QED BY <1>2, <2>1, <2>2, <3>1, WalksMeet
      <3> QED BY <3>2 DEF Both
    <2>4. n \in V /\ n \in W /\ far[f][n] = x /\ far[b][n] = y BY <1>3, <2>3
    <2>5. Outward(h, V, far[f], L, From, n) /\ Outward(t, W, far[b], L, To, n)
      <3>1. Outward(h, V, far[f], L, p[1], n) /\ Outward(t, W, far[b], L, p[x + y + 1], n)
        <4> HIDE DEF x, y, V, W
        <4> QED BY <1>2, <2>1, <2>2, <2>4, HalvesAre
      <3> QED BY <2>1, <3>1
    <2> DEFINE Heads == Chains(par[f], far[f], n)
               Tails == Chains(par[b], far[b], n)
    <2>6. \A head \in Heads, tail \in Tails : Path(head, tail) \in J BY <2>3, AllAreJoined
    <2>7. \A head \in Heads, tail \in Tails : PathOf(Path(head, tail), head, tail, x, y)
      <3>1. \A head \in Heads, tail \in Tails : PathOf(Path(head, tail), head, tail, far[f][n], far[b][n])
        <4>1. n \in V \cap W BY <2>4
        <4> QED BY <1>1, <4>1, PathIs
      <3> QED BY <2>4, <3>1
    <2>8. p = [i \in 1..(x + y + 1) |-> p[i]]
      <3>1. p \in [1..(x + y + 1) -> C] BY <2>1 DEF Walk
      <3> QED BY <3>1
    <2>80. \A i \in 1..(x + 1) : h[i] = p[i] OBVIOUS
    <2>81. \A i \in 1..(y + 1) : t[i] = p[x + y + 2 - i] OBVIOUS
    <2>82. \A head \in Heads, tail \in Tails : Path(head, tail) = [i \in DOMAIN Path(head, tail) |-> Path(head, tail)[i]]
      BY DEF Path
    <2>9. (h \in Heads \/ \E j \in 1..x : \E Q : Cardinality(Q) = MaxPaths /\ Differ(par[f], far[f], n, j, Q))
      <3>1. h \in Heads \/ \E j \in 1..far[f][n] : \E Q : Cardinality(Q) = MaxPaths /\ Differ(par[f], far[f], n, j, Q)
        <4> HIDE DEF x, y, V, W, n, h
        <4> QED BY <1>1, <1>2, <2>4, <2>5, ChainOrMany
      <3> QED BY <2>4, <3>1
    <2>10. (t \in Tails \/ \E j \in 1..y : \E Q : Cardinality(Q) = MaxPaths /\ Differ(par[b], far[b], n, j, Q))
      <3>1. t \in Tails \/ \E j \in 1..far[b][n] : \E Q : Cardinality(Q) = MaxPaths /\ Differ(par[b], far[b], n, j, Q)
        <4> HIDE DEF x, y, V, W, n, t
        <4> QED BY <1>1, <1>2, <2>4, <2>5, ChainOrMany
      <3> QED BY <2>4, <3>1
    <2>11. PICK head : head \in Heads BY <1>1, <2>4, ChainsExist
    <2>12. PICK tail : tail \in Tails BY <1>1, <2>4, ChainsExist
    <2> HIDE DEF h, t, V, W, n, x, y
    <2>13. CASE h \in Heads /\ t \in Tails
      <3>1. Path(h, t) \in J BY <2>6, <2>13
      <3>2. PathOf(Path(h, t), h, t, x, y) BY <2>7, <2>13
      <3> DEFINE w == Path(h, t)
      <3>20. w = [i \in DOMAIN w |-> w[i]] BY <2>13, <2>82
      <3> HIDE DEF w
      <3>3. DOMAIN w = 1..(x + y + 1) BY <3>2 DEF PathOf, w
      <3>4. ASSUME NEW i \in 1..(x + y + 1) PROVE w[i] = p[i]
        <4>1. CASE i <= x
          <5>1. i \in 1..(x + 1) BY <1>2, <4>1
          <5> QED BY <2>80, <3>2, <5>1 DEF PathOf, w
        <4>2. CASE i > x
          <5>1. x + y + 2 - i \in 1..(y + 1) /\ x + y + 2 - (x + y + 2 - i) = i BY <1>2, <4>2
          <5>2. w[x + y + 2 - (x + y + 2 - i)] = t[x + y + 2 - i] BY <3>2, <5>1 DEF PathOf, w
          <5> QED BY <2>81, <5>1, <5>2
        <4> QED BY <1>2, <4>1, <4>2
      <3>5. w = p BY <2>8, <3>20, <3>3, <3>4
      <3> QED BY <1>8, <3>1, <3>5 DEF w
    <2>14. ASSUME NEW j \in 1..x, NEW Q, Cardinality(Q) = MaxPaths, Differ(par[f], far[f], n, j, Q)
           PROVE  Cardinality(J) >= MaxPaths
      <3>1. ASSUME NEW q \in Q PROVE \E w \in J : w[j] = q
        <4>1. PICK c \in Heads : c[j] = q BY <2>14 DEF Differ
        <4>2. Path(c, tail) \in J /\ PathOf(Path(c, tail), c, tail, x, y) BY <2>6, <2>7, <2>12
        <4>3. j \in 1..(x + 1) BY <1>2
        <4> QED BY <4>1, <4>2, <4>3 DEF PathOf
      <3>2. Cardinality(Q) <= Cardinality(J) BY <1>6, <3>1, AsManyPaths
      <3>3. Cardinality(J) \in Nat BY <1>6, FS_CardinalityType
      <3> QED BY <2>14, <3>2, <3>3
    <2>15. ASSUME NEW j \in 1..y, NEW Q, Cardinality(Q) = MaxPaths, Differ(par[b], far[b], n, j, Q)
           PROVE  Cardinality(J) >= MaxPaths
      <3> DEFINE k == x + y + 2 - j
      <3>1. ASSUME NEW q \in Q PROVE \E w \in J : w[k] = q
        <4>1. PICK c \in Tails : c[j] = q BY <2>15 DEF Differ
        <4>2. Path(head, c) \in J /\ PathOf(Path(head, c), head, c, x, y) BY <2>6, <2>7, <2>11
        <4>3. j \in 1..(y + 1) BY <1>2
        <4> QED BY <4>1, <4>2, <4>3 DEF PathOf
      <3> HIDE DEF k
      <3>2. Cardinality(Q) <= Cardinality(J) BY <1>6, <3>1, AsManyPaths
      <3>3. Cardinality(J) \in Nat BY <1>6, FS_CardinalityType
      <3> QED BY <2>15, <3>2, <3>3
    <2> QED BY <2>9, <2>10, <2>13, <2>14, <2>15
  <1> QED BY <1>4, <1>5, <1>7, <1>8

\* Sides that have not met leave no path as long as their levels.
LEMMA NoneShorter ==
    ASSUME NEW V, NEW far, NEW par, Tree(V, far, par, From), NEW W, NEW rest, NEW sub, Tree(W, rest, sub, To),
           NEW C, NEW L, NEW d \in Nat, NEW e \in Nat, Closed(V, far, d, C, L), Closed(W, rest, e, C, L),
           V \cap W = {}, NEW k \in 0..(d + e)
    PROVE  Routes(k, C, L) = {}
  <1> SUFFICES ASSUME NEW p \in Routes(k, C, L) PROVE FALSE
    OBVIOUS
  <1>1. Walk(p, k, C, L) /\ p[1] = From /\ p[k + 1] = To BY DEF Routes, Walk
  <1>2. p[1] \in V /\ far[p[1]] = 0 /\ p[k + 1] \in W /\ rest[p[k + 1]] = 0 BY <1>1 DEF Tree
  <1>3. Distances(V, far) /\ Distances(W, rest) BY DEF Tree
  <1>4. PICK a \in 0..k : a <= d /\ k - a <= e
    <2>1. CASE k <= d
      <3>1. k \in 0..k /\ k - k <= e BY <2>1
      <3> QED BY <2>1, <3>1
    <2>2. CASE k > d
      <3>1. d \in 0..k /\ k - d <= e BY <2>2
      <3> QED BY <3>1
    <2> QED BY <2>1, <2>2
  <1>5. p[a + 1] \in V /\ p[a + 1] \in W
    <2>1. k \in Nat OBVIOUS
    <2> QED BY <1>1, <1>2, <1>3, <1>4, <2>1, WalksMeet
  <1> QED BY <1>5

\* A side with nothing left to expand is closed at every level.
LEMMA ClosedOut ==
    ASSUME NEW V, NEW far, NEW d, NEW C, NEW L, Closed(V, far, d, C, L), \A n \in V : far[n] < d, NEW e
    PROVE  Closed(V, far, e, C, L)
  BY DEF Closed

\* Cutting all, or enough of them, gives the same choice.
LEMMA CutOfEnough ==
    ASSUME NEW R, IsFiniteSet(R), NEW J \in SUBSET R, NEW K \in Nat, J = R \/ Cardinality(J) >= K,
           NEW T \in AnyOf(J, K)
    PROVE  T \in AnyOf(R, K)
  <1> SUFFICES ASSUME J # R PROVE T \in AnyOf(R, K)
    OBVIOUS
  <1>1. /\ IsFiniteSet(J) /\ Cardinality(J) <= Cardinality(R) BY FS_Subset
  <1>2. Cardinality(J) \in Nat /\ Cardinality(R) \in Nat BY <1>1, FS_CardinalityType
  <1>3. T \in SUBSET J /\ Cardinality(T) = IF Cardinality(J) > K THEN K ELSE Cardinality(J) BY DEF AnyOf
  <1>4. Cardinality(T) = K BY <1>2, <1>3
  <1>5. Cardinality(T) = IF Cardinality(R) > K THEN K ELSE Cardinality(R) BY <1>1, <1>2, <1>4
  <1> QED BY <1>3, <1>5 DEF AnyOf

\* Nothing is all that can be cut from nothing.
LEMMA CutOfNone == ASSUME NEW K \in Nat PROVE AnyOf({}, K) = {{}}
  <1>1. Cardinality({}) = 0 /\ ~(0 > K) BY FS_EmptySet
  <1> QED BY <1>1 DEF AnyOf

\* The shortest paths of the answer's promise.
LEMMA ReachedIs == Reached = [k \in 0..asked.maxDepth |-> Routes(k, Crossed, Linked)]
  BY DEF Reached, Routes

\* The least length that has a path is the length of the shortest ones.
LEMMA ShortestIs ==
    ASSUME NEW k \in 0..asked.maxDepth, asked.maxDepth \in Nat, Routes(k, Crossed, Linked) # {},
           \A l \in 0..(k - 1) : Routes(l, Crossed, Linked) = {}
    PROVE  Shortest = Routes(k, Crossed, Linked)
  <1> DEFINE D == 0..asked.maxDepth
             Good(j) == j \in D /\ Reached[j] # {} /\ \A l \in 0..(j - 1) : Reached[l] = {}
  <1>1. DOMAIN Reached = D /\ \A j \in D : Reached[j] = Routes(j, Crossed, Linked) BY ReachedIs
  <1>2. Good(k)
    <2>1. \A l \in 0..(k - 1) : l \in D OBVIOUS
    <2> QED BY <1>1, <2>1
  <1>3. \A j : Good(j) => j = k
    <2> SUFFICES ASSUME NEW j, Good(j), j # k PROVE FALSE
      OBVIOUS
    <2>1. j \in Nat /\ k \in Nat OBVIOUS
    <2>2. CASE j < k
      <3>1. j \in 0..(k - 1) BY <2>1, <2>2
      <3> QED BY <1>2, <3>1
    <2>3. CASE k < j
      <3>1. k \in 0..(j - 1) BY <2>1, <2>3
      <3> QED BY <1>2, <3>1
    <2> QED BY <2>1, <2>2, <2>3
  <1> DEFINE c == CHOOSE j \in DOMAIN Reached : Reached[j] # {} /\ \A l \in 0..(j - 1) : Reached[l] = {}
  <1>4. Good(c) BY <1>1, <1>2
  <1>5. c = k
    <2> HIDE DEF c, Good
    <2> QED BY <1>3, <1>4
  <1>6. Shortest = Reached[c]
    <2>1. ~(\A j \in DOMAIN Reached : Reached[j] = {}) BY <1>1, <1>2
    <2> QED BY <2>1 DEF Shortest
  <1> HIDE DEF c
  <1> QED BY <1>1, <1>5, <1>6

\* No path of any length that was asked for, no shortest path.
LEMMA NoShortest ==
    ASSUME \A l \in 0..asked.maxDepth : Routes(l, Crossed, Linked) = {}
    PROVE  Shortest = {}
  BY ReachedIs DEF Shortest

\* A path of a length that was asked for is one that exists.
LEMMA RoutesReach ==
    ASSUME NEW k \in 0..asked.maxDepth, NEW p \in Routes(k, Crossed, Linked)
    PROVE  p \in UNION {Reached[j] : j \in DOMAIN Reached}
  BY ReachedIs

-----------------------------------------------------------------------------
(* Sides that grow. *)

\* A side grown by N at distance d, with its new predecessors.
GrownFar(V, far, N, d) == [n \in V \cup N |-> IF n \in V THEN far[n] ELSE d]
GrownPar(V, par, kept) == [n \in V \cup DOMAIN kept |-> IF n \in V THEN par[n] ELSE kept[n]]

\* A level added to a tree makes a tree.
LEMMA TreeGrows ==
    ASSUME NEW V, NEW far, NEW par, NEW root, Tree(V, far, par, root), NEW kept, NEW d \in Nat,
           DOMAIN kept \cap V = {},
           \A n \in DOMAIN kept : kept[n] # {} /\ \A q \in kept[n] : q \in V /\ far[q] + 1 = d
    PROVE  Tree(V \cup DOMAIN kept, GrownFar(V, far, DOMAIN kept, d), GrownPar(V, par, kept), root)
  <1> DEFINE N == DOMAIN kept
             f == GrownFar(V, far, N, d)
             p == GrownPar(V, par, kept)
  <1>1. \A n \in V : f[n] = far[n] /\ p[n] = par[n] BY DEF GrownFar, GrownPar
  <1>2. \A n \in N : f[n] = d /\ p[n] = kept[n] BY DEF GrownFar, GrownPar
  <1>3. DOMAIN p = V \cup N BY DEF GrownPar
  <1> HIDE DEF f, p
  <1>4. \A n \in V \cup N : f[n] \in Nat BY <1>1, <1>2 DEF Tree, Distances
  <1>5. ASSUME NEW n \in (V \cup N) \ {root}
        PROVE  p[n] # {} /\ \A q \in p[n] : q \in V \cup N /\ f[q] + 1 = f[n]
    <2>1. CASE n \in V
      <3>1. p[n] = par[n] /\ f[n] = far[n] BY <1>1, <2>1
      <3>2. par[n] # {} /\ \A q \in par[n] : q \in V /\ far[q] + 1 = far[n] BY <2>1 DEF Tree
      <3> QED BY <1>1, <3>1, <3>2
    <2>2. CASE n \in N BY <1>1, <1>2, <2>2
    <2> QED BY <2>1, <2>2
  <1>6. root \in V /\ far[root] = 0 /\ par[root] = {} BY DEF Tree
  <1>7. f[root] = 0 /\ p[root] = {} /\ root \in V \cup N BY <1>1, <1>6
  <1>8. Tree(V \cup N, f, p, root) BY <1>3, <1>4, <1>5, <1>7 DEF Tree, Distances
  <1> QED BY <1>8 DEF f, p

\* With all neighbours of its last level added, a side is closed a level further.
LEMMA ClosedGrows ==
    ASSUME NEW V, NEW far, Distances(V, far), NEW e \in Nat, \A n \in V : far[n] <= e, NEW C, NEW L,
           Closed(V, far, e, C, L), NEW N, N \cap V = {},
           \A n \in V, m \in C : far[n] = e /\ {n, m} \in L => m \in V \cup N
    PROVE  Closed(V \cup N, GrownFar(V, far, N, e + 1), e + 1, C, L)
  <1> DEFINE f == GrownFar(V, far, N, e + 1)
  <1>1. \A n \in V : f[n] = far[n] BY DEF GrownFar
  <1>2. \A n \in N : f[n] = e + 1 BY DEF GrownFar
  <1> HIDE DEF f
  <1> SUFFICES ASSUME NEW n \in V \cup N, NEW m \in C, f[n] < e + 1, {n, m} \in L
               PROVE  m \in V \cup N /\ f[m] <= f[n] + 1
    BY DEF Closed, f
  <1>3. n \in V /\ f[n] = far[n] /\ far[n] \in Nat BY <1>1, <1>2 DEF Distances
  <1>4. CASE far[n] < e
    <2>1. m \in V /\ far[m] <= far[n] + 1 BY <1>3, <1>4 DEF Closed
    <2> QED BY <1>1, <1>3, <2>1
  <1>5. CASE far[n] = e
    <2>1. m \in V \cup N BY <1>3, <1>5
    <2>2. CASE m \in V BY <1>1, <1>3, <1>5, <2>2 DEF Distances
    <2>3. CASE m \in N BY <1>2, <1>3, <1>5, <2>3
    <2> QED BY <2>1, <2>2, <2>3
  <1> QED BY <1>3, <1>4, <1>5

\* With the predecessors of the new level kept, all that may precede is recorded.
LEMMA RecordedGrows ==
    ASSUME NEW V, NEW far, Distances(V, far), NEW e \in Nat, \A n \in V : far[n] <= e, NEW L, NEW K, NEW par,
           Recorded(V, far, par, L, K), NEW kept, DOMAIN kept \cap V = {},
           \A n \in DOMAIN kept : kept[n] \in AnyOf({q \in V : far[q] = e /\ {q, n} \in L}, K)
    PROVE  Recorded(V \cup DOMAIN kept, GrownFar(V, far, DOMAIN kept, e + 1), GrownPar(V, par, kept), L, K)
  <1> DEFINE N == DOMAIN kept
             f == GrownFar(V, far, N, e + 1)
             p == GrownPar(V, par, kept)
  <1>1. \A n \in V : f[n] = far[n] /\ p[n] = par[n] BY DEF GrownFar, GrownPar
  <1>2. \A n \in N : f[n] = e + 1 /\ p[n] = kept[n] BY DEF GrownFar, GrownPar
  <1> HIDE DEF f, p
  <1>3. \A n \in V : far[n] \in Nat BY DEF Distances
  <1> SUFFICES ASSUME NEW n \in V \cup N PROVE p[n] \in AnyOf(Preceding(V \cup N, f, L, n), K)
    BY DEF Recorded, f, p
  <1>4. CASE n \in V
    <2>1. \A q \in V \cup N : q \in N => ~(f[q] + 1 = f[n]) BY <1>1, <1>2, <1>3, <1>4
    <2>2. Preceding(V \cup N, f, L, n) = Preceding(V, far, L, n) BY <1>1, <1>4, <2>1 DEF Preceding
    <2>3. p[n] = par[n] BY <1>1, <1>4
    <2> QED BY <1>4, <2>2, <2>3 DEF Recorded
  <1>5. CASE n \in N
    <2>1. \A q \in V \cup N : f[q] + 1 = f[n] <=> q \in V /\ far[q] = e BY <1>1, <1>2, <1>3, <1>5
    <2>2. Preceding(V \cup N, f, L, n) = {q \in V : far[q] = e /\ {q, n} \in L} BY <2>1 DEF Preceding
    <2> QED BY <1>2, <1>5, <2>2
  <1> QED BY <1>4, <1>5

-----------------------------------------------------------------------------
\* The search goes on.
Going == search \in {"level", "events", "level read", "found"}

\* The level that a side's frontier is on.
LevelOf(s) == IF search = "found" /\ s = side THEN depth[s] - 1 ELSE depth[s]

PathTypeOK ==
    /\ graphEdits \in Nat /\ side \in Sides /\ visible \subseteq Nodes /\ claims \cup events \subseteq ever
    /\ search \in {"level", "events", "level read", "found", "build", "shown"}
    /\ asked.maxDepth \in Nat \ {0}
    /\ DOMAIN depths = Sides /\ DOMAIN parents = Sides /\ DOMAIN frontier = Sides
    /\ depth \in [Sides -> Nat]

\* Both sides are trees of entities, over pairs that were published.
TreesInv ==
    /\ Trees(depths, parents)
    /\ \A s \in Sides : Visited(s) \subseteq Nodes /\ Edges(Visited(s), parents[s], ever \cap DOMAIN links)

\* While it goes on they are apart, each frontier is the last level, and there is a level left.
FrontInv == Going =>
    /\ Both(depths) = {}
    /\ \A s \in Sides : /\ LevelOf(s) \in Nat /\ frontier[s] = {n \in Visited(s) : depths[s][n] = LevelOf(s)}
                        /\ \A n \in Visited(s) : depths[s][n] <= LevelOf(s)
    /\ LevelOf("forward") + LevelOf("backward") < asked.maxDepth

BesideInv == search \in {"events", "level read"} =>
    \A row \in beside : /\ row \in frontier[side] \X Nodes \X {"relationship", "event"}
                        /\ {row[1], row[2]} \in ever

FoundInv == search = "found" =>
    \A n \in DOMAIN found : /\ n \in Nodes \ Visited(side) /\ found[n] # {}
                            /\ \A q \in found[n] : q \in frontier[side] /\ {q, n} \in ever \cap DOMAIN links

\* What is about to be built steps over pairs that were published.
BuildInv == search = "build" => \A p \in paths : Hops(p) \subseteq ever \cap DOMAIN links

SearchInv == PathTypeOK /\ TreesInv /\ FrontInv /\ BesideInv /\ FoundInv /\ BuildInv

-----------------------------------------------------------------------------
\* What Settle makes of the level.
Kept == [n \in DOMAIN found \ Busy |-> found[n]]
FarNow == [depths EXCEPT ![side] = [n \in DOMAIN @ \cup DOMAIN Kept |-> IF n \in DOMAIN @ THEN @[n] ELSE depth[side]]]
ParNow == [parents EXCEPT ![side] = [n \in DOMAIN @ \cup DOMAIN Kept |-> IF n \in DOMAIN @ THEN @[n] ELSE Kept[n]]]
MetNow == DOMAIN Kept \cap Visited(Other[side])
TooMany ==
    /\ MetNow = {}
    /\ Cardinality(DOMAIN FarNow["forward"]) + Cardinality(DOMAIN FarNow["backward"]) > VisitedLimit
GoesOn ==
    /\ MetNow = {} /\ ~TooMany
    /\ depth["forward"] + depth["backward"] < asked.maxDepth
    /\ DOMAIN Kept # {} /\ frontier[Other[side]] # {}

\* The level ends: what Settle does, by name.
LEMMA SettleIs ==
    ASSUME Settle
    PROVE  /\ search = "found" /\ depths' = FarNow /\ parents' = ParNow
           /\ frontier' = [frontier EXCEPT ![side] = DOMAIN Kept]
           /\ truncated' = (truncated \/ TooMany) /\ search' = (IF GoesOn THEN "level" ELSE "build")
           /\ paths' \in AnyOf(JoinedSides(ParNow, FarNow, MetNow), MaxPaths)
           /\ excluded' = excluded \cup Busy /\ found' = <<>>
           /\ UNCHANGED <<published, asked, depth, side, beside, links, eventsCapped, read>>
  BY Zenon DEF Settle, Kept, FarNow, ParNow, MetNow, TooMany, GoesOn

\* Only the side that was expanded grows.
LEMMA NowIs ==
    ASSUME PathTypeOK, TreesInv
    PROVE  /\ FarNow[side] = GrownFar(Visited(side), depths[side], DOMAIN Kept, depth[side])
           /\ ParNow[side] = GrownPar(Visited(side), parents[side], Kept)
           /\ DOMAIN FarNow[side] = Visited(side) \cup DOMAIN Kept
           /\ \A s \in Sides : s # side => FarNow[s] = depths[s] /\ ParNow[s] = parents[s]
           /\ DOMAIN Kept = DOMAIN found \ Busy /\ \A n \in DOMAIN Kept : Kept[n] = found[n]
           /\ DOMAIN FarNow = Sides /\ DOMAIN ParNow = Sides
  <1>1. side \in Sides /\ DOMAIN depths = Sides /\ DOMAIN parents = Sides BY DEF PathTypeOK
  <1>2. DOMAIN parents[side] = Visited(side) BY <1>1 DEF TreesInv, Trees, Tree, Visited
  <1>3. FarNow[side] = GrownFar(Visited(side), depths[side], DOMAIN Kept, depth[side])
    BY <1>1 DEF FarNow, GrownFar, Visited
  <1>4. ParNow[side] = GrownPar(Visited(side), parents[side], Kept) BY <1>1, <1>2 DEF ParNow, GrownPar
  <1>5. \A s \in Sides : s # side => FarNow[s] = depths[s] /\ ParNow[s] = parents[s] BY <1>1 DEF FarNow, ParNow
  <1>6. DOMAIN Kept = DOMAIN found \ Busy /\ \A n \in DOMAIN Kept : Kept[n] = found[n] BY DEF Kept
  <1>7. DOMAIN FarNow = Sides /\ DOMAIN ParNow = Sides BY <1>1 DEF FarNow, ParNow
  <1>8. DOMAIN FarNow[side] = Visited(side) \cup DOMAIN Kept BY <1>3 DEF GrownFar
  <1> QED BY <1>3, <1>4, <1>5, <1>6, <1>7, <1>8

\* Pairs once published stay on record.
LEMMA EdgesMore ==
    ASSUME NEW V, NEW par, NEW E, NEW F, Edges(V, par, E), E \subseteq F PROVE Edges(V, par, F)
  BY DEF Edges

\* The level adds pairs that were published.
LEMMA EdgesGrow ==
    ASSUME NEW V, NEW par, NEW E, Edges(V, par, E), NEW kept, \A n \in DOMAIN kept : \A q \in kept[n] : {q, n} \in E
    PROVE  Edges(V \cup DOMAIN kept, GrownPar(V, par, kept), E)
  <1> SUFFICES ASSUME NEW n \in V \cup DOMAIN kept, NEW q \in GrownPar(V, par, kept)[n] PROVE {q, n} \in E
    BY DEF Edges
  <1>1. GrownPar(V, par, kept)[n] = IF n \in V THEN par[n] ELSE kept[n] BY DEF GrownPar
  <1>2. CASE n \in V BY <1>1, <1>2 DEF Edges
  <1>3. CASE n \notin V BY <1>1, <1>3
  <1> QED BY <1>2, <1>3

\* What the level adds to the side that is being expanded.
LEMMA NowSide ==
    ASSUME SearchInv, search = "found"
    PROVE  /\ LevelOf(side) \in Nat /\ depth[side] = LevelOf(side) + 1 /\ DOMAIN Kept \cap Visited(side) = {}
           /\ \A n \in Visited(side) : depths[side][n] \in Nat /\ depths[side][n] <= LevelOf(side)
           /\ frontier[side] = {n \in Visited(side) : depths[side][n] = LevelOf(side)}
           /\ \A n \in DOMAIN Kept : /\ n \in Nodes /\ Kept[n] # {}
                                     /\ \A q \in Kept[n] : /\ q \in Visited(side) /\ depths[side][q] + 1 = depth[side]
                                                           /\ {q, n} \in ever \cap DOMAIN links
  <1>1. side \in Sides /\ depth \in [Sides -> Nat] BY DEF SearchInv, PathTypeOK
  <1>2. Going BY DEF Going
  <1>3. /\ LevelOf(side) \in Nat /\ frontier[side] = {n \in Visited(side) : depths[side][n] = LevelOf(side)}
        /\ \A n \in Visited(side) : depths[side][n] <= LevelOf(side)
    BY <1>1, <1>2 DEF SearchInv, FrontInv
  <1>4. depth[side] = LevelOf(side) + 1 BY <1>1 DEF LevelOf
  <1>5. \A n \in Visited(side) : depths[side][n] \in Nat
    BY <1>1 DEF SearchInv, TreesInv, Trees, Tree, Distances, Visited
  <1>6. DOMAIN Kept = DOMAIN found \ Busy /\ \A n \in DOMAIN Kept : Kept[n] = found[n]
    BY NowIs DEF SearchInv
  <1>7. \A n \in DOMAIN found : /\ n \in Nodes \ Visited(side) /\ found[n] # {}
                                /\ \A q \in found[n] : q \in frontier[side] /\ {q, n} \in ever \cap DOMAIN links
    BY DEF SearchInv, FoundInv
  <1> QED BY <1>3, <1>4, <1>5, <1>6, <1>7

\* With the level, both sides are trees still.
LEMMA NowTrees ==
    ASSUME SearchInv, search = "found"
    PROVE  /\ Trees(FarNow, ParNow)
           /\ \A s \in Sides : /\ DOMAIN FarNow[s] \subseteq Nodes
                               /\ Edges(DOMAIN FarNow[s], ParNow[s], ever \cap DOMAIN links)
  <1> SUFFICES ASSUME NEW s \in Sides
               PROVE  /\ Tree(DOMAIN FarNow[s], FarNow[s], ParNow[s], Root[s]) /\ DOMAIN FarNow[s] \subseteq Nodes
                      /\ Edges(DOMAIN FarNow[s], ParNow[s], ever \cap DOMAIN links)
    BY DEF Trees
  <1>1. PathTypeOK /\ TreesInv BY DEF SearchInv
  <1>2. /\ Tree(Visited(s), depths[s], parents[s], Root[s]) /\ Visited(s) \subseteq Nodes
        /\ Edges(Visited(s), parents[s], ever \cap DOMAIN links)
    BY <1>1 DEF TreesInv, Trees, Visited
  <1>3. CASE s = side
    <2>1. /\ FarNow[s] = GrownFar(Visited(s), depths[s], DOMAIN Kept, depth[s])
          /\ ParNow[s] = GrownPar(Visited(s), parents[s], Kept) /\ DOMAIN FarNow[s] = Visited(s) \cup DOMAIN Kept
      BY <1>1, <1>3, NowIs
    <2>2. /\ depth[s] \in Nat /\ DOMAIN Kept \cap Visited(s) = {}
          /\ \A n \in DOMAIN Kept : Kept[n] # {} /\ \A q \in Kept[n] : q \in Visited(s) /\ depths[s][q] + 1 = depth[s]
          /\ \A n \in DOMAIN Kept : \A q \in Kept[n] : {q, n} \in ever \cap DOMAIN links
          /\ DOMAIN Kept \subseteq Nodes
      <3>1. /\ LevelOf(side) \in Nat /\ depth[side] = LevelOf(side) + 1 /\ DOMAIN Kept \cap Visited(side) = {}
            /\ \A n \in DOMAIN Kept : /\ n \in Nodes /\ Kept[n] # {}
                                      /\ \A q \in Kept[n] : /\ q \in Visited(side) /\ depths[side][q] + 1 = depth[side]
                                                            /\ {q, n} \in ever \cap DOMAIN links
        BY NowSide
      <3>2. depth[side] \in Nat BY <3>1
      <3> QED BY <1>3, <3>1, <3>2
    <2>3. Tree(DOMAIN FarNow[s], FarNow[s], ParNow[s], Root[s])
      <3>1. Tree(Visited(s) \cup DOMAIN Kept, GrownFar(Visited(s), depths[s], DOMAIN Kept, depth[s]),
                 GrownPar(Visited(s), parents[s], Kept), Root[s])
        BY <1>2, <2>2, TreeGrows
      <3> QED BY <2>1, <3>1
    <2>4. Edges(DOMAIN FarNow[s], ParNow[s], ever \cap DOMAIN links)
      <3>1. Edges(Visited(s) \cup DOMAIN Kept, GrownPar(Visited(s), parents[s], Kept), ever \cap DOMAIN links)
        BY <1>2, <2>2, EdgesGrow
      <3> QED BY <2>1, <3>1
    <2> QED BY <1>2, <2>1, <2>2, <2>3, <2>4
  <1>4. CASE s # side
    <2>1. FarNow[s] = depths[s] /\ ParNow[s] = parents[s] BY <1>1, <1>4, NowIs
    <2> QED BY <1>2, <2>1 DEF Visited
  <1> QED BY <1>3, <1>4

\* The sides met where the level reached the other one, and nothing is further than the levels.
LEMMA NowLevels ==
    ASSUME SearchInv, search = "found"
    PROVE  /\ Both(FarNow) = MetNow
           /\ \A s \in Sides : \A n \in DOMAIN FarNow[s] : FarNow[s][n] <= depth[s]
           /\ {n \in DOMAIN FarNow[side] : FarNow[side][n] = depth[side]} = DOMAIN Kept
           /\ \A n \in DOMAIN Kept : FarNow[side][n] = depth[side]
           /\ \A s \in Sides : s # side => LevelOf(s) = depth[s]
           /\ depth["forward"] + depth["backward"] <= asked.maxDepth
           /\ depth["forward"] \in Nat /\ depth["backward"] \in Nat /\ asked.maxDepth \in Nat \ {0}
  <1>1. PathTypeOK /\ TreesInv /\ Going BY DEF SearchInv, Going
  <1>2. side \in Sides /\ depth \in [Sides -> Nat] /\ asked.maxDepth \in Nat \ {0} BY <1>1 DEF PathTypeOK
  <1>3. /\ DOMAIN FarNow[side] = Visited(side) \cup DOMAIN Kept
        /\ \A s \in Sides : s # side => FarNow[s] = depths[s]
        /\ FarNow[side] = GrownFar(Visited(side), depths[side], DOMAIN Kept, depth[side])
    BY <1>1, NowIs
  <1>4. /\ LevelOf(side) \in Nat /\ depth[side] = LevelOf(side) + 1 /\ DOMAIN Kept \cap Visited(side) = {}
        /\ \A n \in Visited(side) : depths[side][n] \in Nat /\ depths[side][n] <= LevelOf(side)
    BY NowSide
  <1>5. /\ Both(depths) = {} /\ LevelOf("forward") + LevelOf("backward") < asked.maxDepth
        /\ \A s \in Sides : \A n \in Visited(s) : depths[s][n] <= LevelOf(s)
    BY <1>1 DEF SearchInv, FrontInv
  <1>6. \A s \in Sides : s # side => LevelOf(s) = depth[s] BY DEF LevelOf
  <1>7. \A n \in Visited(side) : FarNow[side][n] = depths[side][n] BY <1>3 DEF GrownFar
  <1>8. \A n \in DOMAIN Kept : FarNow[side][n] = depth[side] BY <1>3, <1>4 DEF GrownFar
  <1>9. Both(FarNow) = MetNow
    <2>1. CASE side = "forward"
      <3>1. Other[side] = "backward" /\ FarNow["backward"] = depths["backward"] BY <1>3, <2>1, RootsAre DEF Other
      <3> QED BY <1>3, <1>5, <2>1, <3>1 DEF Both, MetNow, Visited
    <2>2. CASE side = "backward"
      <3>1. Other[side] = "forward" /\ FarNow["forward"] = depths["forward"] BY <1>3, <2>2, RootsAre DEF Other
      <3> QED BY <1>3, <1>5, <2>2, <3>1 DEF Both, MetNow, Visited
    <2> QED BY <1>2, <2>1, <2>2 DEF Sides
  <1>10. ASSUME NEW s \in Sides, NEW n \in DOMAIN FarNow[s] PROVE FarNow[s][n] <= depth[s]
    <2>1. CASE s = side
      <3>1. CASE n \in Visited(side) BY <1>4, <1>7, <2>1, <3>1
      <3>2. CASE n \in DOMAIN Kept BY <1>2, <1>8, <2>1, <3>2
      <3> QED BY <1>3, <2>1, <3>1, <3>2
    <2>2. CASE s # side BY <1>3, <1>5, <1>6, <2>2 DEF Visited
    <2> QED BY <2>1, <2>2
  <1>11. {n \in DOMAIN FarNow[side] : FarNow[side][n] = depth[side]} = DOMAIN Kept
    <2>1. \A n \in Visited(side) : FarNow[side][n] # depth[side] BY <1>4, <1>7
    <2> QED BY <1>3, <1>8, <2>1
  <1>12. depth["forward"] + depth["backward"] <= asked.maxDepth
    <2>1. depth["forward"] \in Nat /\ depth["backward"] \in Nat BY <1>2, RootsAre
    <2>2. CASE side = "forward"
      <3>1. LevelOf("backward") = depth["backward"] BY <1>6, <2>2, RootsAre
      <3> QED BY <1>2, <1>4, <1>5, <2>1, <2>2, <3>1
    <2>3. CASE side = "backward"
      <3>1. LevelOf("forward") = depth["forward"] BY <1>6, <2>3, RootsAre
      <3> QED BY <1>2, <1>4, <1>5, <2>1, <2>3, <3>1
    <2> QED BY <1>2, <2>2, <2>3 DEF Sides
  <1>13. depth["forward"] \in Nat /\ depth["backward"] \in Nat BY <1>2, RootsAre
  <1> QED BY <1>2, <1>6, <1>8, <1>9, <1>10, <1>11, <1>12, <1>13

-----------------------------------------------------------------------------
(* Every step keeps the search in order. *)

\* The trees stay as they are while only more is published.
LEMMA TreesStay ==
    ASSUME TreesInv, UNCHANGED <<depths, parents>>, ever \subseteq ever', DOMAIN links \subseteq DOMAIN links'
    PROVE  TreesInv'
  <1>1. \A s : Visited(s)' = Visited(s) BY DEF Visited
  <1>2. Trees(depths', parents') BY DEF TreesInv
  <1>3. \A s \in Sides : Visited(s) \subseteq Nodes /\ Edges(Visited(s), parents[s], ever' \cap DOMAIN links')
    <2>1. ever \cap DOMAIN links \subseteq ever' \cap DOMAIN links' OBVIOUS
    <2> QED BY <2>1, EdgesMore DEF TreesInv
  <1> QED BY <1>1, <1>2, <1>3 DEF TreesInv

\* The frontiers stay as they are.
LEMMA FrontStays ==
    ASSUME FrontInv, UNCHANGED <<depths, frontier, asked>>, Going' => Going,
           Going => \A s \in Sides : LevelOf(s)' = LevelOf(s)
    PROVE  FrontInv'
  <1>1. \A s : Visited(s)' = Visited(s) BY DEF Visited
  <1>2. ASSUME Going' PROVE FrontInv'
    <2>1. /\ Both(depths) = {} /\ LevelOf("forward") + LevelOf("backward") < asked.maxDepth
          /\ \A s \in Sides : /\ LevelOf(s) \in Nat /\ frontier[s] = {n \in Visited(s) : depths[s][n] = LevelOf(s)}
                              /\ \A n \in Visited(s) : depths[s][n] <= LevelOf(s)
      BY <1>2 DEF FrontInv
    <2>2. \A s \in Sides : LevelOf(s)' = LevelOf(s) BY <1>2
    <2>3. LevelOf("forward")' = LevelOf("forward") /\ LevelOf("backward")' = LevelOf("backward") BY <2>2, RootsAre
    <2> QED BY <1>1, <2>1, <2>2, <2>3 DEF FrontInv
  <1> QED BY <1>2 DEF FrontInv

\* The first query of a level keeps the search in order.
LEMMA ReadClaimsKeeps == ASSUME SearchInv, ReadClaims PROVE SearchInv'
  <1> DEFINE F == FirstOf(frontier[Smaller], FrontierLimit)
  <1>1. /\ search = "level" /\ side' = Smaller /\ search' \in {"events", "level read"}
        /\ UNCHANGED <<published, asked, tree, found, links, excluded, eventsCapped, paths, read>>
    BY DEF ReadClaims
  <1>2. UNCHANGED <<visible, claims, events, ever, graphEdits, parents, depths, frontier, depth>>
    BY <1>1 DEF published, tree
  <1>3. PICK kept \in AnyOf(Touching(claims, F), LevelRowLimit) : beside' = Beside(F, kept, "relationship")
    BY DEF ReadClaims
  <1>4. Smaller \in Sides BY DEF Smaller, Sides
  <1>5. PathTypeOK' BY <1>1, <1>2, <1>4 DEF SearchInv, PathTypeOK
  <1>6. TreesInv' BY <1>1, <1>2, TreesStay DEF SearchInv
  <1>7. FrontInv'
    <2>1. \A s : LevelOf(s)' = LevelOf(s) BY <1>1, <1>2 DEF LevelOf
    <2>2. Going BY <1>1 DEF Going
    <2> QED BY <1>1, <1>2, <2>1, <2>2, FrontStays DEF SearchInv
  <1>8. BesideInv'
    <2>1. F \subseteq frontier[Smaller] BY DEF FirstOf
    <2>2. kept \subseteq ever BY <1>3 DEF AnyOf, Touching, SearchInv, PathTypeOK
    <2> HIDE DEF F
    <2>3. ASSUME NEW row \in beside' PROVE row \in frontier[Smaller] \X Nodes \X {"relationship", "event"} /\ {row[1], row[2]} \in ever
      <3>1. row \in F \X Nodes \X {"relationship"} /\ {row[1], row[2]} \in kept BY <1>3, <2>3 DEF Beside
      <3> QED BY <2>1, <2>2, <3>1
    <2> QED BY <1>1, <1>2, <2>3 DEF BesideInv
  <1>9. FoundInv' /\ BuildInv' BY <1>1 DEF FoundInv, BuildInv
  <1> QED BY <1>5, <1>6, <1>7, <1>8, <1>9 DEF SearchInv

\* So does the query of events,
LEMMA ReadEventsKeeps == ASSUME SearchInv, ReadEvents PROVE SearchInv'
  <1>1. /\ search = "events" /\ search' = "level read"
        /\ UNCHANGED <<published, asked, tree, side, found, links, excluded, paths, read>>
    BY DEF ReadEvents
  <1>2. UNCHANGED <<visible, claims, events, ever, graphEdits, parents, depths, frontier, depth>>
    BY <1>1 DEF published, tree
  <1>3. PICK top :
          /\ \A n \in Expanded : top[n] \in AnyOf(Touching(events, {n}), EventNeighbours)
          /\ \E kept \in AnyOf(UNION {Beside({n}, top[n], "event") : n \in Expanded}, LevelRowLimit) :
               beside' = beside \cup kept
    BY DEF ReadEvents
  <1>4. PICK kept \in AnyOf(UNION {Beside({n}, top[n], "event") : n \in Expanded}, LevelRowLimit) :
          beside' = beside \cup kept
    BY <1>3
  <1>5. PathTypeOK' BY <1>1, <1>2 DEF SearchInv, PathTypeOK
  <1>6. TreesInv' BY <1>1, <1>2, TreesStay DEF SearchInv
  <1>7. FrontInv'
    <2>1. \A s : LevelOf(s)' = LevelOf(s) BY <1>1, <1>2 DEF LevelOf
    <2>2. Going BY <1>1 DEF Going
    <2> QED BY <1>1, <1>2, <2>1, <2>2, FrontStays DEF SearchInv
  <1>8. BesideInv'
    <2>1. Expanded \subseteq frontier[side] BY DEF Expanded, FirstOf
    <2>3. ASSUME NEW row \in beside' PROVE row \in frontier[side] \X Nodes \X {"relationship", "event"} /\ {row[1], row[2]} \in ever
      <3>1. CASE row \in beside BY <1>1, <3>1 DEF SearchInv, BesideInv
      <3>2. CASE row \in kept
        <4>1. PICK n \in Expanded : row \in Beside({n}, top[n], "event") BY <1>4, <3>2 DEF AnyOf
        <4>2. row \in {n} \X Nodes \X {"event"} /\ {row[1], row[2]} \in top[n] BY <4>1 DEF Beside
        <4>3. top[n] \subseteq events BY <1>3 DEF AnyOf, Touching
        <4>4. events \subseteq ever BY DEF SearchInv, PathTypeOK
        <4> QED BY <2>1, <4>2, <4>3, <4>4
      <3> QED BY <1>4, <2>3, <3>1, <3>2
    <2> QED BY <1>1, <1>2, <2>3 DEF BesideInv
  <1>9. FoundInv' /\ BuildInv' BY <1>1 DEF FoundInv, BuildInv
  <1> QED BY <1>5, <1>6, <1>7, <1>8, <1>9 DEF SearchInv

\* What Sort makes of the rows.
Fresh == {row[2] : row \in beside} \ (Visited(side) \cup excluded)
Open == {n \in Fresh : ~IsStructural(n)}
BeforeRows(n) == {row[1] : row \in {r \in beside : r[2] = n}}
ClaimedBeside(pair) == \E row \in beside : {row[1], row[2]} = pair /\ row[3] = "relationship"

\* expand(): what Sort does, by name.
LEMMA SortIs ==
    ASSUME Sort
    PROVE  /\ search = "level read" /\ search' = "found" /\ depth' = [depth EXCEPT ![side] = @ + 1] /\ beside' = {}
           /\ DOMAIN found' = Open /\ \A n \in Open : found'[n] \in AnyOf(BeforeRows(n), MaxPaths)
           /\ DOMAIN links \subseteq DOMAIN links' /\ \A pair \in DOMAIN links : links'[pair] = links[pair]
           /\ \A n \in Open : \A q \in found'[n] : {q, n} \in DOMAIN links'
           /\ \A pair \in DOMAIN links' \ DOMAIN links :
                /\ \E n \in Open : \E q \in found'[n] : pair = {q, n}
                /\ links'[pair] = "relationship" => ClaimedBeside(pair)
           /\ excluded' = excluded \cup (Fresh \ Open)
           /\ UNCHANGED <<published, asked, parents, depths, frontier, side, truncated, eventsCapped, paths, read>>
  <1> DEFINE via(pair) == IF \E row \in beside : {row[1], row[2]} = pair /\ row[3] = "relationship"
                            THEN "relationship" ELSE "event"
             before == [n \in Open |-> {row[1] : row \in {r \in beside : r[2] = n}}]
  <1> DEFINE made(chosen) == UNION {{{n, p} : p \in chosen[n]} : n \in Open}
             new == made(found')
  <1>00. PICK chosen \in [Open -> UNION {AnyOf(before[n], MaxPaths) : n \in Open}] :
           /\ \A n \in Open : chosen[n] \in AnyOf(before[n], MaxPaths)
           /\ found' = chosen
           /\ links' = [pair \in DOMAIN links \cup made(chosen) |-> IF pair \in DOMAIN links THEN links[pair] ELSE via(pair)]
    BY Zenon DEF Sort, Fresh, Open
  <1>0. /\ found' \in [Open -> UNION {AnyOf(before[n], MaxPaths) : n \in Open}]
        /\ \A n \in Open : found'[n] \in AnyOf(before[n], MaxPaths)
        /\ links' = [pair \in DOMAIN links \cup new |-> IF pair \in DOMAIN links THEN links[pair] ELSE via(pair)]
    <2> HIDE DEF made, via, before
    <2>1. made(found') = made(chosen) BY <1>00
    <2> QED BY <1>00, <2>1
  <1>01. \A n \in Open : before[n] = BeforeRows(n) BY DEF BeforeRows
  <1> HIDE DEF before
  <1>1. DOMAIN found' = Open /\ \A n \in Open : found'[n] \in AnyOf(BeforeRows(n), MaxPaths) BY <1>0, <1>01
  <1>2. links' = [pair \in DOMAIN links \cup new |-> IF pair \in DOMAIN links THEN links[pair] ELSE via(pair)]
    BY <1>0
  <1>3. /\ search = "level read" /\ search' = "found" /\ depth' = [depth EXCEPT ![side] = @ + 1] /\ beside' = {}
        /\ excluded' = excluded \cup (Fresh \ Open)
        /\ UNCHANGED <<published, asked, parents, depths, frontier, side, truncated, eventsCapped, paths, read>>
    BY Zenon DEF Sort, Fresh, Open
  <1>4. \A pair : pair \in new <=> \E n \in Open : \E q \in found'[n] : pair = {q, n}
    <2>1. \A n, q : {n, q} = {q, n} OBVIOUS
    <2> QED BY <2>1
  <1> HIDE DEF new
  <1>5. DOMAIN links' = DOMAIN links \cup new BY <1>2
  <1>6. \A pair \in DOMAIN links : links'[pair] = links[pair] BY <1>2
  <1>7. \A pair \in DOMAIN links' \ DOMAIN links : links'[pair] = "relationship" => ClaimedBeside(pair)
    <2>1. \A pair \in DOMAIN links' \ DOMAIN links : links'[pair] = via(pair) BY <1>2, <1>5
    <2> QED BY <2>1 DEF ClaimedBeside
  <1> QED BY <1>1, <1>3, <1>4, <1>5, <1>6, <1>7

\* so does the sorting of the rows,
LEMMA SortKeeps == ASSUME SearchInv, Sort PROVE SearchInv'
  <1>1. /\ search = "level read" /\ search' = "found" /\ depth' = [depth EXCEPT ![side] = @ + 1]
        /\ UNCHANGED <<published, asked, parents, depths, frontier, side, truncated, eventsCapped, paths, read>>
    BY SortIs
  <1>2. UNCHANGED <<visible, claims, events, ever, graphEdits>> BY <1>1 DEF published
  <1>3. side \in Sides /\ depth \in [Sides -> Nat] BY DEF SearchInv, PathTypeOK
  <1>30. depth' = [depth EXCEPT ![side] = depth[side] + 1] BY <1>1
  <1>31. /\ depth' \in [Sides -> Nat] /\ depth'[side] = depth[side] + 1
         /\ \A s \in Sides : s # side => depth'[s] = depth[s]
    BY <1>3, <1>30
  <1>4. PathTypeOK' BY <1>1, <1>2, <1>31 DEF SearchInv, PathTypeOK
  <1>5. TreesInv'
    <2>1. DOMAIN links \subseteq DOMAIN links' BY SortIs
    <2> QED BY <1>1, <1>2, <2>1, TreesStay DEF SearchInv
  <1>6. FrontInv'
    <2>1. ASSUME NEW s \in Sides PROVE LevelOf(s)' = LevelOf(s)
      <3>1. LevelOf(s) = depth[s] /\ depth[s] \in Nat BY <1>1, <1>3 DEF LevelOf
      <3>2. LevelOf(s)' = IF s = side THEN depth'[s] - 1 ELSE depth'[s]
        <4>1. search' = "found" /\ side' = side BY <1>1
        <4> QED BY <4>1 DEF LevelOf
      <3> QED BY <1>3, <1>31, <3>1, <3>2
    <2>2. Going BY <1>1 DEF Going
    <2> QED BY <1>1, <2>1, <2>2, FrontStays DEF SearchInv
  <1>7. FoundInv'
    <2>1. ASSUME NEW n \in Open
          PROVE  /\ n \in Nodes \ Visited(side) /\ found'[n] # {}
                 /\ \A q \in found'[n] : q \in frontier[side] /\ {q, n} \in ever \cap DOMAIN links'
      <3>1. n \in Fresh BY DEF Open
      <3>2. \A row \in beside : row \in frontier[side] \X Nodes \X {"relationship", "event"} /\ {row[1], row[2]} \in ever
        BY <1>1 DEF SearchInv, BesideInv
      <3>3. PICK row \in beside : row[2] = n BY <3>1 DEF Fresh
      <3>4. n \in Nodes \ Visited(side) BY <3>1, <3>2, <3>3 DEF Fresh
      <3>5. row[1] \in BeforeRows(n) BY <3>3 DEF BeforeRows
      <3>6. \A q \in BeforeRows(n) : q \in frontier[side] /\ {q, n} \in ever BY <3>2 DEF BeforeRows
      <3>7. found'[n] \in AnyOf(BeforeRows(n), MaxPaths) /\ \A q \in found'[n] : {q, n} \in DOMAIN links'
        BY SortIs
      <3>8. IsFiniteSet(BeforeRows(n))
        <4>1. Going BY <1>1 DEF Going
        <4>2. frontier[side] \subseteq Visited(side) BY <1>3, <4>1 DEF SearchInv, FrontInv
        <4>3. Visited(side) \subseteq Nodes BY <1>3 DEF SearchInv, TreesInv
        <4>4. BeforeRows(n) \in SUBSET Nodes BY <3>6, <4>2, <4>3
        <4> QED BY <4>4, PathAssumption, FS_Subset
      <3>9. found'[n] \subseteq BeforeRows(n) /\ found'[n] # {} BY <3>5, <3>7, <3>8, PathAssumption, CutAtMost
      <3> QED BY <3>4, <3>6, <3>7, <3>9
    <2>2. DOMAIN found' = Open BY SortIs
    <2>3. Visited(side)' = Visited(side) BY <1>1 DEF Visited
    <2> QED BY <1>1, <1>2, <2>1, <2>2, <2>3 DEF FoundInv
  <1>8. BesideInv' /\ BuildInv' BY <1>1 DEF BesideInv, BuildInv
  <1> QED BY <1>4, <1>5, <1>6, <1>7, <1>8 DEF SearchInv

\* The hops of a path are its steps.
LEMMA RoutesHops ==
    ASSUME NEW k \in Nat, NEW C, NEW E, NEW p \in Routes(k, C, E)
    PROVE  Hops(p) \subseteq E /\ Met(p) \subseteq C
  <1>1. p \in [1..(k + 1) -> C] /\ \A l \in 1..k : {p[l], p[l + 1]} \in E BY DEF Routes
  <1>2. Len(p) = k + 1 BY <1>1
  <1>3. 1..(Len(p) - 1) = 1..k BY <1>2
  <1> QED BY <1>1, <1>2, <1>3 DEF Hops, Met

\* What the level joins lies within what both sides recorded.
LEMMA JoinedHops ==
    ASSUME SearchInv, search = "found", NEW p \in JoinedSides(ParNow, FarNow, MetNow)
    PROVE  Hops(p) \subseteq ever \cap DOMAIN links
  <1> DEFINE E == ever \cap DOMAIN links
  <1>1. Trees(FarNow, ParNow) /\ \A s \in Sides : DOMAIN FarNow[s] \subseteq Nodes /\ Edges(DOMAIN FarNow[s], ParNow[s], E)
    BY NowTrees
  <1>2. Both(FarNow) = MetNow /\ \A s \in Sides : \A n \in DOMAIN FarNow[s] : FarNow[s][n] <= depth[s]
    BY NowLevels
  <1>3. MetNow \in SUBSET Both(FarNow) BY <1>2
  <1>4. MetNow \subseteq Nodes BY <1>1, <1>2, RootsAre DEF Both
  <1>5. \A s \in Sides : depth[s] \in Nat /\ Inside(DOMAIN FarNow[s], FarNow[s], depth[s], Nodes)
    BY <1>1 DEF Inside, SearchInv, PathTypeOK
  <1>6. \A s \in Sides, n \in MetNow : FarNow[s][n] <= depth[s]
    <2>1. \A s \in Sides : MetNow \subseteq DOMAIN FarNow[s] BY <1>2 DEF Both, Sides
    <2> QED BY <1>2, <2>1
  <1> HIDE DEF E
  <1>7. PICK n \in MetNow : /\ FarNow["forward"][n] \in Nat /\ FarNow["backward"][n] \in Nat
                            /\ p \in Routes(FarNow["forward"][n] + FarNow["backward"][n], Nodes, E)
    BY <1>1, <1>3, <1>4, <1>5, <1>6, JoinedInside
  <1>8. FarNow["forward"][n] + FarNow["backward"][n] \in Nat BY <1>7
  <1>9. Hops(p) \subseteq E BY <1>7, <1>8, RoutesHops
  <1> QED BY <1>9 DEF E

\* so does the end of the level,
LEMMA SettleKeeps == ASSUME SearchInv, Settle PROVE SearchInv'
  <1>1. /\ search = "found" /\ depths' = FarNow /\ parents' = ParNow
        /\ frontier' = [frontier EXCEPT ![side] = DOMAIN Kept] /\ search' = (IF GoesOn THEN "level" ELSE "build")
        /\ paths' \in AnyOf(JoinedSides(ParNow, FarNow, MetNow), MaxPaths)
        /\ UNCHANGED <<visible, claims, events, ever, graphEdits, asked, depth, side, links>>
    BY SettleIs DEF published
  <1>2. PathTypeOK /\ TreesInv /\ side \in Sides /\ depth \in [Sides -> Nat] /\ DOMAIN frontier = Sides
    BY DEF SearchInv, PathTypeOK
  <1>3. DOMAIN FarNow = Sides /\ DOMAIN ParNow = Sides BY <1>2, NowIs
  <1>4. PathTypeOK' BY <1>1, <1>2, <1>3 DEF PathTypeOK
  <1>5. TreesInv'
    <2>1. /\ Trees(FarNow, ParNow)
          /\ \A s \in Sides : DOMAIN FarNow[s] \subseteq Nodes /\ Edges(DOMAIN FarNow[s], ParNow[s], ever \cap DOMAIN links)
      BY <1>1, NowTrees
    <2>2. \A s : Visited(s)' = DOMAIN FarNow[s] BY <1>1 DEF Visited
    <2> QED BY <1>1, <2>1, <2>2 DEF TreesInv
  <1>6. FrontInv'
    <2> SUFFICES ASSUME GoesOn PROVE FrontInv'
      BY <1>1 DEF FrontInv, Going
    <2>1. MetNow = {} /\ depth["forward"] + depth["backward"] < asked.maxDepth BY DEF GoesOn
    <2>2. /\ Both(FarNow) = MetNow /\ \A s \in Sides : \A n \in DOMAIN FarNow[s] : FarNow[s][n] <= depth[s]
          /\ {n \in DOMAIN FarNow[side] : FarNow[side][n] = depth[side]} = DOMAIN Kept
          /\ \A s \in Sides : s # side => LevelOf(s) = depth[s]
      BY <1>1, NowLevels
    <2>3. \A s : Visited(s)' = DOMAIN FarNow[s] /\ LevelOf(s)' = depth[s] BY <1>1 DEF Visited, LevelOf
    <2>4. Both(depths)' = {} BY <1>1, <2>1, <2>2 DEF Both
    <2>5. ASSUME NEW s \in Sides PROVE frontier'[s] = {n \in DOMAIN FarNow[s] : FarNow[s][n] = depth[s]}
      <3>1. CASE s = side BY <1>1, <1>2, <2>2, <3>1
      <3>2. CASE s # side
        <4>1. frontier'[s] = frontier[s] BY <1>1, <1>2, <3>2
        <4>2. FarNow[s] = depths[s] BY <1>2, <3>2, NowIs
        <4>3. Going BY <1>1 DEF Going
        <4>4. frontier[s] = {n \in Visited(s) : depths[s][n] = LevelOf(s)} BY <4>3 DEF SearchInv, FrontInv
        <4> QED BY <2>2, <3>2, <4>1, <4>2, <4>4 DEF Visited
      <3> QED BY <3>1, <3>2
    <2>6. \A s \in Sides : depth[s] \in Nat BY <1>2
    <2> QED BY <1>1, <2>1, <2>2, <2>3, <2>4, <2>5, <2>6 DEF FrontInv
  <1>7. BuildInv'
    <2>1. \A p \in paths' : p \in JoinedSides(ParNow, FarNow, MetNow) BY <1>1 DEF AnyOf
    <2>2. \A p \in paths' : Hops(p) \subseteq ever \cap DOMAIN links BY <1>1, <2>1, JoinedHops
    <2> QED BY <1>1, <2>2 DEF BuildInv
  <1>8. BesideInv' /\ FoundInv' BY <1>1 DEF BesideInv, FoundInv
  <1> QED BY <1>4, <1>5, <1>6, <1>7, <1>8 DEF SearchInv

\* so do a timeout and the page,
LEMMA EndsKeep == ASSUME SearchInv, TimeOut \/ Build \/ UNCHANGED svars PROVE SearchInv'
  <1>1. CASE TimeOut \/ Build
    <2>1. search' = "shown" /\ UNCHANGED <<published, asked, tree, side, links>>
      BY <1>1 DEF TimeOut, Build
    <2>2. UNCHANGED <<visible, claims, events, ever, graphEdits, parents, depths, frontier, depth>>
      BY <2>1 DEF published, tree
    <2>3. PathTypeOK' BY <2>1, <2>2 DEF SearchInv, PathTypeOK
    <2>4. TreesInv' BY <2>1, <2>2, TreesStay DEF SearchInv
    <2>5. FrontInv' /\ BesideInv' /\ FoundInv' /\ BuildInv'
      BY <2>1 DEF FrontInv, Going, BesideInv, FoundInv, BuildInv
    <2> QED BY <2>3, <2>4, <2>5 DEF SearchInv
  <1>2. CASE UNCHANGED svars
    <2>1. UNCHANGED <<visible, claims, events, ever, graphEdits, parents, depths, frontier, depth, asked, search, side,
                      beside, found, links, paths>>
      BY <1>2 DEF svars, published, tree
    <2>2. PathTypeOK' BY <2>1 DEF SearchInv, PathTypeOK
    <2>3. TreesInv' BY <2>1, TreesStay DEF SearchInv
    <2>4. FrontInv'
      <3>1. \A s : LevelOf(s)' = LevelOf(s) BY <2>1 DEF LevelOf
      <3>2. Going' => Going BY <2>1 DEF Going
      <3> QED BY <2>1, <3>1, <3>2, FrontStays DEF SearchInv
    <2>5. Visited(side)' = Visited(side) BY <2>1 DEF Visited
    <2>6. BesideInv' /\ FoundInv' /\ BuildInv' BY <2>1, <2>5 DEF SearchInv, BesideInv, FoundInv, BuildInv
    <2> QED BY <2>2, <2>3, <2>4, <2>6 DEF SearchInv
  <1> QED BY <1>1, <1>2

\* and so does a change of what is published, which is counted.
LEMMA ChangeKeeps == ASSUME SearchInv, Change PROVE SearchInv' /\ graphEdits' # 0
  <1>1. /\ ever' = ever \cup claims' \cup events' /\ graphEdits' = graphEdits + 1
        /\ UNCHANGED <<asked, search, tree, side, beside, found, links, excluded, truncated, eventsCapped, paths, read>>
    BY DEF Change
  <1>2. visible' \subseteq visible BY DEF Change
  <1>3. UNCHANGED <<parents, depths, frontier, depth>> BY <1>1 DEF tree
  <1>4. graphEdits \in Nat /\ visible \subseteq Nodes BY DEF SearchInv, PathTypeOK
  <1>5. PathTypeOK'
    <2>1. graphEdits' \in Nat /\ visible' \subseteq Nodes /\ claims' \cup events' \subseteq ever' BY <1>1, <1>2, <1>4
    <2> QED BY <1>1, <1>3, <2>1 DEF SearchInv, PathTypeOK
  <1>6. TreesInv' BY <1>1, <1>3, TreesStay DEF SearchInv
  <1>7. FrontInv'
    <2>1. \A s : LevelOf(s)' = LevelOf(s) BY <1>1, <1>3 DEF LevelOf
    <2>2. Going' => Going BY <1>1 DEF Going
    <2> QED BY <1>1, <1>3, <2>1, <2>2, FrontStays DEF SearchInv
  <1>8. Visited(side)' = Visited(side) BY <1>1, <1>3 DEF Visited
  <1>9. BesideInv' BY <1>1, <1>3 DEF SearchInv, BesideInv
  <1>10. FoundInv' BY <1>1, <1>3, <1>8 DEF SearchInv, FoundInv
  <1>11. BuildInv' BY <1>1 DEF SearchInv, BuildInv
  <1> QED BY <1>1, <1>4, <1>5, <1>6, <1>7, <1>9, <1>10, <1>11 DEF SearchInv

\* A search starts in order.
LEMMA SearchStart == PathInit => SearchInv
  <1> SUFFICES ASSUME PathInit PROVE SearchInv
    OBVIOUS
  <1>1. /\ visible = Nodes /\ ever = claims \cup events /\ graphEdits = 0 /\ search = "level" /\ side = "forward"
        /\ asked.maxDepth \in MaxDepths /\ frontier = [s \in Sides |-> {Root[s]}] /\ depth = [s \in Sides |-> 0]
    BY DEF PathInit
  <1>2. parents = [s \in Sides |-> [n \in {Root[s]} |-> {}]] /\ depths = [s \in Sides |-> [n \in {Root[s]} |-> 0]]
    BY DEF PathInit
  <1>3. Root["forward"] = From /\ Root["backward"] = To /\ "forward" \in Sides /\ "backward" \in Sides BY RootsAre
  <1>4. \A s \in Sides : Root[s] \in Nodes BY PathAssumption, <1>3 DEF Sides
  <1>5. \A s \in Sides : /\ Visited(s) = {Root[s]} /\ DOMAIN depths[s] = {Root[s]} /\ depths[s][Root[s]] = 0
                         /\ parents[s][Root[s]] = {} /\ DOMAIN parents[s] = {Root[s]}
    BY <1>2 DEF Visited
  <1>6. PathTypeOK
    <2>1. asked.maxDepth \in Nat \ {0} BY <1>1, PathAssumption
    <2>2. depth \in [Sides -> Nat] /\ DOMAIN frontier = Sides BY <1>1
    <2>3. DOMAIN depths = Sides /\ DOMAIN parents = Sides BY <1>2
    <2> QED BY <1>1, <1>3, <2>1, <2>2, <2>3 DEF PathTypeOK
  <1>7. TreesInv
    <2>1. ASSUME NEW s \in Sides
          PROVE  /\ Tree(DOMAIN depths[s], depths[s], parents[s], Root[s])
                 /\ Visited(s) \subseteq Nodes /\ Edges(Visited(s), parents[s], ever \cap DOMAIN links)
      <3>1. Root[s] \in Nodes BY <1>4
      <3>2. /\ Visited(s) = {Root[s]} /\ DOMAIN depths[s] = {Root[s]} /\ depths[s][Root[s]] = 0
            /\ parents[s][Root[s]] = {} /\ DOMAIN parents[s] = {Root[s]}
        BY <1>5
      <3>3. Tree(DOMAIN depths[s], depths[s], parents[s], Root[s]) BY <3>2 DEF Tree, Distances
      <3>4. Edges(Visited(s), parents[s], ever \cap DOMAIN links) BY <3>2 DEF Edges
      <3> QED BY <3>1, <3>2, <3>3, <3>4
    <2> QED BY <2>1 DEF TreesInv, Trees
  <1>8. FrontInv
    <2>1. \A s \in Sides : LevelOf(s) = 0 BY <1>1 DEF LevelOf
    <2>2. Both(depths) = {} BY <1>3, <1>5, PathAssumption DEF Both
    <2>3. LevelOf("forward") + LevelOf("backward") < asked.maxDepth
      <3>1. LevelOf("forward") = 0 /\ LevelOf("backward") = 0 BY <1>3, <2>1
      <3>2. asked.maxDepth \in Nat \ {0} BY <1>6 DEF PathTypeOK
      <3> QED BY <3>1, <3>2
    <2>4. \A s \in Sides : frontier[s] = {n \in Visited(s) : depths[s][n] = LevelOf(s)} /\ \A n \in Visited(s) : depths[s][n] <= LevelOf(s)
      BY <1>1, <1>5, <2>1
    <2>5. \A s \in Sides : LevelOf(s) \in Nat BY <2>1
    <2> QED BY <2>2, <2>3, <2>4, <2>5 DEF FrontInv
  <1>9. BesideInv /\ FoundInv /\ BuildInv BY <1>1 DEF BesideInv, FoundInv, BuildInv
  <1> QED BY <1>6, <1>7, <1>8, <1>9 DEF SearchInv

-----------------------------------------------------------------------------
(* A search during which nothing changes. *)

\* What holds of a search during which nothing changes.
LinksTrue == \A h \in DOMAIN links : h \in Linked /\ (links[h] = "relationship" => h \in claims)
HubsOut   == Going => excluded \cap Crossed = {} /\ \A s \in Sides : Visited(s) \subseteq Crossed
RowsTrue  == search \in {"events", "level read"} =>
    \A row \in beside : LET pair == {row[1], row[2]} IN pair \in Linked /\ (row[3] = "relationship" => pair \in claims)
EventsWanted == search = "events" => asked.includeEvents
FoundOpen == search = "found" => \A n \in DOMAIN found : ~IsStructural(n)
PathsReal == search = "build" => \A p \in paths : p \in UNION {Reached[k] : k \in DOMAIN Reached}

AllPublic == visible = Nodes /\ claims \in ClaimGraphs /\ events \in EventGraphs
CalmInv == graphEdits = 0 => AllPublic /\ LinksTrue /\ HubsOut /\ RowsTrue /\ EventsWanted /\ FoundOpen /\ PathsReal

\* While nothing published changes, neither does what an answer promises.
LEMMA SamePublished ==
    ASSUME UNCHANGED <<claims, events, asked>>
    PROVE  /\ Linked' = Linked /\ Crossed' = Crossed /\ Reached' = Reached /\ Shortest' = Shortest
           /\ \A n : IsStructural(n)' = IsStructural(n)
  <1>1. Linked' = Linked BY DEF Linked
  <1>2. \A n : Degree(n)' = Degree(n) BY DEF Degree, Touching
  <1>3. Crossed' = Crossed BY <1>2 DEF Crossed
  <1>4. Reached' = Reached BY <1>1, <1>3 DEF Reached
  <1>5. Shortest' = Shortest BY <1>4 DEF Shortest
  <1>6. \A n : IsStructural(n)' = IsStructural(n) BY DEF IsStructural
  <1> QED BY <1>1, <1>3, <1>4, <1>5, <1>6

\* Pairs join two different entities, so that degrees are numbers.
LEMMA PairsAre ==
    ASSUME AllPublic
    PROVE  /\ \A n, q : {n, q} \in Linked => n \in Nodes /\ q \in Nodes /\ n # q
           /\ \A pair \in Linked : \E n, q \in Nodes : n # q /\ pair = {n, q}
           /\ \A n : Degree(n) \in Nat
  <1>1. \A pair \in claims \cup events : \E n, q \in Nodes : n # q /\ pair = {n, q}
    BY PathAssumption DEF AllPublic
  <1>2. Linked \subseteq claims \cup events BY DEF Linked
  <1>3. ASSUME NEW n, NEW q, {n, q} \in Linked PROVE n \in Nodes /\ q \in Nodes /\ n # q
    <2>1. PICK a, b \in Nodes : a # b /\ {n, q} = {a, b} BY <1>1, <1>2, <1>3
    <2> QED BY <2>1
  <1>4. \A n : Degree(n) \in Nat
    <2>1. claims \in SUBSET (SUBSET Nodes) BY <1>1
    <2>2. IsFiniteSet(SUBSET Nodes) BY PathAssumption, FS_SUBSET
    <2>3. \A n : Touching(claims, {n}) \in SUBSET (SUBSET Nodes) BY <2>1 DEF Touching
    <2>4. \A n : IsFiniteSet(Touching(claims, {n})) BY <2>2, <2>3, FS_Subset
    <2> QED BY <2>4, FS_CardinalityType DEF Degree
  <1> QED BY <1>1, <1>2, <1>3, <1>4

\* The rows of a calm search are of pairs that are published, and of no hub left out,
LEMMA ReadsCalm == ASSUME SearchInv, CalmInv, ReadClaims \/ ReadEvents PROVE CalmInv'
  <1>1. /\ search \in {"level", "events"} /\ search' \in {"events", "level read"}
        /\ UNCHANGED <<visible, claims, events, ever, graphEdits, asked, depths, links, excluded>>
    BY DEF ReadClaims, ReadEvents, published, tree
  <1> SUFFICES ASSUME graphEdits = 0 PROVE (AllPublic /\ LinksTrue /\ HubsOut /\ RowsTrue /\ EventsWanted /\ FoundOpen /\ PathsReal)'
    BY <1>1 DEF CalmInv
  <1>2. AllPublic /\ LinksTrue /\ HubsOut /\ RowsTrue /\ EventsWanted BY DEF CalmInv
  <1>3. Linked' = Linked /\ Crossed' = Crossed BY <1>1, SamePublished
  <1>4. AllPublic' /\ LinksTrue' BY <1>1, <1>2, <1>3 DEF AllPublic, LinksTrue
  <1>5. HubsOut'
    <2>1. \A s : Visited(s)' = Visited(s) BY <1>1 DEF Visited
    <2>2. Going BY <1>1 DEF Going
    <2> QED BY <1>1, <1>2, <1>3, <2>1, <2>2 DEF HubsOut
  <1>6. \A pair : pair \in claims => pair \in Linked BY DEF Linked
  <1>7. ASSUME NEW row \in beside'
        PROVE  {row[1], row[2]} \in Linked /\ (row[3] = "relationship" => {row[1], row[2]} \in claims)
    <2>1. CASE ReadClaims
      <3> DEFINE F == FirstOf(frontier[Smaller], FrontierLimit)
      <3>1. PICK kept \in AnyOf(Touching(claims, F), LevelRowLimit) : beside' = Beside(F, kept, "relationship")
        BY <2>1 DEF ReadClaims
      <3>2. {row[1], row[2]} \in kept BY <3>1 DEF Beside
      <3>3. kept \subseteq claims BY <3>1 DEF AnyOf, Touching
      <3> QED BY <1>6, <3>2, <3>3
    <2>2. CASE ReadEvents
      <3>1. search = "events" BY <2>2 DEF ReadEvents
      <3>2. PICK top :
              /\ \A n \in Expanded : top[n] \in AnyOf(Touching(events, {n}), EventNeighbours)
              /\ \E kept \in AnyOf(UNION {Beside({n}, top[n], "event") : n \in Expanded}, LevelRowLimit) :
                   beside' = beside \cup kept
        BY <2>2 DEF ReadEvents
      <3>3. PICK kept \in AnyOf(UNION {Beside({n}, top[n], "event") : n \in Expanded}, LevelRowLimit) :
              beside' = beside \cup kept
        BY <3>2
      <3>4. CASE row \in beside BY <1>2, <3>1, <3>4 DEF RowsTrue
      <3>5. CASE row \in kept
        <4>1. PICK n \in Expanded : row \in Beside({n}, top[n], "event") BY <3>3, <3>5 DEF AnyOf
        <4>2. row \in {n} \X Nodes \X {"event"} /\ {row[1], row[2]} \in top[n] BY <4>1 DEF Beside
        <4>3. row[3] = "event" BY <4>2
        <4>4. top[n] \subseteq events BY <3>2 DEF AnyOf, Touching
        <4>5. asked.includeEvents BY <1>2, <3>1 DEF EventsWanted
        <4>6. {row[1], row[2]} \in Linked BY <4>2, <4>4, <4>5 DEF Linked
        <4> QED BY <4>3, <4>6
      <3> QED BY <3>3, <3>4, <3>5
    <2> QED BY <2>1, <2>2
  <1>8. RowsTrue' BY <1>1, <1>3, <1>7 DEF RowsTrue
  <1>9. FoundOpen' /\ PathsReal' BY <1>1 DEF FoundOpen, PathsReal
  <1>10. EventsWanted'
    <2>1. CASE ReadClaims
      <3>1. search' = IF asked.includeEvents THEN "events" ELSE "level read" BY <2>1 DEF ReadClaims
      <3> QED BY <1>1, <3>1 DEF EventsWanted
    <2>2. CASE ReadEvents BY <2>2 DEF ReadEvents, EventsWanted
    <2> QED BY <2>1, <2>2
  <1> QED BY <1>4, <1>5, <1>8, <1>9, <1>10

\* and what they add is by such pairs and through no hub classification.
LEMMA SortCalm == ASSUME SearchInv, CalmInv, Sort PROVE CalmInv'
  <1>1. /\ search = "level read" /\ search' = "found"
        /\ UNCHANGED <<visible, claims, events, graphEdits, asked, depths>>
        /\ excluded' = excluded \cup (Fresh \ Open)
    BY SortIs DEF published
  <1> SUFFICES ASSUME graphEdits = 0
               PROVE  (AllPublic /\ LinksTrue /\ HubsOut /\ RowsTrue /\ EventsWanted /\ FoundOpen /\ PathsReal)'
    BY <1>1 DEF CalmInv
  <1>2. AllPublic /\ LinksTrue /\ HubsOut /\ RowsTrue BY DEF CalmInv
  <1>3. Linked' = Linked /\ Crossed' = Crossed /\ \A n : IsStructural(n)' = IsStructural(n) BY <1>1, SamePublished
  <1>4. AllPublic' BY <1>1, <1>2 DEF AllPublic
  <1>5. LinksTrue'
    <2>1. /\ \A pair \in DOMAIN links : links'[pair] = links[pair]
          /\ \A n \in Open : found'[n] \in AnyOf(BeforeRows(n), MaxPaths)
          /\ \A pair \in DOMAIN links' \ DOMAIN links :
               /\ \E n \in Open : \E q \in found'[n] : pair = {q, n}
               /\ links'[pair] = "relationship" => ClaimedBeside(pair)
      BY SortIs
    <2>2. \A row \in beside : {row[1], row[2]} \in Linked /\ (row[3] = "relationship" => {row[1], row[2]} \in claims)
      BY <1>1, <1>2 DEF RowsTrue
    <2>3. ASSUME NEW h \in DOMAIN links' PROVE h \in Linked /\ (links'[h] = "relationship" => h \in claims)
      <3>1. CASE h \in DOMAIN links BY <1>2, <2>1, <3>1 DEF LinksTrue
      <3>2. CASE h \notin DOMAIN links
        <4>1. PICK n \in Open : \E q \in found'[n] : h = {q, n} BY <2>1, <3>2
        <4>2. PICK q \in found'[n] : h = {q, n} BY <4>1
        <4>3. q \in BeforeRows(n) BY <2>1, <4>2 DEF AnyOf
        <4>4. PICK row \in beside : row[1] = q /\ row[2] = n BY <4>3 DEF BeforeRows
        <4>5. h \in Linked BY <2>2, <4>2, <4>4
        <4>6. ASSUME links'[h] = "relationship" PROVE h \in claims
          <5>1. ClaimedBeside(h) BY <2>1, <3>2, <4>6
          <5> QED BY <2>2, <5>1 DEF ClaimedBeside
        <4> QED BY <4>5, <4>6
      <3> QED BY <3>1, <3>2
    <2> QED BY <1>1, <1>3, <2>3 DEF LinksTrue
  <1>6. HubsOut'
    <2>1. Going BY <1>1 DEF Going
    <2>2. \A s : Visited(s)' = Visited(s) BY <1>1 DEF Visited
    <2>3. ASSUME NEW n \in Fresh \ Open PROVE n \notin Crossed
      <3>1. IsStructural(n) BY DEF Open
      <3> QED BY <3>1 DEF IsStructural, Crossed
    <2> QED BY <1>1, <1>2, <1>3, <2>1, <2>2, <2>3 DEF HubsOut
  <1>7. FoundOpen'
    <2>1. DOMAIN found' = Open BY SortIs
    <2> QED BY <1>3, <2>1 DEF FoundOpen, Open
  <1>8. RowsTrue' /\ EventsWanted' /\ PathsReal' BY <1>1 DEF RowsTrue, EventsWanted, PathsReal
  <1> QED BY <1>4, <1>5, <1>6, <1>7, <1>8

\* Up to its level each side crosses no hub, and neither does the place where they meet.
LEMMA NowCrossed ==
    ASSUME SearchInv, CalmInv, graphEdits = 0, search = "found"
    PROVE  MetNow \subseteq Crossed /\ \A s \in Sides : Inside(DOMAIN FarNow[s], FarNow[s], depth[s], Crossed)
  <1>1. PathTypeOK /\ TreesInv /\ Going /\ side \in Sides BY DEF SearchInv, PathTypeOK, Going
  <1>2. \A s \in Sides : Visited(s) \subseteq Crossed BY <1>1 DEF CalmInv, HubsOut
  <1>3. Other[side] \in Sides BY <1>1 DEF Other, Sides
  <1>4. MetNow \subseteq Crossed BY <1>2, <1>3 DEF MetNow
  <1>5. ASSUME NEW s \in Sides, NEW n \in DOMAIN FarNow[s], FarNow[s][n] < depth[s] PROVE n \in Crossed
    <2>1. CASE s = side
      <3>1. DOMAIN FarNow[side] = Visited(side) \cup DOMAIN Kept BY <1>1, NowIs
      <3>2. (\A m \in DOMAIN Kept : FarNow[side][m] = depth[side]) /\ depth[side] \in Nat
        BY NowLevels, <1>1 DEF PathTypeOK
      <3>3. n \notin DOMAIN Kept BY <1>5, <2>1, <3>2
      <3> QED BY <1>2, <2>1, <3>1, <3>3
    <2>2. CASE s # side
      <3>1. FarNow[s] = depths[s] BY <1>1, <2>2, NowIs
      <3> QED BY <1>2, <3>1 DEF Visited
    <2> QED BY <2>1, <2>2
  <1> QED BY <1>4, <1>5 DEF Inside

\* What drop_busy() leaves crosses no hub, and what is joined then exists.
LEMMA SettleCalm == ASSUME SearchInv, CalmInv, Settle PROVE CalmInv'
  <1>1. /\ search = "found" /\ depths' = FarNow /\ search' = (IF GoesOn THEN "level" ELSE "build")
        /\ paths' \in AnyOf(JoinedSides(ParNow, FarNow, MetNow), MaxPaths) /\ excluded' = excluded \cup Busy
        /\ UNCHANGED <<visible, claims, events, graphEdits, asked, links>>
    BY SettleIs DEF published
  <1> SUFFICES ASSUME graphEdits = 0
               PROVE  (AllPublic /\ LinksTrue /\ HubsOut /\ RowsTrue /\ EventsWanted /\ FoundOpen /\ PathsReal)'
    BY <1>1 DEF CalmInv
  <1>2. AllPublic /\ LinksTrue /\ HubsOut /\ FoundOpen BY DEF CalmInv
  <1>3. Linked' = Linked /\ Crossed' = Crossed /\ Reached' = Reached BY <1>1, SamePublished
  <1>4. AllPublic' /\ LinksTrue' BY <1>1, <1>2, <1>3 DEF AllPublic, LinksTrue
  <1>5. PathTypeOK /\ TreesInv /\ Going /\ side \in Sides BY <1>1 DEF SearchInv, PathTypeOK, Going
  <1>6. \A s \in Sides : Visited(s) \subseteq Crossed BY <1>2, <1>5 DEF HubsOut
  <1>7. HubsOut'
    <2> SUFFICES ASSUME GoesOn PROVE HubsOut'
      BY <1>1 DEF HubsOut, Going
    <2>1. Busy \cap Crossed = {}
      <3> SUFFICES ASSUME NEW n \in Busy PROVE n \notin Crossed
        OBVIOUS
      <3>1. ~asked.includeHubs /\ n \notin {From, To} /\ Degree(n) > HubDegree BY DEF Busy
      <3>2. Degree(n) \in Nat /\ HubDegree \in Nat BY <1>2, PairsAre, PathAssumption
      <3>3. ~(Degree(n) <= HubDegree) BY <3>1, <3>2
      <3> QED BY <3>1, <3>3 DEF Crossed
    <2>2. DOMAIN Kept \subseteq Crossed
      <3> SUFFICES ASSUME NEW n \in DOMAIN Kept PROVE n \in Crossed
        OBVIOUS
      <3>1. n \in DOMAIN found /\ n \notin Busy BY <1>5, NowIs
      <3>2. n \in Nodes /\ ~IsStructural(n) BY <1>1, <1>2, <3>1, NowSide DEF FoundOpen
      <3>3. n \in Checked
        <4>1. side = "forward" => Other[side] = "backward" BY DEF Other
        <4>2. side = "backward" => Other[side] = "forward" BY DEF Other
        <4>3. depth["forward"] \in Nat /\ depth["backward"] \in Nat /\ asked.maxDepth \in Nat BY <1>1, NowLevels
        <4>4. depth["forward"] + depth["backward"] < asked.maxDepth BY DEF GoesOn
        <4>5. ~(depth[side] + depth[Other[side]] >= asked.maxDepth) BY <1>5, <4>1, <4>2, <4>3, <4>4 DEF Sides
        <4> QED BY <3>1, <4>5 DEF Checked
      <3>4. Degree(n) \in Nat /\ HubDegree \in Nat BY <1>2, PairsAre, PathAssumption
      <3>5. CASE asked.includeHubs BY <3>2, <3>5 DEF Crossed
      <3>6. CASE n \in {From, To} BY <3>6, PathAssumption DEF Crossed
      <3>7. CASE ~asked.includeHubs /\ n \notin {From, To}
        <4>1. n \notin Structural BY <3>2, <3>7 DEF IsStructural
        <4>2. ~(Degree(n) > HubDegree) BY <3>1, <3>3, <3>7 DEF Busy
        <4>3. Degree(n) <= HubDegree BY <3>4, <4>2
        <4> QED BY <3>2, <3>7, <4>1, <4>3 DEF Crossed
      <3> QED BY <3>5, <3>6, <3>7
    <2>3. \A s : Visited(s)' = DOMAIN FarNow[s] BY <1>1 DEF Visited
    <2>4. ASSUME NEW s \in Sides PROVE DOMAIN FarNow[s] \subseteq Crossed
      <3>1. CASE s = side BY <1>5, <1>6, <2>2, <3>1, NowIs
      <3>2. CASE s # side
        <4>1. FarNow[s] = depths[s] BY <1>5, <3>2, NowIs
        <4> QED BY <1>6, <4>1 DEF Visited
      <3> QED BY <3>1, <3>2
    <2>5. excluded \cap Crossed = {} BY <1>2, <1>5 DEF HubsOut
    <2> QED BY <1>1, <1>3, <2>1, <2>3, <2>4, <2>5 DEF HubsOut
  <1>8. PathsReal'
    <2> SUFFICES ASSUME NEW p \in paths' PROVE p \in UNION {Reached[k] : k \in DOMAIN Reached}
      BY <1>3 DEF PathsReal
    <2>1. p \in JoinedSides(ParNow, FarNow, MetNow) BY <1>1 DEF AnyOf
    <2>2. Trees(FarNow, ParNow) /\ \A s \in Sides : Edges(DOMAIN FarNow[s], ParNow[s], Linked)
      <3>1. ever \cap DOMAIN links \subseteq Linked BY <1>2 DEF LinksTrue
      <3> QED BY <1>1, <3>1, NowTrees, EdgesMore
    <2>3. /\ Both(FarNow) = MetNow /\ \A s \in Sides : \A n \in DOMAIN FarNow[s] : FarNow[s][n] <= depth[s]
          /\ depth["forward"] + depth["backward"] <= asked.maxDepth
          /\ depth["forward"] \in Nat /\ depth["backward"] \in Nat /\ asked.maxDepth \in Nat
      BY <1>1, NowLevels
    <2>4. MetNow \in SUBSET Both(FarNow) BY <2>3
    <2>5. MetNow \subseteq Crossed /\ \A s \in Sides : depth[s] \in Nat /\ Inside(DOMAIN FarNow[s], FarNow[s], depth[s], Crossed)
      BY <1>1, <1>5, NowCrossed DEF PathTypeOK
    <2>6. \A s \in Sides, n \in MetNow : FarNow[s][n] <= depth[s]
      <3>1. \A s \in Sides : MetNow \subseteq DOMAIN FarNow[s] BY <2>3 DEF Both, Sides
      <3> QED BY <2>3, <3>1
    <2>7. PICK n \in MetNow : /\ FarNow["forward"][n] \in Nat /\ FarNow["backward"][n] \in Nat
                              /\ p \in Routes(FarNow["forward"][n] + FarNow["backward"][n], Crossed, Linked)
      BY <2>1, <2>2, <2>4, <2>5, <2>6, JoinedInside
    <2>8. FarNow["forward"][n] <= depth["forward"] /\ FarNow["backward"][n] <= depth["backward"] BY <2>6, <2>7, RootsAre
    <2>9. FarNow["forward"][n] + FarNow["backward"][n] \in 0..asked.maxDepth BY <2>3, <2>7, <2>8
    <2> QED BY <2>7, <2>9, RoutesReach
  <1>9. RowsTrue' /\ EventsWanted' /\ FoundOpen' BY <1>1 DEF RowsTrue, EventsWanted, FoundOpen
  <1> QED BY <1>4, <1>7, <1>8, <1>9

\* The end of a search, or a change, leaves nothing to keep.
LEMMA EndsCalm == ASSUME SearchInv, CalmInv, TimeOut \/ Build \/ Change \/ UNCHANGED svars PROVE CalmInv'
  <1>1. CASE TimeOut \/ Build
    <2>1. search' = "shown" /\ UNCHANGED <<visible, claims, events, graphEdits, asked, links>>
      BY <1>1 DEF TimeOut, Build, published
    <2>2. Linked' = Linked BY <2>1, SamePublished
    <2> QED BY <2>1, <2>2 DEF CalmInv, AllPublic, LinksTrue, HubsOut, Going, RowsTrue, EventsWanted, FoundOpen, PathsReal
  <1>2. CASE Change
    <2>1. graphEdits' # 0 BY <1>2, ChangeKeeps
    <2> QED BY <2>1 DEF CalmInv
  <1>3. CASE UNCHANGED svars
    <2>1. UNCHANGED <<visible, claims, events, graphEdits, depths, asked, search, beside, found, links, excluded, paths>>
      BY <1>3 DEF svars, published, tree
    <2>2. /\ Linked' = Linked /\ Crossed' = Crossed /\ Reached' = Reached
          /\ \A n : IsStructural(n)' = IsStructural(n)
      BY <2>1, SamePublished
    <2>3. \A s : Visited(s)' = Visited(s) BY <2>1 DEF Visited
    <2>4. (AllPublic /\ LinksTrue)' <=> (AllPublic /\ LinksTrue) BY <2>1, <2>2 DEF AllPublic, LinksTrue
    <2>5. HubsOut' <=> HubsOut BY <2>1, <2>2, <2>3 DEF HubsOut, Going
    <2>6. RowsTrue' <=> RowsTrue BY <2>1, <2>2 DEF RowsTrue
    <2>7. EventsWanted' <=> EventsWanted BY <2>1 DEF EventsWanted
    <2>8. FoundOpen' <=> FoundOpen BY <2>1, <2>2 DEF FoundOpen
    <2>9. PathsReal' <=> PathsReal BY <2>1, <2>2 DEF PathsReal
    <2> QED BY <2>1, <2>4, <2>5, <2>6, <2>7, <2>8, <2>9 DEF CalmInv
  <1> QED BY <1>1, <1>2, <1>3

\* The two ends of a search may be crossed.
LEMMA CalmStart == PathInit => CalmInv
  <1> SUFFICES ASSUME PathInit PROVE CalmInv
    OBVIOUS
  <1>1. /\ visible = Nodes /\ claims \in ClaimGraphs /\ events \in EventGraphs /\ search = "level"
        /\ excluded = {} /\ links = <<>>
    BY DEF PathInit
  <1>2. AllPublic BY <1>1 DEF AllPublic
  <1>3. LinksTrue BY <1>1 DEF LinksTrue
  <1>4. \A s \in Sides : Visited(s) = {Root[s]} BY DEF PathInit, Visited
  <1>5. {From, To} \subseteq Crossed BY PathAssumption DEF Crossed
  <1>6. HubsOut BY <1>1, <1>4, <1>5, RootsAre DEF HubsOut
  <1>7. RowsTrue /\ EventsWanted /\ FoundOpen /\ PathsReal BY <1>1 DEF RowsTrue, EventsWanted, FoundOpen, PathsReal
  <1> QED BY <1>2, <1>3, <1>6, <1>7 DEF CalmInv

-----------------------------------------------------------------------------
(* A search that is not cut either. *)

\* What holds of a search during which nothing changes and nothing was cut.
Uncut == graphEdits = 0 /\ ~truncated /\ ~eventsCapped

WholeSides == Going => \A s \in Sides : /\ Closed(Visited(s), depths[s], LevelOf(s), Crossed, Linked)
                                        /\ Recorded(Visited(s), depths[s], parents[s], Linked, MaxPaths)
ClaimsRead == search = "events" =>
                /\ Expanded = frontier[side]
                /\ \A n \in frontier[side], q \in Nodes :
                     {n, q} \in claims => \E row \in beside : row[1] = n /\ row[2] = q
LevelRead  == search = "level read" => \A n \in frontier[side], q \in Nodes :
                {n, q} \in Linked => \E row \in beside : row[1] = n /\ row[2] = q
FoundAll   == search = "found" =>
                /\ \A n \in frontier[side], q \in Crossed : {n, q} \in Linked => q \in Visited(side) \cup DOMAIN found
                /\ \A q \in DOMAIN found :
                     found[q] \in AnyOf({p \in Visited(side) : depths[side][p] = LevelOf(side) /\ {p, q} \in Linked}, MaxPaths)
PathsBest  == search = "build" => paths \in AnyOf(Shortest, MaxPaths)

WholeInv == Uncut => WholeSides /\ ClaimsRead /\ LevelRead /\ FoundAll /\ PathsBest

\* The sides stay whole while only rows are read.
LEMMA WholeSidesStay ==
    ASSUME WholeSides, UNCHANGED <<depths, parents, claims, events, asked>>, Going,
           \A s \in Sides : LevelOf(s)' = LevelOf(s)
    PROVE  WholeSides'
  <1>1. \A s : Visited(s)' = Visited(s) BY DEF Visited
  <1>2. Linked' = Linked /\ Crossed' = Crossed BY SamePublished
  <1>3. ASSUME NEW s \in Sides
        PROVE  /\ Closed(Visited(s), depths[s], LevelOf(s), Crossed, Linked)'
               /\ Recorded(Visited(s), depths[s], parents[s], Linked, MaxPaths)'
    <2>1. /\ Closed(Visited(s), depths[s], LevelOf(s), Crossed, Linked)
          /\ Recorded(Visited(s), depths[s], parents[s], Linked, MaxPaths)
      BY DEF WholeSides
    <2>2. LevelOf(s)' = LevelOf(s) OBVIOUS
    <2>3. \A n \in Visited(s)' : Preceding(Visited(s), depths[s], Linked, n)' = Preceding(Visited(s), depths[s], Linked, n)
      BY <1>1, <1>2 DEF Preceding
    <2>4. Closed(Visited(s), depths[s], LevelOf(s), Crossed, Linked)' BY <1>1, <1>2, <2>1, <2>2 DEF Closed
    <2>5. Recorded(Visited(s), depths[s], parents[s], Linked, MaxPaths)' BY <1>1, <1>2, <2>1, <2>3 DEF Recorded
    <2> QED BY <2>4, <2>5
  <1> QED BY <1>3 DEF WholeSides

\* Uncut, the first query reads every claim of the frontier,
LEMMA ReadClaimsWhole == ASSUME SearchInv, CalmInv, WholeInv, ReadClaims PROVE WholeInv'
  <1> DEFINE F == FirstOf(frontier[Smaller], FrontierLimit)
  <1>1. /\ search = "level" /\ side' = Smaller
        /\ search' = (IF asked.includeEvents THEN "events" ELSE "level read")
        /\ UNCHANGED <<visible, claims, events, graphEdits, asked, parents, depths, frontier, depth, eventsCapped>>
    BY DEF ReadClaims, published, tree
  <1>2. PICK kept \in AnyOf(Touching(claims, F), LevelRowLimit) :
          /\ beside' = Beside(F, kept, "relationship")
          /\ truncated' = (\/ truncated \/ F # frontier[Smaller] \/ kept # Touching(claims, F))
    BY DEF ReadClaims
  <1> SUFFICES ASSUME Uncut' PROVE (WholeSides /\ ClaimsRead /\ LevelRead /\ FoundAll /\ PathsBest)'
    BY DEF WholeInv
  <1>3. Uncut /\ F = frontier[Smaller] /\ kept = Touching(claims, F) BY <1>1, <1>2 DEF Uncut
  <1>4. AllPublic BY <1>3 DEF CalmInv, Uncut
  <1>5. WholeSides'
    <2>1. Going /\ \A s \in Sides : LevelOf(s)' = LevelOf(s) BY <1>1 DEF Going, LevelOf
    <2>2. WholeSides BY <1>3 DEF WholeInv
    <2> QED BY <1>1, <2>1, <2>2, WholeSidesStay
  <1>6. Linked' = Linked BY <1>1, SamePublished
  <1> HIDE DEF F
  <1>7. ASSUME NEW n \in frontier[Smaller], NEW q \in Nodes, {n, q} \in claims
        PROVE  \E row \in beside' : row[1] = n /\ row[2] = q
    <2>1. {n, q} \in Linked BY <1>7 DEF Linked
    <2>2. n # q /\ n \in Nodes BY <1>4, <2>1, PairsAre
    <2>3. {n, q} \in kept BY <1>3, <1>7 DEF Touching
    <2> DEFINE row == <<n, q, "relationship">>
    <2>4. row[1] = n /\ row[2] = q /\ row \in F \X Nodes \X {"relationship"} BY <1>3
    <2>5. row \in beside' BY <1>2, <2>2, <2>3, <2>4 DEF Beside
    <2> QED BY <2>4, <2>5
  <1>8. ClaimsRead'
    <2>1. Expanded' = F BY <1>1 DEF Expanded, F, FirstOf
    <2> QED BY <1>1, <1>3, <1>7, <2>1 DEF ClaimsRead
  <1>9. LevelRead'
    <2> SUFFICES ASSUME search' = "level read" PROVE LevelRead'
      BY DEF LevelRead
    <2>1. ~asked.includeEvents BY <1>1
    <2>2. Linked = claims BY <2>1 DEF Linked
    <2> QED BY <1>1, <1>6, <1>7, <2>2 DEF LevelRead
  <1>10. FoundAll' /\ PathsBest' BY <1>1 DEF FoundAll, PathsBest
  <1> QED BY <1>5, <1>8, <1>9, <1>10

\* the second every event of it,
LEMMA ReadEventsWhole == ASSUME SearchInv, CalmInv, WholeInv, ReadEvents PROVE WholeInv'
  <1>1. /\ search = "events" /\ search' = "level read"
        /\ UNCHANGED <<visible, claims, events, graphEdits, asked, parents, depths, frontier, depth, side>>
    BY DEF ReadEvents, published, tree
  <1> DEFINE Ranked(top) == UNION {Beside({n}, top[n], "event") : n \in Expanded}
  <1>2. PICK top :
          /\ \A n \in Expanded : top[n] \in AnyOf(Touching(events, {n}), EventNeighbours)
          /\ \E kept \in AnyOf(Ranked(top), LevelRowLimit) :
               /\ beside' = beside \cup kept
               /\ truncated' = (truncated \/ kept # Ranked(top))
               /\ eventsCapped' = (eventsCapped \/ \E row \in kept : top[row[1]] # Touching(events, {row[1]}))
    BY DEF ReadEvents
  <1>3. PICK kept \in AnyOf(Ranked(top), LevelRowLimit) :
          /\ beside' = beside \cup kept
          /\ truncated' = (truncated \/ kept # Ranked(top))
          /\ eventsCapped' = (eventsCapped \/ \E row \in kept : top[row[1]] # Touching(events, {row[1]}))
    BY <1>2
  <1> SUFFICES ASSUME Uncut' PROVE (WholeSides /\ ClaimsRead /\ LevelRead /\ FoundAll /\ PathsBest)'
    BY DEF WholeInv
  <1>4. /\ Uncut /\ kept = Ranked(top) /\ \A row \in kept : top[row[1]] = Touching(events, {row[1]})
    BY <1>1, <1>3 DEF Uncut
  <1>5. AllPublic BY <1>4 DEF CalmInv, Uncut
  <1>6. WholeSides'
    <2>1. Going /\ \A s \in Sides : LevelOf(s)' = LevelOf(s) BY <1>1 DEF Going, LevelOf
    <2>2. WholeSides BY <1>4 DEF WholeInv
    <2> QED BY <1>1, <2>1, <2>2, WholeSidesStay
  <1>7. Linked' = Linked BY <1>1, SamePublished
  <1>8. asked.includeEvents BY <1>1, <1>4 DEF CalmInv, Uncut, EventsWanted
  <1>9. Linked = claims \cup events BY <1>8 DEF Linked
  <1>10. ASSUME NEW n \in frontier[side], NEW q \in Nodes, {n, q} \in Linked
         PROVE  \E row \in beside' : row[1] = n /\ row[2] = q
    <2>1. CASE {n, q} \in claims
      <3>1. ClaimsRead BY <1>4 DEF WholeInv
      <3>2. \E row \in beside : row[1] = n /\ row[2] = q BY <1>1, <2>1, <3>1 DEF ClaimsRead
      <3> QED BY <1>3, <3>2
    <2>2. CASE {n, q} \in events
      <3>1. n \in Nodes /\ n # q BY <1>5, <1>10, PairsAre
      <3>2. n \in Expanded BY <1>1, <1>4, <1>10 DEF WholeInv, ClaimsRead
      <3>3. {n, q} \in Touching(events, {n}) BY <2>2 DEF Touching
      <3>4. ASSUME NEW pair \in Touching(events, {n}) PROVE \E r \in Nodes : n # r /\ pair = {n, r}
        <4>1. pair \in Linked /\ n \in pair BY <1>9 DEF Touching
        <4>2. PICK a, b \in Nodes : a # b /\ pair = {a, b} BY <1>5, <4>1, PairsAre
        <4>3. CASE n = a BY <4>2, <4>3
        <4>4. CASE n = b BY <4>2, <4>4
        <4> QED BY <4>1, <4>2, <4>3, <4>4
      <3>5. IsFiniteSet(Touching(events, {n}))
        <4>1. IsFiniteSet(SUBSET Nodes) BY PathAssumption, FS_SUBSET
        <4>2. ASSUME NEW pair \in Touching(events, {n}) PROVE pair \in SUBSET Nodes
          <5>1. PICK r \in Nodes : pair = {n, r} BY <3>4
          <5> QED BY <3>1, <5>1
        <4>3. Touching(events, {n}) \in SUBSET (SUBSET Nodes) BY <4>2
        <4> QED BY <4>1, <4>3, FS_Subset
      <3>6. PICK pair \in top[n] : pair \in Touching(events, {n})
        <4>1. top[n] \in AnyOf(Touching(events, {n}), EventNeighbours) BY <1>2, <3>2
        <4>2. top[n] # {} BY <3>3, <3>5, <4>1, PathAssumption, CutAtMost
        <4> QED BY <4>1, <4>2 DEF AnyOf
      <3>7. ASSUME NEW r \in Nodes, n # r, {n, r} \in top[n] PROVE <<n, r, "event">> \in kept
        <4> DEFINE row == <<n, r, "event">>
        <4>1. row \in {n} \X Nodes \X {"event"} /\ row[1] = n /\ row[2] = r OBVIOUS
        <4>2. row \in Beside({n}, top[n], "event") BY <3>7, <4>1 DEF Beside
        <4> HIDE DEF row
        <4>3. row \in Ranked(top) BY <3>2, <4>2
        <4> QED BY <1>4, <4>3 DEF row
      <3>8. PICK r \in Nodes : n # r /\ pair = {n, r} BY <3>4, <3>6
      <3>9. <<n, r, "event">> \in kept BY <3>6, <3>7, <3>8
      <3>10. top[n] = Touching(events, {n})
        <4>1. <<n, r, "event">>[1] = n OBVIOUS
        <4> HIDE DEF Ranked
        <4> QED BY <1>4, <3>9, <4>1
      <3>11. <<n, q, "event">> \in kept BY <3>1, <3>3, <3>7, <3>10
      <3>12. <<n, q, "event">> \in beside' BY <1>3, <3>11
      <3>13. <<n, q, "event">>[1] = n /\ <<n, q, "event">>[2] = q OBVIOUS
      <3> QED BY <3>12, <3>13
    <2> QED BY <1>9, <1>10, <2>1, <2>2
  <1>11. LevelRead' BY <1>1, <1>7, <1>10 DEF LevelRead
  <1>12. ClaimsRead' /\ FoundAll' /\ PathsBest' BY <1>1 DEF ClaimsRead, FoundAll, PathsBest
  <1> QED BY <1>6, <1>11, <1>12

\* and what they add is everybody beside it, with every predecessor or as many as are kept.
LEMMA SortWhole == ASSUME SearchInv, CalmInv, WholeInv, Sort PROVE WholeInv'
  <1>1. /\ search = "level read" /\ search' = "found" /\ depth' = [depth EXCEPT ![side] = @ + 1]
        /\ UNCHANGED <<visible, claims, events, graphEdits, asked, parents, depths, frontier, side, truncated, eventsCapped>>
    BY SortIs DEF published
  <1> SUFFICES ASSUME Uncut PROVE (WholeSides /\ ClaimsRead /\ LevelRead /\ FoundAll /\ PathsBest)'
    BY <1>1 DEF WholeInv, Uncut
  <1>2. WholeSides /\ LevelRead BY DEF WholeInv
  <1>3. graphEdits = 0 /\ AllPublic /\ RowsTrue /\ HubsOut BY DEF CalmInv, Uncut
  <1>4. side \in Sides /\ depth \in [Sides -> Nat] BY DEF SearchInv, PathTypeOK
  <1>5. depth' = [depth EXCEPT ![side] = depth[side] + 1] /\ search' = "found" /\ side' = side BY <1>1
  <1>6. /\ depth'[side] = depth[side] + 1 /\ \A s \in Sides : s # side => depth'[s] = depth[s] BY <1>4, <1>5
  <1>7. Going BY <1>1 DEF Going
  <1>8. ASSUME NEW s \in Sides PROVE LevelOf(s)' = LevelOf(s)
    <2>1. LevelOf(s) = depth[s] /\ depth[s] \in Nat BY <1>1, <1>4 DEF LevelOf
    <2>2. LevelOf(s)' = IF s = side THEN depth'[s] - 1 ELSE depth'[s] BY <1>5 DEF LevelOf
    <2> QED BY <1>6, <2>1, <2>2
  <1>9. WholeSides' BY <1>1, <1>2, <1>7, <1>8, WholeSidesStay
  <1>10. Linked' = Linked /\ Crossed' = Crossed /\ Visited(side)' = Visited(side)
    <2>1. Visited(side)' = Visited(side) BY <1>1 DEF Visited
    <2> QED BY <1>1, <2>1, SamePublished
  <1>11. /\ frontier[side] = {n \in Visited(side) : depths[side][n] = LevelOf(side)} /\ Visited(side) \subseteq Nodes
    BY <1>4, <1>7 DEF SearchInv, FrontInv, TreesInv
  <1>12. DOMAIN found' = Open /\ \A n \in Open : found'[n] \in AnyOf(BeforeRows(n), MaxPaths) BY SortIs
  <1>13. Crossed \subseteq Nodes BY PathAssumption DEF Crossed
  <1>14. ASSUME NEW n \in frontier[side], NEW q \in Crossed, {n, q} \in Linked
         PROVE  q \in Visited(side) \cup Open
    <2>1. \E row \in beside : row[1] = n /\ row[2] = q BY <1>1, <1>2, <1>13, <1>14 DEF LevelRead
    <2>2. q \notin excluded BY <1>3, <1>7 DEF HubsOut
    <2>3. ~IsStructural(q) BY DEF IsStructural, Crossed
    <2> QED BY <2>1, <2>2, <2>3 DEF Open, Fresh
  <1>15. ASSUME NEW q \in Open PROVE BeforeRows(q) = {p \in Visited(side) : depths[side][p] = LevelOf(side) /\ {p, q} \in Linked}
    <2>1. \A row \in beside : /\ row \in frontier[side] \X Nodes \X {"relationship", "event"}
                              /\ {row[1], row[2]} \in Linked
      BY <1>1, <1>3 DEF SearchInv, BesideInv, RowsTrue
    <2>2. q \in Nodes BY <2>1 DEF Open, Fresh
    <2>3. ASSUME NEW p \in BeforeRows(q) PROVE p \in frontier[side] /\ {p, q} \in Linked
      <3>1. PICK row \in beside : row[1] = p /\ row[2] = q BY <2>3 DEF BeforeRows
      <3> QED BY <2>1, <3>1
    <2>4. ASSUME NEW p \in frontier[side], {p, q} \in Linked PROVE p \in BeforeRows(q)
      <3>1. PICK row \in beside : row[1] = p /\ row[2] = q BY <1>1, <1>2, <2>2, <2>4 DEF LevelRead
      <3> QED BY <3>1 DEF BeforeRows
    <2> QED BY <1>11, <2>3, <2>4
  <1>16. FoundAll'
    <2>1. LevelOf(side)' = LevelOf(side)
      <3>1. LevelOf(side)' = depth'[side] - 1 BY <1>5 DEF LevelOf
      <3>2. LevelOf(side) = depth[side] /\ depth[side] \in Nat BY <1>1, <1>4 DEF LevelOf
      <3> QED BY <1>6, <3>1, <3>2
    <2>2. \A q \in Open : found'[q] \in AnyOf({p \in Visited(side) : depths[side][p] = LevelOf(side) /\ {p, q} \in Linked}, MaxPaths)
      BY <1>12, <1>15
    <2> QED BY <1>1, <1>10, <1>12, <1>14, <2>1, <2>2 DEF FoundAll
  <1>17. ClaimsRead' /\ LevelRead' /\ PathsBest' BY <1>1 DEF ClaimsRead, LevelRead, PathsBest
  <1> QED BY <1>9, <1>16, <1>17

-----------------------------------------------------------------------------
(* Where the sides meet, and where they do not. *)

\* The side that was expanded is closed a level further, and the other one as far as it was.
LEMMA NowSearched ==
    ASSUME SearchInv, CalmInv, WholeInv, Uncut, search = "found"
    PROVE  Searched(FarNow, ParNow, depth, Crossed, Linked)
  <1>1. PathTypeOK /\ TreesInv /\ Going /\ side \in Sides /\ depth \in [Sides -> Nat]
    BY DEF SearchInv, PathTypeOK, Going
  <1>2. \A s \in Sides : /\ Closed(Visited(s), depths[s], LevelOf(s), Crossed, Linked)
                         /\ Recorded(Visited(s), depths[s], parents[s], Linked, MaxPaths)
    BY <1>1 DEF WholeInv, WholeSides
  <1>3. FoundAll /\ graphEdits = 0 BY DEF WholeInv, Uncut
  <1>4. /\ LevelOf(side) \in Nat /\ depth[side] = LevelOf(side) + 1 /\ DOMAIN Kept \cap Visited(side) = {}
        /\ \A n \in Visited(side) : depths[side][n] \in Nat /\ depths[side][n] <= LevelOf(side)
        /\ frontier[side] = {n \in Visited(side) : depths[side][n] = LevelOf(side)}
    BY NowSide
  <1>5. AllPublic BY <1>3 DEF CalmInv
  <1>6. \A s \in Sides : Inside(DOMAIN FarNow[s], FarNow[s], depth[s], Crossed) BY <1>3, NowCrossed
  <1>7. \A s \in Sides : IsFiniteSet(DOMAIN FarNow[s]) BY NowTrees, PathAssumption, FS_Subset
  <1>8. /\ FarNow[side] = GrownFar(Visited(side), depths[side], DOMAIN Kept, depth[side])
        /\ ParNow[side] = GrownPar(Visited(side), parents[side], Kept)
        /\ DOMAIN FarNow[side] = Visited(side) \cup DOMAIN Kept
        /\ \A s \in Sides : s # side => FarNow[s] = depths[s] /\ ParNow[s] = parents[s]
        /\ DOMAIN Kept = DOMAIN found \ Busy /\ \A n \in DOMAIN Kept : Kept[n] = found[n]
    BY <1>1, NowIs
  <1>9. Busy \cap Crossed = {}
    <2> SUFFICES ASSUME NEW n \in Busy PROVE n \notin Crossed
      OBVIOUS
    <2>1. ~asked.includeHubs /\ n \notin {From, To} /\ Degree(n) > HubDegree BY DEF Busy
    <2>2. Degree(n) \in Nat /\ HubDegree \in Nat BY <1>5, PairsAre, PathAssumption
    <2>3. ~(Degree(n) <= HubDegree) BY <2>1, <2>2
    <2> QED BY <2>1, <2>3 DEF Crossed
  <1>10. Distances(Visited(side), depths[side]) BY <1>4 DEF Distances
  <1> DEFINE e == LevelOf(side)
             V == Visited(side)
  <1>11. \A n \in V, m \in Crossed : depths[side][n] = e /\ {n, m} \in Linked => m \in V \cup DOMAIN Kept
    <2> SUFFICES ASSUME NEW n \in V, NEW m \in Crossed, depths[side][n] = e, {n, m} \in Linked
                 PROVE  m \in V \cup DOMAIN Kept
      OBVIOUS
    <2>1. n \in frontier[side] BY <1>4
    <2>2. m \in V \cup DOMAIN found BY <1>3, <2>1 DEF FoundAll
    <2> QED BY <1>8, <1>9, <2>2
  <1>12. \A n \in DOMAIN Kept : Kept[n] \in AnyOf({q \in V : depths[side][q] = e /\ {q, n} \in Linked}, MaxPaths)
    BY <1>3, <1>8 DEF FoundAll
  <1>13. Closed(DOMAIN FarNow[side], FarNow[side], depth[side], Crossed, Linked)
    <2>1. Closed(V, depths[side], e, Crossed, Linked) BY <1>1, <1>2
    <2>2. e \in Nat /\ \A n \in V : depths[side][n] <= e BY <1>4
    <2>3. Closed(V \cup DOMAIN Kept, GrownFar(V, depths[side], DOMAIN Kept, e + 1), e + 1, Crossed, Linked)
      <3> HIDE DEF e, V
      <3> QED BY <1>4, <1>10, <1>11, <2>1, <2>2, ClosedGrows DEF V
    <2> QED BY <1>4, <1>8, <2>3
  <1>14. Recorded(DOMAIN FarNow[side], FarNow[side], ParNow[side], Linked, MaxPaths)
    <2>1. Recorded(V, depths[side], parents[side], Linked, MaxPaths) BY <1>1, <1>2
    <2>2. e \in Nat /\ \A n \in V : depths[side][n] <= e BY <1>4
    <2>3. Recorded(V \cup DOMAIN Kept, GrownFar(V, depths[side], DOMAIN Kept, e + 1), GrownPar(V, parents[side], Kept),
                   Linked, MaxPaths)
      <3>1. DOMAIN Kept \cap V = {} /\ Distances(V, depths[side]) BY <1>4, <1>10
      <3> HIDE DEF e, V
      <3> QED BY <1>12, <2>1, <2>2, <3>1, RecordedGrows
    <2> QED BY <1>4, <1>8, <2>3
  <1>15. ASSUME NEW s \in Sides
         PROVE  /\ Closed(DOMAIN FarNow[s], FarNow[s], depth[s], Crossed, Linked)
                /\ Recorded(DOMAIN FarNow[s], FarNow[s], ParNow[s], Linked, MaxPaths)
    <2>1. CASE s = side BY <1>13, <1>14, <2>1
    <2>2. CASE s # side
      <3>1. FarNow[s] = depths[s] /\ ParNow[s] = parents[s] /\ LevelOf(s) = depth[s] BY <1>8, <2>2 DEF LevelOf
      <3> QED BY <1>2, <3>1 DEF Visited
    <2> QED BY <2>1, <2>2
  <1> QED BY <1>1, <1>6, <1>7, <1>15 DEF Searched

\* They meet on their last levels: a nearer one would have been met before.
LEMMA NowMeet ==
    ASSUME SearchInv, CalmInv, WholeInv, Uncut, search = "found"
    PROVE  MeetOnLevels(FarNow, depth)
  <1> DEFINE o == Other[side]
  <1>1. PathTypeOK /\ TreesInv /\ Going /\ side \in Sides /\ depth \in [Sides -> Nat]
    BY DEF SearchInv, PathTypeOK, Going
  <1>2. o \in Sides /\ o # side /\ \A s \in Sides : s = side \/ s = o BY <1>1 DEF Other, Sides
  <1>3. FarNow[o] = depths[o] /\ LevelOf(o) = depth[o] BY <1>1, <1>2, NowIs DEF LevelOf
  <1>4. Both(FarNow) = MetNow /\ \A n \in DOMAIN Kept : FarNow[side][n] = depth[side] BY NowLevels
  <1>5. Both(depths) = {} BY <1>1 DEF SearchInv, FrontInv
  <1>6. Visited(side) \cap Visited(o) = {} BY <1>1, <1>2, <1>5 DEF Both, Visited, Sides
  <1>7. graphEdits = 0 /\ LinksTrue /\ HubsOut BY DEF CalmInv, Uncut
  <1> HIDE DEF o
  <1>8. ASSUME NEW n \in MetNow PROVE FarNow[o][n] = depth[o]
    <2>1. n \in DOMAIN Kept /\ n \in Visited(o) BY DEF MetNow, o
    <2>2. PICK q \in Kept[n] : q \in Visited(side) /\ {q, n} \in DOMAIN links BY <2>1, NowSide
    <2>3. q \in Crossed /\ {q, n} \in Linked BY <1>1, <1>7, <2>2 DEF HubsOut, LinksTrue
    <2>4. depths[o][n] \in Nat BY <1>1, <1>2, <2>1 DEF TreesInv, Trees, Tree, Distances, Visited
    <2>5. depths[o][n] <= depth[o] /\ depth[o] \in Nat BY <1>1, <1>2, <1>3, <2>1 DEF SearchInv, FrontInv
    <2>6. ASSUME depths[o][n] < depth[o] PROVE FALSE
      <3>1. Closed(Visited(o), depths[o], depth[o], Crossed, Linked) BY <1>1, <1>2, <1>3 DEF WholeInv, WholeSides
      <3>2. {n, q} \in Linked
        <4>1. {n, q} = {q, n} OBVIOUS
        <4> QED BY <2>3, <4>1
      <3>3. q \in Visited(o) BY <2>1, <2>3, <2>6, <3>1, <3>2 DEF Closed
      <3> QED BY <1>6, <2>2, <3>3
    <2> QED BY <1>3, <2>4, <2>5, <2>6
  <1>9. \A n \in MetNow : FarNow[side][n] = depth[side] BY <1>4 DEF MetNow
  <1> QED BY <1>2, <1>4, <1>8, <1>9 DEF MeetOnLevels

\* Nothing shorter was overlooked before the level.
LEMMA NowShorter ==
    ASSUME SearchInv, CalmInv, WholeInv, Uncut, search = "found"
    PROVE  \A k \in 0..(depth["forward"] + depth["backward"] - 1) : Routes(k, Crossed, Linked) = {}
  <1> DEFINE f == "forward"
             b == "backward"
  <1>1. PathTypeOK /\ TreesInv /\ Going /\ side \in Sides /\ depth \in [Sides -> Nat]
    BY DEF SearchInv, PathTypeOK, Going
  <1>2. /\ Closed(Visited(f), depths[f], LevelOf(f), Crossed, Linked)
        /\ Closed(Visited(b), depths[b], LevelOf(b), Crossed, Linked)
    BY <1>1, RootsAre DEF WholeInv, WholeSides
  <1>3. LevelOf(f) \in Nat /\ LevelOf(b) \in Nat /\ Both(depths) = {}
    BY <1>1, RootsAre DEF SearchInv, FrontInv
  <1>4. depth[f] + depth[b] - 1 = LevelOf(f) + LevelOf(b)
    <2>1. depth[f] \in Nat /\ depth[b] \in Nat BY <1>1, RootsAre
    <2>2. CASE side = f BY <2>1, <2>2 DEF LevelOf
    <2>3. CASE side = b BY <2>1, <2>3 DEF LevelOf
    <2> QED BY <1>1, <2>2, <2>3 DEF Sides
  <1>5. /\ Tree(Visited(f), depths[f], parents[f], From) /\ Tree(Visited(b), depths[b], parents[b], To)
    BY <1>1, TreesAre DEF TreesInv, Visited
  <1>6. Visited(f) \cap Visited(b) = {} BY <1>3 DEF Both, Visited
  <1>7. \A k \in 0..(LevelOf(f) + LevelOf(b)) : Routes(k, Crossed, Linked) = {}
    <2> HIDE DEF f, b
    <2> QED BY <1>2, <1>3, <1>5, <1>6, NoneShorter
  <1> QED BY <1>4, <1>7

\* Where the sides meet, the joined paths are the shortest ones, or enough of them.
LEMMA MeetingIsBest ==
    ASSUME SearchInv, CalmInv, WholeInv, Uncut, search = "found", MetNow # {},
           NEW T \in AnyOf(JoinedSides(ParNow, FarNow, MetNow), MaxPaths)
    PROVE  T \in AnyOf(Shortest, MaxPaths)
  <1> DEFINE D == depth["forward"] + depth["backward"]
             J == JoinedSides(ParNow, FarNow, MetNow)
             R == Routes(D, Crossed, Linked)
  <1>1. /\ Both(FarNow) = MetNow /\ D \in 0..asked.maxDepth /\ asked.maxDepth \in Nat
    BY NowLevels
  <1>2. Trees(FarNow, ParNow) BY NowTrees
  <1>3. Searched(FarNow, ParNow, depth, Crossed, Linked) /\ MeetOnLevels(FarNow, depth) BY NowSearched, NowMeet
  <1>4. MetNow \subseteq Crossed BY NowCrossed DEF Uncut
  <1>5. IsFiniteSet(Crossed)
    <2>1. Crossed \in SUBSET Nodes BY PathAssumption DEF Crossed
    <2> QED BY <2>1, PathAssumption, FS_Subset
  <1>6. J = JoinedSides(ParNow, FarNow, Both(FarNow)) /\ Both(FarNow) \subseteq Crossed /\ MaxPaths \in Nat \ {0}
    BY <1>1, <1>4, PathAssumption
  <1>7. R = Routes(depth["forward"] + depth["backward"], Crossed, Linked) OBVIOUS
  <1> HIDE DEF J, R
  <1>8. /\ J \subseteq R /\ IsFiniteSet(R) /\ (Both(FarNow) # {} => J # {})
        /\ J = R \/ Cardinality(J) >= MaxPaths
    BY <1>2, <1>3, <1>5, <1>6, <1>7, JoinedEnough
  <1>9. R # {} BY <1>1, <1>8
  <1>10. \A k \in 0..(D - 1) : Routes(k, Crossed, Linked) = {}
    <2>1. \A k \in 0..(depth["forward"] + depth["backward"] - 1) : Routes(k, Crossed, Linked) = {} BY NowShorter
    <2>2. depth["forward"] \in Nat /\ depth["backward"] \in Nat BY NowLevels
    <2>3. depth["forward"] + depth["backward"] - 1 = D - 1 BY <2>2
    <2> QED BY <2>1, <2>3
  <1>11. Shortest = R
    <2> HIDE DEF D
    <2> QED BY <1>1, <1>9, <1>10, ShortestIs DEF R
  <1>12. T \in AnyOf(J, MaxPaths) BY DEF J
  <1>13. T \in AnyOf(R, MaxPaths) BY <1>6, <1>8, <1>12, CutOfEnough
  <1> QED BY <1>11, <1>13

\* Sides that end apart leave no path of the length that was asked for.
LEMMA ApartIsNone ==
    ASSUME SearchInv, CalmInv, WholeInv, Uncut, search = "found", MetNow = {}, ~TooMany, ~GoesOn
    PROVE  Shortest = {}
  <1> DEFINE f == "forward"
             b == "backward"
             m == asked.maxDepth
             Shut(s, d) == Closed(DOMAIN FarNow[s], FarNow[s], d, Crossed, Linked)
  <1>1. PathTypeOK /\ TreesInv /\ Going /\ side \in Sides /\ depth \in [Sides -> Nat] /\ m \in Nat
    BY DEF SearchInv, PathTypeOK, Going
  <1>2. \A s \in Sides : Shut(s, depth[s]) BY NowSearched DEF Searched
  <1>3. /\ Both(FarNow) = {} /\ \A s \in Sides : \A n \in DOMAIN FarNow[s] : FarNow[s][n] <= depth[s]
        /\ {n \in DOMAIN FarNow[side] : FarNow[side][n] = depth[side]} = DOMAIN Kept
    BY NowLevels
  <1>4. Trees(FarNow, ParNow) BY NowTrees
  <1>5. \A s \in Sides : \A n \in DOMAIN FarNow[s] : FarNow[s][n] \in Nat BY <1>4 DEF Trees, Tree, Distances
  <1>6. ASSUME NEW s \in Sides, \A n \in DOMAIN FarNow[s] : FarNow[s][n] # depth[s] PROVE Shut(s, m)
    <2>1. \A n \in DOMAIN FarNow[s] : FarNow[s][n] < depth[s]
      <3>1. depth[s] \in Nat BY <1>1
      <3> QED BY <1>3, <1>5, <1>6, <3>1
    <2>2. Closed(DOMAIN FarNow[s], FarNow[s], depth[s], Crossed, Linked) BY <1>2
    <2> QED BY <2>1, <2>2, ClosedOut
  <1>7. \/ depth[f] + depth[b] >= m \/ DOMAIN Kept = {} \/ frontier[Other[side]] = {}
    <2>1. depth[f] \in Nat /\ depth[b] \in Nat BY <1>1, RootsAre
    <2>2. \/ ~(depth[f] + depth[b] < m) \/ ~(DOMAIN Kept # {}) \/ ~(frontier[Other[side]] # {}) BY Zenon DEF GoesOn
    <2>3. m \in Nat BY <1>1
    <2> HIDE DEF f, b, m, Shut
    <2>4. depth[f] + depth[b] < m \/ depth[f] + depth[b] >= m BY <2>1, <2>3
    <2> QED BY <2>2, <2>4
  <1>8. \E d, e \in Nat : Shut(f, d) /\ Shut(b, e) /\ m <= d + e
    <2>1. depth[f] \in Nat /\ depth[b] \in Nat /\ Shut(f, depth[f]) /\ Shut(b, depth[b]) BY <1>1, <1>2, RootsAre
    <2>2. CASE depth[f] + depth[b] >= m BY <1>1, <2>1, <2>2
    <2>3. ASSUME NEW s \in Sides, Shut(s, m) PROVE \E d, e \in Nat : Shut(f, d) /\ Shut(b, e) /\ m <= d + e
      <3>1. m <= m + depth[b] /\ m <= depth[f] + m BY <1>1, <2>1
      <3>2. CASE s = f BY <1>1, <2>1, <2>3, <3>1, <3>2
      <3>3. CASE s = b BY <1>1, <2>1, <2>3, <3>1, <3>3
      <3> QED BY <3>2, <3>3 DEF Sides
    <2>4. CASE DOMAIN Kept = {}
      <3>1. Shut(side, m) BY <1>1, <1>3, <1>6, <2>4
      <3> QED BY <1>1, <2>3, <3>1
    <2>5. CASE frontier[Other[side]] = {}
      <3>1. Other[side] \in Sides /\ Other[side] # side BY <1>1 DEF Other, Sides
      <3>2. FarNow[Other[side]] = depths[Other[side]] /\ LevelOf(Other[side]) = depth[Other[side]]
        BY <1>1, <3>1, NowIs DEF LevelOf
      <3>3. frontier[Other[side]] = {n \in Visited(Other[side]) : depths[Other[side]][n] = LevelOf(Other[side])}
        BY <1>1, <3>1 DEF SearchInv, FrontInv
      <3>4. \A n \in DOMAIN FarNow[Other[side]] : FarNow[Other[side]][n] # depth[Other[side]]
        BY <2>5, <3>2, <3>3 DEF Visited
      <3>5. Shut(Other[side], m) BY <1>6, <3>1, <3>4
      <3> QED BY <2>3, <3>1, <3>5
    <2> QED BY <1>7, <2>2, <2>4, <2>5
  <1>9. PICK d \in Nat : \E e \in Nat : Shut(f, d) /\ Shut(b, e) /\ m <= d + e BY <1>8
  <1>10. PICK e \in Nat : Shut(f, d) /\ Shut(b, e) /\ m <= d + e BY <1>9
  <1>11. /\ Tree(DOMAIN FarNow[f], FarNow[f], ParNow[f], From) /\ Tree(DOMAIN FarNow[b], FarNow[b], ParNow[b], To)
         /\ DOMAIN FarNow[f] \cap DOMAIN FarNow[b] = {}
    BY <1>3, <1>4, TreesAre DEF Both
  <1>12. ASSUME NEW k \in 0..m PROVE Routes(k, Crossed, Linked) = {}
    <2>1. k \in 0..(d + e) BY <1>1, <1>10
    <2>2. Closed(DOMAIN FarNow[f], FarNow[f], d, Crossed, Linked) /\ Closed(DOMAIN FarNow[b], FarNow[b], e, Crossed, Linked)
      BY <1>10
    <2> HIDE DEF f, b
    <2> QED BY <1>11, <2>1, <2>2, NoneShorter
  <1> QED BY <1>12, NoShortest

\* Where nobody meets, nothing is joined.
LEMMA JoinedNone == JoinedSides(ParNow, FarNow, {}) = {}
  BY DEF JoinedSides

\* An uncut level closes its side a level further, and where the sides meet the answer is best.
LEMMA SettleWhole == ASSUME SearchInv, CalmInv, WholeInv, Settle PROVE WholeInv'
  <1>1. /\ search = "found" /\ depths' = FarNow /\ parents' = ParNow /\ search' = (IF GoesOn THEN "level" ELSE "build")
        /\ paths' \in AnyOf(JoinedSides(ParNow, FarNow, MetNow), MaxPaths) /\ truncated' = (truncated \/ TooMany)
        /\ UNCHANGED <<claims, events, graphEdits, asked, depth, eventsCapped>>
    BY SettleIs DEF published
  <1> SUFFICES ASSUME Uncut' PROVE (WholeSides /\ ClaimsRead /\ LevelRead /\ FoundAll /\ PathsBest)'
    BY DEF WholeInv
  <1>2. Uncut /\ ~TooMany BY <1>1 DEF Uncut
  <1>3. Linked' = Linked /\ Crossed' = Crossed /\ Shortest' = Shortest BY <1>1, SamePublished
  <1>4. WholeSides'
    <2> SUFFICES ASSUME GoesOn PROVE WholeSides'
      BY <1>1 DEF WholeSides, Going
    <2>1. Searched(FarNow, ParNow, depth, Crossed, Linked) BY <1>1, <1>2, NowSearched
    <2>2. \A s : Visited(s)' = DOMAIN FarNow[s] /\ LevelOf(s)' = depth[s] BY <1>1 DEF Visited, LevelOf
    <2>3. ASSUME NEW s \in Sides
          PROVE  /\ Closed(Visited(s), depths[s], LevelOf(s), Crossed, Linked)'
                 /\ Recorded(Visited(s), depths[s], parents[s], Linked, MaxPaths)'
      <3>1. /\ Closed(DOMAIN FarNow[s], FarNow[s], depth[s], Crossed, Linked)
            /\ Recorded(DOMAIN FarNow[s], FarNow[s], ParNow[s], Linked, MaxPaths)
        BY <2>1 DEF Searched
      <3>2. \A n : Preceding(Visited(s), depths[s], Linked, n)' = Preceding(DOMAIN FarNow[s], FarNow[s], Linked, n)
        BY <1>1, <1>3, <2>2 DEF Preceding
      <3>3. Closed(Visited(s), depths[s], LevelOf(s), Crossed, Linked)' BY <1>1, <1>3, <2>2, <3>1 DEF Closed
      <3>4. Recorded(Visited(s), depths[s], parents[s], Linked, MaxPaths)' BY <1>1, <2>2, <3>1, <3>2 DEF Recorded
      <3> QED BY <3>3, <3>4
    <2> QED BY <2>3 DEF WholeSides
  <1>5. PathsBest'
    <2> SUFFICES ASSUME ~GoesOn PROVE paths' \in AnyOf(Shortest, MaxPaths)
      BY <1>1, <1>3 DEF PathsBest
    <2>1. CASE MetNow # {} BY <1>1, <1>2, <2>1, MeetingIsBest
    <2>2. CASE MetNow = {}
      <3>1. Shortest = {} BY <1>1, <1>2, <2>2, ApartIsNone
      <3>2. paths' \in AnyOf({}, MaxPaths) BY <1>1, <2>2, JoinedNone
      <3> QED BY <3>1, <3>2
    <2> QED BY <2>1, <2>2
  <1>6. ClaimsRead' /\ LevelRead' /\ FoundAll' BY <1>1 DEF ClaimsRead, LevelRead, FoundAll
  <1> QED BY <1>4, <1>5, <1>6

\* A timeout counts as a cut, and the page takes what was joined.
LEMMA EndsWhole == ASSUME SearchInv, WholeInv, TimeOut \/ Build \/ Change \/ UNCHANGED svars PROVE WholeInv'
  <1>1. CASE TimeOut \/ Build
    <2>1. search' = "shown" BY <1>1 DEF TimeOut, Build
    <2> QED BY <2>1 DEF WholeInv, WholeSides, Going, ClaimsRead, LevelRead, FoundAll, PathsBest
  <1>2. CASE Change
    <2>1. graphEdits' # 0 BY <1>2, ChangeKeeps
    <2> QED BY <2>1 DEF WholeInv, Uncut
  <1>3. CASE UNCHANGED svars
    <2>1. UNCHANGED <<claims, events, graphEdits, parents, depths, frontier, depth, asked, search, side, beside, found,
                      truncated, eventsCapped, paths>>
      BY <1>3 DEF svars, published, tree
    <2>2. Linked' = Linked /\ Crossed' = Crossed /\ Shortest' = Shortest BY <2>1, SamePublished
    <2>3. \A s : Visited(s)' = Visited(s) /\ LevelOf(s)' = LevelOf(s) BY <2>1 DEF Visited, LevelOf
    <2>4. Uncut' <=> Uncut BY <2>1 DEF Uncut
    <2>5. WholeSides => WholeSides'
      <3>1. CASE Going BY <2>1, <2>3, <3>1, WholeSidesStay
      <3>2. CASE ~Going
        <4>1. ~Going' BY <2>1, <3>2 DEF Going
        <4> QED BY <4>1 DEF WholeSides
      <3> QED BY <3>1, <3>2
    <2>6. Expanded' = Expanded BY <2>1 DEF Expanded, FirstOf
    <2>7. ClaimsRead => ClaimsRead'
      <3>1. UNCHANGED <<search, frontier, side, claims, beside>> BY <2>1
      <3> SUFFICES ASSUME ClaimsRead, search' = "events"
                   PROVE  /\ Expanded' = frontier'[side']
                          /\ \A n \in frontier'[side'], q \in Nodes :
                               {n, q} \in claims' => \E row \in beside' : row[1] = n /\ row[2] = q
        BY DEF ClaimsRead
      <3>2. search = "events" BY <3>1
      <3>3. Expanded = frontier[side] BY <3>2 DEF ClaimsRead
      <3>4. ASSUME NEW n \in frontier'[side'], NEW q \in Nodes, {n, q} \in claims'
            PROVE  \E row \in beside' : row[1] = n /\ row[2] = q
        <4>1. n \in frontier[side] /\ {n, q} \in claims BY <3>1, <3>4
        <4>2. PICK row \in beside : row[1] = n /\ row[2] = q BY <3>2, <4>1 DEF ClaimsRead
        <4> QED BY <3>1, <4>2
      <3> QED BY <2>6, <3>1, <3>3, <3>4
    <2>8. LevelRead => LevelRead'
      <3>1. UNCHANGED <<search, frontier, side, beside>> /\ Linked' = Linked BY <2>1, <2>2
      <3> SUFFICES ASSUME LevelRead, search' = "level read", NEW n \in frontier'[side'], NEW q \in Nodes,
                          {n, q} \in Linked'
                   PROVE  \E row \in beside' : row[1] = n /\ row[2] = q
        BY DEF LevelRead
      <3>2. search = "level read" /\ n \in frontier[side] /\ {n, q} \in Linked BY <3>1
      <3>3. PICK row \in beside : row[1] = n /\ row[2] = q BY <3>2 DEF LevelRead
      <3> QED BY <3>1, <3>3
    <2>9. FoundAll => FoundAll'
      <3>1. LevelOf(side)' = LevelOf(side) BY <2>1 DEF LevelOf
      <3>2. Visited(side)' = Visited(side) BY <2>1 DEF Visited
      <3>3. UNCHANGED <<search, frontier, side, found, depths>> /\ Linked' = Linked /\ Crossed' = Crossed
        BY <2>1, <2>2
      <3> SUFFICES ASSUME FoundAll, search = "found" PROVE FoundAll'
        BY <3>3 DEF FoundAll
      <3>4. \A n \in frontier'[side'], q \in Crossed' :
              {n, q} \in Linked' => q \in Visited(side)' \cup DOMAIN found'
        BY <3>2, <3>3 DEF FoundAll
      <3>5. \A q \in DOMAIN found' :
              found'[q] \in AnyOf({p \in Visited(side)' : depths'[side'][p] = LevelOf(side)'
                                                          /\ {p, q} \in Linked'}, MaxPaths)
        BY <3>1, <3>2, <3>3 DEF FoundAll
      <3> QED BY <3>4, <3>5 DEF FoundAll, AnyOf
    <2>10. PathsBest => PathsBest' BY <2>1, <2>2 DEF PathsBest
    <2> QED BY <2>4, <2>5, <2>7, <2>8, <2>9, <2>10 DEF WholeInv
  <1> QED BY <1>1, <1>2, <1>3

\* Nothing is nearer to a root than itself.
LEMMA WholeStart == PathInit => WholeInv
  <1> SUFFICES ASSUME PathInit PROVE WholeInv
    OBVIOUS
  <1>1. search = "level" /\ depth = [s \in Sides |-> 0] /\ asked.maxDepth \in MaxDepths BY DEF PathInit
  <1>2. /\ parents = [s \in Sides |-> [n \in {Root[s]} |-> {}]]
        /\ depths = [s \in Sides |-> [n \in {Root[s]} |-> 0]]
    BY DEF PathInit
  <1>3. ASSUME NEW s \in Sides
        PROVE  /\ Closed(Visited(s), depths[s], LevelOf(s), Crossed, Linked)
               /\ Recorded(Visited(s), depths[s], parents[s], Linked, MaxPaths)
    <2>1. /\ Visited(s) = {Root[s]} /\ depths[s][Root[s]] = 0 /\ parents[s][Root[s]] = {}
      BY <1>2 DEF Visited
    <2>2. LevelOf(s) = 0 BY <1>1 DEF LevelOf
    <2>3. Closed(Visited(s), depths[s], LevelOf(s), Crossed, Linked) BY <2>1, <2>2 DEF Closed
    <2>4. Preceding(Visited(s), depths[s], Linked, Root[s]) = {} BY <2>1 DEF Preceding
    <2>5. {} \in AnyOf({}, MaxPaths) BY CutOfNone, PathAssumption
    <2>6. Recorded(Visited(s), depths[s], parents[s], Linked, MaxPaths) BY <2>1, <2>4, <2>5 DEF Recorded
    <2> QED BY <2>3, <2>6
  <1>4. WholeSides BY <1>3 DEF WholeSides
  <1>5. ClaimsRead /\ LevelRead /\ FoundAll /\ PathsBest BY <1>1 DEF ClaimsRead, LevelRead, FoundAll, PathsBest
  <1> QED BY <1>4, <1>5 DEF WholeInv

-----------------------------------------------------------------------------
\* What was shown stays as it was shown.
LEMMA ShownStays ==
    ASSUME search = "shown", PathsAreSound, [PathNext]_svars
    PROVE  PathsAreSound'
  <1>1. UNCHANGED svars
    BY DEF PathNext, ReadClaims, ReadEvents, Sort, Settle, TimeOut, Build, Change
  <1>2. UNCHANGED <<visible, claims, events, ever, graphEdits, asked, search, links, truncated, eventsCapped, paths, read>>
    BY <1>1 DEF svars, published
  <1>3. Reached' = Reached /\ Shortest' = Shortest BY <1>2, SamePublished
  <1>4. PathsAreShortest' <=> PathsAreShortest BY <1>2, <1>3 DEF PathsAreShortest
  <1>5. \A p : ClaimHops(p)' = ClaimHops(p) BY <1>2 DEF ClaimHops
  <1>6. HopsAreDocumented' <=> HopsAreDocumented BY <1>2, <1>5 DEF HopsAreDocumented
  <1> QED BY <1>2, <1>4, <1>6 DEF PathsAreSound

\* A page that is built is sound: a calm search finds all of it still published.
LEMMA BuiltIsSound == ASSUME SearchInv, CalmInv, WholeInv, Build PROVE PathsAreSound'
  <1>1. /\ search = "build" /\ search' = "shown" /\ paths' = (IF Documented THEN paths ELSE {})
        /\ read' = [claims |-> claims, visible |-> visible]
        /\ UNCHANGED <<visible, claims, events, ever, graphEdits, asked, links, truncated, eventsCapped>>
    BY DEF Build, published
  <1>2. Reached' = Reached /\ Shortest' = Shortest BY <1>1, SamePublished
  <1>3. \A p : ClaimHops(p)' = ClaimHops(p) BY <1>1 DEF ClaimHops
  <1>4. \A p \in paths : Hops(p) \subseteq ever \cap DOMAIN links BY <1>1 DEF SearchInv, BuildInv
  <1>5. HopsAreDocumented'
    <2>1. ASSUME NEW p \in paths'
          PROVE  Hops(p) \subseteq ever /\ ClaimHops(p) \subseteq claims /\ Met(p) \subseteq visible
      <3>1. Documented /\ p \in paths BY <1>1, <2>1
      <3> QED BY <1>4, <3>1 DEF Documented
    <2>2. read'.claims = claims /\ read'.visible = visible BY <1>1
    <2> QED BY <1>1, <1>3, <2>1, <2>2 DEF HopsAreDocumented
  <1>6. ASSUME graphEdits = 0 PROVE Documented
    <2> SUFFICES ASSUME NEW p \in paths PROVE Met(p) \subseteq visible /\ ClaimHops(p) \subseteq claims
      BY DEF Documented
    <2>1. AllPublic /\ LinksTrue /\ PathsReal BY <1>6 DEF CalmInv
    <2>2. PICK k \in DOMAIN Reached : p \in Reached[k] BY <1>1, <2>1 DEF PathsReal
    <2>3. k \in Nat /\ p \in Routes(k, Crossed, Linked)
      <3>1. k \in 0..asked.maxDepth BY <2>2, ReachedIs
      <3>2. Reached[k] = Routes(k, Crossed, Linked) BY <3>1, ReachedIs
      <3> QED BY <2>2, <3>1, <3>2
    <2>4. Met(p) \subseteq Crossed BY <2>3, RoutesHops
    <2>5. Crossed \subseteq Nodes BY PathAssumption DEF Crossed
    <2>6. ClaimHops(p) \subseteq claims BY <1>4, <2>1 DEF ClaimHops, LinksTrue
    <2> QED BY <2>1, <2>4, <2>5, <2>6 DEF AllPublic
  <1>7. PathsAreShortest'
    <2> SUFFICES ASSUME graphEdits = 0
                 PROVE  /\ ~truncated /\ ~eventsCapped => paths' \in AnyOf(Shortest, MaxPaths)
                        /\ paths' \subseteq UNION {Reached[k] : k \in DOMAIN Reached}
      BY <1>1, <1>2 DEF PathsAreShortest
    <2>1. paths' = paths BY <1>1, <1>6
    <2>2. paths \subseteq UNION {Reached[k] : k \in DOMAIN Reached} BY <1>1 DEF CalmInv, PathsReal
    <2>3. ASSUME ~truncated, ~eventsCapped PROVE paths \in AnyOf(Shortest, MaxPaths)
      BY <1>1, <2>3 DEF WholeInv, Uncut, PathsBest
    <2> QED BY <2>1, <2>2, <2>3
  <1> QED BY <1>5, <1>7 DEF PathsAreSound

\* A search that timed out shows nothing, and says that it was cut.
LEMMA TimedOutIsSound == ASSUME TimeOut PROVE PathsAreSound'
  <1>1. search' = "shown" /\ truncated' = TRUE /\ paths' = {} BY DEF TimeOut
  <1>2. HopsAreDocumented' BY <1>1 DEF HopsAreDocumented
  <1>3. PathsAreShortest' BY <1>1 DEF PathsAreShortest
  <1> QED BY <1>2, <1>3 DEF PathsAreSound

\* A search in order, what a calm one keeps, what an uncut one keeps, and the page.
PathInv == SearchInv /\ CalmInv /\ WholeInv /\ PathsAreSound

\* The inductive invariant holds of the first state, and every step keeps it.
LEMMA PathStart == PathInit => PathInv
  <1> SUFFICES ASSUME PathInit PROVE PathInv
    OBVIOUS
  <1>1. PathsAreSound BY DEF PathInit, PathsAreSound
  <1> QED BY <1>1, SearchStart, CalmStart, WholeStart DEF PathInv

LEMMA PathStep == PathInv /\ [PathNext]_svars => PathInv'
  <1> SUFFICES ASSUME SearchInv, CalmInv, WholeInv, PathsAreSound, [PathNext]_svars PROVE PathInv'
    BY DEF PathInv
  <1>1. CASE ReadClaims
    <2>1. search' # "shown" BY <1>1 DEF ReadClaims
    <2> QED BY <1>1, <2>1, ReadClaimsKeeps, ReadsCalm, ReadClaimsWhole DEF PathInv, PathsAreSound
  <1>2. CASE ReadEvents
    <2>1. search' # "shown" BY <1>2 DEF ReadEvents
    <2> QED BY <1>2, <2>1, ReadEventsKeeps, ReadsCalm, ReadEventsWhole DEF PathInv, PathsAreSound
  <1>3. CASE Sort
    <2>1. search' # "shown" BY <1>3 DEF Sort
    <2> QED BY <1>3, <2>1, SortKeeps, SortCalm, SortWhole DEF PathInv, PathsAreSound
  <1>4. CASE Settle
    <2>1. search' # "shown" BY <1>4, SettleIs
    <2> QED BY <1>4, <2>1, SettleKeeps, SettleCalm, SettleWhole DEF PathInv, PathsAreSound
  <1>5. CASE TimeOut BY <1>5, EndsKeep, EndsCalm, EndsWhole, TimedOutIsSound DEF PathInv
  <1>6. CASE Build BY <1>6, EndsKeep, EndsCalm, EndsWhole, BuiltIsSound DEF PathInv
  <1>7. CASE Change
    <2>1. search' # "shown" BY <1>7 DEF Change
    <2> QED BY <1>7, <2>1, ChangeKeeps, EndsCalm, EndsWhole DEF PathInv, PathsAreSound
  <1>8. CASE UNCHANGED svars
    <2>1. CASE search = "shown" BY <2>1, <1>8, ShownStays, EndsKeep, EndsCalm, EndsWhole DEF PathInv
    <2>2. CASE search # "shown"
      <3>1. search' # "shown" BY <1>8, <2>2 DEF svars
      <3> QED BY <1>8, <3>1, EndsKeep, EndsCalm, EndsWhole DEF PathInv, PathsAreSound
    <2> QED BY <2>1, <2>2
  <1> QED BY <1>1, <1>2, <1>3, <1>4, <1>5, <1>6, <1>7, <1>8 DEF PathNext

\* A page of paths is what PathSearch.run promises: if nothing was cut and nothing changed, the
\* shortest paths or MAX_PATHS of them, and none only where none of the length asked for exists;
\* cut, only paths that exist and cross no hub; and whatever changed meanwhile, each hop was
\* published during the search and each claim and entity when build_paths() read them.
THEOREM SearchesAreSound == PathSpec => []PathsAreSound
  <1>1. PathInit => PathInv BY PathStart
  <1>2. PathInv /\ [PathNext]_svars => PathInv' BY PathStep
  <1>3. PathInv => PathsAreSound BY DEF PathInv
  <1> QED BY <1>1, <1>2, <1>3, PTL DEF PathSpec
===============================================================================
