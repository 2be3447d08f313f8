------------------------------ MODULE LeastNumber ------------------------------
(***************************************************************************)
(* Induction for the proofs of this project: every non-empty set of natural *)
(* numbers has a least element, so a property that fails somewhere fails    *)
(* somewhere first.                                                         *)
(***************************************************************************)
EXTENDS Naturals, WellFoundedInduction, FiniteSetTheorems, TLAPS

\* The least element of S has the smallest of the intervals 1..n, n in S,
\* and strict inclusion is well-founded on finite sets.
LEMMA Least ==
  ASSUME NEW S \in SUBSET Nat, S # {}
  PROVE  \E n \in S : \A m \in S : n <= m
<1> DEFINE D == {1..n : n \in S}
           R == StrictSubsetOrdering(Nat)
<1>1. IsWellFoundedOn(R, FiniteSubsetsOf(Nat))
  BY FS_StrictSubsetOrderingWellFounded
<1>2. D \subseteq FiniteSubsetsOf(Nat) /\ D # {}
  <2>1. \A n \in S : IsFiniteSet(1..n) /\ (1..n) \subseteq Nat
    BY FS_Interval
  <2>2. QED
    BY <2>1 DEF FiniteSubsetsOf
<1>3. \E x \in D : \A y \in D : ~(<<y, x>> \in R)
  <2> HIDE DEF D, R
  <2> QED
    BY <1>1, <1>2, WFMin
<1>4. PICK n \in S : \A m \in S : ~(<<1..m, 1..n>> \in R)
  BY <1>3
<1>5. ASSUME NEW m \in S, m < n
      PROVE  FALSE
  <2>1. (1..m) \subseteq (1..n) /\ (1..m) \subseteq Nat /\ (1..n) \subseteq Nat
    BY <1>5
  <2>2. n \in 1..n /\ n \notin 1..m
    BY <1>5
  <2>3. (1..m) # (1..n)
    BY <2>2
  <2>4. <<1..m, 1..n>> \in R
    BY <2>1, <2>3 DEF StrictSubsetOrdering
  <2>5. QED
    BY <1>4, <2>4
<1>6. QED
  BY <1>5

\* A nonempty set of numbers with a bound has a greatest element.
LEMMA Greatest ==
  ASSUME NEW n \in Nat, NEW F \in SUBSET (0..n), F # {}
  PROVE  \E i \in F : \A j \in F : j <= i
<1> DEFINE G == {n - i : i \in F}
<1>1. G \in SUBSET Nat /\ G # {}
  <2>1. \A i \in F : n - i \in Nat
    OBVIOUS
  <2>2. QED
    BY <2>1
<1>2. PICK g \in G : \A h \in G : g <= h
  <2> HIDE DEF G
  <2> QED
    BY <1>1, Least
<1>3. PICK i \in F : g = n - i
  BY <1>2
<1>4. \A j \in F : n - i <= n - j
  BY <1>2, <1>3
<1>5. QED
  BY <1>4

\* What holds of 0 and of each number behind one it holds of.
LEMMA UpTo ==
  ASSUME NEW n \in Nat, NEW T, 0 \in T, \A k \in 1..n : k - 1 \in T => k \in T
  PROVE  \A k \in 0..n : k \in T
<1> DEFINE F == {k \in 0..n : k \notin T}
<1>1. SUFFICES ASSUME F # {}
               PROVE  FALSE
  OBVIOUS
<1>2. F \in SUBSET Nat
  OBVIOUS
<1>3. PICK k \in F : \A j \in F : k <= j
  <2> HIDE DEF F
  <2> QED
    BY <1>1, <1>2, Least
<1>4. k \in 1..n /\ k - 1 \in 0..n /\ k - 1 \notin F
  BY <1>3
<1>5. QED
  BY <1>3, <1>4

\* What holds of a number when it holds of all the greater ones.
LEMMA DownFrom ==
  ASSUME NEW n \in Nat, NEW T, \A k \in 1..n : (\A j \in (k + 1)..n : j \in T) => k \in T
  PROVE  \A k \in 1..n : k \in T
<1> DEFINE F == {k \in 1..n : k \notin T}
<1>1. SUFFICES ASSUME F # {}
               PROVE  FALSE
  OBVIOUS
<1>2. F \in SUBSET (0..n)
  OBVIOUS
<1>3. PICK k \in F : \A j \in F : j <= k
  <2> HIDE DEF F
  <2> QED
    BY <1>1, <1>2, Greatest
<1>4. \A j \in (k + 1)..n : j \in T
  BY <1>3
<1>5. QED
  BY <1>3, <1>4

-----------------------------------------------------------------------------
(* A recursive function exists when each value is made of one nearer to    *)
(* the end: of the value before it, or of a value further on.              *)

GoesUp(f, n, a, F)      == f[0] = a /\ \A k \in 1..n : f[k] = F[k][f[k - 1]]
GoesDown(f, n, a, F, G) == f[n + 1] = a /\ \A k \in 1..n : f[k] = F[k][f[G[k]]]

LEMMA RecursionUp ==
  ASSUME NEW n \in Nat, NEW S, NEW a \in S, NEW F \in [1..n -> [S -> S]]
  PROVE  \E f \in [0..n -> S] : GoesUp(f, n, a, F)
<1> DEFINE Is(f, m) == f \in [0..m -> S] /\ f[0] = a /\ \A k \in 1..m : f[k] = F[k][f[k - 1]]
           T == {m \in 0..n : \E f : Is(f, m)}
<1>1. 0 \in T
  <2>1. Is([k \in 0..0 |-> a], 0)
    OBVIOUS
  <2> HIDE DEF Is
  <2>2. QED
    BY <2>1
<1>2. ASSUME NEW m \in 1..n, m - 1 \in T
      PROVE  m \in T
  <2>1. PICK f : Is(f, m - 1)
    BY <1>2
  <2> DEFINE z == F[m][f[m - 1]]
             g == [k \in 0..m |-> IF k = m THEN z ELSE f[k]]
  <2>2. f[m - 1] \in S /\ z \in S
    <3>1. f[m - 1] \in S
      BY <2>1
    <3>2. QED
      BY <3>1
  <2> HIDE DEF z
  <2>3. g \in [0..m -> S]
    BY <2>1, <2>2
  <2>4. g[0] = a
    BY <2>1
  <2>5. ASSUME NEW k \in 1..m
        PROVE  g[k] = F[k][g[k - 1]]
    <3>1. CASE k = m
      BY <3>1 DEF z
    <3>2. CASE k # m
      <4>1. k \in 1..(m - 1) /\ g[k] = f[k] /\ g[k - 1] = f[k - 1]
        BY <3>2
      <4>2. QED
        BY <2>1, <4>1
    <3>3. QED
      BY <3>1, <3>2
  <2>6. Is(g, m)
    BY <2>3, <2>4, <2>5
  <2> HIDE DEF Is, g
  <2>7. QED
    BY <2>6
<1>3. n \in T
  <2> HIDE DEF T
  <2>1. \A k \in 0..n : k \in T
    BY <1>1, <1>2, UpTo
  <2>2. QED
    BY <2>1
<1>4. PICK f : Is(f, n)
  BY <1>3
<1>5. QED
  BY <1>4 DEF GoesUp

LEMMA RecursionDown ==
  ASSUME NEW n \in Nat, NEW S, NEW a \in S, NEW F \in [1..n -> [S -> S]],
         NEW G \in [1..n -> Nat], \A k \in 1..n : G[k] \in (k + 1)..(n + 1)
  PROVE  \E f \in [1..(n + 1) -> S] : GoesDown(f, n, a, F, G)
<1> DEFINE Is(f, m) == /\ f \in [(n + 1 - m)..(n + 1) -> S] /\ f[n + 1] = a
                       /\ \A k \in (n + 1 - m)..n : f[k] = F[k][f[G[k]]]
           T == {m \in 0..n : \E f : Is(f, m)}
<1>1. 0 \in T
  <2>1. Is([k \in (n + 1)..(n + 1) |-> a], 0)
    OBVIOUS
  <2> HIDE DEF Is
  <2>2. QED
    BY <2>1
<1>2. ASSUME NEW m \in 1..n, m - 1 \in T
      PROVE  m \in T
  <2>1. PICK f : Is(f, m - 1)
    BY <1>2
  <2> DEFINE i == n + 1 - m
             z == F[i][f[G[i]]]
             g == [k \in i..(n + 1) |-> IF k = i THEN z ELSE f[k]]
  <2>2. i \in 1..n /\ G[i] \in (n + 1 - (m - 1))..(n + 1) /\ (n + 1 - (m - 1)) = i + 1
    OBVIOUS
  <2>3. z \in S
    <3>1. f[G[i]] \in S
      BY <2>1, <2>2
    <3> HIDE DEF i
    <3>2. QED
      BY <2>2, <3>1
  <2>4. \A k \in i..n : g[k] = F[k][g[G[k]]]
    <3> HIDE DEF i, z
    <3> SUFFICES ASSUME NEW k \in i..n
                 PROVE  g[k] = F[k][g[G[k]]]
      OBVIOUS
    <3>1. G[k] \in (k + 1)..(n + 1) /\ k \in 1..n /\ i \in 1..n
      BY <2>2
    <3>2. G[k] \in i..(n + 1) /\ G[k] # i
      BY <3>1
    <3>3. g[G[k]] = f[G[k]]
      BY <3>2
    <3>4. CASE k = i
      <4>1. g[i] = z
        BY <3>1
      <4> HIDE DEF g
      <4>2. z = F[k][g[G[k]]]
        BY <3>3, <3>4 DEF z
      <4>3. QED
        BY <3>4, <4>1, <4>2
    <3>5. CASE k # i
      <4>1. k \in (i + 1)..n /\ g[k] = f[k]
        BY <3>1, <3>5
      <4>2. QED
        BY <2>1, <2>2, <3>3, <4>1
    <3>6. QED
      BY <3>4, <3>5
  <2>5. g \in [i..(n + 1) -> S] /\ g[n + 1] = a
    <3> HIDE DEF i, z
    <3>1. \A k \in (i + 1)..(n + 1) : f[k] \in S
      BY <2>1, <2>2
    <3>2. \A k \in i..(n + 1) : g[k] \in S
      BY <2>2, <2>3, <3>1
    <3>3. QED
      BY <2>1, <2>2, <3>2
  <2>6. Is(g, m)
    BY <2>4, <2>5
  <2> HIDE DEF Is, g
  <2>7. QED
    BY <2>6
<1>3. n \in T
  <2> HIDE DEF T
  <2>1. \A k \in 0..n : k \in T
    BY <1>1, <1>2, UpTo
  <2>2. QED
    BY <2>1
<1>4. PICK f : Is(f, n)
  BY <1>3
<1>5. n + 1 - n = 1
  OBVIOUS
<1>6. f \in [1..(n + 1) -> S] /\ GoesDown(f, n, a, F, G)
  BY <1>4, <1>5 DEF GoesDown
<1>7. QED
  BY <1>6
=============================================================================
