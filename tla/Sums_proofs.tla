---------------------------- MODULE Sums_proofs ------------------------------
(***************************************************************************)
(* Loops and sums: what the proofs about the collectors need of folds.     *)
(*                                                                         *)
(* From the fact that every set of naturals has a least element follows    *)
(* that a fold over a finite set, or over a sequence, satisfies its        *)
(* recursion, and induction over it; and from these that a sum may be      *)
(* taken in any order, part by part, and lies between its bounds.          *)
(*                                                                         *)
(* Zenon proves the leaves that do not name SMT.                           *)
(***************************************************************************)
EXTENDS Integers, Sequences, Functions, FiniteSetsExt, TLAPS, FiniteSetTheorems

USE Zenon

\* The least number principle and induction, for sets instead of predicates.
LEMMA LeastNatural ==
    ASSUME NEW T \in SUBSET Nat, T # {}
    PROVE  \E m \in T : \A k \in T : m <= k
  <1>1. PICK x \in T : \A y \in T : ~(<<y, x>> \in OpToRel(<, Nat))
    BY WFMin, NatLessThanWellFounded
  <1>2. \A y \in Nat : y < x => <<y, x>> \in OpToRel(<, Nat)
    BY DEF OpToRel
  <1>3. \A y \in T : ~(y < x)
    BY <1>1, <1>2
  <1>4. \A y \in T : x <= y
    BY <1>3, SMT
  <1> QED
    BY <1>4

\* Induction on the naturals, for a set of them instead of a predicate.
LEMMA NatSetInduction ==
    ASSUME NEW P \in SUBSET Nat, 0 \in P, \A n \in P : n + 1 \in P
    PROVE  P = Nat
  <1> DEFINE T == Nat \ P
  <1> SUFFICES ASSUME T # {} PROVE FALSE
    OBVIOUS
  <1>1. PICK x \in T : \A y \in T : x <= y
    <2>1. T \in SUBSET Nat
      OBVIOUS
    <2> HIDE DEF T
    <2> QED
      BY <2>1, LeastNatural
  <1>2. x \in Nat /\ x # 0
    OBVIOUS
  <1>3. x - 1 \in Nat /\ ~(x <= x - 1) /\ (x - 1) + 1 = x
    BY <1>2, SMT
  <1>4. x - 1 \in P
    BY <1>1, <1>3
  <1>5. (x - 1) + 1 \in P
    BY <1>4
  <1> QED
    BY <1>3, <1>5

\* Folding over a finite set.
FoldOf(g, S, base, pick, step) ==
    \A s \in S : g[s] = IF s = {} THEN base ELSE step[pick[s]][g[s \ {pick[s]}]]

Small(S, k) == {s \in SUBSET S : Cardinality(s) <= k}

\* Over a finite set there is a function that folds every subset, by induction on their size.
LEMMA FoldExists ==
    ASSUME NEW S, IsFiniteSet(S), NEW V, NEW base \in V,
           NEW pick, \A s \in (SUBSET S) \ {{}} : pick[s] \in s,
           NEW step \in [S -> [V -> V]]
    PROVE  \E g \in [SUBSET S -> V] : FoldOf(g, SUBSET S, base, pick, step)
  <1> DEFINE Has(k) == \E g \in [Small(S, k) -> V] : FoldOf(g, Small(S, k), base, pick, step)
             P == {k \in Nat : Has(k)}
  <1>f. \A s \in SUBSET S : IsFiniteSet(s) /\ Cardinality(s) \in Nat
    BY FS_Subset, FS_CardinalityType
  <1>1. 0 \in P
    <2>1. Small(S, 0) = {{}}
      <3>1. \A s \in SUBSET S : Cardinality(s) <= 0 => Cardinality(s) = 0
        BY <1>f, SMT
      <3>2. \A s \in SUBSET S : Cardinality(s) = 0 <=> s = {}
        BY <1>f, FS_EmptySet
      <3>3. \A s \in SUBSET S : Cardinality(s) = 0 => Cardinality(s) <= 0
        BY SMT
      <3>4. \A s \in SUBSET S : Cardinality(s) <= 0 <=> s = {}
        BY <3>1, <3>2, <3>3
      <3>5. \A s : s \in Small(S, 0) <=> s = {}
        BY <3>4 DEF Small
      <3> QED
        BY <3>5
    <2> DEFINE g == [s \in Small(S, 0) |-> base]
    <2>2. g \in [Small(S, 0) -> V] /\ FoldOf(g, Small(S, 0), base, pick, step)
      BY <2>1 DEF FoldOf
    <2>3. 0 \in Nat
      OBVIOUS
    <2>4. Has(0)
      BY <2>2
    <2> QED
      BY <2>3, <2>4
  <1>2. ASSUME NEW k \in P PROVE k + 1 \in P
    <2>1. k \in Nat /\ k + 1 \in Nat
      BY SMT
    <2>2. PICK g \in [Small(S, k) -> V] : FoldOf(g, Small(S, k), base, pick, step)
      OBVIOUS
    <2>3. ASSUME NEW s \in Small(S, k + 1), s # {}
          PROVE  pick[s] \in S /\ s \ {pick[s]} \in Small(S, k)
      <3>1. s \in SUBSET S /\ Cardinality(s) <= k + 1 /\ pick[s] \in s
        BY <2>3 DEF Small
      <3>2. Cardinality(s \ {pick[s]}) = Cardinality(s) - 1
        <4> DEFINE x == pick[s]
        <4>1. IsFiniteSet(s) /\ x \in s
          BY <1>f, <3>1
        <4> HIDE DEF x
        <4>2. Cardinality(s \ {x}) = IF x \in s THEN Cardinality(s) - 1 ELSE Cardinality(s)
          BY <4>1, FS_RemoveElement
        <4> QED
          BY <4>1, <4>2 DEF x
      <3>3. Cardinality(s \ {pick[s]}) <= k
        BY <1>f, <2>1, <3>1, <3>2, SMT
      <3> QED
        BY <3>1, <3>3 DEF Small
    <2>4. Small(S, k) \subseteq Small(S, k + 1)
      <3>1. \A s \in SUBSET S : Cardinality(s) <= k => Cardinality(s) <= k + 1
        BY <1>f, <2>1, SMT
      <3> QED
        BY <3>1 DEF Small
    <2> DEFINE h == [s \in Small(S, k + 1) |->
                       IF s = {} THEN base ELSE step[pick[s]][g[s \ {pick[s]}]]]
    <2>5. h \in [Small(S, k + 1) -> V]
      <3>1. ASSUME NEW s \in Small(S, k + 1)
            PROVE  (IF s = {} THEN base ELSE step[pick[s]][g[s \ {pick[s]}]]) \in V
        <4>1. s # {} => pick[s] \in S /\ g[s \ {pick[s]}] \in V
          BY <2>3
        <4>2. s # {} => step[pick[s]] \in [V -> V]
          BY <4>1
        <4> QED
          BY <4>1, <4>2
      <3> QED
        BY <3>1
    <2>6. \A s \in Small(S, k) : h[s] = g[s]
      BY <2>2, <2>4 DEF FoldOf
    <2>7. FoldOf(h, Small(S, k + 1), base, pick, step)
      <3> SUFFICES ASSUME NEW s \in Small(S, k + 1)
                   PROVE  h[s] = IF s = {} THEN base ELSE step[pick[s]][h[s \ {pick[s]}]]
        BY DEF FoldOf
      <3>1. CASE s = {}
        BY <3>1
      <3>2. CASE s # {}
        <4>1. h[s \ {pick[s]}] = g[s \ {pick[s]}]
          BY <2>3, <2>6, <3>2
        <4>2. h[s] = step[pick[s]][g[s \ {pick[s]}]]
          BY <3>2
        <4> QED
          BY <3>2, <4>1, <4>2
      <3> QED
        BY <3>1, <3>2
    <2> QED
      BY <2>1, <2>5, <2>7
  <1>3. P = Nat
    <2> HIDE DEF Has
    <2>1. P \in SUBSET Nat
      OBVIOUS
    <2> HIDE DEF P
    <2> QED
      BY <1>1, <1>2, <2>1, NatSetInduction
  <1>4. Has(Cardinality(S))
    <2> HIDE DEF Has
    <2>1. Cardinality(S) \in Nat
      BY <1>f
    <2> QED
      BY <1>3, <2>1
  <1>5. Small(S, Cardinality(S)) = SUBSET S
    <2>1. \A s \in SUBSET S : Cardinality(s) <= Cardinality(S)
      BY FS_Subset
    <2> QED
      BY <2>1 DEF Small
  <1> QED
    BY <1>4, <1>5

\* The largest element of a set of indices, which ForEach takes off last.
LEMMA MaxIn ==
    ASSUME NEW n \in Nat, NEW s \in SUBSET (1..n), s # {}
    PROVE  Max(s) \in s
  <1> DEFINE T == {m \in Nat : \A y \in s : y <= m}
  <1>0. \A y \in s : y \in 1..n /\ y \in Nat /\ y >= 1
    BY SMT
  <1>1. n \in T
    BY <1>0, SMT
  <1>2. PICK m \in T : \A k \in T : m <= k
    <2>1. T \in SUBSET Nat /\ T # {}
      BY <1>1
    <2> HIDE DEF T
    <2> QED
      BY <2>1, LeastNatural
  <1>3. m \in Nat /\ \A y \in s : y <= m
    OBVIOUS
  <1>4. m \in s
    <2> SUFFICES ASSUME m \notin s PROVE FALSE
      OBVIOUS
    <2>1. \A y \in s : y # m
      OBVIOUS
    <2>2. \A y \in s : y <= m - 1
      BY <1>0, <1>3, <2>1, SMT
    <2>3. m - 1 \in Nat
      <3>1. PICK y \in s : TRUE
        OBVIOUS
      <3>2. y >= 1 /\ y <= m /\ y \in Nat
        BY <1>0, <1>3
      <3> QED
        BY <1>3, <3>2, SMT
    <2>4. m - 1 \in T
      BY <2>2, <2>3
    <2>5. ~(m <= m - 1)
      BY <1>3, SMT
    <2> QED
      BY <1>2, <2>4, <2>5
  <1>5. \A y \in s : m >= y
    BY <1>0, <1>3
  <1> QED
    BY <1>4, <1>5 DEF Max

\* The last of the first k indices, and what is left without it.
LEMMA MaxPrefix ==
    ASSUME NEW n \in Nat, NEW k \in 1..n
    PROVE  /\ Max(1..k) = k /\ (1..k) \ {k} = 1..(k - 1)
           /\ 1..k # {} /\ 1..k \in SUBSET (1..n) /\ 1..(k - 1) \in SUBSET (1..n)
  <1>1. \E x \in 1..k : \A y \in 1..k : x >= y
    BY SMT
  <1>2. \A x \in 1..k : (\A y \in 1..k : x >= y) <=> x = k
    BY SMT
  <1>3. Max(1..k) = k
    BY <1>1, <1>2 DEF Max
  <1> QED
    BY <1>3, SMT

\* A fold over a sequence of n elements, where step[i] adds the i-th one.
SeqFoldOf(g, n, base, step) ==
    \A s \in SUBSET (1..n) : g[s] = IF s = {} THEN base ELSE step[Max(s)][g[s \ {Max(s)}]]

\* The fold of a loop over a sequence exists.
LEMMA SeqFoldExists ==
    ASSUME NEW n \in Nat, NEW V, NEW base \in V, NEW step \in [1..n -> [V -> V]]
    PROVE  \E g \in [SUBSET (1..n) -> V] : SeqFoldOf(g, n, base, step)
  <1> DEFINE S == 1..n
             pick == [s \in SUBSET S |-> Max(s)]
  <1>1. IsFiniteSet(S)
    BY FS_Interval, SMT
  <1>2. \A s \in (SUBSET S) \ {{}} : pick[s] \in s
    BY MaxIn
  <1>3. \A s \in SUBSET S : pick[s] = Max(s)
    OBVIOUS
  <1> HIDE DEF S, pick
  <1>4. step \in [S -> [V -> V]]
    BY DEF S
  <1>5. PICK g \in [SUBSET S -> V] : FoldOf(g, SUBSET S, base, pick, step)
    BY <1>1, <1>2, <1>4, FoldExists
  <1>6. \A s \in SUBSET S :
           g[s] = IF s = {} THEN base ELSE step[Max(s)][g[s \ {Max(s)}]]
    BY <1>3, <1>5 DEF FoldOf
  <1> QED
    BY <1>6 DEF S, SeqFoldOf

\* Induction over the subsets of a finite set.
LEMMA SubsetInduction ==
    ASSUME NEW S, IsFiniteSet(S), NEW P, {} \in P,
           \A s \in SUBSET S : s # {} /\ (\A x \in s : s \ {x} \in P) => s \in P
    PROVE  \A s \in SUBSET S : s \in P
  <1> DEFINE Q == {k \in Nat : \A s \in SUBSET S : Cardinality(s) = k => s \in P}
  <1>f. \A s \in SUBSET S : IsFiniteSet(s) /\ Cardinality(s) \in Nat
    BY FS_Subset, FS_CardinalityType
  <1>1. 0 \in Q
    <2>1. \A s \in SUBSET S : Cardinality(s) = 0 => s = {}
      BY <1>f, FS_EmptySet
    <2>2. 0 \in Nat
      OBVIOUS
    <2> QED
      BY <2>1, <2>2
  <1>2. ASSUME NEW k \in Q PROVE k + 1 \in Q
    <2>1. k \in Nat /\ k + 1 \in Nat /\ k + 1 # 0 /\ (k + 1) - 1 = k
      BY SMT
    <2>2. ASSUME NEW s \in SUBSET S, Cardinality(s) = k + 1
          PROVE  s \in P
      <3>1. s # {}
        BY <2>1, <2>2, FS_EmptySet
      <3>2. ASSUME NEW x \in s PROVE s \ {x} \in P
        <4>1. IsFiniteSet(s)
          BY <1>f
        <4>2. Cardinality(s \ {x}) = Cardinality(s) - 1
          <5>1. Cardinality(s \ {x}) = IF x \in s THEN Cardinality(s) - 1 ELSE Cardinality(s)
            BY <4>1, FS_RemoveElement
          <5> QED
            BY <5>1
        <4>3. Cardinality(s \ {x}) = k
          BY <2>1, <2>2, <4>2
        <4>4. s \ {x} \in SUBSET S
          OBVIOUS
        <4> QED
          BY <4>3, <4>4
      <3> QED
        BY <3>1, <3>2
    <2> QED
      BY <2>1, <2>2
  <1>3. Q = Nat
    <2>1. Q \in SUBSET Nat
      OBVIOUS
    <2> HIDE DEF Q
    <2> QED
      BY <1>1, <1>2, <2>1, NatSetInduction
  <1> QED
    BY <1>f, <1>3

Pick(s) == CHOOSE x \in s : TRUE

\* The sums over the subsets, as SumFunction builds them.
Sums(f) == CHOOSE g : g = [s \in SUBSET DOMAIN f |->
                              IF s = {} THEN 0 ELSE f[Pick(s)] + g[s \ {Pick(s)}]]

\* Pick chooses an element.
LEMMA PickIn == \A s : s # {} => Pick(s) \in s
  BY DEF Pick

\* The sum of a function is the one over all of its domain.
LEMMA SumTotal ==
    ASSUME NEW S, NEW f \in [S -> Int]
    PROVE  SumFunction(f) = Sums(f)[S]
  <1>1. SumFunction(f) = Sums(f)[DOMAIN f] /\ DOMAIN f = S
    BY DEF SumFunction, SumFunctionOnSet, FoldFunctionOnSet, MapThenFoldSet, Sums, Pick
  <1> QED
    BY <1>1

\* The sums satisfy the equation they are chosen by, over a finite domain.
LEMMA SumEquation ==
    ASSUME NEW S, IsFiniteSet(S), NEW f \in [S -> Int]
    PROVE  \A s \in SUBSET S :
              Sums(f)[s] = IF s = {} THEN 0 ELSE f[Pick(s)] + Sums(f)[s \ {Pick(s)}]
  <1> DEFINE step == [x \in S |-> [v \in Int |-> f[x] + v]]
             pick == [s \in SUBSET S |-> Pick(s)]
  <1>1. step \in [S -> [Int -> Int]] /\ 0 \in Int
    <2>1. \A x \in S : \A v \in Int : f[x] + v \in Int
      BY SMT
    <2> QED
      BY <2>1, SMT
  <1>2. \A s \in (SUBSET S) \ {{}} : pick[s] \in s
    BY PickIn
  <1>3. PICK g \in [SUBSET S -> Int] : FoldOf(g, SUBSET S, 0, pick, step)
    <2> HIDE DEF step, pick
    <2> QED
      BY <1>1, <1>2, FoldExists
  <1>4. ASSUME NEW s \in SUBSET S
        PROVE  g[s] = IF s = {} THEN 0 ELSE f[Pick(s)] + g[s \ {Pick(s)}]
    <2>1. CASE s = {}
      BY <1>3, <2>1 DEF FoldOf
    <2>2. CASE s # {}
      <3>1. g[s] = step[pick[s]][g[s \ {pick[s]}]]
        BY <1>3, <2>2 DEF FoldOf
      <3>2. pick[s] = Pick(s) /\ Pick(s) \in S /\ g[s \ {Pick(s)}] \in Int
        BY PickIn, <2>2
      <3>3. step[Pick(s)][g[s \ {Pick(s)}]] = f[Pick(s)] + g[s \ {Pick(s)}]
        BY <3>2
      <3> QED
        BY <2>2, <3>1, <3>2, <3>3
    <2> QED
      BY <2>1, <2>2
  <1>5. g = [s \in SUBSET DOMAIN f |-> IF s = {} THEN 0 ELSE f[Pick(s)] + g[s \ {Pick(s)}]]
    BY <1>4
  <1>6. Sums(f) = [s \in SUBSET DOMAIN f |->
                      IF s = {} THEN 0 ELSE f[Pick(s)] + Sums(f)[s \ {Pick(s)}]]
    BY <1>5 DEF Sums
  <1> QED
    BY <1>6

\* Nothing adds up to 0.
LEMMA SumEmpty ==
    ASSUME NEW S, IsFiniteSet(S), NEW f \in [S -> Int]
    PROVE  Sums(f)[{}] = 0
  <1>1. {} \in SUBSET S
    OBVIOUS
  <1> QED
    BY <1>1, SumEquation

\* A sum is one of its terms and the sum of the others.
LEMMA SumStep ==
    ASSUME NEW S, IsFiniteSet(S), NEW f \in [S -> Int]
    PROVE  \A s \in SUBSET S : s # {} =>
              Pick(s) \in s /\ Sums(f)[s] = f[Pick(s)] + Sums(f)[s \ {Pick(s)}]
  <1>1. TAKE s \in SUBSET S
  <1>2. HAVE s # {}
  <1>3. Sums(f)[s] = IF s = {} THEN 0 ELSE f[Pick(s)] + Sums(f)[s \ {Pick(s)}]
    BY SumEquation
  <1>4. Pick(s) \in s
    BY PickIn, <1>2
  <1> QED
    BY <1>2, <1>3, <1>4

\* A sum of integers is an integer.
LEMMA SumType ==
    ASSUME NEW S, IsFiniteSet(S), NEW f \in [S -> Int]
    PROVE  \A s \in SUBSET S : Sums(f)[s] \in Int
  <1> DEFINE P == {s \in SUBSET S : Sums(f)[s] \in Int}
  <1>s. \A s \in SUBSET S : s # {} =>
           Pick(s) \in s /\ Sums(f)[s] = f[Pick(s)] + Sums(f)[s \ {Pick(s)}]
    BY SumStep
  <1>1. {} \in P
    BY SumEmpty, SMT
  <1>2. ASSUME NEW s \in SUBSET S, s # {}, \A x \in s : s \ {x} \in P
        PROVE  s \in P
    <2> DEFINE x == Pick(s)
    <2>1. x \in s /\ Sums(f)[s] = f[x] + Sums(f)[s \ {x}]
      BY <1>2, <1>s
    <2>2. Sums(f)[s \ {x}] \in Int
      BY <1>2, <2>1
    <2> HIDE DEF x
    <2>3. f[x] + Sums(f)[s \ {x}] \in Int
      BY <2>1, <2>2, SMT
    <2> QED
      BY <2>1, <2>3
  <1>3. \A s \in SUBSET S : s \in P
    <2> HIDE DEF P
    <2> QED
      BY <1>1, <1>2, SubsetInduction
  <1> QED
    BY <1>3

\* Every sum over a part of S may begin with any of its terms.
AnyOrder(f, S) == \A s \in SUBSET S : \A x \in s : Sums(f)[s] = f[x] + Sums(f)[s \ {x}]

\* A sum does not depend on the order: any term may be taken out first.
LEMMA SumAny ==
    ASSUME NEW S, IsFiniteSet(S), NEW f \in [S -> Int]
    PROVE  AnyOrder(f, S)
  <1> DEFINE P == {s \in SUBSET S : \A x \in s : Sums(f)[s] = f[x] + Sums(f)[s \ {x}]}
  <1>s. \A s \in SUBSET S : s # {} =>
           Pick(s) \in s /\ Sums(f)[s] = f[Pick(s)] + Sums(f)[s \ {Pick(s)}]
    BY SumStep
  <1>t. \A s \in SUBSET S : Sums(f)[s] \in Int
    BY SumType
  <1>1. {} \in P
    OBVIOUS
  <1>2. ASSUME NEW s \in SUBSET S, s # {}, \A x \in s : s \ {x} \in P
        PROVE  s \in P
    <2> DEFINE y == Pick(s)
    <2>1. y \in s /\ Sums(f)[s] = f[y] + Sums(f)[s \ {y}]
      BY <1>2, <1>s
    <2> HIDE DEF y
    <2>2. ASSUME NEW x \in s PROVE Sums(f)[s] = f[x] + Sums(f)[s \ {x}]
      <3>1. CASE x = y
        BY <2>1, <3>1
      <3>2. CASE x # y
        <4> DEFINE a == Sums(f)[(s \ {y}) \ {x}]
        <4>1. (s \ {y}) \ {x} = (s \ {x}) \ {y} /\ x \in s \ {y} /\ y \in s \ {x}
          BY <2>1, <3>2
        <4>2. Sums(f)[s \ {y}] = f[x] + a
          BY <1>2, <2>1, <4>1
        <4>3. Sums(f)[s \ {x}] = f[y] + a
          BY <1>2, <4>1
        <4>4. a \in Int
          <5>1. (s \ {y}) \ {x} \in SUBSET S
            OBVIOUS
          <5> QED
            BY <5>1, <1>t
        <4> HIDE DEF a
        <4>5. f[x] \in Int /\ f[y] \in Int
          BY <2>1
        <4> QED
          BY <2>1, <4>2, <4>3, <4>4, <4>5, SMT
      <3> QED
        BY <3>1, <3>2
    <2> QED
      BY <2>2
  <1>3. \A s \in SUBSET S : s \in P
    <2> HIDE DEF P
    <2> QED
      BY <1>1, <1>2, SubsetInduction
  <1> QED
    BY <1>3 DEF AnyOrder

\* Two functions with the same values on T.
Agree(f, g, T) == \A x \in T : g[x] = f[x]

\* The sum over a part is the same as within the whole.
LEMMA SumPart ==
    ASSUME NEW S, IsFiniteSet(S), NEW f \in [S -> Int], NEW T \in SUBSET S,
           NEW g \in [T -> Int], Agree(f, g, T)
    PROVE  Sums(g)[T] = Sums(f)[T]
  <1> DEFINE P == {s \in SUBSET T : Sums(g)[s] = Sums(f)[s]}
  <1>0. IsFiniteSet(T)
    BY FS_Subset
  <1>s. \A s \in SUBSET S : s # {} =>
           Pick(s) \in s /\ Sums(f)[s] = f[Pick(s)] + Sums(f)[s \ {Pick(s)}]
    BY SumStep
  <1>t. \A s \in SUBSET T : s # {} =>
           Pick(s) \in s /\ Sums(g)[s] = g[Pick(s)] + Sums(g)[s \ {Pick(s)}]
    BY <1>0, SumStep
  <1>1. {} \in P
    <2>1. Sums(g)[{}] = 0 /\ Sums(f)[{}] = 0
      BY <1>0, SumEmpty
    <2> QED
      BY <2>1
  <1>2. ASSUME NEW s \in SUBSET T, s # {}, \A x \in s : s \ {x} \in P
        PROVE  s \in P
    <2> DEFINE x == Pick(s)
    <2>1. x \in s /\ Sums(g)[s] = g[x] + Sums(g)[s \ {x}]
      BY <1>2, <1>t
    <2>2. s \in SUBSET S
      OBVIOUS
    <2>3. Sums(f)[s] = f[x] + Sums(f)[s \ {x}]
      BY <1>2, <2>2, <1>s
    <2>4. Sums(g)[s \ {x}] = Sums(f)[s \ {x}] /\ g[x] = f[x]
      BY <1>2, <2>1 DEF Agree
    <2> QED
      BY <2>1, <2>3, <2>4
  <1>3. \A s \in SUBSET T : s \in P
    <2> HIDE DEF P
    <2> QED
      BY <1>0, <1>1, <1>2, SubsetInduction
  <1>4. T \in SUBSET T
    OBVIOUS
  <1> QED
    BY <1>3, <1>4

\* A sum of naturals is a natural, and no less than each of them.
LEMMA SumBounds ==
    ASSUME NEW S, IsFiniteSet(S), NEW f \in [S -> Int], \A c \in S : f[c] >= 0
    PROVE  \A s \in SUBSET S : Sums(f)[s] \in Nat /\ \A c \in s : f[c] <= Sums(f)[s]
  <1> DEFINE P == {s \in SUBSET S : Sums(f)[s] \in Nat /\ \A c \in s : f[c] <= Sums(f)[s]}
  <1>s. \A s \in SUBSET S : s # {} =>
           Pick(s) \in s /\ Sums(f)[s] = f[Pick(s)] + Sums(f)[s \ {Pick(s)}]
    BY SumStep
  <1>1. {} \in P
    <2>1. Sums(f)[{}] = 0 /\ 0 \in Nat
      BY SumEmpty
    <2> QED
      BY <2>1
  <1>2. ASSUME NEW s \in SUBSET S, s # {}, \A x \in s : s \ {x} \in P
        PROVE  s \in P
    <2> DEFINE x == Pick(s)
               a == Sums(f)[s \ {x}]
    <2>1. x \in s /\ Sums(f)[s] = f[x] + a
      BY <1>2, <1>s
    <2>2. a \in Nat /\ \A c \in s \ {x} : f[c] <= a
      BY <1>2, <2>1
    <2> HIDE DEF x, a
    <2>3. f[x] \in Nat
      BY <2>1, SMT
    <2>4. f[x] + a \in Nat /\ f[x] <= f[x] + a
      BY <2>2, <2>3, SMT
    <2>5. ASSUME NEW c \in s PROVE f[c] <= f[x] + a
      <3>1. CASE c = x
        BY <2>4, <3>1
      <3>2. CASE c # x
        <4>1. f[c] <= a /\ f[c] \in Int
          BY <2>2, <3>2
        <4> QED
          BY <2>2, <2>3, <4>1, SMT
      <3> QED
        BY <3>1, <3>2
    <2> QED
      BY <2>1, <2>4, <2>5
  <1>3. \A s \in SUBSET S : s \in P
    <2> HIDE DEF P
    <2> QED
      BY <1>1, <1>2, SubsetInduction
  <1> QED
    BY <1>3

\* Min finds the smallest of some indices.
LEMMA MinIn ==
    ASSUME NEW n \in Nat, NEW s \in SUBSET (1..n), s # {}
    PROVE  Min(s) \in s /\ \A y \in s : Min(s) <= y
  <1>1. s \in SUBSET Nat
    BY SMT
  <1>2. \E m \in s : \A k \in s : m <= k
    BY <1>1, LeastNatural
  <1> QED
    BY <1>2 DEF Min

\* Sequence t is s with e behind it.
Longer(t, s, e) ==
    /\ Len(s) \in Nat /\ Len(t) = Len(s) + 1
    /\ \A i \in DOMAIN t : (i = Len(s) + 1 /\ t[i] = e) \/ (i \in DOMAIN s /\ t[i] = s[i])
    /\ Len(s) + 1 \in DOMAIN t /\ t[Len(s) + 1] = e
    /\ \A i \in DOMAIN s : i \in DOMAIN t /\ i # Len(s) + 1 /\ t[i] = s[i]

\* Append puts one element behind a sequence.
LEMMA Appended ==
    ASSUME NEW T, NEW s \in Seq(T), NEW e \in T
    PROVE  Longer(Append(s, e), s, e)
  BY SMT DEF Longer

\* n different elements of T other than x: n is less than the size of T.
LEMMA FewerThan ==
    ASSUME NEW T, IsFiniteSet(T), NEW x \in T, NEW m \in Nat, Cardinality(T) <= m,
           NEW n \in Nat, NEW f \in [1..n -> T \ {x}], \A i, j \in 1..n : f[i] = f[j] => i = j
    PROVE  n < m
  <1>1. Cardinality(T) \in Nat /\ IsFiniteSet(T \ {x})
    BY FS_CardinalityType, FS_RemoveElement
  <1>2. Cardinality(T \ {x}) = Cardinality(T) - 1
    <2>1. Cardinality(T \ {x}) = IF x \in T THEN Cardinality(T) - 1 ELSE Cardinality(T)
      BY FS_RemoveElement
    <2> QED
      BY <2>1
  <1>3. IsFiniteSet(1..n) /\ Cardinality(1..n) = n
    <2>1. IsFiniteSet(1..n) /\ Cardinality(1..n) = IF 1 > n THEN 0 ELSE n - 1 + 1
      BY FS_Interval, SMT
    <2> QED
      BY <2>1, SMT
  <1>4. ~(Cardinality(T \ {x}) < Cardinality(1..n))
    <2>1. SUFFICES ASSUME Cardinality(T \ {x}) < Cardinality(1..n) PROVE FALSE
      OBVIOUS
    <2> DEFINE S == 1..n
               U == T \ {x}
    <2>2. IsFiniteSet(S) /\ IsFiniteSet(U) /\ Cardinality(U) < Cardinality(S) /\ f \in [S -> U]
      BY <1>1, <1>3, <2>1
    <2>3. \E i, j \in S : i # j /\ f[i] = f[j]
      <3> HIDE DEF S, U
      <3> QED
        BY <2>2, FS_PigeonHole, SMT
    <2> QED
      BY <2>3
  <1> QED
    BY <1>1, <1>2, <1>3, <1>4, SMT

\* The values of f on S, and that no two of them are the same.
Image(f, S) == {f[x] : x \in S}

OneToOne(f, S) == \A a, b \in S : f[a] = f[b] => a = b

\* As many images as arguments, if no two have the same.
LEMMA ImageSize ==
    ASSUME NEW S, IsFiniteSet(S), NEW f, OneToOne(f, S)
    PROVE  Cardinality(Image(f, S)) = Cardinality(S)
  <1> DEFINE g == [x \in S |-> f[x]]
             I == Image(f, S)
  <1>1. g \in Surjection(S, I)
    BY DEF Surjection, Image
  <1>2. g \in Injection(S, I)
    BY DEF Injection, IsInjective, Image, OneToOne
  <1> HIDE DEF g
  <1> QED
    BY <1>1, <1>2, FS_Surjection

\* No more images than arguments.
LEMMA FewImages ==
    ASSUME NEW S, IsFiniteSet(S), NEW f
    PROVE  IsFiniteSet(Image(f, S)) /\ Cardinality(Image(f, S)) <= Cardinality(S)
  <1> DEFINE g == [x \in S |-> f[x]]
             I == Image(f, S)
  <1>1. g \in Surjection(S, I)
    BY DEF Surjection, Image
  <1> HIDE DEF g
  <1> QED
    BY <1>1, FS_Surjection

\* The length of the Top-N does not exceed the number of candidates.
LEMMA LeastOfThree ==
    ASSUME NEW a \in Nat, NEW b \in Nat, NEW c \in Nat
    PROVE  LET m == Min({a, b, c}) IN m \in Nat /\ m <= a
  <1> DEFINE s == {a, b, c}
  <1>1. \E m \in s : \A y \in s : m <= y
    BY LeastNatural
  <1>2. Min(s) \in s /\ \A y \in s : Min(s) <= y
    <2> HIDE DEF s
    <2> QED
      BY <1>1 DEF Min
  <1> HIDE DEF s
  <1>3. \A y \in s : y \in Nat
    BY DEF s
  <1>4. a \in s
    BY DEF s
  <1>5. Min(s) \in Nat /\ Min(s) <= a
    BY <1>2, <1>3, <1>4
  <1> QED
    BY <1>5 DEF s
=============================================================================
