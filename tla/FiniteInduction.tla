---------------------------- MODULE FiniteInduction ----------------------------
(***************************************************************************)
(* Induction without a predicate as a parameter: what the proofs of the    *)
(* components need of finite sets and of sets of numbers.  A proof by      *)
(* induction takes the set of counterexamples, and from it a smallest one. *)
(***************************************************************************)
EXTENDS FiniteSetsExt, FiniteSetTheorems, WellFoundedInduction, TLAPS

\* Among finite sets one is minimal.
LEMMA FiniteMin ==
    ASSUME NEW S, NEW F \in SUBSET FiniteSubsetsOf(S), F # {}
    PROVE  \E A \in F : \A B \in F : B \subseteq A => B = A
<1>1. PICK A \in F : \A B \in F : ~ (<<B, A>> \in StrictSubsetOrdering(S))
  BY WFMin, FS_StrictSubsetOrderingWellFounded
<1>2. \A B \in F : B \subseteq A => B = A
  BY <1>1 DEF StrictSubsetOrdering, FiniteSubsetsOf
<1> QED
  BY <1>2

\* Of the subsets of a finite set that lack a property one is minimal.
LEMMA SmallestSubset ==
    ASSUME NEW S, IsFiniteSet(S), NEW F \in SUBSET SUBSET S, F # {}
    PROVE  \E A \in F : /\ IsFiniteSet(A)
                        /\ \A B \in SUBSET A : B # A => B \notin F
<1>1. \A A \in F : IsFiniteSet(A)
  BY FS_Subset
<1>2. F \in SUBSET FiniteSubsetsOf(S)
  BY <1>1 DEF FiniteSubsetsOf
<1>3. PICK A \in F : \A B \in F : B \subseteq A => B = A
  BY <1>2, FiniteMin
<1> QED
  BY <1>1, <1>3

\* Of numbers one is least.
LEMMA LeastNat ==
    ASSUME NEW T \in SUBSET Nat, T # {}
    PROVE  \E m \in T : \A k \in T : m <= k
<1> DEFINE F == {0 .. k : k \in T}
<1>1. ASSUME NEW A \in F PROVE A \in FiniteSubsetsOf(Nat)
  <2>1. PICK k \in T : A = 0 .. k
    OBVIOUS
  <2>2. k \in Int
    OBVIOUS
  <2>3. IsFiniteSet(0 .. k)
    BY <2>2, FS_Interval
  <2> QED
    BY <2>1, <2>3 DEF FiniteSubsetsOf
<1>2. F # {}
  OBVIOUS
<1>3. \A A \in F : \E m \in T : A = 0 .. m
  OBVIOUS
<1>4. \A k \in T : 0 .. k \in F
  OBVIOUS
<1> HIDE DEF F
<1>5. PICK A \in F : \A B \in F : B \subseteq A => B = A
  BY <1>1, <1>2, FiniteMin
<1>6. PICK m \in T : A = 0 .. m
  BY <1>3
<1>7. ASSUME NEW k \in T, k < m PROVE FALSE
  <2>1. 0 .. k \subseteq A /\ m \in A /\ m \notin 0 .. k
    BY <1>6, <1>7
  <2> QED
    BY <1>4, <1>5, <2>1
<1> QED
  BY <1>7

\* Induction over numbers, with a set in the place of the predicate.
LEMMA NatSet ==
    ASSUME NEW T, 0 \in T, \A n \in Nat : n \in T => n + 1 \in T
    PROVE  Nat \subseteq T
<1> SUFFICES ASSUME Nat \ T # {} PROVE FALSE
  OBVIOUS
<1>1. PICK m \in Nat \ T : \A k \in Nat \ T : m <= k
  BY LeastNat
<1>2. m # 0 /\ m - 1 \in Nat /\ m - 1 + 1 = m
  BY <1>1
<1>3. m - 1 \in T
  BY <1>1, <1>2
<1> QED
  BY <1>2, <1>3

\* A bounded set of numbers has a greatest, which is what Max gives.
LEMMA MaxOfNats ==
    ASSUME NEW T \in SUBSET Nat, T # {}, NEW b \in Nat, \A k \in T : k <= b
    PROVE  Max(T) \in T /\ \A k \in T : Max(T) >= k
<1> DEFINE U == {n \in Nat : \A k \in T : k <= n}
<1>1. PICK m \in U : \A n \in U : m <= n
  BY LeastNat
<1>2. m \in T
  <2> SUFFICES ASSUME m \notin T PROVE FALSE
    OBVIOUS
  <2>1. \A k \in T : k < m
    BY <1>1
  <2>2. m # 0 /\ m - 1 \in Nat
    <3>1. PICK k \in T : TRUE
      OBVIOUS
    <3>2. m \in Nat /\ k \in Nat /\ k < m
      BY <1>1, <2>1, <3>1
    <3> QED
      BY <3>2
  <2>3. m - 1 \in U
    BY <2>1, <2>2
  <2> QED
    BY <1>1, <2>3
<1>3. \E x \in T : \A y \in T : x >= y
  BY <1>1, <1>2
<1> QED
  BY <1>3 DEF Max

\* The first number of a set.
LEMMA MinOfNats ==
    ASSUME NEW T \in SUBSET Nat, T # {}
    PROVE  Min(T) \in T /\ \A k \in T : Min(T) <= k
<1>1. \E x \in T : \A y \in T : x <= y
  BY LeastNat
<1> QED
  BY <1>1 DEF Min

----------------------------------------------------------------------------
(* Sums over finite sets.                                                  *)

AnyOf(s) == CHOOSE x \in s : TRUE

\* g takes any element out first.
AnyOrder(f, S, g) == \A s \in SUBSET S : \A x \in s : g[s] = f[x] + g[s \ {x}]

\* One step of the sum of f over a set, in the order of CHOOSE.
SumStep(f, S, g) ==
    [s \in SUBSET S |-> IF s = {} THEN 0 ELSE f[AnyOf(s)] + g[s \ {AnyOf(s)}]]

\* MapThenSumSet(LAMBDA x : f[x], S), as its definition has it.
Total(f, S) == (CHOOSE g : g = SumStep(f, S, g))[S]

\* The recursion of a sum has a solution.
LEMMA SumExists ==
    ASSUME NEW S, IsFiniteSet(S), NEW f \in [S -> Int]
    PROVE  \E g \in [SUBSET S -> Int] : g = SumStep(f, S, g)
<1> DEFINE Rule(g, s) == IF s = {} THEN 0 ELSE f[AnyOf(s)] + g[s \ {AnyOf(s)}]
           D(n)       == {s \in SUBSET S : Cardinality(s) <= n}
           T          == {n \in Nat : \E g \in [D(n) -> Int] : \A s \in D(n) : g[s] = Rule(g, s)}
<1>1. ASSUME NEW s \in SUBSET S
      PROVE  IsFiniteSet(s) /\ Cardinality(s) \in Nat /\ Cardinality(s) <= Cardinality(S)
  BY FS_Subset, FS_CardinalityType
<1>2. ASSUME NEW s \in SUBSET S, s # {}
      PROVE  /\ AnyOf(s) \in s /\ f[AnyOf(s)] \in Int /\ s \ {AnyOf(s)} \in SUBSET S
             /\ Cardinality(s) >= 1 /\ Cardinality(s \ {AnyOf(s)}) = Cardinality(s) - 1
  <2>1. AnyOf(s) \in s
    BY <1>2 DEF AnyOf
  <2>2. Cardinality(s) # 0 /\ Cardinality(s \ {AnyOf(s)}) = Cardinality(s) - 1
    BY <1>1, <1>2, <2>1, FS_EmptySet, FS_RemoveElement
  <2> QED
    BY <1>1, <2>1, <2>2
<1>3. Cardinality({}) = 0
  BY FS_EmptySet
<1>4. 0 \in T
  <2> DEFINE g == [s \in D(0) |-> 0]
  <2>1. \A s \in D(0) : s = {}
    <3>1. ASSUME NEW s \in D(0), s # {} PROVE FALSE
      <4>1. s \in SUBSET S /\ Cardinality(s) <= 0
        BY <3>1
      <4>2. Cardinality(s) \in Nat /\ Cardinality(s) >= 1
        BY <1>1, <1>2, <3>1, <4>1
      <4> QED
        BY <4>1, <4>2
    <3> QED
      BY <3>1
  <2>2. g \in [D(0) -> Int] /\ \A s \in D(0) : g[s] = Rule(g, s)
    BY <2>1
  <2> QED
    BY <2>2
<1>5. ASSUME NEW n \in Nat, n \in T PROVE n + 1 \in T
  <2>1. PICK g \in [D(n) -> Int] : \A s \in D(n) : g[s] = Rule(g, s)
    BY <1>5
  <2>2. ASSUME NEW s \in D(n + 1), s # {} PROVE s \ {AnyOf(s)} \in D(n)
    <3>1. s \in SUBSET S /\ Cardinality(s) <= n + 1
      BY <2>2
    <3>2. s \ {AnyOf(s)} \in SUBSET S /\ Cardinality(s \ {AnyOf(s)}) <= n
      BY <1>1, <1>2, <2>2, <3>1
    <3> QED
      BY <3>2
  <2>3. \A s \in D(n) : s \in D(n + 1)
    <3>1. ASSUME NEW s \in D(n) PROVE s \in D(n + 1)
      <4>1. s \in SUBSET S /\ Cardinality(s) <= n
        OBVIOUS
      <4>2. Cardinality(s) <= n + 1
        BY <1>1, <4>1
      <4> QED
        BY <4>1, <4>2
    <3> QED
      BY <3>1
  <2> DEFINE h == [s \in D(n + 1) |-> Rule(g, s)]
  <2>4. \A s \in D(n + 1) : Rule(g, s) \in Int
    <3>1. ASSUME NEW s \in D(n + 1), s # {} PROVE f[AnyOf(s)] \in Int /\ g[s \ {AnyOf(s)}] \in Int
      <4>1. s \in SUBSET S
        OBVIOUS
      <4>2. s \ {AnyOf(s)} \in D(n)
        BY <2>2, <3>1
      <4> HIDE DEF D
      <4> QED
        BY <1>2, <2>1, <3>1, <4>1, <4>2
    <3> QED
      BY <3>1
  <2>5. h \in [D(n + 1) -> Int]
    BY <2>4
  <2>6. \A s \in D(n) : h[s] = g[s]
    <3> HIDE DEF D, Rule
    <3> QED
      BY <2>1, <2>3
  <2>7. \A s \in D(n + 1) : h[s] = Rule(h, s)
    <3> SUFFICES ASSUME NEW s \in D(n + 1) PROVE Rule(g, s) = Rule(h, s)
      OBVIOUS
    <3>1. CASE s = {}
      BY <3>1
    <3>2. CASE s # {}
      <4>1. h[s \ {AnyOf(s)}] = g[s \ {AnyOf(s)}]
        <5> HIDE DEF h, D
        <5> QED
          BY <2>2, <2>6, <3>2
      <4> HIDE DEF h
      <4> QED
        BY <3>2, <4>1
    <3> QED
      BY <3>1, <3>2
  <2> HIDE DEF h, D, Rule
  <2>8. \E k \in [D(n + 1) -> Int] : \A s \in D(n + 1) : k[s] = Rule(k, s)
    BY <2>5, <2>7
  <2> QED
    BY <2>8
<1> HIDE DEF T
<1>6. Nat \subseteq T
  BY <1>4, <1>5, NatSet
<1>7. PICK N \in Nat : N = Cardinality(S)
  BY FS_CardinalityType
<1>8. PICK g \in [D(N) -> Int] : \A s \in D(N) : g[s] = Rule(g, s)
  BY <1>6 DEF T
<1>9. D(N) = SUBSET S
  BY <1>1, <1>7
<1>10. g = SumStep(f, S, g)
  <2> HIDE DEF D
  <2>1. g = [s \in SUBSET S |-> g[s]]
    BY <1>8, <1>9
  <2>2. \A s \in SUBSET S : g[s] = IF s = {} THEN 0 ELSE f[AnyOf(s)] + g[s \ {AnyOf(s)}]
    BY <1>8, <1>9
  <2> QED
    BY <2>1, <2>2, Zenon DEF SumStep
<1> QED
  BY <1>8, <1>9, <1>10

\* What the recursion gives, one step at a time.
LEMMA SumEmpty ==
    ASSUME NEW S, NEW f, NEW g, g = SumStep(f, S, g)
    PROVE  g[{}] = 0
<1>1. g = [s \in SUBSET S |-> IF s = {} THEN 0 ELSE f[AnyOf(s)] + g[s \ {AnyOf(s)}]]
  BY Zenon DEF SumStep
<1>2. {} \in SUBSET S
  OBVIOUS
<1> QED
  BY <1>1, <1>2, Zenon

LEMMA SumRule ==
    ASSUME NEW S, NEW f, NEW g, g = SumStep(f, S, g), NEW s \in SUBSET S, s # {}
    PROVE  \E x \in s : x = AnyOf(s) /\ g[s] = f[x] + g[s \ {x}]
<1>1. g = [t \in SUBSET S |-> IF t = {} THEN 0 ELSE f[AnyOf(t)] + g[t \ {AnyOf(t)}]]
  BY Zenon DEF SumStep
<1>2. g[s] = f[AnyOf(s)] + g[s \ {AnyOf(s)}]
  BY <1>1, Zenon
<1>3. AnyOf(s) \in s
  BY DEF AnyOf
<1> QED
  BY <1>2, <1>3

\* It has one solution, whatever the set that it is taken over.
LEMMA SumUnique ==
    ASSUME NEW S, NEW A \in SUBSET S, IsFiniteSet(A), NEW f, NEW g, NEW h,
           g = SumStep(f, S, g), h = SumStep(f, A, h)
    PROVE  h[A] = g[A]
<1> SUFFICES \A s \in SUBSET A : h[s] = g[s]
  OBVIOUS
<1>1. g = SumStep(f, S, g) /\ h = SumStep(f, A, h)
  OBVIOUS
<1>2. g[{}] = 0 /\ h[{}] = 0
  <2>1. g[{}] = 0
    BY <1>1, SumEmpty
  <2>2. h[{}] = 0
    BY <1>1, SumEmpty
  <2> QED
    BY <2>1, <2>2
<1> DEFINE F == {s \in SUBSET A : h[s] # g[s]}
<1> SUFFICES ASSUME F # {} PROVE FALSE
  OBVIOUS
<1>3. F \in SUBSET SUBSET A /\ F # {} /\ \A t \in SUBSET A : t \in F <=> h[t] # g[t]
  OBVIOUS
<1> HIDE DEF F
<1>4. PICK s \in F : \A B \in SUBSET s : B # s => B \notin F
  BY <1>3, SmallestSubset
<1>5. s \in SUBSET A /\ h[s] # g[s]
  BY <1>3
<1>6. s # {}
  BY <1>2, <1>5
<1>7. PICK x \in s : x = AnyOf(s) /\ g[s] = f[x] + g[s \ {x}]
  <2>1. s \in SUBSET S
    BY <1>5
  <2> QED
    BY <1>1, <1>6, <2>1, SumRule
<1>8. h[s] = f[x] + h[s \ {x}]
  <2>1. \E y \in s : y = AnyOf(s) /\ h[s] = f[y] + h[s \ {y}]
    BY <1>1, <1>5, <1>6, SumRule
  <2> QED
    BY <1>7, <2>1
<1>9. s \ {x} \in SUBSET s /\ s \ {x} # s /\ s \ {x} \in SUBSET A
  BY <1>5
<1>10. h[s \ {x}] = g[s \ {x}]
  BY <1>3, <1>4, <1>9
<1> QED
  BY <1>5, <1>7, <1>8, <1>10

\* The order does not matter: any element may be taken out first.
LEMMA SumAnyOrder ==
    ASSUME NEW S, IsFiniteSet(S), NEW f \in [S -> Int]
    PROVE  \E g \in [SUBSET S -> Int] :
              g = SumStep(f, S, g) /\ AnyOrder(f, S, g)
<1>1. PICK g \in [SUBSET S -> Int] : g = SumStep(f, S, g)
  BY SumExists
<1> DEFINE F == {s \in SUBSET S : \E x \in s : g[s] # f[x] + g[s \ {x}]}
<1> SUFFICES ASSUME F # {} PROVE FALSE
  BY <1>1 DEF AnyOrder
<1>2. /\ F \in SUBSET SUBSET S /\ F # {}
      /\ \A t \in SUBSET S : t \in F <=> \E x \in t : g[t] # f[x] + g[t \ {x}]
  OBVIOUS
<1> HIDE DEF F
<1>3. PICK s \in F : \A B \in SUBSET s : B # s => B \notin F
  BY <1>2, SmallestSubset
<1>4. PICK x \in s : g[s] # f[x] + g[s \ {x}]
  BY <1>2
<1>5. s \in SUBSET S /\ s # {}
  BY <1>2
<1>6. PICK y \in s : g[s] = f[y] + g[s \ {y}]
  BY <1>1, <1>5, SumRule
<1>7. x # y /\ x \in s \ {y} /\ y \in s \ {x}
  BY <1>4, <1>6
<1>8. /\ s \ {x} \in SUBSET S /\ s \ {y} \in SUBSET S
      /\ s \ {x} \notin F /\ s \ {y} \notin F
  BY <1>3, <1>5
<1>9. /\ g[s \ {y}] = f[x] + g[(s \ {y}) \ {x}]
      /\ g[s \ {x}] = f[y] + g[(s \ {x}) \ {y}]
  BY <1>2, <1>7, <1>8
<1>10. (s \ {y}) \ {x} = (s \ {x}) \ {y} /\ (s \ {x}) \ {y} \in SUBSET S
  BY <1>5
<1>11. f[x] \in Int /\ f[y] \in Int
  BY <1>5
<1>12. PICK r \in Int : r = g[(s \ {x}) \ {y}]
  BY <1>10
<1>13. g[s] = f[y] + (f[x] + r) /\ f[x] + g[s \ {x}] = f[x] + (f[y] + r)
  BY <1>6, <1>9, <1>10, <1>12
<1> QED
  BY <1>4, <1>11, <1>12, <1>13

\* Sums of f over the subsets of a finite set.
LEMMA SumsOf ==
    ASSUME NEW S, IsFiniteSet(S), NEW f \in [S -> Int]
    PROVE  \E g \in [SUBSET S -> Int] :
              /\ g[{}] = 0 /\ AnyOrder(f, S, g)
              /\ \A s \in SUBSET S : Total(f, s) = g[s]
<1>1. PICK g \in [SUBSET S -> Int] :
         g = SumStep(f, S, g) /\ AnyOrder(f, S, g)
  BY SumAnyOrder
<1>2. g[{}] = 0
  BY <1>1, SumEmpty
<1>3. ASSUME NEW s \in SUBSET S
      PROVE  Total(f, s) = g[s]
  <2>1. PICK k : k = [x \in s |-> f[x]]
    OBVIOUS
  <2>2. IsFiniteSet(s) /\ k \in [s -> Int]
    BY <2>1, FS_Subset
  <2>3. PICK h \in [SUBSET s -> Int] : h = SumStep(k, s, h)
    BY <2>2, SumExists
  <2>4. h = SumStep(f, s, h)
    <3>1. ASSUME NEW t \in SUBSET s, t # {} PROVE k[AnyOf(t)] = f[AnyOf(t)]
      <4>1. AnyOf(t) \in t
        BY <3>1 DEF AnyOf
      <4> QED
        BY <2>1, <4>1
    <3>2. h = [t \in SUBSET s |-> IF t = {} THEN 0 ELSE k[AnyOf(t)] + h[t \ {AnyOf(t)}]]
      BY <2>3, Zenon DEF SumStep
    <3>3. h = [t \in SUBSET s |-> IF t = {} THEN 0 ELSE f[AnyOf(t)] + h[t \ {AnyOf(t)}]]
      BY <3>1, <3>2
    <3> QED
      BY <3>3, Zenon DEF SumStep
  <2>5. PICK i : i = (CHOOSE j : j = SumStep(f, s, j))
    OBVIOUS
  <2>6. i = SumStep(f, s, i)
    BY <2>4, <2>5, Zenon
  <2>7. i[s] = g[s]
    <3>1. g = SumStep(f, S, g) /\ IsFiniteSet(s)
      BY <1>1, <2>2
    <3> QED
      BY <2>6, <3>1, SumUnique
  <2> QED
    BY <2>5, <2>7 DEF Total
<1> QED
  BY <1>1, <1>2, <1>3
================================================================================
