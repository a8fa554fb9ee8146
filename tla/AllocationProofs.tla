-------------------------- MODULE AllocationProofs --------------------------
(* Proofs about the operators of BpsAllocation, for every finite sequence  *)
(* of weights, every unit and every total.  SumOf is a fold that removes   *)
(* chosen elements one at a time; what it computes is proved by choosing   *)
(* a smallest set of indices for which a claim would fail.                 *)
EXTENDS BpsAllocation, FiniteSetTheorems, TLAPS

(***************************************************************************)
(* Induction over the subsets of a finite set, as a statement about a set  *)
(* Good of subsets.                                                        *)
(***************************************************************************)
Inductive(Good, D) ==
    \A T \in SUBSET D : (\A U \in SUBSET T : U # T => U \in Good) => T \in Good

LEMMA SubsetInduction ==
    ASSUME NEW D, IsFiniteSet(D), NEW Good, Inductive(Good, D)
    PROVE  \A T \in SUBSET D : T \in Good
<1> SUFFICES ASSUME (SUBSET D) \ Good # {} PROVE FALSE
  OBVIOUS
<1> DEFINE R == StrictSubsetOrdering(D)
           Bad == (SUBSET D) \ Good
<1>1. IsWellFoundedOn(R, SUBSET D)
  <2>1. IsWellFoundedOn(StrictSubsetOrdering(D), FiniteSubsetsOf(D))
    BY FS_StrictSubsetOrderingWellFounded
  <2>2. FiniteSubsetsOf(D) = SUBSET D
    BY FS_FiniteSubsetsOfFinite
  <2> QED
    BY <2>1, <2>2, Zenon
<1>2. PICK T \in Bad : \A U \in Bad : <<U, T>> \notin R
  <2> HIDE DEF R
  <2>1. Bad \subseteq SUBSET D /\ Bad # {}
    OBVIOUS
  <2> HIDE DEF Bad
  <2> QED
    BY <1>1, <2>1, WFMin
<1>3. \A U \in SUBSET T : U # T => U \in Good
  <2> SUFFICES ASSUME NEW U \in SUBSET T, U # T, U \notin Good PROVE FALSE
    OBVIOUS
  <2>1. <<U, T>> \in R
    BY DEF StrictSubsetOrdering
  <2> QED
    BY <1>2, <2>1
<1> QED
  BY <1>3 DEF Inductive

(***************************************************************************)
(* The function over sets of indices that SumOf folds with.                *)
(***************************************************************************)
Chosen(T) == CHOOSE x \in T : TRUE

IsSum(g, f, D) ==
    g = [T \in SUBSET D |-> IF T = {} THEN 0 ELSE f[Chosen(T)] + g[T \ {Chosen(T)}]]

LEMMA ChosenIn ==
    ASSUME NEW T, T # {}
    PROVE  Chosen(T) \in T
BY DEF Chosen

LEMMA SumIsFold ==
    ASSUME NEW f
    PROVE  SumOf(f) = (CHOOSE g : IsSum(g, f, DOMAIN f))[DOMAIN f]
BY DEF SumOf, FoldFunction, FoldFunctionOnSet, MapThenFoldSet, IsSum, Chosen

(* Two such functions agree wherever both are defined.                     *)
LEMMA SumsAgree ==
    ASSUME NEW f, NEW D, NEW E, NEW g, NEW h, IsSum(g, f, D), IsSum(h, f, E),
           NEW S \in SUBSET (D \cap E), IsFiniteSet(S)
    PROVE  g[S] = h[S]
<1> DEFINE Good == {T \in SUBSET S : g[T] = h[T]}
<1>1. ASSUME NEW T \in SUBSET S, \A U \in SUBSET T : U # T => U \in Good
      PROVE  T \in Good
  <2>1. CASE T = {}
    BY <2>1 DEF IsSum
  <2>2. CASE T # {}
    <3>1. Chosen(T) \in T
      BY <2>2, ChosenIn
    <3>2. T \ {Chosen(T)} \in Good
      BY <1>1, <3>1
    <3>3. T \in SUBSET D /\ T \in SUBSET E
      OBVIOUS
    <3>4. g[T] = f[Chosen(T)] + g[T \ {Chosen(T)}]
      BY <2>2, <3>3 DEF IsSum
    <3>5. h[T] = f[Chosen(T)] + h[T \ {Chosen(T)}]
      BY <2>2, <3>3 DEF IsSum
    <3> QED
      BY <3>2, <3>4, <3>5
  <2> QED
    BY <2>1, <2>2
<1> HIDE DEF Good
<1>1a. Inductive(Good, S)
  BY <1>1 DEF Inductive
<1>2. \A T \in SUBSET S : T \in Good
  BY <1>1a, SubsetInduction
<1> QED
  BY <1>2 DEF Good

(* There is one over any finite set of indices.                            *)
LEMMA SumExists ==
    ASSUME NEW f, NEW D, IsFiniteSet(D)
    PROVE  \E g : IsSum(g, f, D)
<1> DEFINE Good == {T \in SUBSET D : \E g : IsSum(g, f, T)}
           s(V) == (CHOOSE g : IsSum(g, f, V))[V]
<1>1. ASSUME NEW T \in SUBSET D, \A U \in SUBSET T : U # T => U \in Good
      PROVE  T \in Good
  <2>1. PICK before : before = [V \in SUBSET T |-> s(V)]
    OBVIOUS
  <2>2. PICK c : c = Chosen(T)
    OBVIOUS
  <2>3. PICK g : g = [V \in SUBSET T |->
                         IF V = T /\ T # {} THEN f[c] + before[T \ {c}] ELSE before[V]]
    OBVIOUS
  <2>4. \A V \in SUBSET T : V # T => IsSum(CHOOSE h : IsSum(h, f, V), f, V)
    BY <1>1
  <2>5. \A V \in SUBSET T : V # T =>
            before[V] = IF V = {} THEN 0 ELSE f[Chosen(V)] + before[V \ {Chosen(V)}]
    <3> SUFFICES ASSUME NEW V \in SUBSET T, V # T
                 PROVE  before[V] = IF V = {} THEN 0
                                    ELSE f[Chosen(V)] + before[V \ {Chosen(V)}]
      OBVIOUS
    <3>1. PICK h : h = CHOOSE k : IsSum(k, f, V)
      OBVIOUS
    <3>2. IsSum(h, f, V) /\ before[V] = h[V]
      BY <2>1, <2>4, <3>1
    <3>3. CASE V = {}
      BY <3>2, <3>3 DEF IsSum
    <3>4. CASE V # {}
      <4>1. PICK W : W = V \ {Chosen(V)}
        OBVIOUS
      <4>2. W \in SUBSET V /\ W # V /\ W \in SUBSET T /\ W # T
        BY <3>4, <4>1, ChosenIn
      <4>3. PICK k : k = CHOOSE j : IsSum(j, f, W)
        OBVIOUS
      <4>4. IsSum(k, f, W) /\ before[W] = k[W]
        BY <2>1, <2>4, <4>2, <4>3
      <4>5. IsFiniteSet(W)
        BY <4>2, FS_Subset
      <4>6. h[W] = k[W]
        BY <3>2, <4>2, <4>4, <4>5, SumsAgree
      <4>7. h[V] = f[Chosen(V)] + h[W]
        BY <3>2, <3>4, <4>1 DEF IsSum
      <4> QED
        BY <3>2, <3>4, <4>1, <4>4, <4>6, <4>7
    <3> QED
      BY <3>3, <3>4
  <2>6. IsSum(g, f, T)
    <3>1. ASSUME NEW V \in SUBSET T
          PROVE  g[V] = IF V = {} THEN 0 ELSE f[Chosen(V)] + g[V \ {Chosen(V)}]
      <4>1. CASE V = {}
        <5>1. g[V] = before[V]
          BY <2>3, <4>1
        <5>2. CASE T # {}
          BY <2>5, <4>1, <5>1, <5>2
        <5>3. CASE T = {}
          <6>1. \E k : IsSum(k, f, {})
            <7>1. IsSum([V1 \in SUBSET {} |-> 0], f, {})
              BY DEF IsSum
            <7> QED
              BY <7>1
          <6>2. PICK h : h = CHOOSE k : IsSum(k, f, {})
            OBVIOUS
          <6>3. IsSum(h, f, {}) /\ before[V] = h[{}]
            BY <2>1, <4>1, <6>1, <6>2
          <6> QED
            BY <4>1, <5>1, <6>3 DEF IsSum
        <5> QED
          BY <5>2, <5>3
      <4>2. CASE V # {}
        <5>1. Chosen(V) \in V /\ V \ {Chosen(V)} # V /\ V \ {Chosen(V)} # T
          BY <4>2, ChosenIn
        <5>2. g[V \ {Chosen(V)}] = before[V \ {Chosen(V)}]
          BY <2>3, <5>1
        <5>3. g[V] = f[Chosen(V)] + before[V \ {Chosen(V)}]
          BY <2>2, <2>3, <2>5, <4>2
        <5> QED
          BY <4>2, <5>2, <5>3
      <4> QED
        BY <4>1, <4>2
    <3>2. g = [V \in SUBSET T |-> g[V]]
      BY <2>3
    <3> QED
      BY <3>1, <3>2 DEF IsSum
  <2> QED
    BY <2>6
<1> HIDE DEF Good
<1>1a. Inductive(Good, D)
  BY <1>1 DEF Inductive
<1>2. D \in Good
  BY <1>1a, SubsetInduction
<1> QED
  BY <1>2 DEF Good

(***************************************************************************)
(* The sum over a part of the indices.                                     *)
(***************************************************************************)
PartSum(f, T) == (CHOOSE g : IsSum(g, f, DOMAIN f))[T]

LEMMA PartSumFacts ==
    ASSUME NEW f, IsFiniteSet(DOMAIN f)
    PROVE  /\ SumOf(f) = PartSum(f, DOMAIN f)
           /\ PartSum(f, {}) = 0
           /\ \A T \in SUBSET DOMAIN f : T # {} =>
                  PartSum(f, T) = f[Chosen(T)] + PartSum(f, T \ {Chosen(T)})
<1>1. SumOf(f) = PartSum(f, DOMAIN f)
  BY SumIsFold DEF PartSum
<1>2. PICK g : g = CHOOSE h : IsSum(h, f, DOMAIN f)
  OBVIOUS
<1>3. IsSum(g, f, DOMAIN f)
  BY <1>2, SumExists
<1>4. g[{}] = 0 /\ \A T \in SUBSET DOMAIN f : T # {} =>
          g[T] = f[Chosen(T)] + g[T \ {Chosen(T)}]
  BY <1>3 DEF IsSum
<1> QED
  BY <1>1, <1>2, <1>4 DEF PartSum

LEMMA PartSumInt ==
    ASSUME NEW f, IsFiniteSet(DOMAIN f), \A x \in DOMAIN f : f[x] \in Int,
           NEW S \in SUBSET DOMAIN f
    PROVE  PartSum(f, S) \in Int
<1> DEFINE Good == {T \in SUBSET DOMAIN f : PartSum(f, T) \in Int}
<1>1. ASSUME NEW T \in SUBSET DOMAIN f, \A U \in SUBSET T : U # T => U \in Good
      PROVE  T \in Good
  <2>1. CASE T = {}
    BY <2>1, PartSumFacts
  <2>2. CASE T # {}
    <3>1. Chosen(T) \in T
      BY <2>2, ChosenIn
    <3>2. PartSum(f, T \ {Chosen(T)}) \in Int
      BY <1>1, <3>1
    <3>3. PartSum(f, T) = f[Chosen(T)] + PartSum(f, T \ {Chosen(T)})
      BY <2>2, PartSumFacts
    <3> QED
      BY <3>1, <3>2, <3>3
  <2> QED
    BY <2>1, <2>2
<1> HIDE DEF Good
<1>1a. Inductive(Good, DOMAIN f)
  BY <1>1 DEF Inductive
<1>2. S \in Good
  BY <1>1a, SubsetInduction
<1> QED
  BY <1>2 DEF Good

(* A sum has an integer for a value, and does not depend on which index is *)
(* added last.                                                             *)
LEMMA PartSumSplit ==
    ASSUME NEW f, IsFiniteSet(DOMAIN f), \A x \in DOMAIN f : f[x] \in Int,
           NEW S \in SUBSET DOMAIN f, NEW x \in S
    PROVE  PartSum(f, S) = f[x] + PartSum(f, S \ {x})
<1> DEFINE Good == {T \in SUBSET DOMAIN f :
                        \A y \in T : PartSum(f, T) = f[y] + PartSum(f, T \ {y})}
<1>1. ASSUME NEW T \in SUBSET DOMAIN f, \A U \in SUBSET T : U # T => U \in Good
      PROVE  T \in Good
  <2> SUFFICES ASSUME NEW y \in T PROVE PartSum(f, T) = f[y] + PartSum(f, T \ {y})
    OBVIOUS
  <2>1. PICK c : c = Chosen(T)
    OBVIOUS
  <2>2. c \in T /\ PartSum(f, T) = f[c] + PartSum(f, T \ {c})
    BY <2>1, ChosenIn, PartSumFacts
  <2>3. CASE c = y
    BY <2>2, <2>3
  <2>4. CASE c # y
    <3>1. PartSum(f, T \ {c}) = f[y] + PartSum(f, (T \ {c}) \ {y})
      BY <1>1, <2>2, <2>4
    <3>2. PartSum(f, T \ {y}) = f[c] + PartSum(f, (T \ {y}) \ {c})
      BY <1>1, <2>2, <2>4
    <3>3. PICK V \in SUBSET DOMAIN f : V = (T \ {c}) \ {y} /\ V = (T \ {y}) \ {c}
      OBVIOUS
    <3>4. PartSum(f, V) \in Int /\ f[c] \in Int /\ f[y] \in Int
      BY <2>2, PartSumInt
    <3>5. PartSum(f, T) = f[c] + (f[y] + PartSum(f, V)) /\ PartSum(f, T \ {y}) = f[c] + PartSum(f, V)
      BY <2>2, <3>1, <3>2, <3>3
    <3> HIDE <3>1, <3>2
    <3> QED
      BY <3>4, <3>5
  <2> QED
    BY <2>3, <2>4
<1> HIDE DEF Good
<1>1a. Inductive(Good, DOMAIN f)
  BY <1>1 DEF Inductive
<1>2. S \in Good
  BY <1>1a, SubsetInduction
<1> QED
  BY <1>2 DEF Good

LEMMA SumInt ==
    ASSUME NEW f, IsFiniteSet(DOMAIN f), \A x \in DOMAIN f : f[x] \in Int
    PROVE  SumOf(f) \in Int
BY PartSumFacts, PartSumInt

(* Going through the indices in another order gives the same sum.          *)
LEMMA SumReindexed ==
    ASSUME NEW f, IsFiniteSet(DOMAIN f), \A x \in DOMAIN f : f[x] \in Int,
           NEW D, IsFiniteSet(D), NEW p \in [D -> DOMAIN f],
           \A x, y \in D : p[x] = p[y] => x = y,
           \A z \in DOMAIN f : \E x \in D : p[x] = z,
           NEW h, DOMAIN h = D, \A x \in D : h[x] = f[p[x]]
    PROVE  SumOf(h) = SumOf(f)
<1> DEFINE image(T) == {z \in DOMAIN f : \E x \in T : p[x] = z}
           Good == {T \in SUBSET D : PartSum(h, T) = PartSum(f, image(T))}
<1>0. DOMAIN h = D /\ \A x \in D : h[x] = f[p[x]] /\ h[x] \in Int
  OBVIOUS
<1>1. ASSUME NEW T \in SUBSET D, \A U \in SUBSET T : U # T => U \in Good
      PROVE  T \in Good
  <2>1. CASE T = {}
    <3>1. image(T) = {}
      BY <2>1
    <3>2. PartSum(h, {}) = 0 /\ PartSum(f, {}) = 0
      BY <1>0, PartSumFacts
    <3> QED
      BY <2>1, <3>1, <3>2
  <2>2. CASE T # {}
    <3>1. PICK x : x \in T
      BY <2>2
    <3>2. image(T \ {x}) = image(T) \ {p[x]} /\ p[x] \in image(T)
      BY <3>1
    <3>3. PartSum(h, T \ {x}) = PartSum(f, image(T) \ {p[x]})
      BY <1>1, <3>1, <3>2
    <3> HIDE DEF image
    <3>4. PartSum(h, T) = h[x] + PartSum(h, T \ {x})
      BY <1>0, <3>1, PartSumSplit
    <3>5. image(T) \in SUBSET DOMAIN f
      BY DEF image
    <3>6. PartSum(f, image(T)) = f[p[x]] + PartSum(f, image(T) \ {p[x]})
      BY <3>2, <3>5, PartSumSplit
    <3>7. h[x] = f[p[x]]
      BY <1>0, <3>1
    <3> QED
      BY <3>3, <3>4, <3>6, <3>7
  <2> QED
    BY <2>1, <2>2
<1>2. image(D) = DOMAIN f
  OBVIOUS
<1> HIDE DEF Good
<1>1a. Inductive(Good, D)
  BY <1>1 DEF Inductive
<1>3. D \in Good
  BY <1>1a, SubsetInduction
<1>4. PartSum(h, D) = PartSum(f, DOMAIN f)
  BY <1>2, <1>3 DEF Good
<1> QED
  BY <1>0, <1>4, PartSumFacts

(***************************************************************************)
(* Linear combinations, bounds and counts.                                 *)
(***************************************************************************)
LEMMA Distribute ==
    ASSUME NEW a \in Int, NEW b \in Int, NEW m \in Int, NEW n \in Int, NEW p \in Int, NEW q \in Int
    PROVE  (a * m + b * n) + (a * p + b * q) = a * (m + p) + b * (n + q)
OBVIOUS

IsCombination(h, D, a, f, b, g) == \A x \in D : h[x] = a * f[x] + b * g[x]

SumSplit(h, a, f, b, g) == SumOf(h) = a * SumOf(f) + b * SumOf(g)

LEMMA SumOfCombination ==
    ASSUME NEW D, IsFiniteSet(D), NEW f \in [D -> Int], NEW g \in [D -> Int],
           NEW a \in Int, NEW b \in Int,
           NEW h, DOMAIN h = D, IsCombination(h, D, a, f, b, g)
    PROVE  SumSplit(h, a, f, b, g)
<1> DEFINE Good == {T \in SUBSET D : PartSum(h, T) = a * PartSum(f, T) + b * PartSum(g, T)}
<1>0. /\ DOMAIN h = D /\ DOMAIN f = D /\ DOMAIN g = D
      /\ \A x \in D : h[x] = a * f[x] + b * g[x] /\ f[x] \in Int /\ g[x] \in Int
  BY DEF IsCombination
<1>1. ASSUME NEW T \in SUBSET D, \A U \in SUBSET T : U # T => U \in Good
      PROVE  T \in Good
  <2>1. CASE T = {}
    <3>1. PartSum(h, T) = 0 /\ PartSum(f, T) = 0 /\ PartSum(g, T) = 0
      BY <1>0, <2>1, PartSumFacts
    <3>2. PICK u, v : u = PartSum(f, T) /\ v = PartSum(g, T)
      OBVIOUS
    <3>3. u = 0 /\ v = 0
      BY <3>1, <3>2
    <3>4. a * u + b * v = 0
      BY <3>3
    <3> QED
      BY <3>1, <3>2, <3>4
  <2>2. CASE T # {}
    <3>1. PICK x : x = Chosen(T)
      OBVIOUS
    <3>2. x \in T
      BY <2>2, <3>1, ChosenIn
    <3>3. PICK U : U = T \ {x}
      OBVIOUS
    <3>4. /\ PartSum(h, T) = h[x] + PartSum(h, U)
          /\ PartSum(f, T) = f[x] + PartSum(f, U)
          /\ PartSum(g, T) = g[x] + PartSum(g, U)
      BY <1>0, <2>2, <3>1, <3>3, PartSumFacts
    <3>5. PartSum(h, U) = a * PartSum(f, U) + b * PartSum(g, U)
      BY <1>1, <3>2, <3>3
    <3>6. PartSum(f, U) \in Int /\ PartSum(g, U) \in Int /\ f[x] \in Int /\ g[x] \in Int
      BY <1>0, <3>2, <3>3, PartSumInt
    <3>7. PartSum(h, T) = (a * f[x] + b * g[x]) + (a * PartSum(f, U) + b * PartSum(g, U))
      BY <1>0, <3>2, <3>4, <3>5
    <3> QED
      BY <3>4, <3>6, <3>7, Distribute
  <2> QED
    BY <2>1, <2>2
<1> HIDE DEF Good
<1>1a. Inductive(Good, D)
  BY <1>1 DEF Inductive
<1>2. D \in Good
  BY <1>1a, SubsetInduction
<1> QED
  BY <1>0, <1>2, PartSumFacts DEF Good, SumSplit

LEMMA SumCombined ==
    ASSUME NEW D, IsFiniteSet(D), NEW f \in [D -> Int], NEW g \in [D -> Int],
           NEW a \in Int, NEW b \in Int,
           NEW h, DOMAIN h = D, \A x \in D : h[x] = a * f[x] + b * g[x]
    PROVE  SumOf(h) = a * SumOf(f) + b * SumOf(g)
<1>1. IsCombination(h, D, a, f, b, g)
  BY DEF IsCombination
<1> QED
  BY <1>1, SumOfCombination DEF SumSplit

LEMMA SumAdded ==
    ASSUME NEW D, IsFiniteSet(D), NEW f \in [D -> Int], NEW g \in [D -> Int],
           NEW h, h = [x \in D |-> f[x] + g[x]]
    PROVE  SumOf(h) = SumOf(f) + SumOf(g)
<1>1. PICK one \in Int : one = 1
  OBVIOUS
<1>2. PICK k : k = [x \in D |-> one * f[x] + one * g[x]]
  OBVIOUS
<1>3. k = h
  BY <1>1, <1>2
<1>4. SumOf(k) = one * SumOf(f) + one * SumOf(g)
  <2> HIDE <1>1, <1>3
  <2> QED
    BY <1>2, SumCombined
<1>5. SumOf(f) \in Int /\ SumOf(g) \in Int
  BY SumInt
<1> QED
  BY <1>1, <1>3, <1>4, <1>5

LEMMA SumAtMost ==
    ASSUME NEW D, IsFiniteSet(D), NEW f \in [D -> Int], NEW g \in [D -> Int],
           \A x \in D : f[x] <= g[x]
    PROVE  SumOf(f) <= SumOf(g)
<1> DEFINE Good == {T \in SUBSET D : PartSum(f, T) <= PartSum(g, T)}
<1>0. /\ DOMAIN f = D /\ DOMAIN g = D
      /\ \A x \in D : f[x] \in Int /\ g[x] \in Int
  OBVIOUS
<1>1. ASSUME NEW T \in SUBSET D, \A U \in SUBSET T : U # T => U \in Good
      PROVE  T \in Good
  <2>1. CASE T = {}
    BY <1>0, <2>1, PartSumFacts
  <2>2. CASE T # {}
    <3>1. PICK x : x = Chosen(T)
      OBVIOUS
    <3>2. x \in T
      BY <2>2, <3>1, ChosenIn
    <3>3. /\ PartSum(f, T) = f[x] + PartSum(f, T \ {x})
          /\ PartSum(g, T) = g[x] + PartSum(g, T \ {x})
      BY <1>0, <2>2, <3>1, PartSumFacts
    <3>4. PartSum(f, T \ {x}) <= PartSum(g, T \ {x})
      BY <1>1, <3>2
    <3>5. PartSum(f, T \ {x}) \in Int /\ PartSum(g, T \ {x}) \in Int /\ f[x] \in Int /\ g[x] \in Int
      BY <1>0, <3>2, PartSumInt
    <3>6. f[x] <= g[x]
      BY <3>2
    <3> QED
      BY <3>3, <3>4, <3>5, <3>6
  <2> QED
    BY <2>1, <2>2
<1> HIDE DEF Good
<1>1a. Inductive(Good, D)
  BY <1>1 DEF Inductive
<1>2. D \in Good
  BY <1>1a, SubsetInduction
<1> QED
  BY <1>0, <1>2, PartSumFacts DEF Good

LEMMA SumCounts ==
    ASSUME NEW D, IsFiniteSet(D), NEW A \in SUBSET D,
           NEW h, h = [x \in D |-> IF x \in A THEN 1 ELSE 0]
    PROVE  SumOf(h) = Cardinality(A)
<1> DEFINE Good == {T \in SUBSET D : PartSum(h, T) = Cardinality(T \cap A)}
<1>0. DOMAIN h = D /\ \A x \in D : h[x] \in Int /\ h[x] = IF x \in A THEN 1 ELSE 0
  OBVIOUS
<1>1. ASSUME NEW T \in SUBSET D, \A U \in SUBSET T : U # T => U \in Good
      PROVE  T \in Good
  <2>1. CASE T = {}
    <3>1. T \cap A = {}
      BY <2>1
    <3>2. PartSum(h, T) = 0
      BY <1>0, <2>1, PartSumFacts
    <3> QED
      BY <3>1, <3>2, FS_EmptySet
  <2>2. CASE T # {}
    <3>1. PICK x : x = Chosen(T)
      OBVIOUS
    <3>2. x \in T
      BY <2>2, <3>1, ChosenIn
    <3>3. PartSum(h, T) = h[x] + PartSum(h, T \ {x})
      BY <1>0, <2>2, <3>1, PartSumFacts
    <3>4. PartSum(h, T \ {x}) = Cardinality((T \ {x}) \cap A)
      BY <1>1, <3>2
    <3>5. IsFiniteSet(T \cap A) /\ Cardinality(T \cap A) \in Nat
      BY FS_Subset, FS_CardinalityType
    <3>6. (T \ {x}) \cap A = (T \cap A) \ {x}
      OBVIOUS
    <3>7. Cardinality((T \cap A) \ {x}) = IF x \in A THEN Cardinality(T \cap A) - 1
                                                      ELSE Cardinality(T \cap A)
      BY <3>2, <3>5, FS_RemoveElement
    <3>8. PartSum(h, T \ {x}) = Cardinality((T \cap A) \ {x})
      BY <3>4, <3>6
    <3>9. PartSum(h, T) = Cardinality(T \cap A)
      <4>1. CASE x \in A
        BY <1>0, <3>2, <3>3, <3>5, <3>7, <3>8, <4>1
      <4>2. CASE x \notin A
        BY <1>0, <3>2, <3>3, <3>5, <3>7, <3>8, <4>2
      <4> QED
        BY <4>1, <4>2
    <3> QED
      BY <3>9
  <2> QED
    BY <2>1, <2>2
<1> HIDE DEF Good
<1>1a. Inductive(Good, D)
  BY <1>1 DEF Inductive
<1>2. D \in Good
  BY <1>1a, SubsetInduction
<1>3. D \cap A = A
  OBVIOUS
<1> QED
  BY <1>0, <1>2, <1>3, PartSumFacts DEF Good

LEMMA SumConstant ==
    ASSUME NEW D, IsFiniteSet(D), NEW c \in Int
    PROVE  SumOf([x \in D |-> c]) = c * Cardinality(D)
<1>1. PICK one : one = [x \in D |-> IF x \in D THEN 1 ELSE 0]
  OBVIOUS
<1>2. one \in [D -> Int] /\ \A x \in D : one[x] = 1
  BY <1>1
<1>3. SumOf(one) = Cardinality(D)
  BY <1>1, SumCounts
<1>4. PICK zero \in Int : zero = 0
  OBVIOUS
<1>5. PICK h : h = [x \in D |-> c * one[x] + zero * one[x]]
  OBVIOUS
<1>6. SumOf(h) = c * SumOf(one) + zero * SumOf(one)
  <2> HIDE <1>1, <1>4
  <2> QED
    BY <1>2, <1>5, SumCombined
<1>7. h = [x \in D |-> c]
  BY <1>2, <1>4, <1>5
<1>8. Cardinality(D) \in Nat
  BY FS_CardinalityType
<1> QED
  BY <1>3, <1>4, <1>6, <1>7, <1>8

LEMMA SumWithin ==
    ASSUME NEW D, IsFiniteSet(D), NEW f \in [D -> Int], NEW low \in Int, NEW high \in Int,
           \A x \in D : low <= f[x] /\ f[x] <= high
    PROVE  low * Cardinality(D) <= SumOf(f) /\ SumOf(f) <= high * Cardinality(D)
<1>1. PICK a \in [D -> Int] : a = [x \in D |-> low]
  OBVIOUS
<1>2. PICK b \in [D -> Int] : b = [x \in D |-> high]
  OBVIOUS
<1>3. \A x \in D : a[x] <= f[x] /\ f[x] <= b[x]
  BY <1>1, <1>2
<1>4. SumOf(a) <= SumOf(f) /\ SumOf(f) <= SumOf(b)
  BY <1>3, SumAtMost
<1>5. SumOf(a) = low * Cardinality(D) /\ SumOf(b) = high * Cardinality(D)
  BY <1>1, <1>2, SumConstant
<1> QED
  BY <1>4, <1>5

LEMMA SumScaled ==
    ASSUME NEW D, IsFiniteSet(D), NEW f \in [D -> Int], NEW c \in Int,
           NEW h, h = [x \in D |-> c * f[x]]
    PROVE  SumOf(h) = c * SumOf(f)
<1>1. PICK zero \in Int : zero = 0
  OBVIOUS
<1>2. PICK k : k = [x \in D |-> c * f[x] + zero * f[x]]
  OBVIOUS
<1>3. SumOf(k) = c * SumOf(f) + zero * SumOf(f)
  <2> HIDE <1>1
  <2> QED
    BY <1>2, SumCombined
<1>4. k = h
  BY <1>1, <1>2
<1>5. SumOf(f) \in Int
  BY SumInt
<1> QED
  BY <1>1, <1>3, <1>4, <1>5

LEMMA SumCoversEach ==
    ASSUME NEW D, IsFiniteSet(D), NEW f \in [D -> Nat], NEW i \in D
    PROVE  f[i] <= SumOf(f)
<1>1. PICK h : h = [x \in D |-> IF x \in {i} THEN 1 ELSE 0]
  OBVIOUS
<1>2. h \in [D -> Int]
  BY <1>1
<1>3. SumOf(h) = Cardinality({i})
  BY <1>1, SumCounts
<1>4. SumOf(h) = 1
  BY <1>3, FS_Singleton
<1>5. PICK v \in Int : v = f[i]
  OBVIOUS
<1>6. PICK k : k = [x \in D |-> v * h[x]]
  OBVIOUS
<1>7. SumOf(k) = v * SumOf(h)
  <2> HIDE <1>5
  <2> QED
    BY <1>2, <1>6, SumScaled
<1>8. k \in [D -> Int] /\ \A x \in D : k[x] <= f[x]
  <2> SUFFICES ASSUME NEW x \in D PROVE k[x] \in Int /\ k[x] <= f[x]
    BY <1>6
  <2>1. CASE x = i
    <3>1. h[x] = 1 /\ k[x] = v * h[x] /\ f[x] = v
      BY <1>1, <1>5, <1>6, <2>1
    <3> QED
      BY <3>1
  <2>2. CASE x # i
    <3>1. h[x] = 0 /\ k[x] = v * h[x] /\ f[x] >= 0 /\ f[x] \in Int
      BY <1>1, <1>6, <2>2
    <3> QED
      BY <3>1
  <2> QED
    BY <2>1, <2>2
<1>9. SumOf(k) <= SumOf(f)
  <2>1. f \in [D -> Int]
    OBVIOUS
  <2> QED
    BY <1>8, <2>1, SumAtMost
<1> QED
  BY <1>4, <1>5, <1>7, <1>9

(* A sum of naturals is at least each of them.                             *)
LEMMA AtLeastEach ==
    ASSUME NEW n \in Nat, NEW f \in [1 .. n -> Nat], NEW i \in 1 .. n
    PROVE  f[i] <= SumOf(f)
<1>1. PICK D : D = 1 .. n
  OBVIOUS
<1>2. IsFiniteSet(D) /\ f \in [D -> Nat] /\ i \in D
  BY <1>1, FS_Interval
<1> QED
  BY <1>2, SumCoversEach

(***************************************************************************)
(* The order in which the remainder is handed out, and the sum it gives.   *)
(***************************************************************************)
Raws(n) == [1 .. n -> Nat]

LEMMA DivMod ==
    ASSUME NEW a \in Nat, NEW b \in Nat \ {0}
    PROVE  /\ a \div b \in Nat
           /\ a % b \in 0 .. (b - 1)
           /\ a = b * (a \div b) + (a % b)
OBVIOUS

LEMMA ModIsNat ==
    ASSUME NEW a \in Nat, NEW b \in Nat \ {0}
    PROVE  a % b \in Nat
BY DivMod

(* A sleeve that goes before another one has a smaller rank.               *)
LEMMA RankMonotone ==
    ASSUME NEW n \in Nat, NEW raw \in Raws(n), NEW unit \in Nat \ {0},
           NEW i \in 1 .. n, NEW j \in 1 .. n, Precedes(raw, unit, i, j)
    PROVE  Rank(raw, unit, i) \in Nat /\ Rank(raw, unit, j) \in Nat
           /\ Rank(raw, unit, i) < Rank(raw, unit, j)
<1> DEFINE Before(x) == {k \in DOMAIN raw : Precedes(raw, unit, k, x)}
<1>0. DOMAIN raw = 1 .. n /\ \A k \in 1 .. n : raw[k] % unit \in Nat
  BY ModIsNat DEF Raws
<1>1. Before(i) \subseteq Before(j)
  BY <1>0 DEF Precedes
<1>2. i \in Before(j) /\ i \notin Before(i)
  BY <1>0 DEF Precedes
<1>3. IsFiniteSet(1 .. n) /\ Before(i) \in SUBSET (1 .. n) /\ Before(j) \in SUBSET (1 .. n)
  <2>1. IsFiniteSet(1 .. n)
    BY FS_Interval
  <2> QED
    BY <1>0, <2>1
<1>4. Rank(raw, unit, i) = Cardinality(Before(i)) /\ Rank(raw, unit, j) = Cardinality(Before(j))
  BY DEF Rank
<1> HIDE DEF Before
<1>5. IsFiniteSet(Before(i)) /\ IsFiniteSet(Before(j))
  BY <1>3, FS_Subset
<1>6. Cardinality(Before(i)) \in Nat /\ Cardinality(Before(j)) \in Nat
  BY <1>5, FS_CardinalityType
<1>7. Cardinality(Before(i)) <= Cardinality(Before(j))
  BY <1>1, <1>5, FS_Subset
<1>8. Cardinality(Before(i)) # Cardinality(Before(j))
  BY <1>1, <1>2, <1>5, FS_Subset
<1> QED
  BY <1>4, <1>6, <1>7, <1>8

LEMMA RankRange ==
    ASSUME NEW n \in Nat, NEW raw \in Raws(n), NEW unit \in Nat \ {0}, NEW i \in 1 .. n
    PROVE  Rank(raw, unit, i) \in 0 .. (n - 1)
<1> DEFINE Before == {k \in DOMAIN raw : Precedes(raw, unit, k, i)}
<1>0. DOMAIN raw = 1 .. n /\ \A k \in 1 .. n : raw[k] % unit \in Nat
  BY ModIsNat DEF Raws
<1>1. Before \in SUBSET (1 .. n) /\ i \notin Before
  BY <1>0 DEF Precedes
<1>2. IsFiniteSet(1 .. n) /\ Cardinality(1 .. n) = n
  BY FS_Interval
<1>3. Rank(raw, unit, i) = Cardinality(Before)
  BY DEF Rank
<1> HIDE DEF Before
<1>4. IsFiniteSet(Before) /\ Cardinality(Before) <= n /\ Cardinality(Before) # n
  BY <1>1, <1>2, FS_Subset
<1>5. Cardinality(Before) \in Nat
  BY <1>4, FS_CardinalityType
<1> QED
  BY <1>3, <1>4, <1>5

(* Of n sleeves, exactly the first r have a rank below r.                  *)
LEMMA RankedBelow ==
    ASSUME NEW n \in Nat, NEW raw \in Raws(n), NEW unit \in Nat \ {0}, NEW r \in 0 .. n
    PROVE  Cardinality({i \in 1 .. n : Rank(raw, unit, i) < r}) = r
<1> DEFINE First == {i \in 1 .. n : Rank(raw, unit, i) < r}
           Rest  == (1 .. n) \ First
<1>1. \A i, j \in 1 .. n : i # j => Rank(raw, unit, i) # Rank(raw, unit, j)
  <2> SUFFICES ASSUME NEW i \in 1 .. n, NEW j \in 1 .. n, i # j
               PROVE  Rank(raw, unit, i) # Rank(raw, unit, j)
    OBVIOUS
  <2>1. raw[i] % unit \in Nat /\ raw[j] % unit \in Nat
    BY ModIsNat DEF Raws
  <2>2. Precedes(raw, unit, i, j) \/ Precedes(raw, unit, j, i)
    BY <2>1 DEF Precedes
  <2> QED
    BY <2>2, RankMonotone
<1>2. \A i \in 1 .. n : Rank(raw, unit, i) \in 0 .. (n - 1)
  BY RankRange
<1>3. PICK low : low = [i \in First |-> Rank(raw, unit, i)]
  OBVIOUS
<1>4. PICK high : high = [i \in Rest |-> Rank(raw, unit, i)]
  OBVIOUS
<1>5. low \in Injection(First, 0 .. (r - 1))
  <2>1. low \in [First -> 0 .. (r - 1)]
    BY <1>2, <1>3
  <2>2. \A i, j \in First : low[i] = low[j] => i = j
    BY <1>1, <1>3
  <2> QED
    BY <2>1, <2>2 DEF Injection, IsInjective
<1>6. high \in Injection(Rest, r .. (n - 1))
  <2>1. high \in [Rest -> r .. (n - 1)]
    BY <1>2, <1>4
  <2>2. \A i, j \in Rest : high[i] = high[j] => i = j
    BY <1>1, <1>4
  <2> QED
    BY <2>1, <2>2 DEF Injection, IsInjective
<1>7. IsFiniteSet(1 .. n) /\ Cardinality(1 .. n) = n
  BY FS_Interval
<1>8. First \in SUBSET (1 .. n) /\ (1 .. n) \cap First = First
  OBVIOUS
<1> HIDE DEF First
<1>9. IsFiniteSet(First) /\ Cardinality(First) \in Nat
  BY <1>7, <1>8, FS_Subset, FS_CardinalityType
<1>10. Cardinality(Rest) = n - Cardinality(First)
  <2>1. Cardinality(Rest) = Cardinality(1 .. n) - Cardinality((1 .. n) \cap First)
    BY <1>7, FS_Difference
  <2> QED
    BY <1>7, <1>8, <2>1
<1>11. Cardinality(First) <= r
  <2>1. IsFiniteSet(0 .. (r - 1)) /\ Cardinality(0 .. (r - 1)) = r
    BY FS_Interval
  <2> QED
    BY <1>5, <2>1, FS_Injection
<1>12. Cardinality(Rest) <= n - r
  <2>1. IsFiniteSet(r .. (n - 1)) /\ Cardinality(r .. (n - 1)) = n - r
    <3>1. r \in Int /\ n - 1 \in Int /\ r <= n
      OBVIOUS
    <3>2. /\ IsFiniteSet(r .. (n - 1))
          /\ Cardinality(r .. (n - 1)) = IF r > n - 1 THEN 0 ELSE (n - 1) - r + 1
      BY <3>1, FS_Interval
    <3> QED
      BY <3>1, <3>2
  <2> HIDE DEF Rest
  <2> QED
    BY <1>6, <2>1, FS_Injection
<1>13. Cardinality(First) = r
  BY <1>9, <1>10, <1>11, <1>12
<1> QED
  BY <1>13 DEF First

(***************************************************************************)
(* What toBpsAllocation returns.                                           *)
(***************************************************************************)
Missing(raw, total, unit) == total - SumOf(Floors(raw, unit))

LEMMA AllocationIs ==
    ASSUME NEW n \in Nat, NEW raw \in Raws(n), NEW unit \in Nat \ {0}, NEW total \in Nat
    PROVE  /\ Floors(raw, unit) \in [1 .. n -> Nat]
           /\ Missing(raw, total, unit) \in Int
           /\ ToBpsAllocation(raw, total, unit) =
                  [i \in 1 .. n |-> Floors(raw, unit)[i] +
                       (IF Rank(raw, unit, i) < Missing(raw, total, unit) THEN 1 ELSE 0)]
<1>1. DOMAIN raw = 1 .. n /\ \A i \in 1 .. n : raw[i] \div unit \in Nat
  BY DivMod DEF Raws
<1>2. Floors(raw, unit) \in [1 .. n -> Nat]
  BY <1>1 DEF Floors
<1>3. SumOf(Floors(raw, unit)) \in Int
  BY <1>2, SumInt, FS_Interval
<1> QED
  BY <1>1, <1>2, <1>3 DEF ToBpsAllocation, Missing

(* toBpsAllocation (casperClient.ts) meets the total exactly, whenever     *)
(* what the floors leave missing is neither negative nor more than one     *)
(* basis point per sleeve.                                                 *)
THEOREM AllocationSums ==
    ASSUME NEW n \in Nat, NEW raw \in Raws(n), NEW unit \in Nat \ {0}, NEW total \in Nat,
           Missing(raw, total, unit) \in 0 .. n
    PROVE  SumOf(ToBpsAllocation(raw, total, unit)) = total
<1> DEFINE r     == Missing(raw, total, unit)
           First == {i \in 1 .. n : Rank(raw, unit, i) < r}
<1>1. PICK floors : floors = Floors(raw, unit)
  OBVIOUS
<1>2. PICK extra : extra = [i \in 1 .. n |-> IF i \in First THEN 1 ELSE 0]
  OBVIOUS
<1>3. PICK w : w = ToBpsAllocation(raw, total, unit)
  OBVIOUS
<1>4. floors \in [1 .. n -> Int] /\ extra \in [1 .. n -> Int]
  BY <1>1, <1>2, AllocationIs
<1>5. w = [i \in 1 .. n |-> floors[i] + extra[i]]
  <2>1. ToBpsAllocation(raw, total, unit) =
            [i \in 1 .. n |-> Floors(raw, unit)[i] + (IF Rank(raw, unit, i) < r THEN 1 ELSE 0)]
    BY AllocationIs
  <2>2. \A i \in 1 .. n : extra[i] = IF Rank(raw, unit, i) < r THEN 1 ELSE 0
    BY <1>2
  <2> QED
    BY <1>1, <1>3, <2>1, <2>2
<1>6. IsFiniteSet(1 .. n)
  BY FS_Interval
<1>7. SumOf(w) = SumOf(floors) + SumOf(extra)
  <2>1. PICK D : D = 1 .. n
    OBVIOUS
  <2>2. /\ IsFiniteSet(D) /\ floors \in [D -> Int] /\ extra \in [D -> Int]
        /\ w = [i \in D |-> floors[i] + extra[i]]
    BY <1>4, <1>5, <1>6, <2>1
  <2> HIDE DEF r, First
  <2> QED
    BY <2>2, SumAdded
<1>8. SumOf(extra) = Cardinality(First)
  BY <1>2, <1>6, SumCounts
<1>9. Cardinality(First) = r
  BY RankedBelow
<1>10. SumOf(floors) \in Int
  BY <1>4, <1>6, SumInt
<1> QED
  BY <1>1, <1>3, <1>7, <1>8, <1>9, <1>10 DEF Missing

(* The weights of toBpsAllocation (casperClient.ts) keep the order of the  *)
(* ones they are made from, however the remainder is handed out.           *)
THEOREM AllocationKeepsOrder ==
    ASSUME NEW n \in Nat, NEW raw \in Raws(n), NEW unit \in Nat \ {0}, NEW total \in Nat,
           NEW i \in 1 .. n, NEW j \in 1 .. n, raw[i] > raw[j]
    PROVE  ToBpsAllocation(raw, total, unit)[i] >= ToBpsAllocation(raw, total, unit)[j]
<1> DEFINE a == raw[i]
           b == raw[j]
<1>1. a \in Nat /\ b \in Nat
  BY DEF Raws
<1>2. /\ a \div unit \in Nat /\ a % unit \in 0 .. (unit - 1) /\ a = unit * (a \div unit) + (a % unit)
      /\ b \div unit \in Nat /\ b % unit \in 0 .. (unit - 1) /\ b = unit * (b \div unit) + (b % unit)
  BY <1>1, DivMod
<1>3. PICK q \in Nat, s \in Nat : q = a \div unit /\ s = b \div unit
  BY <1>2
<1>4. PICK x \in 0 .. (unit - 1), y \in 0 .. (unit - 1) : x = a % unit /\ y = b % unit
  BY <1>2
<1>5. unit * q + x > unit * s + y
  <2>1. a = unit * q + x /\ b = unit * s + y /\ a > b
    BY <1>2, <1>3, <1>4
  <2> HIDE DEF a, b
  <2> QED
    BY <2>1
<1>6. q > s \/ (q = s /\ x > y)
  <2>1. ASSUME q < s PROVE FALSE
    <3>1. q + 1 <= s
      BY <2>1
    <3>2. unit * (q + 1) <= unit * s
      BY <3>1
    <3>3. unit * (q + 1) = unit * q + unit
      OBVIOUS
    <3> QED
      BY <1>5, <3>2, <3>3
  <2>2. q = s => x > y
    BY <1>5
  <2> QED
    BY <2>1, <2>2
<1>7. /\ ToBpsAllocation(raw, total, unit)[i] =
             q + (IF Rank(raw, unit, i) < Missing(raw, total, unit) THEN 1 ELSE 0)
      /\ ToBpsAllocation(raw, total, unit)[j] =
             s + (IF Rank(raw, unit, j) < Missing(raw, total, unit) THEN 1 ELSE 0)
      /\ Missing(raw, total, unit) \in Int
  <2>1. PICK m : m = Missing(raw, total, unit)
    OBVIOUS
  <2>2. m \in Int
    BY <2>1, AllocationIs
  <2>3. ToBpsAllocation(raw, total, unit) =
            [k \in 1 .. n |-> Floors(raw, unit)[k] + (IF Rank(raw, unit, k) < m THEN 1 ELSE 0)]
    <3>1. ToBpsAllocation(raw, total, unit) =
              [k \in 1 .. n |-> Floors(raw, unit)[k] +
                   (IF Rank(raw, unit, k) < Missing(raw, total, unit) THEN 1 ELSE 0)]
      BY AllocationIs
    <3> QED
      BY <2>1, <3>1
  <2>4. Floors(raw, unit)[i] = q /\ Floors(raw, unit)[j] = s
    BY <1>3 DEF Floors, Raws
  <2> QED
    BY <2>1, <2>2, <2>3, <2>4
<1>8. CASE q > s
  BY <1>7, <1>8
<1>9. CASE q = s /\ x > y
  <2>1. Precedes(raw, unit, i, j)
    BY <1>4, <1>9 DEF Precedes
  <2>2. Rank(raw, unit, i) \in Nat /\ Rank(raw, unit, j) \in Nat
        /\ Rank(raw, unit, i) < Rank(raw, unit, j)
    BY <2>1, RankMonotone
  <2>3. Rank(raw, unit, j) < Missing(raw, total, unit) => Rank(raw, unit, i) < Missing(raw, total, unit)
    BY <1>7, <2>2
  <2> QED
    BY <1>7, <1>9, <2>3
<1> QED
  BY <1>6, <1>8, <1>9

(* What rounding down loses: less than one unit per sleeve.                *)
LEMMA FloorsLose ==
    ASSUME NEW n \in Nat, NEW raw \in Raws(n), NEW unit \in Nat \ {0}
    PROVE  /\ SumOf(raw) \in Int /\ SumOf(Floors(raw, unit)) \in Int
           /\ 0 <= SumOf(raw) - unit * SumOf(Floors(raw, unit))
           /\ SumOf(raw) - unit * SumOf(Floors(raw, unit)) <= n * (unit - 1)
<1>1. PICK D : D = 1 .. n
  OBVIOUS
<1>2. IsFiniteSet(D) /\ Cardinality(D) = n
  BY <1>1, FS_Interval
<1>3. PICK floors : floors = Floors(raw, unit)
  OBVIOUS
<1>4. PICK lost : lost = [i \in D |-> raw[i] % unit]
  OBVIOUS
<1>5. raw \in [D -> Int] /\ \A i \in D : raw[i] \in Nat
  BY <1>1 DEF Raws
<1>6. floors \in [D -> Int] /\ \A i \in D : floors[i] = raw[i] \div unit
  <2>1. floors = [i \in D |-> raw[i] \div unit]
    BY <1>3, <1>5 DEF Floors
  <2>2. \A i \in D : raw[i] \div unit \in Int
    BY <1>5, DivMod
  <2> QED
    BY <2>1, <2>2
<1>7. lost \in [D -> Int] /\ \A i \in D : 0 <= lost[i] /\ lost[i] <= unit - 1
  <2>1. \A i \in D : raw[i] % unit \in 0 .. (unit - 1)
    BY <1>5, DivMod
  <2> QED
    BY <1>4, <2>1
<1>8. \A i \in D : raw[i] = unit * floors[i] + lost[i]
  BY <1>4, <1>5, <1>6, DivMod
<1>9. PICK whole : whole = [i \in D |-> unit * floors[i] + 0 * lost[i]]
  OBVIOUS
<1>10. whole \in [D -> Int] /\ \A i \in D : whole[i] = unit * floors[i]
  BY <1>6, <1>7, <1>9
<1>11. SumOf(floors) \in Int /\ SumOf(lost) \in Int /\ SumOf(raw) \in Int
  BY <1>2, <1>5, <1>6, <1>7, SumInt
<1>12. SumOf(whole) = unit * SumOf(floors)
  <2>1. PICK zero \in Int : zero = 0
    OBVIOUS
  <2>2. whole = [i \in D |-> unit * floors[i] + zero * lost[i]]
    BY <1>9, <2>1
  <2>3. SumOf(whole) = unit * SumOf(floors) + zero * SumOf(lost)
    <3> HIDE <2>1
    <3> QED
      BY <1>2, <1>6, <1>7, <2>2, SumCombined
  <2> QED
    BY <1>11, <2>1, <2>3
<1>13. raw = [i \in D |-> whole[i] + lost[i]]
  <2>1. \A i \in D : raw[i] = whole[i] + lost[i]
    BY <1>8, <1>10
  <2> HIDE <1>8, <1>10
  <2> QED
    BY <1>5, <2>1
<1>14. SumOf(raw) = SumOf(whole) + SumOf(lost)
  BY <1>2, <1>7, <1>10, <1>13, SumAdded
<1>15. 0 <= SumOf(lost) /\ SumOf(lost) <= n * (unit - 1)
  <2>1. unit - 1 \in Int /\ 0 \in Int
    OBVIOUS
  <2>2. 0 * Cardinality(D) <= SumOf(lost) /\ SumOf(lost) <= (unit - 1) * Cardinality(D)
    <3>1. PICK low \in Int, high \in Int : low = 0 /\ high = unit - 1
      BY <2>1
    <3>2. \A x \in D : low <= lost[x] /\ lost[x] <= high
      BY <1>7, <3>1
    <3>3. low * Cardinality(D) <= SumOf(lost) /\ SumOf(lost) <= high * Cardinality(D)
      BY <1>2, <1>7, <3>2, SumWithin
    <3> QED
      BY <3>1, <3>3
  <2> QED
    BY <1>2, <2>2
<1> QED
  BY <1>3, <1>11, <1>12, <1>14, <1>15

(* The floors of raw weights that sum to the total, to less than one unit  *)
(* more or less, leave between none and one basis point per sleeve to hand *)
(* out.                                                                    *)
LEMMA MissingBound ==
    ASSUME NEW n \in Nat, NEW raw \in Raws(n), NEW unit \in Nat \ {0}, NEW total \in Nat,
           SumOf(raw) - unit * total < unit, unit * total - SumOf(raw) < unit
    PROVE  Missing(raw, total, unit) \in 0 .. n
<1>1. PICK f \in Int : f = SumOf(Floors(raw, unit))
  BY FloorsLose
<1>2. PICK s \in Int : s = SumOf(raw)
  BY FloorsLose
<1>3. 0 <= s - unit * f /\ s - unit * f <= n * (unit - 1)
  BY <1>1, <1>2, FloorsLose
<1>4. s - unit * total < unit /\ unit * total - s < unit
  BY <1>2
<1>5. total - f >= 0
  <2> SUFFICES ASSUME total - f <= -1 PROVE FALSE
    OBVIOUS
  <2>1. total + 1 <= f
    OBVIOUS
  <2>2. unit * (total + 1) <= unit * f
    BY <2>1
  <2>3. unit * (total + 1) = unit * total + unit
    OBVIOUS
  <2> QED
    BY <1>3, <1>4, <2>2, <2>3
<1>6. total - f <= n
  <2> SUFFICES ASSUME total - f >= n + 1 PROVE FALSE
    OBVIOUS
  <2>1. f + n + 1 <= total
    OBVIOUS
  <2>2. unit * (f + n + 1) <= unit * total
    BY <2>1
  <2>3. unit * (f + n + 1) = unit * f + unit * n + unit /\ n * (unit - 1) = unit * n - n
    OBVIOUS
  <2> QED
    BY <1>3, <1>4, <2>2, <2>3
<1> QED
  BY <1>1, <1>5, <1>6 DEF Missing

(* No weight exceeds the total, if no floor does: a sleeve whose floor is  *)
(* the total leaves nothing missing.                                       *)
LEMMA AllocationWithin ==
    ASSUME NEW n \in Nat, NEW raw \in Raws(n), NEW unit \in Nat \ {0}, NEW total \in Nat,
           \A i \in 1 .. n : raw[i] \div unit <= total
    PROVE  ToBpsAllocation(raw, total, unit) \in [1 .. n -> 0 .. total]
<1>1. PICK floors : floors = Floors(raw, unit)
  OBVIOUS
<1>2. PICK m : m = Missing(raw, total, unit)
  OBVIOUS
<1>3. floors \in [1 .. n -> Nat] /\ m \in Int /\ m = total - SumOf(floors)
  BY <1>1, <1>2, AllocationIs DEF Missing
<1>4. \A i \in 1 .. n : floors[i] <= total
  BY <1>1 DEF Floors, Raws
<1>5. ToBpsAllocation(raw, total, unit) =
          [i \in 1 .. n |-> floors[i] + (IF Rank(raw, unit, i) < m THEN 1 ELSE 0)]
  <2>1. ToBpsAllocation(raw, total, unit) =
            [i \in 1 .. n |-> Floors(raw, unit)[i] +
                 (IF Rank(raw, unit, i) < Missing(raw, total, unit) THEN 1 ELSE 0)]
    BY AllocationIs
  <2> QED
    BY <1>1, <1>2, <2>1
<1>6. ASSUME NEW i \in 1 .. n
      PROVE  floors[i] + (IF Rank(raw, unit, i) < m THEN 1 ELSE 0) \in 0 .. total
  <2>1. floors[i] \in Nat /\ floors[i] <= total
    BY <1>3, <1>4
  <2>2. CASE floors[i] < total
    BY <2>1, <2>2
  <2>3. CASE floors[i] = total
    <3>1. floors[i] <= SumOf(floors)
      BY <1>3, AtLeastEach
    <3>2. SumOf(floors) \in Int
      BY <1>3, SumInt, FS_Interval
    <3>3. m <= 0
      BY <1>3, <2>3, <3>1, <3>2
    <3>4. Rank(raw, unit, i) \in Nat
      BY RankRange
    <3>5. ~(Rank(raw, unit, i) < m)
      BY <1>3, <3>3, <3>4
    <3> QED
      BY <2>1, <3>5
  <2> QED
    BY <2>1, <2>2, <2>3
<1> QED
  BY <1>5, <1>6
=============================================================================
