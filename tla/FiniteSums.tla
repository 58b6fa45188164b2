------------------------------ MODULE FiniteSums ------------------------------
(***************************************************************************)
(* What the proofs need to know of finite sets and of sums over them, which  *)
(* the models take from the community modules (MapThenSumSet).  Induction   *)
(* is over a set of subsets.                                                *)
(***************************************************************************)
EXTENDS Integers, FiniteSets, FiniteSetsExt, FiniteSetTheorems, WellFoundedInduction, TLAPS

-----------------------------------------------------------------------------
(* Induction *)

LEMMA LeastNat ==
  ASSUME NEW S \in SUBSET Nat, S # {}
  PROVE  \E n \in S : \A m \in S : n <= m
<1> DEFINE Less == OpToRel(<, Nat)
<1>1. \A m \in Nat, n \in Nat : m < n => <<m, n>> \in Less
  BY DEF OpToRel
<1>2. IsWellFoundedOn(Less, Nat)
  BY NatLessThanWellFounded
<1> HIDE DEF Less
<1>3. PICK n \in S : \A m \in S : <<m, n>> \notin Less
  BY <1>2, WFMin
<1>4. \A m \in S : m \in Nat /\ n \in Nat /\ ~(m < n)
  BY <1>1, <1>3, Zenon
<1>5. \A m \in S : n <= m
  BY <1>4
<1> QED
  BY <1>5

LEMMA LeastCardinality ==
  ASSUME NEW S, S # {}, \A P \in S : Cardinality(P) \in Nat
  PROVE  \E P \in S : \A Q \in S : Cardinality(P) <= Cardinality(Q)
<1> DEFINE sizes == {Cardinality(P) : P \in S}
<1>1. sizes \in SUBSET Nat /\ sizes # {}
  OBVIOUS
<1>2. PICK n \in sizes : \A m \in sizes : n <= m
  <2> HIDE DEF sizes
  <2> QED BY <1>1, LeastNat
<1> QED
  BY <1>2

LEMMA SubsetInduction ==
  ASSUME NEW S, IsFiniteSet(S), NEW Good,
         {} \in Good,
         \A T \in SUBSET S : T # {} /\ (\A x \in T : T \ {x} \in Good) => T \in Good
  PROVE  SUBSET S \subseteq Good
<1> SUFFICES ASSUME (SUBSET S) \ Good # {} PROVE FALSE
  OBVIOUS
<1>1. \A T \in SUBSET S : IsFiniteSet(T) /\ Cardinality(T) \in Nat
  BY FS_Subset, FS_CardinalityType
<1>2. PICK T \in (SUBSET S) \ Good : \A Q \in (SUBSET S) \ Good : Cardinality(T) <= Cardinality(Q)
  BY <1>1, LeastCardinality
<1>3. ASSUME NEW x \in T
      PROVE  T \ {x} \in Good
  <2>1. Cardinality(T \ {x}) = Cardinality(T) - 1
    BY <1>1, FS_RemoveElement
  <2> QED BY <1>1, <1>2, <2>1
<1>4. T \in SUBSET S /\ T # {} /\ T \notin Good
  BY <1>2
<1> QED
  BY <1>3, <1>4

-----------------------------------------------------------------------------
(* Sums *)

SumOf(f, S) == MapThenSumSet(LAMBDA x : f[x], S)

(* The function the fold chooses *)
One(S) == CHOOSE x \in S : TRUE
SumFn(f, S, g) == g = [T \in SUBSET S |-> IF T = {} THEN 0 ELSE f[One(T)] + g[T \ {One(T)}]]

LEMMA SumIsFn ==
  ASSUME NEW f, NEW S
  PROVE  SumOf(f, S) = (CHOOSE g : SumFn(f, S, g))[S]
BY DEF SumOf, MapThenSumSet, MapThenFoldSet, SumFn, One

LEMMA OneIn == ASSUME NEW S, S # {} PROVE One(S) \in S
BY DEF One

(* It is what it was on the subsets of a subset. *)
LEMMA FnUnique ==
  ASSUME NEW f, NEW S, IsFiniteSet(S), NEW R \in SUBSET S, NEW g, NEW h, SumFn(f, S, g), SumFn(f, R, h)
  PROVE  \A T \in SUBSET R : g[T] = h[T]
<1> DEFINE Good == {T \in SUBSET R : g[T] = h[T]}
<1>1. IsFiniteSet(R)
  BY FS_Subset
<1>2. {} \in Good
  BY DEF SumFn
<1>3. ASSUME NEW T \in SUBSET R, T # {}, \A x \in T : T \ {x} \in Good
      PROVE  T \in Good
  <2>1. g[T] = f[One(T)] + g[T \ {One(T)}] /\ h[T] = f[One(T)] + h[T \ {One(T)}]
    BY <1>3 DEF SumFn
  <2>2. g[T \ {One(T)}] = h[T \ {One(T)}]
    BY <1>3, OneIn
  <2> QED BY <2>1, <2>2
<1>4. SUBSET R \subseteq Good
  <2> HIDE DEF Good
  <2> QED BY <1>1, <1>2, <1>3, SubsetInduction
<1> QED
  BY <1>4

LEMMA FnExists ==
  ASSUME NEW f, NEW S, IsFiniteSet(S)
  PROVE  \E g : SumFn(f, S, g)
<1> DEFINE Good == {T \in SUBSET S : \E g : SumFn(f, T, g)}
           fn(T) == CHOOSE g : SumFn(f, T, g)
<1>1. {} \in Good
  <2>1. SumFn(f, {}, [T \in SUBSET {} |-> 0])
    BY DEF SumFn
  <2> QED BY <2>1
<1>2. ASSUME NEW T \in SUBSET S, T # {}, \A x \in T : T \ {x} \in Good
      PROVE  T \in Good
  <2> DEFINE g == [U \in SUBSET T |-> IF U = {} THEN 0 ELSE f[One(U)] + fn(U \ {One(U)})[U \ {One(U)}]]
  <2>1. IsFiniteSet(T) /\ \A U \in SUBSET T : IsFiniteSet(U)
    BY FS_Subset
  <2>2. ASSUME NEW U \in SUBSET T, U # T
        PROVE  \E h : SumFn(f, U, h)
    <3>1. PICK x \in T : x \notin U
      BY <2>2
    <3>2. PICK h : SumFn(f, T \ {x}, h)
      BY <1>2
    <3>3. SumFn(f, U, [V \in SUBSET U |-> h[V]])
      <4>1. U \subseteq T \ {x}
        BY <3>1
      <4>2. \A V \in SUBSET U : h[V] = IF V = {} THEN 0 ELSE f[One(V)] + h[V \ {One(V)}]
        BY <3>2, <4>1 DEF SumFn
      <4> QED BY <4>2 DEF SumFn
    <3> QED BY <3>3
  <2>3. \A U \in SUBSET T : U # T => SumFn(f, U, fn(U))
    BY <2>2
  <2> HIDE DEF fn
  <2>4. ASSUME NEW U \in SUBSET T, U # T
        PROVE  g[U] = fn(U)[U]
    <3>1. CASE U = {}
      BY <2>3, <2>4, <3>1 DEF SumFn
    <3>2. CASE U # {}
      <4>1. One(U) \in U
        BY <3>2, OneIn
      <4>2. SumFn(f, U \ {One(U)}, fn(U \ {One(U)})) /\ SumFn(f, U, fn(U))
        BY <2>3, <2>4, <4>1
      <4>3. fn(U)[U] = f[One(U)] + fn(U)[U \ {One(U)}]
        BY <3>2, <4>2 DEF SumFn
      <4>4. fn(U)[U \ {One(U)}] = fn(U \ {One(U)})[U \ {One(U)}]
        BY <2>1, <4>2, FnUnique
      <4> QED BY <3>2, <4>3, <4>4
    <3> QED BY <3>1, <3>2
  <2>5. SumFn(f, T, g)
    <3>1. ASSUME NEW U \in SUBSET T, U # {}
          PROVE  g[U] = f[One(U)] + g[U \ {One(U)}]
      <4>1. One(U) \in U
        BY <3>1, OneIn
      <4>2. g[U \ {One(U)}] = fn(U \ {One(U)})[U \ {One(U)}]
        BY <2>4, <4>1
      <4> QED BY <3>1, <4>2
    <3>2. g[{}] = 0 /\ g = [U \in SUBSET T |-> g[U]]
      OBVIOUS
    <3> HIDE DEF g
    <3> QED BY <3>1, <3>2 DEF SumFn
  <2> QED BY <2>5
<1>3. SUBSET S \subseteq Good
  <2> HIDE DEF Good
  <2> QED BY <1>1, <1>2, SubsetInduction
<1> QED
  BY <1>3

-----------------------------------------------------------------------------
LEMMA SumEmpty == ASSUME NEW f PROVE SumOf(f, {}) = 0
<1>1. \E g : SumFn(f, {}, g)
  BY FS_EmptySet, FnExists
<1>2. SumFn(f, {}, CHOOSE g : SumFn(f, {}, g))
  BY <1>1
<1> QED
  BY <1>2, SumIsFn DEF SumFn

LEMMA SumOne ==
  ASSUME NEW f, NEW S, IsFiniteSet(S), S # {}
  PROVE  SumOf(f, S) = f[One(S)] + SumOf(f, S \ {One(S)})
<1> DEFINE R == S \ {One(S)}
           s == CHOOSE g : SumFn(f, S, g)
           r == CHOOSE g : SumFn(f, R, g)
<1>1. R \in SUBSET S /\ IsFiniteSet(R) /\ SumOf(f, S) = s[S] /\ SumOf(f, R) = r[R]
  BY FS_Subset, SumIsFn
<1>2. SumFn(f, S, s) /\ SumFn(f, R, r)
  BY <1>1, FnExists
<1>3. s[S] = f[One(S)] + s[R]
  <2> HIDE DEF s
  <2> QED BY <1>2 DEF SumFn
<1> HIDE DEF s, r, R
<1>4. s[R] = r[R]
  BY <1>1, <1>2, FnUnique
<1> QED
  BY <1>1, <1>3, <1>4 DEF R

LEMMA SumType ==
  ASSUME NEW S, IsFiniteSet(S), NEW f, \A x \in S : f[x] \in Nat
  PROVE  SumOf(f, S) \in Nat
<1> DEFINE Good == {T \in SUBSET S : SumOf(f, T) \in Nat}
<1>1. {} \in Good
  BY SumEmpty
<1>2. ASSUME NEW T \in SUBSET S, T # {}, \A x \in T : T \ {x} \in Good
      PROVE  T \in Good
  <2>1. One(T) \in T /\ IsFiniteSet(T)
    BY <1>2, OneIn, FS_Subset
  <2>2. SumOf(f, T) = f[One(T)] + SumOf(f, T \ {One(T)})
    BY <1>2, <2>1, SumOne
  <2>3. f[One(T)] \in Nat /\ SumOf(f, T \ {One(T)}) \in Nat
    BY <1>2, <2>1
  <2> QED BY <2>2, <2>3
<1> HIDE DEF Good
<1>3. SUBSET S \subseteq Good
  BY <1>1, <1>2, SubsetInduction
<1> QED
  BY <1>3 DEF Good

(* Whatever element is taken first *)
LEMMA SumRemove ==
  ASSUME NEW S, IsFiniteSet(S), NEW f, \A x \in S : f[x] \in Nat, NEW y \in S
  PROVE  SumOf(f, S) = f[y] + SumOf(f, S \ {y})
<1> DEFINE Good == {T \in SUBSET S : \A x \in T : SumOf(f, T) = f[x] + SumOf(f, T \ {x})}
<1>1. {} \in Good
  OBVIOUS
<1>2. ASSUME NEW T \in SUBSET S, T # {}, \A x \in T : T \ {x} \in Good
      PROVE  T \in Good
  <2> DEFINE o == One(T)
  <2>1. o \in T /\ IsFiniteSet(T) /\ \A U \in SUBSET T : IsFiniteSet(U)
    BY <1>2, OneIn, FS_Subset
  <2>2. SumOf(f, T) = f[o] + SumOf(f, T \ {o})
    BY <1>2, <2>1, SumOne
  <2>3. SUFFICES ASSUME NEW x \in T, x # o PROVE SumOf(f, T) = f[x] + SumOf(f, T \ {x})
    BY <2>2
  <2>4. SumOf(f, T \ {o}) = f[x] + SumOf(f, (T \ {o}) \ {x})
    BY <1>2, <2>1, <2>3
  <2>5. SumOf(f, T \ {x}) = f[o] + SumOf(f, (T \ {x}) \ {o})
    BY <1>2, <2>1, <2>3
  <2>6. (T \ {o}) \ {x} = (T \ {x}) \ {o}
    OBVIOUS
  <2>7. f[x] \in Nat /\ f[o] \in Nat /\ SumOf(f, (T \ {x}) \ {o}) \in Nat
    <3>1. IsFiniteSet((T \ {x}) \ {o}) /\ \A z \in (T \ {x}) \ {o} : f[z] \in Nat
      BY <2>1
    <3> QED BY <2>1, <3>1, SumType
  <2> QED BY <2>2, <2>4, <2>5, <2>6, <2>7
<1> HIDE DEF Good
<1>3. SUBSET S \subseteq Good
  BY <1>1, <1>2, SubsetInduction
<1> QED
  BY <1>3 DEF Good

LEMMA SumUnion ==
  ASSUME NEW S, IsFiniteSet(S), NEW R, IsFiniteSet(R), R \cap S = {},
         NEW f, \A x \in S \cup R : f[x] \in Nat
  PROVE  SumOf(f, R \cup S) = SumOf(f, R) + SumOf(f, S)
<1> DEFINE Good == {T \in SUBSET S : SumOf(f, R \cup T) = SumOf(f, R) + SumOf(f, T)}
<1>1. {} \in Good
  <2>1. SumOf(f, R) \in Nat /\ R \cup {} = R
    BY SumType
  <2> QED BY <2>1, SumEmpty
<1>2. ASSUME NEW T \in SUBSET S, T # {}, \A x \in T : T \ {x} \in Good
      PROVE  T \in Good
  <2>1. PICK x \in T : TRUE
    BY <1>2
  <2>2. IsFiniteSet(T) /\ IsFiniteSet(T \ {x}) /\ IsFiniteSet(R \cup T)
    BY FS_Subset, FS_Union
  <2>3. SumOf(f, T) = f[x] + SumOf(f, T \ {x})
    BY <2>2, SumRemove
  <2>4. SumOf(f, R \cup T) = f[x] + SumOf(f, (R \cup T) \ {x})
    BY <2>2, SumRemove
  <2>5. (R \cup T) \ {x} = R \cup (T \ {x})
    OBVIOUS
  <2>6. SumOf(f, R \cup (T \ {x})) = SumOf(f, R) + SumOf(f, T \ {x})
    BY <1>2
  <2>7. f[x] \in Nat /\ SumOf(f, R) \in Nat /\ SumOf(f, T \ {x}) \in Nat
    BY <2>2, SumType
  <2> QED BY <2>3, <2>4, <2>5, <2>6, <2>7
<1> HIDE DEF Good
<1>3. SUBSET S \subseteq Good
  BY <1>1, <1>2, SubsetInduction
<1> QED
  BY <1>3 DEF Good

(* A part is no more than the whole, and no less if the rest is worth nothing. *)
LEMMA SumPart ==
  ASSUME NEW S, IsFiniteSet(S), NEW R \in SUBSET S, NEW f, \A x \in S : f[x] \in Nat
  PROVE  /\ SumOf(f, R) \in Nat /\ SumOf(f, S) \in Nat /\ SumOf(f, R) <= SumOf(f, S)
         /\ (\A x \in S \ R : f[x] = 0) => SumOf(f, R) = SumOf(f, S)
<1>1. IsFiniteSet(R) /\ IsFiniteSet(S \ R)
  BY FS_Subset
<1>2. SumOf(f, R) \in Nat /\ SumOf(f, S) \in Nat /\ SumOf(f, S \ R) \in Nat
  BY <1>1, SumType
<1>3. SumOf(f, S) = SumOf(f, R) + SumOf(f, S \ R)
  <2>1. R \cup (S \ R) = S /\ R \cap (S \ R) = {}
    OBVIOUS
  <2> QED BY <1>1, <2>1, SumUnion
<1>4. ASSUME \A x \in S \ R : f[x] = 0
      PROVE  SumOf(f, S \ R) = 0
  <2> DEFINE Good == {T \in SUBSET (S \ R) : SumOf(f, T) = 0}
  <2>1. {} \in Good
    BY SumEmpty
  <2>2. ASSUME NEW T \in SUBSET (S \ R), T # {}, \A x \in T : T \ {x} \in Good
        PROVE  T \in Good
    <3>1. One(T) \in T /\ IsFiniteSet(T)
      BY <1>1, <2>2, OneIn, FS_Subset
    <3>2. SumOf(f, T) = f[One(T)] + SumOf(f, T \ {One(T)})
      BY <2>2, <3>1, SumOne
    <3>3. f[One(T)] = 0 /\ SumOf(f, T \ {One(T)}) = 0
      BY <1>4, <2>2, <3>1
    <3> QED BY <3>2, <3>3
  <2> HIDE DEF Good
  <2>3. SUBSET (S \ R) \subseteq Good
    BY <1>1, <2>1, <2>2, SubsetInduction
  <2> QED
    BY <2>3 DEF Good
<1> QED
  BY <1>2, <1>3, <1>4
=============================================================================
