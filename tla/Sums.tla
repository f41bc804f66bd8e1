-------------------------------- MODULE Sums --------------------------------
(***************************************************************************)
(* What SumFunctionOnSet of the community modules computes, for every      *)
(* finite set: the facts the totals of the other modules rest on.  The     *)
(* operator is a recursive function on the subsets of a set; each fact is  *)
(* shown for a smallest set that would break it.                           *)
(***************************************************************************)
EXTENDS Integers, Functions, FiniteSetTheorems, WellFoundedInduction, TLAPS

(* A set of natural numbers has a least element.                           *)
LEMMA Least ==
  ASSUME NEW T \in SUBSET Nat, T # {}
  PROVE  \E x \in T : \A y \in T : x <= y
<1> DEFINE R == {ss \in Nat \X Nat : ss[1] < ss[2]}
<1>1. R = OpToRel(<, Nat)
  BY DEF OpToRel
<1>2. IsWellFoundedOn(R, Nat)
  BY <1>1, NatLessThanWellFounded
<1>3. \A x, y \in Nat : x < y => <<x, y>> \in R
  OBVIOUS
<1> HIDE DEF R
<1>4. PICK x \in T : \A y \in T : ~(<<y, x>> \in R)
  BY <1>2, WFMin
<1>5. \A y \in T : ~(y < x)
  BY <1>3, <1>4
<1> QED
  BY <1>4, <1>5

(* Of a family of finite sets, one contains no other.                      *)
LEMMA SmallestSet ==
  ASSUME NEW S, IsFiniteSet(S), NEW B \in SUBSET SUBSET S, B # {}
  PROVE  \E T \in B : \A U \in B : U \subseteq T => U = T
<1>1. \A T \in SUBSET S : IsFiniteSet(T) /\ Cardinality(T) \in Nat
  BY FS_Subset, FS_CardinalityType
<1> DEFINE N == {Cardinality(T) : T \in B}
<1>2. N \in SUBSET Nat /\ N # {}
  BY <1>1
<1>3. PICK n \in N : \A m \in N : n <= m
  BY <1>2, Least
<1>4. PICK T \in B : n = Cardinality(T)
  BY <1>3
<1>5. ASSUME NEW U \in B, U \subseteq T PROVE U = T
  <2>1. Cardinality(U) >= Cardinality(T)
    BY <1>3, <1>4
  <2>2. Cardinality(U) <= Cardinality(T) /\ (Cardinality(U) = Cardinality(T) => U = T)
    BY <1>1, <1>4, <1>5, FS_Subset
  <2> QED
    BY <1>1, <2>1, <2>2
<1> QED
  BY <1>4, <1>5

-----------------------------------------------------------------------------
(* g is the recursive function that sums f over the subsets of S.          *)
AnyOf(T) == CHOOSE x \in T : TRUE
IsSum(g, f, S) ==
    g = [T \in SUBSET S |-> IF T = {} THEN 0 ELSE f[AnyOf(T)] + g[T \ {AnyOf(T)}]]

LEMMA PickIn == \A T : T # {} => AnyOf(T) \in T
  BY DEF AnyOf

LEMMA RemovePick ==
  ASSUME NEW T, IsFiniteSet(T), NEW x \in T
  PROVE  /\ IsFiniteSet(T \ {x}) /\ T \ {x} # T
         /\ Cardinality(T) \in Nat /\ Cardinality(T \ {x}) = Cardinality(T) - 1
  BY FS_RemoveElement, FS_CardinalityType

(* There is such a function: one that is right for all sets of n elements  *)
(* gives one that is right for all sets of n + 1.                          *)
LEMMA SumsExists ==
  ASSUME NEW S, IsFiniteSet(S), NEW f
  PROVE  \E g : IsSum(g, f, S)
<1> DEFINE Value(g, T) == IF T = {} THEN 0 ELSE f[AnyOf(T)] + g[T \ {AnyOf(T)}]
           Upto(g, n) == /\ DOMAIN g = SUBSET S /\ g = [T \in SUBSET S |-> g[T]]
                         /\ \A T \in SUBSET S : Cardinality(T) <= n => g[T] = Value(g, T)
           Bad == {n \in Nat : ~\E g : Upto(g, n)}
<1>1. \A T \in SUBSET S : IsFiniteSet(T) /\ Cardinality(T) \in Nat /\ (Cardinality(T) = 0 <=> T = {})
  BY FS_Subset, FS_CardinalityType, FS_EmptySet
<1>2. 0 \notin Bad
  <2> DEFINE z == [T \in SUBSET S |-> 0]
  <2>1. Upto(z, 0)
    BY <1>1
  <2> QED
    BY <2>1
<1>3. ASSUME NEW n \in Nat, n \notin Bad PROVE n + 1 \notin Bad
  <2>1. PICK g : Upto(g, n)
    BY <1>3
  <2> DEFINE h == [T \in SUBSET S |-> IF Cardinality(T) <= n THEN g[T] ELSE Value(g, T)]
  <2>2. ASSUME NEW T \in SUBSET S, Cardinality(T) <= n + 1 PROVE h[T] = Value(h, T)
    <3>1. CASE T = {}
      <4>1. Cardinality(T) = 0
        BY <3>1, <1>1
      <4> QED
        BY <3>1, <4>1, <2>1
    <3>2. CASE T # {}
      <4> DEFINE U == T \ {AnyOf(T)}
      <4>1. U \in SUBSET S /\ Cardinality(U) = Cardinality(T) - 1 /\ Cardinality(T) \in Nat
        BY <3>2, <1>1, PickIn, RemovePick
      <4>2. h[U] = g[U]
        BY <4>1, <2>2
      <4>3. h[T] = Value(g, T)
        BY <2>1
      <4> QED
        BY <3>2, <4>2, <4>3
    <3> QED
      BY <3>1, <3>2
  <2>3. Upto(h, n + 1)
    BY <2>2
  <2> QED
    BY <2>3
<1>4. Bad = {}
  <2> Bad \subseteq Nat
    OBVIOUS
  <2> HIDE DEF Bad
  <2>1. SUFFICES ASSUME Bad # {} PROVE FALSE
    OBVIOUS
  <2>2. PICK n \in Bad : \A m \in Bad : n <= m
    BY <2>1, Least
  <2>3. n # 0 /\ n - 1 \in Nat
    BY <1>2, <2>2
  <2>4. n - 1 \notin Bad
    BY <2>2, <2>3
  <2>5. (n - 1) + 1 \notin Bad
    BY <1>3, <2>3, <2>4
  <2> QED
    BY <2>2, <2>5
<1>5. PICK g : Upto(g, Cardinality(S))
  BY <1>1, <1>4
<1>6. \A T \in SUBSET S : Cardinality(T) <= Cardinality(S)
  BY FS_Subset
<1>7. \A T \in SUBSET S : g[T] = Value(g, T)
  BY <1>5, <1>6
<1>8. IsSum(g, f, S)
  BY <1>5, <1>7 DEF IsSum
<1> QED
  BY <1>8

(* Two such functions agree, whatever sets they are defined on.            *)
LEMMA SumsAgree ==
  ASSUME NEW S, IsFiniteSet(S), NEW f, NEW g, IsSum(g, f, S), NEW U \in SUBSET S,
         NEW e, NEW h, IsSum(h, e, U), \A x \in U : e[x] = f[x]
  PROVE  \A T \in SUBSET U : g[T] = h[T]
<1> DEFINE B == {T \in SUBSET U : g[T] # h[T]}
<1>1. SUFFICES ASSUME B # {} PROVE FALSE
  OBVIOUS
<1>2. PICK T \in B : \A V \in B : V \subseteq T => V = T
  <2>1. B \in SUBSET SUBSET S
    OBVIOUS
  <2> HIDE DEF B
  <2> QED
    BY <1>1, <2>1, SmallestSet
<1>3. /\ g[T] = IF T = {} THEN 0 ELSE f[AnyOf(T)] + g[T \ {AnyOf(T)}]
      /\ h[T] = IF T = {} THEN 0 ELSE e[AnyOf(T)] + h[T \ {AnyOf(T)}]
  BY DEF IsSum
<1>4. T # {}
  BY <1>2, <1>3
<1>5. AnyOf(T) \in T /\ T \ {AnyOf(T)} # T /\ T \ {AnyOf(T)} \in SUBSET U
  BY <1>4, PickIn
<1>6. g[T \ {AnyOf(T)}] = h[T \ {AnyOf(T)}]
  BY <1>2, <1>5
<1>7. f[AnyOf(T)] = e[AnyOf(T)]
  BY <1>5
<1> QED
  BY <1>2, <1>3, <1>6, <1>7

-----------------------------------------------------------------------------
LEMMA SumIs ==
  ASSUME NEW f, NEW S, IsFiniteSet(S)
  PROVE  \E g : IsSum(g, f, S) /\ SumFunctionOnSet(f, S) = g[S]
<1> DEFINE g == CHOOSE x : IsSum(x, f, S)
<1>1. IsSum(g, f, S)
  BY SumsExists, Zenon
<1>2. SumFunctionOnSet(f, S) = g[S]
  BY DEF SumFunctionOnSet, FoldFunctionOnSet, MapThenFoldSet, IsSum, AnyOf
<1> QED
  BY <1>1, <1>2

(* The sum over no element is 0.                                           *)
LEMMA SumEmpty ==
  ASSUME NEW f
  PROVE  SumFunctionOnSet(f, {}) = 0
<1>1. PICK g : IsSum(g, f, {}) /\ SumFunctionOnSet(f, {}) = g[{}]
  BY SumIs, FS_EmptySet
<1> QED
  BY <1>1 DEF IsSum

(* Functions that agree on a set have the same sum over it.                *)
LEMMA SumSame ==
  ASSUME NEW S, IsFiniteSet(S), NEW f, NEW e, \A x \in S : e[x] = f[x]
  PROVE  SumFunctionOnSet(e, S) = SumFunctionOnSet(f, S)
<1>1. PICK g : IsSum(g, f, S) /\ SumFunctionOnSet(f, S) = g[S]
  BY SumIs
<1>2. PICK h : IsSum(h, e, S) /\ SumFunctionOnSet(e, S) = h[S]
  BY SumIs
<1> QED
  BY <1>1, <1>2, SumsAgree

(* The sum of nothing but zeros is 0.                                      *)
LEMMA SumZero ==
  ASSUME NEW S, IsFiniteSet(S), NEW f, \A x \in S : f[x] = 0
  PROVE  SumFunctionOnSet(f, S) = 0
<1> DEFINE h == [T \in SUBSET S |-> 0]
<1>1. PICK g : IsSum(g, f, S) /\ SumFunctionOnSet(f, S) = g[S]
  BY SumIs
<1>2. IsSum(h, f, S)
  <2>1. ASSUME NEW T \in SUBSET S
        PROVE  0 = IF T = {} THEN 0 ELSE f[AnyOf(T)] + h[T \ {AnyOf(T)}]
    <3>1. CASE T = {}
      BY <3>1
    <3>2. CASE T # {}
      <4>1. AnyOf(T) \in S /\ T \ {AnyOf(T)} \in SUBSET S
        BY <3>2, PickIn
      <4> QED
        BY <3>2, <4>1
    <3> QED
      BY <3>1, <3>2
  <2> QED
    BY <2>1 DEF IsSum
<1>3. g[S] = h[S]
  BY <1>1, <1>2, SumsAgree
<1> QED
  BY <1>1, <1>3

(* The sum of natural numbers is one, and any element can be taken first.  *)
LEMMA SumsStep ==
  ASSUME NEW S, IsFiniteSet(S), NEW f, \A x \in S : f[x] \in Nat, NEW g, IsSum(g, f, S)
  PROVE  \A T \in SUBSET S : g[T] \in Nat /\ \A y \in T : g[T] = f[y] + g[T \ {y}]
<1> DEFINE Good(T) == g[T] \in Nat /\ \A x \in T : g[T] = f[x] + g[T \ {x}]
           B == {T \in SUBSET S : ~Good(T)}
<1>1. SUFFICES ASSUME B # {} PROVE FALSE
  OBVIOUS
<1>2. PICK T \in B : \A V \in B : V \subseteq T => V = T
  <2>1. B \in SUBSET SUBSET S
    OBVIOUS
  <2> HIDE DEF B
  <2> QED
    BY <1>1, <2>1, SmallestSet
<1>3. \A V \in SUBSET S : g[V] = IF V = {} THEN 0 ELSE f[AnyOf(V)] + g[V \ {AnyOf(V)}]
  BY DEF IsSum
<1>4. T # {}
  <2>1. g[{}] = 0
    BY <1>3
  <2>2. Good({})
    BY <2>1
  <2> QED
    BY <1>2, <2>2
<1> DEFINE c == AnyOf(T)
<1>5. c \in T
  BY <1>4, PickIn
<1>6. \A x \in T : T \ {x} \in SUBSET S /\ Good(T \ {x})
  <2>1. \A x \in T : T \ {x} \subseteq T /\ T \ {x} # T
    OBVIOUS
  <2> QED
    BY <1>2, <2>1
<1>7. g[T] = f[c] + g[T \ {c}]
  BY <1>3, <1>4
<1> HIDE DEF c
<1>8. g[T] \in Nat
  <2>1. f[c] \in Nat /\ g[T \ {c}] \in Nat
    BY <1>5, <1>6
  <2> QED
    BY <1>7, <2>1
<1>9. ASSUME NEW x \in T, x # c PROVE g[T] = f[x] + g[T \ {x}]
  <2>1. g[T \ {c}] = f[x] + g[(T \ {c}) \ {x}]
    BY <1>5, <1>6, <1>9
  <2>2. g[T \ {x}] = f[c] + g[(T \ {x}) \ {c}]
    BY <1>5, <1>6, <1>9
  <2>3. (T \ {c}) \ {x} = (T \ {x}) \ {c}
    OBVIOUS
  <2>4. (T \ {c}) \ {x} \in SUBSET S /\ g[(T \ {c}) \ {x}] \in Nat
    <3>1. (T \ {c}) \ {x} \subseteq T /\ (T \ {c}) \ {x} # T
      BY <1>5
    <3> QED
      BY <1>2, <3>1
  <2>5. f[x] \in Nat /\ f[c] \in Nat
    BY <1>5
  <2> QED
    BY <1>7, <2>1, <2>2, <2>3, <2>4, <2>5
<1> QED
  BY <1>2, <1>7, <1>8, <1>9

(* A sum of natural numbers is a natural number.                           *)
LEMMA SumType ==
  ASSUME NEW S, IsFiniteSet(S), NEW f, \A x \in S : f[x] \in Nat
  PROVE  SumFunctionOnSet(f, S) \in Nat
<1>1. PICK g : IsSum(g, f, S) /\ SumFunctionOnSet(f, S) = g[S]
  BY SumIs
<1> QED
  BY <1>1, SumsStep

(* One element apart, the sum is that element and the sum of the others.   *)
LEMMA SumRemove ==
  ASSUME NEW S, IsFiniteSet(S), NEW f, \A x \in S : f[x] \in Nat, NEW x \in S
  PROVE  SumFunctionOnSet(f, S) = f[x] + SumFunctionOnSet(f, S \ {x})
<1>1. PICK g : IsSum(g, f, S) /\ SumFunctionOnSet(f, S) = g[S]
  BY SumIs
<1>2. IsFiniteSet(S \ {x}) /\ S \ {x} \in SUBSET S
  BY FS_Subset
<1>3. PICK h : IsSum(h, f, S \ {x}) /\ SumFunctionOnSet(f, S \ {x}) = h[S \ {x}]
  BY <1>2, SumIs
<1>4. g[S \ {x}] = h[S \ {x}]
  BY <1>1, <1>2, <1>3, SumsAgree
<1>5. IsSum(g, f, S)
  BY <1>1
<1>6. \A T \in SUBSET S : g[T] \in Nat /\ \A y \in T : g[T] = f[y] + g[T \ {y}]
  <2> HIDE DEF IsSum
  <2>1. \A y \in S : f[y] \in Nat
    OBVIOUS
  <2> QED
    BY <1>5, <2>1, SumsStep, Z3
<1>7. g[S] = f[x] + g[S \ {x}]
  BY <1>6
<1> QED
  BY <1>1, <1>3, <1>4, <1>7

(* One value changed, the sum changes by as much.                          *)
LEMMA SumChange ==
  ASSUME NEW S, IsFiniteSet(S), NEW f, NEW e, NEW x \in S,
         \A y \in S : f[y] \in Nat /\ e[y] \in Nat,
         \A y \in S \ {x} : e[y] = f[y]
  PROVE  /\ SumFunctionOnSet(f, S) \in Nat
         /\ SumFunctionOnSet(e, S) = SumFunctionOnSet(f, S) + (e[x] - f[x])
<1>1. IsFiniteSet(S \ {x})
  BY FS_Subset
<1>2. SumFunctionOnSet(e, S \ {x}) = SumFunctionOnSet(f, S \ {x})
  BY <1>1, SumSame
<1>3. /\ SumFunctionOnSet(f, S) = f[x] + SumFunctionOnSet(f, S \ {x})
      /\ SumFunctionOnSet(e, S) = e[x] + SumFunctionOnSet(e, S \ {x})
  BY SumRemove
<1>4. SumFunctionOnSet(f, S \ {x}) \in Nat
  BY <1>1, SumType
<1>5. f[x] \in Nat /\ e[x] \in Nat
  OBVIOUS
<1> HIDE DEF SumFunctionOnSet
<1> QED
  BY <1>2, <1>3, <1>4, <1>5

(* A sum of smaller numbers is not larger.                                 *)
LEMMA SumMonotone ==
  ASSUME NEW S, IsFiniteSet(S), NEW f, NEW e,
         \A x \in S : f[x] \in Nat /\ e[x] \in Nat /\ e[x] <= f[x]
  PROVE  SumFunctionOnSet(e, S) <= SumFunctionOnSet(f, S)
<1> DEFINE F(T) == SumFunctionOnSet(f, T)
           E(T) == SumFunctionOnSet(e, T)
           B == {T \in SUBSET S : ~(E(T) <= F(T))}
<1>1. ASSUME NEW T \in SUBSET S
      PROVE  IsFiniteSet(T) /\ F(T) \in Nat /\ E(T) \in Nat
  <2>1. IsFiniteSet(T)
    BY FS_Subset
  <2>2. (\A x \in T : f[x] \in Nat) /\ \A x \in T : e[x] \in Nat
    OBVIOUS
  <2> QED
    BY <2>1, <2>2, SumType
<1>2. ASSUME NEW T \in SUBSET S, NEW x \in T
      PROVE  F(T) = f[x] + F(T \ {x}) /\ E(T) = e[x] + E(T \ {x})
  <2>1. (\A y \in T : f[y] \in Nat) /\ \A y \in T : e[y] \in Nat
    OBVIOUS
  <2> QED
    BY <1>1, <2>1, SumRemove
<1>3. F({}) = 0 /\ E({}) = 0
  BY SumEmpty
<1> HIDE DEF E, F
<1>4. ASSUME B # {} PROVE FALSE
  <2>1. PICK T \in B : \A V \in B : V \subseteq T => V = T
    <3>1. B \in SUBSET SUBSET S
      OBVIOUS
    <3> HIDE DEF B
    <3> QED
      BY <1>4, <3>1, SmallestSet
  <2>2. PICK x \in T : TRUE
    <3>1. ~(E(T) <= F(T))
      BY <2>1
    <3>2. 0 <= 0
      OBVIOUS
    <3>3. T # {}
      BY <1>3, <3>1, <3>2
    <3> QED
      BY <3>3
  <2>3. T \ {x} \in SUBSET S /\ E(T \ {x}) <= F(T \ {x})
    <3>1. T \ {x} \subseteq T /\ T \ {x} # T
      BY <2>2
    <3> QED
      BY <2>1, <3>1
  <2>4. F(T) = f[x] + F(T \ {x}) /\ E(T) = e[x] + E(T \ {x})
    BY <1>2, <2>2
  <2>5. /\ e[x] \in Nat /\ f[x] \in Nat /\ e[x] <= f[x]
        /\ F(T \ {x}) \in Nat /\ E(T \ {x}) \in Nat
    BY <1>1, <2>2, <2>3
  <2> QED
    BY <2>3, <2>4, <2>5
<1>5. S \notin B
  BY <1>4
<1> QED
  BY <1>5 DEF E, F

(* A constant is summed as often as there are elements.                    *)
LEMMA SumConstant ==
  ASSUME NEW S, IsFiniteSet(S), NEW c \in Nat, NEW f, \A x \in S : f[x] = c
  PROVE  SumFunctionOnSet(f, S) = Cardinality(S) * c
<1> DEFINE F(T) == SumFunctionOnSet(f, T)
           B == {T \in SUBSET S : F(T) # Cardinality(T) * c}
<1>1. ASSUME NEW T \in SUBSET S, NEW x \in T
      PROVE  /\ F(T) = c + F(T \ {x})
             /\ Cardinality(T) = Cardinality(T \ {x}) + 1 /\ Cardinality(T \ {x}) \in Nat
  <2>1. IsFiniteSet(T)
    BY FS_Subset
  <2>2. \A y \in T : f[y] \in Nat
    OBVIOUS
  <2>3. F(T) = f[x] + F(T \ {x})
    BY <2>1, <2>2, SumRemove
  <2>4. Cardinality(T) \in Nat /\ Cardinality(T \ {x}) = Cardinality(T) - 1
    BY <2>1, FS_RemoveElement, FS_CardinalityType
  <2>5. IsFiniteSet(T \ {x}) /\ Cardinality(T \ {x}) \in Nat
    BY <2>1, FS_RemoveElement, FS_CardinalityType
  <2> QED
    BY <2>3, <2>4, <2>5
<1>2. F({}) = 0 /\ Cardinality({}) = 0
  BY SumEmpty, FS_EmptySet
<1> HIDE DEF F
<1>3. ASSUME B # {} PROVE FALSE
  <2>1. PICK T \in B : \A V \in B : V \subseteq T => V = T
    <3>1. B \in SUBSET SUBSET S
      OBVIOUS
    <3> HIDE DEF B
    <3> QED
      BY <1>3, <3>1, SmallestSet
  <2>2. PICK x \in T : TRUE
    <3>1. F(T) # Cardinality(T) * c
      BY <2>1
    <3>2. 0 = 0 * c
      OBVIOUS
    <3>3. T # {}
      BY <1>2, <3>1, <3>2
    <3> QED
      BY <3>3
  <2>3. F(T \ {x}) = Cardinality(T \ {x}) * c
    <3>1. T \ {x} \subseteq T /\ T \ {x} # T
      BY <2>2
    <3> QED
      BY <2>1, <3>1
  <2>4. \A n \in Nat : c + n * c = (n + 1) * c
    OBVIOUS
  <2>5. F(T) = Cardinality(T) * c
    BY <1>1, <2>2, <2>3, <2>4
  <2> QED
    BY <2>1, <2>5
<1>4. S \notin B
  BY <1>3
<1> QED
  BY <1>4 DEF F
=============================================================================
