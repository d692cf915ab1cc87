------------------------------ MODULE SumTheorems ------------------------------
(***************************************************************************)
(* What SumFunctionOnSet of the community modules computes, for every      *)
(* finite set: a fold that takes the elements in an order of its own is a  *)
(* sum, whichever element is taken first.                                  *)
(*                                                                         *)
(* The library's induction theorems have an operator for a parameter.  The *)
(* proofs below go by the smallest counterexample instead: the subsets of  *)
(* a finite set are well-founded, so a set of them has a minimal member.   *)
(***************************************************************************)
EXTENDS FiniteSetsExt, FiniteSetTheorems, WellFoundedInduction, TLAPS

\* The element the fold takes first.
First(s) == CHOOSE x \in s : TRUE

\* h is what the fold computes on the way, for every part of S ...
AddsUp(f, S, h) ==
    h = [s \in SUBSET S |-> IF s = {} THEN 0 ELSE f[First(s)] + h[s \ {First(s)}]]

\* ... and at one part.
Adds(f, h, T) ==
    h[T] = IF T = {} THEN 0 ELSE f[First(T)] + h[T \ {First(T)}]

-------------------------------------------------------------------------------
(* The fold is well-defined *)

\* Among some parts of a finite set there is one that contains no other.
LEMMA Smallest ==
    ASSUME NEW S, IsFiniteSet(S), NEW B \in SUBSET (SUBSET S), B # {}
    PROVE  \E T \in B : \A U \in B : U \subseteq T => U = T
<1>1. FiniteSubsetsOf(S) = SUBSET S
  BY FS_FiniteSubsetsOfFinite, Zenon
<1>2. IsWellFoundedOn(StrictSubsetOrdering(S), SUBSET S)
  BY <1>1, FS_StrictSubsetOrderingWellFounded, Zenon
<1>3. PICK T \in B : \A U \in B : ~(<<U, T>> \in StrictSubsetOrdering(S))
  BY <1>2, WFMin, Zenon
<1> QED
  BY <1>3 DEF StrictSubsetOrdering

\* A part of S without the element that is taken first.
LEMMA FirstIsIn ==
    ASSUME NEW S, S # {}
    PROVE  /\ First(S) \in S
           /\ S \ {First(S)} \subseteq S
           /\ S \ {First(S)} # S
BY DEF First

\* The equation of the function is one for each part.
LEMMA AddsUpAt ==
    ASSUME NEW f, NEW S, NEW h, AddsUp(f, S, h), NEW T \in SUBSET S
    PROVE  Adds(f, h, T)
<1> DEFINE body(s) == IF s = {} THEN 0 ELSE f[First(s)] + h[s \ {First(s)}]
<1>1. h = [s \in SUBSET S |-> body(s)]
  BY DEF AddsUp
<1> HIDE DEF body
<1>2. h[T] = body(T)
  BY <1>1
<1> QED
  BY <1>2, Zenon DEF body, Adds

\* Two of them agree where both are defined, if they add the same terms.
LEMMA AddsUpOnce ==
    ASSUME NEW S, NEW T, NEW f, NEW g, NEW h, NEW i, AddsUp(f, S, h), AddsUp(g, T, i),
           NEW U, IsFiniteSet(U), U \subseteq S, U \subseteq T, \A x \in U : f[x] = g[x]
    PROVE  h[U] = i[U]
<1> DEFINE B == {V \in SUBSET U : h[V] # i[V]}
<1> SUFFICES ASSUME B # {} PROVE FALSE
  OBVIOUS
<1>1. PICK V \in B : \A W \in B : W \subseteq V => W = V
  <2> B \in SUBSET (SUBSET U)
    OBVIOUS
  <2> HIDE DEF B
  <2> QED
    BY Smallest
<1>2. V \in SUBSET U /\ V \in SUBSET S /\ V \in SUBSET T /\ h[V] # i[V]
  OBVIOUS
<1>3. Adds(f, h, V) /\ Adds(g, i, V)
  BY <1>2, AddsUpAt
<1>4. CASE V = {}
  BY <1>2, <1>3, <1>4 DEF Adds
<1>5. CASE V # {}
  <2>1. First(V) \in V /\ V \ {First(V)} \in SUBSET U /\ V \ {First(V)} # V
    BY <1>2, <1>5, FirstIsIn
  <2>2. h[V \ {First(V)}] = i[V \ {First(V)}]
    BY <1>1, <2>1
  <2>3. f[First(V)] = g[First(V)]
    BY <1>2, <2>1
  <2> QED
    BY ONLY <1>2, <1>3, <1>5, <2>2, <2>3, Zenon DEF Adds
<1> QED
  BY <1>4, <1>5

\* There is one: a part that has none while every smaller one does would get one.
LEMMA AddsUpExists ==
    ASSUME NEW S, IsFiniteSet(S), NEW f
    PROVE  \E h : AddsUp(f, S, h)
<1> DEFINE B == {T \in SUBSET S : ~ \E h : AddsUp(f, T, h)}
<1> SUFFICES ASSUME B # {} PROVE FALSE
  OBVIOUS
<1>1. PICK T \in B : \A U \in B : U \subseteq T => U = T
  <2> B \in SUBSET (SUBSET S)
    OBVIOUS
  <2> HIDE DEF B
  <2> QED
    BY Smallest
<1>2. T \in SUBSET S /\ ~ \E h : AddsUp(f, T, h)
  OBVIOUS
<1>3. ASSUME NEW U \in SUBSET T, U # T PROVE \E h : AddsUp(f, U, h)
  BY <1>1, <1>2, <1>3
<1> HIDE DEF B
<1> DEFINE some(U) == CHOOSE h : AddsUp(f, U, h)
           sum(U) == IF U = {} THEN 0 ELSE f[First(U)] + some(U \ {First(U)})[U \ {First(U)}]
           all == [U \in SUBSET T |-> sum(U)]
<1>4. ASSUME NEW U \in SUBSET T, U # T PROVE AddsUp(f, U, some(U))
  BY <1>3, <1>4
<1>5. ASSUME NEW U \in SUBSET T, U # {}
      PROVE  all[U \ {First(U)}] = some(U \ {First(U)})[U \ {First(U)}]
  <2> DEFINE V == U \ {First(U)}
  <2>1. V \in SUBSET T /\ V # T
    BY <1>5, FirstIsIn
  <2>2. AddsUp(f, V, some(V))
    BY <1>4, <2>1
  <2>3. all[V] = sum(V)
    BY <2>1
  <2>4. /\ V = {} => some(V)[V] = 0
        /\ V # {} => some(V)[V] = f[First(V)] + some(V)[V \ {First(V)}]
    <3> HIDE DEF V, some
    <3>1. Adds(f, some(V), V)
      BY <2>2, AddsUpAt
    <3> QED
      BY ONLY <3>1, Zenon DEF Adds
  <2>5. CASE V = {}
    BY <2>3, <2>4, <2>5
  <2>6. CASE V # {}
    <3> DEFINE W == V \ {First(V)}
    <3>1. W \in SUBSET V /\ W # T /\ W \in SUBSET T
      BY <2>1, <2>6, FirstIsIn
    <3>2. AddsUp(f, W, some(W))
      BY <1>4, <3>1
    <3>3. IsFiniteSet(W)
      BY <3>1, <1>2, FS_Subset
    <3>4. some(V)[W] = some(W)[W]
      <4> HIDE DEF V, W, some
      <4> QED
        BY <2>2, <3>1, <3>2, <3>3, AddsUpOnce
    <3> HIDE DEF some
    <3> QED
      BY <2>3, <2>4, <2>6, <3>4
  <2> QED
    BY <2>5, <2>6
<1>6. all = [U \in SUBSET T |-> IF U = {} THEN 0 ELSE f[First(U)] + all[U \ {First(U)}]]
  <2> DEFINE other(U) == IF U = {} THEN 0 ELSE f[First(U)] + all[U \ {First(U)}]
  <2>1. ASSUME NEW U \in SUBSET T PROVE sum(U) = other(U)
    <3> HIDE DEF all, some
    <3> QED
      BY <1>5, <2>1
  <2> HIDE DEF sum, other
  <2>2. all = [U \in SUBSET T |-> other(U)]
    BY <2>1
  <2> QED
    BY <2>2 DEF other
<1> HIDE DEF all
<1>7. AddsUp(f, T, all)
  BY <1>6, Zenon DEF AddsUp
<1> QED
  BY <1>2, <1>7

\* SumFunctionOnSet is what such an h says.
LEMMA SumAddsUp ==
    ASSUME NEW S, IsFiniteSet(S), NEW f, NEW h, AddsUp(f, S, h), NEW T \in SUBSET S
    PROVE  SumFunctionOnSet(f, T) = h[T]
<1> DEFINE iter == CHOOSE i : i = [s \in SUBSET T |-> IF s = {} THEN 0
                      ELSE f[CHOOSE x \in s : TRUE] + i[s \ {CHOOSE x \in s : TRUE}]]
<1>1. SumFunctionOnSet(f, T) = iter[T]
  BY Zenon DEF SumFunctionOnSet, FoldFunctionOnSet, MapThenFoldSet
<1>2. iter = CHOOSE i : AddsUp(f, T, i)
  BY Zenon DEF AddsUp, First
<1> HIDE DEF iter
<1>3. IsFiniteSet(T)
  BY FS_Subset
<1>4. AddsUp(f, T, iter)
  BY <1>2, <1>3, AddsUpExists
<1>5. iter[T] = h[T]
  BY <1>3, <1>4, AddsUpOnce
<1> QED
  BY <1>1, <1>5

-------------------------------------------------------------------------------
(* Sums *)

\* The sum, by the element that is taken first.
LEMMA SumTakesFirst ==
    ASSUME NEW S, IsFiniteSet(S), NEW f
    PROVE  /\ S = {} => SumFunctionOnSet(f, S) = 0
           /\ S # {} => SumFunctionOnSet(f, S) =
                          f[First(S)] + SumFunctionOnSet(f, S \ {First(S)})
<1>1. PICK h : AddsUp(f, S, h)
  BY AddsUpExists
<1>2. S \in SUBSET S /\ S \ {First(S)} \in SUBSET S
  OBVIOUS
<1>3. /\ SumFunctionOnSet(f, S) = h[S]
      /\ SumFunctionOnSet(f, S \ {First(S)}) = h[S \ {First(S)}]
  BY <1>1, <1>2, SumAddsUp
<1>4. /\ S = {} => h[S] = 0
      /\ S # {} => h[S] = f[First(S)] + h[S \ {First(S)}]
  <2>1. Adds(f, h, S)
    BY <1>1, <1>2, AddsUpAt
  <2> QED
    BY ONLY <2>1, Zenon DEF Adds
<1> QED
  BY <1>3, <1>4, Zenon

\* The sum only depends on the terms.
LEMMA SumOfSame ==
    ASSUME NEW S, IsFiniteSet(S), NEW f, NEW g, \A x \in S : f[x] = g[x]
    PROVE  SumFunctionOnSet(f, S) = SumFunctionOnSet(g, S)
<1>1. PICK h : AddsUp(f, S, h)
  BY AddsUpExists
<1>2. PICK i : AddsUp(g, S, i)
  BY AddsUpExists
<1>3. h[S] = i[S]
  BY <1>1, <1>2, AddsUpOnce
<1>4. SumFunctionOnSet(f, S) = h[S] /\ SumFunctionOnSet(g, S) = i[S]
  BY <1>1, <1>2, SumAddsUp
<1> QED
  BY <1>3, <1>4

\* Nothing adds up to nothing.
LEMMA SumOfNone ==
    ASSUME NEW f
    PROVE  SumFunctionOnSet(f, {}) = 0
BY SumTakesFirst, FS_EmptySet

\* Integers add up to an integer.
LEMMA SumIsInt ==
    ASSUME NEW S, IsFiniteSet(S), NEW f, \A x \in S : f[x] \in Int
    PROVE  SumFunctionOnSet(f, S) \in Int
<1> DEFINE B == {T \in SUBSET S : SumFunctionOnSet(f, T) \notin Int}
<1> SUFFICES ASSUME B # {} PROVE FALSE
  OBVIOUS
<1>1. PICK T \in B : \A U \in B : U \subseteq T => U = T
  <2> B \in SUBSET (SUBSET S)
    OBVIOUS
  <2> HIDE DEF B
  <2> QED
    BY Smallest
<1>2. T \in SUBSET S /\ SumFunctionOnSet(f, T) \notin Int
  OBVIOUS
<1>3. IsFiniteSet(T)
  BY <1>2, FS_Subset
<1>4. T # {}
  BY <1>2, SumOfNone
<1>5. First(T) \in T /\ T \ {First(T)} \in SUBSET S /\ T \ {First(T)} # T
  BY <1>2, <1>4, FirstIsIn
<1>6. SumFunctionOnSet(f, T \ {First(T)}) \in Int
  BY <1>1, <1>5
<1>7. SumFunctionOnSet(f, T) = f[First(T)] + SumFunctionOnSet(f, T \ {First(T)})
  BY <1>3, <1>4, SumTakesFirst
<1> QED
  BY <1>2, <1>5, <1>6, <1>7

\* Any element may be taken first: addition is associative and commutative.
LEMMA SumTakesAny ==
    ASSUME NEW S, IsFiniteSet(S), NEW f, \A x \in S : f[x] \in Int, NEW x \in S
    PROVE  SumFunctionOnSet(f, S) = f[x] + SumFunctionOnSet(f, S \ {x})
<1> DEFINE fails(T) == \E y \in T : SumFunctionOnSet(f, T) # f[y] + SumFunctionOnSet(f, T \ {y})
           B == {T \in SUBSET S : fails(T)}
<1> SUFFICES ASSUME B # {} PROVE FALSE
  OBVIOUS
<1>1. PICK T \in B : \A U \in B : U \subseteq T => U = T
  <2> B \in SUBSET (SUBSET S)
    OBVIOUS
  <2> HIDE DEF B
  <2> QED
    BY Smallest
<1>2. T \in SUBSET S /\ fails(T)
  OBVIOUS
<1>3. \A U \in SUBSET T : U # T => ~fails(U)
  BY <1>1, <1>2
<1>4. PICK y \in T : SumFunctionOnSet(f, T) # f[y] + SumFunctionOnSet(f, T \ {y})
  BY <1>2
<1>5. /\ IsFiniteSet(T)
      /\ IsFiniteSet(T \ {y})
      /\ IsFiniteSet((T \ {First(T)}) \ {y})
  BY <1>2, FS_Subset
<1>6. First(T) \in T
  BY <1>4, FirstIsIn
<1>7. SumFunctionOnSet(f, T) = f[First(T)] + SumFunctionOnSet(f, T \ {First(T)})
  BY <1>4, <1>5, SumTakesFirst
<1>8. y # First(T)
  BY <1>4, <1>7
<1>9. SumFunctionOnSet(f, T \ {First(T)})
        = f[y] + SumFunctionOnSet(f, (T \ {First(T)}) \ {y})
  <2> T \ {First(T)} \in SUBSET T /\ T \ {First(T)} # T /\ y \in T \ {First(T)}
    BY <1>6, <1>8
  <2> QED
    BY <1>3
<1>10. SumFunctionOnSet(f, T \ {y})
         = f[First(T)] + SumFunctionOnSet(f, (T \ {y}) \ {First(T)})
  <2> T \ {y} \in SUBSET T /\ T \ {y} # T /\ First(T) \in T \ {y}
    BY <1>6, <1>8
  <2> QED
    BY <1>3
<1>11. (T \ {y}) \ {First(T)} = (T \ {First(T)}) \ {y}
  OBVIOUS
<1> DEFINE rest == SumFunctionOnSet(f, (T \ {First(T)}) \ {y})
<1>12. f[First(T)] \in Int /\ f[y] \in Int /\ rest \in Int
  BY <1>2, <1>5, <1>6, SumIsInt
<1>13. SumFunctionOnSet(f, T) = f[First(T)] + (f[y] + rest)
  BY <1>7, <1>9, Zenon
<1>14. f[y] + SumFunctionOnSet(f, T \ {y}) = f[y] + (f[First(T)] + rest)
  BY <1>10, <1>11, Zenon
<1> HIDE DEF rest
<1>15. f[First(T)] + (f[y] + rest) = f[y] + (f[First(T)] + rest)
  BY <1>12
<1> QED
  BY <1>4, <1>13, <1>14, <1>15, Zenon

\* What one element gains at another one's cost leaves the sum as it was.
LEMMA SumOfMoved ==
    ASSUME NEW S, IsFiniteSet(S), NEW f, NEW g, \A z \in S : f[z] \in Int /\ g[z] \in Int,
           NEW x \in S, NEW y \in S, x # y, f[x] + f[y] = g[x] + g[y],
           \A z \in S \ {x, y} : f[z] = g[z]
    PROVE  SumFunctionOnSet(f, S) = SumFunctionOnSet(g, S)
<1> DEFINE T == S \ {x}
           U == T \ {y}
<1>1. IsFiniteSet(T) /\ IsFiniteSet(U)
  BY FS_Subset
<1>2. SumFunctionOnSet(f, U) = SumFunctionOnSet(g, U)
  BY <1>1, SumOfSame
<1>3. SumFunctionOnSet(f, U) \in Int
  BY <1>1, SumIsInt
<1>4. y \in T /\ \A z \in T : f[z] \in Int /\ g[z] \in Int
  OBVIOUS
<1> HIDE DEF T, U
<1>5. /\ SumFunctionOnSet(f, S) = f[x] + SumFunctionOnSet(f, T)
      /\ SumFunctionOnSet(g, S) = g[x] + SumFunctionOnSet(g, T)
  BY SumTakesAny DEF T
<1>6. /\ SumFunctionOnSet(f, T) = f[y] + SumFunctionOnSet(f, U)
      /\ SumFunctionOnSet(g, T) = g[y] + SumFunctionOnSet(g, U)
  BY <1>1, <1>4, SumTakesAny DEF U
<1> QED
  BY <1>2, <1>3, <1>5, <1>6

\* More terms that are not negative make no smaller sum.
LEMMA SumGrows ==
    ASSUME NEW T, IsFiniteSet(T), NEW f, \A x \in T : f[x] \in Nat, NEW S \in SUBSET T
    PROVE  SumFunctionOnSet(f, S) <= SumFunctionOnSet(f, T)
<1> DEFINE fails(U) == S \subseteq U /\ ~(SumFunctionOnSet(f, S) <= SumFunctionOnSet(f, U))
           B == {U \in SUBSET T : fails(U)}
<1>1. SUFFICES ASSUME B # {} PROVE FALSE
  OBVIOUS
<1>2. PICK U \in B : \A V \in B : V \subseteq U => V = U
  <2> B \in SUBSET (SUBSET T)
    OBVIOUS
  <2> HIDE DEF B
  <2> QED
    BY <1>1, Smallest
<1>3. U \in SUBSET T /\ fails(U)
  OBVIOUS
<1>4. ASSUME NEW V \in SUBSET U, V # U PROVE ~fails(V)
  BY <1>2, <1>3, <1>4
<1>5. IsFiniteSet(S) /\ IsFiniteSet(U)
  BY <1>3, FS_Subset
<1>6. SumFunctionOnSet(f, S) \in Int
  BY <1>5, SumIsInt
<1>7. U # S
  BY <1>3, <1>6
<1>8. PICK x \in U : x \notin S
  BY <1>3, <1>7
<1>9. SumFunctionOnSet(f, S) <= SumFunctionOnSet(f, U \ {x})
  BY <1>3, <1>4, <1>8
<1>10. IsFiniteSet(U \ {x}) /\ \A y \in U : f[y] \in Int
  BY <1>3, <1>5, FS_Subset
<1>11. SumFunctionOnSet(f, U) = f[x] + SumFunctionOnSet(f, U \ {x})
  BY <1>5, <1>10, SumTakesAny
<1>12. SumFunctionOnSet(f, U \ {x}) \in Int
  BY <1>10, SumIsInt
<1>13. f[x] \in Nat
  BY <1>3
<1>14. ~(SumFunctionOnSet(f, S) <= SumFunctionOnSet(f, U))
  BY <1>3
<1> QED
  BY ONLY <1>6, <1>9, <1>11, <1>12, <1>13, <1>14

===============================================================================
