---------------------------- MODULE SumsProofs ----------------------------
(***************************************************************************)
(* The laws of SumOver for every integer function and every finite set.    *)
(* The library's induction theorems take a predicate as a parameter, which *)
(* the back-end provers cannot instantiate; the inductions here go through *)
(* a minimal counterexample of the (first-order) well-foundedness of the   *)
(* strict subset ordering instead.                                         *)
(***************************************************************************)
EXTENDS Sums, FiniteSetTheorems, WellFoundedInduction, TLAPS

\* One unfolding of the sum of f over U, given the sums g of the smaller sets.
SumStep(f, g, U) ==
    IF U = {} THEN 0 ELSE f[Pick(U)] + g[U \ {Pick(U)}]

\* A non-empty set of subsets of a finite set has a member that none of the
\* others is strictly included in.
LEMMA MinimalSubset ==
  ASSUME NEW S, IsFiniteSet(S), NEW F, F \subseteq SUBSET S, F # {}
  PROVE  \E M \in F : \A N \in F : ~(N \subseteq M /\ N # M)
<1> DEFINE R == StrictSubsetOrdering(S)
<1>1. IsWellFoundedOn(R, SUBSET S)
  BY FS_StrictSubsetOrderingWellFounded, FS_FiniteSubsetsOfFinite
<1>2. PICK M \in F : \A N \in F : ~(<<N, M>> \in R)
  <2> HIDE DEF R
  <2> QED BY <1>1, WFMin
<1>3. ASSUME NEW N \in F, N \subseteq M, N # M
      PROVE  FALSE
  <2>1. <<N, M>> \in R
    BY <1>3 DEF StrictSubsetOrdering
  <2> QED BY <2>1, <1>2
<1> QED BY <1>3

IsSum(f, g, S) == g = [U \in SUBSET S |-> SumStep(f, g, U)]

\* The element a sum starts with is one of the set.
LEMMA PickInSet == \A U : U # {} => Pick(U) \in U
  BY DEF Pick

\* Two solutions of the recursion agree wherever both are defined.
LEMMA SumsAgree ==
  ASSUME NEW f, NEW g, NEW h, NEW A, NEW B, IsFiniteSet(A),
         IsSum(f, g, A), IsSum(f, h, B), NEW W, W \subseteq A, W \subseteq B
  PROVE  g[W] = h[W]
<1> DEFINE Bad == {V \in SUBSET A : V \subseteq B /\ g[V] # h[V]}
<1> SUFFICES ASSUME W \in Bad PROVE FALSE
  OBVIOUS
<1>1. PICK M \in Bad : \A N \in Bad : ~(N \subseteq M /\ N # M)
  <2>1. Bad \subseteq SUBSET A /\ Bad # {}
    OBVIOUS
  <2> HIDE DEF Bad
  <2> QED BY <2>1, MinimalSubset
<1>2. g[M] = SumStep(f, g, M) /\ h[M] = SumStep(f, h, M)
  BY <1>1 DEF IsSum
<1>3. M # {}
  BY <1>1, <1>2 DEF SumStep
<1> DEFINE N == M \ {Pick(M)}
<1>4. N \subseteq M /\ N # M
  BY <1>3, PickInSet
<1>5. g[N] = h[N]
  BY <1>1, <1>4
<1> QED BY <1>1, <1>2, <1>3, <1>5 DEF SumStep

\* The recursion has a solution on the subsets of every finite set.
LEMMA SumExists ==
  ASSUME NEW f, NEW S, IsFiniteSet(S)
  PROVE  \E g : IsSum(f, g, S)
<1> DEFINE Bad == {V \in SUBSET S : ~ \E g : IsSum(f, g, V)}
<1> SUFFICES ASSUME S \in Bad PROVE FALSE
  OBVIOUS
<1>1. PICK M \in Bad : \A N \in Bad : ~(N \subseteq M /\ N # M)
  <2>1. Bad \subseteq SUBSET S /\ Bad # {}
    OBVIOUS
  <2> HIDE DEF Bad
  <2> QED BY <2>1, MinimalSubset
<1> DEFINE Sol(V) == CHOOSE g : IsSum(f, g, V)
           P == M \ {Pick(M)}
           top == IF M = {} THEN 0 ELSE f[Pick(M)] + Sol(P)[P]
           h == [U \in SUBSET M |-> IF U = M THEN top ELSE Sol(U)[U]]
<1>2. ASSUME NEW V \in SUBSET M, V # M
      PROVE  IsSum(f, Sol(V), V)
  <2>1. V \in SUBSET S /\ V \notin Bad
    BY <1>1, <1>2
  <2>2. \E g : IsSum(f, g, V)
    BY <2>1
  <2> QED BY <2>2
<1>3. ASSUME NEW U \in SUBSET M
      PROVE  h[U] = SumStep(f, h, U)
  <2>1. CASE U = {}
    <3>1. CASE M = {}
      BY <2>1, <3>1 DEF SumStep
    <3>2. CASE M # {}
      <4>1. IsSum(f, Sol(U), U)
        BY <1>2, <2>1, <3>2
      <4>2. Sol(U)[U] = 0
        BY <4>1, <2>1 DEF IsSum, SumStep
      <4> QED BY <4>2, <2>1, <3>2 DEF SumStep
    <3> QED BY <3>1, <3>2
  <2>2. CASE U # {} /\ U = M
    <3>1. P \in SUBSET M /\ P # M
      BY <2>2, PickInSet
    <3>2. h[P] = Sol(P)[P]
      BY <3>1
    <3>3. h[M] = top
      OBVIOUS
    <3> HIDE DEF h
    <3> QED BY <2>2, <3>2, <3>3 DEF SumStep
  <2>3. CASE U # {} /\ U # M
    <3> DEFINE N == U \ {Pick(U)}
    <3>1. N \in SUBSET M /\ N # M /\ N \subseteq U
      BY <2>3, PickInSet
    <3>2. IsSum(f, Sol(U), U) /\ IsSum(f, Sol(N), N)
      BY <1>2, <2>3, <3>1
    <3>3. h[U] = Sol(U)[U] /\ h[N] = Sol(N)[N]
      BY <2>3, <3>1
    <3> HIDE DEF h, Sol
    <3>4. Sol(U)[U] = f[Pick(U)] + Sol(U)[N]
      BY <3>2, <2>3 DEF IsSum, SumStep
    <3>5. IsFiniteSet(U)
      BY <1>1, FS_Subset
    <3>6. Sol(U)[N] = Sol(N)[N]
      BY <3>1, <3>2, <3>5, SumsAgree
    <3> QED BY <3>3, <3>4, <3>6, <2>3 DEF SumStep
  <2> QED BY <2>1, <2>2, <2>3
<1>4. IsSum(f, h, M)
  <2>1. h = [U \in SUBSET M |-> h[U]]
    OBVIOUS
  <2> HIDE DEF h
  <2> QED BY <2>1, <1>3 DEF IsSum
<1> QED BY <1>1, <1>4

\* What one unfolding of SumOver is: the sum of the empty set is 0, and a
\* non-empty set adds its picked element to the sum of the rest.
LEMMA SumUnfold ==
  ASSUME NEW f, NEW S, IsFiniteSet(S)
  PROVE  /\ S = {} => SumOver(f, S) = 0
         /\ S # {} => SumOver(f, S) = f[Pick(S)] + SumOver(f, S \ {Pick(S)})
<1> DEFINE G(V) == CHOOSE g : g = [U \in SUBSET V |->
                      IF U = {} THEN 0 ELSE f[Pick(U)] + g[U \ {Pick(U)}]]
<1>1. ASSUME NEW V, IsFiniteSet(V)
      PROVE  IsSum(f, G(V), V) /\ SumOver(f, V) = G(V)[V]
  <2>1. \E g : g = [U \in SUBSET V |->
                      IF U = {} THEN 0 ELSE f[Pick(U)] + g[U \ {Pick(U)}]]
    <3>1. PICK g : IsSum(f, g, V)
      BY <1>1, SumExists
    <3>2. g = [U \in SUBSET V |->
                 IF U = {} THEN 0 ELSE f[Pick(U)] + g[U \ {Pick(U)}]]
      BY <3>1 DEF IsSum, SumStep
    <3> QED BY <3>2
  <2>2. G(V) = [U \in SUBSET V |->
                 IF U = {} THEN 0 ELSE f[Pick(U)] + G(V)[U \ {Pick(U)}]]
    BY <2>1
  <2>3. SumOver(f, V) = G(V)[V]
    BY DEF SumOver
  <2> QED BY <2>2, <2>3 DEF IsSum, SumStep
<1> HIDE DEF G
<1>2. G(S)[S] = SumStep(f, G(S), S)
  BY <1>1 DEF IsSum
<1>3. ASSUME S # {}
      PROVE  SumOver(f, S) = f[Pick(S)] + SumOver(f, S \ {Pick(S)})
  <2> DEFINE P == S \ {Pick(S)}
  <2>1. IsFiniteSet(P) /\ P \subseteq S
    BY FS_Subset
  <2>2. G(S)[P] = G(P)[P]
    BY <2>1, <1>1, SumsAgree
  <2> QED BY <2>1, <2>2, <1>1, <1>2, <1>3 DEF SumStep
<1> QED BY <1>1, <1>2, <1>3 DEF SumStep

\* The sum over no rows is 0: COALESCE(SUM(...), 0).
THEOREM SumEmpty == \A f : SumOver(f, {}) = 0
  BY SumUnfold, FS_EmptySet

\* The sum of an integer function over a finite set is an integer.
THEOREM SumType ==
  ASSUME NEW S, IsFiniteSet(S), NEW f, \A x \in S : f[x] \in Int
  PROVE  SumOver(f, S) \in Int
<1> DEFINE Bad == {V \in SUBSET S : SumOver(f, V) \notin Int}
<1> SUFFICES ASSUME S \in Bad PROVE FALSE
  OBVIOUS
<1>1. PICK M \in Bad : \A N \in Bad : ~(N \subseteq M /\ N # M)
  <2>1. Bad \subseteq SUBSET S /\ Bad # {}
    OBVIOUS
  <2> HIDE DEF Bad
  <2> QED BY <2>1, MinimalSubset
<1>2. IsFiniteSet(M)
  BY <1>1, FS_Subset
<1>3. M # {}
  <2> SUFFICES ASSUME M = {} PROVE FALSE
    OBVIOUS
  <2>1. SumOver(f, M) = 0
    BY <1>2, SumUnfold
  <2> QED BY <2>1, <1>1
<1>4. Pick(M) \in M
  BY <1>3, PickInSet
<1>5. SumOver(f, M \ {Pick(M)}) \in Int
  BY <1>1, <1>4
<1>6. SumOver(f, M) = f[Pick(M)] + SumOver(f, M \ {Pick(M)})
  BY <1>2, <1>3, SumUnfold
<1> QED BY <1>1, <1>4, <1>5, <1>6

\* Any element may be taken out first: the order of the summation is
\* immaterial.
THEOREM SumRemove ==
  ASSUME NEW S, IsFiniteSet(S), NEW f, \A x \in S : f[x] \in Int,
         NEW e \in S
  PROVE  SumOver(f, S) = f[e] + SumOver(f, S \ {e})
<1> DEFINE Bad == {V \in SUBSET S :
             \E x \in V : SumOver(f, V) # f[x] + SumOver(f, V \ {x})}
<1> SUFFICES ASSUME S \in Bad PROVE FALSE
  OBVIOUS
<1>1. PICK M \in Bad : \A N \in Bad : ~(N \subseteq M /\ N # M)
  <2>1. Bad \subseteq SUBSET S /\ Bad # {}
    OBVIOUS
  <2> HIDE DEF Bad
  <2> QED BY <2>1, MinimalSubset
<1>2. PICK x \in M : SumOver(f, M) # f[x] + SumOver(f, M \ {x})
  BY <1>1
<1> DEFINE c == Pick(M)
<1>3. M \subseteq S /\ IsFiniteSet(M) /\ c \in M
  BY <1>1, <1>2, FS_Subset, PickInSet
<1>4. SumOver(f, M) = f[c] + SumOver(f, M \ {c})
  BY <1>3, SumUnfold
<1>5. x # c
  BY <1>2, <1>4
<1> HIDE DEF c
<1>6. M \ {c} \notin Bad /\ M \ {x} \notin Bad
  BY <1>1, <1>2, <1>3
<1>7. SumOver(f, M \ {c}) = f[x] + SumOver(f, (M \ {c}) \ {x})
  BY <1>2, <1>3, <1>5, <1>6
<1>8. SumOver(f, M \ {x}) = f[c] + SumOver(f, (M \ {x}) \ {c})
  BY <1>2, <1>3, <1>5, <1>6
<1>9. (M \ {x}) \ {c} = (M \ {c}) \ {x}
  OBVIOUS
<1>10. SumOver(f, (M \ {c}) \ {x}) \in Int
  <2>1. IsFiniteSet((M \ {c}) \ {x})
    BY <1>3, FS_Subset
  <2> QED BY <2>1, <1>3, SumType
<1>11. f[x] \in Int /\ f[c] \in Int
  BY <1>2, <1>3
<1> QED BY <1>2, <1>4, <1>7, <1>8, <1>9, <1>10, <1>11

\* Adding an element that is not summed yet.
THEOREM SumAdd ==
  ASSUME NEW S, IsFiniteSet(S), NEW e, e \notin S, NEW f,
         \A x \in S \cup {e} : f[x] \in Int
  PROVE  SumOver(f, S \cup {e}) = f[e] + SumOver(f, S)
<1>1. IsFiniteSet(S \cup {e}) /\ (S \cup {e}) \ {e} = S
  BY FS_AddElement
<1> QED BY <1>1, SumRemove

\* Functions that agree on the set have the same sum.
THEOREM SumCongruence ==
  ASSUME NEW S, IsFiniteSet(S), NEW f, NEW h, \A x \in S : f[x] = h[x]
  PROVE  SumOver(f, S) = SumOver(h, S)
<1> DEFINE Bad == {V \in SUBSET S : SumOver(f, V) # SumOver(h, V)}
<1> SUFFICES ASSUME S \in Bad PROVE FALSE
  OBVIOUS
<1>1. PICK M \in Bad : \A N \in Bad : ~(N \subseteq M /\ N # M)
  <2>1. Bad \subseteq SUBSET S /\ Bad # {}
    OBVIOUS
  <2> HIDE DEF Bad
  <2> QED BY <2>1, MinimalSubset
<1>2. IsFiniteSet(M)
  BY <1>1, FS_Subset
<1>3. M # {}
  BY <1>1, SumEmpty
<1>4. Pick(M) \in M
  BY <1>3, PickInSet
<1>5. SumOver(f, M \ {Pick(M)}) = SumOver(h, M \ {Pick(M)})
  BY <1>1, <1>4
<1> QED BY <1>1, <1>2, <1>3, <1>4, <1>5, SumUnfold

\* Changing the function at one element changes the sum by the difference.
THEOREM SumUpdate ==
  ASSUME NEW S, IsFiniteSet(S), NEW e \in S, NEW f, NEW h,
         \A x \in S : f[x] \in Int /\ h[x] \in Int,
         \A x \in S \ {e} : f[x] = h[x]
  PROVE  SumOver(h, S) = SumOver(f, S) - f[e] + h[e]
<1>1. IsFiniteSet(S \ {e})
  BY FS_Subset
<1>2. SumOver(f, S \ {e}) = SumOver(h, S \ {e})
  BY <1>1, SumCongruence
<1>3. SumOver(f, S) = f[e] + SumOver(f, S \ {e})
  BY SumRemove
<1>4. SumOver(h, S) = h[e] + SumOver(h, S \ {e})
  BY SumRemove
<1>5. SumOver(f, S \ {e}) \in Int
  BY <1>1, SumType
<1> QED BY <1>2, <1>3, <1>4, <1>5

\* A pointwise smaller function has a smaller sum.
THEOREM SumMonotonic ==
  ASSUME NEW S, IsFiniteSet(S), NEW f, NEW h,
         \A x \in S : f[x] \in Int /\ h[x] \in Int /\ f[x] <= h[x]
  PROVE  SumOver(f, S) <= SumOver(h, S)
<1> DEFINE Bad == {V \in SUBSET S : ~(SumOver(f, V) <= SumOver(h, V))}
<1> SUFFICES ASSUME S \in Bad PROVE FALSE
  OBVIOUS
<1>1. PICK M \in Bad : \A N \in Bad : ~(N \subseteq M /\ N # M)
  <2>1. Bad \subseteq SUBSET S /\ Bad # {}
    OBVIOUS
  <2> HIDE DEF Bad
  <2> QED BY <2>1, MinimalSubset
<1>2. M \subseteq S /\ IsFiniteSet(M)
  BY <1>1, FS_Subset
<1>3. M # {}
  <2> SUFFICES ASSUME M = {} PROVE FALSE
    OBVIOUS
  <2>1. SumOver(f, M) = 0 /\ SumOver(h, M) = 0
    BY <1>2, SumUnfold
  <2> QED BY <2>1, <1>1
<1>4. PICK e \in M : TRUE
  BY <1>3
<1> DEFINE N == M \ {e}
<1>5. N \subseteq S /\ IsFiniteSet(N)
  BY <1>2, FS_Subset
<1>6. SumOver(f, N) <= SumOver(h, N)
  BY <1>1, <1>4
<1>7. SumOver(f, N) \in Int /\ SumOver(h, N) \in Int
  BY <1>2, <1>5, SumType
<1>8. SumOver(f, M) = f[e] + SumOver(f, N)
  BY <1>2, <1>4, SumRemove
<1>9. SumOver(h, M) = h[e] + SumOver(h, N)
  BY <1>2, <1>4, SumRemove
<1> HIDE DEF N
<1> QED BY <1>1, <1>2, <1>4, <1>6, <1>7, <1>8, <1>9

\* A function that is 0 throughout sums to 0.
THEOREM SumOfZeros ==
  ASSUME NEW S, IsFiniteSet(S), NEW f, \A x \in S : f[x] = 0
  PROVE  SumOver(f, S) = 0
<1> DEFINE Bad == {V \in SUBSET S : SumOver(f, V) # 0}
<1> SUFFICES ASSUME S \in Bad PROVE FALSE
  OBVIOUS
<1>1. PICK M \in Bad : \A N \in Bad : ~(N \subseteq M /\ N # M)
  <2>1. Bad \subseteq SUBSET S /\ Bad # {}
    OBVIOUS
  <2> HIDE DEF Bad
  <2> QED BY <2>1, MinimalSubset
<1>2. IsFiniteSet(M)
  BY <1>1, FS_Subset
<1>3. M # {}
  <2> SUFFICES ASSUME M = {} PROVE FALSE
    OBVIOUS
  <2>1. SumOver(f, M) = 0
    BY <1>2, SumUnfold
  <2> QED BY <2>1, <1>1
<1>4. Pick(M) \in M
  BY <1>3, PickInSet
<1>5. SumOver(f, M \ {Pick(M)}) = 0 /\ f[Pick(M)] = 0
  BY <1>1, <1>4
<1> QED BY <1>1, <1>2, <1>3, <1>5, SumUnfold
===========================================================================
