---------------------------- MODULE SumTheorems ----------------------------
(***************************************************************************)
(* Facts about SumFunctionOnSet, the sum of a function over a finite set,  *)
(* and the induction over the natural numbers they rest on.                *)
(***************************************************************************)
EXTENDS Integers, FiniteSets, Functions, FiniteSetTheorems, WellFoundedInduction, TLAPS

\* Induction over the naturals for a set of numbers.
LEMMA SetInduction ==
    ASSUME NEW P \in SUBSET Nat, 0 \in P, \A n \in P : n + 1 \in P
    PROVE  P = Nat
<1> DEFINE R == OpToRel(<, Nat)
<1>1. IsWellFoundedOn(R, Nat)
  BY NatLessThanWellFounded
<1>2. \A i, j \in Nat : i < j => <<i, j>> \in R
  BY DEF OpToRel
<1>3. SUFFICES ASSUME Nat \ P # {} PROVE FALSE
  OBVIOUS
<1> HIDE DEF R
<1>4. PICK m \in Nat \ P : \A y \in Nat \ P : <<y, m>> \notin R
  BY <1>1, <1>3, WFMin
<1>5. m # 0 /\ m - 1 \in Nat /\ m - 1 < m /\ m = (m - 1) + 1
  BY <1>4
<1>6. m - 1 \in P
  BY <1>2, <1>4, <1>5
<1>7. QED
  BY <1>4, <1>5, <1>6

\* The least of some numbers.
LEMMA LeastNumber ==
    ASSUME NEW S \in SUBSET Nat, S # {}
    PROVE  \E m \in S : \A y \in S : m <= y
<1> DEFINE R == OpToRel(<, Nat)
<1>1. IsWellFoundedOn(R, Nat)
  BY NatLessThanWellFounded
<1>2. \A i, j \in Nat : i < j => <<i, j>> \in R
  BY DEF OpToRel
<1> HIDE DEF R
<1>3. PICK m \in S : \A y \in S : <<y, m>> \notin R
  BY <1>1, WFMin
<1>4. ASSUME NEW y \in S PROVE m <= y
  <2>1. y \in Nat /\ m \in Nat
    OBVIOUS
  <2>2. ~(y < m)
    BY <1>2, <1>3, <2>1
  <2> QED BY <2>1, <2>2
<1> QED BY <1>4

\* The greatest of finitely many.
LEMMA GreatestNumber ==
    ASSUME NEW S \in SUBSET Int, IsFiniteSet(S), S # {}
    PROVE  \E m \in S : \A y \in S : y <= m
<1> DEFINE Q(T) == T \in SUBSET Int => \E m \in T : \A y \in T : y <= m
           P == {n \in Nat : \A T : IsFiniteSet(T) /\ Cardinality(T) = n + 1 => Q(T)}
<1>1. 0 \in P
  <2>1. ASSUME NEW T, IsFiniteSet(T), Cardinality(T) = 1 PROVE Q(T)
    <3>1. PICK x : T = {x}
      BY <2>1, FS_Singleton
    <3> QED BY <3>1
  <2> HIDE DEF Q
  <2> QED BY <2>1
<1>2. ASSUME NEW n \in P PROVE n + 1 \in P
  <2>1. ASSUME NEW T \in SUBSET Int, IsFiniteSet(T), Cardinality(T) = (n + 1) + 1
        PROVE  \E m \in T : \A y \in T : y <= m
    <3>1. T # {} /\ n \in Nat
      BY <2>1, FS_EmptySet
    <3>2. PICK x \in T : TRUE
      BY <3>1
    <3>3. IsFiniteSet(T \ {x}) /\ Cardinality(T \ {x}) = n + 1
      BY <2>1, <3>1, FS_RemoveElement
    <3>4. PICK m \in T \ {x} : \A y \in T \ {x} : y <= m
      BY <3>3
    <3>5. CASE x <= m
      BY <3>4, <3>5
    <3>6. CASE ~(x <= m)
      <4>1. \A y \in T : y <= x
        BY <3>4, <3>6
      <4> QED BY <4>1
    <3> QED BY <3>5, <3>6
  <2>2. \A T : IsFiniteSet(T) /\ Cardinality(T) = (n + 1) + 1 => Q(T)
    BY <2>1
  <2> HIDE DEF Q
  <2> QED BY <2>2
<1>3. P = Nat
  <2> HIDE DEF P
  <2> QED BY <1>1, <1>2, SetInduction, P \in SUBSET Nat DEF P
<1>4. Cardinality(S) - 1 \in Nat /\ Cardinality(S) = (Cardinality(S) - 1) + 1
  BY FS_CardinalityType, FS_EmptySet
<1> QED BY <1>3, <1>4

Pick(s) == CHOOSE x \in s : TRUE
Unfold(f, S, g) == [s \in SUBSET S |-> IF s = {} THEN 0 ELSE f[Pick(s)] + g[s \ {Pick(s)}]]

LEMMA SumUnfolds ==
    ASSUME NEW f, NEW S
    PROVE  SumFunctionOnSet(f, S) = (CHOOSE g : g = Unfold(f, S, g))[S]
BY DEF SumFunctionOnSet, FoldFunctionOnSet, MapThenFoldSet, Unfold, Pick

\* The element the fold takes first.
LEMMA PickRemoves ==
    ASSUME NEW s, IsFiniteSet(s), s # {}
    PROVE  /\ Pick(s) \in s
           /\ IsFiniteSet(s \ {Pick(s)})
           /\ Cardinality(s \ {Pick(s)}) = Cardinality(s) - 1
<1>1. Pick(s) \in s
  BY DEF Pick
<1> QED BY <1>1, FS_RemoveElement

\* The recursion that defines the sum has a solution on every finite set.
LEMMA SolutionExists ==
    ASSUME NEW f, NEW S, IsFiniteSet(S)
    PROVE  \E g : g = Unfold(f, S, g)
<1> DEFINE Good(g, n) == /\ g = [s \in SUBSET S |-> g[s]]
                         /\ \A s \in SUBSET S : Cardinality(s) <= n => g[s] = Unfold(f, S, g)[s]
<1> DEFINE P == {n \in Nat : \E g : Good(g, n)}
<1>1. \A s \in SUBSET S : IsFiniteSet(s) /\ Cardinality(s) \in Nat /\ Cardinality(s) <= Cardinality(S)
  BY FS_Subset, FS_CardinalityType
<1>2. 0 \in P
  <2> DEFINE g == [s \in SUBSET S |-> 0]
  <2>1. \A s \in SUBSET S : Cardinality(s) <= 0 => s = {}
    BY <1>1, FS_EmptySet
  <2>2. Good(g, 0)
    BY <2>1 DEF Unfold
  <2> QED BY <2>2
<1>3. ASSUME NEW n \in P PROVE n + 1 \in P
  <2>1. PICK g : Good(g, n)
    OBVIOUS
  <2> DEFINE h == [s \in SUBSET S |-> IF Cardinality(s) = n + 1 THEN f[Pick(s)] + g[s \ {Pick(s)}] ELSE g[s]]
  <2>2. ASSUME NEW s \in SUBSET S, s # {}
        PROVE  /\ Pick(s) \in s
               /\ s \ {Pick(s)} \in SUBSET S
               /\ Cardinality(s \ {Pick(s)}) = Cardinality(s) - 1
    <3>1. Pick(s) \in s /\ Cardinality(s \ {Pick(s)}) = Cardinality(s) - 1
      BY <1>1, <2>2, PickRemoves
    <3> QED BY <3>1
  <2>3. ASSUME NEW s \in SUBSET S, Cardinality(s) <= n + 1 PROVE h[s] = Unfold(f, S, h)[s]
    <3>1. CASE s = {}
      <4>1. Cardinality(s) = 0
        BY <3>1, FS_EmptySet
      <4>2. h[s] = g[s] /\ g[s] = Unfold(f, S, g)[s]
        <5>1. n \in Nat /\ Cardinality(s) # n + 1 /\ Cardinality(s) <= n
          BY <4>1
        <5>2. h[s] = g[s]
          BY <5>1
        <5> HIDE DEF h
        <5> QED BY <5>1, <5>2, <2>1
      <4> QED BY <3>1, <4>2 DEF Unfold
    <3>2. CASE s # {}
      <4> DEFINE t == s \ {Pick(s)}
      <4>1. t \in SUBSET S /\ Cardinality(t) = Cardinality(s) - 1 /\ Cardinality(s) \in Nat
        BY <1>1, <2>2, <3>2
      <4>2. h[t] = g[t]
        BY <4>1, <2>3
      <4>3. h[s] = f[Pick(s)] + g[t]
        <5>1. CASE Cardinality(s) = n + 1
          BY <5>1
        <5>2. CASE Cardinality(s) # n + 1
          <6>1. h[s] = g[s] /\ Cardinality(s) <= n
            BY <5>2, <4>1, <2>3
          <6>2. g[s] = Unfold(f, S, g)[s]
            BY <6>1, <2>1
          <6> QED BY <6>1, <6>2, <3>2 DEF Unfold
        <5> QED BY <5>1, <5>2
      <4> HIDE DEF t, h
      <4>4. Unfold(f, S, h)[s] = f[Pick(s)] + h[t]
        BY <3>2 DEF Unfold, t
      <4> QED BY <4>2, <4>3, <4>4
    <3> QED BY <3>1, <3>2
  <2>4. h = [s \in SUBSET S |-> h[s]]
    OBVIOUS
  <2> HIDE DEF h
  <2>5. Good(h, n + 1)
    BY <2>3, <2>4
  <2> HIDE DEF Good
  <2> QED BY <2>5
<1>4. P = Nat
  <2> HIDE DEF P
  <2> QED BY <1>2, <1>3, SetInduction, P \in SUBSET Nat DEF P
<1>5. PICK g : Good(g, Cardinality(S))
  BY <1>1, <1>4
<1>6. \A s \in SUBSET S : g[s] = Unfold(f, S, g)[s]
  BY <1>1, <1>5
<1>7. g = Unfold(f, S, g)
  BY <1>5, <1>6 DEF Unfold
<1> QED BY <1>7

\* Two solutions agree where the functions summed do.
LEMMA SolutionsAgree ==
    ASSUME NEW f, NEW e, NEW S, IsFiniteSet(S), NEW T \in SUBSET S, \A x \in T : f[x] = e[x],
           NEW g, g = Unfold(f, S, g), NEW h, h = Unfold(e, T, h)
    PROVE  g[T] = h[T]
<1> DEFINE P == {n \in Nat : \A s \in SUBSET T : Cardinality(s) = n => g[s] = h[s]}
<1>1. \A s \in SUBSET T : IsFiniteSet(s) /\ Cardinality(s) \in Nat /\ s \in SUBSET S
  BY FS_Subset, FS_CardinalityType
<1>2. \A s \in SUBSET T : /\ g[s] = IF s = {} THEN 0 ELSE f[Pick(s)] + g[s \ {Pick(s)}]
                          /\ h[s] = IF s = {} THEN 0 ELSE e[Pick(s)] + h[s \ {Pick(s)}]
  BY DEF Unfold
<1>3. 0 \in P
  BY <1>1, <1>2, FS_EmptySet
<1>4. ASSUME NEW n \in P PROVE n + 1 \in P
  <2>1. ASSUME NEW s \in SUBSET T, Cardinality(s) = n + 1 PROVE g[s] = h[s]
    <3>1. s # {}
      BY <2>1, FS_EmptySet
    <3>2. Pick(s) \in s
      BY <3>1 DEF Pick
    <3>3. Cardinality(s \ {Pick(s)}) = n /\ s \ {Pick(s)} \in SUBSET T
      BY <1>1, <2>1, <3>1, <3>2, PickRemoves
    <3>4. g[s \ {Pick(s)}] = h[s \ {Pick(s)}]
      BY <3>3
    <3>5. f[Pick(s)] = e[Pick(s)]
      BY <3>2
    <3> QED BY <1>2, <3>1, <3>4, <3>5
  <2> QED BY <2>1
<1>5. P = Nat
  <2> HIDE DEF P
  <2> QED BY <1>3, <1>4, SetInduction, P \in SUBSET Nat DEF P
<1> QED BY <1>1, <1>5

-----------------------------------------------------------------------------
LEMMA SumEmpty ==
    ASSUME NEW f
    PROVE  SumFunctionOnSet(f, {}) = 0
<1> DEFINE g == CHOOSE g : g = Unfold(f, {}, g)
<1>1. g = Unfold(f, {}, g)
  BY SolutionExists, FS_EmptySet
<1> HIDE DEF g
<1>2. g[{}] = 0
  BY <1>1 DEF Unfold
<1> QED BY <1>2, SumUnfolds DEF g

\* A sum depends on the function's values on the set only.
LEMMA SumSame ==
    ASSUME NEW f, NEW e, NEW S, IsFiniteSet(S), \A x \in S : f[x] = e[x]
    PROVE  SumFunctionOnSet(f, S) = SumFunctionOnSet(e, S)
<1> DEFINE g == CHOOSE g : g = Unfold(f, S, g)
           h == CHOOSE h : h = Unfold(e, S, h)
<1>1. g = Unfold(f, S, g) /\ h = Unfold(e, S, h)
  BY SolutionExists
<1>2. SumFunctionOnSet(f, S) = g[S] /\ SumFunctionOnSet(e, S) = h[S]
  BY SumUnfolds
<1> HIDE DEF g, h
<1> QED BY <1>1, <1>2, SolutionsAgree

LEMMA SumPick ==
    ASSUME NEW f, NEW S, IsFiniteSet(S), S # {}
    PROVE  SumFunctionOnSet(f, S) = f[Pick(S)] + SumFunctionOnSet(f, S \ {Pick(S)})
<1> DEFINE T == S \ {Pick(S)}
           g == CHOOSE g : g = Unfold(f, S, g)
           h == CHOOSE h : h = Unfold(f, T, h)
<1>1. T \in SUBSET S /\ IsFiniteSet(T)
  BY FS_Subset
<1>2. g = Unfold(f, S, g) /\ h = Unfold(f, T, h)
  BY SolutionExists, <1>1
<1>3. SumFunctionOnSet(f, S) = g[S] /\ SumFunctionOnSet(f, T) = h[T]
  BY SumUnfolds
<1>4. S \in SUBSET S
  OBVIOUS
<1> HIDE DEF g, h
<1>5. g[S] = f[Pick(S)] + g[T]
  BY <1>2, <1>4 DEF Unfold
<1> HIDE DEF T
<1>6. g[T] = h[T]
  BY <1>1, <1>2, SolutionsAgree
<1> QED BY <1>3, <1>5, <1>6 DEF T

\* A sum of integers, or of naturals, is one.
THEOREM SumType ==
    ASSUME NEW f, NEW S, IsFiniteSet(S)
    PROVE  /\ (\A x \in S : f[x] \in Int) => SumFunctionOnSet(f, S) \in Int
           /\ (\A x \in S : f[x] \in Nat) => SumFunctionOnSet(f, S) \in Nat
<1> DEFINE Q(T) == /\ (\A x \in T : f[x] \in Int) => SumFunctionOnSet(f, T) \in Int
                   /\ (\A x \in T : f[x] \in Nat) => SumFunctionOnSet(f, T) \in Nat
           P == {n \in Nat : \A T : IsFiniteSet(T) /\ Cardinality(T) = n => Q(T)}
<1>1. 0 \in P
  BY SumEmpty, FS_EmptySet
<1>2. ASSUME NEW n \in P PROVE n + 1 \in P
  <2>1. ASSUME NEW T, IsFiniteSet(T), Cardinality(T) = n + 1 PROVE Q(T)
    <3>1. T # {}
      BY <2>1, FS_EmptySet
    <3>2. /\ Pick(T) \in T
          /\ Q(T \ {Pick(T)})
      BY <2>1, <3>1, PickRemoves
    <3> QED BY <2>1, <3>1, <3>2, SumPick
  <2> HIDE DEF Q
  <2> QED BY <2>1
<1>3. P = Nat
  <2> HIDE DEF P
  <2> QED BY <1>1, <1>2, SetInduction, P \in SUBSET Nat DEF P
<1> QED BY <1>3, FS_CardinalityType

\* Any element of the set can be taken out first.
THEOREM SumRemove ==
    ASSUME NEW f, NEW S, IsFiniteSet(S), \A x \in S : f[x] \in Int, NEW y \in S
    PROVE  SumFunctionOnSet(f, S) = f[y] + SumFunctionOnSet(f, S \ {y})
<1> DEFINE Q(T) == (\A x \in T : f[x] \in Int)
                     => \A x \in T : SumFunctionOnSet(f, T) = f[x] + SumFunctionOnSet(f, T \ {x})
           P == {n \in Nat : \A T : IsFiniteSet(T) /\ Cardinality(T) = n => Q(T)}
<1>1. 0 \in P
  BY FS_EmptySet
<1>2. ASSUME NEW n \in P PROVE n + 1 \in P
  <2>1. ASSUME NEW T, IsFiniteSet(T), Cardinality(T) = n + 1, \A z \in T : f[z] \in Int, NEW x \in T
        PROVE  SumFunctionOnSet(f, T) = f[x] + SumFunctionOnSet(f, T \ {x})
    <3> DEFINE p == Pick(T)
               U == (T \ {p}) \ {x}
    <3>1. p \in T /\ IsFiniteSet(T \ {p}) /\ Cardinality(T \ {p}) = n
      BY <2>1, PickRemoves
    <3>2. IsFiniteSet(T \ {x}) /\ Cardinality(T \ {x}) = n
      <4>1. n \in Nat /\ Cardinality(T) - 1 = n
        BY <2>1
      <4> HIDE DEF P
      <4> QED BY <2>1, <4>1, FS_RemoveElement
    <3>3. SumFunctionOnSet(f, T) = f[p] + SumFunctionOnSet(f, T \ {p})
      BY <2>1, SumPick
    <3>4. Q(T \ {p}) /\ Q(T \ {x})
      BY <3>1, <3>2
    <3>5. IsFiniteSet(U) /\ SumFunctionOnSet(f, U) \in Int
      BY <3>1, <2>1, FS_RemoveElement, FS_Subset, SumType
    <3> HIDE DEF p
    <3>6. CASE p = x
      BY <3>3, <3>6
    <3>7. CASE p # x
      <4>1. SumFunctionOnSet(f, T \ {p}) = f[x] + SumFunctionOnSet(f, U)
        BY <2>1, <3>4, <3>7
      <4>2. (T \ {x}) \ {p} = U
        OBVIOUS
      <4>3. SumFunctionOnSet(f, T \ {x}) = f[p] + SumFunctionOnSet(f, U)
        BY <2>1, <3>1, <3>4, <3>7, <4>2
      <4> QED BY <2>1, <3>1, <3>3, <3>5, <4>1, <4>3
    <3> QED BY <3>6, <3>7
  <2>2. \A T : IsFiniteSet(T) /\ Cardinality(T) = n + 1 => Q(T)
    BY <2>1
  <2> HIDE DEF Q
  <2> QED BY <2>2
<1>3. P = Nat
  <2> HIDE DEF P
  <2> QED BY <1>1, <1>2, SetInduction, P \in SUBSET Nat DEF P
<1> QED BY <1>3, FS_CardinalityType

THEOREM SumAdd ==
    ASSUME NEW f, NEW S, IsFiniteSet(S), NEW y, y \notin S, \A x \in S \cup {y} : f[x] \in Int
    PROVE  SumFunctionOnSet(f, S \cup {y}) = f[y] + SumFunctionOnSet(f, S)
<1>1. IsFiniteSet(S \cup {y}) /\ (S \cup {y}) \ {y} = S
  BY FS_AddElement
<1> QED BY <1>1, SumRemove

\* Changing one value changes the sum by as much.
THEOREM SumChange ==
    ASSUME NEW f, NEW e, NEW S, IsFiniteSet(S), NEW y \in S,
           \A x \in S : f[x] \in Int /\ e[x] \in Int, \A x \in S \ {y} : e[x] = f[x]
    PROVE  SumFunctionOnSet(e, S) = SumFunctionOnSet(f, S) + e[y] - f[y]
<1>1. IsFiniteSet(S \ {y})
  BY FS_RemoveElement
<1>2. /\ SumFunctionOnSet(f, S) = f[y] + SumFunctionOnSet(f, S \ {y})
      /\ SumFunctionOnSet(e, S) = e[y] + SumFunctionOnSet(e, S \ {y})
  BY SumRemove
<1>3. SumFunctionOnSet(e, S \ {y}) = SumFunctionOnSet(f, S \ {y})
  BY <1>1, SumSame
<1>4. SumFunctionOnSet(f, S \ {y}) \in Int
  BY <1>1, SumType
<1> QED BY <1>2, <1>3, <1>4

\* Greater values give a sum at least as great.
THEOREM SumMonotone ==
    ASSUME NEW f, NEW e, NEW S, IsFiniteSet(S),
           \A x \in S : f[x] \in Int /\ e[x] \in Int /\ f[x] <= e[x]
    PROVE  SumFunctionOnSet(f, S) <= SumFunctionOnSet(e, S)
<1> DEFINE Q(T) == T \subseteq S => SumFunctionOnSet(f, T) <= SumFunctionOnSet(e, T)
           P == {n \in Nat : \A T : IsFiniteSet(T) /\ Cardinality(T) = n => Q(T)}
<1>1. 0 \in P
  BY FS_EmptySet, SumEmpty
<1>2. ASSUME NEW n \in P PROVE n + 1 \in P
  <2>1. ASSUME NEW T, IsFiniteSet(T), Cardinality(T) = n + 1, T \subseteq S
        PROVE  SumFunctionOnSet(f, T) <= SumFunctionOnSet(e, T)
    <3> DEFINE p == Pick(T)
               U == T \ {p}
    <3>1. T # {}
      BY <2>1, FS_EmptySet
    <3>2. p \in T /\ IsFiniteSet(U) /\ Cardinality(U) = n
      BY <2>1, <3>1, PickRemoves
    <3>3. /\ SumFunctionOnSet(f, T) = f[p] + SumFunctionOnSet(f, U)
          /\ SumFunctionOnSet(e, T) = e[p] + SumFunctionOnSet(e, U)
      BY <2>1, <3>1, SumPick
    <3>4. SumFunctionOnSet(f, U) <= SumFunctionOnSet(e, U)
      BY <2>1, <3>2
    <3>5. SumFunctionOnSet(f, U) \in Int /\ SumFunctionOnSet(e, U) \in Int
      BY <2>1, <3>2, SumType
    <3>6. f[p] \in Int /\ e[p] \in Int /\ f[p] <= e[p]
      BY <2>1, <3>2
    <3> HIDE DEF U, p
    <3> QED BY <3>3, <3>4, <3>5, <3>6
  <2>2. \A T : IsFiniteSet(T) /\ Cardinality(T) = n + 1 => Q(T)
    BY <2>1
  <2> HIDE DEF Q
  <2> QED BY <2>2
<1>3. P = Nat
  <2> HIDE DEF P
  <2> QED BY <1>1, <1>2, SetInduction, P \in SUBSET Nat DEF P
<1> QED BY <1>3, FS_CardinalityType

\* Zeros add nothing.
THEOREM SumOfZeros ==
    ASSUME NEW f, NEW S, IsFiniteSet(S), \A x \in S : f[x] = 0
    PROVE  SumFunctionOnSet(f, S) = 0
<1> DEFINE P == {n \in Nat : \A T : IsFiniteSet(T) /\ Cardinality(T) = n /\ T \subseteq S
                              => SumFunctionOnSet(f, T) = 0}
<1>1. 0 \in P
  BY FS_EmptySet, SumEmpty
<1>2. ASSUME NEW n \in P PROVE n + 1 \in P
  <2>1. ASSUME NEW T, IsFiniteSet(T), Cardinality(T) = n + 1, T \subseteq S
        PROVE  SumFunctionOnSet(f, T) = 0
    <3>1. T # {}
      BY <2>1, FS_EmptySet
    <3>2. Pick(T) \in T /\ IsFiniteSet(T \ {Pick(T)}) /\ Cardinality(T \ {Pick(T)}) = n
      BY <2>1, <3>1, PickRemoves
    <3>3. SumFunctionOnSet(f, T) = f[Pick(T)] + SumFunctionOnSet(f, T \ {Pick(T)})
      BY <2>1, <3>1, SumPick
    <3>4. f[Pick(T)] = 0 /\ SumFunctionOnSet(f, T \ {Pick(T)}) = 0
      BY <2>1, <3>2
    <3> QED BY <3>3, <3>4
  <2> QED BY <2>1
<1>3. P = Nat
  <2> HIDE DEF P
  <2> QED BY <1>1, <1>2, SetInduction, P \in SUBSET Nat DEF P
<1> QED BY <1>3, FS_CardinalityType

\* The sum over two sets without a common element.
THEOREM SumUnion ==
    ASSUME NEW f, NEW S, NEW T, IsFiniteSet(S), IsFiniteSet(T), S \cap T = {},
           \A x \in S \cup T : f[x] \in Int
    PROVE  SumFunctionOnSet(f, S \cup T) = SumFunctionOnSet(f, S) + SumFunctionOnSet(f, T)
<1> DEFINE Q(U) == U \subseteq T =>
                     SumFunctionOnSet(f, S \cup U) = SumFunctionOnSet(f, S) + SumFunctionOnSet(f, U)
           P == {n \in Nat : \A U : IsFiniteSet(U) /\ Cardinality(U) = n => Q(U)}
<1>1. 0 \in P
  <2>1. SumFunctionOnSet(f, S) \in Int
    BY SumType
  <2>2. Q({})
    BY <2>1, SumEmpty, S \cup {} = S
  <2> QED BY <2>2, FS_EmptySet
<1>2. ASSUME NEW n \in P PROVE n + 1 \in P
  <2>1. ASSUME NEW U, IsFiniteSet(U), Cardinality(U) = n + 1, U \subseteq T
        PROVE  SumFunctionOnSet(f, S \cup U) = SumFunctionOnSet(f, S) + SumFunctionOnSet(f, U)
    <3> DEFINE p == Pick(U)
               V == U \ {p}
    <3>1. U # {}
      BY <2>1, FS_EmptySet
    <3>2. p \in U /\ IsFiniteSet(V) /\ Cardinality(V) = n
      BY <2>1, <3>1, PickRemoves
    <3>3. SumFunctionOnSet(f, U) = f[p] + SumFunctionOnSet(f, V)
      BY <2>1, <3>1, SumPick
    <3>4. SumFunctionOnSet(f, S \cup V) = SumFunctionOnSet(f, S) + SumFunctionOnSet(f, V)
      BY <2>1, <3>2
    <3>5. /\ SumFunctionOnSet(f, S) \in Int
          /\ SumFunctionOnSet(f, V) \in Int
          /\ f[p] \in Int
      BY <2>1, <3>2, SumType
    <3> HIDE DEF p
    <3>6. IsFiniteSet(S \cup V) /\ p \notin S \cup V /\ S \cup U = (S \cup V) \cup {p}
      BY <2>1, <3>2, FS_Union
    <3>7. \A x \in (S \cup V) \cup {p} : f[x] \in Int
      BY <2>1, <3>2
    <3>8. SumFunctionOnSet(f, S \cup U) = f[p] + SumFunctionOnSet(f, S \cup V)
      <4> DEFINE W == S \cup V
      <4>1. IsFiniteSet(W) /\ p \notin W /\ S \cup U = W \cup {p} /\ \A x \in W \cup {p} : f[x] \in Int
        BY <3>6, <3>7
      <4> HIDE DEF W, V
      <4>2. SumFunctionOnSet(f, W \cup {p}) = f[p] + SumFunctionOnSet(f, W)
        BY <4>1, SumAdd
      <4> QED BY <4>1, <4>2 DEF W
    <3> HIDE DEF V
    <3> QED BY <3>3, <3>4, <3>5, <3>8
  <2>2. \A U : IsFiniteSet(U) /\ Cardinality(U) = n + 1 => Q(U)
    BY <2>1
  <2> HIDE DEF Q
  <2> QED BY <2>2
<1>3. P = Nat
  <2> HIDE DEF P
  <2> QED BY <1>1, <1>2, SetInduction, P \in SUBSET Nat DEF P
<1> QED BY <1>3, FS_CardinalityType

\* Fewer and smaller values give a smaller sum.
THEOREM SumShrinks ==
    ASSUME NEW f, NEW e, NEW S, NEW T, IsFiniteSet(S), T \subseteq S,
           \A x \in S : f[x] \in Nat, \A x \in T : e[x] \in Nat /\ e[x] <= f[x]
    PROVE  SumFunctionOnSet(e, T) <= SumFunctionOnSet(f, S)
<1>1. IsFiniteSet(T) /\ IsFiniteSet(S \ T)
  BY FS_Subset
<1>2. SumFunctionOnSet(e, T) <= SumFunctionOnSet(f, T)
  BY <1>1, SumMonotone
<1>3. SumFunctionOnSet(f, S) = SumFunctionOnSet(f, T) + SumFunctionOnSet(f, S \ T)
  <2>1. T \cup (S \ T) = S
    OBVIOUS
  <2>2. SumFunctionOnSet(f, T \cup (S \ T)) = SumFunctionOnSet(f, T) + SumFunctionOnSet(f, S \ T)
    BY <1>1, SumUnion
  <2> QED BY <2>1, <2>2
<1>4. /\ SumFunctionOnSet(f, S \ T) \in Nat
      /\ SumFunctionOnSet(f, T) \in Nat
      /\ SumFunctionOnSet(e, T) \in Nat
  BY <1>1, SumType
<1> QED BY <1>2, <1>3, <1>4
=============================================================================
