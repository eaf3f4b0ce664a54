------------------------------ MODULE SumTheorems ------------------------------
(***************************************************************************)
(* Sums of natural numbers over a finite set, as SumFunctionOnSet folds    *)
(* them.  The fold chooses a function that meets its recursion, so that    *)
(* there is one comes first (SumsExist), then that it takes one element    *)
(* after the other (SumUnfold), and in any order (SumTake).  A statement   *)
(* about all subsets of a finite set is proved by a smallest subset that   *)
(* violates it (MinimalSet).                                               *)
(***************************************************************************)
EXTENDS Integers, FiniteSets, Functions, FiniteSetTheorems, WellFoundedInduction, TLAPS

\* The element the fold takes out of a set next.
Chosen(s) == CHOOSE x \in s : TRUE

\* What the fold makes of s, given the sums g of the smaller sets.
SumStep(f, g, s) == IF s = {} THEN 0 ELSE f[Chosen(s)] + g[s \ {Chosen(s)}]

\* g sums f over every subset of S the way the fold does.
IsSums(f, S, g) == g = [s \in SUBSET S |-> SumStep(f, g, s)]

\* A family of subsets of a finite set has a smallest member: the strict subset
\* ordering of finite sets is well founded.
LEMMA MinimalSet ==
    ASSUME NEW S, IsFiniteSet(S), NEW T \in SUBSET SUBSET S, T # {}
    PROVE  \E A \in T : \A B \in T : B \subseteq A => B = A
<1>1. T \subseteq FiniteSubsetsOf(S)
  BY FS_FiniteSubsetsOfFinite
<1>2. \E x \in T : \A y \in T : ~(<<y, x>> \in StrictSubsetOrdering(S))
  BY <1>1, WFMin, FS_StrictSubsetOrderingWellFounded
<1> QED
  BY <1>2 DEF StrictSubsetOrdering

\* SumFunctionOnSet takes its value from the function the fold chooses.
LEMMA SumIsFold ==
    ASSUME NEW f, NEW S
    PROVE  SumFunctionOnSet(f, S) = (CHOOSE g : IsSums(f, S, g))[S]
BY DEF SumFunctionOnSet, FoldFunctionOnSet, MapThenFoldSet, IsSums, SumStep, Chosen

\* A set that is not empty contains its chosen element.
LEMMA ChosenIn ==
    ASSUME NEW s, s # {}
    PROVE  Chosen(s) \in s
BY DEF Chosen

\* Functions that sum the subsets of two sets agree on the subsets of both.
LEMMA SumsAgree ==
    ASSUME NEW f, NEW S, IsFiniteSet(S), NEW T, NEW g, NEW h,
           IsSums(f, S, g), IsSums(f, T, h), NEW s \in SUBSET S, s \subseteq T
    PROVE  g[s] = h[s]
<1> DEFINE Bad == {t \in SUBSET S : t \subseteq T /\ g[t] # h[t]}
<1> SUFFICES Bad = {}
  OBVIOUS
<1> SUFFICES ASSUME Bad # {} PROVE FALSE
  OBVIOUS
<1>1. PICK A \in Bad : \A B \in Bad : B \subseteq A => B = A
  <2>1. Bad \in SUBSET SUBSET S
    OBVIOUS
  <2> HIDE DEF Bad
  <2> QED
    BY <2>1, MinimalSet
<1>2. A \in SUBSET S /\ A \in SUBSET T /\ g[A] # h[A]
  OBVIOUS
<1>3. g[A] = SumStep(f, g, A) /\ h[A] = SumStep(f, h, A)
  BY <1>2 DEF IsSums
<1>4. A # {}
  BY <1>2, <1>3 DEF SumStep
<1> DEFINE B == A \ {Chosen(A)}
<1>5. B # A /\ B \subseteq A /\ B \in SUBSET S /\ B \subseteq T
  BY <1>2, <1>4, ChosenIn
<1>6. g[B] = h[B]
  BY <1>1, <1>5
<1> QED
  BY <1>2, <1>3, <1>4, <1>6 DEF SumStep

\* The recursion of the fold has a solution.
LEMMA SumsExist ==
    ASSUME NEW f, NEW S, IsFiniteSet(S)
    PROVE  \E g : IsSums(f, S, g)
\* Families of subsets that can be summed: if not all of them can, one more can.
<1> DEFINE Closed(D) == \A s \in D : s # {} => s \ {Chosen(s)} \in D
           Solved(D) == \E g : g = [s \in D |-> SumStep(f, g, s)]
           Open == {E \in SUBSET SUBSET S :
                      /\ Closed((SUBSET S) \ E)
                      /\ Solved((SUBSET S) \ E)}
<1>1. IsFiniteSet(SUBSET S)
  BY FS_SUBSET
<1>2. SUBSET S \in Open
  <2>1. (SUBSET S) \ (SUBSET S) = {}
    OBVIOUS
  <2>2. Closed({})
    OBVIOUS
  <2>3. Solved({})
    <3> DEFINE e == [s \in {} |-> 0]
    <3>1. e = [s \in {} |-> SumStep(f, e, s)]
      OBVIOUS
    <3> HIDE DEF e
    <3> QED
      BY <3>1
  <2> HIDE DEF Closed, Solved
  <2> QED
    BY <2>1, <2>2, <2>3
<1>3. PICK E \in Open : \A F \in Open : F \subseteq E => F = E
  <2>1. Open \in SUBSET SUBSET (SUBSET S)
    OBVIOUS
  <2> HIDE DEF Open
  <2> QED
    BY <1>1, <1>2, <2>1, MinimalSet
<1> DEFINE D == (SUBSET S) \ E
<1>4. PICK g : g = [s \in D |-> SumStep(f, g, s)]
  OBVIOUS
<1>5. CASE E = {}
  BY <1>4, <1>5 DEF IsSums
<1>6. CASE E # {}
  <2>0. E \in SUBSET SUBSET S
    OBVIOUS
  <2>1. PICK A \in E : \A B \in E : B \subseteq A => B = A
    <3> HIDE DEF Open
    <3> QED
      BY <1>6, <2>0, MinimalSet
  <2>2. A \in SUBSET S /\ (A # {} => A \ {Chosen(A)} \in D)
    <3>1. A \in SUBSET S
      BY <2>0
    <3>2. ASSUME A # {} PROVE A \ {Chosen(A)} \in D
      <4>1. Chosen(A) \in A
        BY <3>2, ChosenIn
      <4>2. A \ {Chosen(A)} # A /\ A \ {Chosen(A)} \in SUBSET S
        BY <3>1, <4>1
      <4> QED
        BY <2>1, <4>2
    <3> QED
      BY <3>1, <3>2
  <2> DEFINE h == [s \in D \cup {A} |-> SumStep(f, g, s)]
             F == E \ {A}
  <2>3. (SUBSET S) \ F = D \cup {A} /\ A \notin D
    BY <2>1, <2>2
  <2>4. \A s \in D : h[s] = g[s]
    BY <1>4
  <2>5. Closed(D)
    OBVIOUS
  <2>6. Closed(D \cup {A})
    BY <2>2, <2>5
  <2>7. \A s \in D \cup {A} : SumStep(f, g, s) = SumStep(f, h, s)
    <3> SUFFICES ASSUME NEW s \in D \cup {A}, s # {} PROVE g[s \ {Chosen(s)}] = h[s \ {Chosen(s)}]
      BY DEF SumStep
    <3>1. s \ {Chosen(s)} \in D
      BY <2>2, <2>5
    <3> HIDE DEF h
    <3> QED
      BY <3>1, <2>4
  <2>8. h = [s \in D \cup {A} |-> SumStep(f, h, s)]
    BY <2>7
  <2> HIDE DEF h
  <2>9. Solved(D \cup {A})
    BY <2>8
  <2>10. F \in Open
    <3> HIDE DEF Closed, Solved
    <3> QED
      BY <2>3, <2>6, <2>9
  <2> QED
    BY <1>3, <2>1, <2>10
<1> QED
  BY <1>5, <1>6

\* The fold takes one element after the other.
LEMMA SumUnfold ==
    ASSUME NEW f, NEW S, IsFiniteSet(S)
    PROVE  SumFunctionOnSet(f, S) =
             IF S = {} THEN 0
             ELSE f[Chosen(S)] + SumFunctionOnSet(f, S \ {Chosen(S)})
<1> DEFINE T == S \ {Chosen(S)}
           g == CHOOSE g : IsSums(f, S, g)
           h == CHOOSE h : IsSums(f, T, h)
<1>1. IsFiniteSet(T)
  BY FS_RemoveElement
<1>2. IsSums(f, S, g)
  BY SumsExist
<1>3. IsSums(f, T, h)
  BY <1>1, SumsExist
<1>4. SumFunctionOnSet(f, S) = g[S] /\ SumFunctionOnSet(f, T) = h[T]
  BY SumIsFold
<1> HIDE DEF g, h
<1>5. g[S] = SumStep(f, g, S)
  BY <1>2 DEF IsSums
<1>6. g[T] = h[T]
  BY <1>2, <1>3, SumsAgree
<1> QED
  BY <1>4, <1>5, <1>6 DEF SumStep

\* The terms of a sum.
Numbers(f, S) == \A x \in S : f[x] \in Nat

\* A sum of natural numbers is a natural number.
LEMMA SumType ==
    ASSUME NEW f, NEW S, IsFiniteSet(S), Numbers(f, S)
    PROVE  SumFunctionOnSet(f, S) \in Nat
<1> DEFINE Bad == {t \in SUBSET S : SumFunctionOnSet(f, t) \notin Nat}
<1> SUFFICES ASSUME Bad # {} PROVE FALSE
  OBVIOUS
<1>1. PICK A \in Bad : \A B \in Bad : B \subseteq A => B = A
  <2>1. Bad \in SUBSET SUBSET S
    OBVIOUS
  <2> HIDE DEF Bad
  <2> QED
    BY <2>1, MinimalSet
<1> DEFINE B == A \ {Chosen(A)}
<1>2. A \in SUBSET S /\ IsFiniteSet(A)
  BY FS_Subset
<1>3. CASE A = {}
  <2>1. SumFunctionOnSet(f, A) = 0
    BY <1>2, <1>3, SumUnfold
  <2> QED
    BY <2>1
<1>4. CASE A # {}
  <2>1. Chosen(A) \in A /\ B \in SUBSET S /\ B # A /\ B \subseteq A
    BY <1>2, <1>4, ChosenIn
  <2>2. SumFunctionOnSet(f, B) \in Nat
    BY <1>1, <2>1
  <2>3. f[Chosen(A)] \in Nat
    BY <1>2, <2>1 DEF Numbers
  <2> QED
    BY <1>2, <1>4, <2>2, <2>3, SumUnfold
<1> QED
  BY <1>3, <1>4

\* The order in which the fold takes the elements does not matter.
LEMMA SumTake ==
    ASSUME NEW f, NEW S, IsFiniteSet(S), Numbers(f, S), NEW x \in S
    PROVE  SumFunctionOnSet(f, S) = f[x] + SumFunctionOnSet(f, S \ {x})
<1> DEFINE Bad == {t \in SUBSET S :
                     \E y \in t : SumFunctionOnSet(f, t) # f[y] + SumFunctionOnSet(f, t \ {y})}
<1> SUFFICES ASSUME Bad # {} PROVE FALSE
  OBVIOUS
<1>1. PICK A \in Bad : \A B \in Bad : B \subseteq A => B = A
  <2>1. Bad \in SUBSET SUBSET S
    OBVIOUS
  <2> HIDE DEF Bad
  <2> QED
    BY <2>1, MinimalSet
<1>2. PICK y \in A : SumFunctionOnSet(f, A) # f[y] + SumFunctionOnSet(f, A \ {y})
  OBVIOUS
<1> DEFINE c == Chosen(A)
<1>3. A \in SUBSET S /\ IsFiniteSet(A) /\ c \in A
  BY <1>2, FS_Subset, ChosenIn
<1> HIDE DEF c
<1>4. SumFunctionOnSet(f, A) = f[c] + SumFunctionOnSet(f, A \ {c})
  BY <1>3, SumUnfold DEF c
<1>5. c # y
  BY <1>2, <1>4
<1>6. SumFunctionOnSet(f, A \ {c}) = f[y] + SumFunctionOnSet(f, (A \ {c}) \ {y})
  <2>1. A \ {c} \in SUBSET S /\ A \ {c} # A /\ A \ {c} \subseteq A /\ y \in A \ {c}
    BY <1>3, <1>5
  <2> QED
    BY <1>1, <2>1
<1>7. SumFunctionOnSet(f, A \ {y}) = f[c] + SumFunctionOnSet(f, (A \ {y}) \ {c})
  <2>1. A \ {y} \in SUBSET S /\ A \ {y} # A /\ A \ {y} \subseteq A /\ c \in A \ {y}
    BY <1>3, <1>5
  <2> QED
    BY <1>1, <2>1
<1>8. (A \ {c}) \ {y} = (A \ {y}) \ {c}
  OBVIOUS
<1>9. SumFunctionOnSet(f, (A \ {y}) \ {c}) \in Nat
  <2>1. IsFiniteSet((A \ {y}) \ {c}) /\ Numbers(f, (A \ {y}) \ {c})
    BY <1>3, FS_Subset DEF Numbers
  <2> QED
    BY <2>1, SumType
<1>10. f[c] \in Nat /\ f[y] \in Nat
  BY <1>3 DEF Numbers
<1> QED
  BY <1>2, <1>4, <1>6, <1>7, <1>8, <1>9, <1>10

\* Larger terms have a larger sum.
LEMMA SumLeq ==
    ASSUME NEW f, NEW g, NEW S, IsFiniteSet(S), Numbers(f, S), Numbers(g, S),
           \A x \in S : f[x] <= g[x]
    PROVE  SumFunctionOnSet(f, S) <= SumFunctionOnSet(g, S)
<1> DEFINE Bad == {t \in SUBSET S : ~(SumFunctionOnSet(f, t) <= SumFunctionOnSet(g, t))}
<1> SUFFICES ASSUME Bad # {} PROVE FALSE
  OBVIOUS
<1>1. PICK A \in Bad : \A B \in Bad : B \subseteq A => B = A
  <2>1. Bad \in SUBSET SUBSET S
    OBVIOUS
  <2> HIDE DEF Bad
  <2> QED
    BY <2>1, MinimalSet
<1> DEFINE c == Chosen(A)
           B == A \ {c}
<1>2. A \in SUBSET S /\ IsFiniteSet(A)
  BY FS_Subset
<1>3. CASE A = {}
  <2>1. SumFunctionOnSet(f, A) = 0 /\ SumFunctionOnSet(g, A) = 0
    BY <1>2, <1>3, SumUnfold
  <2> QED
    BY <2>1
<1>4. CASE A # {}
  <2>1. c \in A /\ B \in SUBSET S /\ B # A /\ B \subseteq A /\ IsFiniteSet(B)
    BY <1>2, <1>4, ChosenIn, FS_RemoveElement
  <2>2. SumFunctionOnSet(f, B) <= SumFunctionOnSet(g, B)
    BY <1>1, <2>1
  <2>3. SumFunctionOnSet(f, B) \in Nat /\ SumFunctionOnSet(g, B) \in Nat
    BY <2>1, SumType DEF Numbers
  <2>4. f[c] \in Nat /\ g[c] \in Nat /\ f[c] <= g[c]
    BY <1>2, <2>1 DEF Numbers
  <2>5. /\ SumFunctionOnSet(f, A) = f[c] + SumFunctionOnSet(f, B)
        /\ SumFunctionOnSet(g, A) = g[c] + SumFunctionOnSet(g, B)
    BY <1>2, <1>4, SumUnfold
  <2> HIDE DEF c, B
  <2> QED
    BY <2>2, <2>3, <2>4, <2>5
<1> QED
  BY <1>3, <1>4

\* Equal terms have equal sums.
LEMMA SumSame ==
    ASSUME NEW f, NEW g, NEW S, IsFiniteSet(S), Numbers(f, S), \A x \in S : g[x] = f[x]
    PROVE  SumFunctionOnSet(g, S) = SumFunctionOnSet(f, S)
<1>1. Numbers(g, S) /\ (\A x \in S : f[x] <= g[x]) /\ (\A x \in S : g[x] <= f[x])
  BY DEF Numbers
<1>2. SumFunctionOnSet(f, S) \in Nat /\ SumFunctionOnSet(g, S) \in Nat
  BY <1>1, SumType
<1>3. SumFunctionOnSet(f, S) <= SumFunctionOnSet(g, S)
  BY <1>1, SumLeq
<1>4. SumFunctionOnSet(g, S) <= SumFunctionOnSet(f, S)
  BY <1>1, SumLeq
<1> QED
  BY <1>2, <1>3, <1>4

\* A change of one term changes the sum by as much.
LEMMA SumChange ==
    ASSUME NEW f, NEW g, NEW S, IsFiniteSet(S), Numbers(f, S), NEW x \in S,
           g[x] \in Nat, \A y \in S \ {x} : g[y] = f[y]
    PROVE  SumFunctionOnSet(g, S) + f[x] = SumFunctionOnSet(f, S) + g[x]
<1>1. IsFiniteSet(S \ {x}) /\ Numbers(f, S \ {x}) /\ Numbers(g, S) /\ f[x] \in Nat
  BY FS_RemoveElement DEF Numbers
<1>2. SumFunctionOnSet(g, S \ {x}) = SumFunctionOnSet(f, S \ {x})
  BY <1>1, SumSame
<1>3. SumFunctionOnSet(f, S \ {x}) \in Nat
  BY <1>1, SumType
<1>4. /\ SumFunctionOnSet(g, S) = g[x] + SumFunctionOnSet(g, S \ {x})
      /\ SumFunctionOnSet(f, S) = f[x] + SumFunctionOnSet(f, S \ {x})
  BY <1>1, SumTake
<1> QED
  BY <1>1, <1>2, <1>3, <1>4

\* A part of the terms sums up to no more than all.
LEMMA SumSubset ==
    ASSUME NEW f, NEW S, IsFiniteSet(S), Numbers(f, S), NEW T \in SUBSET S
    PROVE  SumFunctionOnSet(f, T) <= SumFunctionOnSet(f, S)
<1> DEFINE Bad == {U \in SUBSET S :
                     T \subseteq U /\ ~(SumFunctionOnSet(f, T) <= SumFunctionOnSet(f, U))}
<1> SUFFICES ASSUME Bad # {} PROVE FALSE
  OBVIOUS
<1>1. PICK A \in Bad : \A B \in Bad : B \subseteq A => B = A
  <2>1. Bad \in SUBSET SUBSET S
    OBVIOUS
  <2> HIDE DEF Bad
  <2> QED
    BY <2>1, MinimalSet
<1>2. /\ A \in SUBSET S /\ T \subseteq A /\ IsFiniteSet(A) /\ Numbers(f, A)
      /\ IsFiniteSet(T) /\ Numbers(f, T)
  BY FS_Subset DEF Numbers
<1>3. SumFunctionOnSet(f, T) \in Nat
  BY <1>2, SumType
<1>4. PICK x \in A : x \notin T
  <2>1. A # T
    BY <1>3
  <2> QED
    BY <1>2, <2>1
<1> DEFINE B == A \ {x}
<1>5. B \in SUBSET S /\ B # A /\ T \subseteq B /\ IsFiniteSet(B) /\ Numbers(f, B)
  BY <1>2, <1>4, FS_RemoveElement DEF Numbers
<1>6. SumFunctionOnSet(f, T) <= SumFunctionOnSet(f, B)
  BY <1>1, <1>5
<1>7. SumFunctionOnSet(f, B) \in Nat /\ f[x] \in Nat
  BY <1>2, <1>5, SumType DEF Numbers
<1>8. SumFunctionOnSet(f, A) = f[x] + SumFunctionOnSet(f, B)
  BY <1>2, SumTake
<1> HIDE DEF B
<1> QED
  BY <1>3, <1>6, <1>7, <1>8

\* Terms that are zero sum up to zero.
LEMMA SumZero ==
    ASSUME NEW f, NEW S, IsFiniteSet(S), \A x \in S : f[x] = 0
    PROVE  SumFunctionOnSet(f, S) = 0
<1> DEFINE Bad == {t \in SUBSET S : SumFunctionOnSet(f, t) # 0}
<1> SUFFICES ASSUME Bad # {} PROVE FALSE
  OBVIOUS
<1>1. PICK A \in Bad : \A B \in Bad : B \subseteq A => B = A
  <2>1. Bad \in SUBSET SUBSET S
    OBVIOUS
  <2> HIDE DEF Bad
  <2> QED
    BY <2>1, MinimalSet
<1> DEFINE B == A \ {Chosen(A)}
<1>2. A \in SUBSET S /\ IsFiniteSet(A)
  BY FS_Subset
<1>3. A # {}
  <2>1. SumFunctionOnSet(f, {}) = 0
    BY FS_EmptySet, SumUnfold
  <2> QED
    BY <2>1
<1>4. Chosen(A) \in A /\ B \in SUBSET S /\ B # A /\ B \subseteq A
  BY <1>2, <1>3, ChosenIn
<1>5. SumFunctionOnSet(f, B) = 0 /\ f[Chosen(A)] = 0
  BY <1>1, <1>2, <1>4
<1>6. SumFunctionOnSet(f, A) = 0
  BY <1>2, <1>3, <1>5, SumUnfold
<1> QED
  BY <1>6
=============================================================================
