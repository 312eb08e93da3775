----------------------------- MODULE Induction ------------------------------
(***************************************************************************)
(* Induction over numbers and over finite sets, and what it gives for sums.*)
(*                                                                         *)
(* The library states induction for a predicate, which no installed prover *)
(* can be given.  Here it is stated for a set instead: to show that all    *)
(* numbers (all subsets) have a property, take the set of those that do.   *)
(* Then what the proofs need of prefixes, members and counts.              *)
(***************************************************************************)
EXTENDS Integers, SequencesExt, FiniteSetTheorems, SequenceTheorems,
        WellFoundedInduction, TLAPS

\* A set with 0 and every successor of its members has all naturals.
LEMMA NatSets ==
    ASSUME NEW S, 0 \in S, \A n \in Nat : n \in S => n + 1 \in S
    PROVE  Nat \subseteq S
<1> DEFINE T == Nat \ S
           R == {ss \in Nat \X Nat : ss[1] < ss[2]}
<1>1. IsWellFoundedOn(R, Nat)
  BY NatLessThanWellFounded DEF OpToRel
<1> SUFFICES ASSUME T # {} PROVE FALSE
  OBVIOUS
<1> HIDE DEF R
<1>2. PICK x \in T : \A y \in T : <<y, x>> \notin R
  BY <1>1, WFMin
<1>3. x # 0 /\ x - 1 \in Nat
  BY <1>2
<1>4. <<x - 1, x>> \in R
  BY <1>2, <1>3 DEF R
<1>5. x - 1 \in S
  BY <1>2, <1>3, <1>4
<1>6. (x - 1) + 1 = x
  BY <1>2
<1> QED
  BY <1>2, <1>3, <1>5, <1>6

\* A set of naturals that has one has a least.
LEMMA LeastExists ==
    ASSUME NEW S \in SUBSET Nat, S # {}
    PROVE  \E j \in S : \A k \in S : j <= k
<1> DEFINE R == {ss \in Nat \X Nat : ss[1] < ss[2]}
<1>1. IsWellFoundedOn(R, Nat)
  BY NatLessThanWellFounded DEF OpToRel
<1> HIDE DEF R
<1>2. PICK j \in S : \A k \in S : <<k, j>> \notin R
  BY <1>1, WFMin
<1>3. \A k \in S : ~(k < j)
  BY <1>2 DEF R
<1> QED
  BY <1>3

\* A family that has a finite set as soon as it has all that is strictly in
\* it, and so for every subset of S, has S.
LEMMA FinSetsStrong ==
    ASSUME NEW S, IsFiniteSet(S), NEW F,
           \A T \in SUBSET S :
              (\A U \in SUBSET T : U # T => U \in F) => T \in F
    PROVE  S \in F
<1> DEFINE B == {T \in SUBSET S : T \notin F}
           R == StrictSubsetOrdering(S)
<1>1. IsWellFoundedOn(R, SUBSET S)
  <2>1. FiniteSubsetsOf(S) = SUBSET S
    BY FS_FiniteSubsetsOfFinite
  <2>2. IsWellFoundedOn(R, FiniteSubsetsOf(S))
    BY FS_StrictSubsetOrderingWellFounded
  <2> QED
    BY <2>1, <2>2
<1> SUFFICES ASSUME S \notin F PROVE FALSE
  OBVIOUS
<1>2. PICK T \in B : \A U \in B : <<U, T>> \notin R
  <2> HIDE DEF R
  <2>1. B \subseteq SUBSET S /\ B # {}
    OBVIOUS
  <2> HIDE DEF B
  <2> QED
    BY <1>1, <2>1, WFMin
<1>3. ASSUME NEW U \in SUBSET T, U # T PROVE U \in F
  <2>1. <<U, T>> \in R /\ U \in SUBSET S
    BY <1>2, <1>3 DEF StrictSubsetOrdering
  <2> QED
    BY <1>2, <2>1
<1> QED
  BY <1>2, <1>3

\* The same by adding one member at a time.
LEMMA FinSets ==
    ASSUME NEW S, IsFiniteSet(S), NEW F, {} \in F,
           \A T \in SUBSET S, x \in S : T \in F /\ x \notin T => T \cup {x} \in F
    PROVE  S \in F
<1> SUFFICES ASSUME NEW T \in SUBSET S,
                    \A U \in SUBSET T : U # T => U \in F
             PROVE  T \in F
  BY FinSetsStrong
<1>1. CASE T = {}
  BY <1>1
<1>2. CASE T # {}
  <2>1. PICK x : x \in T
    BY <1>2
  <2>2. T \ {x} \in F /\ T \ {x} \in SUBSET S
    BY <2>1
  <2>3. (T \ {x}) \cup {x} = T
    BY <2>1
  <2> QED
    BY <2>1, <2>2, <2>3
<1> QED
  BY <1>1, <1>2

-----------------------------------------------------------------------------
\* The recursion behind a sum over S, on the subsets of S.
Choice(s) == CHOOSE x \in s : TRUE
Partial(f, D, g) ==
    g = [s \in D |-> IF s = {} THEN 0 ELSE f[Choice(s)] + g[s \ {Choice(s)}]]
Partials(f, S) == CHOOSE g : Partial(f, SUBSET S, g)

\* A sum is that recursion's value for the whole set.
LEMMA SumIsPartial ==
    ASSUME NEW f, NEW S
    PROVE  SumFunctionOnSet(f, S) = Partials(f, S)[S]
  BY DEF SumFunctionOnSet, FoldFunctionOnSet, MapThenFoldSet, Partials, Partial, Choice

\* A set that is not empty has its chosen member.
LEMMA ChoiceIsMember == ASSUME NEW s, s # {} PROVE Choice(s) \in s
  BY DEF Choice

\* The recursion has a solution on a finite set.
LEMMA PartialsExist ==
    ASSUME NEW f, NEW S, IsFiniteSet(S)
    PROVE  Partial(f, SUBSET S, Partials(f, S))
<1> DEFINE Below(n) == {U \in SUBSET S : Cardinality(U) <= n}
           Solved == {n \in Nat : \E g : Partial(f, Below(n), g)}
<1>0. \A U \in SUBSET S : IsFiniteSet(U) /\ Cardinality(U) \in Nat
  BY FS_Subset, FS_CardinalityType
<1>1. 0 \in Solved
  <2>1. \A U \in Below(0) : U = {}
    BY <1>0, FS_EmptySet
  <2>2. Partial(f, Below(0), [s \in Below(0) |-> 0])
    <3> HIDE DEF Below
    <3> QED
      BY <2>1 DEF Partial
  <2> QED
    BY <2>2
<1>2. ASSUME NEW n \in Nat, n \in Solved PROVE n + 1 \in Solved
  <2>1. PICK g : Partial(f, Below(n), g)
    BY <1>2
  <2> DEFINE h == [s \in Below(n + 1) |->
                     IF s = {} THEN 0 ELSE f[Choice(s)] + g[s \ {Choice(s)}]]
  <2>2. Below(n) \subseteq Below(n + 1)
    BY <1>0
  <2>3. \A s \in Below(n) : h[s] = g[s]
    <3> HIDE DEF Below
    <3> QED
      BY <2>1, <2>2 DEF Partial
  <2>4. ASSUME NEW s \in Below(n + 1), s # {}
        PROVE  s \ {Choice(s)} \in Below(n)
    BY <1>0, <2>4, ChoiceIsMember, FS_RemoveElement
  <2>5. Partial(f, Below(n + 1), h)
    <3> HIDE DEF Below
    <3> QED
      BY <2>3, <2>4 DEF Partial
  <2> HIDE DEF Below, h
  <2> QED
    BY <2>5
<1>3. Cardinality(S) \in Solved
  <2> HIDE DEF Solved
  <2> QED
    BY <1>0, <1>1, <1>2, NatSets
<1>4. Below(Cardinality(S)) = SUBSET S
  BY <1>0, FS_Subset
<1>5. \E g : Partial(f, SUBSET S, g)
  BY <1>3, <1>4
<1> QED
  BY <1>5 DEF Partials

\* A solution on S gives the sums of the subsets of S.
LEMMA PartialsAreSums ==
    ASSUME NEW f, NEW S, IsFiniteSet(S), NEW T \in SUBSET S
    PROVE  Partials(f, S)[T] = SumFunctionOnSet(f, T)
<1> DEFINE g == Partials(f, S)
           h == Partials(f, T)
           Same == {U \in SUBSET T : g[U] = h[U]}
<1>1. Partial(f, SUBSET S, g) /\ Partial(f, SUBSET T, h) /\ IsFiniteSet(T)
  BY PartialsExist, FS_Subset
<1> HIDE DEF g, h
<1>2. ASSUME NEW U \in SUBSET T, \A V \in SUBSET U : V # U => V \in Same
      PROVE  U \in Same
  <2>1. CASE U = {}
    BY <1>1, <2>1 DEF Partial
  <2>2. CASE U # {}
    <3>1. Choice(U) \in U
      BY <2>2, ChoiceIsMember
    <3>2. U \ {Choice(U)} \in Same
      BY <1>2, <3>1
    <3>3. g[U] = f[Choice(U)] + g[U \ {Choice(U)}]
      BY <1>1, <2>2 DEF Partial
    <3>4. h[U] = f[Choice(U)] + h[U \ {Choice(U)}]
      BY <1>1, <2>2 DEF Partial
    <3> QED
      BY <3>2, <3>3, <3>4
  <2> QED
    BY <2>1, <2>2
<1>3. T \in Same
  <2> HIDE DEF Same
  <2> QED
    BY <1>1, <1>2, FinSetsStrong
<1> QED
  BY <1>3, SumIsPartial DEF g, h

-----------------------------------------------------------------------------
\* Nothing sums to 0.
LEMMA SumEmpty == ASSUME NEW f PROVE SumFunctionOnSet(f, {}) = 0
<1>1. Partial(f, SUBSET {}, Partials(f, {}))
  BY PartialsExist, FS_EmptySet
<1> QED
  BY <1>1, SumIsPartial DEF Partial

\* A sum of zeros, whatever the set.
LEMMA SumZero ==
    ASSUME NEW f, NEW S, IsFiniteSet(S), \A x \in S : f[x] = 0
    PROVE  SumFunctionOnSet(f, S) = 0
<1> DEFINE Zero == {T \in SUBSET S : SumFunctionOnSet(f, T) = 0}
           g == Partials(f, S)
<1>1. Partial(f, SUBSET S, g)
  BY PartialsExist
<1>2. \A T \in SUBSET S : g[T] = SumFunctionOnSet(f, T)
  BY PartialsAreSums
<1> HIDE DEF g
<1>3. ASSUME NEW T \in SUBSET S, \A U \in SUBSET T : U # T => U \in Zero
      PROVE  T \in Zero
  <2>1. CASE T = {}
    BY <2>1, SumEmpty
  <2>2. CASE T # {}
    <3>1. Choice(T) \in T /\ T \ {Choice(T)} \in SUBSET T /\ T \ {Choice(T)} # T
          /\ T \ {Choice(T)} \in SUBSET S
      BY <2>2, ChoiceIsMember
    <3>2. g[T] = f[Choice(T)] + g[T \ {Choice(T)}]
      BY <1>1, <2>2 DEF Partial
    <3>3. g[T \ {Choice(T)}] = 0
      BY <1>2, <1>3, <3>1
    <3>4. f[Choice(T)] = 0
      BY <3>1
    <3> QED
      BY <1>2, <3>2, <3>3, <3>4
  <2> QED
    BY <2>1, <2>2
<1> HIDE DEF Zero
<1>4. S \in Zero
  BY <1>3, FinSetsStrong
<1> QED
  BY <1>4 DEF Zero

\* The sum's defining equation: one chosen member and the others.
LEMMA SumChosen ==
    ASSUME NEW f, NEW S, IsFiniteSet(S), S # {}
    PROVE  SumFunctionOnSet(f, S)
             = f[Choice(S)] + SumFunctionOnSet(f, S \ {Choice(S)})
<1>1. Partial(f, SUBSET S, Partials(f, S))
  BY PartialsExist
<1>2. Partials(f, S)[S] = f[Choice(S)] + Partials(f, S)[S \ {Choice(S)}]
  BY <1>1 DEF Partial
<1> QED
  BY <1>2, PartialsAreSums

\* A sum of integers is an integer, of naturals a natural.
LEMMA SumType ==
    ASSUME NEW f, NEW S, IsFiniteSet(S), \A x \in S : f[x] \in Int
    PROVE  /\ SumFunctionOnSet(f, S) \in Int
           /\ (\A x \in S : f[x] \in Nat) => SumFunctionOnSet(f, S) \in Nat
<1> DEFINE Typed(A) == {T \in SUBSET S : SumFunctionOnSet(f, T) \in A}
<1>1. \A T \in SUBSET S : IsFiniteSet(T)
  BY FS_Subset
<1>2. ASSUME NEW A \in {Int, Nat}, \A x \in S : f[x] \in A PROVE S \in Typed(A)
  <2>1. ASSUME NEW T \in SUBSET S, \A U \in SUBSET T : U # T => U \in Typed(A)
        PROVE  T \in Typed(A)
    <3>1. CASE T = {}
      BY <3>1, SumEmpty
    <3>2. CASE T # {}
      <4>1. Choice(T) \in T /\ T \ {Choice(T)} \in Typed(A)
        BY <3>2, <2>1, ChoiceIsMember
      <4>2. SumFunctionOnSet(f, T) = f[Choice(T)] + SumFunctionOnSet(f, T \ {Choice(T)})
        BY <1>1, <3>2, SumChosen
      <4> QED
        BY <1>2, <4>1, <4>2
    <3> QED
      BY <3>1, <3>2
  <2> HIDE DEF Typed
  <2> QED
    BY <2>1, FinSetsStrong
<1> QED
  BY <1>2

\* Any member can be taken out of a sum.
LEMMA SumSplit ==
    ASSUME NEW f, NEW S, IsFiniteSet(S), \A x \in S : f[x] \in Int, NEW x \in S
    PROVE  SumFunctionOnSet(f, S) = f[x] + SumFunctionOnSet(f, S \ {x})
<1> DEFINE Sum(T) == SumFunctionOnSet(f, T)
           Splits == {T \in SUBSET S : \A y \in T : Sum(T) = f[y] + Sum(T \ {y})}
<1>1. \A T \in SUBSET S : IsFiniteSet(T) /\ Sum(T) \in Int
  BY FS_Subset, SumType
<1>2. ASSUME NEW T \in SUBSET S, \A U \in SUBSET T : U # T => U \in Splits,
             NEW y \in T
      PROVE  Sum(T) = f[y] + Sum(T \ {y})
  <2> DEFINE c == Choice(T)
  <2>1. c \in T
    BY ChoiceIsMember
  <2>2. Sum(T) = f[c] + Sum(T \ {c})
    BY <1>1, SumChosen
  <2>3. CASE y = c
    BY <2>2, <2>3
  <2>4. CASE y # c
    <3>1. Sum(T \ {c}) = f[y] + Sum((T \ {c}) \ {y})
      <4>1. T \ {c} \in Splits
        BY <1>2, <2>1
      <4> QED
        BY <4>1, <2>4
    <3>2. Sum(T \ {y}) = f[c] + Sum((T \ {y}) \ {c})
      <4>1. T \ {y} \in Splits
        BY <1>2
      <4> QED
        BY <4>1, <2>1, <2>4
    <3>3. (T \ {c}) \ {y} = (T \ {y}) \ {c} /\ (T \ {c}) \ {y} \in SUBSET S
      OBVIOUS
    <3>4. f[y] \in Int /\ f[c] \in Int /\ Sum((T \ {c}) \ {y}) \in Int
      BY <1>1, <2>1, <3>3
    <3>5. ASSUME NEW a \in Int, NEW b \in Int, NEW r \in Int
          PROVE  a + (b + r) = b + (a + r)
      OBVIOUS
    <3> HIDE DEF c, Sum
    <3>6. Sum(T) = f[c] + (f[y] + Sum((T \ {c}) \ {y}))
      BY <2>2, <3>1
    <3>7. Sum(T \ {y}) = f[c] + Sum((T \ {c}) \ {y})
      BY <3>2, <3>3
    <3> QED
      BY <3>4, <3>5, <3>6, <3>7
  <2> QED
    BY <2>3, <2>4
<1>3. S \in Splits
  <2>1. \A T \in SUBSET S : (\A U \in SUBSET T : U # T => U \in Splits) => T \in Splits
    BY <1>2
  <2> HIDE DEF Splits
  <2> QED
    BY <2>1, FinSetsStrong
<1> QED
  BY <1>3

\* Functions that agree on a set have the same sum over it.
LEMMA SumAgree ==
    ASSUME NEW f, NEW g, NEW S, IsFiniteSet(S), \A x \in S : f[x] = g[x]
    PROVE  SumFunctionOnSet(f, S) = SumFunctionOnSet(g, S)
<1> DEFINE Agree == {T \in SUBSET S : SumFunctionOnSet(f, T) = SumFunctionOnSet(g, T)}
<1>1. \A T \in SUBSET S : IsFiniteSet(T)
  BY FS_Subset
<1>2. ASSUME NEW T \in SUBSET S, \A U \in SUBSET T : U # T => U \in Agree
      PROVE  T \in Agree
  <2>1. CASE T = {}
    BY <2>1, SumEmpty
  <2>2. CASE T # {}
    <3>1. Choice(T) \in T /\ T \ {Choice(T)} \in Agree
      BY <2>2, <1>2, ChoiceIsMember
    <3>2. SumFunctionOnSet(f, T) = f[Choice(T)] + SumFunctionOnSet(f, T \ {Choice(T)})
      BY <1>1, <2>2, SumChosen
    <3>3. SumFunctionOnSet(g, T) = g[Choice(T)] + SumFunctionOnSet(g, T \ {Choice(T)})
      BY <1>1, <2>2, SumChosen
    <3> QED
      BY <3>1, <3>2, <3>3
  <2> QED
    BY <2>1, <2>2
<1>3. S \in Agree
  <2> HIDE DEF Agree
  <2> QED
    BY <1>2, FinSetsStrong
<1> QED
  BY <1>3

\* Changing a function at one member changes its sum by the difference.
LEMMA SumUpdate ==
    ASSUME NEW f, NEW g, NEW S, IsFiniteSet(S), NEW x \in S,
           \A y \in S : f[y] \in Int /\ g[y] \in Int,
           \A y \in S \ {x} : f[y] = g[y]
    PROVE  SumFunctionOnSet(g, S) = SumFunctionOnSet(f, S) + (g[x] - f[x])
<1>1. IsFiniteSet(S \ {x})
  BY FS_Subset
<1>2. SumFunctionOnSet(f, S) = f[x] + SumFunctionOnSet(f, S \ {x})
  BY SumSplit
<1>3. SumFunctionOnSet(g, S) = g[x] + SumFunctionOnSet(g, S \ {x})
  BY SumSplit
<1>4. SumFunctionOnSet(f, S \ {x}) = SumFunctionOnSet(g, S \ {x})
  BY <1>1, SumAgree
<1>5. SumFunctionOnSet(f, S \ {x}) \in Int
  BY <1>1, SumType
<1> QED
  BY <1>2, <1>3, <1>4, <1>5

\* One summand more.
LEMMA SumAdd ==
    ASSUME NEW f, NEW S, IsFiniteSet(S), NEW x, x \notin S,
           f[x] \in Int, \A y \in S : f[y] \in Int
    PROVE  SumFunctionOnSet(f, S \cup {x}) = SumFunctionOnSet(f, S) + f[x]
<1> DEFINE T == S \cup {x}
<1>1. IsFiniteSet(T) /\ x \in T /\ T \ {x} = S /\ \A y \in T : f[y] \in Int
  BY FS_AddElement
<1> HIDE DEF T
<1>2. SumFunctionOnSet(f, T) = f[x] + SumFunctionOnSet(f, T \ {x})
  BY <1>1, SumSplit
<1>3. SumFunctionOnSet(f, S) \in Int
  BY SumType
<1>4. SumFunctionOnSet(f, T) = f[x] + SumFunctionOnSet(f, S)
  BY <1>1, <1>2
<1>5. \A a, b \in Int : a + b = b + a
  OBVIOUS
<1>6. f[x] + SumFunctionOnSet(f, S) = SumFunctionOnSet(f, S) + f[x]
  BY <1>3, <1>5, Zenon
<1> QED
  BY <1>4, <1>6 DEF T

\* A sum of equal summands.
LEMMA SumConstant ==
    ASSUME NEW f, NEW S, IsFiniteSet(S), NEW k \in Int, \A x \in S : f[x] = k
    PROVE  SumFunctionOnSet(f, S) = k * Cardinality(S)
<1> DEFINE F == {T \in SUBSET S : SumFunctionOnSet(f, T) = k * Cardinality(T)}
<1>1. {} \in F
  <2>1. Cardinality({}) = 0 /\ SumFunctionOnSet(f, {}) = 0
    BY FS_EmptySet, SumEmpty
  <2>2. k * 0 = 0
    OBVIOUS
  <2> QED
    BY <2>1, <2>2
<1>2. ASSUME NEW T \in SUBSET S, NEW x \in S, T \in F, x \notin T PROVE T \cup {x} \in F
  <2>1. IsFiniteSet(T)
    BY FS_Subset
  <2>2. SumFunctionOnSet(f, T \cup {x}) = SumFunctionOnSet(f, T) + k
    <3>1. f[x] = k /\ \A y \in T : f[y] \in Int
      OBVIOUS
    <3>2. SumFunctionOnSet(f, T \cup {x}) = SumFunctionOnSet(f, T) + f[x]
      BY <1>2, <2>1, <3>1, SumAdd
    <3> QED
      BY <3>1, <3>2
  <2>3. Cardinality(T \cup {x}) = Cardinality(T) + 1 /\ Cardinality(T) \in Nat
    BY <1>2, <2>1, FS_AddElement, FS_CardinalityType
  <2>4. \A n \in Nat : k * (n + 1) = k * n + k
    OBVIOUS
  <2> QED
    BY <1>2, <2>2, <2>3, <2>4
<1>3. S \in F
  <2> HIDE DEF F
  <2> QED
    BY <1>1, <1>2, FinSets
<1> QED
  BY <1>3

\* Larger summands, a larger sum.
LEMMA SumLeq ==
    ASSUME NEW f, NEW g, NEW S, IsFiniteSet(S),
           \A x \in S : f[x] \in Int /\ g[x] \in Int /\ f[x] <= g[x]
    PROVE  SumFunctionOnSet(f, S) <= SumFunctionOnSet(g, S)
<1> DEFINE F == {T \in SUBSET S : SumFunctionOnSet(f, T) <= SumFunctionOnSet(g, T)}
<1>1. {} \in F
  BY SumEmpty
<1>2. ASSUME NEW T \in SUBSET S, NEW x \in S, T \in F, x \notin T PROVE T \cup {x} \in F
  <2>1. IsFiniteSet(T)
    BY FS_Subset
  <2>2. /\ SumFunctionOnSet(f, T \cup {x}) = SumFunctionOnSet(f, T) + f[x]
        /\ SumFunctionOnSet(g, T \cup {x}) = SumFunctionOnSet(g, T) + g[x]
    BY <1>2, <2>1, SumAdd
  <2>3. SumFunctionOnSet(f, T) \in Int /\ SumFunctionOnSet(g, T) \in Int
    BY <2>1, SumType
  <2> QED
    BY <1>2, <2>2, <2>3
<1>3. S \in F
  <2> HIDE DEF F
  <2> QED
    BY <1>1, <1>2, FinSets
<1> QED
  BY <1>3

\* The sum over two sets that share nothing.
LEMMA SumUnion ==
    ASSUME NEW f, NEW S, NEW T, IsFiniteSet(S), IsFiniteSet(T), S \cap T = {},
           \A x \in S \cup T : f[x] \in Int
    PROVE  SumFunctionOnSet(f, S \cup T) = SumFunctionOnSet(f, S) + SumFunctionOnSet(f, T)
<1> DEFINE F == {U \in SUBSET T :
                   SumFunctionOnSet(f, S \cup U) = SumFunctionOnSet(f, S) + SumFunctionOnSet(f, U)}
<1>0. SumFunctionOnSet(f, S) \in Int
  BY SumType
<1>1. {} \in F
  <2>1. S \cup {} = S
    OBVIOUS
  <2> QED
    BY <1>0, <2>1, SumEmpty
<1>2. ASSUME NEW U \in SUBSET T, NEW x \in T, U \in F, x \notin U PROVE U \cup {x} \in F
  <2>1. IsFiniteSet(U) /\ IsFiniteSet(S \cup U)
    BY FS_Subset, FS_Union
  <2>2. x \notin S \cup U /\ S \cup (U \cup {x}) = (S \cup U) \cup {x}
    BY <1>2
  <2>3. SumFunctionOnSet(f, (S \cup U) \cup {x}) = SumFunctionOnSet(f, S \cup U) + f[x]
    BY <2>1, <2>2, SumAdd
  <2>4. SumFunctionOnSet(f, U \cup {x}) = SumFunctionOnSet(f, U) + f[x]
    BY <1>2, <2>1, SumAdd
  <2>5. SumFunctionOnSet(f, U) \in Int /\ f[x] \in Int
    BY <2>1, SumType
  <2>6. SumFunctionOnSet(f, S \cup U) = SumFunctionOnSet(f, S) + SumFunctionOnSet(f, U)
    BY <1>2
  <2>7. SumFunctionOnSet(f, S \cup (U \cup {x})) = SumFunctionOnSet(f, S \cup U) + f[x]
    BY <2>2, <2>3
  <2>8. SumFunctionOnSet(f, S \cup (U \cup {x}))
           = SumFunctionOnSet(f, S) + SumFunctionOnSet(f, U \cup {x})
    BY <1>0, <2>4, <2>5, <2>6, <2>7
  <2> QED
    BY <2>8
<1>3. T \in F
  <2> HIDE DEF F
  <2> QED
    BY <1>1, <1>2, FinSets
<1> QED
  BY <1>3

-----------------------------------------------------------------------------
\* Prefixes by their members.
LEMMA PrefixMembers ==
    ASSUME NEW E, NEW s \in Seq(E), NEW u \in Seq(E)
    PROVE  IsPrefix(s, u) <=> Len(s) <= Len(u) /\ \A k \in 1..Len(s) : s[k] = u[k]
<1>1. /\ Len(s) \in Nat /\ Len(u) \in Nat
      /\ \A k \in 1..Len(s) : s[k] \in E
      /\ \A k \in 1..Len(u) : u[k] \in E
  BY LenProperties, ElementOfSeq
<1>2. SubSeq(s, 1, Len(s)) = s
  BY SubSeqFull
<1> SUFFICES ASSUME Len(s) <= Len(u)
             PROVE  SubSeq(u, 1, Len(s)) = s <=> \A k \in 1..Len(s) : s[k] = u[k]
  BY <1>2 DEF IsPrefix
<1> DEFINE v == SubSeq(u, 1, Len(s))
<1>3. v \in Seq(E) /\ Len(v) = Len(s) /\ \A k \in 1..Len(s) : v[k] = u[k]
  <2>1. \A k \in 1..Len(s) : u[k] \in E
    BY <1>1
  <2>2. /\ v \in Seq(E)
        /\ Len(v) = IF 1 <= Len(s) THEN Len(s) - 1 + 1 ELSE 0
        /\ \A k \in 1..(Len(s) - 1 + 1) : v[k] = u[1 + k - 1]
    BY <1>1, <2>1, SubSeqProperties
  <2> QED
    BY <1>1, <2>2
<1> HIDE DEF v
<1>4. v = s <=> \A k \in 1..Len(s) : s[k] = v[k]
  BY <1>3, SeqEqual
<1>5. v = s <=> \A k \in 1..Len(s) : s[k] = u[k]
  BY <1>3, <1>4
<1> QED
  BY <1>5 DEF v

\* A sequence is a prefix of itself.
LEMMA PrefixRefl ==
    ASSUME NEW E, NEW s \in Seq(E) PROVE IsPrefix(s, s)
  BY LenProperties DEF IsPrefix

\* Nothing is a prefix of anything.
LEMMA PrefixEmpty ==
    ASSUME NEW E, NEW s \in Seq(E) PROVE IsPrefix(<<>>, s)
<1>1. <<>> \in Seq(E) /\ Len(<<>>) = 0 /\ Len(s) \in Nat
  BY EmptySeq, LenProperties
<1> DEFINE e == <<>>
<1> HIDE DEF e
<1>2. Len(e) <= Len(s) /\ \A k \in 1..Len(e) : e[k] = s[k]
  BY <1>1 DEF e
<1>3. IsPrefix(e, s)
  BY <1>1, <1>2, PrefixMembers DEF e
<1> QED
  BY <1>3 DEF e

\* A prefix stays one when the whole is extended.
LEMMA PrefixAppend ==
    ASSUME NEW E, NEW s \in Seq(E), NEW u \in Seq(E), NEW e \in E, IsPrefix(s, u)
    PROVE  IsPrefix(s, Append(u, e))
<1> DEFINE w == Append(u, e)
<1>1. /\ w \in Seq(E) /\ Len(w) = Len(u) + 1 /\ Len(s) \in Nat /\ Len(u) \in Nat
      /\ \A k \in 1..Len(u) : w[k] = u[k]
  BY LenProperties, AppendProperties
<1>2. Len(s) <= Len(u) /\ \A k \in 1..Len(s) : s[k] = u[k]
  BY PrefixMembers
<1> HIDE DEF w
<1>3. Len(s) <= Len(w) /\ \A k \in 1..Len(s) : s[k] = w[k]
  BY <1>1, <1>2
<1>4. IsPrefix(s, w)
  BY <1>1, <1>3, PrefixMembers
<1> QED
  BY <1>4 DEF w

\* And of itself extended.
LEMMA PrefixAppended ==
    ASSUME NEW E, NEW s \in Seq(E), NEW e \in E
    PROVE  IsPrefix(s, Append(s, e))
  BY PrefixRefl, PrefixAppend

\* Members of a sequence with one more.
LEMMA ToSetAppend ==
    ASSUME NEW E, NEW s \in Seq(E), NEW e \in E
    PROVE  ToSet(Append(s, e)) = ToSet(s) \cup {e}
<1> DEFINE w == Append(s, e)
<1>1. /\ DOMAIN w = 1..(Len(s) + 1) /\ DOMAIN s = 1..Len(s) /\ Len(s) \in Nat
      /\ \A k \in 1..Len(s) : w[k] = s[k]
      /\ w[Len(s) + 1] = e
  BY LenProperties, AppendProperties
<1> HIDE DEF w
<1>2. DOMAIN w = DOMAIN s \cup {Len(s) + 1}
  BY <1>1
<1>3. ToSet(w) = ToSet(s) \cup {e}
  BY <1>1, <1>2 DEF ToSet
<1> QED
  BY <1>3 DEF w

\* How many places of a sequence hold a member of A, and of it with one more.
CountIn(s, A) == Cardinality({k \in DOMAIN s : s[k] \in A})

\* It is a number.
LEMMA CountType ==
    ASSUME NEW E, NEW s \in Seq(E), NEW A
    PROVE  CountIn(s, A) \in Nat /\ IsFiniteSet({k \in DOMAIN s : s[k] \in A})
<1>1. DOMAIN s = 1..Len(s) /\ Len(s) \in Nat
  BY LenProperties
<1>2. IsFiniteSet(1..Len(s))
  BY <1>1, FS_Interval
<1>3. IsFiniteSet({k \in DOMAIN s : s[k] \in A})
  BY <1>1, <1>2, FS_Subset
<1> QED
  BY <1>3, FS_CardinalityType DEF CountIn

\* One more place counts if it holds a member.
LEMMA CountAppend ==
    ASSUME NEW E, NEW s \in Seq(E), NEW e \in E, NEW A
    PROVE  CountIn(Append(s, e), A) = CountIn(s, A) + (IF e \in A THEN 1 ELSE 0)
<1> DEFINE w == Append(s, e)
           B == {k \in DOMAIN s : s[k] \in A}
           C == {k \in DOMAIN w : w[k] \in A}
           n == Len(s) + 1
<1>1. /\ DOMAIN w = 1..n /\ DOMAIN s = 1..Len(s) /\ Len(s) \in Nat
      /\ \A k \in 1..Len(s) : w[k] = s[k]
      /\ w[n] = e
  BY LenProperties, AppendProperties
<1>2. IsFiniteSet(B) /\ Cardinality(B) \in Nat
  BY CountType DEF CountIn
<1> HIDE DEF w
<1>3. DOMAIN w = DOMAIN s \cup {n} /\ n \notin DOMAIN s
  BY <1>1
<1>4. CASE e \in A
  <2>1. C = B \cup {n} /\ n \notin B
    BY <1>1, <1>3, <1>4
  <2>2. Cardinality(C) = Cardinality(B) + 1
    <3> HIDE DEF B, C, n
    <3> QED
      BY <1>2, <2>1, FS_AddElement
  <2> QED
    BY <1>4, <2>2 DEF CountIn, w
<1>5. CASE e \notin A
  <2>1. C = B
    BY <1>1, <1>3, <1>5
  <2>2. Cardinality(C) = Cardinality(B) + 0
    <3> HIDE DEF B, C
    <3> QED
      BY <1>2, <2>1
  <2> QED
    BY <1>5, <2>2 DEF CountIn, w
<1> QED
  BY <1>4, <1>5

\* How often a value occurs in a sequence.
Occurrences(s, v) == Cardinality({k \in DOMAIN s : s[k] = v})

\* Occurrences are counted as members of a singleton.
LEMMA OccurrencesCount == ASSUME NEW s, NEW v PROVE Occurrences(s, v) = CountIn(s, {v})
<1>1. {k \in DOMAIN s : s[k] = v} = {k \in DOMAIN s : s[k] \in {v}}
  OBVIOUS
<1> QED
  BY <1>1 DEF Occurrences, CountIn

\* They are a number, of finitely many places.
LEMMA OccurrencesType ==
    ASSUME NEW E, NEW s \in Seq(E), NEW v
    PROVE  /\ Occurrences(s, v) \in Nat
           /\ IsFiniteSet({k \in DOMAIN s : s[k] = v})
<1>1. {k \in DOMAIN s : s[k] = v} = {k \in DOMAIN s : s[k] \in {v}}
  OBVIOUS
<1> QED
  BY <1>1, CountType, OccurrencesCount

\* With one more there is one more, if it is the value.
LEMMA OccurrencesAppend ==
    ASSUME NEW E, NEW s \in Seq(E), NEW e \in E, NEW v
    PROVE  Occurrences(Append(s, e), v) = Occurrences(s, v) + (IF e = v THEN 1 ELSE 0)
<1>1. e \in {v} <=> e = v
  OBVIOUS
<1> DEFINE A == {v}
<1> HIDE DEF A
<1>2. CountIn(Append(s, e), A) = CountIn(s, A) + (IF e \in A THEN 1 ELSE 0)
  BY CountAppend
<1> QED
  BY <1>1, <1>2, OccurrencesCount DEF A

\* The greatest of a finite set of numbers that has 0.
LEMMA MaxIsBound ==
    ASSUME NEW S \in SUBSET Nat, IsFiniteSet(S)
    PROVE  /\ Max({0} \cup S) \in {0} \cup S
           /\ \A x \in {0} \cup S : x <= Max({0} \cup S)
<1> DEFINE Topped == {T \in SUBSET S : \E m \in {0} \cup T : \A x \in {0} \cup T : m >= x}
<1>1. {} \in Topped
  OBVIOUS
<1>2. ASSUME NEW T \in SUBSET S, NEW y \in S, T \in Topped PROVE T \cup {y} \in Topped
  <2>1. PICK m \in {0} \cup T : \A x \in {0} \cup T : m >= x
    BY <1>2
  <2>2. m \in Nat /\ y \in Nat
    OBVIOUS
  <2>3. CASE m >= y
    BY <2>1, <2>3
  <2>4. CASE y > m
    <3>1. \A x \in {0} \cup (T \cup {y}) : y >= x
      BY <2>1, <2>2, <2>4
    <3> QED
      BY <3>1
  <2> QED
    BY <2>2, <2>3, <2>4
<1>3. S \in Topped
  <2> HIDE DEF Topped
  <2> QED
    BY <1>1, <1>2, FinSets
<1>4. Max({0} \cup S) \in {0} \cup S /\ \A x \in {0} \cup S : Max({0} \cup S) >= x
  BY <1>3 DEF Max
<1> QED
  BY <1>4

\* A sequence has finitely many members.
LEMMA ToSetFinite ==
    ASSUME NEW E, NEW s \in Seq(E)
    PROVE  ToSet(s) \in SUBSET E /\ IsFiniteSet(ToSet(s))
<1>1. DOMAIN s = 1..Len(s) /\ Len(s) \in Nat /\ \A k \in DOMAIN s : s[k] \in E
  BY LenProperties, ElementOfSeq
<1>2. IsFiniteSet(DOMAIN s)
  BY <1>1, FS_Interval
<1>3. s \in Surjection(DOMAIN s, ToSet(s))
  BY LenProperties DEF ToSet, Surjection
<1>4. IsFiniteSet(ToSet(s))
  BY <1>2, <1>3, FS_Surjection
<1> QED
  BY <1>1, <1>4 DEF ToSet
=============================================================================
