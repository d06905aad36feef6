----------------------------- MODULE FoldProofs -----------------------------
(***************************************************************************)
(* What MapThenFoldSet computes: the folds of the community modules are    *)
(* recursive functions over the subsets of a finite set, which exist, and  *)
(* which take an item after the other.  Instantiated with what a fold      *)
(* does, these theorems unroll it.                                         *)
(***************************************************************************)
EXTENDS FiniteSetTheorems, NaturalsInduction, WellFoundedInduction, TLAPS

CONSTANTS
  Step(_, _, _),  \* from a parameter, an item, and what the others gave
  Pick(_),        \* the item that comes last
  base(_)         \* from a parameter: what no item gives

-----------------------------------------------------------------------------
(* Definitions. *)

Fold(f, S) ==
  LET iter[T \in SUBSET S] ==
        IF T = {} THEN base(f) ELSE Step(f, Pick(T), iter[T \ {Pick(T)}])
  IN  iter[S]

\* An item that is picked is one of the set.
Picks(S) == \A T \in SUBSET S : T # {} => Pick(T) \in T

\* The recursion, as a function of what it calls.
Body(f, S, g) ==
  [T \in SUBSET S |->
     IF T = {} THEN base(f) ELSE Step(f, Pick(T), g[T \ {Pick(T)}])]

\* A function that has the values of the recursion on sets of n items at most.
UpTo(f, S, g, n) ==
  \A T \in SUBSET S : Cardinality(T) <= n => g[T] = Body(f, S, g)[T]

-----------------------------------------------------------------------------
(* Induction over the subsets of a finite set. *)

\* A set of naturals has a least element.
LEMMA LeastLemma ==
  ASSUME NEW Bad \in SUBSET Nat, Bad # {}
  PROVE  \E k \in Bad : \A j \in Bad : ~ (j < k)
<1>. DEFINE Less == {ss \in Nat \X Nat : ss[1] < ss[2]}
<1>1. IsWellFoundedOn(Less, Nat)
  BY NatLessThanWellFounded DEF OpToRel
<1>. HIDE DEF Less
<1>2. PICK k \in Bad : \A j \in Bad : <<j, k>> \notin Less
  BY <1>1, WFMin
<1>3. \A j \in Bad : j < k => <<j, k>> \in Less
  BY DEF Less
<1>. QED
  BY <1>2, <1>3

\* A set is good if every subset is as soon as all those below it are.
THEOREM StrongInduction ==
  ASSUME NEW S, IsFiniteSet(S), NEW Good,
         \A T \in SUBSET S : (\A R \in SUBSET T : R # T => R \in Good) => T \in Good
  PROVE  S \in Good
<1>. DEFINE Bad == {k \in Nat : \E T \in SUBSET S : T \notin Good /\ Cardinality(T) = k}
<1>1. Bad = {}
  <2>. SUFFICES ASSUME Bad # {} PROVE FALSE
    OBVIOUS
  <2>1. PICK k \in Bad : \A j \in Bad : ~ (j < k)
    BY LeastLemma
  <2>2. PICK T \in SUBSET S : T \notin Good /\ Cardinality(T) = k
    BY <2>1
  <2>3. PICK R \in SUBSET T : R # T /\ R \notin Good
    BY <2>2
  <2>4. IsFiniteSet(T)
    BY FS_Subset
  <2>5. /\ Cardinality(R) \in Nat
        /\ Cardinality(R) <= Cardinality(T)
        /\ Cardinality(R) # Cardinality(T)
    BY <2>3, <2>4, FS_Subset, FS_CardinalityType
  <2>6. Cardinality(R) \in Bad
    BY <2>3, <2>5
  <2>. QED
    BY <2>1, <2>2, <2>5, <2>6
<1>2. Cardinality(S) \in Nat
  BY FS_CardinalityType
<1>. QED
  BY <1>1, <1>2

\* The same, an item at a time.
THEOREM SubsetInduction ==
  ASSUME NEW S, IsFiniteSet(S), NEW Good, {} \in Good,
         \A T \in SUBSET S : \A x \in S \ T : T \in Good => T \union {x} \in Good
  PROVE  S \in Good
<1>1. ASSUME NEW T \in SUBSET S, \A R \in SUBSET T : R # T => R \in Good
      PROVE  T \in Good
  <2>1. CASE T = {}
    BY <2>1
  <2>2. CASE T # {}
    <3>1. PICK x \in T : TRUE
      BY <2>2
    <3>2. T \ {x} \in Good
      BY <1>1, <3>1
    <3>3. (T \ {x}) \union {x} \in Good
      BY <3>1, <3>2
    <3>4. (T \ {x}) \union {x} = T
      BY <3>1
    <3>. QED
      BY <3>3, <3>4
  <2>. QED
    BY <2>1, <2>2
<1>. QED
  BY <1>1, StrongInduction

-----------------------------------------------------------------------------
(* The recursive function exists. *)

LEMMA PicksSubset ==
  ASSUME NEW S, Picks(S), NEW R \in SUBSET S
  PROVE  Picks(R)
BY DEF Picks

LEMMA RestLemma ==
  ASSUME NEW T, IsFiniteSet(T), Picks(T), T # {}
  PROVE  /\ Pick(T) \in T
         /\ T \ {Pick(T)} \in SUBSET T
         /\ T \ {Pick(T)} # T
         /\ IsFiniteSet(T \ {Pick(T)})
         /\ Cardinality(T) \in Nat
         /\ Cardinality(T \ {Pick(T)}) = Cardinality(T) - 1
<1>1. Pick(T) \in T
  BY DEF Picks
<1>. QED
  BY <1>1, FS_RemoveElement, FS_CardinalityType

\* From sets of n items to sets of one more.
LEMMA UpToNext ==
  ASSUME NEW f, NEW S, IsFiniteSet(S), Picks(S), NEW n \in Nat, NEW g, UpTo(f, S, g, n)
  PROVE  UpTo(f, S, Body(f, S, g), n + 1)
<1>. DEFINE h == Body(f, S, g)
<1>1. ASSUME NEW T \in SUBSET S, Cardinality(T) <= n + 1
      PROVE  h[T] = Body(f, S, h)[T]
  <2>1. CASE T = {}
    BY <2>1 DEF Body
  <2>2. CASE T # {}
    <3>. DEFINE R == T \ {Pick(T)}
    <3>1. IsFiniteSet(T) /\ Picks(T)
      BY FS_Subset, PicksSubset
    <3>2. R \in SUBSET S /\ Cardinality(R) <= n
      <4>1. /\ R \in SUBSET T
            /\ Cardinality(T) \in Nat
            /\ Cardinality(R) = Cardinality(T) - 1
        BY <2>2, <3>1, RestLemma
      <4>. HIDE DEF R
      <4>. QED
        BY <1>1, <4>1
    <3>3. g[R] = h[R]
      BY <3>2 DEF UpTo
    <3>4. h[T] = Step(f, Pick(T), g[R])
      BY <2>2 DEF Body
    <3>5. Body(f, S, h)[T] = Step(f, Pick(T), h[R])
      <4>. HIDE DEF h
      <4>. QED
        BY <2>2 DEF Body
    <3>. QED
      BY <3>3, <3>4, <3>5
  <2>. QED
    BY <2>1, <2>2
<1>. QED
  BY <1>1 DEF UpTo

LEMMA UpToExists ==
  ASSUME NEW f, NEW S, IsFiniteSet(S), Picks(S), NEW n \in Nat
  PROVE  \E g : UpTo(f, S, g, n)
<1>. DEFINE Bad == {k \in Nat : ~ \E g : UpTo(f, S, g, k)}
<1>. SUFFICES ASSUME Bad # {} PROVE FALSE
  OBVIOUS
<1>1. PICK k \in Bad : \A j \in Bad : ~ (j < k)
  BY LeastLemma
<1>2. CASE k = 0
  <2>. DEFINE g == [T \in SUBSET S |-> base(f)]
  <2>1. ASSUME NEW T \in SUBSET S, Cardinality(T) <= 0
        PROVE  T = {}
    BY <2>1, FS_Subset, FS_EmptySet, FS_CardinalityType
  <2>2. UpTo(f, S, g, 0)
    BY <2>1 DEF UpTo, Body
  <2>. QED
    BY <1>1, <1>2, <2>2
<1>3. CASE k # 0
  <2>1. k - 1 \in Nat /\ k - 1 < k /\ k = (k - 1) + 1
    BY <1>3
  <2>2. k - 1 \notin Bad
    BY <1>1, <2>1
  <2>3. PICK g : UpTo(f, S, g, k - 1)
    BY <2>1, <2>2
  <2>4. UpTo(f, S, Body(f, S, g), k)
    BY <2>1, <2>3, UpToNext
  <2>. QED
    BY <1>1, <2>4
<1>. QED
  BY <1>2, <1>3

\* A function that has the right values up to the size of S is the recursion.
LEMMA BodyFixed ==
  ASSUME NEW f, NEW S, IsFiniteSet(S), Picks(S)
  PROVE  \E g : g = Body(f, S, g)
<1>1. Cardinality(S) \in Nat
  BY FS_CardinalityType
<1>2. PICK g : UpTo(f, S, g, Cardinality(S))
  BY <1>1, UpToExists
<1>3. \A T \in SUBSET S : Cardinality(T) <= Cardinality(S)
  BY FS_Subset
<1>4. \A T \in SUBSET S : g[T] = Body(f, S, g)[T]
  BY <1>2, <1>3 DEF UpTo
<1>. DEFINE h == Body(f, S, g)
<1>5. \A T \in SUBSET S : g[T] = h[T]
  BY <1>4
<1>6. \A T \in SUBSET S : T # {} => T \ {Pick(T)} \in SUBSET S
  OBVIOUS
<1>7. Body(f, S, g) = Body(f, S, h)
  <2>. HIDE DEF h
  <2>. QED
    BY <1>5, <1>6 DEF Body
<1>. QED
  BY <1>7

LEMMA FoldIsFixed ==
  ASSUME NEW f, NEW S, IsFiniteSet(S), Picks(S)
  PROVE  \E g : g = Body(f, S, g) /\ Fold(f, S) = g[S]
<1>. DEFINE iter == CHOOSE g : g = Body(f, S, g)
<1>1. iter = Body(f, S, iter)
  BY BodyFixed
<1>2. Fold(f, S) = iter[S]
  BY DEF Fold, Body
<1>. QED
  BY <1>1, <1>2

\* The recursions on a set and on a subset agree on the latter.
LEMMA BodyUnique ==
  ASSUME NEW f, NEW S, IsFiniteSet(S), Picks(S), NEW R \in SUBSET S,
         NEW g, NEW h, g = Body(f, S, g), h = Body(f, R, h)
  PROVE  g[R] = h[R]
<1>. DEFINE Good == {T \in SUBSET R : g[T] = h[T]}
<1>1. IsFiniteSet(R) /\ Picks(R)
  BY FS_Subset, PicksSubset
<1>2. ASSUME NEW T \in SUBSET R, \A Q \in SUBSET T : Q # T => Q \in Good
      PROVE  T \in Good
  <2>1. CASE T = {}
    <3>1. \A x : x = Body(f, S, g) => x[{}] = base(f)
      BY DEF Body
    <3>2. \A x : x = Body(f, R, h) => x[{}] = base(f)
      BY DEF Body
    <3>. QED
      BY <2>1, <3>1, <3>2
  <2>2. CASE T # {}
    <3>. DEFINE Q == T \ {Pick(T)}
    <3>1. Q \in SUBSET T /\ Q # T
      BY <1>1, <2>2 DEF Picks
    <3>2. g[Q] = h[Q]
      BY <1>2, <3>1
    <3>3. \A x : x = Body(f, S, g) => x[T] = Step(f, Pick(T), g[Q])
      BY <2>2 DEF Body
    <3>4. \A x : x = Body(f, R, h) => x[T] = Step(f, Pick(T), h[Q])
      BY <2>2 DEF Body
    <3>. QED
      BY <3>2, <3>3, <3>4
  <2>. QED
    BY <2>1, <2>2
<1>3. R \in Good
  <2>. HIDE DEF Good
  <2>. QED
    BY <1>1, <1>2, StrongInduction
<1>. QED
  BY <1>3

-----------------------------------------------------------------------------
(* The theorems. *)

\* Without items a fold gives its base; otherwise the item picked adds to what
\* the others gave.
THEOREM FoldUnrolled ==
  ASSUME NEW f, NEW S, IsFiniteSet(S), Picks(S)
  PROVE  /\ S = {} => Fold(f, S) = base(f)
         /\ S # {} => /\ Pick(S) \in S
                      /\ Fold(f, S) = Step(f, Pick(S), Fold(f, S \ {Pick(S)}))
<1>1. PICK g : g = Body(f, S, g) /\ Fold(f, S) = g[S]
  BY FoldIsFixed
<1>2. \A x : x = Body(f, S, g) =>
        /\ S = {} => x[S] = base(f)
        /\ S # {} => x[S] = Step(f, Pick(S), g[S \ {Pick(S)}])
  BY DEF Body
<1>3. ASSUME S # {}
      PROVE  /\ Pick(S) \in S
             /\ Fold(f, S) = Step(f, Pick(S), Fold(f, S \ {Pick(S)}))
  <2>. DEFINE R == S \ {Pick(S)}
  <2>1. Pick(S) \in S /\ R \in SUBSET S /\ IsFiniteSet(R) /\ Picks(R)
    BY <1>3, RestLemma, PicksSubset
  <2>2. PICK h : h = Body(f, R, h) /\ Fold(f, R) = h[R]
    BY <2>1, FoldIsFixed
  <2>3. g[R] = h[R]
    BY <1>1, <2>1, <2>2, BodyUnique
  <2>. QED
    BY <1>1, <1>2, <1>3, <2>1, <2>2, <2>3
<1>. QED
  BY <1>1, <1>2, <1>3

\* What each item keeps, the fold keeps.
THEOREM FoldStays ==
  ASSUME NEW f, NEW S, IsFiniteSet(S), Picks(S), NEW V, base(f) \in V,
         \A x \in S : \A v \in V : Step(f, x, v) \in V
  PROVE  Fold(f, S) \in V
<1>. DEFINE Good == {T \in SUBSET S : Fold(f, T) \in V}
<1>1. ASSUME NEW T \in SUBSET S, \A R \in SUBSET T : R # T => R \in Good
      PROVE  T \in Good
  <2>. DEFINE R == T \ {Pick(T)}
  <2>1. IsFiniteSet(T) /\ Picks(T)
    BY FS_Subset, PicksSubset
  <2>2. /\ T = {} => Fold(f, T) = base(f)
        /\ T # {} => Pick(T) \in T /\ Fold(f, T) = Step(f, Pick(T), Fold(f, R))
    BY <2>1, FoldUnrolled
  <2>3. T # {} => R \in SUBSET T /\ R # T
    BY <2>2
  <2>. HIDE DEF R
  <2>. QED
    BY <1>1, <2>2, <2>3
<1>2. S \in Good
  <2>. HIDE DEF Good
  <2>. QED
    BY <1>1, StrongInduction
<1>. QED
  BY <1>2
=============================================================================
