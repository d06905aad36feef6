-------------------------- MODULE MinimizeProofs ---------------------------
(***************************************************************************)
(* First sums, partitions of the states, signatures, and what minimization *)
(* needs to know about them, for every automaton and every weightset whose *)
(* weights add up in any order.  Then minimization itself, which keeps its *)
(* types and its promise by every algorithm.  For each of them: an         *)
(* invariant, what a step makes of it, why nothing is separated that a     *)
(* stable partition keeps together, and why what it ends with is stable.   *)
(***************************************************************************)
EXTENDS Minimize, FiniteSetTheorems, SequenceTheorems, TLAPS

-----------------------------------------------------------------------------
(* Folds. *)

\* Sums, and the states that can be reached from pre, or that reach post.
F == INSTANCE FoldProofs WITH
  Step <- LAMBDA f, x, v : Plus(f[x], v),
  Pick <- LAMBDA T : CHOOSE x \in T : TRUE,
  base <- LAMBDA f : zero

Forward == INSTANCE FoldProofs WITH
  Step <- LAMBDA a, x, v : v \union UNION {{b.dst : b \in Out(a, t)} : t \in v},
  Pick <- LAMBDA T : CHOOSE x \in T : TRUE,
  base <- LAMBDA a : {pre}

Backward == INSTANCE FoldProofs WITH
  Step <- LAMBDA a, x, v :
            v \union UNION {{b.src : b \in {e0 \in Arcs(a) : e0.dst = t}} : t \in v},
  Pick <- LAMBDA T : CHOOSE x \in T : TRUE,
  base <- LAMBDA a : {post}

\* The folds speak of the same finite sets.
LEMMA SameFinite == \A U : F!IsFiniteSet(U) <=> IsFiniteSet(U)
  BY DEF F!IsFiniteSet, IsFiniteSet

\* A set of sets has a finite set, if it has every subset of it whose smaller
\* subsets it has: induction over finite sets.
LEMMA StrongInduction ==
  ASSUME NEW U, IsFiniteSet(U), NEW Good,
         \A T \in SUBSET U : (\A R \in SUBSET T : R # T => R \in Good) => T \in Good
  PROVE  U \in Good
BY SameFinite, F!StrongInduction

\* The same, an item at a time.
LEMMA SubsetInduction ==
  ASSUME NEW U, IsFiniteSet(U), NEW Good, {} \in Good,
         \A T \in SUBSET U : \A x \in U \ T : T \in Good => T \union {x} \in Good
  PROVE  U \in Good
BY SameFinite, F!SubsetInduction

-----------------------------------------------------------------------------
(* Sums. *)

\* The sum of the weights that a function gives.
Sum(U, f) == SumOver(U, LAMBDA x : f[x])

\* The weights of K add up in any order, and zero is neutral.
IsMonoid(K) ==
  /\ zero \in K
  /\ \A x, y \in K : Plus(x, y) \in K /\ Plus(x, y) = Plus(y, x)
  /\ \A x, y, z \in K : Plus(Plus(x, y), z) = Plus(x, Plus(y, z))
  /\ \A x \in K : Plus(x, zero) = x

\* A sum is zero, or that of all items but one, to which this one is added.
LEMMA SumUnrolled ==
  ASSUME NEW U, IsFiniteSet(U), NEW f
  PROVE  /\ U = {} => Sum(U, f) = zero
         /\ U # {} => \E x \in U : Sum(U, f) = Plus(f[x], Sum(U \ {x}, f))
<1>. DEFINE x == CHOOSE x \in U : TRUE
<1>1. F!Picks(U) /\ F!IsFiniteSet(U)
  BY SameFinite DEF F!Picks
<1>2. \A T : Sum(T, f) = F!Fold(f, T)
  BY DEF Sum, SumOver, MapThenFoldSet, F!Fold
<1>3. /\ U = {} => F!Fold(f, U) = zero
      /\ U # {} => /\ x \in U
                   /\ F!Fold(f, U) = Plus(f[x], F!Fold(f, U \ {x}))
  <2>. HIDE DEF F!Fold
  <2>. QED
    BY <1>1, F!FoldUnrolled
<1>. HIDE DEF F!Fold, Sum
<1>. QED
  BY <1>2, <1>3

\* The sum of no weight is zero.
LEMMA SumEmpty == ASSUME NEW f PROVE Sum({}, f) = zero
  BY SumUnrolled, FS_EmptySet

\* The items of a set may be weighed by functions that agree on it only.
LEMMA SumSame ==
  ASSUME NEW U, IsFiniteSet(U), NEW f, NEW g, \A x \in U : f[x] = g[x]
  PROVE  Sum(U, f) = Sum(U, g)
<1>. DEFINE Good == {T \in SUBSET U : Sum(T, f) = Sum(T, g)}
     P(T) == CHOOSE x \in T : TRUE
<1>1. ASSUME NEW T \in SUBSET U, \A R \in SUBSET T : R # T => R \in Good
      PROVE  T \in Good
  <2>0. F!Picks(T) /\ F!IsFiniteSet(T)
    <3>1. IsFiniteSet(T)
      BY FS_Subset
    <3>. QED BY <3>1, SameFinite DEF F!Picks
  <2>1. \A h : Sum(T, h) = F!Fold(h, T) /\ Sum(T \ {P(T)}, h) = F!Fold(h, T \ {P(T)})
    BY DEF Sum, SumOver, MapThenFoldSet, F!Fold
  <2>2. \A h :
         /\ T = {} => F!Fold(h, T) = zero
         /\ T # {} => /\ P(T) \in T
                      /\ F!Fold(h, T) = Plus(h[P(T)], F!Fold(h, T \ {P(T)}))
    <3>. HIDE DEF F!Fold
    <3>. QED
      BY <2>0, F!FoldUnrolled
  <2>. HIDE DEF F!Fold, Sum, P
  <2>3. CASE T = {}
    BY <2>1, <2>2, <2>3
  <2>4. CASE T # {}
    <3>1. P(T) \in T /\ T \ {P(T)} # T /\ T \ {P(T)} \in SUBSET T
      BY <2>2, <2>4
    <3>2. Sum(T \ {P(T)}, f) = Sum(T \ {P(T)}, g)
      BY <1>1, <3>1
    <3>3. f[P(T)] = g[P(T)]
      BY <3>1
    <3>. QED
      BY <2>1, <2>2, <2>4, <3>2, <3>3
  <2>. QED
    BY <2>3, <2>4
<1>2. U \in Good
  <2>. HIDE DEF Good
  <2>. QED
    BY <1>1, StrongInduction
<1>. QED
  BY <1>2

\* A sum of weights is a weight.
LEMMA SumType ==
  ASSUME NEW K, IsMonoid(K), NEW U, IsFiniteSet(U), NEW f, \A x \in U : f[x] \in K
  PROVE  Sum(U, f) \in K
<1>. DEFINE Good == {T \in SUBSET U : Sum(T, f) \in K}
<1>1. ASSUME NEW T \in SUBSET U, \A R \in SUBSET T : R # T => R \in Good
      PROVE  T \in Good
  <2>1. IsFiniteSet(T)
    BY FS_Subset
  <2>2. CASE T = {}
    BY <2>2, SumEmpty DEF IsMonoid
  <2>3. CASE T # {}
    <3>1. PICK x \in T : Sum(T, f) = Plus(f[x], Sum(T \ {x}, f))
      BY <2>1, <2>3, SumUnrolled
    <3>2. Sum(T \ {x}, f) \in K
      BY <1>1, <3>1
    <3>. QED
      BY <3>1, <3>2 DEF IsMonoid
  <2>. QED
    BY <2>2, <2>3
<1>2. U \in Good
  <2>. HIDE DEF Good
  <2>. QED
    BY <1>1, StrongInduction
<1>. QED
  BY <1>2

\* Any item may be the one that is added last.
LEMMA SumTake ==
  ASSUME NEW K, IsMonoid(K), NEW U, IsFiniteSet(U), NEW f, \A x \in U : f[x] \in K,
         NEW a \in U
  PROVE  Sum(U, f) = Plus(f[a], Sum(U \ {a}, f))
<1>. DEFINE Good == {T \in SUBSET U : \A x \in T : Sum(T, f) = Plus(f[x], Sum(T \ {x}, f))}
<1>1. ASSUME NEW T \in SUBSET U, \A R \in SUBSET T : R # T => R \in Good
      PROVE  T \in Good
  <2>. SUFFICES ASSUME NEW x \in T
                PROVE  Sum(T, f) = Plus(f[x], Sum(T \ {x}, f))
    OBVIOUS
  <2>1. IsFiniteSet(T)
    BY FS_Subset
  <2>2. PICK y \in T : Sum(T, f) = Plus(f[y], Sum(T \ {y}, f))
    BY <2>1, SumUnrolled
  <2>3. CASE x # y
    <3>. DEFINE R == T \ {x, y}
    <3>1. T \ {y} \in Good /\ T \ {x} \in Good
      BY <1>1
    <3>2. (T \ {y}) \ {x} = R /\ (T \ {x}) \ {y} = R
      OBVIOUS
    <3>3. Sum(T \ {y}, f) = Plus(f[x], Sum(R, f)) /\ Sum(T \ {x}, f) = Plus(f[y], Sum(R, f))
      BY <2>3, <3>1, <3>2
    <3>4. Sum(R, f) \in K
      <4>1. R \in SUBSET U /\ IsFiniteSet(R)
        BY <2>1, FS_Subset
      <4>. QED BY <4>1, SumType
    <3>5. f[x] \in K /\ f[y] \in K
      OBVIOUS
    <3>. HIDE DEF R
    <3>6. \A u, v, r \in K : Plus(u, Plus(v, r)) = Plus(v, Plus(u, r))
      BY DEF IsMonoid
    <3>. QED
      BY <2>2, <3>3, <3>4, <3>5, <3>6
  <2>. QED
    BY <2>2, <2>3
<1>2. U \in Good
  <2>. HIDE DEF Good
  <2>. QED
    BY <1>1, StrongInduction
<1>. QED
  BY <1>2

\* The sum over two sets that share no item.
LEMMA SumUnion ==
  ASSUME NEW K, IsMonoid(K), NEW U, IsFiniteSet(U), NEW f, \A x \in U : f[x] \in K,
         NEW R, IsFiniteSet(R), \A x \in R : f[x] \in K, R \intersect U = {}
  PROVE  Sum(R \union U, f) = Plus(Sum(R, f), Sum(U, f))
<1>. DEFINE Good == {T \in SUBSET U : Sum(R \union T, f) = Plus(Sum(R, f), Sum(T, f))}
<1>0. Sum(R, f) \in K
  BY SumType
<1>1. {} \in Good
  <2>1. R \union {} = R
    OBVIOUS
  <2>. QED BY <1>0, <2>1, SumEmpty DEF IsMonoid
<1>2. ASSUME NEW T \in SUBSET U, NEW x \in U \ T, T \in Good
      PROVE  T \union {x} \in Good
  <2>1. IsFiniteSet(T) /\ IsFiniteSet(T \union {x}) /\ IsFiniteSet(R \union (T \union {x}))
    <3>1. T \in SUBSET U /\ T \union {x} \in SUBSET U
      OBVIOUS
    <3>2. IsFiniteSet(T) /\ IsFiniteSet(T \union {x})
      BY <3>1, FS_Subset
    <3>. QED
      BY <3>2, FS_Union
  <2>2. (T \union {x}) \ {x} = T /\ (R \union (T \union {x})) \ {x} = R \union T
    OBVIOUS
  <2>3. Sum(T \union {x}, f) = Plus(f[x], Sum(T, f))
    BY <2>1, <2>2, SumTake
  <2>4. Sum(R \union (T \union {x}), f) = Plus(f[x], Sum(R \union T, f))
    <3>1. \A y \in R \union (T \union {x}) : f[y] \in K
      OBVIOUS
    <3>. QED BY <2>1, <2>2, <3>1, SumTake
  <2>5. Sum(T, f) \in K /\ f[x] \in K
    BY <2>1, SumType
  <2>6. \A u, v, r \in K : Plus(u, Plus(v, r)) = Plus(v, Plus(u, r))
    BY DEF IsMonoid
  <2>. QED
    BY <1>0, <1>2, <2>3, <2>4, <2>5, <2>6
<1>3. U \in Good
  <2>. HIDE DEF Good
  <2>. QED
    BY <1>1, <1>2, SubsetInduction
<1>. QED
  BY <1>3

\* The sum of zeros is zero.
LEMMA SumZero ==
  ASSUME NEW K, IsMonoid(K), NEW U, IsFiniteSet(U), NEW f, \A x \in U : f[x] = zero
  PROVE  Sum(U, f) = zero
<1>. DEFINE Good == {T \in SUBSET U : Sum(T, f) = zero}
<1>1. {} \in Good
  BY SumEmpty
<1>2. ASSUME NEW T \in SUBSET U, NEW x \in U \ T, T \in Good
      PROVE  T \union {x} \in Good
  <2>1. IsFiniteSet(T) /\ IsFiniteSet(T \union {x})
    BY FS_Subset
  <2>2. (T \union {x}) \ {x} = T
    OBVIOUS
  <2>3. \A y \in T \union {x} : f[y] \in K
    BY DEF IsMonoid
  <2>4. Sum(T \union {x}, f) = Plus(f[x], Sum(T, f))
    BY <2>1, <2>2, <2>3, SumTake
  <2>5. Plus(zero, zero) = zero
    BY DEF IsMonoid
  <2>. QED
    BY <1>2, <2>4, <2>5
<1>3. U \in Good
  <2>. HIDE DEF Good
  <2>. QED
    BY <1>1, <1>2, SubsetInduction
<1>. QED
  BY <1>3

\* The sum of one weight is this weight.
LEMMA SumOne ==
  ASSUME NEW K, IsMonoid(K), NEW x, NEW f, f[x] \in K
  PROVE  Sum({x}, f) = f[x]
<1>1. IsFiniteSet({x})
  BY FS_Singleton
<1>2. \E y \in {x} : Sum({x}, f) = Plus(f[y], Sum({x} \ {y}, f))
  BY <1>1, SumUnrolled
<1>3. {x} \ {x} = {}
  OBVIOUS
<1>4. Sum({x}, f) = Plus(f[x], Sum({}, f))
  BY <1>2, <1>3
<1>. QED
  BY <1>4, SumEmpty DEF IsMonoid

-----------------------------------------------------------------------------
(* Partitions. *)

\* The classes that a key makes of a set.
KeyParts(C, key) == {{t \in C : key[t] = key[s]} : s \in C}

\* ClassOf is the one class that has a state.
LEMMA ClassLemma ==
  ASSUME NEW U, NEW P, IsPartition(P, U), NEW s \in U
  PROVE  /\ ClassOf(P, s) \in P
         /\ s \in ClassOf(P, s)
         /\ \A C \in P : s \in C => C = ClassOf(P, s)
<1>1. \E C \in P : s \in C
  BY DEF IsPartition
<1>2. ClassOf(P, s) \in P /\ s \in ClassOf(P, s)
  BY <1>1 DEF ClassOf
<1>. QED
  BY <1>2 DEF IsPartition

\* Classes are sets of states, none is empty.
LEMMA SubclassLemma ==
  ASSUME NEW U, NEW P, IsPartition(P, U), NEW C \in P
  PROVE  C \subseteq U /\ C # {}
BY DEF IsPartition

\* A class that is replaced by its parts makes a finer partition.
LEMMA SplitLemma ==
  ASSUME NEW U, NEW P, IsPartition(P, U), NEW C \in P, NEW parts, IsPartition(parts, C),
         NEW R, R = (P \ {C}) \union parts
  PROVE  /\ IsPartition(R, U)
         /\ Refines(R, P)
         /\ parts # {C} => R # P
<1>1. \A D \in parts : D \subseteq C /\ D # {}
  BY DEF IsPartition
<1>2. UNION R = U
  <2>1. UNION R \subseteq U
    BY <1>1 DEF IsPartition
  <2>2. ASSUME NEW s \in U PROVE s \in UNION R
    <3>1. PICK D \in P : s \in D
      BY DEF IsPartition
    <3>2. CASE D = C
      BY <3>1, <3>2 DEF IsPartition
    <3>3. CASE D # C
      BY <3>1, <3>3
    <3>. QED BY <3>2, <3>3
  <2>. QED
    BY <2>1, <2>2
<1>3. ASSUME NEW D \in R, NEW E \in R, D # E
      PROVE  D \intersect E = {}
  <2>1. CASE D \in P \ {C} /\ E \in P \ {C}
    BY <1>3, <2>1 DEF IsPartition
  <2>2. CASE D \in parts /\ E \in parts
    BY <1>3, <2>2 DEF IsPartition
  <2>3. \A X \in P \ {C} : X \intersect C = {}
    BY DEF IsPartition
  <2>4. CASE D \in P \ {C} /\ E \in parts
    BY <1>1, <2>3, <2>4
  <2>5. CASE D \in parts /\ E \in P \ {C}
    BY <1>1, <2>3, <2>5
  <2>. QED
    BY <2>1, <2>2, <2>4, <2>5
<1>4. IsPartition(R, U)
  <2>1. {} \notin R
    BY <1>1 DEF IsPartition
  <2>. QED
    BY <1>2, <1>3, <2>1 DEF IsPartition
<1>5. Refines(R, P)
  BY <1>1 DEF Refines
<1>6. ASSUME parts # {C} PROVE R # P
  <2>1. C # {} /\ UNION parts = C
    BY DEF IsPartition
  <2>2. PICK D \in parts : D # C
    BY <1>6, <2>1
  <2>3. D \subseteq C /\ D # {}
    BY <1>1
  <2>4. D \notin P
    BY <2>2, <2>3 DEF IsPartition
  <2>. QED
    BY <2>2, <2>4
<1>. QED
  BY <1>4, <1>5, <1>6

\* They are a partition, of states with equal keys, and there is only one when
\* all keys are equal.
LEMMA KeyPartsLemma ==
  ASSUME NEW C, C # {}, NEW key
  PROVE  /\ IsPartition(KeyParts(C, key), C)
         /\ \A D \in KeyParts(C, key) : \A s, t \in D : key[s] = key[t]
         /\ (\A s, t \in C : key[s] = key[t]) <=> KeyParts(C, key) = {C}
<1>. DEFINE Of(s) == {t \in C : key[t] = key[s]}
<1>1. \A D : D \in KeyParts(C, key) <=> \E s \in C : D = Of(s)
  BY DEF KeyParts
<1>2. \A s \in C : s \in Of(s) /\ Of(s) \subseteq C
  OBVIOUS
<1>3. IsPartition(KeyParts(C, key), C)
  <2>1. UNION KeyParts(C, key) = C
    BY <1>1, <1>2
  <2>2. {} \notin KeyParts(C, key)
    BY <1>1, <1>2
  <2>3. \A s, t \in C : Of(s) = Of(t) \/ Of(s) \intersect Of(t) = {}
    OBVIOUS
  <2>4. \A D, E \in KeyParts(C, key) : D = E \/ D \intersect E = {}
    <3>. HIDE DEF Of
    <3>. QED BY <1>1, <2>3
  <2>. QED
    BY <2>1, <2>2, <2>4 DEF IsPartition
<1>4. \A D \in KeyParts(C, key) : \A s, t \in D : key[s] = key[t]
  BY <1>1
<1>6. (\A s, t \in C : key[s] = key[t]) <=> KeyParts(C, key) = {C}
  <2>1. ASSUME \A s, t \in C : key[s] = key[t] PROVE KeyParts(C, key) = {C}
    <3>1. \A s \in C : Of(s) = C
      BY <2>1
    <3>. HIDE DEF Of
    <3>2. \A D \in KeyParts(C, key) : D = C
      BY <1>1, <3>1
    <3>3. C \in KeyParts(C, key)
      BY <1>1, <3>1
    <3>. QED BY <3>2, <3>3
  <2>2. ASSUME KeyParts(C, key) = {C} PROVE \A s, t \in C : key[s] = key[t]
    BY <1>4, <2>2
  <2>. QED BY <2>1, <2>2
<1>. QED
  BY <1>3, <1>4, <1>6

\* Items with the same key end in the same class.
LEMMA KeyPartsJoin ==
  ASSUME NEW C, NEW key, NEW D, D \subseteq C, D # {}, \A s, t \in D : key[s] = key[t]
  PROVE  \E E \in KeyParts(C, key) : D \subseteq E
<1>1. PICK s \in D : TRUE
  OBVIOUS
<1>. DEFINE E == {t \in C : key[t] = key[s]}
<1>2. D \subseteq E /\ E \in KeyParts(C, key)
  BY <1>1 DEF KeyParts
<1>. HIDE DEF E
<1>. QED
  BY <1>2

\* A set has two elements as soon as it is more than a singleton.
LEMMA TwoLemma ==
  ASSUME NEW P, IsFiniteSet(P), P # {}, NEW C \in P
  PROVE  /\ Cardinality(P) \in Nat
         /\ Cardinality(P) < 2 <=> P = {C}
<1>1. Cardinality(P) \in Nat
  BY FS_CardinalityType
<1>2. ASSUME P = {C} PROVE Cardinality(P) < 2
  BY <1>2, FS_Singleton
<1>3. ASSUME Cardinality(P) < 2, P # {C} PROVE FALSE
  <2>1. PICK D \in P : D # C
    BY <1>3
  <2>2. {C, D} \subseteq P
    BY <2>1
  <2>3. IsFiniteSet({C}) /\ Cardinality({C}) = 1 
    BY FS_Singleton
  <2>4. Cardinality({C} \union {D}) = 2
    <3>1. D \notin {C}
      BY <2>1
    <3>2. Cardinality({C} \union {D}) = Cardinality({C}) + 1
      BY <2>3, <3>1, FS_AddElement
    <3>. QED
      BY <2>3, <3>2
  <2>5. {C} \union {D} = {C, D}
    OBVIOUS
  <2>6. Cardinality({C, D}) <= Cardinality(P)
    BY <2>2, FS_Subset
  <2>. QED
    BY <1>1, <1>3, <2>4, <2>5, <2>6
<1>. QED
  BY <1>1, <1>2, <1>3

\* A state that joins none of the classes makes a class.
LEMMA AddAlone ==
  ASSUME NEW T, NEW P, IsPartition(P, T), NEW x, x \notin T
  PROVE  IsPartition(P \union {{x}}, T \union {x})
<1>1. UNION (P \union {{x}}) = T \union {x}
  BY DEF IsPartition
<1>2. {} \notin P \union {{x}}
  BY DEF IsPartition
<1>3. \A C \in P : x \notin C
  BY DEF IsPartition
<1>4. \A C, D \in P : C = D \/ C \intersect D = {}
  BY DEF IsPartition
<1>5. \A C, D \in P \union {{x}} : C = D \/ C \intersect D = {}
  BY <1>3, <1>4
<1>. QED
  BY <1>1, <1>2, <1>5 DEF IsPartition

\* A state may join any class.
LEMMA AddTo ==
  ASSUME NEW T, NEW P, IsPartition(P, T), NEW x, x \notin T, NEW C \in P,
         NEW Q, Q = (P \ {C}) \union {C \union {x}}
  PROVE  IsPartition(Q, T \union {x})
<1>1. UNION Q = T \union {x}
  <2>1. UNION Q \subseteq T \union {x}
    BY DEF IsPartition
  <2>2. \A y \in T : y \in UNION Q
    <3>. TAKE y \in T
    <3>1. PICK D \in P : y \in D
      BY DEF IsPartition
    <3>2. CASE D = C
      <4>1. C \union {x} \in Q /\ y \in C \union {x}
        BY <3>1, <3>2
      <4>. QED BY <4>1
    <3>3. CASE D # C
      <4>1. D \in Q
        BY <3>1, <3>3
      <4>. QED BY <3>1, <4>1
    <3>. QED BY <3>2, <3>3
  <2>3. x \in UNION Q
    OBVIOUS
  <2>. QED BY <2>1, <2>2, <2>3
<1>2. {} \notin Q
  BY DEF IsPartition
<1>3. ASSUME NEW D \in Q, NEW E \in Q, D # E
      PROVE  D \intersect E = {}
  <2>1. \A A \in P : x \notin A
    BY DEF IsPartition
  <2>2. \A A, B \in P : A # B => A \intersect B = {}
    BY DEF IsPartition
  <2>3. CASE D \in P \ {C} /\ E \in P \ {C}
    BY <1>3, <2>2, <2>3
  <2>4. CASE D = C \union {x} /\ E \in P \ {C}
    BY <2>1, <2>2, <2>4
  <2>5. CASE E = C \union {x} /\ D \in P \ {C}
    BY <2>1, <2>2, <2>5
  <2>. QED BY <1>3, <2>3, <2>4, <2>5
<1>. QED
  BY <1>1, <1>2, <1>3 DEF IsPartition

-----------------------------------------------------------------------------
(* Classes that have numbers. *)

\* A numbering of the classes of a partition.
Numbers(f, U) ==
  /\ f \in Seq(SUBSET U)
  /\ \A i, j \in 1 .. Len(f) : f[i] = f[j] => i = j
  /\ IsPartition(Range(f), U)

\* The items of a list, by their numbers.
LEMMA RangeLemma ==
  ASSUME NEW T, NEW f \in Seq(T)
  PROVE  /\ Range(f) = {f[i] : i \in 1 .. Len(f)}
         /\ Len(f) \in Nat
         /\ DOMAIN f = 1 .. Len(f)
<1>1. Len(f) \in Nat /\ DOMAIN f = 1 .. Len(f)
  OBVIOUS
<1>. QED
  BY <1>1 DEF Range

\* There are n numbers up to n.
LEMMA IntervalLemma ==
  ASSUME NEW n \in Nat
  PROVE  IsFiniteSet(1 .. n) /\ Cardinality(1 .. n) = n
<1>1. 1 \in Int /\ n \in Int
  OBVIOUS
<1>2. IsFiniteSet(1 .. n) /\ Cardinality(1 .. n) = IF 1 > n THEN 0 ELSE n - 1 + 1
  BY <1>1, FS_Interval
<1>3. (IF 1 > n THEN 0 ELSE n - 1 + 1) = n
  OBVIOUS
<1>. QED
  BY <1>2, <1>3

\* There are as many classes as numbers.
LEMMA NumbersCount ==
  ASSUME NEW U, NEW f, Numbers(f, U)
  PROVE  Cardinality(Range(f)) = Len(f)
<1>1. f \in Seq(SUBSET U) /\ \A i, j \in 1 .. Len(f) : f[i] = f[j] => i = j
  BY DEF Numbers
<1>2. Len(f) \in Nat /\ Range(f) = {f[i] : i \in 1 .. Len(f)} /\ DOMAIN f = 1 .. Len(f)
  BY <1>1, RangeLemma
<1>3. f = [i \in 1 .. Len(f) |-> f[i]]
  BY <1>1, <1>2
<1>. DEFINE n == Len(f)
            R == Range(f)
<1>4. n \in Nat /\ (\A i, j \in 1 .. n : f[i] = f[j] => i = j)
      /\ R = {f[i] : i \in 1 .. n} /\ f = [i \in 1 .. n |-> f[i]]
  BY <1>1, <1>2, <1>3
<1>. HIDE DEF n, R
<1>5. f \in Surjection(1 .. n, R) /\ f \in Injection(1 .. n, R)
  <2>1. f \in [1 .. n -> R]
    BY <1>4
  <2>2. \A D \in R : \E i \in 1 .. n : f[i] = D
    BY <1>4
  <2>. QED
    BY <1>4, <2>1, <2>2 DEF Surjection, Injection, IsInjective
<1>6. IsFiniteSet(1 .. n) /\ Cardinality(1 .. n) = n
  BY <1>4, IntervalLemma
<1>8. Cardinality(R) = n
  BY <1>5, <1>6, FS_Surjection
<1>. QED
  BY <1>8 DEF n, R

\* SetToSeqs lists a finite set, each element once.
LEMMA ListLemma ==
  ASSUME NEW P, IsFiniteSet(P), P # {}, NEW f \in SetToSeqs(P)
  PROVE  /\ f \in Seq(P)
         /\ Len(f) \in Nat \ {0}
         /\ Range(f) = P
         /\ \A i, j \in 1 .. Len(f) : f[i] = f[j] => i = j
<1>. DEFINE n == Cardinality(P)
<1>1. n \in Nat /\ n # 0
  BY FS_CardinalityType, FS_EmptySet
<1>2. f \in [1 .. n -> P] /\ \A i, j \in 1 .. n : i # j => f[i] # f[j]
  BY DEF SetToSeqs
<1>. HIDE DEF n
<1>3. f \in Injection(1 .. n, P)
  BY <1>2 DEF Injection, IsInjective
<1>4. Cardinality(1 .. n) = Cardinality(P)
  BY <1>1, IntervalLemma DEF n
<1>6. f \in Surjection(1 .. n, P)
  BY <1>3, <1>4, FS_Injection
<1>7. f \in Seq(P) /\ Len(f) = n
  BY <1>1, <1>2
<1>8. Range(f) = P
  <2>1. DOMAIN f = 1 .. n
    BY <1>2
  <2>. QED
    BY <1>6, <2>1 DEF Surjection, Range
<1>. QED
  BY <1>1, <1>2, <1>7, <1>8

\* The first part of a class takes its number, the others new ones.
LEMMA SplitNumbers ==
  ASSUME NEW U, NEW f, Numbers(f, U), NEW k \in 1 .. Len(f), NEW parts,
         IsFiniteSet(parts), IsPartition(parts, f[k]), parts # {},
         NEW g \in SetToSeqs(parts), NEW h, h = ReplaceAt(f, k, Head(g)) \o Tail(g)
  PROVE  /\ Numbers(h, U)
         /\ Range(h) = (Range(f) \ {f[k]}) \union parts
         /\ Len(h) >= Len(f)
<1>1. /\ g \in Seq(parts)
      /\ Len(g) \in Nat \ {0}
      /\ Range(g) = parts
      /\ \A i, j \in 1 .. Len(g) : g[i] = g[j] => i = j
  BY ListLemma
<1>2. f \in Seq(SUBSET U) /\ Len(f) \in Nat
  BY RangeLemma DEF Numbers
<1>3. f[k] \subseteq U /\ \A D \in parts : D \subseteq f[k] /\ D # {} /\ D \in SUBSET U
  <2>1. f[k] \in SUBSET U
    BY <1>2
  <2>. QED
    BY <2>1 DEF IsPartition
<1>. DEFINE n == Len(f)
            m == Len(g)
            e == [f EXCEPT ![k] = g[1]]
            t == Tail(g)
<1>4. /\ g[1] \in parts
      /\ e \in Seq(SUBSET U) /\ Len(e) = n
      /\ e[k] = g[1]
      /\ \A i \in 1 .. n : i # k => e[i] = f[i]
  BY <1>1, <1>2, <1>3
<1>5. /\ t \in Seq(SUBSET U) /\ Len(t) = m - 1
      /\ \A i \in 1 .. m - 1 : t[i] = g[i + 1]
  <2>1. g \in Seq(SUBSET U) /\ g # <<>>
    BY <1>1, <1>3
  <2>. QED
    BY <1>1, <2>1
<1>6. h = e \o t
  BY <1>1 DEF ReplaceAt
<1>. HIDE DEF e, t
<1>7. /\ h \in Seq(SUBSET U) /\ Len(h) = n + m - 1
      /\ \A i \in 1 .. n : h[i] = e[i]
      /\ \A i \in 1 .. m - 1 : h[n + i] = g[i + 1]
  <2>1. n \in Nat /\ m \in Nat /\ Len(e) = n /\ Len(t) = m - 1
    BY <1>1, <1>2, <1>4, <1>5
  <2>. HIDE DEF n, m
  <2>2. e \in Seq(SUBSET U) /\ t \in Seq(SUBSET U)
    BY <1>4, <1>5
  <2>3. /\ h \in Seq(SUBSET U)
        /\ Len(h) = Len(e) + Len(t)
        /\ \A i \in 1 .. Len(e) + Len(t) : h[i] = IF i <= Len(e) THEN e[i] ELSE t[i - Len(e)]
    <3>. DEFINE T == SUBSET U
    <3>1. e \in Seq(T) /\ t \in Seq(T)
      BY <2>2
    <3>. HIDE DEF T
    <3>2. /\ e \o t \in Seq(T)
          /\ Len(e \o t) = Len(e) + Len(t)
          /\ \A i \in 1 .. Len(e) + Len(t) :
               (e \o t)[i] = IF i <= Len(e) THEN e[i] ELSE t[i - Len(e)]
      BY <3>1, ConcatProperties, Zenon
    <3>. QED
      BY <1>6, <3>2 DEF T
  <2>4. ASSUME NEW i \in 1 .. n PROVE h[i] = e[i]
    <3>1. i \in 1 .. n + (m - 1)
      BY <1>1, <2>1 DEF m
    <3>2. i <= Len(e) /\ i \in 1 .. Len(e) + Len(t)
      BY <2>1, <3>1
    <3>. QED
      BY <2>3, <3>2
  <2>5. ASSUME NEW i \in 1 .. m - 1 PROVE h[n + i] = g[i + 1]
    <3>1. i \in Nat /\ n + i > n /\ n + i \in 1 .. n + (m - 1) /\ (n + i) - n = i
      BY <2>1
    <3>2. h[n + i] = t[(n + i) - n]
      BY <2>1, <2>3, <3>1
    <3>. QED
      BY <1>5, <3>1, <3>2
  <2>6. n + (m - 1) = n + m - 1 /\ Len(h) = n + (m - 1)
    BY <2>1, <2>3
  <2>. QED
    BY <2>3, <2>4, <2>5, <2>6
<1>8. n \in Nat /\ m \in Nat /\ m >= 1 /\ k \in 1 .. n
  BY <1>1, <1>2
<1>9. /\ \A i \in 1 .. n : i # k => f[i] # f[k] /\ h[i] = f[i]
      /\ h[k] = g[1]
      /\ \A i \in 1 .. m : \E j \in 1 .. n + m - 1 : h[j] = g[i]
      /\ \A j \in 1 .. n + m - 1 :
           (j <= n /\ j # k) \/ \E i \in 1 .. m : h[j] = g[i]
  <2>1. \A i \in 1 .. n : i # k => f[i] # f[k] /\ h[i] = f[i]
    BY <1>4, <1>7 DEF Numbers
  <2>2. h[k] = g[1]
    BY <1>4, <1>7
  <2>3. ASSUME NEW i \in 1 .. m PROVE \E j \in 1 .. n + m - 1 : h[j] = g[i]
    <3>1. CASE i = 1
      <4>1. k \in 1 .. n + m - 1
        BY <1>8
      <4>. QED BY <2>2, <3>1, <4>1
    <3>2. CASE i # 1
      <4>1. i - 1 \in 1 .. m - 1 /\ (i - 1) + 1 = i /\ n + (i - 1) \in 1 .. n + m - 1
        BY <1>8, <3>2
      <4>2. h[n + (i - 1)] = g[i]
        BY <1>7, <4>1
      <4>. QED BY <4>1, <4>2
    <3>. QED BY <3>1, <3>2
  <2>4. ASSUME NEW j \in 1 .. n + m - 1
        PROVE  (j <= n /\ j # k) \/ \E i \in 1 .. m : h[j] = g[i]
    <3>1. CASE j = k
      <4>1. 1 \in 1 .. m
        BY <1>8
      <4>. QED BY <2>2, <3>1, <4>1
    <3>2. CASE j > n
      <4>1. j - n \in 1 .. m - 1 /\ n + (j - n) = j /\ (j - n) + 1 \in 1 .. m
        BY <1>8, <3>2
      <4>2. h[j] = g[(j - n) + 1]
        BY <1>7, <4>1
      <4>. QED BY <4>1, <4>2
    <3>3. j = k \/ j > n \/ (j <= n /\ j # k)
      BY <1>8
    <3>. QED
      BY <3>1, <3>2, <3>3, Zenon
  <2>. QED
    BY <2>1, <2>2, <2>3, <2>4
<1>10. /\ Range(f) = {f[i] : i \in 1 .. n}
       /\ Range(g) = {g[i] : i \in 1 .. m}
       /\ Range(h) = {h[i] : i \in 1 .. n + m - 1}
  <2>1. Range(f) = {f[i] : i \in 1 .. n}
    BY <1>2, RangeLemma
  <2>2. Range(g) = {g[i] : i \in 1 .. m}
    BY <1>1, RangeLemma
  <2>3. Range(h) = {h[i] : i \in 1 .. n + m - 1}
    <3>1. Range(h) = {h[i] : i \in 1 .. Len(h)}
      <4>1. \A x \in Seq(SUBSET U) : Range(x) = {x[i] : i \in 1 .. Len(x)}
        BY RangeLemma
      <4>. QED
        BY <1>7, <4>1
    <3>2. Len(h) = n + m - 1
      BY <1>7
    <3>. QED
      BY <3>1, <3>2
  <2>. QED
    BY <2>1, <2>2, <2>3
<1>11. Range(h) = (Range(f) \ {f[k]}) \union parts
  <2>1. ASSUME NEW C \in Range(h) PROVE C \in (Range(f) \ {f[k]}) \union parts
    <3>1. PICK j \in 1 .. n + m - 1 : C = h[j]
      BY <1>10
    <3>2. CASE j <= n /\ j # k
      <4>1. j \in 1 .. n
        BY <1>8, <3>2
      <4>2. C = f[j] /\ f[j] # f[k]
        BY <1>9, <3>1, <3>2, <4>1
      <4>3. f[j] \in Range(f)
        BY <1>10, <4>1
      <4>. QED BY <4>2, <4>3
    <3>3. CASE \E i \in 1 .. m : h[j] = g[i]
      <4>1. PICK i \in 1 .. m : h[j] = g[i]
        BY <3>3
      <4>2. g[i] \in Range(g)
        BY <1>10, <4>1
      <4>. QED BY <1>1, <3>1, <4>1, <4>2
    <3>. QED BY <1>9, <3>2, <3>3
  <2>2. ASSUME NEW C \in Range(f) \ {f[k]} PROVE C \in Range(h)
    <3>1. PICK i \in 1 .. n : C = f[i] /\ i # k
      BY <1>10
    <3>2. i \in 1 .. n + m - 1
      BY <1>8
    <3>. QED BY <1>9, <1>10, <3>1, <3>2
  <2>3. ASSUME NEW C \in parts PROVE C \in Range(h)
    <3>. HIDE DEF n, m
    <3>1. PICK i \in 1 .. m : C = g[i]
      BY <1>1, <1>10
    <3>2. PICK j \in 1 .. n + m - 1 : h[j] = g[i]
      BY <1>9
    <3>. QED
      BY <1>10, <3>1, <3>2
  <2>. QED
    BY <2>1, <2>2, <2>3
<1>12. IsPartition(Range(h), U)
  <2>1. f[k] \in Range(f)
    BY <1>8, <1>10
  <2>. QED
    BY <1>11, <2>1, SplitLemma DEF Numbers
<1>13. ASSUME NEW i \in 1 .. n + m - 1, NEW j \in 1 .. n + m - 1, h[i] = h[j]
       PROVE  i = j
  <2>. DEFINE Old(x) == x <= n /\ x # k
              At(x) == IF x = k THEN 1 ELSE (x - n) + 1
  <2>1. ASSUME NEW x \in 1 .. n + m - 1, Old(x) PROVE x \in 1 .. n /\ h[x] = f[x] /\ f[x] \notin parts
    <3>1. x \in 1 .. n
      BY <1>8, <2>1
    <3>2. h[x] = f[x] /\ f[x] # f[k]
      BY <1>9, <2>1, <3>1
    <3>3. f[x] \in Range(f) /\ f[k] \in Range(f)
      BY <1>8, <1>10, <3>1
    <3>4. f[x] \intersect f[k] = {} /\ f[x] # {}
      BY <3>2, <3>3 DEF Numbers, IsPartition
    <3>. QED BY <1>3, <3>1, <3>2, <3>4
  <2>2. ASSUME NEW x \in 1 .. n + m - 1, ~ Old(x)
        PROVE  At(x) \in 1 .. m /\ h[x] = g[At(x)] /\ h[x] \in parts
    <3>1. CASE x = k
      <4>1. 1 \in 1 .. m
        BY <1>8
      <4>2. At(x) = 1 /\ h[x] = g[1]
        BY <1>9, <3>1
      <4>. QED
        BY <1>4, <4>1, <4>2
    <3>2. CASE x # k
      <4>1. x - n \in 1 .. m - 1 /\ n + (x - n) = x /\ (x - n) + 1 \in 1 .. m
        BY <1>8, <2>2, <3>2
      <4>2. h[x] = g[(x - n) + 1]
        BY <1>7, <4>1
      <4>3. g[(x - n) + 1] \in parts
        BY <1>1, <4>1
      <4>. QED BY <3>2, <4>1, <4>2, <4>3
    <3>. QED BY <3>1, <3>2
  <2>3. CASE Old(i) /\ Old(j)
    <3>1. i \in 1 .. n /\ j \in 1 .. n /\ f[i] = f[j]
      BY <1>13, <2>1, <2>3
    <3>. QED BY <3>1 DEF Numbers
  <2>4. CASE ~ Old(i) /\ ~ Old(j)
    <3>1. At(i) \in 1 .. m /\ At(j) \in 1 .. m /\ g[At(i)] = g[At(j)]
      BY <1>13, <2>2, <2>4
    <3>2. At(i) = At(j)
      BY <1>1, <3>1
    <3>. QED BY <1>8, <2>4, <3>2
  <2>5. CASE Old(i) /\ ~ Old(j)
    BY <1>13, <2>1, <2>2, <2>5
  <2>6. CASE ~ Old(i) /\ Old(j)
    BY <1>13, <2>1, <2>2, <2>6
  <2>. QED
    BY <2>3, <2>4, <2>5, <2>6
<1>14. Numbers(h, U)
  BY <1>7, <1>12, <1>13 DEF Numbers
<1>. QED
  BY <1>7, <1>8, <1>11, <1>14

\* Two classes have numbers 1 and 2.
LEMMA NumbersPair ==
  ASSUME NEW A, NEW B, A # {}, B # {}, A \intersect B = {}, NEW f, f = <<A, B>>
  PROVE  Numbers(f, A \union B) /\ Len(f) = 2 /\ Range(f) = {A, B}
<1>1. Len(f) = 2 /\ DOMAIN f = 1 .. 2 /\ f[1] = A /\ f[2] = B
  OBVIOUS
<1>2. 1 .. 2 = {1, 2}
  OBVIOUS
<1>3. f \in Seq(SUBSET (A \union B))
  <2>. DEFINE T == SUBSET (A \union B)
  <2>1. A \in T /\ B \in T
    OBVIOUS
  <2>. HIDE DEF T
  <2>2. f \in Seq(T)
    BY <2>1
  <2>. QED
    BY <2>2 DEF T
<1>4. Range(f) = {A, B}
  BY <1>1, <1>2 DEF Range
<1>5. IsPartition({A, B}, A \union B)
  BY DEF IsPartition
<1>6. \A i, j \in 1 .. 2 : f[i] = f[j] => i = j
  BY <1>1, <1>2
<1>. QED
  BY <1>1, <1>3, <1>4, <1>5, <1>6 DEF Numbers

\* A set takes the next number, if it is one of states.
More(f, C) == f \o (IF C = {} THEN <<>> ELSE <<C>>)

\* It takes the next number.
LEMMA NumbersMore ==
  ASSUME NEW U, NEW f, Numbers(f, U), NEW C, C \intersect U = {},
         NEW h, h = More(f, C), NEW X, X = U \union C
  PROVE  /\ Numbers(h, X)
         /\ Len(h) >= Len(f)
         /\ Range(h) = Range(f) \union ({C} \ {{}})
<1>0. f \in Seq(SUBSET U) /\ Len(f) \in Nat /\ Range(f) = {f[i] : i \in 1 .. Len(f)}
  BY RangeLemma DEF Numbers
<1>1. CASE C = {}
  <2>1. h = f
    BY <1>0, <1>1, ConcatEmptySeq DEF More
  <2>2. X = U
    BY <1>1
  <2>3. Range(h) = Range(f) \union ({C} \ {{}})
    BY <1>1, <2>1
  <2>4. Numbers(h, X)
    BY <2>1, <2>2
  <2>5. Len(h) >= Len(f)
    BY <1>0, <2>1
  <2>. QED
    BY <2>3, <2>4, <2>5
<1>2. CASE C # {}
  <2>. DEFINE T == SUBSET X
              n == Len(f)
  <2>1. C \in T /\ SUBSET U \subseteq T
    OBVIOUS
  <2>. HIDE DEF T, n
  <2>2. f \in Seq(T)
    BY <1>0, <2>1, SeqMonotonic
  <2>3. /\ <<C>> \in Seq(T) /\ Len(<<C>>) = 1 /\ <<C>>[1] = C
        /\ h = f \o <<C>>
        /\ n \in Nat /\ Len(f) = n
    BY <1>0, <1>2, <2>1 DEF n, More
  <2>4. /\ h \in Seq(T)
        /\ Len(h) = Len(f) + Len(<<C>>)
        /\ \A i \in 1 .. Len(f) + Len(<<C>>) : h[i] = IF i <= Len(f) THEN f[i] ELSE <<C>>[i - Len(f)]
    BY <2>2, <2>3, ConcatProperties
  <2>5. /\ Len(h) = n + 1
        /\ \A i \in 1 .. n : h[i] = f[i]
        /\ h[n + 1] = C
    BY <2>3, <2>4
  <2>6. Range(h) = {h[i] : i \in 1 .. n + 1}
    <3>1. Range(h) = {h[i] : i \in 1 .. Len(h)}
      BY <2>4, RangeLemma
    <3>. QED
      BY <2>5, <3>1
  <2>7. Range(h) = Range(f) \union {C}
    <3>1. 1 .. n + 1 = (1 .. n) \union {n + 1}
      BY <2>3
    <3>2. Range(f) = {f[i] : i \in 1 .. n}
      BY <1>0, <2>3
    <3>3. {h[i] : i \in 1 .. n + 1} = {h[i] : i \in 1 .. n} \union {h[n + 1]}
      BY <3>1
    <3>4. {h[i] : i \in 1 .. n} = {f[i] : i \in 1 .. n}
      BY <2>5
    <3>. QED
      BY <2>5, <2>6, <3>2, <3>3, <3>4
  <2>8. \A D \in Range(f) : D # {} /\ D \intersect C = {} /\ D \in T
    BY <2>1 DEF Numbers, IsPartition
  <2>9. \A i, j \in 1 .. n + 1 : h[i] = h[j] => i = j
    <3>1. \A i \in 1 .. n : f[i] \in Range(f) /\ f[i] # C
      BY <1>0, <1>2, <2>3, <2>8
    <3>2. \A i, j \in 1 .. n : f[i] = f[j] => i = j
      BY <2>3 DEF Numbers
    <3>3. \A i \in 1 .. n + 1 : i \in 1 .. n \/ i = n + 1
      BY <2>3
    <3>. QED
      BY <2>5, <3>1, <3>2, <3>3
  <2>10. IsPartition(Range(h), X)
    BY <1>2, <2>7, <2>8 DEF Numbers, IsPartition
  <2>11. {C} \ {{}} = {C}
    BY <1>2
  <2>. QED
    BY <2>3, <2>4, <2>5, <2>7, <2>9, <2>10, <2>11 DEF Numbers, T
<1>. QED
  BY <1>1, <1>2

\* The same, as a relation.
TakesNext(f, U, C, h, X) == C \intersect U = {} /\ h = More(f, C) /\ X = U \union C
Took(f, C, h, X) ==
  Numbers(h, X) /\ Len(h) >= Len(f) /\ Range(h) = Range(f) \union ({C} \ {{}})

LEMMA TakesNextLemma ==
  ASSUME NEW U, NEW f, Numbers(f, U), NEW C, NEW h, NEW X, TakesNext(f, U, C, h, X)
  PROVE  Took(f, C, h, X)
<1>1. C \intersect U = {} /\ h = More(f, C) /\ X = U \union C
  BY DEF TakesNext
<1>. QED
  BY <1>1, NumbersMore DEF Took

\* Four classes, of which the last two may be empty.
LEMMA MooreFirst ==
  ASSUME NEW A, NEW B, NEW C, NEW D, NEW f, NEW U, A # {}, B # {},
         A \intersect B = {}, C \intersect (A \union B) = {}, D \intersect (A \union B \union C) = {},
         U = A \union B \union C \union D, f = More(More(<<A, B>>, C), D)
  PROVE  /\ Numbers(f, U)
         /\ Len(f) \in Nat \ {0}
         /\ Range(f) = {A, B, C, D} \ {{}}
<1>. DEFINE g == <<A, B>>
            h == More(g, C)
            X == A \union B
            Y == X \union C
<1>1. Numbers(g, X) /\ Len(g) = 2 /\ Range(g) = {A, B}
  BY NumbersPair
<1>2. /\ h = More(g, C) /\ C \intersect X = {} /\ Y = X \union C
      /\ f = More(h, D) /\ D \intersect Y = {} /\ U = Y \union D
  OBVIOUS
<1>. HIDE DEF g, h, X, Y
<1>3. /\ Numbers(h, Y)
      /\ Len(h) >= Len(g)
      /\ Range(h) = Range(g) \union ({C} \ {{}})
  <2>1. TakesNext(g, X, C, h, Y)
    BY <1>2 DEF TakesNext
  <2>2. Took(g, C, h, Y)
    BY <1>1, <2>1, TakesNextLemma
  <2>. QED
    BY <2>2 DEF Took
<1>4. /\ Numbers(f, U)
      /\ Len(f) >= Len(h)
      /\ Range(f) = Range(h) \union ({D} \ {{}})
  <2>1. TakesNext(h, Y, D, f, U)
    BY <1>2 DEF TakesNext
  <2>2. Took(h, D, f, U)
    BY <1>3, <2>1, TakesNextLemma
  <2>. QED
    BY <2>2 DEF Took
<1>5. Len(f) \in Nat /\ Len(h) \in Nat
  BY <1>3, <1>4, RangeLemma DEF Numbers
<1>6. {A, B} \union ({C} \ {{}}) \union ({D} \ {{}}) = {A, B, C, D} \ {{}}
  OBVIOUS
<1>7. Range(f) = {A, B, C, D} \ {{}}
  BY <1>1, <1>3, <1>4, <1>6
<1>8. Len(f) # 0
  BY <1>1, <1>3, <1>4, <1>5
<1>. QED
  BY <1>4, <1>5, <1>7, <1>8

-----------------------------------------------------------------------------
(* Classes that are cut in two. *)

\* The classes, cut in two by a set of states.
Cut(P, x) == {y \in P : y \intersect x # {} /\ y \ x # {}}
CutBy(P, x) == (P \ Cut(P, x)) \union UNION {{y \intersect x, y \ x} : y \in Cut(P, x)}

\* The classes after the cut are the non-empty halves.
LEMMA CutMembers ==
  ASSUME NEW U, NEW P, IsPartition(P, U), NEW x
  PROVE  /\ \A D \in CutBy(P, x) : \E y \in P : D \subseteq y /\ D # {} /\ (D = y \intersect x \/ D = y \ x)
         /\ \A y \in P : y \intersect x # {} => y \intersect x \in CutBy(P, x)
         /\ \A y \in P : y \ x # {} => y \ x \in CutBy(P, x)
<1>1. ASSUME NEW D \in CutBy(P, x)
      PROVE  \E y \in P : D \subseteq y /\ D # {} /\ (D = y \intersect x \/ D = y \ x)
  <2>1. CASE D \in P \ Cut(P, x)
    <3>1. D # {} /\ (D \intersect x = {} \/ D \ x = {})
      BY <2>1 DEF Cut, IsPartition
    <3>2. D = D \intersect x \/ D = D \ x
      BY <3>1
    <3>. QED BY <2>1, <3>1, <3>2
  <2>2. CASE D \notin P \ Cut(P, x)
    <3>1. PICK y \in Cut(P, x) : D = y \intersect x \/ D = y \ x
      BY <2>2 DEF CutBy
    <3>. QED BY <3>1 DEF Cut
  <2>. QED BY <2>1, <2>2
<1>2. ASSUME NEW y \in P, y \intersect x # {} PROVE y \intersect x \in CutBy(P, x)
  <2>1. CASE y \in Cut(P, x)
    BY <2>1 DEF CutBy
  <2>2. CASE y \notin Cut(P, x)
    <3>1. y \intersect x = y
      BY <1>2, <2>2 DEF Cut
    <3>. QED BY <2>2, <3>1 DEF CutBy
  <2>. QED BY <2>1, <2>2
<1>3. ASSUME NEW y \in P, y \ x # {} PROVE y \ x \in CutBy(P, x)
  <2>1. CASE y \in Cut(P, x)
    BY <2>1 DEF CutBy
  <2>2. CASE y \notin Cut(P, x)
    <3>1. y \ x = y
      BY <1>3, <2>2 DEF Cut
    <3>. QED BY <2>2, <3>1 DEF CutBy
  <2>. QED BY <2>1, <2>2
<1>. QED
  BY <1>1, <1>2, <1>3

\* They are a partition, a finer one as soon as a class is cut.
LEMMA CutLemma ==
  ASSUME NEW U, NEW P, IsPartition(P, U), NEW x
  PROVE  /\ IsPartition(CutBy(P, x), U)
         /\ Refines(CutBy(P, x), P)
         /\ Cut(P, x) = {} => CutBy(P, x) = P
         /\ Cut(P, x) # {} => CutBy(P, x) # P
<1>. DEFINE R == CutBy(P, x)
<1>1. /\ \A D \in R : \E y \in P : D \subseteq y /\ D # {} /\ (D = y \intersect x \/ D = y \ x)
      /\ \A y \in P : y \intersect x # {} => y \intersect x \in R
      /\ \A y \in P : y \ x # {} => y \ x \in R
  BY CutMembers
<1>2. Cut(P, x) = {} => R = P
  BY DEF CutBy
<1>3. ASSUME Cut(P, x) # {} PROVE R # P
  <2>1. PICK y \in P : y \intersect x # {} /\ y \ x # {}
    BY <1>3 DEF Cut
  <2>2. y \intersect x \in R
    BY <1>1, <2>1
  <2>3. y \intersect x \notin P
    <3>1. y \intersect x # y /\ (y \intersect x) \intersect y # {}
      BY <2>1
    <3>. QED BY <3>1 DEF IsPartition
  <2>. QED BY <2>2, <2>3
<1>. HIDE DEF R
<1>4. Refines(R, P)
  BY <1>1 DEF Refines
<1>5. UNION R = U
  <2>1. ASSUME NEW s \in U PROVE s \in UNION R
    <3>1. PICK y \in P : s \in y
      BY DEF IsPartition
    <3>2. CASE s \in x
      <4>1. s \in y \intersect x
        BY <3>1, <3>2
      <4>2. y \intersect x \in R
        BY <1>1, <4>1
      <4>. QED BY <4>1, <4>2
    <3>3. CASE s \notin x
      <4>1. s \in y \ x
        BY <3>1, <3>3
      <4>2. y \ x \in R
        BY <1>1, <4>1
      <4>. QED BY <4>1, <4>2
    <3>. QED BY <3>2, <3>3
  <2>2. \A D \in R : D \subseteq U
    BY <1>1 DEF IsPartition
  <2>. QED BY <2>1, <2>2
<1>6. ASSUME NEW D \in R, NEW E \in R, D # E PROVE D \intersect E = {}
  <2>1. PICK y \in P : D \subseteq y /\ (D = y \intersect x \/ D = y \ x)
    BY <1>1
  <2>2. PICK z \in P : E \subseteq z /\ (E = z \intersect x \/ E = z \ x)
    BY <1>1
  <2>3. CASE y = z
    BY <1>6, <2>1, <2>2, <2>3
  <2>4. CASE y # z
    <3>1. y \intersect z = {}
      BY <2>4 DEF IsPartition
    <3>. QED BY <2>1, <2>2, <3>1
  <2>. QED BY <2>3, <2>4
<1>7. {} \notin R
  BY <1>1
<1>8. IsPartition(R, U)
  BY <1>5, <1>6, <1>7 DEF IsPartition
<1>. QED
  BY <1>2, <1>3, <1>4, <1>8 DEF R

\* A union of classes is one of smaller classes.
Covers(P, T) == T = UNION {C \in P : C \subseteq T}

\* A set that larger classes cover is covered by smaller ones.
LEMMA UnionOfClasses ==
  ASSUME NEW U, NEW P, IsPartition(P, U), NEW R, IsPartition(R, U), Refines(R, P),
         NEW T, Covers(P, T)
  PROVE  Covers(R, T)
<1>1. ASSUME NEW s \in T PROVE \E D \in R : D \subseteq T /\ s \in D
  <2>1. PICK C \in P : C \subseteq T /\ s \in C
    BY DEF Covers
  <2>2. PICK D \in R : s \in D
    BY <2>1 DEF IsPartition
  <2>3. PICK E \in P : D \subseteq E
    BY DEF Refines
  <2>4. E = C
    BY <2>1, <2>2, <2>3 DEF IsPartition
  <2>. QED
    BY <2>1, <2>2, <2>3, <2>4
<1>. QED
  BY <1>1 DEF Covers

-----------------------------------------------------------------------------
(* Signatures. *)

\* The arcs from a state to a class with a label, the labels of a state,
\* whether one leads to a class; what a class may keep together; automata
\* weighted in K.
ArcsTo(a, s, l, C) == {b \in Arcs(a) : b.src = s /\ b.label = l /\ b.dst \in C}
Labels(a, s) == {b.label : b \in Out(a, s)}
Leads(a, s, l, C) == \E b \in Arcs(a) : b.src = s /\ b.label = l /\ b.dst \in C
Alike(a, P, s, t) == Signature(a, P, s) = Signature(a, P, t)
Weighs(a, K) == \A b \in Arcs(a) : a[b] \in K

\* The image of a finite set is finite.
LEMMA ImageFinite ==
  ASSUME NEW U, IsFiniteSet(U), NEW f
  PROVE  IsFiniteSet({f[x] : x \in U})
<1>. DEFINE T == {f[x] : x \in U}
            g == [x \in U |-> f[x]]
<1>1. g \in Surjection(U, T)
  BY DEF Surjection, Range
<1>. HIDE DEF g, T
<1>2. IsFiniteSet(T)
  BY <1>1, FS_Surjection
<1>. QED
  BY <1>2 DEF T

\* An automaton has finitely many states, the ends of its arcs among them.
LEMMA StatesFinite ==
  ASSUME NEW a, IsAutomaton(a)
  PROVE  /\ IsFiniteSet(States(a))
         /\ pre \in States(a) /\ post \in States(a)
         /\ \A b \in Arcs(a) : b.src \in States(a) /\ b.dst \in States(a)
<1>1. IsFiniteSet(Arcs(a))
  BY DEF IsAutomaton
<1>2. IsFiniteSet({b.src : b \in Arcs(a)}) /\ IsFiniteSet({b.dst : b \in Arcs(a)})
  <2>. DEFINE f == [b \in Arcs(a) |-> b.src]
              g == [b \in Arcs(a) |-> b.dst]
  <2>1. {b.src : b \in Arcs(a)} = {f[b] : b \in Arcs(a)}
    OBVIOUS
  <2>2. {b.dst : b \in Arcs(a)} = {g[b] : b \in Arcs(a)}
    OBVIOUS
  <2>. HIDE DEF f, g
  <2>3. IsFiniteSet({f[b] : b \in Arcs(a)}) /\ IsFiniteSet({g[b] : b \in Arcs(a)})
    BY <1>1, ImageFinite
  <2>. QED
    BY <2>1, <2>2, <2>3
<1>3. IsFiniteSet({pre, post})
  <2>1. {pre, post} = {pre} \union {post}
    OBVIOUS
  <2>2. IsFiniteSet({pre}) /\ IsFiniteSet({post})
    BY FS_Singleton
  <2>3. IsFiniteSet({pre} \union {post})
    BY <2>2, FS_Union
  <2>. QED
    BY <2>1, <2>3
<1>. QED
  BY <1>2, <1>3, FS_Union DEF States

\* In a trim automaton, arcs leave all states but post, and lead to all but
\* pre; an automaton whose pre is left by no arc has no other state than post.
LEMMA TrimLemma ==
  ASSUME NEW a, IsAutomaton(a), IsTrim(a)
  PROVE  /\ \A s \in States(a) \ {pre, post} : \E b \in Arcs(a) : b.src = s
         /\ (\A b \in Arcs(a) : b.src # pre) => Arcs(a) = {}
<1>. DEFINE U == States(a)
            N(t) == {b.dst : b \in Out(a, t)}
            J(t) == {b.src : b \in {e0 \in Arcs(a) : e0.dst = t}}
<1>1. /\ Forward!IsFiniteSet(U) /\ Forward!Picks(U)
      /\ Backward!IsFiniteSet(U) /\ Backward!Picks(U)
  <2>1. /\ \A T : Forward!IsFiniteSet(T) <=> IsFiniteSet(T)
        /\ \A T : Backward!IsFiniteSet(T) <=> IsFiniteSet(T)
    BY DEF Forward!IsFiniteSet, Backward!IsFiniteSet, IsFiniteSet
  <2>. QED
    BY <2>1, StatesFinite DEF Forward!Picks, Backward!Picks
<1>2. U \ {pre, post} \subseteq Forward!Fold(a, U) \intersect Backward!Fold(a, U)
  BY DEF IsTrim, Reach, FoldSet, MapThenFoldSet, Forward!Fold, Backward!Fold
<1>3. Forward!Fold(a, U) \in SUBSET ({pre} \union {b.dst : b \in Arcs(a)})
  <2>. DEFINE V == SUBSET ({pre} \union {b.dst : b \in Arcs(a)})
  <2>1. {pre} \in V
    OBVIOUS
  <2>2. \A x \in U : \A v \in V : v \union UNION {N(t) : t \in v} \in V
    BY DEF Out
  <2>. HIDE DEF V, U, Forward!Fold
  <2>3. Forward!Fold(a, U) \in V
    BY <1>1, <2>1, <2>2, Forward!FoldStays
  <2>. QED
    BY <2>3 DEF V
<1>4. ASSUME \A b \in Arcs(a) : b.src # pre
      PROVE  Forward!Fold(a, U) \in {{pre}}
  <2>1. N(pre) = {}
    BY <1>4 DEF Out
  <2>2. \A x \in U : \A v \in {{pre}} : v \union UNION {N(t) : t \in v} \in {{pre}}
    BY <2>1
  <2>. HIDE DEF U, Forward!Fold
  <2>. QED
    BY <1>1, <2>2, Forward!FoldStays
<1>5. Backward!Fold(a, U) \in SUBSET ({post} \union {b.src : b \in Arcs(a)})
  <2>. DEFINE V == SUBSET ({post} \union {b.src : b \in Arcs(a)})
  <2>1. {post} \in V
    OBVIOUS
  <2>2. \A x \in U : \A v \in V : v \union UNION {J(t) : t \in v} \in V
    OBVIOUS
  <2>. HIDE DEF V, U, Backward!Fold
  <2>3. Backward!Fold(a, U) \in V
    BY <1>1, <2>1, <2>2, Backward!FoldStays
  <2>. QED
    BY <2>3 DEF V
<1>. HIDE DEF Forward!Fold, Backward!Fold
<1>6. ASSUME NEW s \in U \ {pre, post} PROVE \E b \in Arcs(a) : b.src = s
  BY <1>2, <1>5
<1>7. ASSUME \A b \in Arcs(a) : b.src # pre, NEW b \in Arcs(a) PROVE FALSE
  <2>1. U \subseteq {pre, post}
    BY <1>2, <1>4, <1>7
  <2>2. b.src \in U /\ b.dst \in U
    BY StatesFinite
  <2>3. b.src # post
    BY DEF IsAutomaton
  <2>. QED
    BY <1>7, <2>1, <2>2, <2>3
<1>. QED
  BY <1>6, <1>7

\* It has finitely many classes of finitely many states.
LEMMA PartitionFinite ==
  ASSUME NEW a, IsAutomaton(a), NEW P, IsPartition(P, States(a))
  PROVE  /\ IsFiniteSet(P)
         /\ \A C \in P : IsFiniteSet(C)
<1>1. IsFiniteSet(States(a))
  BY StatesFinite
<1>2. P \subseteq SUBSET States(a)
  BY DEF IsPartition
<1>. QED
  BY <1>1, <1>2, FS_SUBSET, FS_Subset

\* Signatures, in these terms.
LEMMA SignatureLemma ==
  ASSUME NEW a, NEW P, NEW s
  PROVE  Signature(a, P, s) = [l \in Labels(a, s) |-> [C \in P |-> Sum(ArcsTo(a, s, l, C), a)]]
<1>1. \A l, C : {b \in Out(a, s) : b.label = l /\ b.dst \in C} = ArcsTo(a, s, l, C)
  BY DEF Out, ArcsTo
<1>2. \A l, C : SumOver({b \in Out(a, s) : b.label = l /\ b.dst \in C}, LAMBDA b : a[b])
                = Sum(ArcsTo(a, s, l, C), a)
  BY <1>1 DEF Sum
<1>. QED
  BY <1>2 DEF Signature, Labels

\* Signatures are equal when labels are, and their sums to each class.
LEMMA AlikeLemma ==
  ASSUME NEW a, NEW P, NEW s, NEW t
  PROVE  Alike(a, P, s, t) <=>
           /\ Labels(a, s) = Labels(a, t)
           /\ \A l \in Labels(a, s) : \A C \in P :
                Sum(ArcsTo(a, s, l, C), a) = Sum(ArcsTo(a, t, l, C), a)
<1>. DEFINE Row(u, l) == [C \in P |-> Sum(ArcsTo(a, u, l, C), a)]
<1>. HIDE DEF Sum, ArcsTo
<1>1. Alike(a, P, s, t) <=>
        [l \in Labels(a, s) |-> Row(s, l)] = [l \in Labels(a, t) |-> Row(t, l)]
  BY SignatureLemma DEF Alike
<1>2. \A l : Row(s, l) = Row(t, l) <=>
        \A C \in P : Sum(ArcsTo(a, s, l, C), a) = Sum(ArcsTo(a, t, l, C), a)
  OBVIOUS
<1>. HIDE DEF Row
<1>3. [l \in Labels(a, s) |-> Row(s, l)] = [l \in Labels(a, t) |-> Row(t, l)] <=>
        Labels(a, s) = Labels(a, t) /\ \A l \in Labels(a, s) : Row(s, l) = Row(t, l)
  OBVIOUS
<1>. QED
  BY <1>1, <1>2, <1>3

\* The sum over the arcs to a class is the sum over the classes it is made of.
LEMMA CoarserAlike ==
  ASSUME NEW K, IsMonoid(K), NEW a, IsAutomaton(a), Weighs(a, K),
         NEW P, IsPartition(P, States(a)), NEW Q, IsPartition(Q, States(a)), Refines(Q, P),
         NEW s, NEW t, Alike(a, Q, s, t)
  PROVE  Alike(a, P, s, t)
<1>1. Labels(a, s) = Labels(a, t)
  BY AlikeLemma
<1>2. ASSUME NEW l \in Labels(a, s), NEW C \in P
      PROVE  Sum(ArcsTo(a, s, l, C), a) = Sum(ArcsTo(a, t, l, C), a)
  <2>. DEFINE R == {D \in Q : D \subseteq C}
       O(u, D) == Sum(ArcsTo(a, u, l, D), a)
       Good == {T \in SUBSET R : O(s, UNION T) = O(t, UNION T)}
  <2>1. IsFiniteSet(R)
    BY PartitionFinite, FS_Subset
  <2>2. UNION R = C
    <3>1. ASSUME NEW e0 \in C PROVE e0 \in UNION R
      <4>1. e0 \in States(a)
        BY SubclassLemma
      <4>2. PICK D \in Q : e0 \in D
        BY <4>1 DEF IsPartition
      <4>3. PICK E \in P : D \subseteq E
        BY DEF Refines
      <4>4. E = C
        BY <4>2, <4>3 DEF IsPartition
      <4>. QED
        BY <4>2, <4>3, <4>4
    <3>. QED BY <3>1
  <2>3. \A D \in R : O(s, D) = O(t, D)
    BY AlikeLemma
  <2>4. \A u, D : IsFiniteSet(ArcsTo(a, u, l, D)) /\ \A b \in ArcsTo(a, u, l, D) : a[b] \in K
    <3>1. \A u, D : ArcsTo(a, u, l, D) \subseteq Arcs(a)
      BY DEF ArcsTo
    <3>. QED
      BY <3>1, FS_Subset DEF IsAutomaton, Weighs
  <2>5. {} \in Good
    <3>1. \A u : ArcsTo(a, u, l, UNION {}) = {}
      BY DEF ArcsTo
    <3>. QED BY <3>1
  <2>6. ASSUME NEW T \in SUBSET R, NEW D \in R \ T, T \in Good
        PROVE  T \union {D} \in Good
    <3>1. D \intersect UNION T = {}
      BY DEF IsPartition
    <3>2. UNION (T \union {D}) = (UNION T) \union D
      OBVIOUS
    <3>3. ASSUME NEW u
          PROVE  O(u, UNION (T \union {D})) = Plus(O(u, UNION T), O(u, D))
      <4>. DEFINE X == ArcsTo(a, u, l, UNION T)
                  Y == ArcsTo(a, u, l, D)
      <4>1. ArcsTo(a, u, l, UNION (T \union {D})) = X \union Y
        BY <3>2 DEF ArcsTo
      <4>2. X \intersect Y = {}
        BY <3>1 DEF ArcsTo
      <4>3. /\ IsFiniteSet(X) /\ \A b \in X : a[b] \in K
            /\ IsFiniteSet(Y) /\ \A b \in Y : a[b] \in K
        BY <2>4
      <4>. HIDE DEF X, Y
      <4>4. Sum(X \union Y, a) = Plus(Sum(X, a), Sum(Y, a))
        BY <4>2, <4>3, SumUnion
      <4>. QED
        BY <4>1, <4>4 DEF X, Y
    <3>. HIDE DEF O
    <3>. QED
      BY <2>3, <2>6, <3>3
  <2>7. R \in Good
    <3>. HIDE DEF Good, R
    <3>. QED
      BY <2>1, <2>5, <2>6, SubsetInduction
  <2>8. O(s, UNION R) = O(t, UNION R)
    <3>. HIDE DEF O, R
    <3>. QED
      BY <2>7
  <2>. QED
    BY <2>2, <2>8
<1>. QED
  BY <1>1, <1>2, AlikeLemma

\* In a deterministic automaton, a signature tells where letters lead.
LEMMA AlikeLeads ==
  ASSUME NEW K, IsMonoid(K), NEW a, IsAutomaton(a), Weighs(a, K), IsDeterministic(a),
         NEW P, NEW s, NEW t, Alike(a, P, s, t), NEW l, NEW C \in P, Leads(a, s, l, C)
  PROVE  Leads(a, t, l, C)
<1>1. PICK b \in Arcs(a) : b.src = s /\ b.label = l /\ b.dst \in C
  BY DEF Leads
<1>2. ArcsTo(a, s, l, C) = {b}
  BY <1>1 DEF ArcsTo, IsDeterministic
<1>3. l \in Labels(a, s)
  BY <1>1 DEF Labels, Out
<1>4. a[b] \in K /\ a[b] # zero
  BY DEF Weighs, IsAutomaton
<1>5. Sum(ArcsTo(a, s, l, C), a) = a[b]
  BY <1>2, <1>4, SumOne
<1>6. Sum(ArcsTo(a, t, l, C), a) # zero
  BY <1>3, <1>4, <1>5, AlikeLemma
<1>7. ArcsTo(a, t, l, C) # {}
  BY <1>6, SumEmpty
<1>. QED
  BY <1>7 DEF ArcsTo, Leads

\* Without weights, it tells nothing else.
LEMMA LeadsAlike ==
  ASSUME NEW K, IsMonoid(K), NEW a, IsAutomaton(a), Weighs(a, K), IsDeterministic(a),
         IsUnweighted(a), NEW P, IsPartition(P, States(a)), NEW s, NEW t,
         \A l : \A C \in P : Leads(a, s, l, C) <=> Leads(a, t, l, C)
  PROVE  Alike(a, P, s, t)
<1>1. ASSUME NEW u, NEW v, NEW l \in Labels(a, u),
             \A C \in P : Leads(a, u, l, C) => Leads(a, v, l, C)
      PROVE  l \in Labels(a, v)
  <2>1. PICK b \in Arcs(a) : b.src = u /\ b.label = l
    BY DEF Labels, Out
  <2>2. PICK C \in P : b.dst \in C
    BY StatesFinite DEF IsPartition
  <2>3. Leads(a, v, l, C)
    BY <1>1, <2>1, <2>2 DEF Leads
  <2>. QED
    BY <2>3 DEF Leads, Labels, Out
<1>2. Labels(a, s) = Labels(a, t)
  BY <1>1
<1>3. ASSUME NEW l, NEW C \in P
      PROVE  Sum(ArcsTo(a, s, l, C), a) = Sum(ArcsTo(a, t, l, C), a)
  <2>1. CASE Leads(a, s, l, C)
    <3>1. PICK b \in Arcs(a) : b.src = s /\ b.label = l /\ b.dst \in C
      BY <2>1 DEF Leads
    <3>2. PICK d \in Arcs(a) : d.src = t /\ d.label = l /\ d.dst \in C
      BY <2>1 DEF Leads
    <3>3. ArcsTo(a, s, l, C) = {b} /\ ArcsTo(a, t, l, C) = {d}
      BY <3>1, <3>2 DEF ArcsTo, IsDeterministic
    <3>4. a[b] \in K /\ a[d] = a[b]
      BY DEF Weighs, IsUnweighted
    <3>. QED
      BY <3>3, <3>4, SumOne
  <2>2. CASE ~ Leads(a, s, l, C)
    <3>1. ArcsTo(a, s, l, C) = {} /\ ArcsTo(a, t, l, C) = {}
      BY <2>2 DEF Leads, ArcsTo
    <3>. QED BY <3>1
  <2>. QED
    BY <2>1, <2>2
<1>. QED
  BY <1>2, <1>3, AlikeLemma

-----------------------------------------------------------------------------
(* Partitions that only separate what they must. *)

\* No stable partition that keeps pre and post apart separates what P does not.
Coarse(a, P) ==
  \A Q : /\ IsPartition(Q, States(a))
         /\ Stable(a, Q)
         /\ ClassOf(Q, pre) # ClassOf(Q, post)
         => Refines(Q, P)

\* A partition stays coarse when its classes are split, but never between
\* states of equal signatures: a stable partition that is finer than P gives
\* all states of a class the same signature for P.
LEMMA RefinedCoarse ==
  ASSUME NEW K, IsMonoid(K), NEW a, IsAutomaton(a), Weighs(a, K),
         NEW P, IsPartition(P, States(a)), Coarse(a, P), NEW R,
         \A C \in P : \A D \in SUBSET C :
           D # {} /\ (\A s, t \in D : Alike(a, P, s, t)) => \E E \in R : D \subseteq E
  PROVE  Coarse(a, R)
<1>. SUFFICES ASSUME NEW Q, IsPartition(Q, States(a)), Stable(a, Q),
                     ClassOf(Q, pre) # ClassOf(Q, post), NEW D \in Q
              PROVE  \E E \in R : D \subseteq E
  BY DEF Coarse, Refines
<1>1. Refines(Q, P)
  BY DEF Coarse
<1>2. PICK C \in P : D \subseteq C
  BY <1>1 DEF Refines
<1>3. D # {}
  BY DEF IsPartition
<1>4. ASSUME NEW s \in D, NEW t \in D PROVE Alike(a, P, s, t)
  <2>1. Alike(a, Q, s, t)
    BY DEF Stable, Alike
  <2>. QED
    BY <1>1, <2>1, CoarserAlike
<1>. QED
  BY <1>2, <1>3, <1>4

\* Stable partitions set post apart, since arcs leave the other states, and
\* states that have an arc to it.
LEMMA FinalsApart ==
  ASSUME NEW K, IsMonoid(K), NEW a, IsAutomaton(a), Weighs(a, K), IsDeterministic(a), IsTrim(a),
         NEW Q, IsPartition(Q, States(a)), Stable(a, Q),
         ClassOf(Q, pre) # ClassOf(Q, post), NEW C \in Q, NEW s \in C, NEW t \in C
  PROVE  /\ s = post => t = post
         /\ s \in Finals(a) => t \in Finals(a)
         /\ s = pre => t = pre
<1>1. s \in States(a) /\ t \in States(a) /\ pre \in States(a) /\ post \in States(a)
  BY StatesFinite, SubclassLemma
<1>2. \A u \in C : C = ClassOf(Q, u)
  BY ClassLemma, SubclassLemma
<1>3. Alike(a, Q, s, t)
  BY DEF Stable, Alike
<1>4. \A b \in Arcs(a) : b.src # post /\ b.dst # pre
                         /\ (b.label = Special <=> (b.src = pre \/ b.dst = post))
                         /\ ~ (b.src = pre /\ b.dst = post)
  BY DEF IsAutomaton
<1>5. \A D \in Q : post \in D => D = {post}
  <2>. SUFFICES ASSUME NEW D \in Q, post \in D, NEW u \in D, u # post PROVE FALSE
    OBVIOUS
  <2>1. u # pre
    <3>1. pre \in D => ClassOf(Q, pre) = ClassOf(Q, post)
      BY <1>1, ClassLemma
    <3>. QED BY <3>1
  <2>2. u \in States(a)
    BY SubclassLemma
  <2>3. PICK b \in Arcs(a) : b.src = u
    BY <2>1, <2>2, TrimLemma
  <2>4. Labels(a, u) # {} /\ Labels(a, post) = {}
    BY <1>4, <2>3 DEF Labels, Out
  <2>5. Alike(a, Q, u, post)
    BY DEF Stable, Alike
  <2>. QED
    BY <2>4, <2>5, AlikeLemma
<1>6. ASSUME s = post PROVE t = post
  BY <1>5, <1>6
<1>7. \A u \in States(a) : u \in Finals(a) <=> \E b \in Arcs(a) : b.src = u /\ b.dst = post
  BY DEF Finals, Successors, Out
<1>8. ASSUME s \in Finals(a) PROVE t \in Finals(a)
  <2>1. PICK b \in Arcs(a) : b.src = s /\ b.dst = post
    BY <1>1, <1>7, <1>8
  <2>2. ClassOf(Q, post) \in Q /\ ClassOf(Q, post) = {post}
    BY <1>1, <1>5, ClassLemma
  <2>3. Leads(a, s, b.label, {post})
    BY <2>1 DEF Leads
  <2>4. Leads(a, t, b.label, {post})
    BY <1>3, <2>2, <2>3, AlikeLeads
  <2>. QED
    BY <1>1, <1>7, <2>4 DEF Leads
<1>9. ASSUME s = pre, t # pre PROVE FALSE
  <2>1. t # post
    BY <1>5, <1>9
  <2>2. PICK b \in Arcs(a) : b.src = t
    BY <1>1, <1>9, <2>1, TrimLemma
  <2>3. Arcs(a) # {}
    BY <2>2
  <2>4. PICK d \in Arcs(a) : d.src = pre
    BY <2>3, TrimLemma
  <2>5. d.label = Special /\ d.dst # post
    BY <1>4, <2>4
  <2>6. PICK D \in Q : d.dst \in D
    BY StatesFinite DEF IsPartition
  <2>7. Leads(a, pre, Special, D)
    BY <2>4, <2>5, <2>6 DEF Leads
  <2>8. Leads(a, t, Special, D)
    BY <1>3, <1>9, <2>7, AlikeLeads
  <2>9. post \in D
    BY <1>4, <1>9, <2>8 DEF Leads
  <2>. QED
    BY <1>5, <2>5, <2>6, <2>9
<1>. QED
  BY <1>6, <1>8, <1>9

\* The classes of the first partition stay apart.
Uniform(a, P) ==
  \A C \in P : \A s, t \in C :
    /\ s = pre => t = pre
    /\ s = post => t = post
    /\ s \in Finals(a) => t \in Finals(a)

\* Final states are those with an arc to post, neither pre nor post.
LEMMA FinalsLemma ==
  ASSUME NEW a, IsAutomaton(a)
  PROVE  /\ Finals(a) \subseteq States(a)
         /\ pre \notin Finals(a) /\ post \notin Finals(a)
         /\ pre # post
         /\ \A s : s \in Finals(a) <=> \E b \in Arcs(a) : b.src = s /\ b.dst = post
<1>1. \A s : s \in Finals(a) <=> \E b \in Arcs(a) : b.src = s /\ b.dst = post
  BY StatesFinite DEF Finals, Successors, Out
<1>. QED
  BY <1>1 DEF Finals, IsAutomaton, pre, post

\* Smaller classes mix no more than larger ones.
LEMMA UniformRefined ==
  ASSUME NEW a, NEW P, Uniform(a, P), NEW R, Refines(R, P)
  PROVE  Uniform(a, R)
BY DEF Uniform, Refines

\* Letters, initial and final arcs are all that there is in a signature.
LEMMA PairAlike ==
  ASSUME NEW K, IsMonoid(K), NEW a, IsAutomaton(a), Weighs(a, K), IsDeterministic(a),
         IsUnweighted(a), NEW P, IsPartition(P, States(a)), NEW s, NEW t,
         s = pre <=> t = pre, s \in Finals(a) <=> t \in Finals(a),
         \A l \in Letter : \A D \in P : Leads(a, s, l, D) <=> Leads(a, t, l, D)
  PROVE  Alike(a, P, s, t)
<1>1. ASSUME NEW u, NEW v, u # pre, v # pre, u \in Finals(a) => v \in Finals(a),
             NEW D, Leads(a, u, Special, D)
      PROVE  Leads(a, v, Special, D)
  <2>1. PICK b \in Arcs(a) : b.src = u /\ b.label = Special /\ b.dst \in D
    BY <1>1 DEF Leads
  <2>2. b.dst = post
    BY <1>1, <2>1 DEF IsAutomaton
  <2>3. v \in Finals(a)
    BY <1>1, <2>1, <2>2, FinalsLemma
  <2>4. PICK d \in Arcs(a) : d.src = v /\ d.dst = post
    BY <2>3, FinalsLemma
  <2>5. d.label = Special
    BY <2>4 DEF IsAutomaton
  <2>. QED
    BY <2>1, <2>2, <2>4, <2>5 DEF Leads
<1>2. ASSUME NEW l, NEW D \in P
      PROVE  Leads(a, s, l, D) <=> Leads(a, t, l, D)
  <2>1. CASE l \in Letter
    BY <2>1
  <2>2. CASE l = Special
    <3>1. CASE s = pre
      BY <3>1
    <3>2. CASE s # pre
      BY <1>1, <2>2, <3>2
    <3>. QED
      BY <3>1, <3>2
  <2>3. CASE l \notin Label
    BY <2>3 DEF Leads, IsAutomaton
  <2>. QED
    BY <2>1, <2>2, <2>3 DEF Label
<1>. QED
  BY <1>2, LeadsAlike

\* Arcs that lead states of one class to two classes are not forgotten: one of
\* the two is in the worklist, or only one is part of the class at work.
Pending(a, P, O, G, T) ==
  \A x, y \in Arcs(a) : x.label = y.label =>
    \A C, D, E \in P :
      x.src \in C /\ y.src \in C /\ x.dst \in D /\ y.dst \in E /\ D # E =>
        D \in O \/ E \in O \/ (x.label \in G /\ ~ (x.dst \in T <=> y.dst \in T))

\* Neither are final states in a class with others.
FinalsPending(a, P, O, G, T) ==
  \A C \in P : \A s, t \in C \ {pre} : s \in Finals(a) /\ t \notin Finals(a) =>
    {post} \in O \/ (Special \in G /\ T = {post})

\* Once the worklist is empty and no label is left to try, every letter leads
\* the states of a class to the same class. This takes automata that are
\* complete: a letter that leads some state of a class nowhere is no arc, and
\* the worklist only knows about arcs.
LEMMA HopcroftStable ==
  ASSUME NEW K, IsMonoid(K), NEW a, IsAutomaton(a), Weighs(a, K), IsDeterministic(a),
         IsUnweighted(a), IsComplete(a), NEW P, IsPartition(P, States(a)), {post} \in P,
         NEW T, Pending(a, P, {}, {}, T), FinalsPending(a, P, {}, {}, T)
  PROVE  \A C \in P : \A s, t \in C \ {pre} : Alike(a, P, s, t)
<1>. SUFFICES ASSUME NEW C \in P, NEW s \in C \ {pre}, NEW t \in C \ {pre}
              PROVE  Alike(a, P, s, t)
  OBVIOUS
<1>1. \A u, v \in C \ {pre} : u \in Finals(a) => v \in Finals(a)
  BY DEF FinalsPending
<1>2. ASSUME NEW u \in C \ {pre}, NEW v \in C \ {pre}, NEW l \in Letter, NEW D \in P,
             Leads(a, u, l, D)
      PROVE  Leads(a, v, l, D)
  <2>1. PICK x \in Arcs(a) : x.src = u /\ x.label = l /\ x.dst \in D
    BY <1>2 DEF Leads
  <2>2. u # post
    BY <2>1 DEF IsAutomaton
  <2>3. v # post
    BY <2>2 DEF IsPartition
  <2>4. v \in States(a)
    BY DEF IsPartition
  <2>5. PICK y \in Arcs(a) : y.src = v /\ y.label = l
    BY <2>1, <2>3, <2>4 DEF IsComplete
  <2>6. PICK E \in P : y.dst \in E
    BY StatesFinite DEF IsPartition
  <2>7. D = E
    BY <2>1, <2>5, <2>6 DEF Pending
  <2>. QED
    BY <2>5, <2>6, <2>7 DEF Leads
<1>3. s \in Finals(a) <=> t \in Finals(a)
  BY <1>1
<1>4. \A l \in Letter : \A D \in P : Leads(a, s, l, D) <=> Leads(a, t, l, D)
  BY <1>2
<1>. QED
  BY <1>3, <1>4, PairAlike
-----------------------------------------------------------------------------
(* Sums and products. *)

\* The weights of K add up and multiply as those of a semiring; that products
\* associate plays no part.
IsSemiring(K) ==
  /\ IsMonoid(K)
  /\ one \in K
  /\ \A x, y \in K : Times(x, y) \in K
  /\ \A x, y, z \in K :
       /\ Times(Plus(x, y), z) = Plus(Times(x, z), Times(y, z))
       /\ Times(x, Plus(y, z)) = Plus(Times(x, y), Times(x, z))
  /\ \A x \in K : Times(zero, x) = zero /\ Times(x, zero) = zero

\* One more item.
LEMMA SumAdd ==
  ASSUME NEW K, IsMonoid(K), NEW U, IsFiniteSet(U), NEW f, \A y \in U : f[y] \in K,
         NEW T \in SUBSET U, NEW x \in U \ T
  PROVE  Sum(T \union {x}, f) = Plus(f[x], Sum(T, f))
<1>1. IsFiniteSet(T \union {x})
  BY FS_Subset
<1>2. (T \union {x}) \ {x} = T
  OBVIOUS
<1>3. \A y \in T \union {x} : f[y] \in K
  OBVIOUS
<1>. QED
  BY <1>1, <1>2, <1>3, SumTake

\* A factor on the right of all items.
LEMMA SumTimes ==
  ASSUME NEW K, IsSemiring(K), NEW U, IsFiniteSet(U), NEW f, \A x \in U : f[x] \in K,
         NEW k \in K, NEW g, \A x \in U : g[x] = Times(f[x], k)
  PROVE  Sum(U, g) = Times(Sum(U, f), k)
<1>. DEFINE Good == {T \in SUBSET U : Sum(T, g) = Times(Sum(T, f), k)}
<1>0. IsMonoid(K) /\ \A x \in U : g[x] \in K
  <2>1. IsMonoid(K) /\ \A x, y \in K : Times(x, y) \in K
    BY DEF IsSemiring
  <2>. QED BY <2>1
<1>1. {} \in Good
  BY SumEmpty DEF IsSemiring
<1>2. ASSUME NEW T \in SUBSET U, NEW x \in U \ T, T \in Good
      PROVE  T \union {x} \in Good
  <2>1. IsFiniteSet(T)
    BY FS_Subset
  <2>2. Sum(T \union {x}, f) = Plus(f[x], Sum(T, f))
    BY <1>0, SumAdd
  <2>5. Sum(T \union {x}, g) = Plus(g[x], Sum(T, g))
    BY <1>0, SumAdd
  <2>3. Sum(T, f) \in K
    BY <1>0, <2>1, SumType
  <2>4. \A u, v \in K : Times(Plus(u, v), k) = Plus(Times(u, k), Times(v, k))
    BY DEF IsSemiring
  <2>. QED
    BY <1>2, <2>2, <2>3, <2>4, <2>5
<1>3. U \in Good
  <2>. HIDE DEF Good
  <2>. QED
    BY <1>1, <1>2, SubsetInduction
<1>. QED
  BY <1>3

\* A factor on the left of all items.
LEMMA TimesSum ==
  ASSUME NEW K, IsSemiring(K), NEW U, IsFiniteSet(U), NEW f, \A x \in U : f[x] \in K,
         NEW k \in K, NEW g, \A x \in U : g[x] = Times(k, f[x])
  PROVE  Sum(U, g) = Times(k, Sum(U, f))
<1>. DEFINE Good == {T \in SUBSET U : Sum(T, g) = Times(k, Sum(T, f))}
<1>0. IsMonoid(K) /\ \A x \in U : g[x] \in K
  <2>1. IsMonoid(K) /\ \A x, y \in K : Times(x, y) \in K
    BY DEF IsSemiring
  <2>. QED BY <2>1
<1>1. {} \in Good
  BY SumEmpty DEF IsSemiring
<1>2. ASSUME NEW T \in SUBSET U, NEW x \in U \ T, T \in Good
      PROVE  T \union {x} \in Good
  <2>1. IsFiniteSet(T)
    BY FS_Subset
  <2>2. Sum(T \union {x}, f) = Plus(f[x], Sum(T, f))
    BY <1>0, SumAdd
  <2>5. Sum(T \union {x}, g) = Plus(g[x], Sum(T, g))
    BY <1>0, SumAdd
  <2>3. Sum(T, f) \in K
    BY <1>0, <2>1, SumType
  <2>4. \A u, v \in K : Times(k, Plus(u, v)) = Plus(Times(k, u), Times(k, v))
    BY DEF IsSemiring
  <2>. QED
    BY <1>2, <2>2, <2>3, <2>4, <2>5
<1>3. U \in Good
  <2>. HIDE DEF Good
  <2>. QED
    BY <1>1, <1>2, SubsetInduction
<1>. QED
  BY <1>3

\* Items that weigh nothing may be left out.
LEMMA SumNull ==
  ASSUME NEW K, IsMonoid(K), NEW U, IsFiniteSet(U), NEW T \in SUBSET U, NEW f,
         \A x \in T : f[x] \in K, \A x \in U \ T : f[x] = zero
  PROVE  Sum(U, f) = Sum(T, f)
<1>1. IsFiniteSet(T) /\ IsFiniteSet(U \ T)
  BY FS_Subset
<1>2. Sum(U \ T, f) = zero
  BY <1>1, SumZero
<1>3. \A x \in U \ T : f[x] \in K
  BY DEF IsMonoid
<1>4. Sum((U \ T) \union T, f) = Plus(Sum(U \ T, f), Sum(T, f))
  <2>1. (U \ T) \intersect T = {}
    OBVIOUS
  <2>. QED BY <1>1, <1>3, <2>1, SumUnion
<1>5. (U \ T) \union T = U
  OBVIOUS
<1>6. Sum(T, f) \in K
  BY <1>1, SumType
<1>. QED
  BY <1>2, <1>4, <1>5, <1>6 DEF IsMonoid

\* A sum may be made by groups.
LEMMA SumGroup ==
  ASSUME NEW K, IsMonoid(K), NEW I, IsFiniteSet(I), NEW G, \A i \in I : IsFiniteSet(G[i]),
         \A i, j \in I : i # j => G[i] \intersect G[j] = {},
         NEW f, \A i \in I : \A x \in G[i] : f[x] \in K,
         NEW g, \A i \in I : g[i] = Sum(G[i], f)
  PROVE  Sum(UNION {G[i] : i \in I}, f) = Sum(I, g)
<1>. DEFINE All(T) == UNION {G[i] : i \in T}
            Good == {T \in SUBSET I : IsFiniteSet(All(T)) /\ Sum(All(T), f) = Sum(T, g)}
<1>0. \A i \in I : g[i] \in K
  BY SumType
<1>1. {} \in Good
  <2>1. All({}) = {}
    OBVIOUS
  <2>. QED BY <2>1, SumEmpty, FS_EmptySet
<1>2. ASSUME NEW T \in SUBSET I, NEW i \in I \ T, T \in Good
      PROVE  T \union {i} \in Good
  <2>1. All(T \union {i}) = G[i] \union All(T)
    OBVIOUS
  <2>2. G[i] \intersect All(T) = {}
    OBVIOUS
  <2>3. IsFiniteSet(T) /\ IsFiniteSet(All(T)) /\ IsFiniteSet(G[i])
    BY <1>2, FS_Subset
  <2>4. \A x \in All(T) : f[x] \in K
    OBVIOUS
  <2>. HIDE DEF All
  <2>5. Sum(G[i] \union All(T), f) = Plus(Sum(G[i], f), Sum(All(T), f))
    BY <2>2, <2>3, <2>4, SumUnion
  <2>6. Sum(T \union {i}, g) = Plus(g[i], Sum(T, g))
    BY <1>0, SumAdd
  <2>7. IsFiniteSet(G[i] \union All(T))
    BY <2>3, FS_Union
  <2>8. Sum(All(T), f) = Sum(T, g)
    BY <1>2
  <2>. QED
    BY <2>1, <2>5, <2>6, <2>7, <2>8
<1>3. I \in Good
  <2>. HIDE DEF Good
  <2>. QED
    BY <1>1, <1>2, SubsetInduction
<1>. QED
  BY <1>3

\* The items may be given other names.
LEMMA SumMoved ==
  ASSUME NEW K, IsMonoid(K), NEW U, IsFiniteSet(U), NEW h,
         \A x, y \in U : h[x] = h[y] => x = y,
         NEW f, NEW g, \A x \in U : g[h[x]] \in K /\ f[x] = g[h[x]]
  PROVE  Sum({h[x] : x \in U}, g) = Sum(U, f)
<1>. DEFINE G == [x \in U |-> {h[x]}]
<1>1. \A x \in U : IsFiniteSet(G[x])
  BY FS_Singleton
<1>2. \A x, y \in U : x # y => G[x] \intersect G[y] = {}
  OBVIOUS
<1>3. \A x \in U : \A y \in G[x] : g[y] \in K
  OBVIOUS
<1>4. \A x \in U : f[x] = Sum(G[x], g)
  <2>. TAKE x \in U
  <2>1. PICK y : y = h[x]
    OBVIOUS
  <2>2. g[y] \in K /\ f[x] = g[y] /\ G[x] = {y}
    BY <2>1
  <2>. HIDE DEF G
  <2>3. Sum({y}, g) = g[y]
    BY <2>2, SumOne
  <2>. QED BY <2>2, <2>3
<1>5. UNION {G[x] : x \in U} = {h[x] : x \in U}
  OBVIOUS
<1>. HIDE DEF G
<1>6. Sum(UNION {G[x] : x \in U}, g) = Sum(U, f)
  BY <1>1, <1>2, <1>3, <1>4, SumGroup
<1>. QED
  BY <1>5, <1>6
-----------------------------------------------------------------------------
(* Words. *)

\* The products of a vector and the arcs; the vectors, letter after letter.
Products == INSTANCE FoldProofs WITH
  Step <- LAMBDA f, x, v : Plus(Times(f[1][x.src], f[2][x]), v),
  Pick <- LAMBDA T : CHOOSE x \in T : TRUE,
  base <- LAMBDA f : zero

Enclosed(word) == <<Special>> \o word \o <<Special>>
ReadFrom(f, i, v) ==
  [d \in States(f[1]) |->
     SumOver({b \in Arcs(f[1]) : b.label = Enclosed(f[2])[i] /\ b.dst = d},
             LAMBDA b : Times(v[b.src], f[1][b]))]

Vectors == INSTANCE FoldProofs WITH
  Step <- ReadFrom,
  Pick <- LAMBDA T : Max(T),
  base <- LAMBDA f : [s \in States(f[1]) |-> IF s = pre THEN one ELSE zero]

\* Where the first n letters of a word lead from pre, with which weights; one
\* letter more.
After(a, word, n) == Vectors!Fold(<<a, word>>, 1 .. n)
Weigh(a, v) == [b \in Arcs(a) |-> Times(v[b.src], a[b])]
ReadTo(a, l, D) == {b \in Arcs(a) : b.label = l /\ b.dst \in D}
Read(a, v, l) == [d \in States(a) |-> Sum(ReadTo(a, l, {d}), Weigh(a, v))]

\* Induction over the naturals, with a set.
LEMMA NaturalInduction ==
  ASSUME NEW Good, 0 \in Good, \A n \in Nat : n \in Good => n + 1 \in Good
  PROVE  Nat \subseteq Good
<1>. DEFINE Bad == {n \in Nat : n \notin Good}
<1>. SUFFICES ASSUME Bad # {} PROVE FALSE
  OBVIOUS
<1>1. PICK k \in Bad : \A j \in Bad : ~ (j < k)
  BY F!LeastLemma
<1>2. k # 0 /\ k \in Nat
  OBVIOUS
<1>3. k - 1 \in Nat /\ k - 1 < k /\ (k - 1) + 1 = k
  BY <1>2
<1>. QED
  BY <1>1, <1>3

\* The largest of some numbers up to n.
LEMMA MaxLemma ==
  ASSUME NEW n \in Nat
  PROVE  /\ \A T \in SUBSET (1 .. n) : T # {} => Max(T) \in T
         /\ Max(1 .. n + 1) = n + 1
<1>1. ASSUME NEW T \in SUBSET (1 .. n), T # {}
      PROVE  \E x \in T : \A y \in T : x >= y
  <2>. DEFINE Bad == {n - x : x \in T}
  <2>0. \A x \in T : n - x \in Nat
    OBVIOUS
  <2>1. Bad \in SUBSET Nat /\ Bad # {}
    BY <1>1, <2>0
  <2>2. PICK k \in Bad : \A j \in Bad : ~ (j < k)
    BY <2>1, F!LeastLemma
  <2>3. PICK x \in T : k = n - x
    OBVIOUS
  <2>4. \A y \in T : n - y \in Bad
    OBVIOUS
  <2>5. \A y \in T : ~ (n - y < n - x)
    BY <2>2, <2>3, <2>4
  <2>6. \A y \in T : x >= y
    BY <2>5
  <2>. QED
    BY <2>6
<1>2. n + 1 \in 1 .. n + 1 /\ \A y \in 1 .. n + 1 : n + 1 >= y
  OBVIOUS
<1>3. \A x \in 1 .. n + 1 : (\A y \in 1 .. n + 1 : x >= y) => x = n + 1
  BY <1>2
<1>. QED
  BY <1>1, <1>2, <1>3 DEF Max

\* The sum that Evaluate makes, in these terms.
LEMMA ProductsLemma ==
  ASSUME NEW a, NEW v, NEW U \in SUBSET Arcs(a), IsFiniteSet(U)
  PROVE  SumOver(U, LAMBDA b : Times(v[b.src], a[b])) = Sum(U, Weigh(a, v))
<1>. DEFINE f == <<v, a>>
            P(T) == CHOOSE x \in T : TRUE
            Good == {T \in SUBSET U : Products!Fold(f, T) = F!Fold(Weigh(a, v), T)}
<1>1. ASSUME NEW T \in SUBSET U, \A R \in SUBSET T : R # T => R \in Good
      PROVE  T \in Good
  <2>1. F!Picks(T) /\ F!IsFiniteSet(T) /\ Products!Picks(T) /\ Products!IsFiniteSet(T)
    <3>1. IsFiniteSet(T)
      BY FS_Subset
    <3>. QED
      BY <3>1, SameFinite DEF F!Picks, Products!Picks, Products!IsFiniteSet, IsFiniteSet
  <2>2. /\ T = {} => F!Fold(Weigh(a, v), T) = zero
        /\ T # {} => /\ P(T) \in T
                     /\ F!Fold(Weigh(a, v), T) = Plus(Weigh(a, v)[P(T)], F!Fold(Weigh(a, v), T \ {P(T)}))
    <3>. HIDE DEF F!Fold, Weigh
    <3>. QED
      BY <2>1, F!FoldUnrolled
  <2>3. /\ T = {} => Products!Fold(f, T) = zero
        /\ T # {} => /\ P(T) \in T
                     /\ Products!Fold(f, T) = Plus(Times(f[1][P(T).src], f[2][P(T)]), Products!Fold(f, T \ {P(T)}))
    <3>. HIDE DEF Products!Fold, f
    <3>. QED
      BY <2>1, Products!FoldUnrolled
  <2>. HIDE DEF F!Fold, Products!Fold, P
  <2>4. CASE T = {}
    BY <2>2, <2>3, <2>4
  <2>5. CASE T # {}
    <3>1. P(T) \in T /\ T \ {P(T)} # T /\ T \ {P(T)} \in SUBSET T
      BY <2>2, <2>5
    <3>2. Products!Fold(f, T \ {P(T)}) = F!Fold(Weigh(a, v), T \ {P(T)})
      BY <1>1, <3>1
    <3>3. P(T) \in Arcs(a)
      BY <3>1
    <3>4. Times(f[1][P(T).src], f[2][P(T)]) = Weigh(a, v)[P(T)]
      BY <3>3 DEF Weigh
    <3>. QED
      BY <2>2, <2>3, <2>5, <3>2, <3>4
  <2>. QED
    BY <2>4, <2>5
<1>2. U \in Good
  <2>. HIDE DEF Good
  <2>. QED
    BY <1>1, StrongInduction
<1>3. SumOver(U, LAMBDA b : Times(v[b.src], a[b])) = Products!Fold(f, U)
  BY DEF SumOver, MapThenFoldSet, Products!Fold
<1>4. Sum(U, Weigh(a, v)) = F!Fold(Weigh(a, v), U)
  BY DEF Sum, SumOver, MapThenFoldSet, F!Fold
<1>. QED
  BY <1>2, <1>3, <1>4

\* What Evaluate reads, in these terms.
LEMMA ReadLemma ==
  ASSUME NEW f, IsFiniteSet(Arcs(f[1])), NEW i, NEW v
  PROVE  ReadFrom(f, i, v) = Read(f[1], v, Enclosed(f[2])[i])
<1>. DEFINE l == Enclosed(f[2])[i]
<1>1. ASSUME NEW d
      PROVE  SumOver({b \in Arcs(f[1]) : b.label = l /\ b.dst = d}, LAMBDA b : Times(v[b.src], f[1][b]))
             = Sum(ReadTo(f[1], l, {d}), Weigh(f[1], v))
  <2>1. {b \in Arcs(f[1]) : b.label = l /\ b.dst = d} = ReadTo(f[1], l, {d})
    BY DEF ReadTo
  <2>2. ReadTo(f[1], l, {d}) \in SUBSET Arcs(f[1]) /\ IsFiniteSet(ReadTo(f[1], l, {d}))
    BY FS_Subset DEF ReadTo
  <2>3. SumOver(ReadTo(f[1], l, {d}), LAMBDA b : Times(v[b.src], f[1][b])) = Sum(ReadTo(f[1], l, {d}), Weigh(f[1], v))
    BY <2>2, ProductsLemma
  <2>. QED
    BY <2>1, <2>3
<1>. QED
  BY <1>1 DEF ReadFrom, Read

\* One letter more.
LEMMA AfterLemma ==
  ASSUME NEW a, IsFiniteSet(Arcs(a)), NEW word, NEW n \in Nat
  PROVE  /\ After(a, word, 0) = [s \in States(a) |-> IF s = pre THEN one ELSE zero]
         /\ After(a, word, n + 1) = Read(a, After(a, word, n), Enclosed(word)[n + 1])
<1>2. 1 .. 0 = {} /\ 1 .. n + 1 # {} /\ (1 .. n + 1) \ {n + 1} = 1 .. n
  <2>1. \A i \in 1 .. n + 1 : i # n + 1 => i \in 1 .. n
    OBVIOUS
  <2>2. \A i \in 1 .. n : i \in 1 .. n + 1 /\ i # n + 1
    OBVIOUS
  <2>3. n + 1 \in 1 .. n + 1
    OBVIOUS
  <2>. QED
    BY <2>1, <2>2, <2>3
<1>. DEFINE f == <<a, word>>
            l == Enclosed(word)[n + 1]
            v == Vectors!Fold(f, 1 .. n)
<1>1. ASSUME NEW m \in Nat
      PROVE  Vectors!IsFiniteSet(1 .. m) /\ Vectors!Picks(1 .. m)
  <2>1. IsFiniteSet(1 .. m)
    BY IntervalLemma
  <2>. QED
    BY <2>1, MaxLemma DEF Vectors!Picks, Vectors!IsFiniteSet, IsFiniteSet
<1>3. Vectors!Fold(f, {}) = [s \in States(f[1]) |-> IF s = pre THEN one ELSE zero]
  <2>1. Vectors!IsFiniteSet({}) /\ Vectors!Picks({})
    BY <1>1, <1>2
  <2>. HIDE DEF Vectors!Fold, f
  <2>. QED
    BY <2>1, Vectors!FoldUnrolled
<1>4. Vectors!Fold(f, 1 .. n + 1) = ReadFrom(f, n + 1, v)
  <2>1. Vectors!IsFiniteSet(1 .. n + 1) /\ Vectors!Picks(1 .. n + 1) /\ Max(1 .. n + 1) = n + 1
    BY <1>1, MaxLemma
  <2>. HIDE DEF Vectors!Fold, f
  <2>2. PICK U : U = 1 .. n + 1
    OBVIOUS
  <2>3. Vectors!Fold(f, U) = ReadFrom(f, Max(U), Vectors!Fold(f, U \ {Max(U)}))
    BY <1>2, <2>1, <2>2, Vectors!FoldUnrolled
  <2>4. Max(U) = n + 1 /\ U \ {Max(U)} = 1 .. n
    BY <1>2, <2>1, <2>2
  <2>. QED
    BY <2>2, <2>3, <2>4
<1>. HIDE DEF v
<1>6. ReadFrom(f, n + 1, v) = Read(a, v, l)
  <2>1. f[1] = a /\ Enclosed(f[2])[n + 1] = l
    OBVIOUS
  <2>. HIDE DEF f, l
  <2>2. ReadFrom(f, n + 1, v) = Read(f[1], v, Enclosed(f[2])[n + 1])
    BY <2>1, ReadLemma
  <2>. QED
    BY <2>1, <2>2
<1>. HIDE DEF Vectors!Fold, l
<1>7. After(a, word, n + 1) = Read(a, After(a, word, n), l)
  BY <1>4, <1>6 DEF After, v
<1>. QED
  BY <1>2, <1>3, <1>7 DEF After, l

\* The weight of a word is what reaches post.
LEMMA EvaluateLemma ==
  ASSUME NEW a, NEW word \in Seq(Letter)
  PROVE  Evaluate(a, word) = After(a, word, Len(word) + 2)[post]
<1>1. \A f : Evaluate(f[1], f[2]) = Vectors!Fold(f, DOMAIN Enclosed(f[2]))[post]
  BY DEF Evaluate, FoldLeft, MapThenFoldSet, Vectors!Fold, Enclosed, SumOver, ReadFrom
<1>2. DOMAIN Enclosed(word) = 1 .. Len(word) + 2
  BY DEF Enclosed
<1>3. Evaluate(<<a, word>>[1], <<a, word>>[2])
        = Vectors!Fold(<<a, word>>, DOMAIN Enclosed(<<a, word>>[2]))[post]
  BY <1>1
<1>. HIDE DEF Vectors!Fold
<1>. QED
  BY <1>2, <1>3 DEF After
-----------------------------------------------------------------------------
(* The quotient by a stable partition. *)

\* The weight from a state to a class.
To(a, s, l, D) == Sum(ArcsTo(a, s, l, D), a)

\* Every class has a smallest state, which no other class has.
LEMMA MinLemma ==
  ASSUME NEW U, U \subseteq Nat, NEW P, IsPartition(P, U)
  PROVE  /\ \A C \in P : Min(C) \in C /\ \A x \in C : Min(C) <= x
         /\ \A C, D \in P : Min(C) = Min(D) => C = D
         /\ \A s \in U : \E C \in P : s \in C
<1>1. ASSUME NEW C \in P
      PROVE  Min(C) \in C /\ \A x \in C : Min(C) <= x
  <2>1. C \in SUBSET Nat /\ C # {}
    BY DEF IsPartition
  <2>2. PICK k \in C : \A j \in C : ~ (j < k)
    BY <2>1, F!LeastLemma
  <2>3. \A x \in C : k <= x
    BY <2>1, <2>2
  <2>. QED
    BY <2>3 DEF Min
<1>2. ASSUME NEW C \in P, NEW D \in P, Min(C) = Min(D)
      PROVE  C = D
  <2>1. Min(C) \in C /\ Min(D) \in D
    BY <1>1
  <2>. QED
    BY <1>2, <2>1 DEF IsPartition
<1>3. \A s \in U : \E C \in P : s \in C
  BY DEF IsPartition
<1>. QED
  BY <1>1, <1>2, <1>3

\* The states are numbers.
LEMMA StatesAreNumbers ==
  ASSUME NEW a, IsAutomaton(a)
  PROVE  States(a) \subseteq Nat
BY DEF States, IsAutomaton, pre, post

\* The arcs of the quotient are those between classes whose weight is not
\* null.
Between(C, l, D) == [src |-> Min(C), label |-> l, dst |-> Min(D)]

LEMMA QuotientLemma ==
  ASSUME NEW a, IsAutomaton(a), NEW P, IsPartition(P, States(a)), NEW q, q = Quotient(a, P)
  PROVE  /\ IsFiniteSet(Arcs(q))
         /\ \A b \in Arcs(q) : \E C, D \in P : b = Between(C, b.label, D)
         /\ \A C, D \in P : \A l : Between(C, l, D) \in Arcs(q) <=> To(a, Min(C), l, D) # zero
         /\ \A C, D \in P : \A l : Between(C, l, D) \in Arcs(q) =>
              q[Between(C, l, D)] = To(a, Min(C), l, D)
<1>. DEFINE kept == UNION {Out(a, Min(C)) : C \in P}
            image(x) == [x EXCEPT !.dst = Min(ClassOf(P, x.dst))]
            weight(b) == SumOver({x \in kept : image(x) = b}, LAMBDA x : a[x])
            all == {image(x) : x \in kept}
<1>1. q = [b \in {b \in all : weight(b) # zero} |-> weight(b)]
  BY DEF Quotient
<1>2. /\ \A C \in P : Min(C) \in C
      /\ \A C, D \in P : Min(C) = Min(D) => C = D
  BY StatesAreNumbers, MinLemma
<1>3. ASSUME NEW x \in kept
      PROVE  /\ x \in Arcs(a)
             /\ x \in [src : Nat, label : Label, dst : Nat]
             /\ \E C \in P : x.src = Min(C)
             /\ ClassOf(P, x.dst) \in P /\ x.dst \in ClassOf(P, x.dst)
             /\ image(x) = [src |-> x.src, label |-> x.label, dst |-> Min(ClassOf(P, x.dst))]
  <2>1. x \in Arcs(a) /\ \E C \in P : x.src = Min(C)
    BY DEF Out
  <2>2. x.dst \in States(a)
    BY <2>1, StatesFinite
  <2>3. ClassOf(P, x.dst) \in P /\ x.dst \in ClassOf(P, x.dst)
    BY <2>2, ClassLemma
  <2>4. x \in [src : Nat, label : Label, dst : Nat]
    BY <2>1 DEF IsAutomaton
  <2>5. image(x) = [src |-> x.src, label |-> x.label, dst |-> Min(ClassOf(P, x.dst))]
    BY <2>4
  <2>. QED
    BY <2>1, <2>3, <2>4, <2>5
<1>4. ASSUME NEW C \in P, NEW D \in P, NEW l
      PROVE  {x \in kept : image(x) = Between(C, l, D)} = ArcsTo(a, Min(C), l, D)
  <2>1. ASSUME NEW x \in kept, image(x) = Between(C, l, D)
        PROVE  x \in ArcsTo(a, Min(C), l, D)
    <3>1. x.src = Min(C) /\ x.label = l /\ Min(ClassOf(P, x.dst)) = Min(D)
      BY <1>3, <2>1 DEF Between
    <3>2. ClassOf(P, x.dst) = D
      BY <1>2, <1>3, <3>1
    <3>. QED
      BY <1>3, <3>1, <3>2 DEF ArcsTo
  <2>2. ASSUME NEW x \in ArcsTo(a, Min(C), l, D)
        PROVE  x \in kept /\ image(x) = Between(C, l, D)
    <3>1. x \in Arcs(a) /\ x.src = Min(C) /\ x.label = l /\ x.dst \in D
      BY DEF ArcsTo
    <3>2. x \in kept
      BY <3>1 DEF Out
    <3>4. ClassOf(P, x.dst) \in P /\ x.dst \in ClassOf(P, x.dst)
      BY <1>3, <3>2
    <3>5. \A A, B \in P : A = B \/ A \intersect B = {}
      BY DEF IsPartition
    <3>3. ClassOf(P, x.dst) = D
      <4>. HIDE DEF kept, image
      <4>. QED BY <3>1, <3>4, <3>5
    <3>. QED
      BY <1>3, <3>1, <3>2, <3>3 DEF Between
  <2>. QED
    BY <2>1, <2>2
<1>5. \A C, D \in P : \A l : weight(Between(C, l, D)) = To(a, Min(C), l, D)
  BY <1>4 DEF To, Sum
<1>6. ASSUME NEW b \in all
      PROVE  \E C, D \in P : b = Between(C, b.label, D)
  <2>1. PICK x \in kept : b = image(x)
    OBVIOUS
  <2>2. PICK C \in P : x.src = Min(C)
    BY <1>3
  <2>3. PICK D \in P : D = ClassOf(P, x.dst)
    BY <1>3
  <2>4. b = [src |-> Min(C), label |-> x.label, dst |-> Min(D)]
    BY <1>3, <2>1, <2>2, <2>3
  <2>5. b.label = x.label
    BY <2>4
  <2>. QED
    BY <2>4, <2>5 DEF Between
<1>7. ASSUME NEW C \in P, NEW D \in P, NEW l, To(a, Min(C), l, D) # zero
      PROVE  Between(C, l, D) \in all
  <2>1. ArcsTo(a, Min(C), l, D) # {}
    BY <1>7, SumEmpty DEF To
  <2>2. PICK x \in kept : image(x) = Between(C, l, D)
    BY <1>4, <2>1
  <2>. QED
    BY <2>2
<1>8. IsFiniteSet(all)
  <2>1. kept \subseteq Arcs(a)
    BY <1>3
  <2>2. IsFiniteSet(kept)
    BY <2>1, FS_Subset DEF IsAutomaton
  <2>. DEFINE f == [x \in kept |-> image(x)]
  <2>3. all = {f[x] : x \in kept}
    OBVIOUS
  <2>. HIDE DEF f
  <2>. QED
    BY <2>2, <2>3, ImageFinite
<1>. HIDE DEF all, weight
<1>9. IsFiniteSet(Arcs(q))
  BY <1>1, <1>8, FS_Subset DEF Arcs
<1>10. \A b : b \in Arcs(q) <=> b \in all /\ weight(b) # zero
  BY <1>1 DEF Arcs
<1>11. \A b \in Arcs(q) : q[b] = weight(b)
  BY <1>1, <1>10
<1>. QED
  BY <1>5, <1>6, <1>7, <1>9, <1>10, <1>11

\* States of one class have the same weight to each class, for all labels.
LEMMA AlikeTo ==
  ASSUME NEW a, NEW P, NEW s, NEW t, Alike(a, P, s, t), NEW l, NEW D \in P
  PROVE  To(a, s, l, D) = To(a, t, l, D)
<1>1. Labels(a, s) = Labels(a, t)
  BY AlikeLemma
<1>2. CASE l \in Labels(a, s)
  BY <1>2, AlikeLemma DEF To
<1>3. CASE l \notin Labels(a, s)
  <2>1. ArcsTo(a, s, l, D) = {} /\ ArcsTo(a, t, l, D) = {}
    BY <1>1, <1>3 DEF ArcsTo, Labels, Out
  <2>. QED BY <2>1 DEF To
<1>. QED
  BY <1>2, <1>3

\* What a letter leads to a class: the sum over the classes of what they have,
\* times what leads from each of their states to it.
LEMMA ReadClass ==
  ASSUME NEW K, IsSemiring(K), NEW a, IsAutomaton(a), Weighs(a, K),
         NEW P, IsPartition(P, States(a)), \A C \in P : \A s, t \in C : Alike(a, P, s, t),
         NEW v \in [States(a) -> K], NEW l, NEW D \in P
  PROVE  /\ Read(a, v, l) \in [States(a) -> K]
         /\ \A C \in P : Sum(C, v) \in K /\ To(a, Min(C), l, D) \in K
         /\ Sum(D, Read(a, v, l)) = Sum(P, [C \in P |-> Times(Sum(C, v), To(a, Min(C), l, D))])
<1>. DEFINE wt == Weigh(a, v)
<1>1. /\ IsMonoid(K)
      /\ IsFiniteSet(P) /\ IsFiniteSet(Arcs(a))
      /\ \A C \in P : IsFiniteSet(C) /\ C \subseteq States(a)
  BY PartitionFinite, SubclassLemma DEF IsSemiring, IsAutomaton
<1>2. \A b \in Arcs(a) : b.src \in States(a) /\ b.dst \in States(a) /\ a[b] \in K
  BY StatesFinite DEF Weighs
<1>3. \A b \in Arcs(a) : wt[b] = Times(v[b.src], a[b]) /\ wt[b] \in K
  BY <1>2 DEF Weigh, IsSemiring
<1>. HIDE DEF wt
<1>4. \A R \in SUBSET Arcs(a) : IsFiniteSet(R) /\ Sum(R, wt) \in K /\ Sum(R, a) \in K
  <2>. TAKE R \in SUBSET Arcs(a)
  <2>1. IsFiniteSet(R)
    BY <1>1, FS_Subset
  <2>2. (\A b \in R : wt[b] \in K) /\ (\A b \in R : a[b] \in K)
    BY <1>2, <1>3
  <2>3. Sum(R, wt) \in K
    BY <1>1, <2>1, <2>2, SumType
  <2>4. Sum(R, a) \in K
    BY <1>1, <2>1, <2>2, SumType
  <2>. QED
    BY <2>1, <2>3, <2>4
<1>5. Read(a, v, l) = [d \in States(a) |-> Sum(ReadTo(a, l, {d}), wt)]
  BY DEF Read, wt
<1>6. Read(a, v, l) \in [States(a) -> K]
  <2>1. \A d : ReadTo(a, l, {d}) \in SUBSET Arcs(a)
    BY DEF ReadTo
  <2>. QED
    BY <1>4, <1>5, <2>1
<1>7. Sum(D, Read(a, v, l)) = Sum(ReadTo(a, l, D), wt)
  <2>. DEFINE G == [d \in D |-> ReadTo(a, l, {d})]
              g == Read(a, v, l)
  <2>1. \A d \in D : IsFiniteSet(G[d]) /\ g[d] = Sum(G[d], wt) /\ \A b \in G[d] : wt[b] \in K
    BY <1>1, <1>3, <1>4, <1>5 DEF ReadTo
  <2>2. \A d, e \in D : d # e => G[d] \intersect G[e] = {}
    BY DEF ReadTo
  <2>3. UNION {G[d] : d \in D} = ReadTo(a, l, D)
    BY DEF ReadTo
  <2>. HIDE DEF G, g
  <2>4. Sum(UNION {G[d] : d \in D}, wt) = Sum(D, g)
    <3>1. IsMonoid(K) /\ IsFiniteSet(D)
      BY <1>1
    <3>. QED BY <2>1, <2>2, <3>1, SumGroup
  <2>. QED
    BY <2>3, <2>4 DEF g
<1>. DEFINE From(C) == {b \in ReadTo(a, l, D) : b.src \in C}
            f == [C \in P |-> Times(Sum(C, v), To(a, Min(C), l, D))]
<1>8. ASSUME NEW C \in P
      PROVE  /\ Sum(C, v) \in K /\ To(a, Min(C), l, D) \in K
             /\ Sum(From(C), wt) = f[C]
  <2>. DEFINE k == To(a, Min(C), l, D)
              G == [s \in C |-> ArcsTo(a, s, l, D)]
              g == [s \in C |-> Times(v[s], k)]
  <2>1. IsFiniteSet(C) /\ (\A s \in C : v[s] \in K) /\ Sum(C, v) \in K
    <3>1. IsFiniteSet(C) /\ \A s \in C : v[s] \in K
      BY <1>1
    <3>. QED BY <1>1, <3>1, SumType
  <2>2. \A s : ArcsTo(a, s, l, D) \in SUBSET Arcs(a)
    BY DEF ArcsTo
  <2>3. k \in K
    BY <1>4, <2>2 DEF To
  <2>4. Min(C) \in C
    BY StatesAreNumbers, MinLemma
  <2>. HIDE DEF k
  <2>5. ASSUME NEW s \in C
        PROVE  /\ IsFiniteSet(G[s]) /\ (\A b \in G[s] : wt[b] \in K)
               /\ g[s] = Sum(G[s], wt)
    <3>1. To(a, s, l, D) = k
      BY <2>4, AlikeTo DEF k
    <3>2. Sum(ArcsTo(a, s, l, D), wt) = Times(v[s], Sum(ArcsTo(a, s, l, D), a))
      <4>1. PICK U : U = ArcsTo(a, s, l, D)
        OBVIOUS
      <4>2. IsFiniteSet(U) /\ \A b \in U : a[b] \in K /\ wt[b] = Times(v[s], a[b])
        BY <1>2, <1>3, <1>4, <2>2, <4>1 DEF ArcsTo
      <4>3. v[s] \in K
        BY <2>1
      <4>4. Sum(U, wt) = Times(v[s], Sum(U, a))
        BY <4>2, <4>3, TimesSum
      <4>. QED
        BY <4>1, <4>4
    <3>3. g[s] = Times(v[s], k) /\ G[s] = ArcsTo(a, s, l, D)
      OBVIOUS
    <3>. QED
      BY <1>3, <1>4, <2>2, <3>1, <3>2, <3>3 DEF To
  <2>6. \A s, t \in C : s # t => G[s] \intersect G[t] = {}
    BY DEF ArcsTo
  <2>7. UNION {G[s] : s \in C} = From(C)
    BY DEF ArcsTo, ReadTo
  <2>8. \A s \in C : g[s] = Times(v[s], k)
    OBVIOUS
  <2>. HIDE DEF G, g
  <2>9. Sum(UNION {G[s] : s \in C}, wt) = Sum(C, g)
    BY <1>1, <2>1, <2>5, <2>6, SumGroup
  <2>10. Sum(C, g) = Times(Sum(C, v), k)
    BY <2>1, <2>3, <2>8, SumTimes
  <2>. QED
    BY <2>1, <2>3, <2>7, <2>9, <2>10 DEF k
<1>9. Sum(ReadTo(a, l, D), wt) = Sum(P, f)
  <2>. DEFINE G == [C \in P |-> From(C)]
  <2>1. \A C \in P : IsFiniteSet(G[C]) /\ \A b \in G[C] : wt[b] \in K
    BY <1>3, <1>4 DEF ReadTo
  <2>2. \A B, C \in P : B # C => G[B] \intersect G[C] = {}
    BY DEF IsPartition
  <2>3. UNION {G[C] : C \in P} = ReadTo(a, l, D)
    <3>1. \A b \in ReadTo(a, l, D) : \E C \in P : b.src \in C
      BY <1>2 DEF ReadTo, IsPartition
    <3>. QED BY <3>1
  <2>4. \A C \in P : f[C] = Sum(G[C], wt)
    BY <1>8
  <2>. HIDE DEF G, f
  <2>5. Sum(UNION {G[C] : C \in P}, wt) = Sum(P, f)
    BY <1>1, <2>1, <2>2, <2>4, SumGroup
  <2>. QED
    BY <2>3, <2>5
<1>. QED
  BY <1>6, <1>7, <1>8, <1>9

\* The states of the quotient keep what their classes have.
Stands(a, P, v, u) ==
  \A C \in P : Min(C) \in States(Quotient(a, P)) => u[Min(C)] = Sum(C, v)

\* A letter more.
LEMMA StandsStep ==
  ASSUME NEW K, IsSemiring(K), NEW a, IsAutomaton(a), Weighs(a, K),
         NEW P, IsPartition(P, States(a)), \A C \in P : \A s, t \in C : Alike(a, P, s, t),
         NEW v \in [States(a) -> K], NEW u, Stands(a, P, v, u), NEW l
  PROVE  Stands(a, P, Read(a, v, l), Read(Quotient(a, P), u, l))
<1>. DEFINE q == Quotient(a, P)
<1>. SUFFICES ASSUME NEW D \in P, Min(D) \in States(q)
              PROVE  Read(q, u, l)[Min(D)] = Sum(D, Read(a, v, l))
  BY DEF Stands
<1>. DEFINE f == [C \in P |-> Times(Sum(C, v), To(a, Min(C), l, D))]
            L == {C \in P : To(a, Min(C), l, D) # zero}
            h == [C \in P |-> Between(C, l, D)]
            g == Weigh(q, u)
<1>1. /\ \A C \in P : Sum(C, v) \in K /\ To(a, Min(C), l, D) \in K
      /\ Sum(D, Read(a, v, l)) = Sum(P, f)
  <2>. HIDE DEF q, L, h, g
  <2>1. \A C \in P : Sum(C, v) \in K /\ To(a, Min(C), l, D) \in K
    BY ReadClass
  <2>2. Sum(D, Read(a, v, l)) = Sum(P, [C \in P |-> Times(Sum(C, v), To(a, Min(C), l, D))])
    BY ReadClass
  <2>. QED BY <2>1, <2>2
<1>2. /\ IsFiniteSet(Arcs(q))
      /\ \A b \in Arcs(q) : \E C, E \in P : b = Between(C, b.label, E)
      /\ \A C \in P : Between(C, l, D) \in Arcs(q) <=> To(a, Min(C), l, D) # zero
      /\ \A C \in P : Between(C, l, D) \in Arcs(q) => q[Between(C, l, D)] = To(a, Min(C), l, D)
  BY QuotientLemma
<1>. HIDE DEF q
<1>3. \A C, E \in P : Min(C) = Min(E) => C = E
  BY StatesAreNumbers, MinLemma
<1>4. ReadTo(q, l, {Min(D)}) = {h[C] : C \in L}
  <2>1. ASSUME NEW b \in ReadTo(q, l, {Min(D)})
        PROVE  \E C \in L : b = h[C]
    <3>1. b \in Arcs(q) /\ b.label = l /\ b.dst = Min(D)
      BY DEF ReadTo
    <3>2. PICK C \in P, E \in P : b = Between(C, l, E)
      BY <1>2, <3>1
    <3>3. E = D
      BY <1>3, <3>1, <3>2 DEF Between
    <3>. QED
      BY <1>2, <3>1, <3>2, <3>3
  <2>2. ASSUME NEW C \in L
        PROVE  h[C] \in ReadTo(q, l, {Min(D)})
    BY <1>2 DEF ReadTo, Between
  <2>. QED
    BY <2>1, <2>2
<1>5. ASSUME NEW C \in L
      PROVE  g[h[C]] = f[C] /\ f[C] \in K
  <2>1. h[C] = Between(C, l, D) /\ h[C] \in Arcs(q) /\ q[h[C]] = To(a, Min(C), l, D)
    BY <1>2
  <2>2. h[C].src = Min(C)
    BY <2>1 DEF Between
  <2>3. Min(C) \in States(q)
    BY <2>1, <2>2 DEF States
  <2>4. u[Min(C)] = Sum(C, v)
    BY <2>3 DEF Stands, q
  <2>5. g[h[C]] = Times(u[h[C].src], q[h[C]])
    BY <2>1 DEF Weigh
  <2>6. f[C] = Times(Sum(C, v), To(a, Min(C), l, D))
    OBVIOUS
  <2>7. \A x, y \in K : Times(x, y) \in K
    BY DEF IsSemiring
  <2>. QED
    BY <1>1, <2>1, <2>2, <2>4, <2>5, <2>6, <2>7
<1>6. \A C \in P \ L : f[C] = zero
  <2>1. \A x \in K : Times(x, zero) = zero
    BY DEF IsSemiring
  <2>. QED
    BY <1>1, <2>1
<1>7. \A C, E \in L : h[C] = h[E] => C = E
  BY <1>3 DEF Between
<1>8. IsMonoid(K) /\ IsFiniteSet(P) /\ IsFiniteSet(L) /\ L \in SUBSET P
  BY PartitionFinite, FS_Subset DEF IsSemiring
<1>9. Read(q, u, l)[Min(D)] = Sum(ReadTo(q, l, {Min(D)}), g)
  BY DEF Read, q
<1>. HIDE DEF f, g, h, L
<1>10. Sum({h[C] : C \in L}, g) = Sum(L, f)
  BY <1>5, <1>7, <1>8, SumMoved
<1>11. Sum(P, f) = Sum(L, f)
  BY <1>5, <1>6, <1>8, SumNull
<1>. QED
  BY <1>1, <1>4, <1>9, <1>10, <1>11 DEF q

\* At first, pre has everything.
LEMMA StandsInit ==
  ASSUME NEW K, IsSemiring(K), NEW a, IsAutomaton(a),
         NEW P, IsPartition(P, States(a)), NEW word
  PROVE  /\ After(a, word, 0) \in [States(a) -> K]
         /\ Stands(a, P, After(a, word, 0), After(Quotient(a, P), word, 0))
<1>. DEFINE q == Quotient(a, P)
            v == After(a, word, 0)
            u == After(q, word, 0)
<1>1. IsFiniteSet(Arcs(a)) /\ IsFiniteSet(Arcs(q))
  BY QuotientLemma DEF IsAutomaton
<1>. HIDE DEF q
<1>2. v = [s \in States(a) |-> IF s = pre THEN one ELSE zero]
  BY <1>1, AfterLemma
<1>3. u = [s \in States(q) |-> IF s = pre THEN one ELSE zero]
  BY <1>1, AfterLemma
<1>4. IsMonoid(K) /\ one \in K /\ zero \in K
  BY DEF IsSemiring, IsMonoid
<1>. HIDE DEF v, u
<1>5. ASSUME NEW C \in P, Min(C) \in States(q)
      PROVE  u[Min(C)] = Sum(C, v)
  <2>1. IsFiniteSet(C) /\ C \subseteq States(a)
    BY PartitionFinite, SubclassLemma
  <2>2. Min(C) \in C /\ \A x \in C : Min(C) <= x
    BY StatesAreNumbers, MinLemma
  <2>3. C \subseteq Nat
    BY <2>1, StatesAreNumbers
  <2>4. CASE pre \in C
    <3>0. Min(C) \in Nat /\ Min(C) <= pre
      BY <2>2, <2>3, <2>4
    <3>1. Min(C) = pre
      BY <3>0 DEF pre
    <3>2. v[pre] = one /\ \A s \in C \ {pre} : v[s] = zero
      BY <1>2, <2>1, <2>4
    <3>3. Sum(C, v) = Sum({pre}, v)
      BY <1>4, <2>1, <2>4, <3>2, SumNull
    <3>4. Sum({pre}, v) = v[pre]
      BY <1>4, <3>2, SumOne
    <3>. QED
      BY <1>3, <1>5, <3>1, <3>2, <3>3, <3>4
  <2>5. CASE pre \notin C
    <3>1. \A s \in C : v[s] = zero
      BY <1>2, <2>1, <2>5
    <3>2. Sum(C, v) = zero
      BY <1>4, <2>1, <3>1, SumZero
    <3>. QED
      BY <1>3, <1>5, <2>2, <2>5, <3>2
  <2>. QED
    BY <2>4, <2>5
<1>6. v \in [States(a) -> K]
  BY <1>2, <1>4
<1>. QED
  BY <1>5, <1>6 DEF Stands, q, v, u

\* So it is after any number of letters.
LEMMA StandsLemma ==
  ASSUME NEW K, IsSemiring(K), NEW a, IsAutomaton(a), Weighs(a, K),
         NEW P, IsPartition(P, States(a)), \A C \in P : \A s, t \in C : Alike(a, P, s, t),
         NEW word, NEW n \in Nat
  PROVE  /\ After(a, word, n) \in [States(a) -> K]
         /\ Stands(a, P, After(a, word, n), After(Quotient(a, P), word, n))
<1>. DEFINE Good == {m \in Nat : /\ After(a, word, m) \in [States(a) -> K]
                                 /\ Stands(a, P, After(a, word, m), After(Quotient(a, P), word, m))}
<1>1. 0 \in Good
  BY StandsInit
<1>2. ASSUME NEW m \in Nat, m \in Good
      PROVE  m + 1 \in Good
  <2>. DEFINE l == Enclosed(word)[m + 1]
              v == After(a, word, m)
              u == After(Quotient(a, P), word, m)
  <2>1. IsFiniteSet(Arcs(a)) /\ IsFiniteSet(Arcs(Quotient(a, P)))
    BY QuotientLemma DEF IsAutomaton
  <2>2. After(a, word, m + 1) = Read(a, v, l)
    BY <2>1, AfterLemma
  <2>3. After(Quotient(a, P), word, m + 1) = Read(Quotient(a, P), u, l)
    BY <2>1, AfterLemma
  <2>4. v \in [States(a) -> K] /\ Stands(a, P, v, u)
    BY <1>2
  <2>. HIDE DEF l, v, u
  <2>5. Read(a, v, l) \in [States(a) -> K]
    <3>1. PICK D \in P : TRUE
      BY StatesFinite DEF IsPartition
    <3>. QED BY <2>4, <3>1, ReadClass
  <2>6. Stands(a, P, Read(a, v, l), Read(Quotient(a, P), u, l))
    BY <2>4, StandsStep
  <2>. QED
    BY <2>2, <2>3, <2>5, <2>6
<1>. HIDE DEF Good
<1>3. Nat \subseteq Good
  BY <1>1, <1>2, NaturalInduction
<1>. QED
  BY <1>3 DEF Good

\* After the last letter, only post may have something.
LEMMA LastLemma ==
  ASSUME NEW K, IsSemiring(K), NEW a, IsAutomaton(a), Weighs(a, K), NEW word \in Seq(Letter),
         \A n \in Nat : After(a, word, n) \in [States(a) -> K]
  PROVE  \A d \in States(a) \ {post} : After(a, word, Len(word) + 2)[d] = zero
<1>. DEFINE n == Len(word)
            V(m) == After(a, word, m)
            l(m) == Enclosed(word)[m + 1]
<1>1. n \in Nat /\ n + 1 \in Nat /\ n + 2 = (n + 1) + 1
  OBVIOUS
<1>2. l(n + 1) = Special
  <2>1. Len(Enclosed(word)) = n + 2 /\ Enclosed(word)[n + 2] = Special
    BY DEF Enclosed
  <2>. QED BY <1>1, <2>1
<1>3. \A m \in Nat : V(m + 1) = Read(a, V(m), l(m))
  BY AfterLemma DEF IsAutomaton
<1>4. IsFiniteSet(Arcs(a)) /\ IsMonoid(K) /\ zero \in K
  BY DEF IsAutomaton, IsSemiring, IsMonoid
<1>. HIDE DEF V, n, l
<1>5. ASSUME NEW m \in Nat, NEW d \in States(a)
      PROVE  /\ V(m + 1)[d] = Sum(ReadTo(a, l(m), {d}), Weigh(a, V(m)))
             /\ IsFiniteSet(ReadTo(a, l(m), {d}))
  <2>1. ReadTo(a, l(m), {d}) \subseteq Arcs(a)
    BY DEF ReadTo
  <2>. QED
    BY <1>3, <1>4, <2>1, FS_Subset DEF Read
<1>6. V(n + 1)[pre] = zero
  <2>1. ReadTo(a, l(n), {pre}) = {}
    BY DEF ReadTo, IsAutomaton
  <2>2. pre \in States(a)
    BY StatesFinite
  <2>. QED
    BY <1>1, <1>5, <2>1, <2>2, SumEmpty
<1>7. ASSUME NEW d \in States(a) \ {post}
      PROVE  V(n + 2)[d] = zero
  <2>1. ASSUME NEW b \in ReadTo(a, l(n + 1), {d})
        PROVE  Weigh(a, V(n + 1))[b] = zero
    <3>1. b \in Arcs(a) /\ b.label = Special /\ b.dst # post
      BY <1>2 DEF ReadTo
    <3>2. b.src = pre
      BY <3>1 DEF IsAutomaton
    <3>3. Weigh(a, V(n + 1))[b] = Times(zero, a[b])
      BY <1>6, <3>1, <3>2 DEF Weigh
    <3>4. a[b] \in K /\ \A x \in K : Times(zero, x) = zero
      BY <3>1 DEF Weighs, IsSemiring
    <3>. QED
      BY <3>3, <3>4
  <2>2. IsFiniteSet(ReadTo(a, l(n + 1), {d})) /\ V(n + 2)[d] = Sum(ReadTo(a, l(n + 1), {d}), Weigh(a, V(n + 1)))
    BY <1>1, <1>5
  <2>. QED
    BY <1>4, <2>1, <2>2, SumZero
<1>. QED
  BY <1>7 DEF V, n

\* An automaton in which no arc leaves pre has no word.
LEMMA NoInitialLemma ==
  ASSUME NEW K, IsSemiring(K), NEW a, IsAutomaton(a), Weighs(a, K), NEW word \in Seq(Letter),
         \A b \in Arcs(a) : b.src # pre
  PROVE  After(a, word, Len(word) + 2)[post] = zero
<1>. DEFINE V(m) == After(a, word, m)
            l(m) == Enclosed(word)[m + 1]
            Good == {m \in Nat : \A d \in States(a) : V(m + 1)[d] = zero}
<1>2. IsFiniteSet(Arcs(a)) /\ IsMonoid(K) /\ zero \in K
  BY DEF IsAutomaton, IsSemiring, IsMonoid
<1>1. \A m \in Nat : V(m + 1) = Read(a, V(m), l(m))
  BY <1>2, AfterLemma
<1>3. V(0) = [s \in States(a) |-> IF s = pre THEN one ELSE zero]
  BY <1>2, AfterLemma
<1>. HIDE DEF V, l
<1>4. ASSUME NEW m \in Nat, \A b \in Arcs(a) : V(m)[b.src] = zero
      PROVE  \A d \in States(a) : V(m + 1)[d] = zero
  <2>. TAKE d \in States(a)
  <2>1. ReadTo(a, l(m), {d}) \subseteq Arcs(a)
    BY DEF ReadTo
  <2>2. \A b \in Arcs(a) : Weigh(a, V(m))[b] = zero
    <3>1. \A b \in Arcs(a) : a[b] \in K
      BY DEF Weighs
    <3>2. \A x \in K : Times(zero, x) = zero
      BY DEF IsSemiring
    <3>. QED
      BY <1>4, <3>1, <3>2 DEF Weigh
  <2>3. IsFiniteSet(ReadTo(a, l(m), {d}))
    BY <1>2, <2>1, FS_Subset
  <2>4. V(m + 1)[d] = Sum(ReadTo(a, l(m), {d}), Weigh(a, V(m)))
    BY <1>1 DEF Read
  <2>. QED
    BY <1>2, <2>1, <2>2, <2>3, <2>4, SumZero
<1>5. 0 \in Good
  <2>1. \A b \in Arcs(a) : V(0)[b.src] = zero
    BY <1>3, StatesFinite
  <2>. QED BY <1>4, <2>1
<1>6. ASSUME NEW m \in Nat, m \in Good
      PROVE  m + 1 \in Good
  <2>1. \A b \in Arcs(a) : V(m + 1)[b.src] = zero
    BY <1>6, StatesFinite
  <2>2. m + 1 \in Nat
    OBVIOUS
  <2>. QED BY <1>4, <2>1, <2>2
<1>. HIDE DEF Good
<1>7. Nat \subseteq Good
  BY <1>5, <1>6, NaturalInduction
<1>8. Len(word) + 1 \in Good /\ (Len(word) + 1) + 1 = Len(word) + 2
  BY <1>7
<1>. QED
  BY <1>8, StatesFinite DEF Good, V

\* The quotient by a stable partition gives every word its weight.
LEMMA QuotientSeries ==
  ASSUME NEW K, IsSemiring(K), NEW a, IsAutomaton(a), Weighs(a, K),
         NEW P, IsPartition(P, States(a)), \A C \in P : \A s, t \in C : Alike(a, P, s, t),
         NEW word \in Seq(Letter)
  PROVE  Evaluate(Quotient(a, P), word) = Evaluate(a, word)
<1>. DEFINE q == Quotient(a, P)
            n == Len(word) + 1
            v == After(a, word, n + 1)
            u == After(q, word, n + 1)
<1>1. n \in Nat /\ n + 1 \in Nat /\ n + 1 = Len(word) + 2
  OBVIOUS
<1>2. /\ IsMonoid(K) /\ zero \in K
      /\ IsFiniteSet(Arcs(a))
      /\ IsFiniteSet(Arcs(q))
      /\ \A b \in Arcs(q) : \E C, D \in P : b = Between(C, b.label, D)
  <2>. HIDE DEF n, v, u
  <2>1. IsMonoid(K) /\ zero \in K
    BY DEF IsSemiring, IsMonoid
  <2>2. IsFiniteSet(Arcs(a))
    BY DEF IsAutomaton
  <2>3. IsFiniteSet(Arcs(q)) /\ \A b \in Arcs(q) : \E C, D \in P : b = Between(C, b.label, D)
    BY QuotientLemma
  <2>. QED BY <2>1, <2>2, <2>3
<1>3. \A m \in Nat : After(a, word, m) \in [States(a) -> K]
  BY StandsLemma
<1>4. Stands(a, P, v, u)
  BY <1>1, StandsLemma
<1>5. Evaluate(a, word) = v[post] /\ Evaluate(q, word) = u[post]
  BY <1>1, EvaluateLemma
<1>6. \A d \in States(a) \ {post} : v[d] = zero
  BY <1>1, <1>3, LastLemma
<1>7. post \in States(a) /\ pre \in States(a) /\ post \in States(q) /\ v[post] \in K
  BY <1>1, <1>3, StatesFinite DEF States
<1>8. u = Read(q, After(q, word, n), Enclosed(word)[n + 1])
  BY <1>1, <1>2, AfterLemma
<1>. HIDE DEF q, n, v, u
<1>9. PICK C \in P : post \in C
  BY <1>7 DEF IsPartition
<1>10. /\ IsFiniteSet(C) /\ C \subseteq States(a) /\ C \subseteq Nat
       /\ Min(C) \in C /\ \A x \in C : Min(C) <= x
  BY PartitionFinite, SubclassLemma, StatesAreNumbers, MinLemma
<1>11. CASE pre \notin C
  <2>1. Min(C) \in Nat /\ Min(C) # pre /\ Min(C) <= post
    BY <1>9, <1>10, <1>11
  <2>2. Min(C) = post
    BY <2>1 DEF pre, post
  <2>3. u[post] = Sum(C, v)
    BY <1>4, <1>7, <2>2 DEF Stands, q
  <2>4. Sum(C, v) = Sum({post}, v)
    <3>1. \A s \in C \ {post} : v[s] = zero
      BY <1>6, <1>10
    <3>2. {post} \in SUBSET C /\ \A x \in {post} : v[x] \in K
      BY <1>7, <1>9
    <3>3. PICK T \in SUBSET C : T = {post}
      BY <3>2
    <3>4. Sum(C, v) = Sum(T, v)
      <4>1. (\A x \in T : v[x] \in K) /\ (\A x \in C \ T : v[x] = zero) /\ IsFiniteSet(C) /\ IsMonoid(K)
        BY <1>2, <1>10, <3>1, <3>2, <3>3
      <4>. QED BY <4>1, SumNull
    <3>. QED BY <3>3, <3>4
  <2>5. Sum({post}, v) = v[post]
    BY <1>2, <1>7, SumOne
  <2>. QED
    BY <1>5, <2>3, <2>4, <2>5 DEF q
<1>12. CASE pre \in C
  <2>1. Labels(a, pre) = Labels(a, post)
    BY <1>9, <1>12, AlikeLemma
  <2>2. \A b \in Arcs(a) : b.src # pre
    BY <2>1 DEF Labels, Out, IsAutomaton
  <2>3. v[post] = zero
    BY <1>1, <2>2, NoInitialLemma DEF v
  <2>4. \A D \in P : Min(D) # post
    <3>. SUFFICES ASSUME NEW D \in P, Min(D) = post PROVE FALSE
      OBVIOUS
    <3>1. post \in D /\ \A x \in D : post <= x
      BY StatesAreNumbers, MinLemma
    <3>2. D = C
      BY <1>9, <3>1 DEF IsPartition
    <3>. QED
      BY <1>12, <3>1, <3>2 DEF pre, post
  <2>5. \A x : ReadTo(q, x, {post}) = {}
    BY <1>2, <2>4 DEF ReadTo, Between
  <2>6. u[post] = zero
    BY <1>7, <1>8, <2>5, SumEmpty DEF Read
  <2>. QED
    BY <1>5, <2>3, <2>6 DEF q
<1>. QED
  BY <1>11, <1>12

-----------------------------------------------------------------------------
(* What the modules of the algorithms define is what this one defines. *)

\* Cardinalities.
LEMMA SameCardinality ==
  /\ \A T : M!Cardinality(T) = Cardinality(T)
  /\ \A T : S!Cardinality(T) = Cardinality(T)
  /\ \A T : W!Cardinality(T) = Cardinality(T)
  /\ \A T : H!Cardinality(T) = Cardinality(T)
BY DEF M!Cardinality, S!Cardinality, W!Cardinality, H!Cardinality, Cardinality

\* What Moore's algorithm reads of the automaton.
LEMMA SameMoore ==
  /\ \A a : M!IsTrim(a) <=> IsTrim(a)
  /\ \A a : M!IsDeterministic(a) <=> IsDeterministic(a)
  /\ \A a : M!States(a) = States(a)
  /\ \A a : M!Finals(a) = Finals(a)
  /\ \A P, Q : M!IsPartition(P, Q) <=> IsPartition(P, Q)
  /\ M!pre = pre /\ M!post = post
<1>1. \A a : M!States(a) = States(a)
  BY DEF M!States, States, M!Arcs, Arcs, M!pre, pre, M!post, post
<1>2. \A a : M!Finals(a) = Finals(a)
  BY <1>1 DEF M!Finals, Finals, M!Successors, Successors, M!Out, Out, M!Arcs, Arcs, M!post, post
<1>3. \A a : M!IsTrim(a) <=> IsTrim(a)
  BY DEF M!States, States, M!Arcs, Arcs, M!pre, pre, M!post, post, M!Out, Out, M!IsTrim, IsTrim, M!Reach, Reach, FoldSet, MapThenFoldSet, M!FoldSet, M!MapThenFoldSet
<1>4. \A a : M!IsDeterministic(a) <=> IsDeterministic(a)
  BY DEF M!IsDeterministic, IsDeterministic, M!Arcs, Arcs, M!pre, pre
<1>5. \A P, Q : M!IsPartition(P, Q) <=> IsPartition(P, Q)
  BY DEF M!IsPartition, IsPartition
<1>. QED
  BY <1>1, <1>2, <1>3, <1>4, <1>5 DEF M!pre, pre, M!post, post

\* The parts of a class are those of equal classes out.
LEMMA MooreParts ==
  ASSUME NEW l
  PROVE  M!Parts(l) = KeyParts(class_to_set[c], [s \in class_to_set[c] |-> M!OutClass(s, l)])
BY DEF M!Parts, M!Cluster, KeyParts

\* Signatures.
LEMMA SameSignature ==
  /\ \A a, P, s : S!Signature(a, P, s) = Signature(a, P, s)
  /\ \A a, P, s : W!Signature(a, P, s) = Signature(a, P, s)
  /\ \A a, P, s : Promise!Signature(a, P, s) = Signature(a, P, s)
<1>1. \A a, P, s : S!Signature(a, P, s) = Signature(a, P, s)
  BY DEF S!Signature, Signature, S!SumOver, SumOver, S!MapThenFoldSet, MapThenFoldSet, S!Out, Out, S!Arcs, Arcs
<1>2. \A a, P, s : W!Signature(a, P, s) = Signature(a, P, s)
  BY DEF W!Signature, Signature, W!SumOver, SumOver, W!MapThenFoldSet, MapThenFoldSet, W!Out, Out, W!Arcs, Arcs
<1>3. \A a, P, s : Promise!Signature(a, P, s) = Signature(a, P, s)
  BY DEF Promise!Signature, Signature, Promise!SumOver, SumOver, Promise!MapThenFoldSet, MapThenFoldSet, Promise!Out, Out, Promise!Arcs, Arcs
<1>. QED
  BY <1>1, <1>2, <1>3

\* Both variants with signatures are one algorithm.
LEMMA SameSignatures ==
  /\ \A C : W!Parts(C) = S!Parts(C)
  /\ \A C : W!Split(C) <=> S!Split(C)
  /\ \A C : W!Skip(C) <=> S!Skip(C)
  /\ W!Next <=> S!Next
  /\ W!done <=> S!done
  /\ W!TypeOK <=> S!TypeOK
<1>1. \A C : W!Parts(C) = S!Parts(C)
  <2>1. \A C, P : {{t \in C : W!Signature(aut, P, t) = W!Signature(aut, P, s)} : s \in C}
               = {{t \in C : S!Signature(aut, P, t) = S!Signature(aut, P, s)} : s \in C}
    BY SameSignature
  <2>. QED
    BY <2>1 DEF W!Parts, S!Parts, W!Cluster, S!Cluster
<1>2. \A C : W!Split(C) <=> S!Split(C)
  BY <1>1, SameCardinality DEF W!Split, S!Split
<1>3. \A C : W!Skip(C) <=> S!Skip(C)
  BY <1>1, SameCardinality DEF W!Skip, S!Skip
<1>4. W!NextPass <=> S!NextPass
  BY DEF W!NextPass, S!NextPass
<1>5. W!Next <=> S!Next
  BY <1>2, <1>3, <1>4 DEF W!Next, S!Next
<1>6. W!done <=> S!done
  BY DEF W!done, S!done
<1>7. W!TypeOK <=> S!TypeOK
  <2>1. \A P, Q : W!IsPartition(P, Q) <=> S!IsPartition(P, Q)
    BY DEF W!IsPartition, S!IsPartition
  <2>2. W!States(aut) = S!States(aut)
    BY DEF W!States, S!States, W!Arcs, S!Arcs, W!pre, S!pre, W!post, S!post
  <2>. QED
    BY <2>1, <2>2, SameCardinality DEF W!TypeOK, S!TypeOK
<1>. QED
  BY <1>1, <1>2, <1>3, <1>5, <1>6, <1>7

\* The parts of a class are those of equal signatures.
LEMMA SignatureParts ==
  ASSUME NEW C
  PROVE  S!Parts(C) = KeyParts(C, [s \in C |-> Signature(aut, partition, s)])
<1>. DEFINE key == [s \in C |-> Signature(aut, partition, s)]
<1>1. S!Parts(C) = {{t \in C : Signature(aut, partition, t) = Signature(aut, partition, s)} : s \in C}
  <2>. HIDE DEF Signature
  <2>1. \A P : {{t \in C : S!Signature(aut, P, t) = S!Signature(aut, P, s)} : s \in C}
            = {{t \in C : Signature(aut, P, t) = Signature(aut, P, s)} : s \in C}
    BY SameSignature
  <2>. QED
    BY <2>1 DEF S!Parts, S!Cluster
<1>2. \A s \in C : {t \in C : Signature(aut, partition, t) = Signature(aut, partition, s)}
                  = {t \in C : key[t] = key[s]}
  OBVIOUS
<1>. HIDE DEF key
<1>3. S!Parts(C) = {{t \in C : key[t] = key[s]} : s \in C}
  BY <1>1, <1>2
<1>. QED
  BY <1>3 DEF KeyParts, key

\* What the other algorithms and the promise read.
LEMMA SameOthers ==
  /\ \A a : S!IsTrim(a) <=> IsTrim(a)
  /\ \A a : W!IsTrim(a) <=> IsTrim(a)
  /\ \A a : S!States(a) = States(a)
  /\ \A a : W!States(a) = States(a)
  /\ \A a : H!States(a) = States(a)
  /\ \A a : Promise!States(a) = States(a)
  /\ \A P, Q : S!IsPartition(P, Q) <=> IsPartition(P, Q)
  /\ \A P, Q : H!IsPartition(P, Q) <=> IsPartition(P, Q)
  /\ \A P, Q : Promise!IsPartition(P, Q) <=> IsPartition(P, Q)
  /\ \A P, Q : Promise!Refines(P, Q) <=> Refines(P, Q)
  /\ \A P, s : Promise!ClassOf(P, s) = ClassOf(P, s)
  /\ \A a, P : Promise!Stable(a, P) <=> Stable(a, P)
  /\ H!post = post /\ Promise!pre = pre /\ Promise!post = post
<1>1. \A a : S!IsTrim(a) <=> IsTrim(a)
  BY DEF S!States, States, S!Arcs, Arcs, S!pre, pre, S!post, post, S!Out, Out, S!IsTrim, IsTrim,
         S!Reach, Reach, FoldSet, MapThenFoldSet, S!FoldSet, S!MapThenFoldSet
<1>2. \A a : W!IsTrim(a) <=> IsTrim(a)
  BY DEF W!States, States, W!Arcs, Arcs, W!pre, pre, W!post, post, W!Out, Out, W!IsTrim, IsTrim,
         W!Reach, Reach, FoldSet, MapThenFoldSet, W!FoldSet, W!MapThenFoldSet
<1>3. /\ \A a : S!States(a) = States(a)
      /\ \A a : W!States(a) = States(a)
      /\ \A a : H!States(a) = States(a)
      /\ \A a : Promise!States(a) = States(a)
  BY DEF S!States, W!States, H!States, Promise!States, States, S!Arcs, W!Arcs, H!Arcs, Promise!Arcs, Arcs,
         S!pre, W!pre, H!pre, Promise!pre, pre, S!post, W!post, H!post, Promise!post, post
<1>4. /\ \A P, Q : S!IsPartition(P, Q) <=> IsPartition(P, Q)
      /\ \A P, Q : H!IsPartition(P, Q) <=> IsPartition(P, Q)
      /\ \A P, Q : Promise!IsPartition(P, Q) <=> IsPartition(P, Q)
  BY DEF S!IsPartition, H!IsPartition, Promise!IsPartition, IsPartition
<1>5. /\ \A P, Q : Promise!Refines(P, Q) <=> Refines(P, Q)
      /\ \A P, s : Promise!ClassOf(P, s) = ClassOf(P, s)
  BY DEF Promise!Refines, Refines, Promise!ClassOf, ClassOf
<1>6. \A a, P : Promise!Stable(a, P) <=> Stable(a, P)
  BY SameSignature DEF Promise!Stable, Stable
<1>. QED
  BY <1>1, <1>2, <1>3, <1>4, <1>5, <1>6 DEF H!post, Promise!pre, Promise!post, pre, post

-----------------------------------------------------------------------------
(* Moore's algorithm. *)

\* The types of the variables of Moore's algorithm.
MTypes ==
  /\ IsAutomaton(aut) /\ IsDeterministic(aut) /\ IsTrim(aut)
  /\ Numbers(class_to_set, States(aut))
  /\ c \in 1 .. Len(class_to_set) + 1
  /\ go_on \in BOOLEAN

\* The classes that a pass without a split has visited need none.
MVisited ==
  ~ go_on =>
    \A k \in 1 .. Len(class_to_set) : k < c =>
      \A l \in Letter : \A D \in Range(class_to_set) : \A s, t \in class_to_set[k] :
        Leads(aut, s, l, D) => Leads(aut, t, l, D)

\* The inductive invariant of Moore's algorithm.
MooreInv == MTypes /\ Uniform(aut, Range(class_to_set)) /\ MVisited

\* States that a letter leads to different classes have different numbers.
LEMMA OutClassLemma ==
  ASSUME IsAutomaton(aut), IsDeterministic(aut), Numbers(class_to_set, States(aut)),
         NEW s, NEW l
  PROVE  /\ M!OutClass(s, l) \in 0 .. Len(class_to_set)
         /\ \A k \in 1 .. Len(class_to_set) :
              Leads(aut, s, l, class_to_set[k]) <=> M!OutClass(s, l) = k
<1>. DEFINE n == Len(class_to_set)
            dsts == {a.dst : a \in {b \in Out(aut, s) : b.label = l}}
<1>1. M!OutClass(s, l) = IF dsts = {} THEN 0 ELSE CHOOSE k \in 1 .. n : dsts \subseteq class_to_set[k]
  BY DEF M!OutClass, M!class_invalid, M!num_classes, M!Out, Out, M!Arcs, Arcs
<1>2. /\ class_to_set \in Seq(SUBSET States(aut)) /\ n \in Nat
      /\ \A i, j \in 1 .. n : class_to_set[i] = class_to_set[j] => i = j
      /\ IsPartition(Range(class_to_set), States(aut))
      /\ Range(class_to_set) = {class_to_set[i] : i \in 1 .. n}
  BY RangeLemma DEF Numbers
<1>3. CASE dsts = {}
  <2>1. \A C : ~ Leads(aut, s, l, C)
    BY <1>3 DEF Leads, Out
  <2>. QED
    BY <1>1, <1>2, <1>3, <2>1
<1>4. CASE dsts # {}
  <2>1. PICK b \in Arcs(aut) : b.src = s /\ b.label = l
    BY <1>4 DEF Out
  <2>2. dsts = {b.dst}
    <3>1. \A d \in Arcs(aut) : d.src = s /\ d.label = l => d = b
      BY <2>1 DEF IsDeterministic
    <3>. QED
      BY <2>1, <3>1 DEF Out
  <2>3. \A C : Leads(aut, s, l, C) <=> b.dst \in C
    <3>1. \A d \in Arcs(aut) : d.src = s /\ d.label = l => d = b
      BY <2>1 DEF IsDeterministic
    <3>. QED
      BY <2>1, <3>1 DEF Leads
  <2>4. b.dst \in States(aut)
    BY StatesFinite
  <2>5. PICK i \in 1 .. n : b.dst \in class_to_set[i]
    BY <1>2, <2>4 DEF IsPartition
  <2>6. \A k \in 1 .. n : b.dst \in class_to_set[k] <=> k = i
    <3>1. ASSUME NEW k \in 1 .. n, b.dst \in class_to_set[k] PROVE k = i
      <4>1. class_to_set[k] \in Range(class_to_set) /\ class_to_set[i] \in Range(class_to_set)
        BY <1>2
      <4>2. class_to_set[k] = class_to_set[i]
        BY <1>2, <2>5, <3>1, <4>1 DEF IsPartition
      <4>. QED
        BY <1>2, <4>2
    <3>. QED
      BY <2>5, <3>1
  <2>7. M!OutClass(s, l) = i
    <3>1. \A k \in 1 .. n : dsts \subseteq class_to_set[k] <=> k = i
      BY <2>2, <2>6
    <3>. HIDE DEF dsts
    <3>. QED
      BY <1>1, <1>4, <3>1
  <2>. QED
    BY <1>2, <2>3, <2>6, <2>7
<1>. QED
  BY <1>3, <1>4

\* The first part of a class keeps its number.
LEMMA MooreSplit ==
  ASSUME MTypes, NEW l \in Letter, M!Split(l)
  PROVE  LET C == class_to_set[c] IN
         /\ c \in 1 .. Len(class_to_set)
         /\ C \in Range(class_to_set)
         /\ IsPartition(M!Parts(l), C)
         /\ M!Parts(l) # {C}
         /\ Numbers(class_to_set', States(aut))
         /\ Range(class_to_set') = (Range(class_to_set) \ {C}) \union M!Parts(l)
         /\ Len(class_to_set') >= Len(class_to_set)
<1>. DEFINE C == class_to_set[c]
            n == Len(class_to_set)
            parts == M!Parts(l)
            key == [s \in C |-> M!OutClass(s, l)]
<1>1. /\ class_to_set \in Seq(SUBSET States(aut)) /\ n \in Nat
      /\ IsPartition(Range(class_to_set), States(aut))
      /\ Range(class_to_set) = {class_to_set[i] : i \in 1 .. n}
  BY RangeLemma DEF Numbers, MTypes
<1>2. c \in 1 .. n
  BY <1>1 DEF MTypes, M!Split, M!num_classes
<1>3. C \in Range(class_to_set)
  BY <1>1, <1>2
<1>4. C # {} /\ IsFiniteSet(C)
  <2>1. IsAutomaton(aut)
    BY DEF MTypes
  <2>. QED
    BY <1>1, <1>3, <2>1, SubclassLemma, PartitionFinite
<1>5. parts = KeyParts(C, key)
  BY MooreParts
<1>6. IsPartition(parts, C)
  <2>. HIDE DEF C, parts, key
  <2>. QED
    BY <1>4, <1>5, KeyPartsLemma
<1>7. IsFiniteSet(parts)
  <2>1. parts \subseteq SUBSET C
    BY <1>6 DEF IsPartition
  <2>. HIDE DEF C, parts
  <2>. QED
    BY <1>4, <2>1, FS_SUBSET, FS_Subset
<1>8. parts # {} /\ parts # {C}
  <2>1. Cardinality(parts) >= 2
    BY SameCardinality DEF M!Split
  <2>. HIDE DEF C, parts
  <2>2. Cardinality(parts) # 0 /\ Cardinality(parts) # 1
    BY <2>1
  <2>. QED
    BY <2>2, FS_EmptySet, FS_Singleton
<1>9. PICK g \in SetToSeqs(parts) :
        class_to_set' = ReplaceAt(class_to_set, c, Head(g)) \o Tail(g)
  BY DEF M!Split, M!SetToSeqs, SetToSeqs, M!ReplaceAt, ReplaceAt, M!Cardinality, Cardinality
<1>10. /\ Numbers(class_to_set', States(aut))
       /\ Range(class_to_set') = (Range(class_to_set) \ {C}) \union parts
       /\ Len(class_to_set') >= n
  <2>1. Numbers(class_to_set, States(aut)) /\ IsPartition(parts, class_to_set[c])
    BY <1>6 DEF MTypes
  <2>. HIDE DEF parts
  <2>2. \A h : h = ReplaceAt(class_to_set, c, Head(g)) \o Tail(g) =>
          /\ Numbers(h, States(aut))
          /\ Range(h) = (Range(class_to_set) \ {class_to_set[c]}) \union parts
          /\ Len(h) >= Len(class_to_set)
    BY <1>2, <1>7, <1>8, <2>1, SplitNumbers
  <2>. HIDE DEF C, n
  <2>3. /\ Numbers(class_to_set', States(aut))
        /\ Range(class_to_set') = (Range(class_to_set) \ {class_to_set[c]}) \union parts
        /\ Len(class_to_set') >= Len(class_to_set)
    BY <1>9, <2>2
  <2>. QED
    BY <2>3 DEF C, n
<1>. QED
  BY <1>2, <1>3, <1>6, <1>8, <1>10

\* The initial classes: pre, post, the final states and the others.
LEMMA MooreInit ==
  ASSUME M!Init, IsAutomaton(aut)
  PROVE  MooreInv /\ Range(class_to_set) = {{pre}, {post}, States(aut) \ ({pre, post} \union Finals(aut)), Finals(aut)} \ {{}}
<1>. DEFINE All == States(aut)
            C == All \ ({pre, post} \union Finals(aut))
            D == Finals(aut)
            P == {{pre}, {post}, C, D} \ {{}}
<1>1. IsDeterministic(aut) /\ IsTrim(aut) /\ c = 1 /\ go_on = FALSE
  BY SameMoore DEF M!Init
<1>2. class_to_set = More(More(<<{pre}, {post}>>, C), D)
  <2>1. M!Inner(aut) \ M!Finals(aut) = C /\ M!Finals(aut) = D
    BY SameMoore DEF M!Inner
  <2>. HIDE DEF C, D
  <2>. QED
    BY <2>1, SameMoore DEF M!Init, M!Class, More
<1>3. /\ {pre} # {} /\ {post} # {}
      /\ {pre} \intersect {post} = {}
      /\ C \intersect ({pre} \union {post}) = {}
      /\ D \intersect ({pre} \union {post} \union C) = {}
      /\ {pre} \union {post} \union C \union D = All
  BY FinalsLemma, StatesFinite
<1>5. Numbers(class_to_set, All) /\ Len(class_to_set) \in Nat \ {0} /\ Range(class_to_set) = P
  <2>. DEFINE A == {pre}
              B == {post}
  <2>. HIDE DEF A, B, C, D, All
  <2>1. /\ A # {} /\ B # {} /\ A \intersect B = {}
        /\ C \intersect (A \union B) = {}
        /\ D \intersect (A \union B \union C) = {}
        /\ All = A \union B \union C \union D
    BY <1>3 DEF A, B
  <2>2. class_to_set = More(More(<<A, B>>, C), D)
    BY <1>2 DEF A, B
  <2>3. Numbers(class_to_set, All) /\ Len(class_to_set) \in Nat \ {0}
        /\ Range(class_to_set) = {A, B, C, D} \ {{}}
    BY <2>1, <2>2, MooreFirst
  <2>. QED
    BY <2>1, <2>3 DEF A, B
<1>6. MTypes
  <2>1. c \in 1 .. Len(class_to_set) + 1
    BY <1>1, <1>5
  <2>. QED
    BY <1>1, <1>5, <2>1 DEF MTypes
<1>7. Uniform(aut, Range(class_to_set))
  <2>. SUFFICES ASSUME NEW X \in P, NEW s \in X, NEW t \in X
                PROVE  /\ s = pre => t = pre
                       /\ s = post => t = post
                       /\ s \in D => t \in D
    BY <1>5 DEF Uniform
  <2>1. X = {pre} \/ X = {post} \/ X = C \/ X = D
    OBVIOUS
  <2>. QED
    BY <2>1, FinalsLemma
<1>8. MVisited
  BY <1>1, <1>5 DEF MVisited
<1>. QED
  BY <1>5, <1>6, <1>7, <1>8 DEF MooreInv

\* A step of Moore's algorithm keeps the invariant, and either keeps the
\* classes or splits one, which asks for another pass.
LEMMA MooreStep ==
  ASSUME MooreInv, M!Next
  PROVE  /\ aut' = aut
         /\ MooreInv'
         /\ \/ Range(class_to_set') = Range(class_to_set)
            \/ /\ Range(class_to_set') # Range(class_to_set)
               /\ Refines(Range(class_to_set'), Range(class_to_set))
               /\ go_on'
         /\ ~ M!done
<1>0. MTypes /\ Uniform(aut, Range(class_to_set)) /\ MVisited
      /\ IsAutomaton(aut) /\ IsDeterministic(aut) /\ IsTrim(aut)
      /\ Numbers(class_to_set, States(aut)) /\ Len(class_to_set) \in Nat
      /\ c \in 1 .. Len(class_to_set) + 1 /\ go_on \in BOOLEAN
  BY RangeLemma DEF MooreInv, MTypes, Numbers
<1>1. ASSUME NEW l \in Letter, M!Split(l)
      PROVE  /\ aut' = aut
             /\ MooreInv'
             /\ Range(class_to_set') # Range(class_to_set)
             /\ Refines(Range(class_to_set'), Range(class_to_set))
             /\ go_on'
             /\ ~ M!done
  <2>. DEFINE C == class_to_set[c]
              parts == M!Parts(l)
              P == Range(class_to_set)
              R == Range(class_to_set')
  <2>1. aut' = aut /\ c' = c + 1 /\ go_on' = TRUE /\ c <= Len(class_to_set)
    BY <1>1 DEF M!Split, M!num_classes
  <2>2. /\ C \in P
        /\ IsPartition(parts, C)
        /\ parts # {C}
        /\ Numbers(class_to_set', States(aut))
        /\ R = (P \ {C}) \union parts
        /\ Len(class_to_set') >= Len(class_to_set)
    BY <1>0, <1>1, MooreSplit
  <2>3. IsPartition(P, States(aut))
    BY <1>0 DEF Numbers
  <2>4. R # P /\ Refines(R, P)
    <3>. HIDE DEF P, R, C, parts
    <3>. QED
      BY <2>2, <2>3, SplitLemma
  <2>5. Len(class_to_set') \in Nat
    BY <2>2, RangeLemma DEF Numbers
  <2>6. MTypes'
    <3>1. c' \in 1 .. Len(class_to_set') + 1
      BY <1>0, <2>1, <2>2, <2>5
    <3>. QED
      BY <1>0, <2>1, <2>2, <3>1 DEF MTypes
  <2>7. Uniform(aut', Range(class_to_set'))
    <3>. HIDE DEF C, parts
    <3>. QED
      BY <1>0, <2>1, <2>4, UniformRefined
  <2>8. MVisited'
    BY <2>1 DEF MVisited
  <2>9. ~ M!done
    BY <1>0, <2>1 DEF M!done, M!num_classes
  <2>. QED
    BY <2>1, <2>4, <2>6, <2>7, <2>8, <2>9 DEF MooreInv
<1>2. ASSUME M!Skip
      PROVE  /\ aut' = aut
             /\ MooreInv'
             /\ Range(class_to_set') = Range(class_to_set)
             /\ ~ M!done
  <2>. DEFINE C == class_to_set[c]
              key(l) == [s \in C |-> M!OutClass(s, l)]
  <2>1. aut' = aut /\ c' = c + 1 /\ UNCHANGED <<class_to_set, go_on>> /\ c <= Len(class_to_set)
    BY <1>2 DEF M!Skip, M!num_classes
  <2>2. c \in 1 .. Len(class_to_set) /\ C \in Range(class_to_set) /\ C # {} /\ IsFiniteSet(C)
    <3>1. c \in 1 .. Len(class_to_set)
      BY <1>0, <2>1
    <3>2. C \in Range(class_to_set)
      BY <1>0, <3>1, RangeLemma DEF Numbers
    <3>. QED
      BY <1>0, <3>1, <3>2, SubclassLemma, PartitionFinite DEF Numbers
  <2>3. ASSUME NEW l \in Letter PROVE \A s, t \in C : M!OutClass(s, l) = M!OutClass(t, l)
    <3>. DEFINE parts == M!Parts(l)
                k == key(l)
    <3>1. Cardinality(parts) < 2
      BY <1>2, SameCardinality DEF M!Skip
    <3>2. parts = KeyParts(C, k)
      BY MooreParts
    <3>3. \A s, t \in C : k[s] = k[t] => M!OutClass(s, l) = M!OutClass(t, l)
      OBVIOUS
    <3>. HIDE DEF C, parts, k
    <3>4. IsPartition(parts, C)
      BY <2>2, <3>2, KeyPartsLemma
    <3>5. IsFiniteSet(parts) /\ parts # {}
      <4>1. parts \subseteq SUBSET C /\ parts # {}
        BY <2>2, <3>4 DEF IsPartition
      <4>. QED
        BY <2>2, <4>1, FS_SUBSET, FS_Subset
    <3>6. PICK D \in parts : TRUE
      BY <3>5
    <3>7. parts = {D}
      BY <3>1, <3>5, TwoLemma
    <3>8. parts = {C}
      BY <3>4, <3>7 DEF IsPartition
    <3>9. \A s, t \in C : k[s] = k[t]
      <4>1. KeyParts(C, k) = {C}
        BY <3>2, <3>8
      <4>. QED
        BY <2>2, <4>1, KeyPartsLemma
    <3>. QED
      BY <3>3, <3>9
  <2>4. ASSUME NEW l \in Letter, NEW D \in Range(class_to_set), NEW s \in C, NEW t \in C,
               Leads(aut, s, l, D)
        PROVE  Leads(aut, t, l, D)
    <3>1. PICK i \in 1 .. Len(class_to_set) : D = class_to_set[i]
      BY <1>0, RangeLemma DEF Numbers
    <3>2. M!OutClass(s, l) = i
      BY <1>0, <2>4, <3>1, OutClassLemma
    <3>3. M!OutClass(t, l) = i
      BY <2>3, <3>2
    <3>. QED
      BY <1>0, <3>1, <3>3, OutClassLemma
  <2>5. MVisited'
    <3>. SUFFICES ASSUME ~ go_on, NEW k \in 1 .. Len(class_to_set), k < c + 1,
                         NEW l \in Letter, NEW D \in Range(class_to_set),
                         NEW s \in class_to_set[k], NEW t \in class_to_set[k], Leads(aut, s, l, D)
                  PROVE  Leads(aut, t, l, D)
      BY <2>1 DEF MVisited
    <3>1. CASE k = c
      BY <2>4, <3>1
    <3>2. CASE k < c
      BY <1>0, <3>2 DEF MVisited
    <3>. QED
      BY <2>2, <3>1, <3>2
  <2>6. MTypes'
    <3>1. c' \in 1 .. Len(class_to_set') + 1
      BY <1>0, <2>1, <2>2
    <3>. QED
      BY <1>0, <2>1, <3>1 DEF MTypes
  <2>7. ~ M!done
    BY <1>0, <2>1 DEF M!done, M!num_classes
  <2>. QED
    BY <1>0, <2>1, <2>5, <2>6, <2>7 DEF MooreInv
<1>3. ASSUME M!NextPass
      PROVE  /\ aut' = aut
             /\ MooreInv'
             /\ Range(class_to_set') = Range(class_to_set)
             /\ ~ M!done
  <2>1. aut' = aut /\ c' = 1 /\ class_to_set' = class_to_set /\ go_on' = FALSE /\ go_on
    BY <1>3 DEF M!NextPass
  <2>2. MTypes'
    <3>1. c' \in 1 .. Len(class_to_set') + 1
      BY <1>0, <2>1
    <3>. QED
      BY <1>0, <2>1, <3>1 DEF MTypes
  <2>3. MVisited'
    BY <1>0, <2>1 DEF MVisited
  <2>. QED
    BY <1>0, <2>1, <2>2, <2>3 DEF MooreInv, M!done
<1>. QED
  BY <1>1, <1>2, <1>3 DEF M!Next

\* No stable partition mixes the initial classes.
LEMMA MooreInitCoarse ==
  ASSUME NEW K, IsMonoid(K), M!Init, IsAutomaton(aut), Weighs(aut, K)
  PROVE  Coarse(aut, Range(class_to_set))
<1>. DEFINE C == States(aut) \ ({pre, post} \union Finals(aut))
            P == Range(class_to_set)
<1>1. IsDeterministic(aut) /\ IsTrim(aut)
  BY SameMoore DEF M!Init
<1>2. P = {{pre}, {post}, C, Finals(aut)} \ {{}}
  BY MooreInit
<1>. SUFFICES ASSUME NEW Q, IsPartition(Q, States(aut)), Stable(aut, Q),
                     ClassOf(Q, pre) # ClassOf(Q, post), NEW D \in Q
              PROVE  \E E \in P : D \subseteq E
  BY DEF Coarse, Refines
<1>3. D \subseteq States(aut) /\ D # {}
  BY DEF IsPartition
<1>4. \A s, t \in D : /\ s = post => t = post
                      /\ s \in Finals(aut) => t \in Finals(aut)
                      /\ s = pre => t = pre
  BY <1>1, FinalsApart
<1>5. PICK s \in D : TRUE
  BY <1>3
<1>6. CASE s = pre
  <2>1. D \subseteq {pre} /\ {pre} \in P
    BY <1>2, <1>4, <1>5, <1>6
  <2>. QED BY <2>1
<1>7. CASE s = post
  <2>1. D \subseteq {post} /\ {post} \in P
    BY <1>2, <1>4, <1>5, <1>7
  <2>. QED BY <2>1
<1>8. CASE s \in Finals(aut)
  <2>1. D \subseteq Finals(aut) /\ Finals(aut) \in P
    BY <1>2, <1>4, <1>5, <1>8
  <2>. QED BY <2>1
<1>9. CASE s \notin {pre, post} \union Finals(aut)
  <2>1. D \subseteq C
    BY <1>3, <1>4, <1>5, <1>9
  <2>2. C \in P
    BY <1>2, <1>3, <2>1
  <2>. QED BY <2>1, <2>2
<1>. QED
  BY <1>6, <1>7, <1>8, <1>9

\* States that a split separates have arcs with the same letter to different
\* classes, which no stable partition keeps together.
LEMMA MooreCoarse ==
  ASSUME NEW K, IsMonoid(K), Weighs(aut, K), MooreInv, M!Next,
         Coarse(aut, Range(class_to_set))
  PROVE  Coarse(aut, Range(class_to_set'))
<1>0. MTypes /\ IsAutomaton(aut) /\ IsDeterministic(aut)
      /\ Numbers(class_to_set, States(aut)) /\ IsPartition(Range(class_to_set), States(aut))
  BY DEF MooreInv, MTypes, Numbers
<1>1. ASSUME NEW l \in Letter, M!Split(l)
      PROVE  Coarse(aut, Range(class_to_set'))
  <2>. DEFINE C == class_to_set[c]
              parts == M!Parts(l)
              key == [s \in C |-> M!OutClass(s, l)]
              P == Range(class_to_set)
              R == Range(class_to_set')
  <2>1. /\ C \in P
        /\ IsPartition(parts, C)
        /\ R = (P \ {C}) \union parts
    BY <1>0, <1>1, MooreSplit
  <2>2. parts = KeyParts(C, key)
    BY MooreParts
  <2>3. ASSUME NEW X \in P, NEW D \in SUBSET X, D # {}, \A s, t \in D : Alike(aut, P, s, t)
        PROVE  \E E \in R : D \subseteq E
    <3>1. CASE X # C
      BY <2>1, <3>1
    <3>2. CASE X = C
      <4>1. ASSUME NEW s \in D, NEW t \in D, NEW k \in 1 .. Len(class_to_set),
                   M!OutClass(s, l) = k
            PROVE  M!OutClass(t, l) = k
        <5>1. class_to_set[k] \in P
          BY <1>0, RangeLemma DEF Numbers
        <5>2. Leads(aut, s, l, class_to_set[k])
          BY <1>0, <4>1, OutClassLemma
        <5>3. Alike(aut, P, s, t)
          BY <2>3
        <5>4. Leads(aut, t, l, class_to_set[k])
          <6>. HIDE DEF P
          <6>. QED
            BY <1>0, <5>1, <5>2, <5>3, AlikeLeads
        <5>. QED
          BY <1>0, <5>4, OutClassLemma
      <4>2. ASSUME NEW s \in D, NEW t \in D PROVE M!OutClass(s, l) = M!OutClass(t, l)
        <5>1. /\ M!OutClass(s, l) \in 0 .. Len(class_to_set)
              /\ M!OutClass(t, l) \in 0 .. Len(class_to_set)
              /\ Len(class_to_set) \in Nat
          BY <1>0, OutClassLemma, RangeLemma DEF Numbers
        <5>. QED
          BY <4>1, <5>1
      <4>3. \A s, t \in D : key[s] = key[t]
        BY <3>2, <4>2
      <4>4. C # {} /\ D \subseteq C /\ D # {}
        BY <2>3, <3>2
      <4>. HIDE DEF C, parts, key
      <4>5. \E E \in KeyParts(C, key) : D \subseteq E
        BY <4>3, <4>4, KeyPartsJoin
      <4>. QED
        BY <2>1, <2>2, <4>5
    <3>. QED
      BY <3>1, <3>2
  <2>. HIDE DEF P, R, C
  <2>4. IsPartition(P, States(aut)) /\ Coarse(aut, P)
    BY <1>0 DEF P
  <2>5. Coarse(aut, R)
    BY <1>0, <2>3, <2>4, RefinedCoarse
  <2>. QED
    BY <2>5 DEF R
<1>2. M!Skip \/ M!NextPass => class_to_set' = class_to_set
  BY DEF M!Skip, M!NextPass
<1>. QED
  BY <1>1, <1>2 DEF M!Next

\* When a pass has split no class, each class was visited and every letter
\* leads its states to the same class: the partition is stable.
LEMMA MooreStable ==
  ASSUME NEW K, IsMonoid(K), Weighs(aut, K), IsUnweighted(aut), MooreInv, M!Next,
         ~ go_on', c' > Len(class_to_set')
  PROVE  \A C \in Range(class_to_set') : \A s, t \in C : Alike(aut, Range(class_to_set'), s, t)
<1>. DEFINE P == Range(class_to_set')
<1>1. /\ IsAutomaton(aut) /\ IsDeterministic(aut)
      /\ Numbers(class_to_set', States(aut)) /\ Uniform(aut, P)
      /\ \A k \in 1 .. Len(class_to_set') : \A l \in Letter : \A D \in P : \A s, t \in class_to_set'[k] :
           Leads(aut, s, l, D) => Leads(aut, t, l, D)
  <2>1. aut' = aut /\ MooreInv' /\ MTypes'
    BY MooreStep DEF MooreInv
  <2>2. Len(class_to_set') \in Nat /\ c' \in 1 .. Len(class_to_set') + 1
    BY <2>1, RangeLemma DEF MTypes, Numbers
  <2>3. \A k \in 1 .. Len(class_to_set') : k < c'
    BY <2>2
  <2>. QED
    BY <2>1, <2>3 DEF MooreInv, MTypes, MVisited
<1>2. IsPartition(P, States(aut)) /\ \A C \in P : \E k \in 1 .. Len(class_to_set') : C = class_to_set'[k]
  BY <1>1, RangeLemma DEF Numbers
<1>. SUFFICES ASSUME NEW C \in P, NEW s \in C, NEW t \in C PROVE Alike(aut, P, s, t)
  OBVIOUS
<1>3. s = pre <=> t = pre
  BY <1>1 DEF Uniform
<1>4. s \in Finals(aut) <=> t \in Finals(aut)
  BY <1>1 DEF Uniform
<1>5. \A l \in Letter : \A D \in P : Leads(aut, s, l, D) <=> Leads(aut, t, l, D)
  BY <1>1, <1>2
<1>. HIDE DEF P
<1>. QED
  BY <1>1, <1>2, <1>3, <1>4, <1>5, PairAlike

-----------------------------------------------------------------------------
(* Minimization with signatures. *)

\* The candidates that a pass without a split has visited need none.
SVisited ==
  ~ go_on =>
    \A C \in candidates \ todo : \A s, t \in C : Alike(aut, partition, s, t)

\* The inductive invariant of the variants with signatures.
SignatureInv == IsAutomaton(aut) /\ S!TypeOK /\ SVisited

\* The initial class has all states, and nothing is separated.
LEMMA SignatureInit ==
  ASSUME IsAutomaton(aut), S!Init
  PROVE  SignatureInv /\ Coarse(aut, partition)
<1>1. /\ partition = {States(aut)} /\ candidates = {States(aut)} /\ todo = {States(aut)}
      /\ go_on = FALSE
  BY SameOthers DEF S!Init
<1>2. IsPartition(partition, States(aut))
  BY <1>1, StatesFinite DEF IsPartition
<1>3. Coarse(aut, partition)
  BY <1>1 DEF Coarse, Refines, IsPartition
<1>. QED
  BY <1>1, <1>2, <1>3, SameOthers, SameCardinality DEF SignatureInv, S!TypeOK, SVisited

\* The same, for the weighted variant.
LEMMA WeightedInit ==
  ASSUME IsAutomaton(aut), W!Init
  PROVE  SignatureInv /\ Coarse(aut, partition)
<1>1. /\ partition = {States(aut)} /\ candidates = {States(aut)} /\ todo = {States(aut)}
      /\ go_on = FALSE
  BY SameOthers DEF W!Init
<1>2. IsPartition(partition, States(aut))
  BY <1>1, StatesFinite DEF IsPartition
<1>3. Coarse(aut, partition)
  BY <1>1 DEF Coarse, Refines, IsPartition
<1>. QED
  BY <1>1, <1>2, <1>3, SameOthers, SameCardinality DEF SignatureInv, S!TypeOK, SVisited

\* A class is split into its states of the same signature.
LEMMA SignatureSplit ==
  ASSUME SignatureInv, NEW C \in todo
  PROVE  /\ C \in partition /\ C # {} /\ IsFiniteSet(C)
         /\ IsPartition(S!Parts(C), C)
         /\ IsFiniteSet(S!Parts(C))
         /\ Cardinality(S!Parts(C)) < 2 <=> S!Parts(C) = {C}
         /\ Cardinality(S!Parts(C)) \in Nat
         /\ S!Parts(C) = {C} => \A s, t \in C : Alike(aut, partition, s, t)
<1>. DEFINE parts == S!Parts(C)
            key == [s \in C |-> Signature(aut, partition, s)]
<1>1. C \in partition /\ IsPartition(partition, States(aut)) /\ IsAutomaton(aut)
  BY SameOthers DEF SignatureInv, S!TypeOK
<1>2. C # {} /\ IsFiniteSet(C)
  BY <1>1, SubclassLemma, PartitionFinite
<1>3. parts = KeyParts(C, key)
  BY SignatureParts
<1>4. \A s, t \in C : key[s] = key[t] => Alike(aut, partition, s, t)
  BY DEF Alike
<1>. HIDE DEF parts, key
<1>5. IsPartition(parts, C)
  BY <1>2, <1>3, KeyPartsLemma
<1>6. IsFiniteSet(parts) /\ parts # {}
  <2>1. parts \subseteq SUBSET C /\ parts # {}
    BY <1>2, <1>5 DEF IsPartition
  <2>. QED
    BY <1>2, <2>1, FS_SUBSET, FS_Subset
<1>7. Cardinality(parts) < 2 <=> parts = {C}
  <2>1. PICK D \in parts : TRUE
    BY <1>6
  <2>2. Cardinality(parts) < 2 <=> parts = {D}
    BY <1>6, <2>1, TwoLemma
  <2>3. parts = {D} => D = C
    BY <1>5 DEF IsPartition
  <2>4. parts = {C} => D = C
    BY <2>1
  <2>. QED
    BY <2>2, <2>3, <2>4
<1>8. ASSUME parts = {C} PROVE \A s, t \in C : Alike(aut, partition, s, t)
  <2>1. KeyParts(C, key) = {C}
    BY <1>3, <1>8
  <2>2. \A s, t \in C : key[s] = key[t]
    BY <1>2, <2>1, KeyPartsLemma
  <2>. QED
    BY <1>4, <2>2
<1>9. Cardinality(parts) \in Nat
  BY <1>6, FS_CardinalityType
<1>. QED
  BY <1>1, <1>2, <1>5, <1>6, <1>7, <1>8, <1>9 DEF parts

\* A step keeps the invariant, and either keeps the classes or splits one,
\* which asks for another pass, whatever the rehash leaves to visit.
LEMMA SignatureStep ==
  ASSUME SignatureInv, S!Next
  PROVE  /\ aut' = aut
         /\ SignatureInv'
         /\ \/ partition' = partition
            \/ /\ partition' # partition
               /\ Refines(partition', partition)
               /\ go_on'
         /\ ~ S!done
<1>0. /\ IsAutomaton(aut) /\ IsPartition(partition, States(aut))
      /\ todo \subseteq candidates /\ candidates \subseteq partition
      /\ \A C \in partition \ candidates : Cardinality(C) = 1
      /\ go_on \in BOOLEAN
      /\ SVisited
  BY SameOthers, SameCardinality DEF SignatureInv, S!TypeOK
<1>1. ASSUME NEW C \in todo, S!Split(C)
      PROVE  /\ aut' = aut
             /\ SignatureInv'
             /\ partition' # partition
             /\ Refines(partition', partition)
             /\ go_on'
             /\ ~ S!done
  <2>. DEFINE parts == S!Parts(C)
  <2>1. /\ aut' = aut /\ go_on' = TRUE
        /\ partition' = (partition \ {C}) \union parts
        /\ candidates' = (candidates \ {C}) \union {D \in parts : Cardinality(D) # 1}
        /\ todo' \subseteq candidates'
        /\ Cardinality(parts) >= 2
    BY <1>1, SameCardinality DEF S!Split
  <2>2. /\ C \in partition /\ IsPartition(parts, C) /\ parts # {C}
    BY <2>1, SignatureSplit
  <2>. HIDE DEF parts
  <2>3. IsPartition(partition', States(aut)) /\ partition' # partition /\ Refines(partition', partition)
    BY <1>0, <2>1, <2>2, SplitLemma
  <2>4. candidates' \subseteq partition'
    BY <1>0, <2>1
  <2>5. \A D \in partition' \ candidates' : Cardinality(D) = 1
    BY <1>0, <2>1
  <2>6. S!TypeOK'
    <3>1. S!IsPartition(partition', S!States(aut'))
      BY <2>1, <2>3, SameOthers
    <3>2. \A D \in partition' \ candidates' : S!Cardinality(D) = 1
      BY <2>5, SameCardinality
    <3>. QED
      BY <2>1, <2>4, <3>1, <3>2 DEF S!TypeOK
  <2>7. SVisited'
    BY <2>1 DEF SVisited
  <2>. QED
    BY <1>0, <2>1, <2>3, <2>6, <2>7 DEF SignatureInv, S!done
<1>2. ASSUME NEW C \in todo, S!Skip(C)
      PROVE  /\ aut' = aut
             /\ SignatureInv'
             /\ partition' = partition
             /\ ~ S!done
  <2>1. /\ aut' = aut /\ partition' = partition /\ candidates' = candidates /\ go_on' = go_on
        /\ todo' = todo \ {C}
        /\ Cardinality(S!Parts(C)) < 2
    BY <1>2, SameCardinality DEF S!Skip
  <2>2. \A s, t \in C : Alike(aut, partition, s, t)
    BY <2>1, SignatureSplit
  <2>3. SVisited'
    <3>. SUFFICES ASSUME ~ go_on, NEW D \in candidates, D \notin todo \/ D = C, NEW s \in D, NEW t \in D
                  PROVE  Alike(aut, partition, s, t)
      BY <2>1 DEF SVisited, Alike
    <3>. QED
      BY <1>0, <2>2 DEF SVisited
  <2>4. S!TypeOK'
    <3>1. S!IsPartition(partition', S!States(aut'))
      BY <1>0, <2>1, SameOthers
    <3>2. \A D \in partition' \ candidates' : S!Cardinality(D) = 1
      BY <1>0, <2>1, SameCardinality
    <3>. QED
      BY <1>0, <2>1, <3>1, <3>2 DEF S!TypeOK
  <2>. QED
    BY <1>0, <2>1, <2>3, <2>4 DEF SignatureInv, S!done
<1>3. ASSUME S!NextPass
      PROVE  /\ aut' = aut
             /\ SignatureInv'
             /\ partition' = partition
             /\ ~ S!done
  <2>1. /\ aut' = aut /\ partition' = partition /\ candidates' = candidates /\ go_on' = FALSE
        /\ todo' = candidates /\ go_on
    BY <1>3 DEF S!NextPass
  <2>2. SVisited'
    BY <2>1 DEF SVisited
  <2>3. S!TypeOK'
    <3>1. S!IsPartition(partition', S!States(aut'))
      BY <1>0, <2>1, SameOthers
    <3>2. \A D \in partition' \ candidates' : S!Cardinality(D) = 1
      BY <1>0, <2>1, SameCardinality
    <3>. QED
      BY <1>0, <2>1, <3>1, <3>2 DEF S!TypeOK
  <2>. QED
    BY <1>0, <2>1, <2>2, <2>3 DEF SignatureInv, S!done
<1>. QED
  BY <1>1, <1>2, <1>3 DEF S!Next

\* Only states of different signatures are separated.
LEMMA SignatureCoarse ==
  ASSUME NEW K, IsMonoid(K), Weighs(aut, K), SignatureInv, S!Next, Coarse(aut, partition)
  PROVE  Coarse(aut, partition')
<1>0. IsAutomaton(aut) /\ IsPartition(partition, States(aut))
  BY SameOthers DEF SignatureInv, S!TypeOK
<1>1. ASSUME NEW C \in todo, S!Split(C)
      PROVE  Coarse(aut, partition')
  <2>. DEFINE parts == S!Parts(C)
              key == [s \in C |-> Signature(aut, partition, s)]
  <2>1. partition' = (partition \ {C}) \union parts /\ parts = KeyParts(C, key)
    BY <1>1, SignatureParts DEF S!Split
  <2>2. ASSUME NEW X \in partition, NEW D \in SUBSET X, D # {},
               \A s, t \in D : Alike(aut, partition, s, t)
        PROVE  \E E \in partition' : D \subseteq E
    <3>1. CASE X # C
      BY <2>1, <3>1
    <3>2. CASE X = C
      <4>1. \A s, t \in D : key[s] = key[t]
        BY <2>2, <3>2 DEF Alike
      <4>. HIDE DEF parts, key
      <4>2. \E E \in KeyParts(C, key) : D \subseteq E
        BY <2>2, <3>2, <4>1, KeyPartsJoin
      <4>. QED
        BY <2>1, <4>2
    <3>. QED
      BY <3>1, <3>2
  <2>. QED
    BY <1>0, <2>2, RefinedCoarse
<1>2. (\E C \in todo : S!Skip(C)) \/ S!NextPass => partition' = partition
  BY DEF S!Skip, S!NextPass
<1>. QED
  BY <1>1, <1>2 DEF S!Next

\* When a pass has split no class, each candidate was visited and has one
\* signature, and the other classes have one state: the partition is stable.
LEMMA SignatureStable ==
  ASSUME SignatureInv, S!Next, todo' = {}, ~ go_on'
  PROVE  \A C \in partition' : \A s, t \in C : Alike(aut, partition', s, t)
<1>1. /\ aut' = aut
      /\ IsAutomaton(aut) /\ IsPartition(partition', States(aut))
      /\ \A C \in candidates' : \A s, t \in C : Alike(aut, partition', s, t)
      /\ \A C \in partition' \ candidates' : Cardinality(C) = 1
  <2>1. aut' = aut /\ SignatureInv' /\ S!TypeOK' /\ SVisited'
    BY SignatureStep DEF SignatureInv
  <2>2. \A C \in candidates' : \A s, t \in C : Alike(aut, partition', s, t)
    BY <2>1 DEF SVisited, Alike
  <2>. QED
    BY <2>1, <2>2, SameOthers, SameCardinality DEF SignatureInv, S!TypeOK
<1>2. ASSUME NEW C \in partition' \ candidates', NEW s \in C, NEW t \in C PROVE s = t
  <2>1. IsFiniteSet(C) /\ Cardinality(C) = 1
    BY <1>1, PartitionFinite
  <2>. QED
    BY <2>1, FS_Singleton
<1>. QED
  BY <1>1, <1>2 DEF Alike

-----------------------------------------------------------------------------
(* Hopcroft's algorithm. *)

\* The types of the variables of Hopcroft's algorithm.
HTypes == IsAutomaton(aut) /\ H!TypeOK

\* The inductive invariant of Hopcroft's algorithm: nothing is forgotten.
HopcroftInv ==
  /\ {post} \in p
  /\ Pending(aut, p, w, generators, sub_w)
  /\ FinalsPending(aut, p, w, generators, sub_w)

\* The types, without the names of the instance.
LEMMA HTypesLemma ==
  HTypes <=>
    /\ IsAutomaton(aut)
    /\ IsPartition(p, States(aut))
    /\ w \subseteq p
    /\ sub_w = UNION {C \in p : C \subseteq sub_w}
    /\ generators \subseteq Label
BY SameOthers DEF HTypes, H!TypeOK, H!Label, Label

\* What an iteration does, in these terms.
LEMMA HopcroftSplit ==
  ASSUME IsPartition(p, States(aut)), NEW l \in Label, H!Split(l)
  PROVE  /\ p' = CutBy(p, H!Sources(l))
         /\ w \subseteq p => \A D \in w : \A E \in p' : E \subseteq D => E \in w'
         /\ \A y \in p : \A D, E \in p' : D # E /\ D \subseteq y /\ E \subseteq y
              => D \in w' \/ E \in w'
         /\ Cut(p, H!Sources(l)) # {} => w' # {}
         /\ w \subseteq p => w' \subseteq p'
         /\ l \in generators /\ generators' = generators \ {l}
         /\ l = Special => generators = {Special}
         /\ UNCHANGED <<aut, sub_w>>
<1>. DEFINE x == H!Sources(l)
            cut == {y \in p : {} \notin H!Halves(y, x)}
            Small(y) == IF H!Cardinality(y \intersect x) <= H!Cardinality(y \ x)
                        THEN y \intersect x ELSE y \ x
            both == UNION {{y \intersect x, y \ x} : y \in cut \intersect w}
            small == {Small(y) : y \in cut \ w}
<1>1. cut = Cut(p, x)
  BY DEF H!Halves, Cut
<1>2. /\ p' = (p \ cut) \union UNION {{y \intersect x, y \ x} : y \in cut}
      /\ w' = (w \ cut) \union small \union both
      /\ l \in generators /\ generators' = generators \ {l}
      /\ l = Special => generators = {Special}
      /\ UNCHANGED <<aut, sub_w>>
  <2>. DEFINE hb == UNION {H!Halves(y, x) : y \in cut \intersect w}
              hs == {H!Smaller(y, x) : y \in cut \ w}
  <2>1. \A T : UNION {H!Halves(y, x) : y \in T} = UNION {{y \intersect x, y \ x} : y \in T}
    BY DEF H!Halves
  <2>2. \A T : {H!Smaller(y, x) : y \in T} = {Small(y) : y \in T}
    BY DEF H!Smaller
  <2>3. /\ l \in generators /\ generators' = generators \ {l}
        /\ l = Special => generators = {Special}
        /\ UNCHANGED <<aut, sub_w>>
    BY DEF H!Split
  <2>7. p' = (p \ cut) \union UNION {H!Halves(y, x) : y \in cut}
    BY Zenon DEF H!Split
  <2>8. w' = (w \ cut) \union hs \union hb
    BY Zenon DEF H!Split
  <2>4. hb = both
    BY <2>1
  <2>5. hs = small
    BY <2>2
  <2>6. UNION {H!Halves(y, x) : y \in cut} = UNION {{y \intersect x, y \ x} : y \in cut}
    BY <2>1
  <2>. HIDE DEF x, cut, Small, both, small, hb, hs
  <2>9. p' = (p \ cut) \union UNION {{y \intersect x, y \ x} : y \in cut}
    BY <2>6, <2>7
  <2>10. w' = (w \ cut) \union small \union both
    BY <2>4, <2>5, <2>8
  <2>. QED
    BY <2>3, <2>9, <2>10
<1>3. \A y : Small(y) = y \intersect x \/ Small(y) = y \ x
  OBVIOUS
<1>. HIDE DEF cut
<1>4. p' = CutBy(p, x)
  BY <1>1, <1>2 DEF CutBy
<1>. HIDE DEF x, Small
<1>14. /\ \A y \in cut : y \in w => y \intersect x \in w' /\ y \ x \in w'
       /\ \A y \in cut : y \notin w => Small(y) \in w'
       /\ \A y \in w : y \notin cut => y \in w'
       /\ \A E \in w' : E \in w \ cut \/ \E y \in cut : E \in {y \intersect x, y \ x}
  <2>2. \A y \in cut : y \in w => y \intersect x \in both /\ y \ x \in both
    OBVIOUS
  <2>3. \A y \in cut : y \notin w => Small(y) \in small
    OBVIOUS
  <2>4. \A E \in both : \E y \in cut : E \in {y \intersect x, y \ x}
    OBVIOUS
  <2>5. \A E \in small : \E y \in cut : E \in {y \intersect x, y \ x}
    BY <1>3
  <2>. HIDE DEF both, small
  <2>. QED
    BY <1>2, <2>2, <2>3, <2>4, <2>5
<1>. HIDE DEF both, small
<1>5. \A D \in p' : \E y \in p : D \subseteq y /\ D # {} /\ (D = y \intersect x \/ D = y \ x)
  BY <1>4, CutMembers
<1>6. \A y \in cut : y \in p /\ y \intersect x # {} /\ y \ x # {}
  BY <1>1 DEF Cut
<1>7. \A y \in p \ cut : y \intersect x = {} \/ y \ x = {}
  BY <1>1 DEF Cut
<1>8. ASSUME NEW D, NEW E \in p', NEW y \in p, E \subseteq y, D = y
      PROVE  E \in {y \intersect x, y \ x}
  <2>1. PICK z \in p : E \subseteq z /\ E # {} /\ (E = z \intersect x \/ E = z \ x)
    BY <1>5
  <2>2. z = y
    BY <1>8, <2>1 DEF IsPartition
  <2>. QED BY <2>1, <2>2
<1>9. \A E \in p' : E # {}
  BY <1>5
<1>10. w \subseteq p => \A D \in w : \A E \in p' : E \subseteq D => E \in w'
  <2>. SUFFICES ASSUME w \subseteq p, NEW D \in w, NEW E \in p', E \subseteq D PROVE E \in w'
    OBVIOUS
  <2>1. E \in {D \intersect x, D \ x} /\ E # {}
    BY <1>8, <1>9
  <2>2. CASE D \in cut
    <3>1. D \intersect x \in w' /\ D \ x \in w'
      BY <1>14, <2>2
    <3>. QED BY <2>1, <3>1
  <2>3. CASE D \notin cut
    <3>1. E = D
      BY <1>7, <2>1, <2>3
    <3>. QED BY <1>14, <2>3, <3>1
  <2>. QED BY <2>2, <2>3
<1>11. ASSUME NEW y \in p, NEW D \in p', NEW E \in p', D # E, D \subseteq y, E \subseteq y
       PROVE  D \in w' \/ E \in w'
  <2>1. D \in {y \intersect x, y \ x} /\ E \in {y \intersect x, y \ x} /\ D # {} /\ E # {}
    BY <1>8, <1>9, <1>11
  <2>2. y \in cut
    BY <1>1, <1>11, <2>1 DEF Cut
  <2>3. y \intersect x \in w' \/ y \ x \in w'
    <3>1. CASE y \in w
      BY <1>14, <2>2, <3>1
    <3>2. CASE y \notin w
      <4>1. Small(y) \in w'
        BY <1>14, <2>2, <3>2
      <4>. QED BY <1>3, <4>1
    <3>. QED BY <3>1, <3>2
  <2>. QED BY <1>11, <2>1, <2>3
<1>12. ASSUME cut # {} PROVE w' # {}
  BY <1>12, <1>14
<1>13. ASSUME w \subseteq p PROVE w' \subseteq p'
  <2>1. \A y \in cut : {y \intersect x, y \ x} \subseteq p'
    BY <1>2
  <2>2. w \ cut \subseteq p'
    BY <1>2, <1>13
  <2>3. ASSUME NEW E \in w' PROVE E \in p'
    <3>1. CASE E \in w \ cut
      BY <2>2, <3>1
    <3>2. ASSUME NEW y \in cut, E \in {y \intersect x, y \ x} PROVE E \in p'
      BY <2>1, <3>2
    <3>3. E \in w \ cut \/ \E y \in cut : E \in {y \intersect x, y \ x}
      BY <1>14
    <3>. QED BY <3>1, <3>2, <3>3, Zenon
  <2>. QED
    BY <2>3
<1>. QED
  BY <1>1, <1>2, <1>4, <1>10, <1>11, <1>12, <1>13 DEF x

\* The states with an arc to the class at work.
LEMMA SourcesLemma ==
  ASSUME NEW l, NEW s
  PROVE  s \in H!Sources(l) <=> Leads(aut, s, l, sub_w)
BY DEF H!Sources, Leads, H!Arcs, Arcs

\* At first post waits in the worklist, so nothing else has to.
LEMMA HopcroftInit ==
  ASSUME IsAutomaton(aut), H!Init
  PROVE  HTypes /\ HopcroftInv
<1>. DEFINE rest == States(aut) \ {post}
<1>1. p = {{post}, rest} /\ w = {{post}} /\ sub_w = {} /\ generators = {}
  BY SameOthers DEF H!Init
<1>2. pre \in rest /\ post \in States(aut) /\ pre # post
  BY StatesFinite DEF pre, post
<1>3. IsPartition(p, States(aut))
  <2>1. UNION p = States(aut) /\ {} \notin p
    BY <1>1, <1>2
  <2>. QED
    BY <1>1, <2>1 DEF IsPartition
<1>4. HTypes
  BY <1>1, <1>3, HTypesLemma
<1>5. Pending(aut, p, w, generators, sub_w)
  BY <1>1 DEF Pending
<1>6. FinalsPending(aut, p, w, generators, sub_w)
  BY <1>1 DEF FinalsPending
<1>. QED
  BY <1>1, <1>4, <1>5, <1>6 DEF HopcroftInv

\* Every stable partition sets post apart.
LEMMA HopcroftInitCoarse ==
  ASSUME NEW K, IsMonoid(K), H!Init, IsAutomaton(aut), Weighs(aut, K),
         IsDeterministic(aut), IsTrim(aut)
  PROVE  Coarse(aut, p)
<1>. DEFINE rest == States(aut) \ {post}
<1>1. p = {{post}, rest}
  BY SameOthers DEF H!Init
<1>. SUFFICES ASSUME NEW Q, IsPartition(Q, States(aut)), Stable(aut, Q),
                     ClassOf(Q, pre) # ClassOf(Q, post), NEW D \in Q
              PROVE  \E E \in p : D \subseteq E
  BY DEF Coarse, Refines
<1>2. D \subseteq States(aut)
  BY DEF IsPartition
<1>3. \A s, t \in D : s = post => t = post
  BY FinalsApart
<1>4. CASE post \in D
  BY <1>1, <1>3, <1>4
<1>5. CASE post \notin D
  BY <1>1, <1>2, <1>5
<1>. QED
  BY <1>4, <1>5

\* A step keeps the types, and either keeps the classes or cuts some, which
\* fills the worklist.
LEMMA HopcroftTypes ==
  ASSUME HTypes, H!Next
  PROVE  /\ aut' = aut
         /\ HTypes'
         /\ \/ p' = p
            \/ /\ p' # p
               /\ Refines(p', p)
               /\ w' # {}
         /\ ~ H!done
<1>0. /\ IsAutomaton(aut)
      /\ IsPartition(p, States(aut))
      /\ w \subseteq p
      /\ sub_w = UNION {C \in p : C \subseteq sub_w}
      /\ generators \subseteq Label
  BY HTypesLemma
<1>1. ASSUME H!Pop
      PROVE  aut' = aut /\ HTypes' /\ p' = p /\ ~ H!done
  <2>1. PICK C \in w : sub_w' = C /\ w' = w \ {C}
    BY <1>1 DEF H!Pop
  <2>2. generators' = Label /\ aut' = aut /\ p' = p
    BY <1>1 DEF H!Pop, H!Label, Label
  <2>3. sub_w' = UNION {D \in p' : D \subseteq sub_w'}
    BY <1>0, <2>1, <2>2
  <2>4. HTypes'
    <3>2. H!IsPartition(p', H!States(aut')) /\ IsAutomaton(aut')
      BY <1>0, <2>2, SameOthers
    <3>3. w' \subseteq p' /\ generators' \subseteq H!Label
      BY <1>0, <2>1, <2>2 DEF H!Label, Label
    <3>. QED
      BY <2>3, <3>2, <3>3 DEF HTypes, H!TypeOK
  <2>. QED
    BY <2>1, <2>2, <2>4 DEF H!done
<1>2. ASSUME NEW l \in Label, H!Split(l)
      PROVE  /\ aut' = aut
             /\ HTypes'
             /\ \/ p' = p
                \/ /\ p' # p
                   /\ Refines(p', p)
                   /\ w' # {}
             /\ ~ H!done
  <2>. DEFINE x == H!Sources(l)
  <2>1. /\ p' = CutBy(p, x)
        /\ Cut(p, x) # {} => w' # {}
        /\ w' \subseteq p'
        /\ l \in generators /\ generators' = generators \ {l}
        /\ UNCHANGED <<aut, sub_w>>
    BY <1>0, <1>2, HopcroftSplit
  <2>. HIDE DEF x
  <2>2. /\ IsPartition(p', States(aut))
        /\ Refines(p', p)
        /\ Cut(p, x) = {} => p' = p
        /\ Cut(p, x) # {} => p' # p
    BY <1>0, <2>1, CutLemma
  <2>3. sub_w' = UNION {C \in p' : C \subseteq sub_w'}
    <3>1. Covers(p, sub_w)
      BY <1>0 DEF Covers
    <3>2. Covers(p', sub_w)
      BY <1>0, <2>2, <3>1, UnionOfClasses
    <3>. QED
      BY <2>1, <3>2 DEF Covers
  <2>4. HTypes'
    <3>1. H!IsPartition(p', H!States(aut')) /\ IsAutomaton(aut')
      BY <1>0, <2>1, <2>2, SameOthers
    <3>2. w' \subseteq p' /\ generators' \subseteq H!Label
      BY <1>0, <2>1 DEF H!Label, Label
    <3>. QED
      BY <2>3, <3>1, <3>2 DEF HTypes, H!TypeOK
  <2>. QED
    BY <2>1, <2>2, <2>4 DEF H!done
<1>. QED
  BY <1>1, <1>2 DEF H!Next, H!Label, Label

\* States that a cut separates differ by an arc to the class at work, a union
\* of classes, so that no stable partition keeps them together.
LEMMA HopcroftCoarse ==
  ASSUME NEW K, IsMonoid(K), Weighs(aut, K), IsDeterministic(aut), HTypes, H!Next,
         Coarse(aut, p)
  PROVE  Coarse(aut, p')
<1>0. /\ IsAutomaton(aut)
      /\ IsPartition(p, States(aut))
      /\ sub_w = UNION {C \in p : C \subseteq sub_w}
  BY HTypesLemma
<1>1. H!Pop => p' = p
  BY DEF H!Pop
<1>2. ASSUME NEW l \in Label, H!Split(l)
      PROVE  Coarse(aut, p')
  <2>. DEFINE x == H!Sources(l)
  <2>1. p' = CutBy(p, x)
    BY <1>0, <1>2, HopcroftSplit
  <2>2. ASSUME NEW s, NEW t, Alike(aut, p, s, t), s \in x
        PROVE  t \in x
    <3>1. Leads(aut, s, l, sub_w)
      BY <2>2, SourcesLemma
    <3>2. PICK C \in p : C \subseteq sub_w /\ Leads(aut, s, l, C)
      BY <1>0, <3>1 DEF Leads
    <3>3. Leads(aut, t, l, C)
      BY <1>0, <2>2, <3>2, AlikeLeads
    <3>4. Leads(aut, t, l, sub_w)
      BY <3>2, <3>3 DEF Leads
    <3>. QED
      BY <3>4, SourcesLemma
  <2>3. ASSUME NEW y \in p, NEW D \in SUBSET y, D # {}, \A s, t \in D : Alike(aut, p, s, t)
        PROVE  \E E \in p' : D \subseteq E
    <3>. HIDE DEF x
    <3>1. PICK s \in D : TRUE
      BY <2>3
    <3>2. \A t \in D : t \in x <=> s \in x
      BY <2>2, <2>3, <3>1
    <3>3. CASE s \in x
      <4>1. D \subseteq y \intersect x /\ y \intersect x # {}
        BY <3>1, <3>2, <3>3
      <4>2. y \intersect x \in p'
        BY <1>0, <2>1, <4>1, CutMembers
      <4>. QED BY <4>1, <4>2
    <3>4. CASE s \notin x
      <4>1. D \subseteq y \ x /\ y \ x # {}
        BY <3>1, <3>2, <3>4
      <4>2. y \ x \in p'
        BY <1>0, <2>1, <4>1, CutMembers
      <4>. QED BY <4>1, <4>2
    <3>. QED BY <3>3, <3>4
  <2>. QED
    BY <1>0, <2>3, RefinedCoarse
<1>. QED
  BY <1>1, <1>2 DEF H!Next, H!Label, Label

\* A step forgets nothing: of a class that is cut and does not wait, the
\* smaller half is enough, because each letter leads a state to one state only;
\* a class that waits is replaced by both halves.
LEMMA HopcroftStep ==
  ASSUME IsDeterministic(aut), HTypes, HopcroftInv, H!Next
  PROVE  HopcroftInv'
<1>0. /\ IsAutomaton(aut)
      /\ IsPartition(p, States(aut))
      /\ w \subseteq p
      /\ {post} \in p
      /\ Pending(aut, p, w, generators, sub_w)
      /\ FinalsPending(aut, p, w, generators, sub_w)
  BY HTypesLemma DEF HopcroftInv
<1>1. ASSUME H!Pop
      PROVE  HopcroftInv'
  <2>1. PICK T \in w : sub_w' = T /\ w' = w \ {T}
    BY <1>1 DEF H!Pop
  <2>2. generators' = Label /\ generators = {} /\ aut' = aut /\ p' = p
    BY <1>1 DEF H!Pop, H!Label, Label
  <2>3. Pending(aut, p, w \ {T}, Label, T)
    <3>. SUFFICES ASSUME NEW x \in Arcs(aut), NEW y \in Arcs(aut), x.label = y.label,
                         NEW C \in p, NEW D \in p, NEW E \in p,
                         x.src \in C, y.src \in C, x.dst \in D, y.dst \in E, D # E,
                         D \notin w \ {T}, E \notin w \ {T}
                  PROVE  x.label \in Label /\ ~ (x.dst \in T <=> y.dst \in T)
      BY DEF Pending
    <3>1. D \in w \/ E \in w
      BY <1>0, <2>2 DEF Pending
    <3>2. x.label \in Label
      BY <1>0 DEF IsAutomaton
    <3>3. D \intersect E = {}
      BY <1>0 DEF IsPartition
    <3>4. D = T \/ E = T
      BY <3>1
    <3>. QED
      BY <3>2, <3>3, <3>4
  <2>4. FinalsPending(aut, p, w \ {T}, Label, T)
    BY <1>0, <2>2 DEF FinalsPending, Label
  <2>. QED
    BY <1>0, <2>1, <2>2, <2>3, <2>4 DEF HopcroftInv
<1>2. ASSUME NEW l \in Label, H!Split(l)
      PROVE  HopcroftInv'
  <2>. DEFINE X == H!Sources(l)
  <2>1. /\ p' = CutBy(p, X)
        /\ \A D \in w : \A E \in p' : E \subseteq D => E \in w'
        /\ \A y \in p : \A D, E \in p' : D # E /\ D \subseteq y /\ E \subseteq y
              => D \in w' \/ E \in w'
        /\ l \in generators /\ generators' = generators \ {l}
        /\ l = Special => generators = {Special}
        /\ aut' = aut /\ sub_w' = sub_w
    BY <1>0, <1>2, HopcroftSplit
  <2>2. \A s : s \in X <=> Leads(aut, s, l, sub_w)
    BY SourcesLemma
  <2>. HIDE DEF X
  <2>3. \A D \in p' : \E y \in p : D \subseteq y /\ D # {} /\ (D = y \intersect X \/ D = y \ X)
    BY <1>0, <2>1, CutMembers
  <2>4. {post} \in p'
    <3>1. CASE post \in X
      <4>1. {post} \intersect X = {post}
        BY <3>1
      <4>2. {post} \intersect X \in p'
        BY <1>0, <2>1, <4>1, CutMembers
      <4>. QED BY <4>1, <4>2
    <3>2. CASE post \notin X
      <4>1. {post} \ X = {post}
        BY <3>2
      <4>2. {post} \ X \in p'
        BY <1>0, <2>1, <4>1, CutMembers
      <4>. QED BY <4>1, <4>2
    <3>. QED BY <3>1, <3>2
  <2>5. \A C \in p' : \A s, t \in C : s \in X <=> t \in X
    BY <2>3
  <2>6. Pending(aut, p', w', generators', sub_w)
    <3>. SUFFICES ASSUME NEW x \in Arcs(aut), NEW y \in Arcs(aut), x.label = y.label,
                         NEW C \in p', NEW D \in p', NEW E \in p',
                         x.src \in C, y.src \in C, x.dst \in D, y.dst \in E, D # E,
                         D \notin w', E \notin w'
                  PROVE  x.label \in generators' /\ ~ (x.dst \in sub_w <=> y.dst \in sub_w)
      BY DEF Pending
    <3>1. PICK C0 \in p : C \subseteq C0
      BY <2>3
    <3>2. PICK D0 \in p : D \subseteq D0
      BY <2>3
    <3>3. PICK E0 \in p : E \subseteq E0
      BY <2>3
    <3>4. D0 # E0
      BY <2>1, <3>2, <3>3
    <3>5. D0 \notin w /\ E0 \notin w
      BY <2>1, <3>2, <3>3
    <3>6. x.label \in generators /\ ~ (x.dst \in sub_w <=> y.dst \in sub_w)
      <4>1. x.src \in C0 /\ y.src \in C0 /\ x.dst \in D0 /\ y.dst \in E0
        BY <3>1, <3>2, <3>3
      <4>. QED
        BY <1>0, <3>4, <3>5, <4>1 DEF Pending
    <3>7. x.label # l
      <4>. SUFFICES ASSUME x.label = l PROVE FALSE
        OBVIOUS
      <4>1. \A z \in Arcs(aut) : z.label = l => (z.src \in X <=> z.dst \in sub_w)
        BY <2>2 DEF Leads, IsDeterministic
      <4>2. x.src \in X <=> y.src \in X
        BY <2>5
      <4>. QED
        BY <3>6, <4>1, <4>2
    <3>. QED
      BY <2>1, <3>6, <3>7
  <2>7. FinalsPending(aut, p', w', generators', sub_w)
    <3>. SUFFICES ASSUME NEW C \in p', NEW s \in C \ {pre}, NEW t \in C \ {pre},
                         s \in Finals(aut), t \notin Finals(aut), {post} \notin w'
                  PROVE  Special \in generators' /\ sub_w = {post}
      BY DEF FinalsPending
    <3>1. PICK C0 \in p : C \subseteq C0
      BY <2>3
    <3>2. {post} \notin w
      BY <2>1, <2>4
    <3>3. Special \in generators /\ sub_w = {post}
      <4>1. s \in C0 \ {pre} /\ t \in C0 \ {pre}
        BY <3>1
      <4>. QED
        BY <1>0, <3>2, <4>1 DEF FinalsPending
    <3>4. l # Special
      <4>. SUFFICES ASSUME l = Special PROVE FALSE
        OBVIOUS
      <4>1. \A u : u # pre => (u \in X <=> u \in Finals(aut))
        BY <1>0, <2>2, <3>3, FinalsLemma DEF Leads, IsAutomaton
      <4>2. s \in X <=> t \in X
        BY <2>5
      <4>. QED
        BY <4>1, <4>2
    <3>. QED
      BY <2>1, <3>3, <3>4
  <2>. QED
    BY <2>1, <2>4, <2>6, <2>7 DEF HopcroftInv
<1>. QED
  BY <1>1, <1>2 DEF H!Next, H!Label, Label

-----------------------------------------------------------------------------
(* The type invariant. *)

\* The invariant of the algorithm that runs.
TypeInv ==
  /\ algo \in Algorithms /\ aut \in Inputs(algo)
  /\ algo = "moore" => MooreInv
  /\ algo \in {"signature", "weighted"} => SignatureInv
  /\ algo = "hopcroft" => HTypes

\* The algorithms that there are.
LEMMA TagLemma == \A tag \in Algorithms : tag \in {"moore", "signature", "weighted", "hopcroft"}
  BY AlgorithmsAssumption DEF Tag

\* It holds initially.
LEMMA TypeInit ==
  ASSUME Init
  PROVE  TypeInv
<1>1. algo \in Algorithms
  BY DEF Init
<1>2. \A a \in Inputs(algo) : IsAutomaton(a)
  BY <1>1, InputsAssumption
<1>3. CASE algo = "moore"
  <2>1. M!Init /\ aut \in Inputs(algo)
    BY <1>3 DEF Init, M!Init
  <2>. QED
    BY <1>1, <1>2, <1>3, <2>1, MooreInit DEF TypeInv
<1>4. CASE algo = "signature"
  <2>1. S!Init /\ aut \in Inputs(algo)
    BY <1>4 DEF Init, S!Init
  <2>. QED
    BY <1>1, <1>2, <1>4, <2>1, SignatureInit DEF TypeInv
<1>5. CASE algo = "weighted"
  <2>1. W!Init /\ aut \in Inputs(algo)
    BY <1>5 DEF Init, W!Init
  <2>. QED
    BY <1>1, <1>2, <1>5, <2>1, WeightedInit DEF TypeInv
<1>6. CASE algo = "hopcroft"
  <2>1. H!Init /\ aut \in Inputs(algo)
    BY <1>6 DEF Init, H!Init
  <2>. QED
    BY <1>1, <1>2, <1>6, <2>1, HopcroftInit DEF TypeInv
<1>. QED
  BY <1>1, <1>3, <1>4, <1>5, <1>6, TagLemma

\* Every step keeps it.
LEMMA TypeNext ==
  ASSUME TypeInv, [Next]_vars
  PROVE  TypeInv'
<1>1. CASE algo = "moore" /\ M!Next /\ UNCHANGED <<algo, signature, hopcroft>>
  BY <1>1, MooreStep DEF TypeInv
<1>2. CASE algo \in {"signature", "weighted"} /\ S!Next /\ UNCHANGED <<algo, moore, hopcroft>>
  BY <1>2, SignatureStep DEF TypeInv
<1>3. CASE algo = "hopcroft" /\ H!Next /\ UNCHANGED <<algo, go_on, moore, signature>>
  BY <1>3, HopcroftTypes DEF TypeInv
<1>4. CASE UNCHANGED vars
  <2>1. /\ algo' = algo /\ aut' = aut /\ go_on' = go_on /\ class_to_set' = class_to_set /\ c' = c
        /\ partition' = partition /\ candidates' = candidates /\ todo' = todo
        /\ p' = p /\ w' = w /\ sub_w' = sub_w /\ generators' = generators
    BY <1>4 DEF vars, moore, signature, hopcroft
  <2>2. MooreInv => MooreInv'
    BY <2>1 DEF MooreInv, MTypes, MVisited
  <2>3. SignatureInv => SignatureInv'
    <3>1. S!TypeOK => S!TypeOK'
      BY <2>1 DEF S!TypeOK
    <3>2. SVisited => SVisited'
      BY <2>1 DEF SVisited, Alike
    <3>. QED BY <2>1, <3>1, <3>2 DEF SignatureInv
  <2>4. HTypes => HTypes'
    BY <2>1 DEF HTypes, H!TypeOK
  <2>. QED
    BY <2>1, <2>2, <2>3, <2>4 DEF TypeInv
<1>. QED
  BY <1>1, <1>2, <1>3, <1>4, SameSignatures DEF Next

\* It implies the type invariant.
LEMMA TypeImplies ==
  ASSUME TypeInv
  PROVE  TypeOK
<1>1. CASE algo = "moore"
  <2>1. MTypes
    BY <1>1 DEF TypeInv, MooreInv
  <2>2. M!classes = Range(class_to_set)
    BY DEF M!classes, M!Range, Range
  <2>3. IsPartition(Range(class_to_set), States(aut)) /\ Cardinality(Range(class_to_set)) = Len(class_to_set)
    BY <2>1, NumbersCount DEF MTypes, Numbers
  <2>4. M!TypeOK
    BY <2>1, <2>2, <2>3, SameMoore, SameCardinality DEF M!TypeOK, MTypes, M!num_classes
  <2>. QED
    BY <1>1, <2>4 DEF TypeOK
<1>2. CASE algo \in {"signature", "weighted"}
  BY <1>2 DEF TypeInv, SignatureInv, TypeOK
<1>3. CASE algo = "hopcroft"
  BY <1>3 DEF TypeInv, HTypes, TypeOK
<1>. QED
  BY <1>1, <1>2, <1>3, TagLemma DEF TypeInv

\* At every step of every algorithm the classes are a partition of the states,
\* Moore's are numbered without a hole, the candidates and the worklist hold
\* classes only, and the class at work, which may be split meanwhile, is a
\* union of classes.
THEOREM TypeCorrect == Spec => []TypeOK
<1>1. Init => TypeInv
  BY TypeInit
<1>2. TypeInv /\ [Next]_vars => TypeInv'
  BY TypeNext
<1>3. TypeInv => TypeOK
  BY TypeImplies
<1>. QED
  BY <1>1, <1>2, <1>3, PTL DEF Spec

-----------------------------------------------------------------------------
(* The promise. *)

\* The fold that lists the partitions of the promise.
Joins == INSTANCE FoldProofs WITH
  Step <- LAMBDA f, x, v :
            UNION {{P \union {{x}}} \union
                   {(P \ {C}) \union {C \union {x}} : C \in P} : P \in v},
  Pick <- LAMBDA T : CHOOSE x \in T : TRUE,
  base <- LAMBDA f : {{}}

\* What the promise enumerates are partitions.
LEMMA PartitionsLemma ==
  ASSUME NEW X, IsFiniteSet(X), NEW Q \in Promise!Partitions(X)
  PROVE  IsPartition(Q, X)
<1>. DEFINE V(T) == Joins!Fold(0, T)
<1>1. Promise!Partitions(X) = Joins!Fold(0, X)
  BY DEF Promise!Partitions, Promise!FoldSet, Promise!MapThenFoldSet, Joins!Fold
<1>2. \A T : IsFiniteSet(T) =>
        /\ T = {} => Joins!Fold(0, T) = {{}}
        /\ T # {} => \E x \in T : \A R \in Joins!Fold(0, T) :
             \E P \in Joins!Fold(0, T \ {x}) :
               \/ R = P \union {{x}}
               \/ \E C \in P : R = (P \ {C}) \union {C \union {x}}
  <2>. SUFFICES ASSUME NEW T, IsFiniteSet(T)
                PROVE  /\ T = {} => Joins!Fold(0, T) = {{}}
                       /\ T # {} => \E x \in T : \A R \in Joins!Fold(0, T) :
                            \E P \in Joins!Fold(0, T \ {x}) :
                              \/ R = P \union {{x}}
                              \/ \E C \in P : R = (P \ {C}) \union {C \union {x}}
    OBVIOUS
  <2>. DEFINE x == CHOOSE y \in T : TRUE
  <2>1. Joins!Picks(T) /\ Joins!IsFiniteSet(T)
    BY DEF Joins!Picks, Joins!IsFiniteSet, IsFiniteSet
  <2>2. /\ T = {} => Joins!Fold(0, T) = {{}}
        /\ T # {} => /\ x \in T
                     /\ Joins!Fold(0, T) =
                          UNION {{P \union {{x}}} \union
                                 {(P \ {C}) \union {C \union {x}} : C \in P}
                                   : P \in Joins!Fold(0, T \ {x})}
    BY <2>1, Joins!FoldUnrolled
  <2>. HIDE DEF x
  <2>3. ASSUME T # {}, NEW R \in Joins!Fold(0, T)
        PROVE  \E P \in Joins!Fold(0, T \ {x}) :
                 \/ R = P \union {{x}}
                 \/ \E C \in P : R = (P \ {C}) \union {C \union {x}}
    <3>1. PICK P \in Joins!Fold(0, T \ {x}) :
            R \in {P \union {{x}}} \union {(P \ {C}) \union {C \union {x}} : C \in P}
      <4>. DEFINE J(P) == {P \union {{x}}} \union {(P \ {C}) \union {C \union {x}} : C \in P}
      <4>1. Joins!Fold(0, T) = UNION {J(P) : P \in Joins!Fold(0, T \ {x})}
        BY <2>2, <2>3
      <4>. HIDE DEF J
      <4>2. \E P \in Joins!Fold(0, T \ {x}) : R \in J(P)
        BY <2>3, <4>1
      <4>. QED BY <4>2 DEF J
    <3>2. CASE R \in {P \union {{x}}}
      BY <3>2
    <3>3. CASE R \in {(P \ {C}) \union {C \union {x}} : C \in P}
      BY <3>3
    <3>. QED BY <3>1, <3>2, <3>3
  <2>. QED BY <2>2, <2>3
<1>. DEFINE Good == {T \in SUBSET X : \A R \in Joins!Fold(0, T) : IsPartition(R, T)}
<1>3. ASSUME NEW T \in SUBSET X, \A R \in SUBSET T : R # T => R \in Good
      PROVE  T \in Good
  <2>0. IsFiniteSet(T)
    BY FS_Subset
  <2>1. CASE T = {}
    <3>1. Joins!Fold(0, T) = {{}}
      BY <1>2, <2>0, <2>1
    <3>2. IsPartition({}, {})
      BY DEF IsPartition
    <3>. QED BY <2>1, <3>1, <3>2
  <2>2. CASE T # {}
    <3>1. PICK x \in T : \A R \in Joins!Fold(0, T) :
             \E P \in Joins!Fold(0, T \ {x}) :
               \/ R = P \union {{x}}
               \/ \E C \in P : R = (P \ {C}) \union {C \union {x}}
      BY <1>2, <2>0, <2>2
    <3>2. PICK U : U = T \ {x}
      OBVIOUS
    <3>3. U \in SUBSET T /\ U # T /\ x \notin U /\ U \union {x} = T
      BY <3>2
    <3>4. U \in Good
      BY <1>3, <3>3
    <3>5. \A P \in Joins!Fold(0, U) : IsPartition(P, U)
      BY <3>4
    <3>. HIDE DEF Good
    <3>6. ASSUME NEW R \in Joins!Fold(0, T)
          PROVE  IsPartition(R, T)
      <4>1. PICK P \in Joins!Fold(0, U) :
               \/ R = P \union {{x}}
               \/ \E C \in P : R = (P \ {C}) \union {C \union {x}}
        BY <3>1, <3>2
      <4>2. IsPartition(P, U)
        BY <3>5
      <4>3. CASE R = P \union {{x}}
        BY <3>3, <4>2, <4>3, AddAlone
      <4>4. CASE \E C \in P : R = (P \ {C}) \union {C \union {x}}
        <5>1. PICK C \in P : R = (P \ {C}) \union {C \union {x}}
          BY <4>4
        <5>2. IsPartition(R, U \union {x})
          BY <3>3, <4>2, <5>1, AddTo
        <5>. QED BY <3>3, <5>2
      <4>. QED BY <4>1, <4>3, <4>4
    <3>. QED BY <3>6 DEF Good
  <2>. QED BY <2>1, <2>2
<1>4. X \in Good
  <2>. HIDE DEF Good
  <2>. QED BY <1>3, StrongInduction
<1>. QED
  BY <1>1, <1>4

\* The promise asks for no more than Coarse does.
LEMMA PromisedCoarse ==
  ASSUME IsAutomaton(aut), NEW P, Coarse(aut, P)
  PROVE  Promise!CoarseEnough(P)
<1>1. Promise!States(aut) = States(aut) /\ IsFiniteSet(States(aut))
  BY SameOthers, StatesFinite
<1>2. ASSUME NEW Q \in Promise!Partitions(Promise!States(aut))
      PROVE  \/ Refines(Q, P)
             \/ ~ Stable(aut, Q)
             \/ ClassOf(Q, pre) = ClassOf(Q, post)
  <2>1. IsPartition(Q, States(aut))
    BY <1>1, <1>2, PartitionsLemma
  <2>. QED BY <2>1 DEF Coarse
<1>3. \A Q : /\ Promise!Refines(Q, P) <=> Refines(Q, P)
             /\ Promise!Stable(aut, Q) <=> Stable(aut, Q)
             /\ Promise!ClassOf(Q, Promise!pre) = ClassOf(Q, pre)
             /\ Promise!ClassOf(Q, Promise!post) = ClassOf(Q, post)
  BY SameOthers
<1>. QED
  BY <1>2, <1>3 DEF Promise!CoarseEnough

\* The weights add up in any order, and Hopcroft's algorithm, which does not
\* check it, is given what it is written for: automata that are deterministic,
\* trim and complete.
GoodInputs(K) ==
  /\ IsMonoid(K)
  /\ \A tag \in Algorithms : \A a \in Inputs(tag) :
       /\ Weighs(a, K)
       /\ tag = "hopcroft" => IsDeterministic(a) /\ IsTrim(a) /\ IsComplete(a)

\* The invariant of the refinement.
RefinementInv ==
  /\ TypeInv
  /\ Coarse(aut, classes)
  /\ algo = "hopcroft" => HopcroftInv

\* The classes so far and whether they are the result, by algorithm.
LEMMA ClassesLemma ==
  /\ algo = "moore" => classes = Range(class_to_set) /\ (done <=> c > Len(class_to_set) /\ ~ go_on)
  /\ algo = "hopcroft" => classes = p /\ (done <=> w = {} /\ generators = {})
  /\ algo \in {"signature", "weighted"} =>
       classes = partition /\ (done <=> todo = {} /\ ~ go_on)
<1>1. M!classes = Range(class_to_set)
  BY DEF M!classes, M!Range, Range
<1>. QED
  BY <1>1 DEF classes, done, M!done, S!done, H!done, M!num_classes

\* The same, after a step.
LEMMA NextClassesLemma ==
  /\ algo' = "moore" =>
       classes' = Range(class_to_set') /\ (done' <=> c' > Len(class_to_set') /\ ~ go_on')
  /\ algo' = "hopcroft" => classes' = p' /\ (done' <=> w' = {} /\ generators' = {})
  /\ algo' \in {"signature", "weighted"} =>
       classes' = partition' /\ (done' <=> todo' = {} /\ ~ go_on')
<1>1. M!classes' = Range(class_to_set')
  BY DEF M!classes, M!Range, Range
<1>. QED
  BY <1>1 DEF classes, done, M!done, S!done, H!done, M!num_classes

\* The classes are a partition.
LEMMA PartitionLemma ==
  ASSUME TypeInv
  PROVE  IsAutomaton(aut) /\ IsPartition(classes, States(aut))
<1>1. CASE algo = "moore"
  <2>1. MTypes
    BY <1>1 DEF TypeInv, MooreInv
  <2>2. IsPartition(Range(class_to_set), States(aut))
    BY <2>1, NumbersCount DEF MTypes, Numbers
  <2>. QED BY <1>1, <2>1, <2>2, ClassesLemma DEF MTypes
<1>2. CASE algo \in {"signature", "weighted"}
  <2>1. S!TypeOK /\ IsAutomaton(aut)
    BY <1>2 DEF TypeInv, SignatureInv
  <2>2. IsPartition(partition, States(aut))
    BY <2>1, SameOthers DEF S!TypeOK
  <2>. QED BY <1>2, <2>1, <2>2, ClassesLemma
<1>3. CASE algo = "hopcroft"
  <2>1. HTypes
    BY <1>3 DEF TypeInv
  <2>. QED BY <1>3, <2>1, HTypesLemma, ClassesLemma
<1>. QED
  BY <1>1, <1>2, <1>3, TagLemma DEF TypeInv

\* The invariant holds initially, and nothing is done then.
LEMMA RefinementInit ==
  ASSUME NEW K, GoodInputs(K), Init
  PROVE  RefinementInv /\ ~ done
<1>1. TypeInv
  BY TypeInit
<1>2. IsAutomaton(aut) /\ Weighs(aut, K) /\ IsMonoid(K)
  BY <1>1, PartitionLemma DEF TypeInv, GoodInputs
<1>3. CASE algo = "moore"
  <2>1. M!Init
    BY <1>3 DEF Init
  <2>2. Coarse(aut, Range(class_to_set))
    BY <1>2, <2>1, MooreInitCoarse
  <2>3. c = 1 /\ Len(class_to_set) \in Nat /\ 1 <= Len(class_to_set)
    <3>1. MTypes
      BY <1>1, <1>3 DEF TypeInv, MooreInv
    <3>2. c \in 1 .. Len(class_to_set) + 1 /\ Numbers(class_to_set, States(aut))
      BY <3>1 DEF MTypes
    <3>3. Len(class_to_set) \in Nat
      BY <3>2 DEF Numbers
    <3>4. Len(class_to_set) # 0
      <4>1. pre \in UNION Range(class_to_set)
        BY <1>2, <3>2, NumbersCount, StatesFinite DEF Numbers, IsPartition
      <4>. QED BY <4>1, <3>2 DEF Range, Numbers
    <3>. QED BY <2>1, <3>3, <3>4 DEF M!Init
  <2>. QED BY <1>1, <1>3, <2>2, <2>3, ClassesLemma DEF RefinementInv
<1>4. CASE algo = "signature"
  <2>1. S!Init
    BY <1>4 DEF Init
  <2>2. Coarse(aut, partition) /\ todo # {}
    BY <1>2, <2>1, SignatureInit DEF S!Init
  <2>. QED BY <1>1, <1>4, <2>2, ClassesLemma DEF RefinementInv
<1>5. CASE algo = "weighted"
  <2>1. W!Init
    BY <1>5 DEF Init
  <2>2. Coarse(aut, partition) /\ todo # {}
    BY <1>2, <2>1, WeightedInit DEF W!Init
  <2>. QED BY <1>1, <1>5, <2>2, ClassesLemma DEF RefinementInv
<1>6. CASE algo = "hopcroft"
  <2>1. H!Init
    BY <1>6 DEF Init
  <2>2. HopcroftInv
    BY <1>2, <2>1, HopcroftInit
  <2>3. IsDeterministic(aut) /\ IsTrim(aut)
    BY <1>1, <1>6 DEF TypeInv, GoodInputs
  <2>4. Coarse(aut, p) /\ w # {}
    BY <1>2, <2>1, <2>3, HopcroftInitCoarse DEF H!Init
  <2>. QED BY <1>1, <1>6, <2>2, <2>4, ClassesLemma DEF RefinementInv
<1>. QED
  BY <1>1, <1>3, <1>4, <1>5, <1>6, TagLemma DEF TypeInv

\* The initial states are initial states of the promise.
LEMMA PromisedInit ==
  ASSUME RefinementInv, ~ done
  PROVE  Promise!Init
<1>1. IsAutomaton(aut) /\ IsPartition(classes, States(aut)) /\ Coarse(aut, classes)
  BY PartitionLemma DEF RefinementInv
<1>2. Promise!IsPartition(classes, Promise!States(aut))
  BY <1>1, SameOthers
<1>3. Promise!CoarseEnough(classes)
  BY <1>1, PromisedCoarse
<1>4. done = FALSE
  BY DEF done, M!done, S!done, H!done
<1>. QED
  BY <1>2, <1>3, <1>4 DEF Promise!Init

\* What a step of any algorithm does to the classes.
Advance ==
  /\ aut' = aut /\ algo' = algo
  /\ ~ done
  /\ Coarse(aut, classes')
  /\ \/ classes' = classes
     \/ classes' # classes /\ Refines(classes', classes) /\ ~ done'
  /\ done' => \A C \in classes' : \A s, t \in C \ loose : Alike(aut, classes', s, t)

\* Moore's algorithm: a step splits classes only where every stable partition
\* does, or ends with a stable partition.
LEMMA MooreAdvance ==
  ASSUME NEW K, GoodInputs(K), RefinementInv, algo = "moore", algo' = algo, M!Next
  PROVE  Advance
<1>1. MooreInv /\ Coarse(aut, Range(class_to_set)) /\ aut \in Inputs(algo) /\ algo \in Algorithms
  BY ClassesLemma DEF RefinementInv, TypeInv
<1>2. Weighs(aut, K) /\ IsMonoid(K) /\ IsUnweighted(aut)
  BY <1>1, InputsAssumption DEF GoodInputs
<1>3. /\ aut' = aut
      /\ \/ Range(class_to_set') = Range(class_to_set)
         \/ /\ Range(class_to_set') # Range(class_to_set)
            /\ Refines(Range(class_to_set'), Range(class_to_set))
            /\ go_on'
      /\ ~ M!done
  BY <1>1, MooreStep
<1>4. Coarse(aut, Range(class_to_set'))
  BY <1>1, <1>2, MooreCoarse
<1>5. ~ go_on' /\ c' > Len(class_to_set') =>
        \A C \in Range(class_to_set') : \A s, t \in C : Alike(aut, Range(class_to_set'), s, t)
  BY <1>1, <1>2, MooreStable
<1>6. /\ classes = Range(class_to_set) /\ (done <=> M!done)
      /\ classes' = Range(class_to_set') /\ (done' <=> c' > Len(class_to_set') /\ ~ go_on')
  BY ClassesLemma, NextClassesLemma DEF M!done, M!num_classes
<1>. QED
  BY <1>3, <1>4, <1>5, <1>6 DEF Advance

\* The variants with signatures do so too.
LEMMA SignatureAdvance ==
  ASSUME NEW K, GoodInputs(K), RefinementInv, algo \in {"signature", "weighted"}, algo' = algo,
         S!Next
  PROVE  Advance
<1>1. SignatureInv /\ Coarse(aut, partition) /\ aut \in Inputs(algo) /\ algo \in Algorithms
  BY ClassesLemma DEF RefinementInv, TypeInv
<1>2. Weighs(aut, K) /\ IsMonoid(K)
  BY <1>1 DEF GoodInputs
<1>3. /\ aut' = aut
      /\ \/ partition' = partition
         \/ /\ partition' # partition
            /\ Refines(partition', partition)
            /\ go_on'
      /\ ~ S!done
  BY <1>1, SignatureStep
<1>4. Coarse(aut, partition')
  BY <1>1, <1>2, SignatureCoarse
<1>5. todo' = {} /\ ~ go_on' =>
        \A C \in partition' : \A s, t \in C : Alike(aut, partition', s, t)
  BY <1>1, SignatureStable
<1>6. /\ classes = partition /\ (done <=> S!done)
      /\ classes' = partition' /\ (done' <=> todo' = {} /\ ~ go_on')
  BY ClassesLemma, NextClassesLemma DEF S!done
<1>. QED
  BY <1>3, <1>4, <1>5, <1>6 DEF Advance

\* So does Hopcroft's algorithm, and it forgets nothing.
LEMMA HopcroftAdvance ==
  ASSUME NEW K, GoodInputs(K), RefinementInv, algo = "hopcroft", algo' = algo, H!Next
  PROVE  Advance /\ HopcroftInv'
<1>1. HTypes /\ HopcroftInv /\ Coarse(aut, p) /\ aut \in Inputs(algo) /\ algo \in Algorithms
  BY ClassesLemma DEF RefinementInv, TypeInv
<1>2. /\ Weighs(aut, K) /\ IsMonoid(K) /\ IsUnweighted(aut)
      /\ IsDeterministic(aut) /\ IsTrim(aut) /\ IsComplete(aut) /\ IsAutomaton(aut)
  BY <1>1, InputsAssumption DEF GoodInputs
<1>3. /\ aut' = aut
      /\ HTypes'
      /\ \/ p' = p
         \/ /\ p' # p
            /\ Refines(p', p)
            /\ w' # {}
      /\ ~ H!done
  BY <1>1, HopcroftTypes
<1>4. Coarse(aut, p')
  BY <1>1, <1>2, HopcroftCoarse
<1>5. HopcroftInv'
  BY <1>1, <1>2, HopcroftStep
<1>6. /\ IsPartition(p', States(aut)) /\ {post} \in p'
      /\ Pending(aut, p', w', generators', sub_w')
      /\ FinalsPending(aut, p', w', generators', sub_w')
  <2>1. IsPartition(p', States(aut'))
    BY <1>3, HTypesLemma DEF HTypes, H!TypeOK, H!IsPartition, IsPartition, H!States, States, H!Arcs, Arcs, H!pre, pre, H!post, post
  <2>2. /\ {post} \in p'
        /\ Pending(aut', p', w', generators', sub_w')
        /\ FinalsPending(aut', p', w', generators', sub_w')
    BY <1>5 DEF HopcroftInv
  <2>. QED BY <1>3, <2>1, <2>2
<1>7. w' = {} /\ generators' = {} =>
        \A C \in p' : \A s, t \in C \ {pre} : Alike(aut, p', s, t)
  <2>. SUFFICES ASSUME w' = {}, generators' = {}
                PROVE  \A C \in p' : \A s, t \in C \ {pre} : Alike(aut, p', s, t)
    OBVIOUS
  <2>1. Pending(aut, p', {}, {}, sub_w') /\ FinalsPending(aut, p', {}, {}, sub_w')
    BY <1>6
  <2>2. PICK P : P = p'
    OBVIOUS
  <2>. QED BY <1>2, <1>6, <2>1, HopcroftStable
<1>8. /\ classes = p /\ (done <=> H!done)
      /\ classes' = p' /\ (done' <=> w' = {} /\ generators' = {})
      /\ loose = {pre}
  BY ClassesLemma, NextClassesLemma DEF H!done, loose
<1>. QED
  BY <1>3, <1>4, <1>5, <1>7, <1>8 DEF Advance

\* After a step too, the classes are a partition.
LEMMA NextPartitionLemma ==
  ASSUME TypeInv'
  PROVE  IsPartition(classes', States(aut'))
<1>1. (TypeInv => IsAutomaton(aut) /\ IsPartition(classes, States(aut)))'
  BY PartitionLemma, PTL
<1>. QED
  BY <1>1

\* Every step of every algorithm does so, and keeps the invariant.
LEMMA RefinementStep ==
  ASSUME NEW K, GoodInputs(K), RefinementInv, Next
  PROVE  Advance /\ RefinementInv'
<1>1. TypeInv'
  BY TypeNext DEF RefinementInv
<1>2. Advance /\ (algo' = "hopcroft" => HopcroftInv')
  <2>1. CASE algo = "moore" /\ M!Next /\ UNCHANGED <<algo, signature, hopcroft>>
    BY <2>1, MooreAdvance
  <2>2. CASE algo \in {"signature", "weighted"} /\ S!Next /\ UNCHANGED <<algo, moore, hopcroft>>
    BY <2>2, SignatureAdvance
  <2>3. CASE algo = "hopcroft" /\ H!Next /\ UNCHANGED <<algo, go_on, moore, signature>>
    BY <2>3, HopcroftAdvance
  <2>. QED
    BY <2>1, <2>2, <2>3, SameSignatures DEF Next
<1>3. Coarse(aut', classes')
  BY <1>2 DEF Advance
<1>. QED
  BY <1>1, <1>2, <1>3 DEF RefinementInv

\* Nothing changes when no variable does.
LEMMA StutterLemma ==
  ASSUME UNCHANGED vars
  PROVE  /\ algo' = algo /\ aut' = aut /\ classes' = classes /\ done' = done /\ loose' = loose
         /\ RefinementInv => RefinementInv'
<1>1. /\ algo' = algo /\ aut' = aut /\ go_on' = go_on /\ class_to_set' = class_to_set /\ c' = c
      /\ partition' = partition /\ candidates' = candidates /\ todo' = todo
      /\ p' = p /\ w' = w /\ sub_w' = sub_w /\ generators' = generators
  BY DEF vars, moore, signature, hopcroft
<1>2. M!classes' = M!classes
  BY <1>1 DEF M!classes
<1>3. classes' = classes
  BY <1>1, <1>2 DEF classes
<1>4. done' = done
  BY <1>1 DEF done, M!done, S!done, H!done, M!num_classes
<1>5. loose' = loose
  BY <1>1 DEF loose
<1>6. RefinementInv => RefinementInv'
  <2>1. TypeInv => TypeInv'
    BY TypeNext
  <2>2. HopcroftInv => HopcroftInv'
    BY <1>1 DEF HopcroftInv
  <2>3. Coarse(aut, classes) => Coarse(aut', classes')
    BY <1>1, <1>3
  <2>. QED BY <1>1, <2>1, <2>2, <2>3 DEF RefinementInv
<1>. QED
  BY <1>1, <1>3, <1>4, <1>5, <1>6

\* A step of the algorithm is one of the promise, or none.
LEMMA PromisedStep ==
  ASSUME NEW K, GoodInputs(K), RefinementInv, Next
  PROVE  [Promise!Split \/ Promise!Finish]_(Promise!vars)
<1>1. Advance /\ RefinementInv'
  BY RefinementStep
<1>2. aut' = aut /\ algo' = algo /\ ~ done /\ loose' = loose
  BY <1>1 DEF Advance, loose
<1>3. CASE classes' # classes
  <2>1. Refines(classes', classes) /\ ~ done' /\ Coarse(aut, classes')
    BY <1>1, <1>3 DEF Advance
  <2>2. IsPartition(classes', States(aut'))
    <3>1. TypeInv'
      BY <1>1 DEF RefinementInv
    <3>. QED BY <3>1, NextPartitionLemma
  <2>3. Promise!IsPartition(classes', Promise!States(aut)) /\ Promise!Refines(classes', classes)
    BY <1>2, <2>1, <2>2, SameOthers
  <2>4. IsAutomaton(aut)
    BY PartitionLemma DEF RefinementInv
  <2>5. Promise!CoarseEnough(classes')
    BY <2>1, <2>4, PromisedCoarse
  <2>6. UNCHANGED <<aut, loose, done>>
    BY <1>2, <2>1 DEF done, M!done, S!done, H!done
  <2>. QED
    BY <1>2, <1>3, <2>3, <2>5, <2>6 DEF Promise!Split
<1>4. CASE classes' = classes /\ done'
  <2>1. \A C \in classes : \A s, t \in C \ loose : Alike(aut, classes, s, t)
    BY <1>1, <1>4 DEF Advance
  <2>2. \A C \in classes : \A s, t \in C \ loose :
          Promise!Signature(aut, classes, s) = Promise!Signature(aut, classes, t)
    BY <2>1, SameSignature DEF Alike
  <2>3. done' = TRUE
    BY <1>4 DEF done, M!done, S!done, H!done
  <2>. QED
    BY <1>2, <1>4, <2>2, <2>3 DEF Promise!Finish
<1>5. CASE classes' = classes /\ ~ done'
  <2>1. done' = done
    BY <1>2, <1>5 DEF done, M!done, S!done, H!done
  <2>. QED
    BY <1>2, <1>5, <2>1 DEF Promise!vars
<1>. QED
  BY <1>3, <1>4, <1>5

\* Minimization, by any of the algorithms and in any order of its work, starts
\* with a partition that is coarse enough, then only splits classes that every
\* stable partition splits, and when it ends no class has states of different
\* signatures: the safety part of Refinement. That it ends is checked by TLC.
THEOREM KeepsThePromise ==
  ASSUME NEW CONSTANT K, GoodInputs(K)
  PROVE  Spec => Promise!Init /\ [][Promise!Split \/ Promise!Finish]_(Promise!vars)
<1>1. Init => RefinementInv /\ Promise!Init
  BY RefinementInit, PromisedInit
<1>2. RefinementInv /\ [Next]_vars => RefinementInv'
  BY RefinementStep, StutterLemma
<1>3. RefinementInv /\ [Next]_vars => [Promise!Split \/ Promise!Finish]_(Promise!vars)
  <2>1. UNCHANGED vars => UNCHANGED Promise!vars
    BY StutterLemma DEF Promise!vars
  <2>. QED BY <2>1, PromisedStep
<1>. QED
  BY <1>1, <1>2, <1>3, PTL DEF Spec

-----------------------------------------------------------------------------
(* The quotient. *)

\* When the algorithm ends, states of one class have the same signature, but
\* those that it has no say about.
StableAtEnd == done => \A C \in classes : \A s, t \in C \ loose : Alike(aut, classes, s, t)

\* Then the quotient by the classes has the series of the automaton.
LEMMA EndLemma ==
  ASSUME NEW K, IsSemiring(K), GoodInputs(K), RefinementInv, StableAtEnd
  PROVE  EquivalentButHopcroft
<1>. SUFFICES ASSUME algo # "hopcroft", done,
                     NEW k \in 0 .. MaxLength, NEW word \in [1 .. k -> Letter]
              PROVE  Evaluate(aut, word) = Evaluate(Quotient(aut, classes), word)
  BY DEF EquivalentButHopcroft, Equivalent, SameSeries
<1>1. IsAutomaton(aut) /\ IsPartition(classes, States(aut))
  BY PartitionLemma DEF RefinementInv
<1>2. Weighs(aut, K)
  BY DEF RefinementInv, TypeInv, GoodInputs
<1>3. \A C \in classes : \A s, t \in C : Alike(aut, classes, s, t)
  BY DEF StableAtEnd, loose
<1>4. word \in Seq(Letter)
  OBVIOUS
<1>. QED
  BY <1>1, <1>2, <1>3, <1>4, QuotientSeries

\* With weights that form a semiring, whatever the order in which Moore's
\* algorithm or that of signatures works, the quotient by the classes that it
\* ends with gives every word the weight that the automaton gives it.
THEOREM QuotientKeepsSeries ==
  ASSUME NEW CONSTANT K, IsSemiring(K), GoodInputs(K)
  PROVE  Spec => []EquivalentButHopcroft
<1>1. Init => RefinementInv /\ StableAtEnd
  BY RefinementInit DEF StableAtEnd
<1>2. RefinementInv /\ StableAtEnd /\ [Next]_vars => (RefinementInv /\ StableAtEnd)'
  <2>1. ASSUME RefinementInv, StableAtEnd, Next
        PROVE  RefinementInv' /\ StableAtEnd'
    <3>1. Advance /\ RefinementInv'
      BY <2>1, RefinementStep
    <3>2. aut' = aut /\ loose' = loose
      BY <3>1 DEF Advance, loose
    <3>. QED
      BY <3>1, <3>2 DEF Advance, StableAtEnd
  <2>2. ASSUME RefinementInv, StableAtEnd, UNCHANGED vars
        PROVE  RefinementInv' /\ StableAtEnd'
    BY <2>2, StutterLemma DEF StableAtEnd
  <2>. QED BY <2>1, <2>2
<1>3. RefinementInv /\ StableAtEnd => EquivalentButHopcroft
  BY EndLemma
<1>. QED
  BY <1>1, <1>2, <1>3, PTL DEF Spec
=============================================================================
