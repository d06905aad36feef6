--------------------------- MODULE LightestProofs ---------------------------
(***************************************************************************)
(* Lightest paths by Dijkstra's algorithm, and by A* without heuristic,    *)
(* when weights are not negative: a state that came out of the heap is     *)
(* final, and what is found is a lightest of the paths that come to no     *)
(* state twice.                                                            *)
(***************************************************************************)
EXTENDS Lightest, FiniteSetTheorems, SequenceTheorems, TLAPS

-----------------------------------------------------------------------------
(* Folds: the arcs of a state that is popped.                              *)

R == INSTANCE FoldProofs WITH
  Step <- LAMBDA f, t, r : Relaxed(r, t),
  Pick <- LastOf,
  base <- LAMBDA f : f

V == INSTANCE FoldProofs WITH
  Step <- LAMBDA f, t, r : Visited(r, t),
  Pick <- LastOf,
  base <- LAMBDA f : f

LEMMA RelaxedFold ==
  ASSUME NEW r, NEW T
  PROVE  InOrder(Relaxed, r, T) = R!Fold(r, T)
BY DEF InOrder, MapThenFoldSet, R!Fold

LEMMA VisitedFold ==
  ASSUME NEW r, NEW T
  PROVE  InOrder(Visited, r, T) = V!Fold(r, T)
BY DEF InOrder, MapThenFoldSet, V!Fold

\* Finite sets are those of every instance.
LEMMA SameFinite == \A U : (R!IsFiniteSet(U) <=> IsFiniteSet(U)) /\ (V!IsFiniteSet(U) <=> IsFiniteSet(U))
  BY DEF R!IsFiniteSet, V!IsFiniteSet, IsFiniteSet

LEMMA StrongInduction ==
  ASSUME NEW U, IsFiniteSet(U), NEW Good,
         \A T \in SUBSET U : (\A Y \in SUBSET T : Y # T => Y \in Good) => T \in Good
  PROVE  U \in Good
BY SameFinite, R!StrongInduction

\* Ranks are numbers: some arc comes last.
LEMMA LastLemma ==
  ASSUME NEW a, IsAutomaton(a), NEW U \in SUBSET Arcs(a)
  PROVE  /\ IsFiniteSet(U)
         /\ \A T \in SUBSET U : T # {} => LastOf(T) \in T
<1>1. IsFiniteSet(U)
  BY FS_Subset DEF IsAutomaton
<1>2. \A t \in U : Rank(t) \in Nat
  BY DEF IsAutomaton, Rank
<1>. DEFINE Good == {T \in SUBSET U : T # {} => \E t \in T : \A u \in T : Rank(u) <= Rank(t)}
<1>. HIDE DEF Rank
<1>3. ASSUME NEW T \in SUBSET U
      PROVE  T \in Good
  <2>1. ASSUME NEW K \in SUBSET T, \A Y \in SUBSET K : Y # K => Y \in Good
        PROVE  K \in Good
    <3>1. CASE K = {}
      BY <3>1
    <3>2. CASE K # {}
      <4>1. PICK x \in K : TRUE
        BY <3>2
      <4>2. K \ {x} \in Good
        BY <2>1, <4>1
      <4>3. CASE K \ {x} = {}
        <5>1. K = {x}
          BY <4>1, <4>3
        <5>. QED
          BY <1>2, <5>1
      <4>4. CASE K \ {x} # {}
        <5>1. PICK y \in K \ {x} : \A u \in K \ {x} : Rank(u) <= Rank(y)
          BY <4>2, <4>4
        <5>2. CASE Rank(x) <= Rank(y)
          BY <5>1, <5>2
        <5>3. CASE ~ Rank(x) <= Rank(y)
          <6>1. \A u \in K : Rank(u) <= Rank(x)
            BY <1>2, <5>1, <5>3
          <6>. QED
            BY <6>1
        <5>. QED
          BY <5>2, <5>3
      <4>. QED
        BY <4>3, <4>4
    <3>. QED
      BY <3>1, <3>2
  <2>2. IsFiniteSet(T)
    BY <1>1, FS_Subset
  <2>. HIDE DEF Good
  <2>. QED
    BY <2>1, <2>2, StrongInduction
<1>. QED
  BY <1>1, <1>3 DEF LastOf

\* The folds, an arc at a time.
LEMMA RelaxedUnrolled ==
  ASSUME NEW a, IsAutomaton(a), NEW U \in SUBSET Arcs(a), NEW r
  PROVE  /\ R!Fold(r, {}) = r
         /\ U # {} => /\ LastOf(U) \in U
                      /\ R!Fold(r, U) = Relaxed(R!Fold(r, U \ {LastOf(U)}), LastOf(U))
<1>1. R!IsFiniteSet(U) /\ R!Picks(U) /\ R!IsFiniteSet({}) /\ R!Picks({})
  BY LastLemma, SameFinite, FS_EmptySet DEF R!Picks
<1>. HIDE DEF R!Fold
<1>. QED
  BY <1>1, R!FoldUnrolled

LEMMA VisitedUnrolled ==
  ASSUME NEW a, IsAutomaton(a), NEW U \in SUBSET Arcs(a), NEW r
  PROVE  /\ V!Fold(r, {}) = r
         /\ U # {} => /\ LastOf(U) \in U
                      /\ V!Fold(r, U) = Visited(V!Fold(r, U \ {LastOf(U)}), LastOf(U))
<1>1. V!IsFiniteSet(U) /\ V!Picks(U) /\ V!IsFiniteSet({}) /\ V!Picks({})
  BY LastLemma, SameFinite, FS_EmptySet DEF V!Picks
<1>. HIDE DEF V!Fold
<1>. QED
  BY <1>1, V!FoldUnrolled

-----------------------------------------------------------------------------
(* Weights. *)

LEMMA ooLemma == W!oo \in Nat
BY DEF W!oo

\* The product is a sum, but for oo.
LEMMA mulLemma ==
  ASSUME NEW l \in Int, NEW w \in Int, w # W!oo
  PROVE  mul(l, w) = IF l = W!oo THEN W!oo ELSE l + w
BY DEF mul, W!mul

\* Weights of nmin do not make lighter.
LEMMA HeavierLemma ==
  ASSUME NEW l \in Nat, NEW w \in Nat, w # W!oo
  PROVE  mul(l, w) \in Nat /\ l <= mul(l, w)
<1>1. l \in Int /\ w \in Int
  OBVIOUS
<1>2. mul(l, w) = IF l = W!oo THEN W!oo ELSE l + w
  BY <1>1, mulLemma
<1>. QED
  BY <1>2, ooLemma

-----------------------------------------------------------------------------
(* Functions with one more value, and the heap. *)

IsPut(g, f, x, v) ==
  /\ \A y : y \in DOMAIN g <=> y \in DOMAIN f \/ y = x
  /\ g[x] = v
  /\ \A y \in DOMAIN f : y # x => g[y] = f[y]

IsOnce(g, h, s) == \A y : y \in DOMAIN g <=> y \in DOMAIN h \/ y = s

LEMMA PutLemma ==
  ASSUME NEW f, NEW x, NEW v
  PROVE  IsPut(Put(f, x, v), f, x, v)
BY DEF Put, IsPut

LEMMA OnceLemma ==
  ASSUME NEW h, NEW s
  PROVE  IsOnce(Once(h, s), h, s)
BY DEF Once, IsOnce

LEMMA PoppedLemma ==
  ASSUME NEW h, NEW s
  PROVE  /\ DOMAIN Popped(h, s) \subseteq DOMAIN h
         /\ DOMAIN h \ {s} \subseteq DOMAIN Popped(h, s)
         /\ s \in DOMAIN h /\ h[s] = 1 => s \notin DOMAIN Popped(h, s)
BY DEF Popped

-----------------------------------------------------------------------------
(* What is out of the heap is final.                                       *)

\* Dijkstra's algorithm, from any source: what was reached and is out of the
\* heap is nearer than what is in it.  The source is in the heap at first,
\* and comes back only when an arc leads to it.
Kept(r, s) ==
  /\ DOMAIN r.dist = DOMAIN r.res \union {s}
  /\ \A x \in DOMAIN r.dist : r.dist[x] \in Nat
  /\ IF DOMAIN r.res = {} /\ DOMAIN r.todo # {} THEN r.todo = [t \in {s} |-> 1]
     ELSE DOMAIN r.todo \subseteq DOMAIN r.res
  /\ \A x \in DOMAIN r.res \ DOMAIN r.todo, y \in DOMAIN r.todo : r.dist[x] <= r.dist[y]

\* While the arcs of a state at distance low, in popped, are relaxed.
Relaxing(r, s, at, low, known) ==
  /\ DOMAIN r.dist = DOMAIN r.res \union {s}
  /\ \A x \in DOMAIN r.dist : r.dist[x] \in Nat
  /\ at \in DOMAIN r.dist /\ low <= r.dist[at]
  /\ DOMAIN r.todo \subseteq DOMAIN r.res
  /\ \A x \in DOMAIN r.res \ DOMAIN r.todo : r.dist[x] <= low
  /\ \A x \in DOMAIN r.todo : low <= r.dist[x]
  /\ \A x \in DOMAIN known.res \ DOMAIN known.todo :
       x \in DOMAIN r.res \ DOMAIN r.todo /\ r.res[x] = known.res[x]

\* The records that Relaxed makes.
LEMMA RelaxedLemma ==
  ASSUME NEW r, NEW t
  PROVE  LET nv == mul(r.dist[t.src], aut[t])
             q == Relaxed(r, t)
         IN  /\ t.dst \notin DOMAIN r.res =>
                  /\ q.res = Put(r.res, t.dst, t)
                  /\ q.dist = Put(r.dist, t.dst, nv)
                  /\ q.todo = Once(r.todo, t.dst)
             /\ t.dst \in DOMAIN r.res /\ nv < r.dist[t.dst] =>
                  /\ q.res = Put(r.res, t.dst, t)
                  /\ q.dist = Put(r.dist, t.dst, nv)
                  /\ q.todo = r.todo
             /\ t.dst \in DOMAIN r.res /\ ~ nv < r.dist[t.dst] => q = r
BY DEF Relaxed

LEMMA RelaxingStep ==
  ASSUME IsAutomaton(aut), \A u \in Arcs(aut) : aut[u] \in Nat,
         NEW r, NEW s, NEW at, NEW low \in Nat, NEW known, Relaxing(r, s, at, low, known),
         NEW t \in Arcs(aut), t.src = at
  PROVE  Relaxing(Relaxed(r, t), s, at, low, known)
<1>. DEFINE nv == mul(r.dist[at], aut[t])
            q == Relaxed(r, t)
            y == t.dst
<1>1. /\ r.dist[at] \in Nat
      /\ aut[t] \in Nat
      /\ aut[t] # W!oo
  BY DEF Relaxing, IsAutomaton
<1>2. nv \in Nat /\ low <= nv
  <2>1. nv \in Nat /\ r.dist[at] <= nv
    BY <1>1, HeavierLemma
  <2>2. low <= r.dist[at]
    BY DEF Relaxing
  <2>. HIDE DEF nv
  <2>. QED
    BY <1>1, <2>1, <2>2
<1>3. /\ y \notin DOMAIN r.res =>
           q.res = Put(r.res, y, t) /\ q.dist = Put(r.dist, y, nv) /\ q.todo = Once(r.todo, y)
      /\ y \in DOMAIN r.res /\ nv < r.dist[y] =>
           q.res = Put(r.res, y, t) /\ q.dist = Put(r.dist, y, nv) /\ q.todo = r.todo
      /\ y \in DOMAIN r.res /\ ~ nv < r.dist[y] => q = r
  BY RelaxedLemma
<1>. SUFFICES Relaxing(q, s, at, low, known)
  OBVIOUS
<1>. HIDE DEF nv, q, y
<1>4. CASE y \notin DOMAIN r.res
  <2>1. IsPut(q.res, r.res, y, t) /\ IsPut(q.dist, r.dist, y, nv) /\ IsOnce(q.todo, r.todo, y)
    BY <1>3, <1>4, PutLemma, OnceLemma
  <2>. QED
    BY <1>2, <1>4, <2>1 DEF Relaxing, IsPut, IsOnce
<1>5. CASE y \in DOMAIN r.res /\ nv < r.dist[y]
  <2>1. r.dist[y] \in Nat
    BY <1>5 DEF Relaxing
  <2>2. y \in DOMAIN r.todo
    BY <1>2, <1>5, <2>1 DEF Relaxing
  <2>3. IsPut(q.res, r.res, y, t) /\ IsPut(q.dist, r.dist, y, nv)
    BY <1>3, <1>5, PutLemma
  <2>4. q.todo = r.todo
    BY <1>3, <1>5
  <2>. QED
    BY <1>2, <1>5, <2>1, <2>2, <2>3, <2>4 DEF Relaxing, IsPut
<1>6. CASE y \in DOMAIN r.res /\ ~ nv < r.dist[y]
  BY <1>3, <1>6
<1>. QED
  BY <1>4, <1>5, <1>6

LEMMA RelaxingFold ==
  ASSUME IsAutomaton(aut), \A u \in Arcs(aut) : aut[u] \in Nat,
         NEW r, NEW s, NEW at, NEW low \in Nat, NEW known, Relaxing(r, s, at, low, known),
         NEW U \in SUBSET Arcs(aut), \A t \in U : t.src = at
  PROVE  Relaxing(InOrder(Relaxed, r, U), s, at, low, known)
<1>. DEFINE Good == {T \in SUBSET U : Relaxing(R!Fold(r, T), s, at, low, known)}
<1>. HIDE DEF R!Fold
<1>1. ASSUME NEW T \in SUBSET U, \A Y \in SUBSET T : Y # T => Y \in Good
      PROVE  T \in Good
  <2>. DEFINE t == LastOf(T)
  <2>1. /\ R!Fold(r, {}) = r
        /\ T # {} => t \in T /\ R!Fold(r, T) = Relaxed(R!Fold(r, T \ {t}), t)
    BY RelaxedUnrolled
  <2>2. CASE T = {}
    BY <2>1, <2>2
  <2>3. CASE T # {}
    <3>1. t \in T
      BY <2>1, <2>3
    <3>. HIDE DEF t
    <3>2. T \ {t} \in Good
      BY <1>1, <3>1
    <3>3. t \in Arcs(aut) /\ t.src = at
      BY <3>1
    <3>4. Relaxing(Relaxed(R!Fold(r, T \ {t}), t), s, at, low, known)
      BY <3>2, <3>3, RelaxingStep
    <3>. QED
      BY <2>1, <2>3, <3>4
  <2>. QED
    BY <2>2, <2>3
<1>2. IsFiniteSet(U)
  BY LastLemma
<1>3. U \in Good
  <2>. HIDE DEF Good
  <2>. QED
    BY <1>1, <1>2, StrongInduction
<1>. QED
  BY <1>3, RelaxedFold

LEMMA DijkstraKeeps ==
  ASSUME IsAutomaton(aut), \A u \in Arcs(aut) : aut[u] \in Nat, view \subseteq Arcs(aut),
         Kept([res |-> res, dist |-> dist, todo |-> todo], source),
         NEW s, DijkstraPop(s)
  PROVE  /\ Kept([res |-> res', dist |-> dist', todo |-> todo'], source)
         /\ \A x \in DOMAIN res : res'[x] # res[x] => x \in DOMAIN todo
<1>. DEFINE known == [res |-> res, dist |-> dist, todo |-> todo]
            r0 == [res |-> res, dist |-> dist, todo |-> Popped(todo, s)]
            U == IF s = dest THEN {} ELSE view \intersect Out(aut, s)
            q == InOrder(Relaxed, r0, U)
            low == dist[s]
<1>1. /\ s \in DOMAIN todo
      /\ \A t \in DOMAIN todo : ~ Before(t, s)
      /\ res' = q.res /\ dist' = q.dist /\ todo' = q.todo
  BY DEF DijkstraPop, Tops
<1>2. /\ U \in SUBSET Arcs(aut)
      /\ \A t \in U : t.src = s
  BY DEF Out
<1>3. /\ DOMAIN Popped(todo, s) \subseteq DOMAIN todo
      /\ DOMAIN todo \ {s} \subseteq DOMAIN Popped(todo, s)
      /\ todo[s] = 1 => s \notin DOMAIN Popped(todo, s)
  BY <1>1, PoppedLemma
<1>4. Relaxing(r0, source, s, low, known) /\ low \in Nat
  <2>1. CASE DOMAIN res = {}
    <3>1. todo = [t \in {source} |-> 1]
      BY <1>1, <2>1 DEF Kept
    <3>2. s = source /\ DOMAIN Popped(todo, s) = {}
      BY <1>1, <1>3, <3>1
    <3>. QED
      BY <2>1, <3>2 DEF Kept, Relaxing
  <2>2. CASE DOMAIN res # {}
    <3>1. DOMAIN todo \subseteq DOMAIN res
      BY <2>2 DEF Kept
    <3>2. \A x \in DOMAIN todo : dist[s] <= dist[x]
      BY <1>1, <3>1 DEF Kept, Before
    <3>3. \A x \in DOMAIN res \ DOMAIN Popped(todo, s) : dist[x] <= dist[s]
      BY <1>1, <1>3, <3>1 DEF Kept
    <3>. QED
      BY <1>1, <1>3, <3>1, <3>2, <3>3 DEF Kept, Relaxing
  <2>. QED
    BY <2>1, <2>2
<1>. HIDE DEF U, low, known, r0
<1>5. Relaxing(q, source, s, low, known)
  BY <1>2, <1>4, RelaxingFold
<1>. HIDE DEF q
<1>6. \A x \in DOMAIN res : res'[x] # res[x] => x \in DOMAIN todo
  BY <1>1, <1>5 DEF Relaxing, known
<1>7. Kept([res |-> q.res, dist |-> q.dist, todo |-> q.todo], source)
  <2>1. \A x \in DOMAIN q.res \ DOMAIN q.todo, y \in DOMAIN q.todo : q.dist[x] <= q.dist[y]
    BY <1>4, <1>5 DEF Relaxing
  <2>2. DOMAIN q.todo \subseteq DOMAIN q.res
    BY <1>5 DEF Relaxing
  <2>. QED
    BY <1>5, <2>1, <2>2 DEF Relaxing, Kept
<1>. QED
  BY <1>1, <1>6, <1>7

\* A*: what was reached is in the heap, or is done.
Searched(r) == r = [res |-> r.res, dist |-> r.dist, todo |-> r.todo, done |-> r.done]
Waiting(r) == DOMAIN r.res \subseteq DOMAIN r.todo \union r.done

\* While the arcs of a state are visited.
Visiting(r, over, known) ==
  /\ Searched(r) /\ Waiting(r)
  /\ r.done = over
  /\ \A x \in DOMAIN known : x \in DOMAIN r.res /\ (x \in over => r.res[x] = known[x])

\* The records that Visited makes.
LEMMA VisitedLemma ==
  ASSUME NEW r, Searched(r), NEW t
  PROVE  LET nw == mul(r.dist[t.src], aut[t])
             better == t.dst \notin DOMAIN r.res \/ nw < r.dist[t.dst]
             q == Visited(r, t)
         IN  /\ Searched(q) /\ q.done = r.done
             /\ t.dst \in r.done => q = r
             /\ t.dst \notin r.done => q.todo = Once(r.todo, t.dst)
             /\ t.dst \notin r.done /\ better =>
                  q.res = Put(r.res, t.dst, t) /\ q.dist = Put(r.dist, t.dst, nw)
             /\ t.dst \notin r.done /\ ~ better => q.res = r.res /\ q.dist = r.dist
<1>. DEFINE nw == mul(r.dist[t.src], aut[t])
            better == t.dst \notin DOMAIN r.res \/ nw < r.dist[t.dst]
            q == Visited(r, t)
            next == [res  |-> IF better THEN Put(r.res, t.dst, t) ELSE r.res,
                     dist |-> IF better THEN Put(r.dist, t.dst, nw) ELSE r.dist,
                     todo |-> Once(r.todo, t.dst), done |-> r.done]
<1>1. t.dst \notin r.done => q = next
  <2>. HIDE DEF nw
  <2>. QED
    BY DEF Visited, Searched, nw
<1>2. t.dst \in r.done => q = r
  BY DEF Visited
<1>. HIDE DEF q, nw, better
<1>3. CASE t.dst \in r.done
  BY <1>2, <1>3 DEF q, nw, better
<1>4. CASE t.dst \notin r.done
  <2>1. q = next
    BY <1>1, <1>4
  <2>2. Searched(next)
    BY DEF Searched
  <2>. QED
    BY <1>4, <2>1, <2>2 DEF q, nw, better
<1>. QED
  BY <1>3, <1>4

LEMMA VisitingStep ==
  ASSUME NEW r, NEW over, NEW known, Visiting(r, over, known), NEW t
  PROVE  Visiting(Visited(r, t), over, known)
<1>. DEFINE nw == mul(r.dist[t.src], aut[t])
            better == t.dst \notin DOMAIN r.res \/ nw < r.dist[t.dst]
            q == Visited(r, t)
            y == t.dst
<1>1. /\ Searched(q) /\ q.done = r.done
      /\ y \in r.done => q = r
      /\ y \notin r.done => q.todo = Once(r.todo, y)
      /\ y \notin r.done /\ better => q.res = Put(r.res, y, t)
      /\ y \notin r.done /\ ~ better => q.res = r.res
  BY VisitedLemma DEF Visiting
<1>. SUFFICES Visiting(q, over, known)
  OBVIOUS
<1>. HIDE DEF nw, better, q, y
<1>2. CASE y \in r.done
  BY <1>1, <1>2
<1>3. CASE y \notin r.done /\ better
  <2>1. IsPut(q.res, r.res, y, t) /\ IsOnce(q.todo, r.todo, y)
    BY <1>1, <1>3, PutLemma, OnceLemma
  <2>. QED
    BY <1>1, <1>3, <2>1 DEF Visiting, Waiting, IsPut, IsOnce
<1>4. CASE y \notin r.done /\ ~ better
  <2>1. IsOnce(q.todo, r.todo, y) /\ q.res = r.res
    BY <1>1, <1>4, OnceLemma
  <2>. QED
    BY <1>1, <1>4, <2>1 DEF Visiting, Waiting, IsOnce
<1>. QED
  BY <1>2, <1>3, <1>4

LEMMA VisitingFold ==
  ASSUME IsAutomaton(aut), NEW r, NEW over, NEW known, Visiting(r, over, known),
         NEW U \in SUBSET Arcs(aut)
  PROVE  Visiting(InOrder(Visited, r, U), over, known)
<1>. DEFINE Good == {T \in SUBSET U : Visiting(V!Fold(r, T), over, known)}
<1>. HIDE DEF V!Fold
<1>1. ASSUME NEW T \in SUBSET U, \A Y \in SUBSET T : Y # T => Y \in Good
      PROVE  T \in Good
  <2>. DEFINE t == LastOf(T)
  <2>1. /\ V!Fold(r, {}) = r
        /\ T # {} => t \in T /\ V!Fold(r, T) = Visited(V!Fold(r, T \ {t}), t)
    BY VisitedUnrolled
  <2>2. CASE T = {}
    BY <2>1, <2>2
  <2>3. CASE T # {}
    <3>1. t \in T
      BY <2>1, <2>3
    <3>. HIDE DEF t
    <3>2. T \ {t} \in Good
      BY <1>1, <3>1
    <3>3. Visiting(Visited(V!Fold(r, T \ {t}), t), over, known)
      BY <3>2, VisitingStep
    <3>. QED
      BY <2>1, <2>3, <3>3
  <2>. QED
    BY <2>2, <2>3
<1>2. IsFiniteSet(U)
  BY LastLemma
<1>3. U \in Good
  <2>. HIDE DEF Good
  <2>. QED
    BY <1>1, <1>2, StrongInduction
<1>. QED
  BY <1>3, VisitedFold

LEMMA AStarKeeps ==
  ASSUME IsAutomaton(aut), view \subseteq Arcs(aut),
         DOMAIN res \subseteq DOMAIN todo \union done, NEW s, AStarPop(s)
  PROVE  /\ DOMAIN res' \subseteq DOMAIN todo' \union done'
         /\ \A x \in DOMAIN res : res'[x] # res[x] => x \in DOMAIN todo
<1>. DEFINE r0 == [res |-> res, dist |-> dist, todo |-> Popped(todo, s), done |-> done \union {s}]
            U == view \intersect Out(aut, s)
            q == InOrder(Visited, r0, U)
<1>1. res' = q.res /\ dist' = q.dist /\ todo' = q.todo /\ done' = q.done
  BY DEF AStarPop
<1>2. U \in SUBSET Arcs(aut)
  BY DEF Out
<1>3. DOMAIN todo \ {s} \subseteq DOMAIN Popped(todo, s)
  BY PoppedLemma
<1>4. Visiting(r0, done \union {s}, res)
  BY <1>3 DEF Visiting, Searched, Waiting
<1>. HIDE DEF U, r0
<1>5. Visiting(q, done \union {s}, res)
  BY <1>2, <1>4, VisitingFold
<1>. QED
  BY <1>1, <1>5 DEF Visiting, Waiting

\* Yen's algorithm hides some arcs and starts elsewhere; every search begins
\* with its source alone in the heap.
HeapInv ==
  /\ ask \in Requests /\ aut \in Networks(ask) /\ view \subseteq Arcs(aut)
  /\ status = "searching" =>
       /\ Algo \in {"dijkstra", "yen"} =>
            Kept([res |-> res, dist |-> dist, todo |-> todo], source)
       /\ Algo = "a-star" => DOMAIN res \subseteq DOMAIN todo \union done

\* Dijkstra's algorithm is not for weights that may be negative.
NotNegative == \A q \in Requests : q.ws = "zmin" => q.algo \notin {"dijkstra", "yen"}

LEMMA WeightsLemma ==
  ASSUME NotNegative, ask \in Requests, aut \in Networks(ask)
  PROVE  /\ IsAutomaton(aut)
         /\ Algo \in {"dijkstra", "yen"} => \A t \in Arcs(aut) : aut[t] \in Nat
<1>1. IsAutomaton(aut)
  BY NetworksAssumption
<1>2. Algo \in {"dijkstra", "yen"} => ask.ws = "nmin"
  BY RequestsAssumption DEF NotNegative, Algo, has_lightening_weights
<1>. QED
  BY <1>1, <1>2, NetworksAssumption

LEMMA BeginLemma ==
  ASSUME NEW arcs, NEW s, NEW d, Begin(arcs, s, d)
  PROVE  Kept([res |-> res', dist |-> dist', todo |-> todo'], s) /\ DOMAIN res' = {} /\ source' = s
BY DEF Begin, Kept

\* The steps that change what the invariant is about.
LEMMA NextLemma ==
  ASSUME Next
  PROVE  /\ ask' = ask /\ num' = num /\ aut' = aut
         /\ \/ Call
            \/ Step
            \/ Spur
            \/ status' # "searching" /\ view' = view
            \/ UNCHANGED <<status, search>>
<1>1. CASE Call \/ Step
  BY <1>1 DEF Call, Step
<1>2. CASE Found
  BY <1>2 DEF Found, search
<1>3. CASE Yen
  <2>1. ask' = ask /\ num' = num /\ aut' = aut
    BY <1>3 DEF Yen
  <2>2. First \/ Spur \/ Spurred \/ NoMore \/ \E p \in heap : Take(p)
    BY <1>3 DEF Yen
  <2>. QED
    BY <2>1, <2>2 DEF First, Spurred, NoMore, Take, search
<1>4. CASE Serve
  BY <1>4 DEF Serve
<1>5. CASE Served \/ Answered
  BY <1>5 DEF Served, Answered, vars, search
<1>. QED
  BY <1>1, <1>2, <1>3, <1>4, <1>5 DEF Next

LEMMA HeapInit == Init => HeapInv
BY DEF Init, HeapInv

LEMMA HeapNext ==
  ASSUME NotNegative, HeapInv, [Next]_vars
  PROVE  /\ HeapInv'
         /\ (status = "searching" /\ status' = "searching" =>
               \A s \in DOMAIN res : res'[s] # res[s] => s \in DOMAIN todo
                                                         \/ Algo = "bellman-ford")
<1>0. /\ IsAutomaton(aut)
      /\ Algo \in {"dijkstra", "yen"} => \A t \in Arcs(aut) : aut[t] \in Nat
  BY WeightsLemma DEF HeapInv
<1>. DEFINE Kept0 == Kept([res |-> res, dist |-> dist, todo |-> todo], source)
            Kept1 == Kept([res |-> res', dist |-> dist', todo |-> todo'], source')
            Final == \A s \in DOMAIN res : res'[s] # res[s] => s \in DOMAIN todo
<1>1. ASSUME ask' = ask, num' = num, aut' = aut
      PROVE  /\ Algo' = Algo
             /\ ask' \in Requests /\ aut' \in Networks(ask') /\ Arcs(aut)' = Arcs(aut)
             /\ \/ status' # "searching" /\ view' \subseteq Arcs(aut)
                \/ /\ view' \subseteq Arcs(aut)
                   /\ Algo \in {"dijkstra", "yen"} => Kept1
                   /\ Algo = "a-star" => DOMAIN res' \subseteq DOMAIN todo' \union done'
                => HeapInv'
  BY <1>1 DEF HeapInv, Algo, has_lightening_weights, Arcs
<1>2. CASE Call
  <2>1. /\ ask' = ask /\ num' = num /\ aut' = aut /\ status = "called"
        /\ \/ status' # "searching" /\ view' = view
           \/ Begin(Arcs(aut), pre, post)
    BY <1>2 DEF Call, search
  <2>2. CASE status' # "searching" /\ view' = view
    BY <1>1, <2>1, <2>2 DEF HeapInv
  <2>3. CASE Begin(Arcs(aut), pre, post)
    <3>1. view' = Arcs(aut) /\ Kept1 /\ DOMAIN res' = {}
      BY <2>3, BeginLemma DEF Begin
    <3>. HIDE DEF Kept1
    <3>. QED
      BY <1>1, <2>1, <3>1
  <2>. QED
    BY <2>1, <2>2, <2>3
<1>3. CASE Step
  <2>1. /\ ask' = ask /\ num' = num /\ aut' = aut /\ status = "searching" /\ status' = status
        /\ \/ Algo \in {"dijkstra", "yen"} /\ \E s \in Tops : DijkstraPop(s)
           \/ Algo = "a-star" /\ \E s \in Tops : AStarPop(s)
           \/ Algo = "bellman-ford" /\ BellmanFordPass
    BY <1>3 DEF Step
  <2>2. ASSUME Algo \in {"dijkstra", "yen"}, NEW s \in Tops, DijkstraPop(s)
        PROVE  HeapInv' /\ Final
    <3>1. Kept0 /\ view \subseteq Arcs(aut)
      BY <2>1, <2>2 DEF HeapInv
    <3>2. view' = view /\ source' = source
      BY <2>2 DEF DijkstraPop
    <3>3. Kept1 /\ Final
      BY <1>0, <2>2, <3>1, <3>2, DijkstraKeeps
    <3>. HIDE DEF Kept1, Final
    <3>. QED
      BY <1>1, <2>1, <2>2, <3>1, <3>2, <3>3
  <2>3. ASSUME Algo = "a-star", NEW s \in Tops, AStarPop(s)
        PROVE  HeapInv' /\ Final
    <3>1. DOMAIN res \subseteq DOMAIN todo \union done /\ view \subseteq Arcs(aut)
      BY <2>1, <2>3 DEF HeapInv
    <3>2. view' = view
      BY <2>3 DEF AStarPop
    <3>3. DOMAIN res' \subseteq DOMAIN todo' \union done' /\ Final
      BY <1>0, <2>3, <3>1, AStarKeeps
    <3>. HIDE DEF Final
    <3>. QED
      BY <1>1, <2>1, <2>3, <3>1, <3>2, <3>3
  <2>4. CASE Algo = "bellman-ford" /\ BellmanFordPass
    <3>1. view' = view
      BY <2>4 DEF BellmanFordPass
    <3>. QED
      BY <1>1, <2>1, <2>4, <3>1 DEF HeapInv
  <2>. HIDE DEF Final
  <2>5. HeapInv' /\ (Final \/ Algo = "bellman-ford")
    BY <2>1, <2>2, <2>3, <2>4
  <2>. QED
    BY <2>5 DEF Final
<1>4. CASE ask' = ask /\ num' = num /\ aut' = aut /\ Spur
  <2>1. status = "spurring" /\ \E E : E \subseteq Arcs(aut) /\ Begin(E, SpurNode, post)
    BY <1>4 DEF Spur
  <2>2. view' \subseteq Arcs(aut) /\ Kept1 /\ DOMAIN res' = {}
    BY <2>1, BeginLemma DEF Begin
  <2>. HIDE DEF Kept1
  <2>. QED
    BY <1>1, <1>4, <2>1, <2>2
<1>5. CASE ask' = ask /\ num' = num /\ aut' = aut /\ status' # "searching" /\ view' = view
  BY <1>1, <1>5 DEF HeapInv
<1>6. CASE ask' = ask /\ num' = num /\ aut' = aut /\ UNCHANGED <<status, search>>
  BY <1>6 DEF HeapInv, search, Algo, has_lightening_weights
<1>7. CASE UNCHANGED vars
  BY <1>7 DEF HeapInv, vars, search, Algo, has_lightening_weights
<1>. QED
  BY <1>2, <1>3, <1>4, <1>5, <1>6, <1>7, NextLemma

\* The arc by which a state was reached is another one later only if the
\* state is in the heap, unless Dijkstra's algorithm is given weights that may
\* be negative.
THEOREM PoppedStaysFinal == ASSUME NotNegative PROVE Spec => PoppedIsFinal
<1>1. Spec => []HeapInv
  BY HeapInit, HeapNext, PTL DEF Spec
<1>2. ASSUME HeapInv, [Next]_vars
      PROVE  [status = "searching" /\ status' = "searching" =>
                \A s \in DOMAIN res : res'[s] # res[s] => s \in DOMAIN todo
                                                          \/ Algo = "bellman-ford"]_vars
  BY <1>2, HeapNext
<1>. QED
  BY <1>1, <1>2, PTL DEF Spec, PoppedIsFinal

-----------------------------------------------------------------------------
(* The distances of Dijkstra's algorithm and of A*, from pre.              *)

\* The arcs of res are a tree, once what is over is reached, and dist says how
\* far from pre.
Tree(r, over) ==
  /\ \A x : x \in DOMAIN r.dist <=> x \in DOMAIN r.res \/ x = pre
  /\ pre \notin DOMAIN r.res /\ r.dist[pre] = 0
  /\ \A x \in DOMAIN r.dist : r.dist[x] \in Nat
  /\ \A x \in DOMAIN r.res :
       /\ r.res[x] \in Arcs(aut) /\ r.res[x].dst = x /\ r.res[x].src \in over
       /\ r.dist[x] = r.dist[r.res[x].src] + aut[r.res[x]]
  /\ over \subseteq DOMAIN r.dist /\ DOMAIN r.todo \subseteq DOMAIN r.dist
  /\ \A x \in DOMAIN r.dist : x \in over \/ x \in DOMAIN r.todo

\* Whatever states are over, some of them is reached from elsewhere.
Rooted(r, over) ==
  \A X \in SUBSET over : X # {} /\ X \subseteq DOMAIN r.res => \E x \in X : r.res[x].src \notin X

\* What is over is nearer than what waits.
Nearer(r, over) == \A x \in over, y \in DOMAIN r.todo : r.dist[x] <= r.dist[y]

\* No arc of these makes a distance smaller.
Spread(r, arcs) ==
  \A t \in arcs : t.dst \in DOMAIN r.dist /\ r.dist[t.dst] <= r.dist[t.src] + aut[t]

\* When no weight is above b, the distances stay below the overflow.
Bounded(r, over, b) ==
  /\ \A x \in DOMAIN r.dist : r.dist[x] <= b * Cardinality(over)
  /\ \A x \in over : r.dist[x] + b <= b * Cardinality(over)

\* As long as pre is in the heap, it is there alone and once.
Starts(r, over) ==
  pre \in DOMAIN r.todo => r.todo = [t \in {pre} |-> 1] /\ DOMAIN r.res = {} /\ over = {}

From(over) == {t \in Arcs(aut) : t.src \in over}

Distances(r, over, b) ==
  /\ Tree(r, over) /\ Rooted(r, over) /\ Nearer(r, over) /\ Spread(r, From(over))
  /\ Bounded(r, over, b) /\ Starts(r, over)

Bounds(a, b) ==
  /\ b * Cardinality(States(a)) < W!oo
  /\ \A t \in Arcs(a) : a[t] <= b
Bound == CHOOSE b \in 0 .. W!oo : Bounds(aut, b)

\* One path was asked for, by one of these algorithms.
Nearest == num = 1 /\ ask.ws = "nmin" /\ Algo \in {"dijkstra", "a-star"}

DistanceInv ==
  /\ ask \in Requests /\ aut \in Networks(ask) /\ num = ask.num
  /\ Nearest /\ status # "called" =>
       /\ status \in {"searching", "done"}
       /\ status = "searching" =>
            /\ source = pre /\ dest = post /\ view = Arcs(aut)
            /\ Distances([res |-> res, dist |-> dist, todo |-> todo], done, Bound)
            /\ Algo = "a-star" => post \notin done

\* While the arcs of a state are followed, which is at distance low, and over
\* like those before: what is over keeps its arcs and distances, and the
\* distances of known only get smaller.
Growing(r, over, at, low, cap, known, arcs) ==
  /\ Tree(r, over)
  /\ at \in over /\ r.dist[at] = low
  /\ \A x \in over : /\ r.dist[x] = known.dist[x] /\ r.dist[x] <= low
                     /\ x \in DOMAIN r.res => x \in DOMAIN known.res /\ r.res[x] = known.res[x]
  /\ \A x \in DOMAIN r.todo : low <= r.dist[x] /\ x # pre
  /\ \A x \in DOMAIN r.dist : r.dist[x] <= cap
  /\ \A x \in DOMAIN known.dist : /\ known.dist[x] \in Nat
                                   /\ x \in DOMAIN r.dist /\ r.dist[x] <= known.dist[x]
  /\ Spread(r, arcs)

\* What an arc t makes of r, whose weight gives the distance nv to its end:
\* nothing, or a shorter way to a state that is not over.
Grown(q, r, t, over, nv) ==
  /\ \A y : y \in DOMAIN q.todo <=> y \in DOMAIN r.todo \/ (y = t.dst /\ t.dst \notin over)
  /\ \/ /\ q.res = r.res /\ q.dist = r.dist
        /\ t.dst \in DOMAIN r.dist /\ r.dist[t.dst] <= nv
     \/ /\ t.dst \notin over
        /\ IsPut(q.res, r.res, t.dst, t) /\ IsPut(q.dist, r.dist, t.dst, nv)
        /\ t.dst \in DOMAIN r.dist => nv <= r.dist[t.dst]

\* The distance that an arc gives.
LEMMA ReachLemma ==
  ASSUME IsAutomaton(aut), NEW t \in Arcs(aut), aut[t] \in Nat,
         NEW r, NEW low \in Nat, r.dist[t.src] = low,
         NEW cap \in Nat, low + aut[t] <= cap, cap < W!oo
  PROVE  /\ mul(r.dist[t.src], aut[t]) = low + aut[t]
         /\ low + aut[t] \in Nat /\ low <= low + aut[t]
         /\ t.dst # pre
<1>1. aut[t] # W!oo /\ t.dst # pre
  BY DEF IsAutomaton
<1>2. low # W!oo /\ low \in Int /\ aut[t] \in Int
  BY ooLemma
<1>3. mul(low, aut[t]) = low + aut[t]
  BY <1>1, <1>2, mulLemma
<1>. QED
  BY <1>1, <1>3

LEMMA RelaxedGrows ==
  ASSUME IsAutomaton(aut), NEW t \in Arcs(aut), aut[t] \in Nat,
         NEW r, NEW over, NEW low \in Nat, NEW cap, NEW known, NEW arcs,
         Growing(r, over, t.src, low, cap, known, arcs),
         cap \in Nat, low + aut[t] <= cap, cap < W!oo
  PROVE  Grown(Relaxed(r, t), r, t, over, low + aut[t])
<1>. DEFINE nv == low + aut[t]
            q == Relaxed(r, t)
            y == t.dst
<1>1. /\ mul(r.dist[t.src], aut[t]) = nv
      /\ nv \in Nat /\ low <= nv /\ y # pre
  BY ReachLemma DEF Growing
<1>2. /\ y \notin DOMAIN r.res =>
           q.res = Put(r.res, y, t) /\ q.dist = Put(r.dist, y, nv) /\ q.todo = Once(r.todo, y)
      /\ y \in DOMAIN r.res /\ nv < r.dist[y] =>
           q.res = Put(r.res, y, t) /\ q.dist = Put(r.dist, y, nv) /\ q.todo = r.todo
      /\ y \in DOMAIN r.res /\ ~ nv < r.dist[y] => q = r
  BY <1>1, RelaxedLemma
<1>. SUFFICES Grown(q, r, t, over, nv)
  OBVIOUS
<1>3. \A x : x \in DOMAIN r.dist <=> x \in DOMAIN r.res \/ x = pre
  BY DEF Growing, Tree
<1>4. /\ \A x \in DOMAIN r.dist : r.dist[x] \in Nat /\ (x \in over \/ x \in DOMAIN r.todo)
      /\ \A x \in over : x \in DOMAIN r.dist /\ r.dist[x] <= low
      /\ \A x \in DOMAIN r.todo : x \in DOMAIN r.dist
  BY DEF Growing, Tree
<1>. HIDE DEF nv, q
<1>5. CASE y \notin DOMAIN r.res
  <2>1. IsPut(q.res, r.res, y, t) /\ IsPut(q.dist, r.dist, y, nv) /\ IsOnce(q.todo, r.todo, y)
    BY <1>2, <1>5, PutLemma, OnceLemma
  <2>2. y \notin DOMAIN r.dist /\ y \notin over
    BY <1>1, <1>3, <1>4, <1>5
  <2>3. \A x : x \in DOMAIN q.todo <=> x \in DOMAIN r.todo \/ x = y
    BY <2>1 DEF IsOnce
  <2>. QED
    BY <2>1, <2>2, <2>3 DEF Grown
<1>6. CASE y \in DOMAIN r.res /\ nv < r.dist[y]
  <2>1. IsPut(q.res, r.res, y, t) /\ IsPut(q.dist, r.dist, y, nv) /\ q.todo = r.todo
    BY <1>2, <1>6, PutLemma
  <2>2. y \in DOMAIN r.dist /\ r.dist[y] \in Nat
    BY <1>3, <1>4, <1>6
  <2>3. y \notin over /\ y \in DOMAIN r.todo /\ nv <= r.dist[y]
    BY <1>1, <1>4, <1>6, <2>2
  <2>. QED
    BY <2>1, <2>3 DEF Grown
<1>7. CASE y \in DOMAIN r.res /\ ~ nv < r.dist[y]
  <2>1. q = r
    BY <1>2, <1>7
  <2>2. y \in DOMAIN r.dist /\ r.dist[y] \in Nat
    BY <1>3, <1>4, <1>7
  <2>3. r.dist[y] <= nv /\ (y \notin over => y \in DOMAIN r.todo)
    BY <1>1, <1>4, <1>7, <2>2
  <2>. QED
    BY <2>1, <2>2, <2>3 DEF Grown
<1>. QED
  BY <1>5, <1>6, <1>7

LEMMA VisitedGrows ==
  ASSUME IsAutomaton(aut), NEW t \in Arcs(aut), aut[t] \in Nat,
         NEW r, NEW over, NEW low \in Nat, NEW cap, NEW known, NEW arcs,
         Growing(r, over, t.src, low, cap, known, arcs), Searched(r), r.done = over,
         cap \in Nat, low + aut[t] <= cap, cap < W!oo
  PROVE  /\ Grown(Visited(r, t), r, t, over, low + aut[t])
         /\ Searched(Visited(r, t)) /\ Visited(r, t).done = over
<1>. DEFINE nv == low + aut[t]
            q == Visited(r, t)
            y == t.dst
            better == y \notin DOMAIN r.res \/ nv < r.dist[y]
<1>1. /\ mul(r.dist[t.src], aut[t]) = nv
      /\ nv \in Nat /\ low <= nv /\ y # pre
  BY ReachLemma DEF Growing
<1>. DEFINE nw == mul(r.dist[t.src], aut[t])
            shorter == y \notin DOMAIN r.res \/ nw < r.dist[y]
<1>0. /\ Searched(q) /\ q.done = r.done
      /\ y \in r.done => q = r
      /\ y \notin r.done => q.todo = Once(r.todo, y)
      /\ y \notin r.done /\ shorter => q.res = Put(r.res, y, t) /\ q.dist = Put(r.dist, y, nw)
      /\ y \notin r.done /\ ~ shorter => q.res = r.res /\ q.dist = r.dist
  BY VisitedLemma
<1>9. nw = nv
  BY <1>1
<1>2. /\ Searched(q) /\ q.done = over
      /\ y \in over => q = r
      /\ y \notin over => q.todo = Once(r.todo, y)
      /\ y \notin over /\ better => q.res = Put(r.res, y, t) /\ q.dist = Put(r.dist, y, nv)
      /\ y \notin over /\ ~ better => q.res = r.res /\ q.dist = r.dist
  <2>. HIDE DEF q, nw, nv
  <2>. QED
    BY <1>0, <1>9
<1>. SUFFICES Grown(q, r, t, over, nv)
  BY <1>2
<1>3. \A x : x \in DOMAIN r.dist <=> x \in DOMAIN r.res \/ x = pre
  BY DEF Growing, Tree
<1>4. /\ \A x \in DOMAIN r.dist : r.dist[x] \in Nat
      /\ \A x \in over : x \in DOMAIN r.dist /\ r.dist[x] <= low
  BY DEF Growing, Tree
<1>. HIDE DEF nv, q
<1>5. CASE y \in over
  <2>1. q = r
    BY <1>2, <1>5
  <2>2. y \in DOMAIN r.dist /\ r.dist[y] \in Nat /\ r.dist[y] <= nv
    BY <1>1, <1>4, <1>5
  <2>. QED
    BY <1>5, <2>1, <2>2 DEF Grown
<1>6. CASE y \notin over /\ better
  <2>1. IsPut(q.res, r.res, y, t) /\ IsPut(q.dist, r.dist, y, nv) /\ IsOnce(q.todo, r.todo, y)
    BY <1>2, <1>6, PutLemma, OnceLemma
  <2>2. y \in DOMAIN r.dist => nv <= r.dist[y]
    BY <1>1, <1>3, <1>4, <1>6
  <2>3. \A x : x \in DOMAIN q.todo <=> x \in DOMAIN r.todo \/ x = y
    BY <2>1 DEF IsOnce
  <2>. QED
    BY <1>6, <2>1, <2>2, <2>3 DEF Grown
<1>7. CASE y \notin over /\ ~ better
  <2>1. IsOnce(q.todo, r.todo, y) /\ q.res = r.res /\ q.dist = r.dist
    BY <1>2, <1>7, OnceLemma
  <2>2. y \in DOMAIN r.dist /\ r.dist[y] <= nv
    BY <1>1, <1>3, <1>4, <1>7
  <2>3. \A x : x \in DOMAIN q.todo <=> x \in DOMAIN r.todo \/ x = y
    BY <2>1 DEF IsOnce
  <2>. QED
    BY <1>7, <2>1, <2>2, <2>3 DEF Grown
<1>. QED
  BY <1>5, <1>6, <1>7

LEMMA GrowingStep ==
  ASSUME IsAutomaton(aut), NEW t \in Arcs(aut), \A u \in Arcs(aut) : aut[u] \in Nat,
         NEW r, NEW over, NEW low \in Nat, NEW cap \in Nat, NEW known, NEW arcs,
         arcs \subseteq {u \in Arcs(aut) : u.src = t.src},
         Growing(r, over, t.src, low, cap, known, arcs),
         low + aut[t] <= cap,
         NEW q, Grown(q, r, t, over, low + aut[t])
  PROVE  Growing(q, over, t.src, low, cap, known, arcs \union {t})
<1>. DEFINE nv == low + aut[t]
            y == t.dst
<1>1. nv \in Nat /\ low <= nv /\ nv <= cap /\ y # pre
  BY DEF IsAutomaton
<1>2. /\ \A x : x \in DOMAIN r.dist <=> x \in DOMAIN r.res \/ x = pre
      /\ pre \notin DOMAIN r.res /\ r.dist[pre] = 0
      /\ \A x \in DOMAIN r.dist : r.dist[x] \in Nat /\ (x \in over \/ x \in DOMAIN r.todo)
      /\ \A x \in DOMAIN r.res :
           /\ r.res[x] \in Arcs(aut) /\ r.res[x].dst = x /\ r.res[x].src \in over
           /\ r.dist[x] = r.dist[r.res[x].src] + aut[r.res[x]]
      /\ over \subseteq DOMAIN r.dist /\ DOMAIN r.todo \subseteq DOMAIN r.dist
  BY DEF Growing, Tree
<1>3. /\ t.src \in over /\ r.dist[t.src] = low
      /\ \A x \in over : /\ r.dist[x] = known.dist[x] /\ r.dist[x] <= low
                         /\ x \in DOMAIN r.res => x \in DOMAIN known.res /\ r.res[x] = known.res[x]
      /\ \A x \in DOMAIN r.todo : low <= r.dist[x] /\ x # pre
      /\ \A x \in DOMAIN r.dist : r.dist[x] <= cap
      /\ \A x \in DOMAIN known.dist : /\ known.dist[x] \in Nat
                                       /\ x \in DOMAIN r.dist /\ r.dist[x] <= known.dist[x]
      /\ \A u \in arcs : u.dst \in DOMAIN r.dist /\ r.dist[u.dst] <= r.dist[u.src] + aut[u]
  BY DEF Growing, Spread
<1>4. \A x : x \in DOMAIN q.todo <=> x \in DOMAIN r.todo \/ (x = y /\ y \notin over)
  BY DEF Grown
<1>. HIDE DEF nv, y
<1>5. CASE q.res = r.res /\ q.dist = r.dist /\ y \in DOMAIN r.dist /\ r.dist[y] <= nv
  <2>1. \A x : x \in DOMAIN q.todo <=> x \in DOMAIN r.todo
    BY <1>2, <1>4, <1>5
  <2>2. Tree(q, over)
    BY <1>2, <1>5, <2>1 DEF Tree
  <2>3. Spread(q, arcs \union {t})
    BY <1>3, <1>5 DEF Spread, y, nv
  <2>. QED
    BY <1>3, <1>5, <2>1, <2>2, <2>3 DEF Growing
<1>6. CASE /\ y \notin over
           /\ IsPut(q.res, r.res, y, t) /\ IsPut(q.dist, r.dist, y, nv)
           /\ y \in DOMAIN r.dist => nv <= r.dist[y]
  <2>1. /\ \A x : x \in DOMAIN q.res <=> x \in DOMAIN r.res \/ x = y
        /\ q.res[y] = t
        /\ \A x \in DOMAIN r.res : x # y => q.res[x] = r.res[x]
        /\ \A x : x \in DOMAIN q.dist <=> x \in DOMAIN r.dist \/ x = y
        /\ q.dist[y] = nv
        /\ \A x \in DOMAIN r.dist : x # y => q.dist[x] = r.dist[x]
    BY <1>6 DEF IsPut
  <2>2. \A x \in over : x # y /\ x \in DOMAIN r.dist /\ q.dist[x] = r.dist[x]
    BY <1>2, <1>6, <2>1
  <2>3. Tree(q, over)
    <3>1. \A x : x \in DOMAIN q.dist <=> x \in DOMAIN q.res \/ x = pre
      BY <1>2, <2>1
    <3>2. pre \notin DOMAIN q.res /\ q.dist[pre] = 0
      BY <1>1, <1>2, <2>1
    <3>3. \A x \in DOMAIN q.dist : q.dist[x] \in Nat
      BY <1>1, <1>2, <2>1
    <3>4. ASSUME NEW x \in DOMAIN q.res
          PROVE  /\ q.res[x] \in Arcs(aut) /\ q.res[x].dst = x /\ q.res[x].src \in over
                 /\ q.dist[x] = q.dist[q.res[x].src] + aut[q.res[x]]
      <4>1. CASE x = y
        <5>1. q.res[x] = t /\ q.dist[x] = low + aut[t]
          BY <2>1, <4>1 DEF nv
        <5>2. q.dist[t.src] = low
          BY <1>3, <2>2
        <5>. QED
          BY <1>3, <4>1, <5>1, <5>2 DEF y
      <4>2. CASE x # y
        <5>1. x \in DOMAIN r.res /\ q.res[x] = r.res[x] /\ q.dist[x] = r.dist[x]
          BY <1>2, <2>1, <4>2
        <5>2. q.dist[r.res[x].src] = r.dist[r.res[x].src]
          BY <1>2, <2>2, <5>1
        <5>. QED
          BY <1>2, <5>1, <5>2
      <4>. QED
        BY <4>1, <4>2
    <3>5. over \subseteq DOMAIN q.dist /\ DOMAIN q.todo \subseteq DOMAIN q.dist
      BY <1>2, <1>4, <2>1
    <3>6. \A x \in DOMAIN q.dist : x \in over \/ x \in DOMAIN q.todo
      BY <1>2, <1>4, <1>6, <2>1
    <3>. QED
      BY <3>1, <3>2, <3>3, <3>4, <3>5, <3>6 DEF Tree
  <2>4. \A x \in DOMAIN r.dist : x \in DOMAIN q.dist /\ q.dist[x] <= r.dist[x]
    BY <1>2, <1>6, <2>1
  <2>5. Spread(q, arcs \union {t})
    <3>1. ASSUME NEW u \in arcs
          PROVE  u.dst \in DOMAIN q.dist /\ q.dist[u.dst] <= q.dist[u.src] + aut[u]
      <4>1. u.src = t.src
        OBVIOUS
      <4>2. q.dist[u.src] = r.dist[u.src]
        BY <1>3, <2>2, <4>1
      <4>3. /\ u.dst \in DOMAIN r.dist /\ u.dst \in DOMAIN q.dist
            /\ r.dist[u.dst] <= r.dist[u.src] + aut[u]
            /\ q.dist[u.dst] <= r.dist[u.dst]
        BY <1>3, <2>4
      <4>4. q.dist[u.dst] \in Nat /\ r.dist[u.dst] \in Nat
        BY <1>2, <2>3, <4>3 DEF Tree
      <4>5. r.dist[u.src] = low /\ aut[u] \in Nat
        BY <1>3, <4>1
      <4>. QED
        BY <4>2, <4>3, <4>4, <4>5
    <3>2. y \in DOMAIN q.dist /\ q.dist[y] = q.dist[t.src] + aut[t]
      BY <1>3, <2>1, <2>2 DEF nv
    <3>3. q.dist[y] \in Nat
      BY <2>3, <3>2 DEF Tree
    <3>. QED
      BY <3>1, <3>2, <3>3 DEF Spread, y
  <2>6. \A x \in DOMAIN q.todo : low <= q.dist[x] /\ x # pre
    BY <1>1, <1>2, <1>3, <1>4, <2>1
  <2>7. \A x \in DOMAIN q.dist : q.dist[x] <= cap
    BY <1>1, <1>3, <2>1
  <2>8. \A x \in DOMAIN known.dist : /\ known.dist[x] \in Nat
                                     /\ x \in DOMAIN q.dist /\ q.dist[x] <= known.dist[x]
    <3>1. ASSUME NEW x \in DOMAIN known.dist
          PROVE  x \in DOMAIN q.dist /\ q.dist[x] <= known.dist[x]
      <4>1. x \in DOMAIN r.dist /\ r.dist[x] <= known.dist[x] /\ known.dist[x] \in Nat
        BY <1>3
      <4>2. q.dist[x] \in Nat /\ r.dist[x] \in Nat /\ q.dist[x] <= r.dist[x] /\ x \in DOMAIN q.dist
        BY <1>2, <2>3, <2>4, <4>1 DEF Tree
      <4>. QED
        BY <4>1, <4>2
    <3>. QED
      BY <1>3, <3>1
  <2>9. /\ q.dist[t.src] = low
        /\ \A x \in over : /\ q.dist[x] = known.dist[x] /\ q.dist[x] <= low
                           /\ x \in DOMAIN q.res => x \in DOMAIN known.res /\ q.res[x] = known.res[x]
    BY <1>3, <2>1, <2>2
  <2>. QED
    BY <1>3, <2>3, <2>5, <2>6, <2>7, <2>8, <2>9 DEF Growing
<1>. QED
  BY <1>5, <1>6 DEF Grown, nv, y

\* All the arcs of a state.
LEMMA RelaxedGrowing ==
  ASSUME IsAutomaton(aut), \A u \in Arcs(aut) : aut[u] \in Nat,
         NEW r, NEW over, NEW at, NEW low \in Nat, NEW cap \in Nat, NEW known,
         Growing(r, over, at, low, cap, known, {}),
         NEW U \in SUBSET Arcs(aut), \A t \in U : t.src = at /\ low + aut[t] <= cap,
         cap < W!oo
  PROVE  Growing(InOrder(Relaxed, r, U), over, at, low, cap, known, U)
<1>. DEFINE Fine(q, T) == Growing(q, over, at, low, cap, known, T)
            Good == {T \in SUBSET U : Fine(R!Fold(r, T), T)}
<1>. HIDE DEF R!Fold
<1>1. ASSUME NEW T \in SUBSET U, \A Y \in SUBSET T : Y # T => Y \in Good
      PROVE  T \in Good
  <2>. DEFINE t == LastOf(T)
              q == R!Fold(r, T \ {t})
  <2>1. /\ R!Fold(r, {}) = r
        /\ T # {} => t \in T /\ R!Fold(r, T) = Relaxed(q, t)
    BY RelaxedUnrolled
  <2>2. CASE T = {}
    BY <2>1, <2>2
  <2>3. CASE T # {}
    <3>1. t \in T
      BY <2>1, <2>3
    <3>. HIDE DEF t
    <3>2. T \ {t} \in Good
      BY <1>1, <3>1
    <3>3. Fine(q, T \ {t})
      BY <3>2
    <3>. HIDE DEF q, Fine
    <3>4. t \in Arcs(aut) /\ aut[t] \in Nat /\ t.src = at /\ low + aut[t] <= cap
      BY <3>1
    <3>5. T \ {t} \subseteq {u \in Arcs(aut) : u.src = t.src}
      BY <3>4
    <3>6. Grown(Relaxed(q, t), q, t, over, low + aut[t])
      BY <3>3, <3>4, RelaxedGrows DEF Fine
    <3>7. Growing(Relaxed(q, t), over, at, low, cap, known, (T \ {t}) \union {t})
      BY <3>3, <3>4, <3>5, <3>6, GrowingStep DEF Fine
    <3>8. (T \ {t}) \union {t} = T
      BY <3>1
    <3>9. Fine(R!Fold(r, T), T)
      BY <2>1, <2>3, <3>6, <3>7, <3>8 DEF Fine
    <3>. QED
      BY <3>9
  <2>. QED
    BY <2>2, <2>3
<1>2. IsFiniteSet(U)
  BY LastLemma
<1>3. U \in Good
  <2>. HIDE DEF Good
  <2>. QED
    BY <1>1, <1>2, StrongInduction
<1>. QED
  BY <1>3, RelaxedFold

LEMMA VisitedGrowing ==
  ASSUME IsAutomaton(aut), \A u \in Arcs(aut) : aut[u] \in Nat,
         NEW r, NEW over, NEW at, NEW low \in Nat, NEW cap \in Nat, NEW known,
         Growing(r, over, at, low, cap, known, {}), Searched(r), r.done = over,
         NEW U \in SUBSET Arcs(aut), \A t \in U : t.src = at /\ low + aut[t] <= cap,
         cap < W!oo
  PROVE  /\ Growing(InOrder(Visited, r, U), over, at, low, cap, known, U)
         /\ InOrder(Visited, r, U).done = over
<1>. DEFINE Fine(q, T) == Growing(q, over, at, low, cap, known, T) /\ Searched(q) /\ q.done = over
            Good == {T \in SUBSET U : Fine(V!Fold(r, T), T)}
<1>. HIDE DEF V!Fold
<1>1. ASSUME NEW T \in SUBSET U, \A Y \in SUBSET T : Y # T => Y \in Good
      PROVE  T \in Good
  <2>. DEFINE t == LastOf(T)
              q == V!Fold(r, T \ {t})
  <2>1. /\ V!Fold(r, {}) = r
        /\ T # {} => t \in T /\ V!Fold(r, T) = Visited(q, t)
    BY VisitedUnrolled
  <2>2. CASE T = {}
    BY <2>1, <2>2
  <2>3. CASE T # {}
    <3>1. t \in T
      BY <2>1, <2>3
    <3>. HIDE DEF t
    <3>2. T \ {t} \in Good
      BY <1>1, <3>1
    <3>3. Fine(q, T \ {t})
      BY <3>2
    <3>. HIDE DEF q, Fine
    <3>4. t \in Arcs(aut) /\ aut[t] \in Nat /\ t.src = at /\ low + aut[t] <= cap
      BY <3>1
    <3>5. T \ {t} \subseteq {u \in Arcs(aut) : u.src = t.src}
      BY <3>4
    <3>6. Grown(Visited(q, t), q, t, over, low + aut[t]) /\ Searched(Visited(q, t)) /\ Visited(q, t).done = over
      BY <3>3, <3>4, VisitedGrows DEF Fine
    <3>7. Growing(Visited(q, t), over, at, low, cap, known, (T \ {t}) \union {t})
      BY <3>3, <3>4, <3>5, <3>6, GrowingStep DEF Fine
    <3>8. (T \ {t}) \union {t} = T
      BY <3>1
    <3>9. Fine(V!Fold(r, T), T)
      BY <2>1, <2>3, <3>6, <3>7, <3>8 DEF Fine
    <3>. QED
      BY <3>9
  <2>. QED
    BY <2>2, <2>3
<1>2. IsFiniteSet(U)
  BY LastLemma
<1>3. U \in Good
  <2>. HIDE DEF Good
  <2>. QED
    BY <1>1, <1>2, StrongInduction
<1>. QED
  BY <1>3, VisitedFold

\* The image of a finite set is finite.
LEMMA ImageFinite ==
  ASSUME NEW U, IsFiniteSet(U), NEW f
  PROVE  IsFiniteSet({f[x] : x \in U})
<1>. DEFINE T == {f[x] : x \in U}
            g == [x \in U |-> f[x]]
<1>1. g \in Surjection(U, T)
  BY DEF Surjection, Range
<1>. HIDE DEF g, T
<1>2. IsFiniteSet(T)
  BY <1>1, FS_Surjection
<1>. QED
  BY <1>2 DEF T

\* An automaton has finitely many states, the ends of its arcs among them.
LEMMA StatesFinite ==
  ASSUME NEW a, IsAutomaton(a)
  PROVE  /\ IsFiniteSet(States(a))
         /\ pre \in States(a) /\ post \in States(a)
         /\ \A b \in Arcs(a) : b.src \in States(a) /\ b.dst \in States(a)
<1>1. IsFiniteSet(Arcs(a))
  BY DEF IsAutomaton
<1>2. IsFiniteSet({b.src : b \in Arcs(a)}) /\ IsFiniteSet({b.dst : b \in Arcs(a)})
  <2>. DEFINE f == [b \in Arcs(a) |-> b.src]
              g == [b \in Arcs(a) |-> b.dst]
  <2>1. {b.src : b \in Arcs(a)} = {f[b] : b \in Arcs(a)}
    OBVIOUS
  <2>2. {b.dst : b \in Arcs(a)} = {g[b] : b \in Arcs(a)}
    OBVIOUS
  <2>. HIDE DEF f, g
  <2>3. IsFiniteSet({f[b] : b \in Arcs(a)}) /\ IsFiniteSet({g[b] : b \in Arcs(a)})
    BY <1>1, ImageFinite
  <2>. QED
    BY <2>1, <2>2, <2>3
<1>3. IsFiniteSet({pre, post})
  <2>1. {pre, post} = {pre} \union {post}
    OBVIOUS
  <2>2. IsFiniteSet({pre}) /\ IsFiniteSet({post})
    BY FS_Singleton
  <2>3. IsFiniteSet({pre} \union {post})
    BY <2>2, FS_Union
  <2>. QED
    BY <2>1, <2>3
<1>. QED
  BY <1>2, <1>3, FS_Union DEF States

\* What is reached is finite, and the distances do not overflow.
LEMMA CapLemma ==
  ASSUME IsAutomaton(aut), NEW b \in Nat, Bounds(aut, b), NEW over \in SUBSET States(aut),
         NEW s \in States(aut)
  PROVE  /\ b * Cardinality(over \union {s}) \in Nat
         /\ b * Cardinality(over \union {s}) < W!oo
         /\ b * Cardinality(over) \in Nat
         /\ b * Cardinality(over) <= b * Cardinality(over \union {s})
         /\ s \notin over => b * Cardinality(over) + b = b * Cardinality(over \union {s})
<1>. DEFINE S == States(aut)
            n == Cardinality(over)
            m == Cardinality(over \union {s})
<1>1. IsFiniteSet(S)
  BY StatesFinite
<1>2. IsFiniteSet(over) /\ IsFiniteSet(over \union {s})
  <2>1. over \in SUBSET S /\ over \union {s} \in SUBSET S
    OBVIOUS
  <2>. QED
    BY <1>1, <2>1, FS_Subset
<1>3. /\ n \in Nat /\ m \in Nat /\ Cardinality(S) \in Nat
      /\ m <= Cardinality(S)
      /\ s \notin over => m = n + 1
      /\ s \in over => m = n
  <2>1. over \union {s} \in SUBSET S
    OBVIOUS
  <2>2. m <= Cardinality(S)
    BY <1>1, <2>1, FS_Subset
  <2>3. s \in over => over \union {s} = over
    OBVIOUS
  <2>. QED
    BY <1>1, <1>2, <2>2, <2>3, FS_CardinalityType, FS_AddElement
<1>4. b * Cardinality(S) < W!oo
  BY DEF Bounds
<1>. HIDE DEF S, n, m
<1>5. \A x, y \in Nat : x <= y => b * x \in Nat /\ b * x <= b * y
  OBVIOUS
<1>6. \A x \in Nat : b * (x + 1) = b * x + b
  OBVIOUS
<1>7. b * m \in Nat /\ b * n \in Nat /\ b * m <= b * Cardinality(S) /\ b * Cardinality(S) \in Nat
  BY <1>3, <1>5
<1>8. s \notin over => b * n + b = b * m
  BY <1>3, <1>6
<1>9. b * n <= b * m
  BY <1>3, <1>5
<1>10. b * m < W!oo
  BY <1>4, <1>7, ooLemma
<1>. QED
  BY <1>7, <1>8, <1>9, <1>10 DEF n, m

LEMMA TreeStates ==
  ASSUME NEW r, NEW over, Tree(r, over), IsAutomaton(aut)
  PROVE  /\ DOMAIN r.dist \subseteq States(aut)
         /\ over \subseteq States(aut)
         /\ post \in DOMAIN r.dist => post \in DOMAIN r.res
<1>1. \A x \in DOMAIN r.res : x \in States(aut)
  BY DEF Tree, States
<1>. QED
  BY <1>1 DEF Tree, States, pre, post

\* The state that is popped, the nearest of the heap, is over; then its arcs
\* may be followed.
LEMMA PopGrows ==
  ASSUME IsAutomaton(aut), NEW b \in Nat, Bounds(aut, b),
         NEW r, NEW over, Distances(r, over, b),
         NEW s \in DOMAIN r.todo, \A x \in DOMAIN r.todo : r.dist[s] <= r.dist[x],
         NEW p, p.res = r.res, p.dist = r.dist, p.todo = Popped(r.todo, s)
  PROVE  LET cap == b * Cardinality(over \union {s})
         IN  /\ Growing(p, over \union {s}, s, r.dist[s], cap, r, {})
             /\ cap \in Nat /\ cap < W!oo
             /\ r.dist[s] \in Nat /\ r.dist[s] + b <= cap
<1>. DEFINE cap == b * Cardinality(over \union {s})
            n == b * Cardinality(over)
            low == r.dist[s]
            late == over \union {s}
<1>1. /\ \A x : x \in DOMAIN r.dist <=> x \in DOMAIN r.res \/ x = pre
      /\ pre \notin DOMAIN r.res /\ r.dist[pre] = 0
      /\ \A x \in DOMAIN r.dist : r.dist[x] \in Nat
      /\ \A x \in DOMAIN r.res :
           /\ r.res[x] \in Arcs(aut) /\ r.res[x].dst = x /\ r.res[x].src \in over
           /\ r.dist[x] = r.dist[r.res[x].src] + aut[r.res[x]]
      /\ over \subseteq DOMAIN r.dist /\ DOMAIN r.todo \subseteq DOMAIN r.dist
      /\ \A x \in DOMAIN r.dist : x \in over \/ x \in DOMAIN r.todo
  BY DEF Distances, Tree
<1>2. /\ cap \in Nat /\ cap < W!oo /\ n \in Nat /\ n <= cap
      /\ s \notin over => n + b = cap
  <2>1. over \in SUBSET States(aut) /\ s \in States(aut)
    BY <1>1, TreeStates DEF Distances
  <2>. QED
    BY <2>1, CapLemma
<1>3. /\ \A x \in DOMAIN r.dist : r.dist[x] <= n
      /\ \A x \in over : r.dist[x] + b <= n
  BY DEF Distances, Bounded
<1>4. /\ \A x \in over, y \in DOMAIN r.todo : r.dist[x] <= r.dist[y]
      /\ pre \in DOMAIN r.todo => r.todo = [t \in {pre} |-> 1]
  BY DEF Distances, Nearer, Starts
<1>5. /\ DOMAIN p.todo \subseteq DOMAIN r.todo
      /\ DOMAIN r.todo \ {s} \subseteq DOMAIN p.todo
      /\ r.todo[s] = 1 => s \notin DOMAIN p.todo
  BY PoppedLemma
<1>. HIDE DEF cap, n
<1>6. s \in DOMAIN r.dist /\ low \in Nat
  BY <1>1
<1>7. low + b <= cap
  <2>1. CASE s \in over
    BY <1>2, <1>3, <1>6, <2>1
  <2>2. CASE s \notin over
    BY <1>2, <1>3, <1>6, <2>2
  <2>. QED
    BY <2>1, <2>2
<1>8. Tree(p, late)
  BY <1>1, <1>5 DEF Tree
<1>9. \A x \in late : r.dist[x] <= low
  BY <1>4, <1>6
<1>10. \A x \in DOMAIN p.todo : low <= r.dist[x] /\ x # pre
  <2>1. pre \in DOMAIN p.todo => FALSE
    BY <1>4, <1>5
  <2>. QED
    BY <1>5, <2>1
<1>11. \A x \in DOMAIN r.dist : r.dist[x] <= cap
  BY <1>1, <1>2, <1>3
<1>12. Growing(p, late, s, low, cap, r, {})
  <2>1. \A x \in DOMAIN r.dist : r.dist[x] <= r.dist[x]
    BY <1>1
  <2>. HIDE DEF low
  <2>. QED
    BY <1>1, <1>8, <1>9, <1>10, <1>11, <2>1 DEF Growing, Spread, low
<1>. QED
  BY <1>2, <1>6, <1>7, <1>12 DEF cap

\* When all of them are followed.
LEMMA GrowingEnds ==
  ASSUME IsAutomaton(aut), \A u \in Arcs(aut) : aut[u] \in Nat, NEW b \in Nat, Bounds(aut, b),
         NEW r, NEW over, Distances(r, over, b), NEW s \in DOMAIN r.todo,
         NEW q, Growing(q, over \union {s}, s, r.dist[s], b * Cardinality(over \union {s}), r,
                        Out(aut, s)),
         r.dist[s] + b <= b * Cardinality(over \union {s})
  PROVE  Distances(q, over \union {s}, b)
<1>. DEFINE cap == b * Cardinality(over \union {s})
            n == b * Cardinality(over)
            low == r.dist[s]
            late == over \union {s}
<1>1. /\ \A x \in DOMAIN r.dist : r.dist[x] \in Nat
      /\ over \subseteq DOMAIN r.dist /\ DOMAIN r.todo \subseteq DOMAIN r.dist
      /\ \A x \in DOMAIN r.res : r.res[x].src \in over
  BY DEF Distances, Tree
<1>2. /\ cap \in Nat /\ n \in Nat /\ n <= cap /\ low + b <= cap
  <2>1. over \in SUBSET States(aut) /\ s \in States(aut)
    BY <1>1, TreeStates DEF Distances
  <2>. QED
    BY <2>1, CapLemma
<1>3. /\ Tree(q, late)
      /\ \A x \in late : /\ q.dist[x] = r.dist[x] /\ q.dist[x] <= low
                         /\ x \in DOMAIN q.res => x \in DOMAIN r.res /\ q.res[x] = r.res[x]
      /\ \A x \in DOMAIN q.todo : low <= q.dist[x] /\ x # pre
      /\ \A x \in DOMAIN q.dist : q.dist[x] <= cap
      /\ \A x \in DOMAIN r.dist : x \in DOMAIN q.dist /\ q.dist[x] <= r.dist[x]
      /\ \A u \in Out(aut, s) : u.dst \in DOMAIN q.dist /\ q.dist[u.dst] <= q.dist[u.src] + aut[u]
  BY DEF Growing, Spread
<1>. HIDE DEF cap, n
<1>4. Rooted(q, late)
  <2>1. ASSUME NEW X \in SUBSET late, X # {}, X \subseteq DOMAIN q.res
        PROVE  \E x \in X : q.res[x].src \notin X
    <3>1. X \subseteq DOMAIN r.res /\ \A x \in X : q.res[x] = r.res[x]
      BY <1>3, <2>1
    <3>2. CASE X \intersect over = {}
      <4>1. PICK x \in X : TRUE
        BY <2>1
      <4>2. q.res[x].src \in over
        BY <1>1, <3>1
      <4>. QED
        BY <3>2, <4>2
    <3>3. CASE X \intersect over # {}
      <4>1. PICK x \in X \intersect over : r.res[x].src \notin X \intersect over
        BY <3>1, <3>3 DEF Distances, Rooted
      <4>2. r.res[x].src \in over
        BY <1>1, <3>1
      <4>. QED
        BY <3>1, <4>1, <4>2
    <3>. QED
      BY <3>2, <3>3
  <2>. QED
    BY <2>1 DEF Rooted
<1>5. \A x \in DOMAIN q.dist : q.dist[x] \in Nat
  BY <1>3 DEF Tree
<1>6. late \subseteq DOMAIN q.dist /\ DOMAIN q.todo \subseteq DOMAIN q.dist
  BY <1>3 DEF Tree
<1>7. low \in Nat
  BY <1>1
<1>8. Nearer(q, late)
  BY <1>3, <1>5, <1>6, <1>7 DEF Nearer
<1>9. Spread(q, From(late))
  <2>1. ASSUME NEW t \in Arcs(aut), t.src \in over
        PROVE  t.dst \in DOMAIN q.dist /\ q.dist[t.dst] <= q.dist[t.src] + aut[t]
    <3>1. t.dst \in DOMAIN r.dist /\ r.dist[t.dst] <= r.dist[t.src] + aut[t]
      BY <2>1 DEF Distances, Spread, From
    <3>2. t.dst \in DOMAIN q.dist /\ q.dist[t.dst] <= r.dist[t.dst]
      BY <1>3, <3>1
    <3>3. q.dist[t.src] = r.dist[t.src] /\ t.src \in late
      BY <1>3, <2>1
    <3>4. q.dist[t.dst] \in Nat /\ r.dist[t.dst] \in Nat /\ r.dist[t.src] \in Nat /\ aut[t] \in Nat
      BY <1>1, <1>5, <2>1, <3>1, <3>2
    <3>. QED
      BY <3>1, <3>2, <3>3, <3>4
  <2>2. ASSUME NEW t \in Arcs(aut), t.src = s
        PROVE  t.dst \in DOMAIN q.dist /\ q.dist[t.dst] <= q.dist[t.src] + aut[t]
    BY <1>3, <2>2 DEF Out
  <2>. QED
    BY <2>1, <2>2 DEF Spread, From
<1>10. Bounded(q, late, b)
  <2>1. \A x \in over : r.dist[x] + b <= n
    BY DEF Distances, Bounded, n
  <2>2. \A x \in late : q.dist[x] + b <= cap
    <3>1. ASSUME NEW x \in over
          PROVE  q.dist[x] + b <= cap
      <4>1. q.dist[x] = r.dist[x] /\ r.dist[x] \in Nat /\ r.dist[x] + b <= n
        BY <1>1, <1>3, <2>1
      <4>. QED
        BY <1>2, <4>1
    <3>2. q.dist[s] = low
      BY <1>3
    <3>. QED
      BY <1>2, <3>1, <3>2
  <2>. QED
    BY <1>3, <2>2 DEF Bounded, cap
<1>11. Starts(q, late)
  BY <1>3 DEF Starts
<1>. QED
  BY <1>3, <1>4, <1>8, <1>9, <1>10, <1>11 DEF Distances

\* Only these parts of a record matter.
LEMMA SameDistances ==
  ASSUME NEW q, NEW r, NEW over, NEW b, Distances(q, over, b),
         r.res = q.res, r.dist = q.dist, r.todo = q.todo
  PROVE  Distances(r, over, b)
<1>1. Tree(r, over)
  BY DEF Distances, Tree
<1>2. Rooted(r, over) /\ Nearer(r, over) /\ Spread(r, From(over))
  BY DEF Distances, Rooted, Nearer, Spread
<1>3. Bounded(r, over, b) /\ Starts(r, over)
  BY DEF Distances, Bounded, Starts
<1>. QED
  BY <1>1, <1>2, <1>3 DEF Distances

\* The tops of the heap are the nearest.
LEMMA TopsLemma ==
  ASSUME NEW over, NEW b, NEW s \in Tops,
         Distances([res |-> res, dist |-> dist, todo |-> todo], over, b)
  PROVE  s \in DOMAIN todo /\ \A x \in DOMAIN todo : dist[s] <= dist[x]
<1>1. s \in DOMAIN todo /\ \A x \in DOMAIN todo : ~ Before(x, s)
  BY DEF Tops
<1>2. /\ \A x : x \in DOMAIN dist <=> x \in DOMAIN res \/ x = pre
      /\ \A x \in DOMAIN dist : dist[x] \in Nat
      /\ DOMAIN todo \subseteq DOMAIN dist
  BY DEF Distances, Tree
<1>3. pre \in DOMAIN todo => DOMAIN todo = {pre}
  BY DEF Distances, Starts
<1>4. CASE pre \in DOMAIN todo
  BY <1>1, <1>2, <1>3, <1>4
<1>5. CASE pre \notin DOMAIN todo
  BY <1>1, <1>2, <1>5 DEF Before
<1>. QED
  BY <1>1, <1>4, <1>5

\* No weight is above b, which is no weight that overflows.
Weighted(b) ==
  /\ IsAutomaton(aut) /\ b \in Nat /\ Bounds(aut, b)
  /\ \A u \in Arcs(aut) : aut[u] \in Nat

LEMMA OutLemma ==
  ASSUME NEW b \in Nat, Weighted(b), NEW s, NEW low \in Nat, NEW cap \in Nat, low + b <= cap
  PROVE  /\ Out(aut, s) \in SUBSET Arcs(aut)
         /\ \A t \in Out(aut, s) : t.src = s /\ low + aut[t] <= cap
         /\ s = post => Out(aut, s) = {}
<1>1. \A t \in Arcs(aut) : aut[t] \in Nat /\ aut[t] <= b /\ t.src # post
  BY DEF Weighted, IsAutomaton, Bounds
<1>. QED
  BY <1>1 DEF Out

LEMMA DijkstraDistances ==
  ASSUME NEW b \in Nat, Weighted(b), view = Arcs(aut), dest = post,
         Distances([res |-> res, dist |-> dist, todo |-> todo], done, b),
         NEW s, DijkstraPop(s)
  PROVE  Distances([res |-> res', dist |-> dist', todo |-> todo'], done', b)
<1>. DEFINE r == [res |-> res, dist |-> dist, todo |-> todo]
            p == [res |-> res, dist |-> dist, todo |-> Popped(todo, s)]
            U == IF s = dest THEN {} ELSE view \intersect Out(aut, s)
            q == InOrder(Relaxed, p, U)
            cap == b * Cardinality(done \union {s})
            low == dist[s]
<1>1. /\ s \in Tops
      /\ res' = q.res /\ dist' = q.dist /\ todo' = q.todo /\ done' = done \union {s}
  BY DEF DijkstraPop
<1>2. s \in DOMAIN todo /\ \A x \in DOMAIN todo : dist[s] <= dist[x]
  BY <1>1, TopsLemma
<1>3. Distances(r, done, b)
  OBVIOUS
<1>4. IsAutomaton(aut) /\ Bounds(aut, b) /\ \A u \in Arcs(aut) : aut[u] \in Nat
  BY DEF Weighted
<1>5. /\ s \in DOMAIN r.todo /\ \A x \in DOMAIN r.todo : r.dist[s] <= r.dist[x]
      /\ p.res = r.res /\ p.dist = r.dist /\ p.todo = Popped(r.todo, s)
      /\ r.dist[s] = low
  BY <1>2
<1>. HIDE DEF r, p, low
<1>6. /\ Growing(p, done \union {s}, s, low, cap, r, {})
      /\ cap \in Nat /\ cap < W!oo /\ low \in Nat /\ low + b <= cap
  BY <1>3, <1>4, <1>5, PopGrows
<1>. HIDE DEF cap
<1>7. /\ U = Out(aut, s)
      /\ U \in SUBSET Arcs(aut) /\ \A t \in U : t.src = s /\ low + aut[t] <= cap
  BY <1>6, OutLemma
<1>. HIDE DEF U
<1>8. Growing(q, done \union {s}, s, low, cap, r, U)
  BY <1>4, <1>6, <1>7, RelaxedGrowing
<1>. HIDE DEF q
<1>9. Distances(q, done \union {s}, b)
  BY <1>3, <1>4, <1>5, <1>6, <1>7, <1>8, GrowingEnds DEF cap
<1>. QED
  BY <1>1, <1>9, SameDistances

LEMMA AStarDistances ==
  ASSUME NEW b \in Nat, Weighted(b), view = Arcs(aut),
         Distances([res |-> res, dist |-> dist, todo |-> todo], done, b),
         NEW s, AStarPop(s)
  PROVE  /\ Distances([res |-> res', dist |-> dist', todo |-> todo'], done', b)
         /\ done' = done \union {s}
<1>. DEFINE r == [res |-> res, dist |-> dist, todo |-> todo]
            late == done \union {s}
            p == [res |-> res, dist |-> dist, todo |-> Popped(todo, s), done |-> late]
            U == view \intersect Out(aut, s)
            q == InOrder(Visited, p, U)
            cap == b * Cardinality(late)
            low == dist[s]
<1>1. /\ s \in Tops
      /\ res' = q.res /\ dist' = q.dist /\ todo' = q.todo /\ done' = q.done
  BY DEF AStarPop
<1>2. s \in DOMAIN todo /\ \A x \in DOMAIN todo : dist[s] <= dist[x]
  BY <1>1, TopsLemma
<1>3. Distances(r, done, b)
  OBVIOUS
<1>4. IsAutomaton(aut) /\ Bounds(aut, b) /\ \A u \in Arcs(aut) : aut[u] \in Nat
  BY DEF Weighted
<1>5. /\ s \in DOMAIN r.todo /\ \A x \in DOMAIN r.todo : r.dist[s] <= r.dist[x]
      /\ p.res = r.res /\ p.dist = r.dist /\ p.todo = Popped(r.todo, s)
      /\ Searched(p) /\ p.done = late
      /\ r.dist[s] = low
  BY <1>2 DEF Searched
<1>. HIDE DEF r, p, low
<1>6. /\ Growing(p, late, s, low, cap, r, {})
      /\ cap \in Nat /\ cap < W!oo /\ low \in Nat /\ low + b <= cap
  BY <1>3, <1>4, <1>5, PopGrows
<1>. HIDE DEF cap
<1>7. /\ U = Out(aut, s)
      /\ U \in SUBSET Arcs(aut) /\ \A t \in U : t.src = s /\ low + aut[t] <= cap
  BY <1>6, OutLemma
<1>. HIDE DEF U, late
<1>8. Growing(q, late, s, low, cap, r, U) /\ q.done = late
  BY <1>4, <1>5, <1>6, <1>7, VisitedGrowing
<1>. HIDE DEF q
<1>9. Distances(q, late, b)
  BY <1>3, <1>4, <1>5, <1>6, <1>7, <1>8, GrowingEnds DEF cap, late
<1>10. done' = late
  BY <1>1, <1>8
<1>. QED
  BY <1>1, <1>9, <1>10, SameDistances DEF late

-----------------------------------------------------------------------------
(* Paths: the folds that make them and weigh them.                         *)

Weights == INSTANCE FoldProofs WITH
  Step <- LAMBDA p, i, w : mul(w, aut[p[i]]),
  Pick <- LAMBDA T : Max(T),
  base <- LAMBDA p : 0

\* The state that a path starts from, which leads to end.
At(p, end) == IF p = <<>> THEN end ELSE Head(p).src
Backwards(f, i, p) ==
  IF (p # <<>> /\ At(p, f[3]) = f[2]) \/ At(p, f[3]) \notin DOMAIN f[1] THEN p
  ELSE <<f[1][At(p, f[3])]>> \o p
Ways == INSTANCE FoldProofs WITH
  Step <- Backwards,
  Pick <- LAMBDA T : Max(T),
  base <- LAMBDA f : <<>>

Target(p) == p[Len(p)].dst
Longer(s, i, P) ==
  P \union UNION {{Append(p, t) : t \in {u \in Out(aut, Target(p)) :
                                           /\ u.dst # s
                                           /\ \A j \in DOMAIN p : p[j].dst # u.dst}} :
                  p \in P}
Simple == INSTANCE FoldProofs WITH
  Step <- Longer,
  Pick <- LAMBDA T : Max(T),
  base <- LAMBDA s : {<<t>> : t \in {u \in Out(aut, s) : u.dst # s}}

Size == Cardinality(States(aut))

LEMMA PathWeightFold ==
  ASSUME NEW p
  PROVE  PathWeight(p) = Weights!Fold(p, DOMAIN p)
BY DEF PathWeight, FoldLeft, MapThenFoldSet, Weights!Fold

LEMMA PathFold ==
  ASSUME NEW preds, NEW start, NEW end
  PROVE  Path(preds, start, end) = Ways!Fold(<<preds, start, end>>, 1 .. Size)
BY DEF Path, FoldLeft, MapThenFoldSet, Ways!Fold, Backwards, At, Size

LEMMA SimplePathsFold ==
  ASSUME NEW s, NEW e
  PROVE  SimplePaths(s, e) = {p \in Simple!Fold(s, 1 .. Size) : Target(p) = e}
BY DEF SimplePaths, FoldLeft, MapThenFoldSet, Simple!Fold, Longer, Target, Size

\* Induction over the naturals, with a set.
LEMMA NaturalInduction ==
  ASSUME NEW Good, 0 \in Good, \A n \in Nat : n \in Good => n + 1 \in Good
  PROVE  Nat \subseteq Good
<1>. DEFINE Bad == {n \in Nat : n \notin Good}
<1>. SUFFICES ASSUME Bad # {} PROVE FALSE
  OBVIOUS
<1>1. PICK k \in Bad : \A j \in Bad : ~ (j < k)
  BY R!LeastLemma
<1>2. k # 0 /\ k \in Nat
  OBVIOUS
<1>3. k - 1 \in Nat /\ k - 1 < k /\ (k - 1) + 1 = k
  BY <1>2
<1>. QED
  BY <1>1, <1>3

\* The largest of some numbers up to n.
LEMMA MaxLemma ==
  ASSUME NEW n \in Nat
  PROVE  /\ \A T \in SUBSET (1 .. n) : T # {} => Max(T) \in T
         /\ Max(1 .. n + 1) = n + 1
<1>1. ASSUME NEW T \in SUBSET (1 .. n), T # {}
      PROVE  \E x \in T : \A y \in T : x >= y
  <2>. DEFINE Bad == {n - x : x \in T}
  <2>0. \A x \in T : n - x \in Nat
    OBVIOUS
  <2>1. Bad \in SUBSET Nat /\ Bad # {}
    BY <1>1, <2>0
  <2>2. PICK k \in Bad : \A j \in Bad : ~ (j < k)
    BY <2>1, R!LeastLemma
  <2>3. PICK x \in T : k = n - x
    OBVIOUS
  <2>4. \A y \in T : n - y \in Bad
    OBVIOUS
  <2>5. \A y \in T : ~ (n - y < n - x)
    BY <2>2, <2>3, <2>4
  <2>6. \A y \in T : x >= y
    BY <2>5
  <2>. QED
    BY <2>6
<1>2. n + 1 \in 1 .. n + 1 /\ \A y \in 1 .. n + 1 : n + 1 >= y
  OBVIOUS
<1>3. \A x \in 1 .. n + 1 : (\A y \in 1 .. n + 1 : x >= y) => x = n + 1
  BY <1>2
<1>. QED
  BY <1>1, <1>2, <1>3 DEF Max

\* The folds, a step at a time.
LEMMA WeightsUnrolled ==
  ASSUME NEW f
  PROVE  /\ Weights!Fold(f, 1 .. 0) = 0
         /\ \A k \in Nat : Weights!Fold(f, 1 .. k + 1) = mul(Weights!Fold(f, 1 .. k), aut[f[k + 1]])
<1>. HIDE DEF Weights!Fold
<1>1. \A U : Weights!IsFiniteSet(U) <=> IsFiniteSet(U)
  BY DEF Weights!IsFiniteSet, IsFiniteSet
<1>2. ASSUME NEW k \in Nat
      PROVE  Weights!IsFiniteSet(1 .. k) /\ Weights!Picks(1 .. k)
  <2>1. 1 \in Int /\ k \in Int
    BY <1>2
  <2>2. IsFiniteSet(1 .. k)
    BY <2>1, FS_Interval
  <2>3. Weights!IsFiniteSet(1 .. k)
    BY <1>1, <2>2
  <2>4. Weights!Picks(1 .. k)
    BY <1>2, MaxLemma DEF Weights!Picks
  <2>. QED
    BY <2>3, <2>4
<1>3. Weights!Fold(f, 1 .. 0) = 0
  <2>1. Weights!IsFiniteSet(1 .. 0) /\ Weights!Picks(1 .. 0) /\ 1 .. 0 = {}
    BY <1>2
  <2>. QED
    BY <2>1, Weights!FoldUnrolled
<1>4. ASSUME NEW k \in Nat
      PROVE  Weights!Fold(f, 1 .. k + 1) = mul(Weights!Fold(f, 1 .. k), aut[f[k + 1]])
  <2>1. Weights!IsFiniteSet(1 .. k + 1) /\ Weights!Picks(1 .. k + 1)
    BY <1>2
  <2>2. Max(1 .. k + 1) = k + 1 /\ 1 .. k + 1 # {} /\ (1 .. k + 1) \ {k + 1} = 1 .. k
    BY MaxLemma
  <2>3. 1 .. k + 1 # {} => Weights!Fold(f, 1 .. k + 1) = mul(Weights!Fold(f, (1 .. k + 1) \ {Max(1 .. k + 1)}), aut[f[Max(1 .. k + 1)]])
    BY <2>1, Weights!FoldUnrolled
  <2>. QED
    BY <2>2, <2>3
<1>. QED
  BY <1>3, <1>4

LEMMA WaysUnrolled ==
  ASSUME NEW f
  PROVE  /\ Ways!Fold(f, 1 .. 0) = <<>>
         /\ \A k \in Nat : Ways!Fold(f, 1 .. k + 1) = Backwards(f, k + 1, Ways!Fold(f, 1 .. k))
<1>. HIDE DEF Ways!Fold
<1>1. \A U : Ways!IsFiniteSet(U) <=> IsFiniteSet(U)
  BY DEF Ways!IsFiniteSet, IsFiniteSet
<1>2. ASSUME NEW k \in Nat
      PROVE  Ways!IsFiniteSet(1 .. k) /\ Ways!Picks(1 .. k)
  <2>1. 1 \in Int /\ k \in Int
    BY <1>2
  <2>2. IsFiniteSet(1 .. k)
    BY <2>1, FS_Interval
  <2>3. Ways!IsFiniteSet(1 .. k)
    BY <1>1, <2>2
  <2>4. Ways!Picks(1 .. k)
    BY <1>2, MaxLemma DEF Ways!Picks
  <2>. QED
    BY <2>3, <2>4
<1>3. Ways!Fold(f, 1 .. 0) = <<>>
  <2>1. Ways!IsFiniteSet(1 .. 0) /\ Ways!Picks(1 .. 0) /\ 1 .. 0 = {}
    BY <1>2
  <2>. QED
    BY <2>1, Ways!FoldUnrolled
<1>4. ASSUME NEW k \in Nat
      PROVE  Ways!Fold(f, 1 .. k + 1) = Backwards(f, k + 1, Ways!Fold(f, 1 .. k))
  <2>1. Ways!IsFiniteSet(1 .. k + 1) /\ Ways!Picks(1 .. k + 1)
    BY <1>2
  <2>2. Max(1 .. k + 1) = k + 1 /\ 1 .. k + 1 # {} /\ (1 .. k + 1) \ {k + 1} = 1 .. k
    BY MaxLemma
  <2>3. 1 .. k + 1 # {} => Ways!Fold(f, 1 .. k + 1) = Backwards(f, Max(1 .. k + 1), Ways!Fold(f, (1 .. k + 1) \ {Max(1 .. k + 1)}))
    BY <2>1, Ways!FoldUnrolled
  <2>. QED
    BY <2>2, <2>3
<1>. QED
  BY <1>3, <1>4

LEMMA SimpleUnrolled ==
  ASSUME NEW f
  PROVE  /\ Simple!Fold(f, 1 .. 0) = {<<t>> : t \in {u \in Out(aut, f) : u.dst # f}}
         /\ \A k \in Nat : Simple!Fold(f, 1 .. k + 1) = Longer(f, k + 1, Simple!Fold(f, 1 .. k))
<1>. HIDE DEF Simple!Fold
<1>1. \A U : Simple!IsFiniteSet(U) <=> IsFiniteSet(U)
  BY DEF Simple!IsFiniteSet, IsFiniteSet
<1>2. ASSUME NEW k \in Nat
      PROVE  Simple!IsFiniteSet(1 .. k) /\ Simple!Picks(1 .. k)
  <2>1. 1 \in Int /\ k \in Int
    BY <1>2
  <2>2. IsFiniteSet(1 .. k)
    BY <2>1, FS_Interval
  <2>3. Simple!IsFiniteSet(1 .. k)
    BY <1>1, <2>2
  <2>4. Simple!Picks(1 .. k)
    BY <1>2, MaxLemma DEF Simple!Picks
  <2>. QED
    BY <2>3, <2>4
<1>3. Simple!Fold(f, 1 .. 0) = {<<t>> : t \in {u \in Out(aut, f) : u.dst # f}}
  <2>1. Simple!IsFiniteSet(1 .. 0) /\ Simple!Picks(1 .. 0) /\ 1 .. 0 = {}
    BY <1>2
  <2>. QED
    BY <2>1, Simple!FoldUnrolled
<1>4. ASSUME NEW k \in Nat
      PROVE  Simple!Fold(f, 1 .. k + 1) = Longer(f, k + 1, Simple!Fold(f, 1 .. k))
  <2>1. Simple!IsFiniteSet(1 .. k + 1) /\ Simple!Picks(1 .. k + 1)
    BY <1>2
  <2>2. Max(1 .. k + 1) = k + 1 /\ 1 .. k + 1 # {} /\ (1 .. k + 1) \ {k + 1} = 1 .. k
    BY MaxLemma
  <2>3. 1 .. k + 1 # {} => Simple!Fold(f, 1 .. k + 1) = Longer(f, Max(1 .. k + 1), Simple!Fold(f, (1 .. k + 1) \ {Max(1 .. k + 1)}))
    BY <2>1, Simple!FoldUnrolled
  <2>. QED
    BY <2>2, <2>3
<1>. QED
  BY <1>3, <1>4

-----------------------------------------------------------------------------
(* The paths that the reference definition has.                            *)

\* Arcs that follow each other, from s; and come to no state twice.
IsPath(p, s) ==
  /\ p \in Seq(Arcs(aut)) /\ Len(p) # 0
  /\ p[1].src = s
  /\ \A i \in 1 .. Len(p) - 1 : p[i + 1].src = p[i].dst
IsSimple(p, s) ==
  /\ IsPath(p, s)
  /\ \A i \in 1 .. Len(p) : p[i].dst # s
  /\ \A i, j \in 1 .. Len(p) : p[i].dst = p[j].dst => i = j

\* One arc more, and one arc less.
LEMMA AppendPath ==
  ASSUME NEW s, NEW p, IsPath(p, s), NEW t \in Out(aut, Target(p))
  PROVE  IsPath(Append(p, t), s)
<1>. DEFINE q == Append(p, t)
<1>1. p \in Seq(Arcs(aut)) /\ Len(p) \in Nat /\ Len(p) # 0 /\ t \in Arcs(aut) /\ t.src = p[Len(p)].dst
  BY DEF IsPath, Out, Target
<1>2. /\ q \in Seq(Arcs(aut)) /\ Len(q) = Len(p) + 1
      /\ q[Len(p) + 1] = t
      /\ \A i \in 1 .. Len(p) : q[i] = p[i]
  BY <1>1
<1>. HIDE DEF q
<1>3. q[1].src = s
  BY <1>1, <1>2 DEF IsPath
<1>4. ASSUME NEW i \in 1 .. Len(q) - 1
      PROVE  q[i + 1].src = q[i].dst
  <2>1. CASE i = Len(p)
    BY <1>1, <1>2, <2>1
  <2>2. CASE i # Len(p)
    <3>1. i \in 1 .. Len(p) - 1 /\ i \in 1 .. Len(p) /\ i + 1 \in 1 .. Len(p)
      BY <1>1, <1>2, <2>2
    <3>2. p[i + 1].src = p[i].dst
      BY <3>1 DEF IsPath
    <3>. QED
      BY <1>2, <3>1, <3>2
  <2>. QED
    BY <2>1, <2>2
<1>5. Len(q) # 0
  BY <1>1, <1>2
<1>. QED
  BY <1>2, <1>3, <1>4, <1>5 DEF IsPath, q

LEMMA ShortenSimple ==
  ASSUME NEW s, NEW p, IsSimple(p, s), Len(p) > 1
  PROVE  \E q : /\ IsSimple(q, s) /\ Len(q) = Len(p) - 1
                /\ p = Append(q, p[Len(p)])
                /\ p[Len(p)] \in Out(aut, Target(q))
                /\ p[Len(p)].dst # s
                /\ \A j \in DOMAIN q : q[j].dst # p[Len(p)].dst
<1>. DEFINE n == Len(p)
            q == SubSeq(p, 1, n - 1)
            t == p[n]
<1>1. p \in Seq(Arcs(aut)) /\ n \in Nat /\ n > 1
  BY DEF IsSimple, IsPath
<1>2. /\ q \in Seq(Arcs(aut)) /\ Len(q) = n - 1 /\ DOMAIN q = 1 .. n - 1
      /\ \A i \in 1 .. n - 1 : q[i] = p[i]
  <2>1. 1 .. n - 1 \subseteq 1 .. n
    BY <1>1
  <2>. QED
    BY <1>1, <2>1
<1>3. p = Append(q, t)
  <2>1. Append(q, t) \in Seq(Arcs(aut)) /\ Len(Append(q, t)) = n
    BY <1>1, <1>2
  <2>2. \A i \in 1 .. n : Append(q, t)[i] = p[i]
    <3>. HIDE DEF q
    <3>. QED
      BY <1>1, <1>2
  <2>. HIDE DEF q, t
  <2>. QED
    BY <1>1, <2>1, <2>2, SeqEqual
<1>. HIDE DEF q
<1>4. \A i \in 1 .. n - 1 : p[i + 1].src = p[i].dst
  BY DEF IsSimple, IsPath
<1>5. /\ p[1].src = s
      /\ \A i \in 1 .. n : p[i].dst # s
      /\ \A i, j \in 1 .. n : p[i].dst = p[j].dst => i = j
  BY DEF IsSimple, IsPath
<1>. HIDE DEF n
<1>6. IsSimple(q, s)
  <2>1. q[1].src = s /\ Len(q) # 0
    BY <1>1, <1>2, <1>5
  <2>2. ASSUME NEW i \in 1 .. Len(q) - 1
        PROVE  q[i + 1].src = q[i].dst
    <3>1. i \in 1 .. n - 1 /\ i + 1 \in 1 .. n - 1
      BY <1>1, <1>2
    <3>. QED
      BY <1>2, <1>4, <3>1
  <2>3. \A i \in 1 .. Len(q) : i \in 1 .. n - 1 /\ i \in 1 .. n
    BY <1>1, <1>2
  <2>. QED
    BY <1>2, <1>5, <2>1, <2>2, <2>3 DEF IsSimple, IsPath
<1>7. t \in Out(aut, Target(q))
  <2>1. n - 1 \in 1 .. n - 1 /\ (n - 1) + 1 = n /\ n \in 1 .. n
    BY <1>1
  <2>2. Target(q) = p[n - 1].dst /\ t.src = p[n - 1].dst
    BY <1>2, <1>4, <2>1 DEF Target, t
  <2>3. t \in Arcs(aut)
    BY <1>1, <2>1 DEF n
  <2>. QED
    BY <2>2, <2>3 DEF Out
<1>8. t.dst # s /\ \A j \in DOMAIN q : q[j].dst # t.dst
  <2>1. n \in 1 .. n
    BY <1>1
  <2>2. ASSUME NEW j \in 1 .. n - 1
        PROVE  q[j].dst # t.dst
    <3>1. j \in 1 .. n /\ j # n
      BY <1>1
    <3>. QED
      BY <1>2, <1>5, <2>1, <3>1
  <2>. QED
    BY <1>2, <1>5, <2>1, <2>2
<1>. QED
  BY <1>2, <1>3, <1>6, <1>7, <1>8 DEF n

\* What the definition gives are paths, and it gives those that come to no
\* state twice and are not longer than there are states.
LEMMA SimplePathsArePaths ==
  ASSUME IsAutomaton(aut), NEW s, NEW e, NEW p \in SimplePaths(s, e)
  PROVE  IsPath(p, s) /\ Target(p) = e
<1>. DEFINE Good == {k \in Nat : \A q \in Simple!Fold(s, 1 .. k) : IsPath(q, s)}
<1>. HIDE DEF Simple!Fold
<1>1. 0 \in Good
  <2>1. ASSUME NEW q \in Simple!Fold(s, 1 .. 0)
        PROVE  IsPath(q, s)
    <3>1. PICK t \in Out(aut, s) : q = <<t>>
      BY SimpleUnrolled
    <3>2. t \in Arcs(aut) /\ t.src = s
      BY <3>1 DEF Out
    <3>. QED
      BY <3>1, <3>2 DEF IsPath
  <2>. QED
    BY <2>1
<1>2. ASSUME NEW k \in Good
      PROVE  k + 1 \in Good
  <2>1. ASSUME NEW q \in Simple!Fold(s, 1 .. k + 1)
        PROVE  IsPath(q, s)
    <3>1. q \in Longer(s, k + 1, Simple!Fold(s, 1 .. k))
      BY SimpleUnrolled
    <3>2. \A r \in Simple!Fold(s, 1 .. k) : IsPath(r, s)
      OBVIOUS
    <3>3. CASE q \in Simple!Fold(s, 1 .. k)
      BY <3>2, <3>3
    <3>4. CASE q \notin Simple!Fold(s, 1 .. k)
      <4>1. PICK r \in Simple!Fold(s, 1 .. k) : \E t \in Out(aut, Target(r)) : q = Append(r, t)
        BY <3>1, <3>4 DEF Longer
      <4>. QED
        BY <3>2, <4>1, AppendPath
    <3>. QED
      BY <3>3, <3>4
  <2>. QED
    BY <2>1
<1>3. Size \in Nat
  BY StatesFinite, FS_CardinalityType DEF Size
<1>4. Nat \subseteq Good
  <2>. HIDE DEF Good
  <2>1. \A n \in Nat : n \in Good => n + 1 \in Good
    BY <1>2
  <2>. QED
    BY <1>1, <2>1, NaturalInduction
<1>. QED
  BY <1>3, <1>4, SimplePathsFold

LEMMA SimplePathsAreAll ==
  ASSUME IsAutomaton(aut), NEW s, NEW p, IsSimple(p, s), Len(p) <= Size + 1
  PROVE  p \in SimplePaths(s, Target(p))
<1>. DEFINE Has(k) == \A q : IsSimple(q, s) /\ Len(q) <= k + 1 => q \in Simple!Fold(s, 1 .. k)
            Good == {k \in Nat : Has(k)}
<1>. HIDE DEF Simple!Fold
<1>0. \A q : IsSimple(q, s) => q \in Seq(Arcs(aut)) /\ Len(q) \in Nat /\ Len(q) # 0
  BY DEF IsSimple, IsPath
<1>1. 0 \in Good
  <2>1. ASSUME NEW q, IsSimple(q, s), Len(q) <= 0 + 1
        PROVE  q \in Simple!Fold(s, 1 .. 0)
    <3>1. Len(q) = 1 /\ q \in Seq(Arcs(aut))
      <4>1. q \in Seq(Arcs(aut)) /\ Len(q) \in Nat /\ Len(q) # 0
        BY <1>0, <2>1
      <4>2. Len(q) <= 0 + 1
        BY <2>1
      <4>3. \A n \in Nat : n # 0 /\ n <= 0 + 1 => n = 1
        OBVIOUS
      <4>. HIDE DEF Good, Has
      <4>. QED
        BY <4>1, <4>2, <4>3
    <3>2. q = <<q[1]>> /\ q[1] \in Arcs(aut)
      BY <3>1
    <3>3. q[1].src = s /\ q[1].dst # s
      BY <2>1, <3>1 DEF IsSimple, IsPath
    <3>. QED
      BY <3>2, <3>3, SimpleUnrolled DEF Out
  <2>. QED
    BY <2>1
<1>2. ASSUME NEW k \in Nat, Has(k)
      PROVE  Has(k + 1)
  <2>1. ASSUME NEW q, IsSimple(q, s), Len(q) <= (k + 1) + 1
        PROVE  q \in Simple!Fold(s, 1 .. k + 1)
    <3>1. SUFFICES q \in Longer(s, k + 1, Simple!Fold(s, 1 .. k))
      BY SimpleUnrolled
    <3>2. CASE Len(q) <= k + 1
      <4>1. q \in Simple!Fold(s, 1 .. k)
        BY <1>2, <2>1, <3>2
      <4>. QED
        BY <4>1 DEF Longer
    <3>3. CASE ~ Len(q) <= k + 1
      <4>1. Len(q) = k + 2 /\ Len(q) > 1
        BY <1>0, <2>1, <3>3
      <4>. DEFINE t == q[Len(q)]
      <4>2. PICK r : /\ IsSimple(r, s) /\ Len(r) = Len(q) - 1
                     /\ q = Append(r, t)
                     /\ t \in Out(aut, Target(r))
                     /\ t.dst # s
                     /\ \A j \in DOMAIN r : r[j].dst # t.dst
        BY <2>1, <4>1, ShortenSimple
      <4>. HIDE DEF t
      <4>3. r \in Simple!Fold(s, 1 .. k)
        BY <1>2, <4>1, <4>2
      <4>. QED
        BY <4>2, <4>3 DEF Longer
    <3>. QED
      BY <3>2, <3>3
  <2>. QED
    BY <2>1
<1>3. Size \in Nat
  BY StatesFinite, FS_CardinalityType DEF Size
<1>4. Nat \subseteq Good
  <2>1. \A n \in Nat : n \in Good => n + 1 \in Good
    BY <1>2
  <2>. HIDE DEF Good
  <2>. QED
    BY <1>1, <2>1, NaturalInduction
<1>. QED
  BY <1>3, <1>4, SimplePathsFold

-----------------------------------------------------------------------------
(* Weights of paths.                                                       *)

\* The weight of the first k arcs.
Upto(p, k) == Weights!Fold(p, 1 .. k)

LEMMA UptoLemma ==
  ASSUME NEW p, NEW s, IsPath(p, s)
  PROVE  /\ Len(p) \in Nat \ {0}
         /\ PathWeight(p) = Upto(p, Len(p))
         /\ Upto(p, 0) = 0
         /\ \A k \in 1 .. Len(p) : Upto(p, k) = mul(Upto(p, k - 1), aut[p[k]])
<1>. HIDE DEF Weights!Fold
<1>1. p \in Seq(Arcs(aut)) /\ Len(p) \in Nat \ {0} /\ DOMAIN p = 1 .. Len(p)
  BY DEF IsPath
<1>2. PathWeight(p) = Upto(p, Len(p))
  BY <1>1, PathWeightFold DEF Upto
<1>3. ASSUME NEW k \in 1 .. Len(p)
      PROVE  Upto(p, k) = mul(Upto(p, k - 1), aut[p[k]])
  <2>1. k - 1 \in Nat /\ (k - 1) + 1 = k
    BY <1>1
  <2>2. Weights!Fold(p, 1 .. (k - 1) + 1) = mul(Weights!Fold(p, 1 .. k - 1), aut[p[(k - 1) + 1]])
    BY <2>1, WeightsUnrolled
  <2>. QED
    BY <2>1, <2>2 DEF Upto
<1>. QED
  BY <1>1, <1>2, <1>3, WeightsUnrolled DEF Upto

\* What holds of no arc, and of one arc more.
LEMMA AlongPath ==
  ASSUME NEW n \in Nat, NEW Good, 0 \in Good,
         \A k \in 1 .. n : k - 1 \in Good => k \in Good
  PROVE  \A k \in 0 .. n : k \in Good
<1>. DEFINE Fine == {k \in Nat : k <= n => k \in Good}
<1>1. ASSUME NEW k \in Nat, k \in Fine
      PROVE  k + 1 \in Fine
  <2>1. CASE k + 1 <= n
    <3>1. k + 1 \in 1 .. n /\ (k + 1) - 1 = k /\ k <= n
      BY <2>1
    <3>. QED
      BY <1>1, <3>1
  <2>2. CASE ~ k + 1 <= n
    BY <2>2
  <2>. QED
    BY <2>1, <2>2
<1>2. Nat \subseteq Fine
  <2>1. 0 \in Fine /\ \A k \in Nat : k \in Fine => k + 1 \in Fine
    BY <1>1
  <2>. HIDE DEF Fine
  <2>. QED
    BY <2>1, NaturalInduction
<1>. QED
  BY <1>2

\* Weights that are not negative make paths that are not.
LEMMA PathsNotNegative ==
  ASSUME IsAutomaton(aut), \A u \in Arcs(aut) : aut[u] \in Nat, NEW p, NEW s, IsPath(p, s)
  PROVE  \A k \in 0 .. Len(p) : Upto(p, k) \in Nat
<1>. DEFINE Good == {k \in Nat : Upto(p, k) \in Nat}
<1>1. /\ Len(p) \in Nat /\ p \in Seq(Arcs(aut))
      /\ Upto(p, 0) = 0
      /\ \A k \in 1 .. Len(p) : Upto(p, k) = mul(Upto(p, k - 1), aut[p[k]])
  BY UptoLemma DEF IsPath
<1>2. ASSUME NEW k \in 1 .. Len(p), k - 1 \in Good
      PROVE  k \in Good
  <2>1. p[k] \in Arcs(aut) /\ k \in Nat
    BY <1>1
  <2>2. aut[p[k]] \in Nat /\ aut[p[k]] # W!oo
    BY <2>1 DEF IsAutomaton
  <2>3. Upto(p, k - 1) \in Nat
    BY <1>2
  <2>4. mul(Upto(p, k - 1), aut[p[k]]) \in Nat
    BY <2>2, <2>3, HeavierLemma
  <2>. QED
    BY <1>1, <2>1, <2>4
<1>3. 0 \in Good
  BY <1>1
<1>. HIDE DEF Good
<1>4. \A k \in 0 .. Len(p) : k \in Good
  BY <1>1, <1>2, <1>3, AlongPath
<1>. QED
  BY <1>4 DEF Good

LEMMA NothingLightens ==
  ASSUME IsAutomaton(aut), \A u \in Arcs(aut) : aut[u] \in Nat
  PROVE  ~ Lightens
<1>. SUFFICES ASSUME NEW s, NEW t \in Arcs(aut), NEW p \in SimplePaths(s, t.src)
              PROVE  ~ mul(PathWeight(p), aut[t]) < 0
  BY DEF Lightens
<1>1. IsPath(p, s)
  BY SimplePathsArePaths
<1>2. PathWeight(p) \in Nat
  BY <1>1, UptoLemma, PathsNotNegative
<1>3. aut[t] \in Nat /\ aut[t] # W!oo
  BY DEF IsAutomaton
<1>4. mul(PathWeight(p), aut[t]) \in Nat
  BY <1>2, <1>3, HeavierLemma
<1>. QED
  BY <1>4

-----------------------------------------------------------------------------
(* When the search is over.                                                *)

\* What waits is not nearer than post.
Over(r, over) ==
  /\ pre \in over
  /\ \A x \in DOMAIN r.dist : x \notin over =>
       post \in DOMAIN r.dist /\ r.dist[post] <= r.dist[x]

\* No path is lighter than the distance of post, and post was reached if there
\* is a path.
LEMMA LowerBound ==
  ASSUME NEW b \in Nat, Weighted(b), NEW r, NEW over, Distances(r, over, b), Over(r, over),
         NEW p, IsPath(p, pre), Target(p) = post
  PROVE  post \in DOMAIN r.dist /\ r.dist[post] <= PathWeight(p)
<1>. DEFINE end(k) == IF k = 0 THEN pre ELSE p[k].dst
            Near(k) == end(k) \in over /\ r.dist[end(k)] <= Upto(p, k)
            Far(k) == post \in DOMAIN r.dist /\ r.dist[post] <= Upto(p, k)
            Good == {k \in Nat : Near(k) \/ Far(k)}
            n == Len(p)
<1>1. /\ p \in Seq(Arcs(aut)) /\ n \in Nat \ {0}
      /\ p[1].src = pre
      /\ \A i \in 1 .. n - 1 : p[i + 1].src = p[i].dst
      /\ PathWeight(p) = Upto(p, n)
      /\ Upto(p, 0) = 0
      /\ \A k \in 1 .. n : Upto(p, k) = mul(Upto(p, k - 1), aut[p[k]])
      /\ \A k \in 0 .. n : Upto(p, k) \in Nat
  BY UptoLemma, PathsNotNegative DEF IsPath, Weighted
<1>2. /\ \A x \in DOMAIN r.dist : r.dist[x] \in Nat
      /\ r.dist[pre] = 0
      /\ over \subseteq DOMAIN r.dist
      /\ \A t \in Arcs(aut) : t.src \in over =>
           t.dst \in DOMAIN r.dist /\ r.dist[t.dst] <= r.dist[t.src] + aut[t]
  BY DEF Distances, Tree, Spread, From
<1>3. \A x \in DOMAIN r.dist : r.dist[x] < W!oo
  <2>1. over \in SUBSET States(aut) /\ pre \in States(aut)
    BY TreeStates, StatesFinite DEF Distances, Weighted
  <2>2. /\ b * Cardinality(over \union {pre}) < W!oo
        /\ b * Cardinality(over \union {pre}) \in Nat
        /\ b * Cardinality(over) \in Nat
        /\ b * Cardinality(over) <= b * Cardinality(over \union {pre})
    BY <2>1, CapLemma DEF Weighted
  <2>3. \A x \in DOMAIN r.dist : r.dist[x] <= b * Cardinality(over)
    BY DEF Distances, Bounded
  <2>. QED
    BY <1>2, <2>2, <2>3, ooLemma
<1>. HIDE DEF n
<1>4. 0 \in Good
  BY <1>1, <1>2 DEF Over
<1>5. ASSUME NEW k \in 1 .. n, k - 1 \in Good
      PROVE  k \in Good
  <2>. DEFINE t == p[k]
              w == Upto(p, k - 1)
              v == Upto(p, k)
  <2>1. k \in Nat /\ k - 1 \in 0 .. n /\ k \in 0 .. n /\ t \in Arcs(aut)
    BY <1>1 DEF n
  <2>2. aut[t] \in Nat /\ aut[t] # W!oo
    BY <2>1 DEF Weighted, IsAutomaton
  <2>3. w \in Nat /\ v \in Nat /\ v = mul(w, aut[t])
    BY <1>1, <2>1
  <2>4. v = IF w = W!oo THEN W!oo ELSE w + aut[t]
    BY <2>2, <2>3, mulLemma
  <2>5. w <= v
    BY <2>2, <2>3, <2>4
  <2>6. t.src = end(k - 1)
    <3>1. CASE k = 1
      BY <1>1, <3>1
    <3>2. CASE k # 1
      <4>1. n \in Nat
        BY <1>1
      <4>2. k - 1 \in 1 .. n - 1 /\ (k - 1) + 1 = k /\ k - 1 # 0
        BY <3>2, <4>1
      <4>. QED
        BY <1>1, <4>2
    <3>. QED
      BY <3>1, <3>2
  <2>7. end(k) = t.dst
    BY <2>1
  <2>8. Near(k - 1) \/ Far(k - 1)
    BY <1>5
  <2>. HIDE DEF t, w, v, end
  <2>9. CASE Near(k - 1)
    <3>1. t.src \in over /\ r.dist[t.src] <= w
      BY <2>6, <2>9 DEF w
    <3>2. t.dst \in DOMAIN r.dist /\ r.dist[t.dst] <= r.dist[t.src] + aut[t]
      BY <1>2, <2>1, <3>1
    <3>3. r.dist[t.dst] \in Nat /\ r.dist[t.src] \in Nat /\ r.dist[t.dst] < W!oo
      BY <1>2, <1>3, <3>1, <3>2
    <3>4. r.dist[t.dst] <= v
      BY <2>2, <2>3, <2>4, <3>1, <3>2, <3>3, ooLemma
    <3>5. CASE t.dst \in over
      BY <2>1, <2>7, <3>4, <3>5 DEF v
    <3>6. CASE t.dst \notin over
      <4>1. post \in DOMAIN r.dist /\ r.dist[post] <= r.dist[t.dst]
        BY <3>2, <3>6 DEF Over
      <4>2. r.dist[post] <= v
        BY <1>2, <2>3, <3>3, <3>4, <4>1
      <4>. QED
        BY <2>1, <4>1, <4>2 DEF v
    <3>. QED
      BY <3>5, <3>6
  <2>10. CASE Far(k - 1)
    <3>1. post \in DOMAIN r.dist /\ r.dist[post] <= w /\ r.dist[post] \in Nat
      BY <1>2, <2>10 DEF w
    <3>2. r.dist[post] <= v
      BY <2>3, <2>5, <3>1
    <3>. QED
      BY <2>1, <3>1, <3>2 DEF v
  <2>. QED
    BY <2>8, <2>9, <2>10
<1>6. n \in Good
  <2>. HIDE DEF Good
  <2>1. \A k \in 0 .. n : k \in Good
    BY <1>1, <1>4, <1>5, AlongPath
  <2>. QED
    BY <1>1, <2>1
<1>7. end(n) = post
  BY <1>1 DEF Target, n
<1>. QED
  BY <1>1, <1>2, <1>6, <1>7

-----------------------------------------------------------------------------
(* The path that is found.                                                 *)

LEMMA PrependLemma ==
  ASSUME NEW S, NEW p \in Seq(S), NEW t \in S
  PROVE  LET q == <<t>> \o p
         IN  /\ q \in Seq(S) /\ Len(q) = Len(p) + 1
             /\ q[1] = t
             /\ \A i \in 1 .. Len(p) : q[i + 1] = p[i]
<1>1. <<t>> \in Seq(S) /\ Len(<<t>>) = 1 /\ <<t>>[1] = t /\ Len(p) \in Nat
  OBVIOUS
<1>2. <<t>> \o p \in Seq(S) /\ Len(<<t>> \o p) = 1 + Len(p)
  BY <1>1
<1>3. \A i \in 1 .. 1 + Len(p) : (<<t>> \o p)[i] = IF i <= 1 THEN <<t>>[i] ELSE p[i - 1]
  BY <1>1
<1>4. (<<t>> \o p)[1] = t
  BY <1>1, <1>3
<1>5. ASSUME NEW i \in 1 .. Len(p)
      PROVE  (<<t>> \o p)[i + 1] = p[i]
  <2>1. i + 1 \in 1 .. 1 + Len(p) /\ ~ i + 1 <= 1 /\ (i + 1) - 1 = i
    BY <1>1
  <2>. QED
    BY <1>3, <2>1
<1>. QED
  BY <1>1, <1>2, <1>4, <1>5

\* A way back from post, along the arcs of res.
Back(p, r) ==
  /\ p \in Seq(Arcs(aut))
  /\ \A i \in 1 .. Len(p) : p[i].dst \in DOMAIN r.res /\ r.res[p[i].dst] = p[i]
  /\ \A i \in 1 .. Len(p) - 1 : p[i + 1].src = p[i].dst
  /\ Len(p) # 0 => Target(p) = post
  /\ \A i, j \in 1 .. Len(p) : p[i].dst = p[j].dst => i = j

\* It does not come back to one of its states, since those are reached from
\* elsewhere.
LEMMA NoCircuit ==
  ASSUME IsAutomaton(aut), NEW r, NEW over, Tree(r, over), Rooted(r, over),
         NEW p, Back(p, r), NEW i \in 1 .. Len(p)
  PROVE  p[1].src # p[i].dst
<1>. SUFFICES ASSUME p[1].src = p[i].dst
              PROVE  FALSE
  OBVIOUS
<1>. DEFINE n == Len(p)
            X == {p[j].dst : j \in 1 .. i}
<1>1. /\ p \in Seq(Arcs(aut)) /\ n \in Nat
      /\ \A j \in 1 .. n : p[j].dst \in DOMAIN r.res /\ r.res[p[j].dst] = p[j]
      /\ \A j \in 1 .. n - 1 : p[j + 1].src = p[j].dst
      /\ n # 0 => p[n].dst = post
  BY DEF Back, Target
<1>2. \A x \in DOMAIN r.res : r.res[x].src \in over /\ r.res[x].src # post
  BY DEF Tree, IsAutomaton
<1>. HIDE DEF n
<1>3. i \in 1 .. n /\ 1 \in 1 .. n
  BY <1>1 DEF n
<1>4. i # n
  BY <1>1, <1>2, <1>3
<1>5. \A j \in 1 .. i : j \in 1 .. n - 1 /\ j \in 1 .. n /\ j + 1 \in 1 .. n
  BY <1>1, <1>3, <1>4
<1>6. X \subseteq DOMAIN r.res
  BY <1>1, <1>5
<1>7. ASSUME NEW j \in 1 .. i
      PROVE  p[j].dst \in over
  <2>1. p[j + 1].src = p[j].dst /\ j + 1 \in 1 .. n
    BY <1>1, <1>5
  <2>2. r.res[p[j + 1].dst] = p[j + 1] /\ p[j + 1].dst \in DOMAIN r.res
    BY <1>1, <2>1
  <2>. QED
    BY <1>2, <2>1, <2>2
<1>8. ASSUME NEW j \in 1 .. i
      PROVE  r.res[p[j].dst].src \in X
  <2>1. r.res[p[j].dst] = p[j]
    BY <1>1, <1>5
  <2>2. CASE j = 1
    BY <1>1, <1>3, <2>1, <2>2
  <2>3. CASE j # 1
    <3>1. j - 1 \in 1 .. i /\ (j - 1) + 1 = j
      BY <1>1, <1>3, <2>3
    <3>2. p[j].src = p[j - 1].dst
      BY <1>1, <1>5, <3>1
    <3>. QED
      BY <2>1, <3>1, <3>2
  <2>. QED
    BY <2>2, <2>3
<1>9. X \in SUBSET over /\ X # {}
  BY <1>1, <1>3, <1>7
<1>10. \A x \in X : r.res[x].src \in X
  BY <1>8
<1>. HIDE DEF X
<1>. QED
  BY <1>6, <1>9, <1>10 DEF Rooted

LEMMA BackStep ==
  ASSUME IsAutomaton(aut), NEW r, NEW over, Tree(r, over), Rooted(r, over),
         NEW p, Back(p, r), At(p, post) \in DOMAIN r.res
  PROVE  /\ Back(<<r.res[At(p, post)]>> \o p, r)
         /\ Len(<<r.res[At(p, post)]>> \o p) = Len(p) + 1
<1>. DEFINE x == At(p, post)
            t == r.res[x]
            q == <<t>> \o p
            n == Len(p)
<1>1. /\ p \in Seq(Arcs(aut)) /\ n \in Nat
      /\ \A i \in 1 .. n : p[i].dst \in DOMAIN r.res /\ r.res[p[i].dst] = p[i]
      /\ \A i \in 1 .. n - 1 : p[i + 1].src = p[i].dst
      /\ n # 0 => Target(p) = post
      /\ \A i, j \in 1 .. n : p[i].dst = p[j].dst => i = j
  BY DEF Back
<1>2. t \in Arcs(aut) /\ t.dst = x
  BY DEF Tree
<1>3. /\ q \in Seq(Arcs(aut)) /\ Len(q) = n + 1
      /\ q[1] = t
      /\ \A i \in 1 .. n : q[i + 1] = p[i]
  BY <1>1, <1>2, PrependLemma
<1>4. IF n = 0 THEN x = post ELSE x = p[1].src
  BY <1>1 DEF At
<1>5. \A i \in 1 .. n : x # p[i].dst
  BY <1>1, <1>4, NoCircuit
<1>. HIDE DEF q, x, t
<1>6. \A i \in 1 .. n + 1 : i = 1 \/ (i - 1 \in 1 .. n /\ q[i] = p[i - 1])
  <2>1. ASSUME NEW i \in 1 .. n + 1, i # 1
        PROVE  i - 1 \in 1 .. n /\ q[i] = p[i - 1]
    <3>1. i - 1 \in 1 .. n /\ (i - 1) + 1 = i
      BY <1>1, <2>1
    <3>. QED
      BY <1>3, <3>1
  <2>. QED
    BY <2>1
<1>. HIDE DEF n
<1>7. \A i \in 1 .. Len(q) : q[i].dst \in DOMAIN r.res /\ r.res[q[i].dst] = q[i]
  <2>1. ASSUME NEW i \in 1 .. Len(q)
        PROVE  q[i].dst \in DOMAIN r.res /\ r.res[q[i].dst] = q[i]
    <3>1. CASE i = 1
      BY <1>2, <1>3, <3>1 DEF t, x
    <3>2. CASE i # 1
      BY <1>1, <1>3, <1>6, <3>2
    <3>. QED
      BY <3>1, <3>2
  <2>. QED
    BY <2>1
<1>8. \A i \in 1 .. Len(q) - 1 : q[i + 1].src = q[i].dst
  <2>1. ASSUME NEW i \in 1 .. n
        PROVE  q[i + 1].src = q[i].dst
    <3>1. CASE i = 1
      <4>1. q[2] = p[1] /\ n # 0 /\ i + 1 = 2
        BY <1>1, <1>3, <3>1
      <4>. QED
        BY <1>2, <1>3, <1>4, <3>1, <4>1
    <3>2. CASE i # 1
      <4>1. i - 1 \in 1 .. n - 1 /\ i \in 1 .. n + 1 /\ (i - 1) + 1 = i
        BY <1>1, <3>2
      <4>2. q[i + 1] = p[i] /\ q[i] = p[i - 1] /\ p[i].src = p[i - 1].dst
        BY <1>1, <1>3, <1>6, <3>2, <4>1
      <4>. QED
        BY <4>2
    <3>. QED
      BY <3>1, <3>2
  <2>2. Len(q) - 1 = n
    BY <1>1, <1>3
  <2>. QED
    BY <2>1, <2>2
<1>9. Target(q) = post
  <2>1. CASE n = 0
    BY <1>2, <1>3, <1>4, <2>1 DEF Target
  <2>2. CASE n # 0
    <3>1. n \in 1 .. n
      BY <1>1, <2>2
    <3>2. q[n + 1] = p[n]
      BY <1>3, <3>1
    <3>. QED
      BY <1>1, <1>3, <2>2, <3>2 DEF Target, n
  <2>. QED
    BY <2>1, <2>2
<1>10. \A i, j \in 1 .. Len(q) : q[i].dst = q[j].dst => i = j
  <2>1. ASSUME NEW i \in 1 .. n + 1, NEW j \in 1 .. n + 1, q[i].dst = q[j].dst
        PROVE  i = j
    <3>1. CASE i = 1 /\ j # 1
      BY <1>2, <1>3, <1>5, <1>6, <2>1, <3>1
    <3>2. CASE i # 1 /\ j = 1
      BY <1>2, <1>3, <1>5, <1>6, <2>1, <3>2
    <3>3. CASE i # 1 /\ j # 1
      <4>1. i - 1 \in 1 .. n /\ j - 1 \in 1 .. n /\ p[i - 1].dst = p[j - 1].dst
        BY <1>6, <2>1, <3>3
      <4>2. i - 1 = j - 1
        BY <1>1, <4>1
      <4>. QED
        BY <1>1, <4>2
    <3>. QED
      BY <3>1, <3>2, <3>3
  <2>. QED
    BY <1>3, <2>1
<1>11. Back(q, r)
  BY <1>3, <1>7, <1>8, <1>9, <1>10 DEF Back
<1>. QED
  BY <1>3, <1>11 DEF q, t, x, n

\* Such ways are shorter than there are states, pre left out.
LEMMA BackIsShort ==
  ASSUME IsAutomaton(aut), NEW r, NEW over, Tree(r, over), NEW p, Back(p, r)
  PROVE  Len(p) \in Nat /\ Len(p) < Size /\ Size \in Nat
<1>. DEFINE S == States(aut) \ {pre}
            n == Len(p)
            f == [i \in 1 .. n |-> p[i].dst]
<1>1. n \in Nat /\ \A i \in 1 .. n : p[i].dst \in DOMAIN r.res
  BY DEF Back
<1>2. \A x \in DOMAIN r.res : x \in S
  BY TreeStates DEF Tree
<1>3. /\ IsFiniteSet(States(aut)) /\ IsFiniteSet(S) /\ pre \in States(aut)
      /\ Size \in Nat /\ Cardinality(S) = Size - 1
  <2>1. IsFiniteSet(States(aut)) /\ pre \in States(aut)
    BY StatesFinite
  <2>. QED
    BY <2>1, FS_RemoveElement, FS_CardinalityType DEF Size
<1>. HIDE DEF S, n
<1>4. f \in [1 .. n -> S]
  BY <1>1, <1>2
<1>5. \A i, j \in 1 .. n : p[i].dst = p[j].dst => i = j
  BY DEF Back, n
<1>6. \A i, j \in 1 .. n : f[i] = f[j] => i = j
  BY <1>5
<1>7. IsFiniteSet(1 .. n) /\ Cardinality(1 .. n) = n
  <2>1. 1 \in Int /\ n \in Int
    BY <1>1
  <2>2. IsFiniteSet(1 .. n) /\ Cardinality(1 .. n) = IF 1 > n THEN 0 ELSE n - 1 + 1
    BY <2>1, FS_Interval
  <2>. QED
    BY <1>1, <2>2
<1>. HIDE DEF f
<1>. DEFINE D == 1 .. n
<1>8. IsFiniteSet(D) /\ f \in [D -> S] /\ \A i, j \in D : f[i] = f[j] => i = j
  BY <1>4, <1>6, <1>7
<1>9. ~ Cardinality(S) < Cardinality(D)
  <2>. HIDE DEF D
  <2>. SUFFICES ASSUME Cardinality(S) < Cardinality(D) PROVE FALSE
    OBVIOUS
  <2>1. \E x, y \in D : x # y /\ f[x] = f[y]
    BY <1>3, <1>8, FS_PigeonHole
  <2>. QED
    BY <1>8, <2>1
<1>. QED
  BY <1>1, <1>3, <1>7, <1>9 DEF n

LEMMA WaysLemma ==
  ASSUME IsAutomaton(aut), NEW r, NEW over, Tree(r, over), Rooted(r, over),
         post \in DOMAIN r.res, NEW p, p = Path(r.res, pre, post)
  PROVE  Back(p, r) /\ Len(p) # 0 /\ p[1].src = pre
<1>. DEFINE f == <<r.res, pre, post>>
            way(k) == Ways!Fold(f, 1 .. k)
            Done(k) == /\ Back(way(k), r)
                       /\ Len(way(k)) = k \/ (Len(way(k)) # 0 /\ way(k)[1].src = pre)
            Good == {k \in Nat : Done(k)}
<1>. HIDE DEF Ways!Fold
<1>1. 0 \in Good
  <2>1. way(0) = <<>>
    BY WaysUnrolled
  <2>2. Back(<<>>, r)
    BY DEF Back
  <2>. HIDE DEF way
  <2>. QED
    BY <2>1, <2>2
<1>2. ASSUME NEW k \in Nat, Done(k)
      PROVE  Done(k + 1)
  <2>. DEFINE w == way(k)
  <2>1. way(k + 1) = Backwards(f, k + 1, w)
    BY <1>2, WaysUnrolled
  <2>2. f[1] = r.res /\ f[2] = pre /\ f[3] = post
    OBVIOUS
  <2>3. /\ Back(w, r)
        /\ Len(w) = k \/ (Len(w) # 0 /\ w[1].src = pre)
    BY <1>2
  <2>. HIDE DEF w, f, way
  <2>4. w \in Seq(Arcs(aut)) /\ Len(w) \in Nat /\ (w = <<>> <=> Len(w) = 0)
    BY <2>3 DEF Back
  <2>5. At(w, post) = IF Len(w) = 0 THEN post ELSE w[1].src
    BY <2>4 DEF At
  <2>6. CASE w # <<>> /\ At(w, post) = pre
    <3>1. way(k + 1) = w
      BY <2>1, <2>2, <2>6 DEF Backwards
    <3>2. Len(w) # 0 /\ w[1].src = pre
      BY <2>4, <2>5, <2>6
    <3>. QED
      BY <2>3, <3>1, <3>2
  <2>7. CASE ~ (w # <<>> /\ At(w, post) = pre)
    <3>1. At(w, post) \in DOMAIN r.res
      <4>1. CASE Len(w) = 0
        BY <2>5, <4>1
      <4>2. CASE Len(w) # 0
        <5>1. 1 \in 1 .. Len(w)
          BY <2>4, <4>2
        <5>2. w[1].dst \in DOMAIN r.res /\ r.res[w[1].dst] = w[1]
          BY <2>3, <5>1 DEF Back
        <5>3. w[1].src \in DOMAIN r.dist /\ w[1].src # pre
          BY <2>4, <2>5, <2>7, <4>2, <5>2 DEF Tree
        <5>. QED
          BY <2>5, <4>2, <5>3 DEF Tree
      <4>. QED
        BY <4>1, <4>2
    <3>2. way(k + 1) = <<r.res[At(w, post)]>> \o w
      BY <2>1, <2>2, <2>7, <3>1 DEF Backwards
    <3>3. Back(way(k + 1), r) /\ Len(way(k + 1)) = Len(w) + 1
      BY <2>3, <3>1, <3>2, BackStep
    <3>4. Len(w) = k
      BY <2>3, <2>4, <2>5, <2>7
    <3>. QED
      BY <3>3, <3>4
  <2>. QED
    BY <2>6, <2>7
<1>3. Nat \subseteq Good
  <2>1. \A n \in Nat : n \in Good => n + 1 \in Good
    BY <1>2
  <2>. HIDE DEF Good
  <2>. QED
    BY <1>1, <2>1, NaturalInduction
<1>4. Size \in Nat
  BY StatesFinite, FS_CardinalityType DEF Size
<1>5. p = way(Size)
  BY PathFold
<1>. HIDE DEF way
<1>6. Back(p, r) /\ (Len(p) = Size \/ (Len(p) # 0 /\ p[1].src = pre))
  BY <1>3, <1>4, <1>5
<1>7. Len(p) < Size /\ Len(p) \in Nat
  BY <1>6, BackIsShort
<1>. QED
  BY <1>4, <1>6, <1>7

\* Nothing is found when post was not reached.
LEMMA NoWay ==
  ASSUME IsAutomaton(aut), NEW preds, post \notin DOMAIN preds
  PROVE  Path(preds, pre, post) = <<>>
<1>. DEFINE f == <<preds, pre, post>>
            Good == {k \in Nat : Ways!Fold(f, 1 .. k) = <<>>}
<1>. HIDE DEF Ways!Fold
<1>1. 0 \in Good
  BY WaysUnrolled
<1>2. ASSUME NEW k \in Nat, k \in Good
      PROVE  k + 1 \in Good
  <2>1. Ways!Fold(f, 1 .. k + 1) = Backwards(f, k + 1, <<>>)
    BY <1>2, WaysUnrolled
  <2>2. f[1] = preds /\ f[3] = post
    OBVIOUS
  <2>. HIDE DEF f
  <2>3. Backwards(f, k + 1, <<>>) = <<>>
    BY <2>2 DEF Backwards, At
  <2>. QED
    BY <2>1, <2>3
<1>3. Nat \subseteq Good
  <2>. HIDE DEF Good
  <2>. QED
    BY <1>1, <1>2, NaturalInduction
<1>4. Size \in Nat
  BY StatesFinite, FS_CardinalityType DEF Size
<1>. QED
  BY <1>3, <1>4, PathFold

\* What is found comes to no state twice, and weighs what dist says.
LEMMA FoundPath ==
  ASSUME NEW b \in Nat, Weighted(b), NEW r, NEW over, Distances(r, over, b),
         post \in DOMAIN r.res, NEW p, p = Path(r.res, pre, post)
  PROVE  /\ p \in All /\ p[1].src = pre /\ p # <<>>
         /\ PathWeight(p) = r.dist[post]
<1>1. IsAutomaton(aut) /\ Tree(r, over) /\ Rooted(r, over)
  BY DEF Weighted, Distances
<1>2. Back(p, r) /\ Len(p) # 0 /\ p[1].src = pre
  BY <1>1, WaysLemma
<1>3. /\ p \in Seq(Arcs(aut)) /\ Len(p) \in Nat /\ Len(p) < Size /\ Size \in Nat
      /\ \A i \in 1 .. Len(p) : p[i].dst \in DOMAIN r.res /\ r.res[p[i].dst] = p[i]
      /\ \A i \in 1 .. Len(p) - 1 : p[i + 1].src = p[i].dst
      /\ Target(p) = post
      /\ \A i, j \in 1 .. Len(p) : p[i].dst = p[j].dst => i = j
  BY <1>1, <1>2, BackIsShort DEF Back
<1>4. IsPath(p, pre)
  BY <1>2, <1>3 DEF IsPath
<1>5. IsSimple(p, pre)
  <2>1. pre \notin DOMAIN r.res
    BY <1>1 DEF Tree
  <2>. QED
    BY <1>3, <1>4, <2>1 DEF IsSimple
<1>6. p \in All
  <2>1. Len(p) <= Size + 1
    BY <1>3
  <2>. QED
    BY <1>1, <1>3, <1>5, <2>1, SimplePathsAreAll DEF All
<1>7. \A x \in DOMAIN r.dist : r.dist[x] \in Nat /\ r.dist[x] < W!oo
  <2>1. over \in SUBSET States(aut) /\ pre \in States(aut)
    BY <1>1, TreeStates, StatesFinite
  <2>2. /\ b * Cardinality(over \union {pre}) < W!oo
        /\ b * Cardinality(over \union {pre}) \in Nat
        /\ b * Cardinality(over) \in Nat
        /\ b * Cardinality(over) <= b * Cardinality(over \union {pre})
    BY <2>1, CapLemma DEF Weighted
  <2>3. \A x \in DOMAIN r.dist : r.dist[x] <= b * Cardinality(over) /\ r.dist[x] \in Nat
    BY DEF Distances, Bounded, Tree
  <2>. QED
    BY <2>2, <2>3, ooLemma
<1>. DEFINE end(k) == IF k = 0 THEN pre ELSE p[k].dst
            Good == {k \in Nat : Upto(p, k) = r.dist[end(k)]}
            n == Len(p)
<1>8. /\ n \in Nat \ {0} /\ PathWeight(p) = Upto(p, n) /\ Upto(p, 0) = 0
      /\ \A k \in 1 .. n : Upto(p, k) = mul(Upto(p, k - 1), aut[p[k]])
  BY <1>4, UptoLemma
<1>. HIDE DEF n
<1>9. 0 \in Good
  BY <1>1, <1>8 DEF Tree
<1>10. ASSUME NEW k \in 1 .. n, k - 1 \in Good
       PROVE  k \in Good
  <2>. DEFINE t == p[k]
  <2>1. k \in Nat /\ k - 1 \in Nat /\ t \in Arcs(aut) /\ t.dst \in DOMAIN r.res /\ r.res[t.dst] = t
    BY <1>3, <1>8 DEF n
  <2>2. t.src = end(k - 1)
    <3>1. CASE k = 1
      BY <1>2, <3>1
    <3>2. CASE k # 1
      <4>1. n \in Nat
        BY <1>8
      <4>2. k - 1 \in 1 .. n - 1 /\ (k - 1) + 1 = k /\ k - 1 # 0
        BY <3>2, <4>1
      <4>. QED
        BY <1>3, <4>2 DEF n
    <3>. QED
      BY <3>1, <3>2
  <2>3. end(k) = t.dst
    BY <2>1
  <2>4. Upto(p, k - 1) = r.dist[t.src]
    BY <1>10, <2>2
  <2>. HIDE DEF t, end
  <2>5. r.dist[t.dst] = r.dist[t.src] + aut[t] /\ t.src \in DOMAIN r.dist
    BY <1>1, <2>1 DEF Tree
  <2>6. /\ r.dist[t.src] \in Int /\ r.dist[t.src] # W!oo
        /\ aut[t] \in Int /\ aut[t] # W!oo
    BY <1>7, <2>1, <2>5, ooLemma DEF Weighted, IsAutomaton
  <2>7. mul(r.dist[t.src], aut[t]) = r.dist[t.src] + aut[t]
    BY <2>6, mulLemma
  <2>8. Upto(p, k) = mul(Upto(p, k - 1), aut[t])
    BY <1>8 DEF t
  <2>. QED
    BY <2>1, <2>3, <2>4, <2>5, <2>7, <2>8
<1>11. n \in Good
  <2>. HIDE DEF Good
  <2>1. \A k \in 0 .. n : k \in Good
    BY <1>8, <1>9, <1>10, AlongPath
  <2>. QED
    BY <1>8, <2>1
<1>12. end(n) = post
  BY <1>3, <1>8 DEF Target, n
<1>. QED
  BY <1>2, <1>6, <1>8, <1>11, <1>12


-----------------------------------------------------------------------------
(* The answer.                                                             *)

\* The weights are those of the assumptions.
LEMMA BoundLemma ==
  ASSUME ask \in Requests, aut \in Networks(ask), ask.ws = "nmin"
  PROVE  Bound \in Nat /\ Weighted(Bound)
<1>1. IsAutomaton(aut) /\ \A t \in Arcs(aut) : aut[t] \in Nat
  BY NetworksAssumption
<1>2. \E b \in 0 .. W!oo : Bounds(aut, b)
  BY DistancesAssumption DEF Bounds
<1>3. Bound \in 0 .. W!oo /\ Bounds(aut, Bound)
  BY <1>2 DEF Bound
<1>4. Bound \in Nat
  BY <1>3, ooLemma
<1>. QED
  BY <1>1, <1>3, <1>4 DEF Weighted

LEMMA BeginDistances ==
  ASSUME NEW b \in Nat, Begin(Arcs(aut), pre, post)
  PROVE  /\ source' = pre /\ dest' = post /\ view' = Arcs(aut) /\ done' = {}
         /\ Distances([res |-> res', dist |-> dist', todo |-> todo'], done', b)
<1>. DEFINE r == [res |-> res', dist |-> dist', todo |-> todo']
<1>1. /\ source' = pre /\ dest' = post /\ view' = Arcs(aut) /\ done' = {}
      /\ DOMAIN r.res = {} /\ r.dist = [t \in {pre} |-> 0] /\ r.todo = [t \in {pre} |-> 1]
  BY DEF Begin
<1>. HIDE DEF r
<1>2. Tree(r, {}) /\ Rooted(r, {}) /\ Nearer(r, {}) /\ Starts(r, {})
  BY <1>1 DEF Tree, Rooted, Nearer, Starts
<1>3. Spread(r, From({}))
  BY DEF Spread, From
<1>4. Bounded(r, {}, b)
  <2>1. Cardinality({}) = 0 /\ b * 0 = 0
    BY FS_EmptySet
  <2>. QED
    BY <1>1, <2>1 DEF Bounded
<1>5. Distances(r, {}, b)
  BY <1>2, <1>3, <1>4 DEF Distances
<1>. QED
  BY <1>1, <1>5 DEF r

\* Once the heap is empty, or post is over, or on top, no state that waits is
\* nearer than post.
LEMMA DijkstraIsOver ==
  ASSUME NEW r, NEW over, NEW b, Distances(r, over, b), post \in over \/ DOMAIN r.todo = {}
  PROVE  Over(r, over)
<1>1. pre \in over
  <2>1. pre \in over \/ pre \in DOMAIN r.todo
    BY DEF Distances, Tree
  <2>. QED
    BY <2>1 DEF Distances, Starts
<1>2. ASSUME NEW x \in DOMAIN r.dist, x \notin over
      PROVE  post \in DOMAIN r.dist /\ r.dist[post] <= r.dist[x]
  <2>1. x \in DOMAIN r.todo
    BY <1>2 DEF Distances, Tree
  <2>. QED
    BY <2>1 DEF Distances, Nearer, Tree
<1>. QED
  BY <1>1, <1>2 DEF Over

LEMMA AStarIsOver ==
  ASSUME NEW r, NEW over, NEW b, Distances(r, over, b),
         post \in DOMAIN r.todo, \A x \in DOMAIN r.todo : r.dist[post] <= r.dist[x]
  PROVE  Over(r, over)
<1>1. pre \in over
  <2>1. pre \in over \/ pre \in DOMAIN r.todo
    BY DEF Distances, Tree
  <2>2. pre \in DOMAIN r.todo => DOMAIN r.todo = {pre}
    BY DEF Distances, Starts
  <2>. QED
    BY <2>1, <2>2 DEF pre, post
<1>2. ASSUME NEW x \in DOMAIN r.dist, x \notin over
      PROVE  post \in DOMAIN r.dist /\ r.dist[post] <= r.dist[x]
  <2>1. x \in DOMAIN r.todo
    BY <1>2 DEF Distances, Tree
  <2>. QED
    BY <2>1 DEF Distances, Tree
<1>. QED
  BY <1>1, <1>2 DEF Over

\* What is answered, from arcs that are those of a search that is over, or
\* that do not lead to post.
LEMMA AnswerLemma ==
  ASSUME NEW b \in Nat, Weighted(b), NEW r, NEW over, Distances(r, over, b), Over(r, over),
         NEW preds, preds = r.res \/ (post \notin DOMAIN preds /\ post \notin DOMAIN r.res),
         Answer(preds)
  PROVE  IF All = {} THEN words' = <<>>
         ELSE \E u \in DOMAIN words' : DOMAIN words' = {u} /\ words'[u] = Best
<1>. DEFINE p == Path(preds, pre, post)
            m == Monomial(preds, pre, post)
<1>1. words' = IF m = <<>> THEN <<>> ELSE [u \in {m.label} |-> m.weight]
  BY DEF Answer
<1>2. ASSUME NEW q \in All
      PROVE  post \in DOMAIN r.res /\ r.dist[post] <= PathWeight(q)
  <2>1. IsPath(q, pre) /\ Target(q) = post
    BY SimplePathsArePaths DEF All, Weighted
  <2>2. post \in DOMAIN r.dist /\ r.dist[post] <= PathWeight(q)
    BY <2>1, LowerBound
  <2>. QED
    BY <2>2, TreeStates DEF Weighted, Distances
<1>3. CASE post \notin DOMAIN preds
  <2>1. p = <<>>
    BY <1>3, NoWay DEF Weighted
  <2>2. m = <<>>
    BY <2>1 DEF Monomial
  <2>3. All = {}
    BY <1>2, <1>3
  <2>. HIDE DEF m
  <2>. QED
    BY <1>1, <2>2, <2>3
<1>4. CASE post \in DOMAIN preds
  <2>1. preds = r.res
    BY <1>4
  <2>2. p \in All /\ p[1].src = pre /\ p # <<>> /\ PathWeight(p) = r.dist[post]
    BY <1>4, <2>1, FoundPath
  <2>. HIDE DEF p
  <2>. DEFINE label == [k \in {i \in DOMAIN p : p[i].label # "$"} |-> p[k].label]
  <2>3. m = [label |-> label, weight |-> PathWeight(p)]
    BY <2>2 DEF Monomial, p
  <2>. HIDE DEF label, m
  <2>4. m # <<>> /\ m.label = label /\ m.weight = r.dist[post]
    BY <2>2, <2>3
  <2>5. Best = r.dist[post]
    <3>1. \A q \in All : r.dist[post] <= PathWeight(q)
      BY <1>2
    <3>2. r.dist[post] \in Nat
      BY <2>1, <1>4 DEF Distances, Tree
    <3>3. \A q \in All : PathWeight(q) \in Nat
      <4>1. ASSUME NEW q \in All
            PROVE  PathWeight(q) \in Nat
        <5>1. IsPath(q, pre)
          BY SimplePathsArePaths DEF All, Weighted
        <5>2. \A k \in 0 .. Len(q) : Upto(q, k) \in Nat
          BY <5>1, PathsNotNegative DEF Weighted
        <5>3. PathWeight(q) = Upto(q, Len(q)) /\ Len(q) \in Nat \ {0}
          BY <5>1, UptoLemma
        <5>. QED
          BY <5>2, <5>3
      <4>. QED
        BY <4>1
    <3>. DEFINE W1 == {PathWeight(q) : q \in All}
                best(w) == \A q \in All : w <= PathWeight(q)
    <3>4. r.dist[post] \in W1 /\ best(r.dist[post])
      BY <2>2, <3>1
    <3>5. \A w \in W1 : best(w) => w = r.dist[post]
      <4>1. ASSUME NEW w \in W1, best(w)
            PROVE  w = r.dist[post]
        <5>1. PICK q \in All : w = PathWeight(q)
          BY <4>1
        <5>2. w <= r.dist[post]
          BY <2>2, <4>1
        <5>. QED
          BY <3>1, <3>2, <3>3, <5>1, <5>2
      <4>. QED
        BY <4>1
    <3>. QED
      BY <3>4, <3>5 DEF Best
  <2>. QED
    BY <1>1, <2>2, <2>4, <2>5
<1>. QED
  BY <1>3, <1>4

\* The definitions that the answer is compared with depend on the automaton
\* alone.
LEMMA SamePaths ==
  ASSUME aut' = aut
  PROVE  All' = All /\ Best' = Best /\ Lightens' = Lightens
<1>1. All' = All
  BY DEF All, SimplePaths, Out, Arcs, States, pre, post, FoldLeft, MapThenFoldSet
<1>2. Best' = Best
  BY DEF Best, PathWeight, All, SimplePaths, Out, Arcs, States, pre, post,
         FoldLeft, MapThenFoldSet
<1>3. Lightens' = Lightens
  BY DEF Lightens, PathWeight, SimplePaths, Out, Arcs, States, pre, post,
         FoldLeft, MapThenFoldSet
<1>. QED
  BY <1>1, <1>2, <1>3

\* A search that is not over, or an answer.
LightInv ==
  /\ DistanceInv
  /\ Nearest /\ status = "done" => LightestPathFound

\* What the steps keep, read after them.
LEMMA PrimedLemma ==
  ASSUME ask' = ask, num' = num, aut' = aut
  PROVE  /\ Nearest' <=> Nearest
         /\ Algo' = Algo
         /\ Distances([res |-> res', dist |-> dist', todo |-> todo'], done', Bound) =>
              Distances([res |-> res, dist |-> dist, todo |-> todo], done, Bound)'
<1>1. Algo' = Algo
  BY DEF Algo, has_lightening_weights
<1>2. Arcs(aut)' = Arcs(aut) /\ Bound' = Bound
  BY DEF Arcs, States, Bound, Bounds
<1>. DEFINE r == [res |-> res', dist |-> dist', todo |-> todo']
<1>3. ASSUME Distances(r, done', Bound)
      PROVE  Distances([res |-> res, dist |-> dist, todo |-> todo], done, Bound)'
  <2>1. /\ Tree(r, done') /\ Rooted(r, done') /\ Nearer(r, done') /\ Spread(r, From(done'))
        /\ Bounded(r, done', Bound) /\ Starts(r, done')
    BY <1>3 DEF Distances
  <2>2. Tree([res |-> res, dist |-> dist, todo |-> todo], done)'
    BY <1>2, <2>1 DEF Tree, Arcs
  <2>3. Rooted([res |-> res, dist |-> dist, todo |-> todo], done)'
    BY <2>1 DEF Rooted
  <2>4. Nearer([res |-> res, dist |-> dist, todo |-> todo], done)'
    BY <2>1 DEF Nearer
  <2>5. Spread([res |-> res, dist |-> dist, todo |-> todo], From(done))'
    BY <2>1 DEF Spread, From, Arcs
  <2>6. Bounded([res |-> res, dist |-> dist, todo |-> todo], done, Bound)'
    BY <1>2, <2>1 DEF Bounded
  <2>7. Starts([res |-> res, dist |-> dist, todo |-> todo], done)'
    BY <2>1 DEF Starts
  <2>. QED
    BY <2>2, <2>3, <2>4, <2>5, <2>6, <2>7 DEF Distances
<1>. QED
  BY <1>1, <1>3 DEF Nearest

LEMMA LightInit == Init => LightInv
BY DEF Init, LightInv, DistanceInv

LEMMA LightNext ==
  ASSUME LightInv, [Next]_vars
  PROVE  LightInv'
<1>. DEFINE Far0 == Distances([res |-> res, dist |-> dist, todo |-> todo], done, Bound)
            Far1 == Distances([res |-> res', dist |-> dist', todo |-> todo'], done', Bound)
<1>1. /\ ask \in Requests /\ aut \in Networks(ask) /\ num = ask.num
      /\ Nearest /\ status # "called" =>
           /\ status \in {"searching", "done"}
           /\ status = "searching" =>
                /\ source = pre /\ dest = post /\ view = Arcs(aut)
                /\ Far0
                /\ Algo = "a-star" => post \notin done
      /\ Nearest /\ status = "done" => LightestPathFound
  BY DEF LightInv, DistanceInv
<1>2. ask' = ask /\ num' = num /\ aut' = aut
  <2>1. CASE Next
    BY <2>1, NextLemma
  <2>2. CASE UNCHANGED vars
    BY <2>2 DEF vars
  <2>. QED
    BY <2>1, <2>2
<1>3. /\ Nearest' <=> Nearest
      /\ Algo' = Algo
      /\ Far1 => Distances([res |-> res, dist |-> dist, todo |-> todo], done, Bound)'
  BY <1>2, PrimedLemma
<1>4. All' = All /\ Best' = Best /\ Lightens' = Lightens
  BY <1>2, SamePaths
<1>5. ask' \in Requests /\ aut' \in Networks(ask') /\ num' = ask'.num
  BY <1>1, <1>2
<1>6. ASSUME Nearest, status' = "searching", source' = pre, dest' = post, view' = Arcs(aut),
             Far1, Algo = "a-star" => post \notin done'
      PROVE  LightInv'
  <2>1. view' = Arcs(aut)'
    BY <1>2, <1>6 DEF Arcs
  <2>. HIDE DEF Far1
  <2>2. DistanceInv'
    BY <1>3, <1>5, <1>6, <2>1 DEF DistanceInv
  <2>. QED
    BY <1>6, <2>2 DEF LightInv
<1>7. ASSUME status' = "done", LightestPathFound'
      PROVE  LightInv'
  BY <1>5, <1>7 DEF LightInv, DistanceInv
<1>8. CASE ~ Nearest
  BY <1>3, <1>5, <1>8 DEF LightInv, DistanceInv
<1>9. CASE Nearest /\ UNCHANGED vars
  <2>1. /\ UNCHANGED <<view, source, dest, res, dist, todo, done>> /\ status' = status
        /\ words' = words
    BY <1>9 DEF vars, search
  <2>2. CASE status = "called"
    BY <1>5, <2>1, <2>2 DEF LightInv, DistanceInv
  <2>3. CASE status = "searching"
    BY <1>1, <1>6, <1>9, <2>1, <2>3
  <2>4. CASE status = "done"
    <3>1. LightestPathFound'
      BY <1>1, <1>2, <1>4, <1>9, <2>1, <2>4 DEF LightestPathFound
    <3>. QED
      BY <1>7, <2>1, <2>4, <3>1
  <2>. QED
    BY <1>1, <1>9, <2>2, <2>3, <2>4
<1>10. ASSUME Nearest
       PROVE  /\ Algo # "yen" /\ Algo # "breadth-first" /\ Algo # "bellman-ford" /\ num = 1
              /\ Algo \in {"dijkstra", "a-star"}
              /\ Bound \in Nat /\ Weighted(Bound)
  BY <1>1, <1>10, BoundLemma DEF Nearest
<1>11. CASE Nearest /\ Call
  <2>1. Begin(Arcs(aut), pre, post) /\ status' = "searching"
    BY <1>10, <1>11 DEF Call
  <2>2. source' = pre /\ dest' = post /\ view' = Arcs(aut) /\ done' = {} /\ Far1
    BY <1>10, <1>11, <2>1, BeginDistances
  <2>. HIDE DEF Far1
  <2>. QED
    BY <1>6, <1>11, <2>1, <2>2
<1>12. CASE Nearest /\ Step
  <2>1. /\ status = "searching" /\ status' = status
        /\ \/ Algo = "dijkstra" /\ \E s \in Tops : DijkstraPop(s)
           \/ Algo = "a-star" /\ \E s \in Tops : AStarPop(s)
    BY <1>10, <1>12 DEF Step
  <2>2. /\ source = pre /\ dest = post /\ view = Arcs(aut) /\ Far0
        /\ Algo = "a-star" => post \notin done
    BY <1>1, <1>12, <2>1
  <2>3. ASSUME Algo = "dijkstra", NEW s \in Tops, DijkstraPop(s)
        PROVE  LightInv'
    <3>1. source' = pre /\ dest' = post /\ view' = Arcs(aut)
      BY <2>2, <2>3 DEF DijkstraPop
    <3>2. Far1
      BY <1>10, <1>12, <2>2, <2>3, DijkstraDistances
    <3>. HIDE DEF Far1
    <3>. QED
      BY <1>6, <1>12, <2>1, <2>3, <3>1, <3>2
  <2>4. ASSUME Algo = "a-star", NEW s \in Tops, AStarPop(s)
        PROVE  LightInv'
    <3>1. source' = pre /\ dest' = post /\ view' = Arcs(aut) /\ s # post
      BY <2>2, <2>4 DEF AStarPop
    <3>2. Far1 /\ done' = done \union {s}
      BY <1>10, <1>12, <2>2, <2>4, AStarDistances
    <3>3. post \notin done'
      BY <2>2, <2>4, <3>1, <3>2
    <3>. HIDE DEF Far1
    <3>. QED
      BY <1>6, <1>12, <2>1, <3>1, <3>2, <3>3
  <2>. QED
    BY <2>1, <2>3, <2>4
<1>13. CASE Nearest /\ Found
  <2>. DEFINE r == [res |-> res, dist |-> dist, todo |-> todo]
  <2>1. /\ status = "searching" /\ status' = "done"
        /\ \/ Algo = "dijkstra" /\ DijkstraOver /\ Answer(res)
           \/ Algo = "a-star" /\ AStarOver /\ Answer(AStarResult)
    BY <1>10, <1>13 DEF Found
  <2>2. /\ dest = post /\ Distances(r, done, Bound)
        /\ Algo = "a-star" => post \notin done
    BY <1>1, <1>13, <2>1
  <2>3. ~ Lightens
    BY <1>10, <1>13, NothingLightens DEF Weighted
  <2>4. Over(r, done)
    <3>1. CASE DijkstraOver
      BY <2>2, <3>1, DijkstraIsOver DEF DijkstraOver
    <3>2. CASE AStarOver
      <4>1. CASE DOMAIN todo = {}
        BY <2>2, <4>1, DijkstraIsOver
      <4>2. CASE post \in Tops
        <5>1. post \in DOMAIN todo /\ \A x \in DOMAIN todo : dist[post] <= dist[x]
          BY <2>2, <4>2, TopsLemma
        <5>. QED
          BY <2>2, <5>1, AStarIsOver
      <4>. QED
        BY <2>2, <3>2, <4>1, <4>2 DEF AStarOver
    <3>. QED
      BY <2>1, <3>1, <3>2
  <2>5. \E preds : /\ preds = r.res \/ (post \notin DOMAIN preds /\ post \notin DOMAIN r.res)
                   /\ Answer(preds)
    <3>1. CASE Algo = "dijkstra" \/ DOMAIN todo # {}
      BY <2>1, <3>1 DEF AStarResult
    <3>2. CASE Algo = "a-star" /\ DOMAIN todo = {}
      <4>1. Answer(<<>>) /\ post \notin DOMAIN <<>>
        BY <2>1, <3>2 DEF AStarResult
      <4>2. post \notin DOMAIN r.res
        BY <2>2, <3>2 DEF Distances, Tree
      <4>. QED
        BY <4>1, <4>2
    <3>. QED
      BY <1>10, <1>13, <3>1, <3>2
  <2>. HIDE DEF r
  <2>6. IF All = {} THEN words' = <<>>
        ELSE \E u \in DOMAIN words' : DOMAIN words' = {u} /\ words'[u] = Best
    BY <1>10, <1>13, <2>2, <2>4, <2>5, AnswerLemma
  <2>7. LightestPathFound'
    BY <1>4, <2>1, <2>3, <2>6 DEF LightestPathFound
  <2>. QED
    BY <1>7, <2>1, <2>7
<1>14. CASE Nearest /\ (Yen \/ Serve \/ Served)
  BY <1>1, <1>10, <1>14 DEF Yen, Serve, Served
<1>. QED
  BY <1>8, <1>9, <1>11, <1>12, <1>13, <1>14 DEF Next, Answered

\* Dijkstra's algorithm and A*, without heuristic, answer with a lightest of
\* the paths that come to no state twice, and with nothing only when there is
\* none, for weights of nmin that do not overflow.
THEOREM LightestPathIsFound ==
  Spec => [](ask.ws = "nmin" /\ Algo \in {"dijkstra", "a-star"} => LightestPathFound)
<1>1. Spec => []LightInv
  BY LightInit, LightNext, PTL DEF Spec
<1>2. LightInv => (ask.ws = "nmin" /\ Algo \in {"dijkstra", "a-star"} => LightestPathFound)
  <2>. SUFFICES ASSUME LightInv, ask.ws = "nmin", Algo \in {"dijkstra", "a-star"}
                PROVE  LightestPathFound
    OBVIOUS
  <2>1. CASE num # 1
    BY <2>1 DEF LightInv, DistanceInv, LightestPathFound
  <2>2. CASE num = 1
    <3>1. Nearest
      BY <2>2 DEF Nearest
    <3>2. status # "raised"
      BY <3>1 DEF LightInv, DistanceInv
    <3>. QED
      BY <3>1, <3>2 DEF LightInv, LightestPathFound
  <2>. QED
    BY <2>1, <2>2
<1>. QED
  BY <1>1, <1>2, PTL
=============================================================================
