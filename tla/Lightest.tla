------------------------------ MODULE Lightest ------------------------------
(***************************************************************************)
(* lightest(aut, num, algo): the lightest words of an automaton weighted   *)
(* in nmin or zmin, with their weights, from a lightest path, from several *)
(* ones, or from a search through pairs of a state and a word.             *)
(*                                                                         *)
(* lightest_path: for each state, the last arc of a lightest path to it,   *)
(* by Dijkstra's algorithm, by A* or by Bellman and Ford's.  The first two *)
(* see no arc but those of view, as when the automaton is filtered.  Where *)
(* weights tie, the heaps pop any of the lightest states.  yen_impl looks  *)
(* for several paths, each with Dijkstra's algorithm.                      *)
(***************************************************************************)
EXTENDS Integers, FiniteSets, Sequences, SequencesExt, Functions

CONSTANTS
  Requests,      \* records of a weightset, an algo and a num
  Networks(_)    \* the automata that a request may be about

VARIABLES
  aut,           \* the automaton, weighted in nmin or zmin
  view,          \* the arcs that a filter leaves
  source, dest,
  res,           \* res_: the arc to each state that was reached
  dist,          \* dist_, for these states and the source
  todo,          \* how many times each state is in the heap
  done,          \* the states that were taken from the heap
  pass,          \* of Bellman and Ford: how many passes are over
  num,           \* of Yen, as those that follow: k
  paths,         \* res
  heap,          \* the candidates, whose weights order them
  spur,          \* j + 1: where in the last of the paths
  status,
  ask,           \* the request
  queue,         \* of the search through words: states, words and weights
  words          \* the result: a weight for each word

search == <<view, source, dest, res, dist, todo, done, pass>>

W == INSTANCE Weightsets

INSTANCE WeightedAutomata WITH
  Letter <- {"a", "b"}, Special <- "$", zero <- W!oo, one <- 0,
  Plus <- LAMBDA l, r : W!add("zmin", l, r),
  Times <- LAMBDA l, r : W!mul("zmin", l, r)

mul(l, r) == W!mul("zmin", l, r)

ASSUME RequestsAssumption == \A q \in Requests : q.ws \in {"nmin", "zmin"} /\ q.num \in Nat

\* The weights of nmin are not negative.
ASSUME NetworksAssumption ==
  \A q \in Requests : \A a \in Networks(q) :
    /\ IsAutomaton(a)
    /\ \A t \in Arcs(a) : a[t] \in IF q.ws = "nmin" THEN Nat ELSE Int

\* The distances of the states do not overflow.
ASSUME DistancesAssumption ==
  \A q \in Requests : \A a \in Networks(q) :
    \E b \in 0 .. W!oo :
      /\ b * Cardinality(States(a)) < W!oo
      /\ \A t \in Arcs(a) : a[t] <= b

\* Transitions are numbered in the order of their ends, then of labels.
Rank(t) == 100 * t.src + 10 * t.dst + (IF t.label = "b" THEN 1 ELSE 0)
LastOf(arcs) == CHOOSE t \in arcs : \A u \in arcs : Rank(u) <= Rank(t)

\* From r, what op makes of one arc after the other.
InOrder(op(_, _), r, arcs) ==
  MapThenFoldSet(LAMBDA t, q : op(q, t), r, LAMBDA t : t, LastOf, arcs)

\* A function with another value, or one more, as std::map has.
Put(f, x, v) == [y \in DOMAIN f \union {x} |-> IF y = x THEN v ELSE f[y]]

\* The arcs to end in the result of a search, from start or from nowhere.
Path(preds, start, end) ==
  LET more(p, k) ==
        LET at == IF p = <<>> THEN end ELSE Head(p).src
        IN  IF (p # <<>> /\ at = start) \/ at \notin DOMAIN preds THEN p
            ELSE <<preds[at]>> \o p
  IN  FoldLeft(more, <<>>, [k \in 1 .. Cardinality(States(aut)) |-> k])

\* path_monomial; <<>> stands for boost::none.
PathWeight(p) == FoldLeft(LAMBDA w, t : mul(w, aut[t]), 0, p)
Monomial(preds, start, end) ==
  LET p == Path(preds, start, end)
  IN  IF p = <<>> \/ Head(p).src # start THEN <<>>
      ELSE [label |-> [k \in {i \in DOMAIN p : p[i].label # "$"} |-> p[k].label],
            weight |-> PathWeight(p)]

\* The state of a search that starts at s, seeing arcs only.
Begin(arcs, s, d) ==
  /\ view' = arcs /\ source' = s /\ dest' = d
  /\ res' = <<>> /\ dist' = [t \in {s} |-> 0]
  /\ todo' = [t \in {s} |-> 1] /\ done' = {} /\ pass' = 0

\* A state that was never reached is the last of the heap.
Before(s, t) ==
  s \in DOMAIN res /\ (t \notin DOMAIN res \/ dist[s] < dist[t])
Tops == {s \in DOMAIN todo : \A t \in DOMAIN todo : ~ Before(t, s)}

Once(h, s) ==
  [t \in DOMAIN h \union {s} |-> (IF t \in DOMAIN h THEN h[t] ELSE 0)
                                    + (IF t = s THEN 1 ELSE 0)]
Popped(h, s) ==
  [t \in {u \in DOMAIN h : u # s \/ h[u] > 1} |->
     IF t = s THEN h[t] - 1 ELSE h[t]]

-----------------------------------------------------------------------------
(* Dijkstra.                                                               *)

\* Mutant: equal weights are taken for lighter ones.
MutRelaxed(r, t) ==
  LET nv == mul(r.dist[t.src], aut[t])
      first == t.dst \notin DOMAIN r.res
  IN  IF first \/ nv <= r.dist[t.dst]
      THEN [res |-> Put(r.res, t.dst, t), dist |-> Put(r.dist, t.dst, nv),
            todo |-> IF first THEN Once(r.todo, t.dst) ELSE r.todo]
      ELSE r

\* One arc of the popped state: its destination enters the heap at its first
\* visit, and is moved in the heap when it gets lighter.
Relaxed(r, t) ==
  LET nv == mul(r.dist[t.src], aut[t])
      first == t.dst \notin DOMAIN r.res
  IN  IF first \/ nv < r.dist[t.dst]
      THEN [res |-> Put(r.res, t.dst, t), dist |-> Put(r.dist, t.dst, nv),
            todo |-> IF first THEN Once(r.todo, t.dst) ELSE r.todo]
      ELSE r

\* The loop ends at dest, or when nothing is left.
DijkstraPop(s) ==
  /\ dest \notin done /\ s \in Tops
  /\ LET r == InOrder(Relaxed, [res |-> res, dist |-> dist, todo |-> Popped(todo, s)],
                      IF s = dest THEN {} ELSE view \intersect Out(aut, s))
     IN  /\ res' = r.res /\ dist' = r.dist /\ todo' = r.todo
         /\ done' = done \union {s}
  /\ UNCHANGED <<view, source, dest, pass>>

DijkstraOver == dest \in done \/ DOMAIN todo = {}

-----------------------------------------------------------------------------
(* A*, whose heuristic is zero(): it adds nothing to a weight.             *)

\* A state that is not done enters the heap again each time it is seen.
Visited(r, t) ==
  LET nw == mul(r.dist[t.src], aut[t])
      better == t.dst \notin DOMAIN r.res \/ nw < r.dist[t.dst]
  IN  IF t.dst \in r.done THEN r
      ELSE [r EXCEPT !.res  = IF better THEN Put(@, t.dst, t) ELSE @,
                     !.dist = IF better THEN Put(@, t.dst, nw) ELSE @,
                     !.todo = Once(@, t.dst)]

AStarPop(s) ==
  /\ s # dest /\ s \in Tops
  /\ LET r == InOrder(Visited, [res |-> res, dist |-> dist, todo |-> Popped(todo, s),
                                done |-> done \union {s}],
                      view \intersect Out(aut, s))
     IN  res' = r.res /\ dist' = r.dist /\ todo' = r.todo /\ done' = r.done
  /\ UNCHANGED <<view, source, dest, pass>>

AStarOver == dest \in Tops \/ DOMAIN todo = {}

\* Nothing at all when dest was not reached.
AStarResult == IF DOMAIN todo = {} THEN <<>> ELSE res

-----------------------------------------------------------------------------
(* Bellman and Ford.                                                       *)

Shortened(r, t) ==
  LET nw == mul(r.dist[t.src], aut[t])
  IN  IF /\ t.src \in DOMAIN r.res \union {source}
         /\ t.dst \notin DOMAIN r.res \/ nw < r.dist[t.dst]
      THEN [res |-> Put(r.res, t.dst, t), dist |-> Put(r.dist, t.dst, nw)]
      ELSE r

\* Mutant: the passes stop too early.
MutPasses == 1

\* One for each state, pre and post included.
Passes == Cardinality(States(aut))

BellmanFordPass ==
  /\ pass < Passes
  /\ LET r == InOrder(Shortened, [res |-> res, dist |-> dist], Arcs(aut))
     IN  res' = r.res /\ dist' = r.dist
  /\ pass' = pass + 1
  /\ UNCHANGED <<view, source, dest, todo, done>>

\* transitions(aut): no initial nor final arc.
has_lightening_cycle ==
  \E t \in Arcs(aut) :
    /\ t.label # "$" /\ t.src \in DOMAIN res
    /\ t.dst \notin DOMAIN res \/ mul(dist[t.src], aut[t]) < dist[t.dst]

-----------------------------------------------------------------------------
(* yen_impl: the k lightest paths from pre to post.  Each new path is the  *)
(* lightest of those that leave an earlier one at some arc, the spur; they *)
(* are looked for with Dijkstra's algorithm, on the automaton without the  *)
(* arcs that earlier paths took there, and without the states before.      *)

\* Since a path comes to no state twice, so does the result.
format_lightest(p) ==
  [s \in {p[i].dst : i \in DOMAIN p} |-> p[CHOOSE i \in DOMAIN p : p[i].dst = s]]

prev == Last(paths)
Root == SubSeq(prev, 1, spur - 1)
SpurNode == prev[spur].src

\* Mutant: only what the last path took is hidden.
MutHiddenArcs == {prev[spur]}

HiddenArcs ==
  {paths[i][spur] : i \in {k \in DOMAIN paths : IsPrefix(Root, paths[k])}}

HiddenStates == {Root[i].src : i \in DOMAIN Root} \ {SpurNode, pre}

\* The first lightest path; it is empty when there is none.
First ==
  /\ status = "searching" /\ paths = <<>> /\ DijkstraOver
  /\ paths' = <<Path(res, source, dest)>>
  /\ spur' = 1
  /\ status' = IF num = 1 THEN "done" ELSE "spurring"
  /\ UNCHANGED <<search, heap>>

Spur ==
  /\ status = "spurring" /\ spur <= Len(prev)
  /\ Begin({t \in Arcs(aut) \ HiddenArcs : t.dst \notin HiddenStates}, SpurNode, post)
  /\ status' = "searching"
  /\ UNCHANGED <<paths, heap, spur>>

Spurred ==
  /\ status = "searching" /\ paths # <<>> /\ DijkstraOver
  /\ LET p == Root \o Path(res, source, dest)
         whole == p # <<>> /\ Head(p).src = pre /\ Last(p).dst = post
     IN  heap' = IF whole THEN heap \union {p} ELSE heap
  /\ spur' = spur + 1
  /\ status' = "spurring"
  /\ UNCHANGED <<search, paths>>

Weight(p) == Monomial(format_lightest(p), pre, post).weight

\* The last path was followed to its end.
Take(p) ==
  /\ status = "spurring" /\ spur > Len(prev)
  /\ p \in heap /\ \A q \in heap : Weight(p) <= Weight(q)
  /\ paths' = Append(paths, p)
  /\ heap' = heap \ {p}
  /\ spur' = 1
  /\ status' = IF Len(paths) + 1 = num THEN "done" ELSE status
  /\ UNCHANGED search

NoMore ==
  /\ status = "spurring" /\ spur > Len(prev) /\ heap = {}
  /\ status' = "done"
  /\ UNCHANGED <<search, paths, heap, spur>>

-----------------------------------------------------------------------------
(* What they are compared with.                                            *)

\* The paths from s that come to no state twice.
SimplePaths(s, e) ==
  LET last(p) == p[Len(p)].dst
      more(P, k) ==
        P \union UNION {{Append(p, t) : t \in {u \in Out(aut, last(p)) :
                                                 /\ u.dst # s
                                                 /\ \A i \in DOMAIN p : p[i].dst # u.dst}} :
                        p \in P}
      all == FoldLeft(more, {<<t>> : t \in {u \in Out(aut, s) : u.dst # s}},
                      [k \in 1 .. Cardinality(States(aut)) |-> k])
  IN  {p \in all : last(p) = e}
-----------------------------------------------------------------------------
(* The lightest words.                                                     *)

vars == <<ask, num, aut, search, paths, heap, spur, status, queue, words>>

Init ==
  /\ ask \in Requests
  /\ num = ask.num
  /\ aut \in Networks(ask)
  /\ view = {} /\ source = pre /\ dest = post
  /\ res = <<>> /\ dist = <<>> /\ todo = <<>> /\ done = {} /\ pass = 0
  /\ paths = <<>> /\ heap = {} /\ spur = 0
  /\ queue = {} /\ words = <<>>
  /\ status = "called"

has_lightening_weights == ask.ws = "zmin"

\* The algorithm that is run.
Algo ==
  IF ask.algo # "auto" THEN ask.algo
  ELSE IF num # 1 THEN "breadth-first"
  ELSE IF has_lightening_weights THEN "bellman-ford" ELSE "dijkstra"

\* add_here of a polynomial.
Added(p, l, w) ==
  [u \in DOMAIN p \union {l} |->
     IF u # l THEN p[u] ELSE IF l \in DOMAIN p THEN W!add("zmin", p[l], w) ELSE w]

Call ==
  /\ status = "called"
  /\ IF Algo = "breadth-first"
     THEN /\ queue' = {[state |-> pre, word |-> <<>>, weight |-> 0]}
          /\ status' = "serving"
          /\ UNCHANGED search
     ELSE IF num # 1 /\ Algo # "yen"
     THEN status' = "raised" /\ UNCHANGED <<queue, search>>
     ELSE /\ Begin(Arcs(aut), pre, post)
          /\ status' = "searching"
          /\ UNCHANGED queue
  /\ UNCHANGED <<ask, num, aut, paths, heap, spur, words>>

-----------------------------------------------------------------------------
(* From one path.                                                          *)

Step ==
  /\ status = "searching"
  /\ \/ Algo \in {"dijkstra", "yen"} /\ ~ DijkstraOver /\ \E s \in Tops : DijkstraPop(s)
     \/ Algo = "a-star" /\ \E s \in Tops : AStarPop(s)
     \/ Algo = "bellman-ford" /\ BellmanFordPass
  /\ UNCHANGED <<ask, num, aut, paths, heap, spur, status, queue, words>>

Answer(preds) ==
  LET m == Monomial(preds, pre, post)
  IN  words' = IF m = <<>> THEN <<>> ELSE [u \in {m.label} |-> m.weight]

Found ==
  /\ status = "searching"
  /\ \/ /\ Algo = "dijkstra" /\ DijkstraOver
        /\ Answer(res) /\ status' = "done"
     \/ /\ Algo = "a-star" /\ AStarOver
        /\ Answer(AStarResult) /\ status' = "done"
     \/ /\ Algo = "bellman-ford" /\ pass = Passes
        /\ IF has_lightening_cycle
           THEN status' = "raised" /\ UNCHANGED words
           ELSE status' = "done" /\ Answer(res)
  /\ UNCHANGED <<ask, num, aut, search, paths, heap, spur, queue>>

-----------------------------------------------------------------------------
(* From several paths: the monomials of those of Yen's algorithm.          *)

Yen ==
  /\ Algo = "yen"
  /\ First \/ Spur \/ Spurred \/ NoMore \/ \E p \in heap : Take(p)
  /\ words' = LET sum(w, p) == LET m == Monomial(format_lightest(p), pre, post)
                               IN  IF m = <<>> THEN w ELSE Added(w, m.label, m.weight)
              IN  IF status' = "done" THEN FoldLeft(sum, <<>>, paths') ELSE words
  /\ UNCHANGED <<ask, num, aut, queue>>

-----------------------------------------------------------------------------
(* From words: lightest_impl.  Queued twice, a state, a word and a weight  *)
(* count once, as add is idempotent.                                       *)

Shorter(u, v) ==
  \/ Len(u) < Len(v)
  \/ /\ Len(u) = Len(v)
     /\ \E i \in DOMAIN u : u[i] = "a" /\ v[i] = "b" /\ \A j \in 1 .. i - 1 : u[j] = v[j]

\* Mutant: labels come before weights.
MutPrecedes(l, r) ==
  \/ Shorter(l.word, r.word)
  \/ /\ l.word = r.word
     /\ \/ l.weight < r.weight
        \/ /\ l.weight = r.weight /\ l.state # post
           /\ r.state = post \/ l.state < r.state

\* profile_less: by weight, then label, post last.
Precedes(l, r) ==
  \/ l.weight < r.weight
  \/ /\ l.weight = r.weight
     /\ \/ Shorter(l.word, r.word)
        \/ /\ l.word = r.word /\ l.state # post
           /\ r.state = post \/ l.state < r.state

Same(l, r) == l.state = r.state /\ l.word = r.word

Top == CHOOSE l \in queue : \A r \in queue \ {l} : Precedes(l, r)

\* The next ones, if they are the same state with the same word: their sum is
\* the weight of the first one.
Fused == {r \in queue \ {Top} : \A q \in queue : Precedes(q, r) => Same(q, Top)}
           \intersect {r \in queue : Same(r, Top)}

Serve ==
  /\ status = "serving" /\ queue # {} /\ Cardinality(DOMAIN words) # num
  /\ IF Fused # {}
     THEN queue' = queue \ Fused /\ UNCHANGED words
     ELSE LET go(t) == [state  |-> t.dst,
                        word   |-> IF pre = t.src \/ post = t.dst THEN Top.word
                                   ELSE Append(Top.word, t.label),
                        weight |-> mul(Top.weight, aut[t])]
          IN  /\ queue' = (queue \ {Top}) \union {go(t) : t \in Out(aut, Top.state)}
              /\ words' = IF Top.state = post THEN Added(words, Top.word, Top.weight)
                          ELSE words
  /\ UNCHANGED <<ask, num, aut, search, paths, heap, spur, status>>

Served ==
  /\ status = "serving" /\ (queue = {} \/ Cardinality(DOMAIN words) = num)
  /\ status' = "done"
  /\ UNCHANGED <<ask, num, aut, search, paths, heap, spur, queue, words>>

Answered == status \in {"done", "raised"} /\ UNCHANGED vars

Next == Call \/ Step \/ Found \/ Yen \/ Serve \/ Served \/ Answered

Spec == Init /\ [][Next]_vars

-----------------------------------------------------------------------------

\* "todo.update(handles[dst])": a state gets another arc only while it is in
\* the heap, or enters it; what came out of the heap is final, but for the
\* source, which no arc led to.
PoppedIsFinal ==
  [][status = "searching" /\ status' = "searching" =>
       \A s \in DOMAIN res : res'[s] # res[s] => s \in DOMAIN todo
                                                 \/ Algo = "bellman-ford"]_vars

All == SimplePaths(pre, post)
Best == CHOOSE w \in {PathWeight(p) : p \in All} : \A p \in All : w <= PathWeight(p)

\* Circuits whose weight is negative, and that pre leads to.
Lightens ==
  LET reached == {pre} \union UNION {{p[i].dst : i \in DOMAIN p} :
                                     p \in UNION {SimplePaths(pre, s) : s \in States(aut)}}
  IN  \E s \in reached, t \in Arcs(aut) :
        /\ t.dst = s
        /\ \/ t.src = s /\ aut[t] < 0
           \/ \E p \in SimplePaths(s, t.src) : mul(PathWeight(p), aut[t]) < 0

\* Every algorithm that looks for one path answers with a lightest one: it
\* answers nothing only if there is none, and refuses only if weights decrease
\* for ever.
LightestPathFound ==
  ask.num = 1 =>
    /\ status = "raised" => Lightens
    /\ status = "done" =>
         /\ ~ Lightens
         /\ IF All = {} THEN words = <<>>
            ELSE \E u \in DOMAIN words : DOMAIN words = {u} /\ words[u] = Best

\* The paths of Yen's algorithm are distinct, in the order of their weights,
\* and no other path that comes to no state twice is lighter, nor missing.
\* Where a spur has a loop, Dijkstra's algorithm may see its other arcs heavier
\* than they are; the networks of the run have no loop where that matters.
KPathsInOrder ==
  Algo = "yen" /\ status = "done" =>
    LET found == {paths[i] : i \in DOMAIN paths} \ {<<>>}
    IN  /\ found \subseteq All
        /\ Cardinality(found) = IF Cardinality(All) < num THEN Cardinality(All) ELSE num
        /\ \A i \in 1 .. Len(paths) - 1 : PathWeight(paths[i]) <= PathWeight(paths[i + 1])
        /\ \A p \in All \ found, q \in found : PathWeight(q) <= PathWeight(p)

\* The words found by the search through words have their weights in the
\* automaton, at any time, and no other word is lighter than one of them.
WordsInOrder ==
  status \in {"serving", "done"} /\ Algo = "breadth-first" =>
    /\ \A u \in DOMAIN words : words[u] = Evaluate(aut, u)
    /\ \A u \in DOMAIN words, v \in UNION {[1 .. n -> {"a", "b"}] : n \in 0 .. 3} :
         v \in DOMAIN words \/ words[u] <= Evaluate(aut, v)
    /\ status = "done" /\ queue # {} => Cardinality(DOMAIN words) = num
=============================================================================
