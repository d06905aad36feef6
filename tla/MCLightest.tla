----------------------------- MODULE MCLightest -----------------------------
EXTENDS Lightest

Arc(s, l, d) == [src |-> s, label |-> l, dst |-> d]
Inner ==
  {Arc(2, "a", 3), Arc(2, "b", 3), Arc(2, "a", 4), Arc(3, "a", 4), Arc(3, "b", 2),
   Arc(3, "a", 3), Arc(4, "a", 3), Arc(4, "b", 2)}
Ends == {Arc(0, "$", 2), Arc(4, "$", 1)}
Network(w) == [t \in DOMAIN w \union Ends |-> IF t \in Ends THEN 0 ELSE w[t]]

\* At most n inner arcs, whose weights are in Weights.
Sparse(n, Weights) ==
  {Network(w) : w \in UNION {[E -> Weights] : E \in {F \in SUBSET Inner : Cardinality(F) <= n}}}

\* With a final arc that makes shorter paths.
Shorter3(w, a) == (Arc(3, "$", 1) :> w) @@ a
Dense(Weights) == {Shorter3(1, Network(w)) : w \in [Inner -> Weights]}

\* Words are enumerated for ever where a circuit weighs nothing, and everything
\* that leaves it something.
NoFreeCircuit(a) ==
  LET free(s) == {t.dst : t \in {u \in Out(a, s) : a[u] = 0}}
  IN  \A s \in States(a) : s \notin Reach(a, free, free(s))

SmallNetworks(q) ==
  IF q.ws = "zmin" THEN Sparse(4, {-1, 2}) \union {Shorter3(-1, a) : a \in Sparse(3, {-1, 2})}
  ELSE IF q.algo = "yen" THEN Dense({0, 1, 3}) \union Sparse(4, {1})
  ELSE IF q.algo = "auto" /\ q.num # 1
  THEN {a \in Dense({0, 2}) \union Sparse(4, {0, 1, 3}) : IsTrim(a) /\ NoFreeCircuit(a)}
  ELSE Sparse(IF q.algo = "auto" THEN 5 ELSE 4, {0, 1, 3})

Ask(w, a, n) == [ws |-> w, algo |-> a, num |-> n]
SmallRequests ==
  {Ask("zmin", "auto", 1), Ask("nmin", "auto", 1), Ask("nmin", "a-star", 1),
   Ask("nmin", "yen", 4), Ask("nmin", "auto", 3), Ask("nmin", "dijkstra", 2)}
=============================================================================
