------------------------ MODULE SpontaneousAutomata ------------------------
(***************************************************************************)
(* Automata as values, some of whose arcs carry the empty word: what their *)
(* series is, and when it is defined.                                      *)
(***************************************************************************)
EXTENDS WeightedAutomata

CONSTANTS
  empty_word,                \* labelset()->one()
  Starrable(_), Star(_)      \* when a star exists, and what it is

Spontaneous(aut) == {a \in Arcs(aut) : a.label = empty_word}
In(aut, s)       == {a \in Arcs(aut) : a.dst = s}
SpIn(aut, s)     == In(aut, s) \intersect Spontaneous(aut)
SpOut(aut, s)    == Out(aut, s) \intersect Spontaneous(aut)
is_proper(aut)   == Spontaneous(aut) = {}
Loop(s)          == [src |-> s, label |-> empty_word, dst |-> s]

Part(aut, arcs)   == [a \in Arcs(aut) \intersect arcs |-> aut[a]]
NonZero(aut)      == Part(aut, {a \in Arcs(aut) : aut[a] # zero})
Without(aut, s)   == Part(aut, {a \in Arcs(aut) : s \notin {a.src, a.dst}})
Weight(aut, a)    == IF a \in Arcs(aut) THEN aut[a] ELSE zero

\* No state comes back to itself by spontaneous arcs.
is_eps_acyclic(aut) ==
  LET next(s) == {a.dst : a \in SpOut(aut, s)}
  IN  \A s \in States(aut) : s \notin Reach(aut, next, next(s))

-----------------------------------------------------------------------------
(* Distances: the sum of the weights of all the paths of a set of states   *)
(* (Kleene, Floyd, Warshall: through k, then the following ones).  What is *)
(* added to <<>> by @@ is evaluated once.                                  *)

Through(d, k) ==
  LET loop == Star(d[<<k, k>>])
      via(i, j) == Times(d[<<i, k>>], Times(loop, d[<<k, j>>]))
  IN  <<>> @@ [e \in DOMAIN d |->
         IF e = <<k, k>> THEN loop
         ELSE IF e[1] = k THEN Times(loop, d[e])
         ELSE IF e[2] = k THEN Times(d[e], loop)
         ELSE Plus(d[e], via(e[1], e[2]))]

Matrix(aut, S) ==
  [e \in S \X S |-> Weight(aut, [src |-> e[1], label |-> empty_word, dst |-> e[2]])]

Ascending(S) ==
  [k \in 1 .. Cardinality(S) |-> CHOOSE s \in S : Cardinality({r \in S : r < s}) = k - 1]

\* Whether the stars met are defined, and the distances if they are.
AllDistances(aut, S) ==
  FoldLeft(LAMBDA r, k : IF r.defined /\ Starrable(r.d[<<k, k>>])
                         THEN [r EXCEPT !.d = Through(@, k)]
                         ELSE [r EXCEPT !.defined = FALSE],
           [defined |-> TRUE, d |-> Matrix(aut, S)], Ascending(S))

\* The weights of the words of length n at most, if the distances are defined.
Series(aut, n) ==
  LET S == States(aut) \ {pre, post}
      all == AllDistances(aut, S)
      \* From a vector of weights, along spontaneous paths.
      rest(v) ==
        LET T == {s \in S : v[s] # zero}
        IN  <<>> @@ [s \in S |-> SumOver(T, LAMBDA r : Times(v[r], all.d[<<r, s>>]))]
      read(v, l) ==
        rest(<<>> @@ [s \in S |-> SumOver({a \in In(aut, s) : a.label = l /\ a.src \in DOMAIN v},
                                  LAMBDA a : Times(v[a.src], aut[a]))])
      more(f, k) ==
        f @@ [u \in {Append(w, l) : w \in {x \in DOMAIN f : Len(x) = k - 1}, l \in Letter} |->
                read(f[Front(u)], Last(u))]
      vectors == FoldLeft(more, <<>> :> read(pre :> one, Special), [k \in 1 .. n |-> k])
      empty == Weight(aut, [src |-> pre, label |-> Special, dst |-> post])
      final(v) == SumOver({a \in In(aut, post) : a.label = Special /\ a.src \in S},
                          LAMBDA a : Times(v[a.src], aut[a]))
  IN  [defined |-> all.defined,
       of |-> IF all.defined
              THEN [u \in DOMAIN vectors |->
                      IF u = <<>> THEN Plus(empty, final(vectors[u])) ELSE final(vectors[u])]
              ELSE <<>>]
=============================================================================
