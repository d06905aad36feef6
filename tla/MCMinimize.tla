----------------------------- MODULE MCMinimize -----------------------------
(* The automata the runs about minimization search.  States are 2 .. n + 1. *)
(* The weights are pairs of an integer and a Boolean, as in the context    *)
(* lat<z, b>.  Automata whose weights are all of the form <<0, b>> compute *)
(* as Boolean ones do, those whose weights are all <<z, FALSE>> as         *)
(* automata over the integers: one weightset serves both.                  *)
EXTENDS Minimize, Integers
LOCAL INSTANCE FiniteSets

LOCAL Arc(s, l, d) == [src |-> s, label |-> l, dst |-> d]
LOCAL Inner(n) == 2 .. n + 1
\* The set of arcs of a table of successors (post: none), 2 being initial.
LOCAL FromTable(n, letters, next, finals) ==
  {Arc(pre, "$", 2)} \union {Arc(s, "$", post) : s \in finals} \union
  {Arc(e[1], e[2], next[e]) : e \in {x \in Inner(n) \X letters : next[x] # post}}
\* Each state is reached from a smaller one, as in any deterministic automaton
\* with its states numbered in some order.
LOCAL Ordered(n, letters, tables) ==
  {next \in tables :
     \A d \in 3 .. n + 1 :
       \E e \in Inner(n) \X letters : e[1] < d /\ next[e] = d}
\* Weights in lat<z, b>.
True == <<0, TRUE>>
Z(z) == <<z, FALSE>>
LOCAL Boolean(arcs) == [a \in arcs |-> True]
NoArc == Boolean({})
LOCAL Useful(n, auts) ==
  {a \in auts : States(a) = 0 .. n + 1 /\ IsTrim(a)}

\* Trim deterministic automata, in such an order.
Dfas(n, letters) ==
  Useful(n, {Boolean(FromTable(n, letters, next, finals)) :
            next \in Ordered(n, letters,
              [Inner(n) \X letters -> Inner(n) \union {post}]),
            finals \in SUBSET Inner(n) \ {{}}})

\* Those with an arc for each state and letter.
CompleteDfas(n, letters) ==
  Useful(n, {Boolean(FromTable(n, letters, next, finals)) :
            next \in [Inner(n) \X letters -> Inner(n)],
            finals \in SUBSET Inner(n) \ {{}}})

\* Those where "a" goes round the states, and "b" anywhere but from the first.
Rotating(n) ==
  LET next(b) == [e \in Inner(n) \X {"a", "b"} |->
                    IF e[2] = "b" THEN b[e[1]]
                    ELSE IF e[1] = n + 1 THEN 2 ELSE e[1] + 1]
  IN  Useful(n, {Boolean(FromTable(n, {"a", "b"}, next(b), finals)) :
                   b \in {f \in [Inner(n) -> Inner(n)] : f[2] = 2},
                   finals \in SUBSET Inner(n) \ {{}}})

\* Trim automata over one letter, deterministic or not, weighted in K.
Nfas(n, K) ==
  LET free == {Arc(s, "$", post) : s \in Inner(n)} \union
              {Arc(s, "a", d) : s \in Inner(n), d \in Inner(n)}
      trim == {X \in SUBSET free :
                 Useful(n, {Boolean(X \union {Arc(pre, "$", 2)})}) # {}}
  IN  UNION {[X \union {Arc(pre, "$", 2)} -> K] : X \in trim}

\* Two states that lead to two others, with weights that may cancel when the
\* latter are equivalent.
Diamonds(K) ==
  LET starts == {Arc(pre, "$", 2), Arc(pre, "$", 3)}
      ends == {Arc(4, "$", post), Arc(5, "$", post)}
      free == {Arc(s, "a", d) : s \in {2, 3}, d \in {4, 5}} \union
              {Arc(5, "a", 5), Arc(4, "a", 4)}
  IN  UNION {{[a \in X \union starts \union ends |->
                        IF a \in starts THEN Z(1) ELSE f[a]] :
                       f \in [X \union ends -> K]} :
                X \in {Y \in SUBSET free :
                         IsTrim(Boolean(Y \union starts \union ends))}}

-----------------------------------------------------------------------------
Zero == <<0, FALSE>>
One  == <<1, TRUE>>
Add(x, y) == <<x[1] + y[1], x[2] \/ y[2]>>
Mul(x, y) == <<x[1] * y[1], x[2] /\ y[2]>>

DeterministicInputs ==
  {NoArc} \union Dfas(4, {"a"}) \union UNION {Dfas(n, {"a", "b"}) : n \in 1 .. 2} \union
  Rotating(3)
BooleanInputs ==
  {NoArc} \union Nfas(3, {True}) \union Dfas(2, {"a", "b"})
    \union Dfas(4, {"a"})
IntegerInputs == {NoArc} \union Nfas(2, {Z(-1), Z(1)}) \union Diamonds({Z(-1), Z(1)})
CompleteInputs ==
  {NoArc} \union UNION {CompleteDfas(n, {"a"}) : n \in 1 .. 4} \union
  CompleteDfas(2, {"a", "b"}) \union Rotating(4)
\* They are what Hopcroft's algorithm is for.
ASSUME CompleteInputsAssumption ==
  \A a \in CompleteInputs : IsDeterministic(a) /\ IsTrim(a) /\ IsComplete(a)
PartialInputs == UNION {Dfas(n, {"a"}) : n \in 1 .. 3}

ValidInputs(tag) ==
  CASE tag = "moore"     -> DeterministicInputs
    [] tag = "signature" -> BooleanInputs
    [] tag = "weighted"  -> IntegerInputs
    [] tag = "hopcroft"  -> CompleteInputs
AnyInputs(tag) == IF tag = "hopcroft" THEN PartialInputs ELSE ValidInputs(tag)
=============================================================================
