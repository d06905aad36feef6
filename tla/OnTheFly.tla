------------------------------ MODULE OnTheFly ------------------------------
(***************************************************************************)
(* Automata constructed on the fly (tuple_automaton, lazy_tuple_automaton, *)
(* polystate_automaton, insplit_automaton): products, composition, subset  *)
(* construction, insplitting.  A state stands for a name.  It is created   *)
(* when an arc leads to its name, and waits until it is completed: by a    *)
(* loop that serves a queue or, lazily, when a client asks for its arcs.   *)
(***************************************************************************)
EXTENDS Integers, FiniteSets, Sequences, SequencesExt, Functions

CONSTANTS
  Requests,      \* what is asked: records of an op, a weightset, and whether
                 \* states wait for a client (lazy)
  Operands(_),   \* the sequences of operands that a request may have
  Length,        \* of the words on which series are compared
  MaxStates      \* subset construction stops once the result has more states

VARIABLES
  problem,
  aut,           \* the result
  origins,       \* the names of its states
  todo,          \* todo_: created but not completed, if not lazy
  lazies,        \* those with a lazy mark, if lazy
  split,         \* the states completed of an operand that is insplit lazily
  parallel       \* the arcs that new_transition made although they were there

vars == <<problem, aut, origins, todo, lazies, split, parallel>>

W == INSTANCE Weightsets

INSTANCE SpontaneousAutomata WITH
  Letter <- {"a", "b"}, Special <- "$", empty_word <- "",
  zero <- W!zero(problem.ws), one <- W!one(problem.ws),
  Plus <- LAMBDA l, r : W!add(problem.ws, l, r),
  Times <- LAMBDA l, r : W!mul(problem.ws, l, r),
  Starrable <- LAMBDA v : W!starrable(problem.ws, v),
  Star <- LAMBDA v : W!star(problem.ws, v)

-----------------------------------------------------------------------------
(* The arcs that leave a name, for each construction. *)

edge_label(p) == IF p.op = "compose" THEN <<"$", "$">> ELSE "$"

\* The arcs of an operand as its client sees them; built: the states of the
\* insplit one that were completed.
Seen(p, built, i) ==
  IF p.op = "compose" /\ i = 2
  THEN {t \in DOMAIN p.auts[i] : t.src \in built}
  ELSE DOMAIN p.auts[i]

P(p, built) == INSTANCE Products WITH
  op <- p.op, special <- edge_label(p), one_ <- "",
  map <- LAMBDA i, s : {t \in Seen(p, built, i) : t.src = s},
  all_in <- LAMBDA i, s : {t \in Seen(p, built, i) : t.dst = s},
  weight <- LAMBDA i, t : p.auts[i][t],
  Tapes <- 1 .. Len(p.auts),
  zero <- W!zero(p.ws), one <- W!one(p.ws),
  Plus <- LAMBDA l, r : W!add(p.ws, l, r), Times <- LAMBDA l, r : W!mul(p.ws, l, r)

D(p) == INSTANCE Subsets WITH
  special <- "$", ws <- p.ws,
  map <- LAMBDA s : {t \in DOMAIN p.auts[1] : t.src = s},
  weight <- LAMBDA t : p.auts[1][t],
  zero <- W!zero(p.ws), one <- W!one(p.ws),
  Plus <- LAMBDA l, r : W!add(p.ws, l, r), Times <- LAMBDA l, r : W!mul(p.ws, l, r),
  Quotient <- LAMBDA l, r : W!ldivide(p.ws, l, r)

\* A name of the insplit automaton tells whether spontaneous arcs enter it.
add_insplit_transitions(p, n) ==
  <<{[kind |-> "new", label |-> t.label, weight |-> p.auts[1][t],
      dst |-> <<t.dst, t.label = "">>] : t \in {u \in DOMAIN p.auts[1] : u.src = n[1]}}>>

Edge(p, s) ==
  CASE p.op = "determinize" -> D(p)!Single(s)
    [] p.op = "insplit"     -> <<s, FALSE>>
    [] OTHER                -> P(p, {})!Everywhere(s)

\* What the construction adds when it completes the state of name n.
Edits(p, built, n) ==
  CASE p.op = "determinize" -> D(p)!add_transitions(n)
    [] p.op = "insplit"     -> add_insplit_transitions(p, n)
    [] p.op = "compose"     -> P(p, built)!add_compose_transitions(n)
    [] p.op = "ldivide"     -> P(p, built)!add_ldivide_transitions(n)
    [] p.op = "add"         -> P(p, built)!add_add_transitions(n)
    [] p.op = "shuffle" /\ n # Edge(p, pre) -> P(p, built)!add_shuffle_transitions(n, FALSE)
    [] p.op = "infiltrate" /\ n # Edge(p, pre) ->
         P(p, built)!add_conjunction_transitions(n)
         \o P(p, built)!add_shuffle_transitions(n, TRUE)
    [] OTHER -> P(p, built)!add_conjunction_transitions(n)

-----------------------------------------------------------------------------
(* Completion of a state. *)

\* The functions that create states and edit the result; r gathers what they
\* may change, e is what they do from state s.
Number(r, n) == CHOOSE k \in DOMAIN r.origins : r.origins[k] = n

state(r, n) ==
  LET s == Cardinality(DOMAIN r.origins)
  IN  IF n \in Range(r.origins) THEN r
      ELSE [r EXCEPT !.origins = @ @@ (s :> n), !.new = Append(@, s)]

\* Mutant: add_transition replaces the arc that is there.
MutEdited(r, s, e) ==
  LET q == state(r, e.dst)
      x == [src |-> s, label |-> e.label, dst |-> Number(q, e.dst)]
  IN  [q EXCEPT !.aut = NonZero((x :> e.weight) @@ @),
                !.parallel = IF e.kind = "new" /\ x \in Arcs(q.aut) THEN @ \union {x} ELSE @]

Edited(r, s, e) ==
  LET q == state(r, e.dst)
      x == [src |-> s, label |-> e.label, dst |-> Number(q, e.dst)]
      w == IF e.kind = "set" THEN e.weight ELSE W!add(problem.ws, Weight(q.aut, x), e.weight)
  IN  [q EXCEPT !.aut = NonZero((x :> w) @@ @),
                !.parallel = IF e.kind = "new" /\ x \in Arcs(q.aut) THEN @ \union {x} ELSE @]

\* f(r), where TLC evaluates r once.
Once(f(_), r) == CHOOSE y \in {f(x) : x \in {r}} : TRUE

\* add_transitions.
Completed(s, built) ==
  LET edited(e, r) == Once(LAMBDA q : Edited(q, s, e), r)
      phase(r, edits) == FoldSet(edited, r, edits)
      start == [aut |-> aut, origins |-> origins, new |-> <<>>, parallel |-> parallel]
  IN  Once(LAMBDA phases : FoldLeft(phase, start, phases), Edits(problem, built, origins[s]))

\* Composition completes the states of its second operand, which it insplits
\* lazily, when it needs their arcs.
Built(s) == IF problem.op = "compose" THEN split \union {origins[s][2]} ELSE split

Complete(s) ==
  \E r \in {Completed(s, Built(s))} :
      /\ aut' = r.aut
      /\ origins' = r.origins
      /\ parallel' = r.parallel
      /\ split' = Built(s)
      /\ UNCHANGED problem
      /\ IF problem.lazy
         THEN lazies' = (lazies \ {s}) \union Range(r.new) /\ UNCHANGED todo
         ELSE todo' = Tail(todo) \o r.new /\ UNCHANGED lazies

-----------------------------------------------------------------------------
Init ==
  /\ \E q \in Requests : \E auts \in Operands(q) :
       problem = [auts |-> auts, op |-> q.op, ws |-> q.ws, lazy |-> q.lazy]
  /\ aut = <<>>
  /\ origins = (pre :> Edge(problem, pre)) @@ (post :> Edge(problem, post))
  /\ todo = IF problem.lazy THEN <<>> ELSE <<pre>>
  /\ lazies = IF problem.lazy THEN {pre} ELSE {}
  /\ split = {} /\ parallel = {}

\* Only subset construction may need more names than the bound.
Small == problem.op = "determinize" => Cardinality(DOMAIN origins) <= MaxStates

\* A turn of the loop over todo_.
Serve == ~ problem.lazy /\ Small /\ todo # <<>> /\ Complete(Head(todo))

\* all_out by a client, for a state that is lazy.
AllOut(s) == problem.lazy /\ Small /\ s \in lazies /\ Complete(s)

Next == Serve \/ \E s \in lazies : AllOut(s)

Spec == Init /\ [][Next]_vars /\ WF_vars(Serve)

-----------------------------------------------------------------------------
(* Properties. *)

\* "These are always new transitions" (conjunction.hh), as new_transition
\* requires: the arcs that a construction does not look up are not there yet.
NewTransitionsAreNew == parallel = {}
NewButInCompose == problem.op # "compose" => parallel = {}

-----------------------------------------------------------------------------
(* The promise of Exploration. *)

\* What phases of additions amount to, whatever the order in a phase.
Sums(p, n, phases) ==
  LET add(e, w) == IF e.kind = "set" THEN e.weight ELSE W!add(p.ws, w, e.weight)
      sum(x) == FoldLeft(LAMBDA w, edits : FoldSet(add, w, {e \in edits : <<e.label, e.dst>> = x}),
                         W!zero(p.ws), phases)
      ends == {<<e.label, e.dst>> : e \in UNION Range(phases)}
  IN  {[src |-> n, label |-> x[1], dst |-> x[2], weight |-> sum(x)] : x \in ends}

\* The arcs that leave a name, with a second operand that is insplit beforehand.
Leaving(p, n) ==
  UNION {Sums(p, n, phases) :
           phases \in {Edits(p, {t.src : t \in DOMAIN p.auts[Len(p.auts)]}, n)}}

E == INSTANCE Exploration WITH
  IsNull <- LAMBDA p, a : a.weight = W!zero(p.ws),
  First <- LAMBDA p : Edge(p, pre), Last <- LAMBDA p : Edge(p, post),
  known <- Range(origins),
  served <- {origins[s] : s \in DOMAIN origins \ (Range(todo) \union lazies)},
  arcs <- {[src |-> origins[x.src], label |-> x.label, dst |-> origins[x.dst],
            weight |-> aut[x]] : x \in Arcs(aut)}

\* The order in which clients ask for the states of a lazy automaton, and the
\* numbers that states get from it, do not change what leaves a name; nor does
\* what else was completed.  An answer that was given never changes.
ImplementsExploration == E!Spec

-----------------------------------------------------------------------------
(* The meaning of the result. *)

Done == todo = <<>> /\ lazies = {}

Times_(S, weigh(_)) ==
  FoldSet(LAMBDA x, w : W!mul(problem.ws, w, weigh(x)), W!one(problem.ws), S)

\* The letters of a word at some of its positions.
Subword(word, I) ==
  FoldLeft(LAMBDA u, k : IF k \in I THEN Append(u, word[k]) ELSE u, <<>>,
           [k \in DOMAIN word |-> k])

\* Which operands may read a letter of a word of the product.
Readers ==
  LET tapes == DOMAIN problem.auts
  IN  CASE problem.op = "shuffle"    -> {{i} : i \in tapes}
        [] problem.op = "infiltrate" -> SUBSET tapes \ {{}}
        [] OTHER                     -> {tapes}

\* The words that divide.
Divisors == UNION {[1 .. k -> {"a", "b"}] : k \in 0 .. 2}

\* The weight of a word in the result, from the series of the operands.
Promised(S, word) ==
  CASE problem.op = "add"     -> W!add(problem.ws, S[1][word], S[2][word])
    [] problem.op = "ldivide" ->
         SumOver(Divisors, LAMBDA u : W!mul(problem.ws, S[1][u], S[2][u \o word]))
    [] OTHER ->
         SumOver([DOMAIN word -> Readers],
                 LAMBDA f : Times_(DOMAIN problem.auts,
                   LAMBDA i : S[i][Subword(word, {k \in DOMAIN word : i \in f[k]})]))

\* The relation of an automaton without circuit: the pairs of words of its
\* paths, with their weights.  A path that has reached post stays there.
Relation(a) ==
  LET stay == [src |-> post, label |-> <<"", "">>, dst |-> post]
      b == (stay :> W!one(problem.ws)) @@ a
      read(u, l) == IF l \in {"", "$"} THEN u ELSE Append(u, l)
      end(e) == <<e[2].dst, read(e[1][2], e[2].label[1]), read(e[1][3], e[2].label[2])>>
      step(f) ==
        LET moves == {e \in (DOMAIN f) \X Arcs(b) : e[1][1] = e[2].src}
        IN  [k \in {end(e) : e \in moves} |->
               SumOver({e \in moves : end(e) = k},
                       LAMBDA e : W!mul(problem.ws, f[e[1]], b[e[2]]))]
      all == FoldSet(LAMBDA s, f : step(f), <<pre, <<>>, <<>>>> :> W!one(problem.ws), States(a))
  IN  [k \in {<<x[2], x[3]>> : x \in {y \in DOMAIN all : y[1] = post}} |->
         all[<<post, k[1], k[2]>>]]

Composed(R, S) ==
  LET chains == {c \in (DOMAIN R) \X (DOMAIN S) : c[1][2] = c[2][1]}
      weigh(k) == SumOver({c \in chains : <<c[1][1], c[2][2]>> = k},
                          LAMBDA c : W!mul(problem.ws, R[c[1]], S[c[2]]))
  IN  [k \in {<<c[1][1], c[2][2]>> : c \in chains} |-> weigh(k)]

\* A function without its null values.
NonNull(f) == Restrict(f, {k \in DOMAIN f : f[k] # W!zero(problem.ws)})

\* Once all its states are completed, the result has the series (or relation)
\* that the construction promises, and the shape: subset construction and sum
\* are deterministic, and after insplitting the arcs into a state are all
\* spontaneous or all proper.
AsPromised ==
  Done =>
    /\ IF problem.op = "compose"
       THEN NonNull(Relation(aut))
              = NonNull(Composed(Relation(problem.auts[1]), Relation(problem.auts[2])))
       ELSE LET long == Length + IF problem.op = "ldivide" THEN 2 ELSE 0
                S == [i \in DOMAIN problem.auts |-> Series(problem.auts[i], long)]
                result == Series(aut, Length)
            IN  (\A i \in DOMAIN S : S[i].defined) =>
                  /\ result.defined
                  /\ \A f \in {[i \in DOMAIN S |-> S[i].of]} :
                       \A word \in DOMAIN result.of : result.of[word] = Promised(f, word)
    /\ problem.op \in {"determinize", "add"} => IsDeterministic(aut)
    /\ problem.op = "insplit" =>
         \A s \in States(aut) : SpIn(aut, s) \in {{}, In(aut, s)}

-----------------------------------------------------------------------------
(* Termination. *)

\* The twins property, for zmin: two states that a same word leads to, and that
\* circuits with a same word come back to, do so with a same weight.  Circuits
\* are as long as there are pairs of states.
Twins(a) ==
  LET S == States(a) \ {pre, post}
      Pairs == S \X S
      moves(q) == {m \in Out(a, q[1]) \X Out(a, q[2]) :
                     m[1].label = m[2].label /\ m[1].label # "$"}
      after(q, m) == <<<<m[1].dst, m[2].dst>>, q[2] + a[m[2]] - a[m[1]]>>
      step(T) == UNION {{q} \union {after(q, m) : m \in moves(q[1])} : q \in T}
      far(q) == FoldSet(LAMBDA k, T : step(T), {<<q, 0>>}, Pairs)
      starts == {q \in Pairs : {q[1], q[2]} \subseteq Successors(a, pre)}
      reached == UNION {{x[1] : x \in far(q)} : q \in starts}
  IN  \A q \in reached : \A x \in far(q) : x[1] = q => x[2] = 0

\* The problems that only a bounded number of names can answer.
Finite(p) ==
  \/ p.op # "determinize" \/ p.ws = "b"
  \/ p.ws = "zmin" /\ Twins(p.auts[1])

\* The loop over todo_ comes to an end: unless the construction is the subset
\* construction and the operand lacks the twins property.
Terminates == ~ problem.lazy /\ Finite(problem) ~> todo = <<>>
=============================================================================
