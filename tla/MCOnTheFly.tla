----------------------------- MODULE MCOnTheFly -----------------------------
(* The problems that the runs of OnTheFly search. *)
EXTENDS OnTheFly
LOCAL INSTANCE Weightsets

LOCAL Arc(s, l, d) == [src |-> s, label |-> l, dst |-> d]
LOCAL Ends(f) == {Arc(0, "$", 2), Arc(f, "$", 1)}
LOCAL Sized(S, I) == {T \in SUBSET S : Cardinality(T) \in I}
LOCAL Grid(labels, S) == {Arc(s, l, d) : l \in labels, s \in S, d \in S}

\* The arcs of A, those that go back or end weigh w, or only one arc does.
LOCAL Weighted(ws, A, w) == [x \in A |-> IF x.src >= x.dst THEN w ELSE one(ws)]
LOCAL Plain(ws, A)       == Weighted(ws, A, one(ws))
LOCAL WeightedOnce(ws, A, w) ==
  {[x \in A |-> IF x = y THEN w ELSE one(ws)] : y \in {z \in A : z.label # "$"}}

\* Two states.
LOCAL TwoStates(I) == {S \union Ends(3) : S \in Sized(Grid({"a", ""}, {2, 3}), I)}
LOCAL Acyclic(I) ==
  {A \in TwoStates(I) : \A x \in A : x.label = "" => x.src < x.dst}
LOCAL Proper(I) == {S \union Ends(3) : S \in Sized(Grid({"a", "b"}, {2, 3}), I)}
LOCAL Short(ws) ==
  {Plain(ws, A) : A \in
    {{Arc(2, "", 3), Arc(3, "a", 2)} \union Ends(3),
     {Arc(2, "", 3), Arc(2, "a", 3), Arc(3, "a", 3)} \union Ends(3),
     {Arc(2, "", 3), Arc(2, "a", 2), Arc(2, "$", 1)} \union Ends(3)}}
LOCAL Letters(ws) ==
  {Plain(ws, A) : A \in
    {{Arc(2, "b", 3), Arc(3, "a", 2)} \union Ends(3),
     {Arc(2, "a", 3), Arc(3, "b", 3)} \union Ends(3),
     {Arc(2, "a", 2), Arc(2, "b", 3), Arc(2, "$", 1)} \union Ends(3)}}

\* What insplit returns, states renumbered: the arcs into a state are all
\* spontaneous, or all proper.  Products insplit all their operands but the
\* first.
LOCAL InsplitBy(a, spontaneous(_)) ==
  LET copies(s) == IF s \in {0, 1} THEN {s} ELSE {s, s + 10}
      enters(x) == IF spontaneous(x) THEN x.dst + 10 ELSE x.dst
      arcs == UNION {{Arc(s, x.label, enters(x)) : s \in copies(x.src)} : x \in DOMAIN a}
      seen[n \in Nat] ==
        IF n = 0 THEN {0}
        ELSE UNION {{s} \union {x.dst : x \in {y \in arcs : y.src = s}} : s \in seen[n - 1]}
      of(x) == CHOOSE y \in DOMAIN a :
                 y.label = x.label /\ x.src \in copies(y.src) /\ x.dst = enters(y)
  IN  [x \in {y \in arcs : y.src \in seen[6]} |-> a[of(x)]]

LOCAL Insplit(a) == InsplitBy(a, LAMBDA x : x.label = "")
LOCAL Split(ws) == {Insplit(a) : a \in Short(ws)}

LOCAL Conjunction(ws) ==
  IF ws = "b" THEN {Plain("b", A) : A \in TwoStates(2 .. 3)} \X Split("b")
  ELSE ({Weighted(ws, A, -1) : A \in Acyclic(2 .. 3)} \X Split(ws))
         \union (Short(ws) \X Split(ws) \X Split(ws))

LOCAL Shuffle(ws) ==
  IF ws = "b" THEN {Plain("b", A) : A \in TwoStates({2})} \X Short("b")
  ELSE ({Weighted(ws, A, -1) : A \in Proper(2 .. 3)} \X Letters(ws))
         \union (Letters(ws) \X Letters(ws) \X {CHOOSE a \in Letters(ws) : TRUE})

LOCAL Infiltrate(ws) ==
  IF ws = "b" THEN {Plain("b", A) : A \in TwoStates({2})} \X Split("b")
  ELSE {Weighted(ws, A, -1) : A \in Proper(2 .. 3)} \X Letters(ws)

\* The first operand has words of length 2 at most.
LOCAL Quotients ==
  {Weighted("z", A, 2) :
     A \in {{Arc(2, "a", 3)} \union Ends(3),
            {Arc(2, "a", 3), Arc(2, "b", 3), Arc(2, "$", 1)} \union Ends(3),
            {Arc(2, "a", 3), Arc(3, "a", 4), Arc(2, "b", 4)} \union Ends(4)}}
  \X {Weighted("z", B, -1) : B \in Proper(2 .. 3)}

LOCAL Deterministic(A) == \A x, y \in A : x.src = y.src /\ x.label = y.label => x = y
LOCAL Summands ==
  {Plain("b", A) : A \in {B \in Proper(2 .. 3) : Deterministic(B)}} \X Letters("b")

\* Three states, and two ways to read letters.
LOCAL Ambiguous(max) ==
  {S \union Ends(4) \union {Arc(2, "a", 3), Arc(2, "a", 4)} :
     S \in Sized(Grid({"a"}, 3 .. 4)
                   \union {Arc(3, "b", 4), Arc(4, "b", 4), Arc(2, "b", 2), Arc(4, "a", 2)}, 1 .. max)}
LOCAL Determinize(ws) ==
  CASE ws = "b"    -> {<<Plain(ws, A)>> : A \in Ambiguous(3)}
    [] ws = "zmin" -> {<<a>> : a \in UNION {WeightedOnce(ws, A, 1) : A \in Ambiguous(2)}}
    [] ws = "z"    -> {<<Weighted(ws, A, -2)>> : A \in Ambiguous(3)}
    [] ws = "q"    -> {<<Weighted(ws, A, <<-1, 2>>)>> : A \in Ambiguous(2)}

\* Firsts; composition sees the second tape of its first operand and the
\* first tape of the other.
LOCAL Pairs(labels, ends) ==
  {Arc(0, <<"$", "$">>, 2), Arc(4, <<"$", "$">>, 1)}
    \union {Arc(e[1], l, e[2]) : l \in labels, e \in ends}
LOCAL Firsts ==
  {S \union Pairs({}, {}) :
     S \in Sized({Arc(e[1], l, e[2]) : l \in {<<"a", "">>, <<"", "a">>, <<"a", "a">>, <<"b", "a">>},
                                     e \in {<<2, 3>>, <<3, 4>>}}, 2 .. 3)}
LOCAL Seconds ==
  {Pairs({<<"a", "b">>}, {<<2, 4>>}) \union {Arc(2, <<"", "a">>, 4)},
   Pairs({<<"a", "">>}, {<<2, 3>>}) \union {Arc(2, <<"", "b">>, 3), Arc(3, <<"a", "b">>, 4)},
   Pairs({<<"a", "">>, <<"", "b">>}, {<<2, 3>>, <<3, 4>>}),
   Pairs({<<"a", "a">>, <<"a", "b">>}, {<<2, 3>>, <<3, 4>>})
     \union {Arc(2, <<"$", "$">>, 1)}}
LOCAL Compositions(ws, A, B) ==
  {Weighted(ws, a, one(ws)) : a \in A}
    \X {InsplitBy(Weighted(ws, b, one(ws)), LAMBDA x : x.label[1] = "") : b \in B}

SmallOperands(q) ==
  CASE q.op = "conjunction" ->
         IF q.lazy THEN Short("b") \X Split("b") ELSE Conjunction(q.ws)
    [] q.op = "compose" ->
         Compositions(q.ws, IF q.lazy THEN Seconds ELSE Firsts, Seconds)
    [] q.op = "shuffle"     -> Shuffle(q.ws)
    [] q.op = "infiltrate"  -> Infiltrate(q.ws)
    [] q.op = "ldivide"     -> Quotients
    [] q.op = "add"         -> Summands
    [] q.op = "determinize" -> Determinize(q.ws)
    [] q.op = "insplit" ->
         {<<a>> : a \in IF q.ws = "b" THEN {Plain("b", A) : A \in TwoStates(2 .. 3)}
                        ELSE {Weighted(q.ws, A, -1) : A \in Acyclic(2 .. 3)}}

Ask(ops, ws, lazy) == [op : ops, ws : ws, lazy : {lazy}]
SmallRequests ==
  Ask({"conjunction", "shuffle", "infiltrate", "insplit"}, {"b", "z"}, FALSE)
  \union Ask({"compose", "ldivide"}, {"z"}, FALSE)
  \union Ask({"add"}, {"b"}, FALSE)
  \union Ask({"determinize"}, Names, FALSE)
  \union Ask({"conjunction", "insplit", "determinize"}, {"b"}, TRUE)
  \union Ask({"compose"}, {"z"}, TRUE)
=============================================================================
