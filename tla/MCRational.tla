----------------------------- MODULE MCRational -----------------------------
(***************************************************************************)
(* Expressions of two operators over {a, b}, and some of three, in         *)
(* expressionsets weighted in b, z and q, with few and many identities.    *)
(***************************************************************************)
EXTENDS Rational, TLC

a == Atom("a")
b == Atom("b")
Factors(ws) == CASE ws = "b" -> {} [] ws = "z" -> {2} [] ws = "q" -> {<<1, 2>>}

Unary(ws, S) ==
  {<<"star", e>> : e \in S} \union
  {<<op, k, e>> : op \in {"lweight", "rweight"}, k \in Factors(ws), e \in S}
Binary(ops, S, T) == {<<op, <<e, f>>>> : op \in ops, e \in S, f \in T}

Small(ws) == Unary(ws, {a, One}) \union Binary({"add", "mul"}, {One, a}, {a, b})

\* Several ways to read a letter, and factors whose constant term is a weight.
Sums == Binary({"add"}, {One, a}, {a, b})
Constants(ws) == Binary({"add"}, {<<"lweight", k, One>> : k \in Factors(ws)}, {a})
Ambiguous(ws) ==
  Unary("b", Binary({"add"}, {<<"mul", <<a, <<"add", <<a, b>>>>>>>>}, Binary({"mul"}, {a}, Sums)))
  \union Binary({"mul"}, Constants(ws), Sums)

\* What the visitors build.
Basic(ws) ==
  Ambiguous(ws) \union
  Small(ws) \union Unary(ws, Small(ws))
  \union Binary({"add", "mul"}, Small(ws), {a, b} \union Unary(ws, {a}))
  \union Binary({"add", "mul"}, {b}, Small(ws))
  \union IF ws = "b" THEN Binary({"add", "mul"}, Small(ws), Small(ws)) ELSE {}
\* What only has derived terms.
Extended(ws) ==
  Binary({"conjunction", "shuffle", "infiltrate"}, Small(ws), Small(ws))
  \union {<<op, e>> : op \in {"complement", "transposition"}, e \in Small(ws)}
\* What identities simplify.
Null(ws) == {Zero, <<"complement", Zero>>, <<"lweight", W!zero(ws), a>>, <<"rweight", W!zero(ws), a>>}
Edges(ws) ==
  LET ops == {"add", "mul", "conjunction", "shuffle", "infiltrate"}
      some == {One, a} \union Unary(ws, {a, One}) \union Null(ws)
  IN  Binary(ops, Null(ws), some) \union Binary(ops, some, Null(ws))
      \union Binary(ops, some, {One, a})
      \union Unary(ws, Null(ws)) \union {<<op, e>> : op \in {"complement", "transposition"}, e \in some}

\* Those whose series is defined.
WS == {"b", "z", "q"}
ValidBasic    == <<>> @@ [ws \in WS |-> {e \in Basic(ws) : IsValid(ws, e)}]
ValidExtended == <<>> @@ [ws \in WS |-> {e \in Extended(ws) : IsValid(ws, e)}]
ValidEdges    == <<>> @@ [ws \in WS |-> {e \in Edges(ws) : IsValid(ws, e)}]

\* The stars, but for the one that is built first, are those of proper expressions.
RECURSIVE ProperStars(_, _)
ProperStars(ws, e) ==
  /\ type(e) = "star" => constant_term(ws, e[2]) = W!zero(ws)
  /\ \A i \in DOMAIN Subs(e) : ProperStars(ws, Subs(e)[i])
RECURSIVE ProperStarsButFirst(_, _)
ProperStarsButFirst(ws, e) ==
  \A i \in DOMAIN Subs(e) :
    IF i = 1 THEN ProperStarsButFirst(ws, Subs(e)[1]) ELSE ProperStars(ws, Subs(e)[i])

\* standard weighs all the final states by the star of a constant term, and zpc by
\* the weights on the right, wherever these are: see the README.
VisitorInputs(rset, algo) ==
  {e \in ValidBasic[rset.ws] :
     /\ algo = "standard" /\ rset.ws = "q" => ProperStarsButFirst(rset.ws, e)
     /\ algo \in {"zpc", "compact"} => rset.ids \in {"linear", "distributive"} \/ ~Uses(e, {"rweight"})}

\* Operations that users apply one after the other, and how many times.
Turned(ws) == {<<"transposition", e>> : e \in Binary({"add", "mul"}, {One, a}, {a, b})}
Ranges == {<<0, 0>>, <<2, 2>>, <<0, 2>>, <<1, 2>>, <<2, -1>>}
Operations(ws) ==
  Small(ws) \union Unary(ws, Small(ws))
  \union Binary({"add", "mul"}, Small(ws) \union Turned(ws), Small(ws) \union Turned(ws))
  \union {<<"power", r, e>> : r \in Ranges, e \in Small(ws)}
ValidOperations == <<>> @@ [ws \in WS |-> {e \in Operations(ws) : IsValid(ws, e)}]

\* A complement is that of a language here, and determinization need not end
\* but with Boolean weights.
DerivedTermInputs(rset, construction) ==
  {e \in ValidBasic[rset.ws] \union ValidExtended[rset.ws] :
     /\ construction.algo = "derivation" => ~Uses(e, {"infiltrate", "transposition"})
     /\ Uses(e, {"complement"}) => rset.ws = "b"
     /\ construction.determinize => rset.ws = "b"}

MCExpressionSets ==
  [ws : WS, ids : {"none", "trivial", "associative", "linear", "distributive"}]
Plain(name) == [algo |-> name, breaking |-> FALSE, determinize |-> FALSE]
MCConstructions ==
  {Plain(v) : v \in Visitors \union {"copy"}} \union {c \in Algos : ~(c.breaking /\ c.determinize)}
\* No automaton is made up to no identity.
MCInputs(rset, construction) ==
  IF construction.algo = "operators"
  THEN IF rset.ids = "trivial" /\ rset.ws # "z" THEN ValidOperations[rset.ws] ELSE {}
  ELSE IF construction.algo = "inductive"
  THEN {e \in ValidBasic[rset.ws] \union ValidExtended[rset.ws] :
          /\ rset.ids = "linear"
          /\ Uses(e, {"complement"}) => rset.ws = "b"}
  ELSE IF construction.algo = "copy"
  THEN ValidBasic[rset.ws] \union ValidExtended[rset.ws] \union ValidEdges[rset.ws]
  ELSE IF rset.ids = "none" THEN {}
  ELSE IF construction.algo \in Visitors THEN VisitorInputs(rset, construction.algo)
  ELSE DerivedTermInputs(rset, construction)
=============================================================================
