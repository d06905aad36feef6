---------------------------- MODULE Expressions ----------------------------
(***************************************************************************)
(* Rational expressions and the operations of an expressionset, which      *)
(* simplify what they build up to the identities of the set.  An           *)
(* expression is a tuple: its type, its weight if it has one, and its      *)
(* subexpression, or the sequence of them; what is to be copied may have   *)
(* powers, <<"power", <<min, max>>, e>>.  rs is an expressionset: its      *)
(* weightset rs.ws and its identities rs.ids.                              *)
(***************************************************************************)
EXTENDS Integers, Sequences
LOCAL INSTANCE SequencesExt
LOCAL INSTANCE FiniteSetsExt
W == INSTANCE Weightsets

Rank(s, x) == CHOOSE i \in DOMAIN s : s[i] = x

\* The letters, in order.
Alphabet == <<"a", "b">>
Letters == {Alphabet[i] : i \in DOMAIN Alphabet}

Zero == <<"zero">>
One  == <<"one">>
Atom(l) == <<"atom", l>>

type(e) == e[1]
Types ==
  <<"zero", "one", "atom", "add", "mul", "ldivide", "conjunction", "shuffle",
    "infiltrate", "star", "transposition", "lweight", "rweight", "complement">>
IsLeaf(e)     == type(e) \in {"zero", "one", "atom"}
IsVariadic(e) == type(e) \in {"add", "mul", "conjunction", "shuffle", "infiltrate"}
IsWeighted(e) == type(e) \in {"lweight", "rweight"}
Subs(e) ==
  IF IsLeaf(e) THEN <<>> ELSE IF IsVariadic(e) THEN e[2] ELSE <<e[Len(e)]>>

Identities == <<"none", "trivial", "associative", "linear", "distributive">>
AtLeast(rs, ids)    == Rank(Identities, rs.ids) >= Rank(Identities, ids)
is_trivial(rs)      == AtLeast(rs, "trivial")
is_associative(rs)  == AtLeast(rs, "associative")
is_linear(rs)       == AtLeast(rs, "linear")
is_distributive(rs) == rs.ids = "distributive"

\* f(x), where x is evaluated once.
With(x, f(_)) == CHOOSE y \in {f(v) : v \in {x}} : TRUE

-----------------------------------------------------------------------------
(* The order of expressions: by size, then type, then content.             *)

RECURSIVE size(_)
size(e) ==
  FoldLeft(LAMBDA n, c : n + size(c),
           IF IsVariadic(e) THEN Len(e[2]) - 1 ELSE 1, Subs(e))

RECURSIVE less(_, _, _)
less(ws, l, r) ==
  LET s == Subs(l)
      t == Subs(r)
      differ == {i \in DOMAIN s : s[i] # t[i]}
  IN  IF size(l) # size(r) THEN size(l) < size(r)
      ELSE IF type(l) # type(r) THEN Rank(Types, type(l)) < Rank(Types, type(r))
      ELSE IF Len(s) # Len(t) THEN Len(s) < Len(t)
      ELSE IF differ # {} THEN less(ws, s[Min(differ)], t[Min(differ)])
      ELSE IF type(l) = "atom" THEN Rank(Alphabet, l[2]) < Rank(Alphabet, r[2])
      ELSE IsWeighted(l) /\ W!less(ws, l[2], r[2])

\* The weight of <k>E, and E.
possibly_implicit_lweight(rs, e) == IF type(e) = "lweight" THEN e[2] ELSE W!one(rs.ws)
unwrap_possible_lweight(e)       == IF type(e) = "lweight" THEN e[3] ELSE e
less_linear(rs, l, r) ==
  less(rs.ws, unwrap_possible_lweight(l), unwrap_possible_lweight(r))

-----------------------------------------------------------------------------
(* Weights.                                                                *)

RECURSIVE lweight(_, _, _)
lweight(rs, k, e) ==
  IF is_trivial(rs) /\ (e = Zero \/ k = W!one(rs.ws)) THEN e
  ELSE IF is_trivial(rs) /\ k = W!zero(rs.ws) THEN Zero
  ELSE IF is_trivial(rs) /\ type(e) = "lweight"
    THEN lweight(rs, W!mul(rs.ws, k, e[2]), e[3])
  ELSE IF is_distributive(rs) /\ type(e) = "add"
    THEN <<"add", [i \in DOMAIN e[2] |-> lweight(rs, k, e[2][i])]>>
  ELSE <<"lweight", k, e>>

RECURSIVE rweight(_, _, _)
rweight(rs, e, k) ==
  IF is_linear(rs) THEN lweight(rs, k, e)
  ELSE IF is_trivial(rs) /\ k = W!zero(rs.ws) THEN Zero
  ELSE IF is_trivial(rs) /\ k = W!one(rs.ws) THEN e
  ELSE IF is_trivial(rs) /\ IsLeaf(e) THEN lweight(rs, k, e)
  ELSE IF is_trivial(rs) /\ type(e) = "lweight"
    THEN lweight(rs, e[2], rweight(rs, e[3], k))
  ELSE IF is_trivial(rs) /\ type(e) = "rweight"
    THEN rweight(rs, e[3], W!mul(rs.ws, e[2], k))
  ELSE <<"rweight", k, e>>

-----------------------------------------------------------------------------
(* Sums and products.                                                      *)

gather(rs, op, l, r) ==
  LET parts(e) == IF is_associative(rs) /\ type(e) = op THEN e[2] ELSE <<e>>
  IN  <<op, parts(l) \o parts(r)>>

Addends(e) == IF type(e) = "add" THEN e[2] ELSE <<e>>

\* Two increasing lists are merged; equal terms add their weights, and go when
\* these cancel.
RECURSIVE Merged(_, _, _)
Merged(rs, s, t) ==
  IF s = <<>> \/ t = <<>> THEN s \o t
  ELSE IF less_linear(rs, s[1], t[1]) THEN <<s[1]>> \o Merged(rs, Tail(s), t)
  ELSE IF less_linear(rs, t[1], s[1]) THEN <<t[1]>> \o Merged(rs, s, Tail(t))
  ELSE LET k == W!add(rs.ws, possibly_implicit_lweight(rs, s[1]),
                             possibly_implicit_lweight(rs, t[1]))
       IN  (IF k = W!zero(rs.ws) THEN <<>>
            ELSE <<lweight(rs, k, unwrap_possible_lweight(s[1]))>>)
           \o Merged(rs, Tail(s), Tail(t))

SumOfList(es) == IF es = <<>> THEN Zero ELSE IF Len(es) = 1 THEN es[1] ELSE <<"add", es>>

add_linear(rs, l, r) == With(Merged(rs, Addends(l), Addends(r)), SumOfList)

Added(rs, l, r) ==
  IF is_trivial(rs) /\ l = Zero THEN r
  ELSE IF is_trivial(rs) /\ r = Zero THEN l
  ELSE IF is_linear(rs) THEN add_linear(rs, l, r)
  ELSE gather(rs, "add", l, r)

add(rs, l, r) == With(<<l, r>>, LAMBDA p : Added(rs, p[1], p[2]))

RECURSIVE mul(_, _, _)
Multiplied(rs, l, r) ==
  LET k == possibly_implicit_lweight(rs, l)
      h == possibly_implicit_lweight(rs, r)
      e == unwrap_possible_lweight(l)
      f == unwrap_possible_lweight(r)
      sum(terms, by(_)) == FoldLeft(LAMBDA s, x : add(rs, s, by(x)), Zero, terms)
  IN  IF is_trivial(rs) /\ l = Zero THEN l
      ELSE IF is_trivial(rs) /\ r = Zero THEN r
      ELSE IF is_trivial(rs) /\ f = One THEN rweight(rs, l, h)
      ELSE IF is_trivial(rs) /\ e = One THEN lweight(rs, k, r)
      ELSE IF is_linear(rs) /\ "lweight" \in {type(l), type(r)}
        THEN lweight(rs, W!mul(rs.ws, k, h), mul(rs, e, f))
      ELSE IF is_distributive(rs) /\ type(l) = "add"
        THEN sum(l[2], LAMBDA x : mul(rs, x, r))
      ELSE IF is_distributive(rs) /\ type(r) = "add"
        THEN sum(r[2], LAMBDA x : mul(rs, l, x))
      ELSE gather(rs, "mul", l, r)
mul(rs, l, r) == With(<<l, r>>, LAMBDA p : Multiplied(rs, p[1], p[2]))

\* f, n times in a row.
Repeated(n, x, f(_)) == FoldLeft(LAMBDA y, i : With(y, f), x, [i \in 1 .. n |-> i])

\* E{n}.  Under associative identities n copies of E are not gathered.
RECURSIVE power(_, _, _)
power(rs, e, n) ==
  LET k == possibly_implicit_lweight(rs, e)
      f == unwrap_possible_lweight(e)
      weight == Repeated(n, W!one(rs.ws), LAMBDA w : W!mul(rs.ws, w, k))
  IN  IF n = 0 THEN One
      ELSE IF n = 1 \/ (is_trivial(rs) /\ e = Zero) THEN e
      ELSE IF is_trivial(rs) /\ f = One THEN lweight(rs, weight, One)
      ELSE IF is_linear(rs) /\ type(e) = "lweight" THEN lweight(rs, weight, power(rs, f, n))
      ELSE IF is_associative(rs) /\ ~(is_distributive(rs) /\ type(e) = "add")
        THEN <<"mul", [i \in 1 .. n |-> e]>>
      ELSE Repeated(n - 1, e, LAMBDA p : mul(rs, p, e))

\* The products of words: a conjunction of labels is decided at once.
conjunction(rs, l, r) ==
  LET k == possibly_implicit_lweight(rs, l)
      h == possibly_implicit_lweight(rs, r)
      e == unwrap_possible_lweight(l)
      f == unwrap_possible_lweight(r)
      universal == <<"complement", Zero>>
  IN  IF ~is_trivial(rs) THEN gather(rs, "conjunction", l, r)
      ELSE IF l = Zero \/ r = universal THEN l
      ELSE IF r = Zero \/ l = universal THEN r
      ELSE IF e = One /\ f = One THEN lweight(rs, W!mul(rs.ws, k, h), One)
      ELSE IF {type(e), type(f)} \subseteq {"one", "atom"}
        THEN IF e = f THEN rweight(rs, l, h) ELSE Zero
      ELSE gather(rs, "conjunction", l, r)

\* shuffle and infiltrate.
Interleaving(rs, op, l, r) ==
  IF ~is_trivial(rs) THEN gather(rs, op, l, r)
  ELSE IF l = Zero \/ r = One THEN l
  ELSE IF r = Zero \/ l = One THEN r
  ELSE gather(rs, op, l, r)

shuffle(rs, l, r)    == Interleaving(rs, "shuffle", l, r)
infiltrate(rs, l, r) == Interleaving(rs, "infiltrate", l, r)

-----------------------------------------------------------------------------
(* Unary operators.                                                        *)

\* Only valid stars are built: their subexpression has a starrable constant term.
star(rs, e) == IF is_trivial(rs) /\ e = Zero THEN One ELSE <<"star", e>>

\* E{min,max}, where max may be -1, for no bound.
multiply(rs, e, min, max) ==
  LET sum == FoldLeft(LAMBDA s, n : add(rs, s, power(rs, e, n)), One, [n \in 1 .. max - min |-> n])
  IN  CASE max = -1  -> IF min = 0 THEN star(rs, e) ELSE mul(rs, power(rs, e, min), star(rs, e))
        [] max = min -> power(rs, e, min)
        [] OTHER     -> mul(rs, power(rs, e, min), sum)

RECURSIVE complement(_, _)
complement(rs, e) ==
  IF is_trivial(rs) /\ IsWeighted(e) THEN complement(rs, e[3])
  ELSE IF is_trivial(rs) /\ type(e) = "complement" /\ rs.ws = "b" THEN e[2]
  ELSE <<"complement", e>>

transposition(rs, e) ==
  IF is_trivial(rs) /\ IsLeaf(e) THEN e ELSE <<"transposition", e>>

-----------------------------------------------------------------------------
(* The visitors that rebuild an expression.                                *)

Combine(rs, op, l, r) ==
  CASE op = "add"         -> add(rs, l, r)
    [] op = "mul"         -> mul(rs, l, r)
    [] op = "conjunction" -> conjunction(rs, l, r)
    [] op = "shuffle"     -> shuffle(rs, l, r)
    [] op = "infiltrate"  -> infiltrate(rs, l, r)

RECURSIVE copy(_, _)
copy(rs, e) ==
  CASE IsLeaf(e)     -> e
    [] IsVariadic(e) ->
         FoldLeft(LAMBDA l, c : With(l, LAMBDA v : Combine(rs, type(e), v, copy(rs, c))),
                  copy(rs, e[2][1]), Tail(e[2]))
    [] type(e) = "star"          -> star(rs, copy(rs, e[2]))
    [] type(e) = "complement"    -> complement(rs, copy(rs, e[2]))
    [] type(e) = "transposition" -> transposition(rs, copy(rs, e[2]))
    [] type(e) = "power"         ->
         With(copy(rs, e[3]), LAMBDA v : multiply(rs, v, e[2][1], e[2][2]))
    [] type(e) = "lweight"       -> lweight(rs, e[2], copy(rs, e[3]))
    [] type(e) = "rweight"       -> rweight(rs, copy(rs, e[3]), e[2])

-----------------------------------------------------------------------------
(***************************************************************************)
(* The series that an expression stands for: the weight of each word, by   *)
(* the definition of each operator and by no algorithm of the library.     *)
(***************************************************************************)
WordsUpTo(n) == UNION {[1 .. k -> Letters] : k \in 0 .. n}

SumOf(ws, S, weigh(_)) ==
  MapThenFoldSet(LAMBDA k, h : W!add(ws, k, h), W!zero(ws), weigh,
                 LAMBDA T : CHOOSE x \in T : TRUE, S)

Prefix(w, i) == SubSeq(w, 1, i)
Suffix(w, i) == SubSeq(w, i + 1, Len(w))
\* The letters of w at the positions of S.
Subword(w, S) ==
  FoldLeft(LAMBDA u, i : IF i \in S THEN Append(u, w[i]) ELSE u, <<>>, [i \in DOMAIN w |-> i])

\* The sum of the powers of e.
Powers(e, min, max) ==
  LET copies(n) == IF n = 0 THEN One ELSE <<"mul", Append([i \in 1 .. n |-> e], One)>>
  IN  IF max = -1 THEN <<"mul", <<copies(min), <<"star", e>>>>>>
      ELSE <<"add", [i \in 1 .. max - min + 1 |-> copies(min + i - 1)]>>

RECURSIVE Weight(_, _, _)
Weight(ws, e, w) ==
  LET rest == IF Len(e[2]) = 2 THEN e[2][2] ELSE <<type(e), Tail(e[2])>>
      both(u, v) == W!mul(ws, Weight(ws, e[2][1], u), Weight(ws, rest, v))
      positions == DOMAIN w
      covers == {p \in (SUBSET positions) \X (SUBSET positions) : p[1] \union p[2] = positions}
      starred == W!star(ws, Weight(ws, e[2], <<>>))
  IN  CASE type(e) = "zero" -> W!zero(ws)
        [] type(e) = "one"  -> IF w = <<>> THEN W!one(ws) ELSE W!zero(ws)
        [] type(e) = "atom" -> IF w = <<e[2]>> THEN W!one(ws) ELSE W!zero(ws)
        [] type(e) = "add"  -> SumOf(ws, DOMAIN e[2], LAMBDA i : Weight(ws, e[2][i], w))
        [] type(e) = "mul"  ->
             SumOf(ws, 0 .. Len(w), LAMBDA i : both(Prefix(w, i), Suffix(w, i)))
        [] type(e) = "conjunction" -> both(w, w)
        [] type(e) = "shuffle" ->
             SumOf(ws, SUBSET positions, LAMBDA S : both(Subword(w, S), Subword(w, positions \ S)))
        [] type(e) = "infiltrate" ->
             SumOf(ws, covers, LAMBDA p : both(Subword(w, p[1]), Subword(w, p[2])))
        [] type(e) = "star" ->
             IF w = <<>> THEN starred
             ELSE SumOf(ws, 1 .. Len(w), LAMBDA i :
                    W!mul(ws, W!mul(ws, starred, Weight(ws, e[2], Prefix(w, i))),
                              Weight(ws, e, Suffix(w, i))))
        [] type(e) = "power" -> Weight(ws, Powers(e[3], e[2][1], e[2][2]), w)
        [] type(e) = "transposition" -> Weight(ws, e[2], Reverse(w))
        [] type(e) = "complement" ->
             IF Weight(ws, e[2], w) = W!zero(ws) THEN W!one(ws) ELSE W!zero(ws)
        [] IsWeighted(e) -> W!mul(ws, e[2], Weight(ws, e[3], w))

\* Every star has a starrable constant term, and every constant term a weight.
RECURSIVE IsValid(_, _)
IsValid(ws, e) ==
  /\ \A i \in DOMAIN Subs(e) : IsValid(ws, Subs(e)[i])
  /\ type(e) = "star" \/ (type(e) = "power" /\ e[2][2] = -1) =>
       W!starrable(ws, Weight(ws, e[Len(e)], <<>>))

SameSeries(ws, e, f, n) == \A w \in WordsUpTo(n) : Weight(ws, e, w) = Weight(ws, f, w)
=============================================================================
