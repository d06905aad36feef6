---------------------------- MODULE DerivedTerms ----------------------------
(***************************************************************************)
(* What follows the first letter of the words of an expression, in two     *)
(* ways: by an expansion, a constant and a polynomial of expressions for   *)
(* each letter, and by the derivation by one letter.  A polynomial is a    *)
(* function from expressions other than Zero to non-zero weights.  And the *)
(* steps of derived_term, which builds an automaton whose states are       *)
(* expressions from a stack of states whose arcs are to be found: d.names, *)
(* the expressions, the n-th of which names the state n + 1; d.todo, the   *)
(* stack; d.res, the automaton; d.parallel, the arcs added when there was  *)
(* already one, which new_transition does not allow.  algo is a record of  *)
(* the members of derived_term_algo.                                       *)
(***************************************************************************)
EXTENDS Expressions
LOCAL INSTANCE SequencesExt
LOCAL INSTANCE FiniteSetsExt
LOCAL INSTANCE TLC

\* Monomials <<index, label, weight>> are added up: equal labels add their
\* weights, and go when these cancel.  There is no label Zero.
Collect(ws, M) ==
  LET total(l) == FoldSet(LAMBDA m, k : W!add(ws, m[3], k), W!zero(ws), {m \in M : m[2] = l})
      kept == {l \in {m[2] : m \in M} \ {Zero} : total(l) # W!zero(ws)}
  IN  [l \in kept |-> total(l)]

Polynomial(ws, monomials) == With(monomials, LAMBDA M : Collect(ws, M))

\* Operations of a polynomialset whose labels are expressions.
add_here(rs, p, q) ==
  With(<<p, q>>, LAMBDA v :
    Collect(rs.ws, UNION {{<<i, l, v[i][l]>> : l \in DOMAIN v[i]} : i \in {1, 2}}))
Mapped(rs, p, label(_), weight(_)) ==
  With(p, LAMBDA v : Collect(rs.ws, {<<l, label(l), weight(v[l])>> : l \in DOMAIN v}))
Scaled(rs, k, p)      == Mapped(rs, p, LAMBDA l : l, LAMBDA h : W!mul(rs.ws, k, h))
rmul_label(rs, p, f)  == Mapped(rs, p, LAMBDA l : mul(rs, l, f), LAMBDA h : h)
RightScaled(rs, p, k) ==
  IF k = W!zero(rs.ws) THEN <<>>
  ELSE Mapped(rs, p, LAMBDA l : rweight(rs, l, k), LAMBDA h : h)
Product(rs, op, p, q) ==
  Polynomial(rs.ws, {<<m, Combine(rs, op, m[1], m[2]), W!mul(rs.ws, p[m[1]], q[m[2]])>> :
                       m \in (DOMAIN p) \X (DOMAIN q)})

\* The monomials in the order of their labels.
RECURSIVE InOrder(_, _)
InOrder(ws, S) ==
  IF S = {} THEN <<>>
  ELSE LET least == CHOOSE l \in S : \A m \in S \ {l} : less(ws, l, m)
       IN  <<least>> \o InOrder(ws, S \ {least})

to_label(rs, p) ==
  FoldLeft(LAMBDA e, l : add(rs, e, lweight(rs, p[l], l)), Zero, InOrder(rs.ws, DOMAIN p))

norm(ws, p) ==
  LET first == p[InOrder(ws, DOMAIN p)[1]]
      gcd == FoldLeft(LAMBDA n, l : W!gcd[<<n, W!Magnitude(p[l])>>], 0, InOrder(ws, DOMAIN p))
  IN  CASE p = <<>>  -> W!zero(ws)
        [] p # <<>> /\ ws = "z" -> IF first < 0 THEN -gcd ELSE gcd
        [] p # <<>> /\ ws # "z" -> first

normalize(rs, p) == [l \in DOMAIN p |-> W!ldivide(rs.ws, norm(rs.ws, p), p[l])]

\* A polynomial as one monomial.
determinize(rs, p) == to_label(rs, normalize(rs, p)) :> norm(rs.ws, p)

ComplementOf(rs, p) == complement(rs, to_label(rs, normalize(rs, p))) :> W!one(rs.ws)

-----------------------------------------------------------------------------
(* The constant term, and splitting an expression into a polynomial.       *)

RECURSIVE constant_term(_, _)
constant_term(ws, e) ==
  LET product(es) ==
        FoldLeft(LAMBDA k, c : W!mul(ws, k, constant_term(ws, c)), W!one(ws), es)
      sum(es) == FoldLeft(LAMBDA k, c : W!add(ws, k, constant_term(ws, c)), W!zero(ws), es)
  IN  CASE type(e) \in {"zero", "atom"} -> W!zero(ws)
        [] type(e) = "one"  -> W!one(ws)
        [] type(e) = "add"  -> sum(e[2])
        [] type(e) \in {"mul", "conjunction", "shuffle", "infiltrate"} -> product(e[2])
        [] type(e) = "star" -> W!star(ws, constant_term(ws, e[2]))
        [] type(e) = "transposition" -> constant_term(ws, e[2])
        [] IsWeighted(e)    -> W!mul(ws, e[2], constant_term(ws, e[3]))
        [] type(e) = "complement" ->
             IF constant_term(ws, e[2]) = W!zero(ws) THEN W!one(ws) ELSE W!zero(ws)

RECURSIVE split(_, _)
SplitProduct(rs, l, r) ==
  With(split(rs, l), LAMBDA p :
    LET proper == [m \in DOMAIN p \ {One} |-> p[m]]
        left == rmul_label(rs, proper, r)
    IN  IF One \in DOMAIN p THEN add_here(rs, left, Scaled(rs, p[One], split(rs, r)))
        ELSE left)
split(rs, e) ==
  LET sum(es, by(_)) == FoldLeft(LAMBDA p, x : add_here(rs, p, by(x)), <<>>, es)
      times(p, r) ==
        With(p, LAMBDA q :
          sum(InOrder(rs.ws, DOMAIN q), LAMBDA m : Scaled(rs, q[m], SplitProduct(rs, m, r))))
  IN  CASE type(e) = "zero" -> <<>>
        [] type(e) = "add"  -> sum(e[2], LAMBDA c : split(rs, c))
        [] type(e) = "mul"  ->
             FoldLeft(times, SplitProduct(rs, e[2][1], e[2][2]), Tail(Tail(e[2])))
        [] type(e) = "lweight" -> Scaled(rs, e[2], split(rs, e[3]))
        [] type(e) = "rweight" -> RightScaled(rs, split(rs, e[3]), e[2])
        [] OTHER -> e :> W!one(rs.ws)

split_polynomial(rs, p) ==
  FoldLeft(LAMBDA q, m : add_here(rs, q, Scaled(rs, p[m], split(rs, m))),
           <<>>, InOrder(rs.ws, DOMAIN p))

\* What is left of a product: it takes no identity again.
prod(es) == IF es = <<>> THEN One ELSE IF Len(es) = 1 THEN es[1] ELSE <<"mul", es>>

-----------------------------------------------------------------------------
(* DerivedTerms.                                                             *)

\* A function of the letters.
ByLetter(p(_)) == FoldLeft(LAMBDA f, l : f @@ (l :> p(l)), <<>>, Alphabet)

Expansion(k, p(_)) == [constant |-> k, polynomials |-> ByLetter(p)]
Constant(k) == Expansion(k, LAMBDA l : <<>>)

XSum(rs, x, y) ==
  Expansion(W!add(rs.ws, x.constant, y.constant),
            LAMBDA l : add_here(rs, x.polynomials[l], y.polynomials[l]))
XLweight(rs, k, x) ==
  Expansion(W!mul(rs.ws, k, x.constant), LAMBDA l : Scaled(rs, k, x.polynomials[l]))
XRweight(rs, x, k) ==
  Expansion(W!mul(rs.ws, x.constant, k), LAMBDA l : RightScaled(rs, x.polynomials[l], k))
XConjunction(rs, op, x, y) ==
  Expansion(W!mul(rs.ws, x.constant, y.constant),
            LAMBDA l : Product(rs, op, x.polynomials[l], y.polynomials[l]))

\* Both e and f go on with what the other one has not read.
XInterleave(rs, op, base, x, e, y, f) ==
  Expansion(base.constant, LAMBDA l :
    LET p == x.polynomials[l]
        q == y.polynomials[l]
    IN  add_here(rs, base.polynomials[l],
          Polynomial(rs.ws,
            {<<<<1, m>>, Combine(rs, op, m, f), p[m]>> : m \in DOMAIN p}
            \union {<<<<2, m>>, Combine(rs, op, e, m), q[m]>> : m \in DOMAIN q})))

XComplement(rs, x) ==
  Expansion(IF x.constant = W!zero(rs.ws) THEN W!one(rs.ws) ELSE W!zero(rs.ws),
            LAMBDA l : ComplementOf(rs, x.polynomials[l]))

-----------------------------------------------------------------------------
(* The expansion of an expression, or of its transpose when t.             *)

\* Mutant: the constant term of the factors before is forgotten.
MutFactor(rs, x, y, rest) ==
  Expansion(W!mul(rs.ws, x.constant, y.constant), LAMBDA l :
    add_here(rs, x.polynomials[l],
      IF rest = <<>> THEN y.polynomials[l] ELSE rmul_label(rs, y.polynomials[l], rest[1])))

\* The next factor, then the rest of the product.
Factor(rs, x, y, rest) ==
  Expansion(W!mul(rs.ws, x.constant, y.constant), LAMBDA l :
    add_here(rs, x.polynomials[l],
      Scaled(rs, x.constant,
        IF rest = <<>> THEN y.polynomials[l]
        ELSE rmul_label(rs, y.polynomials[l], rest[1]))))

RECURSIVE to_expansion(_, _, _)
RECURSIVE FactorsFrom(_, _, _, _, _)
\* The factors of es after i, the last one first when t, until the constant is null.
FactorsFrom(rs, es, t, i, x) ==
  LET n == Len(es)
      rest == IF i = n THEN <<>>
              ELSE IF t THEN <<transposition(rs, prod(SubSeq(es, 1, n - i)))>>
              ELSE <<prod(SubSeq(es, i + 1, n))>>
      y == to_expansion(rs, es[IF t THEN n + 1 - i ELSE i], t)
  IN  IF i > n \/ x.constant = W!zero(rs.ws) THEN x
      ELSE With(<<x, y>>, LAMBDA p :
             FactorsFrom(rs, es, t, i + 1, Factor(rs, p[1], p[2], rest)))

\* The operands before the next one stand as one expression.
Interleaved(rs, op, es, t) ==
  LET turned(e) == IF t THEN transposition(rs, e) ELSE e
      next(p, e) ==
        With(<<p, to_expansion(rs, e, t)>>, LAMBDA v :
          LET x == v[1].x
              y == v[2]
              base == IF op = "shuffle" THEN Constant(W!mul(rs.ws, x.constant, y.constant))
                      ELSE XConjunction(rs, op, x, y)
          IN  [x |-> XInterleave(rs, op, base, x, turned(v[1].prev), y, turned(e)),
               prev |-> Combine(rs, op, v[1].prev, e)])
  IN  FoldLeft(next, [x |-> to_expansion(rs, es[1], t), prev |-> es[1]], Tail(es)).x

to_expansion(rs, e, t) ==
  LET ws == rs.ws
      turned == IF t THEN transposition(rs, e) ELSE e
      all(es, op(_, _)) ==
        FoldLeft(LAMBDA x, c : With(<<x, to_expansion(rs, c, t)>>, LAMBDA p : op(p[1], p[2])),
                 to_expansion(rs, es[1], t), Tail(es))
  IN  CASE type(e) = "zero" -> Constant(W!zero(ws))
        [] type(e) = "one"  -> Constant(W!one(ws))
        [] type(e) = "atom" ->
             Expansion(W!zero(ws), LAMBDA l : IF l = e[2] THEN One :> W!one(ws) ELSE <<>>)
        [] type(e) = "add"  -> all(e[2], LAMBDA x, y : XSum(rs, x, y))
        [] type(e) = "mul"  -> FactorsFrom(rs, e[2], t, 1, Constant(W!one(ws)))
        [] type(e) = "conjunction" ->
             all(e[2], LAMBDA x, y : XConjunction(rs, "conjunction", x, y))
        [] type(e) \in {"shuffle", "infiltrate"} -> Interleaved(rs, type(e), e[2], t)
        [] type(e) = "complement"    -> With(to_expansion(rs, e[2], t), LAMBDA x : XComplement(rs, x))
        [] type(e) = "transposition" -> to_expansion(rs, e[2], ~t)
        [] type(e) = "star" ->
             With(to_expansion(rs, e[2], t), LAMBDA x :
               LET k == W!star(ws, x.constant)
               IN  Expansion(k, LAMBDA l : Scaled(rs, k, rmul_label(rs, x.polynomials[l], turned))))
        [] IsWeighted(e) ->
             With(to_expansion(rs, e[3], t), LAMBDA x :
               IF (type(e) = "lweight") # t THEN XLweight(rs, e[2], x) ELSE XRweight(rs, x, e[2]))

-----------------------------------------------------------------------------
(* The derivation by the letter a.                                         *)

\* What to_expansion reads and derivation does not.
CanDerive(e) == type(e) \notin {"infiltrate", "transposition"}

RECURSIVE derivation(_, _, _)
RECURSIVE DeriveFactors(_, _, _, _)
DeriveFactors(rs, es, k, a) ==
  IF es = <<>> \/ k = W!zero(rs.ws) THEN <<>>
  ELSE add_here(rs, Scaled(rs, k, rmul_label(rs, derivation(rs, es[1], a), prod(Tail(es)))),
                    DeriveFactors(rs, Tail(es), W!mul(rs.ws, k, constant_term(rs.ws, es[1])), a))

derivation(rs, e, a) ==
  LET ws == rs.ws
      sum(es) == FoldLeft(LAMBDA p, c : add_here(rs, p, derivation(rs, c, a)), <<>>, es)
      reads(i) ==
        With(derivation(rs, e[2][i], a), LAMBDA p :
          Polynomial(ws, {<<m, <<"shuffle", [e[2] EXCEPT ![i] = m]>>, p[m]>> : m \in DOMAIN p}))
  IN  CASE type(e) \in {"zero", "one"} -> <<>>
        [] type(e) = "atom" -> IF e[2] = a THEN One :> W!one(ws) ELSE <<>>
        [] type(e) = "add"  -> sum(e[2])
        [] type(e) = "mul"  -> DeriveFactors(rs, e[2], W!one(ws), a)
        [] type(e) = "conjunction" ->
             FoldLeft(LAMBDA p, c : With(<<p, derivation(rs, c, a)>>, LAMBDA v :
                        Product(rs, "conjunction", v[1], v[2])),
                      derivation(rs, e[2][1], a), Tail(e[2]))
        [] type(e) = "shuffle" ->
             FoldLeft(LAMBDA p, i : add_here(rs, p, reads(i)), <<>>, [i \in DOMAIN e[2] |-> i])
        [] type(e) = "complement" -> With(derivation(rs, e[2], a), LAMBDA p : ComplementOf(rs, p))
        [] type(e) = "star" ->
             Scaled(rs, W!star(ws, constant_term(ws, e[2])),
                    rmul_label(rs, derivation(rs, e[2], a), e))
        [] type(e) = "lweight" -> Scaled(rs, e[2], derivation(rs, e[3], a))
        [] type(e) = "rweight" -> RightScaled(rs, derivation(rs, e[3], a), e[2])

-----------------------------------------------------------------------------
(* Derived terms.                                                          *)

Algos == [algo : {"derivation", "expansion"}, breaking : BOOLEAN, determinize : BOOLEAN]

NoTerms == [names |-> <<>>, todo |-> <<>>, res |-> <<>>, parallel |-> {}]

\* The state for the expression e, which is scheduled if it is new.
state(d, e)  == 1 + Rank(d.names, e)
Known(d)     == {d.names[i] : i \in DOMAIN d.names}
\* Mutant: a name is never found.
MutVisit(d, e) == [d EXCEPT !.names = Append(@, e), !.todo = Append(@, Len(d.names) + 2)]
Visit(d, e)  ==
  IF e \in Known(d) THEN d
  ELSE [d EXCEPT !.names = Append(@, e), !.todo = Append(@, Len(d.names) + 2)]

Arc(s, l, t) == [src |-> s, label |-> l, dst |-> t]

\* A null weight leaves no arc; two parallel arcs weigh what their sum does.
new_transition(ws, d, a, w) ==
  IF a \in DOMAIN d.res
  THEN [d EXCEPT !.parallel = @ \union {a}, !.res[a] = W!add(ws, @, w)]
  ELSE IF w = W!zero(ws) THEN d
  ELSE [d EXCEPT !.res = (a :> w) @@ @]

set_initial(ws, d, e, w) ==
  With(Visit(d, e), LAMBDA v : new_transition(ws, v, Arc(0, "$", state(v, e)), w))

\* A monomial <<l, e, w>> of the state s.
AddMonomial(ws, d, s, m) ==
  With(Visit(d, m[2]), LAMBDA v : new_transition(ws, v, Arc(s, m[1], state(v, m[2])), m[3]))

-----------------------------------------------------------------------------
\* The monomials of p, in order.
Monomials(ws, l, p) ==
  LET labels == InOrder(ws, DOMAIN p)
  IN  [i \in DOMAIN labels |-> <<l, labels[i], p[labels[i]]>>]

InitialTerms(rs, algo, e) ==
  IF algo.breaking
  THEN With(split(rs, e), LAMBDA p :
         FoldLeft(LAMBDA d, m : set_initial(rs.ws, d, m, p[m]), NoTerms, InOrder(rs.ws, DOMAIN p)))
  ELSE set_initial(rs.ws, NoTerms, e, W!one(rs.ws))

\* Each derived term is split by itself: they may have some in common.
Broken(rs, l, p) ==
  LET parts(m) == With(Scaled(rs, m[3], split(rs, m[2])), LAMBDA q : Monomials(rs.ws, l, q))
  IN  FoldLeft(LAMBDA ms, m : ms \o parts(m), <<>>, Monomials(rs.ws, l, p))

\* Mutant: derivations are split as expansions are.
MutByDerivation(rs, algo, e, l) ==
  With(derivation(rs, e, l), LAMBDA p :
    IF algo.breaking THEN Broken(rs, l, p)
    ELSE Monomials(rs.ws, l, IF algo.determinize THEN determinize(rs, p) ELSE p))

ByDerivation(rs, algo, e, l) ==
  With(derivation(rs, e, l), LAMBDA p :
    Monomials(rs.ws, l, IF algo.breaking THEN split_polynomial(rs, p)
                        ELSE IF algo.determinize THEN determinize(rs, p) ELSE p))

ByExpansion(rs, algo, x, l) ==
  With(x.polynomials[l], LAMBDA p :
    IF p = <<>> THEN <<>>
    ELSE IF algo.breaking THEN Broken(rs, l, p)
    ELSE Monomials(rs.ws, l, IF algo.determinize THEN determinize(rs, determinize(rs, p)) ELSE p))

\* The weight of the state e, and the monomials of its arcs, letter by letter.
Derived(rs, algo, e) ==
  LET all(by(_)) == FoldLeft(LAMBDA ms, l : ms \o by(l), <<>>, Alphabet)
  IN  IF algo.algo = "derivation"
      THEN [constant |-> constant_term(rs.ws, e),
            monomials |-> all(LAMBDA l : ByDerivation(rs, algo, e, l))]
      ELSE With(to_expansion(rs, e, FALSE), LAMBDA x :
             [constant |-> x.constant, monomials |-> all(LAMBDA l : ByExpansion(rs, algo, x, l))])

\* complete_: the last state of the stack gets its arcs.
Complete(rs, algo, d) ==
  LET s == d.todo[Len(d.todo)]
  IN  With(Derived(rs, algo, d.names[s - 1]), LAMBDA x :
        FoldLeft(LAMBDA v, m : AddMonomial(rs.ws, v, s, m),
                 new_transition(rs.ws, [d EXCEPT !.todo = Front(@)], Arc(s, "$", 1), x.constant),
                 x.monomials))
=============================================================================
