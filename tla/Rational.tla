------------------------------ MODULE Rational ------------------------------
(***************************************************************************)
(* Rational expressions to automata, and back: an expression is copied     *)
(* into an expressionset, whose identities rebuild it; an automaton is     *)
(* made from it, by a visitor or from its derived terms; and the states of *)
(* that automaton are eliminated, in any order, until an expression is     *)
(* left.  The visitors' traversal is a stack of calls, one step per node   *)
(* that is entered, read, or left; derived terms are one step per state.   *)
(***************************************************************************)
EXTENDS DerivedTerms, FiniteSets
LOCAL INSTANCE TLC
LOCAL INSTANCE SequencesExt
LOCAL INSTANCE FiniteSetsExt

CONSTANTS
  ExpressionSets,
  Constructions,      \* of an automaton, as derived_term_algo
  Inputs(_, _),       \* the expressions that are copied to the one and given to the other
  MaxStates,          \* derived_term stops there
  MaxEliminated,      \* no automaton with more states is made an expression
  MaxLength           \* of the words whose weights are compared

VARIABLES
  problem,            \* what is asked: rs, algo, exp
  stage,              \* "copy", "visit", "terms", "built", "eliminate", or "expressed"
  exp,                \* the expression, in its expressionset
  calls,              \* the visits under way
  visitor,            \* the visitor
  terms,              \* the derived terms
  lifted              \* the automaton whose states are eliminated

vars == <<problem, stage, exp, calls, visitor, terms, lifted>>

rs == problem.rs
C == INSTANCE Constructions WITH ws <- problem.rs.ws, algo <- problem.algo.algo
A == INSTANCE SpontaneousAutomata WITH
  Letter <- Letters, Special <- "$", empty_word <- "",
  zero <- W!zero(problem.rs.ws), one <- W!one(problem.rs.ws),
  Plus <- LAMBDA l, r : W!add(problem.rs.ws, l, r),
  Times <- LAMBDA l, r : W!mul(problem.rs.ws, l, r),
  Starrable <- LAMBDA v : W!starrable(problem.rs.ws, v),
  Star <- LAMBDA v : W!star(problem.rs.ws, v)

\* Those that operate on one automaton for each subexpression, and the others.
OnWholes == {"inductive", "operators"}
Visitors == {"standard", "thompson", "zpc", "compact"} \union OnWholes
IsVisitor == problem.algo.algo \in Visitors
\* inductive operates on standard automata; users, on any.
Tags ==
  IF problem.algo.algo = "inductive" THEN {"standard"}
  ELSE {"auto", "general", "standard", "deterministic"}

Init ==
  /\ \E r \in ExpressionSets, c \in Constructions :
       \E e \in Inputs(r, c) : problem = [rs |-> r, algo |-> c, exp |-> e]
  /\ stage = "copy"
  /\ exp = problem.exp
  /\ calls = <<>>
  /\ visitor = <<>>
  /\ terms = NoTerms
  /\ lifted = <<>>

\* copy into the expressionset.
Copy ==
  /\ stage = "copy"
  /\ exp' = IF problem.algo.algo = "operators" THEN problem.exp ELSE copy(rs, problem.exp)
  /\ stage' = IF problem.algo.algo = "copy" THEN "expressed"
              ELSE IF IsVisitor THEN "visit" ELSE "terms"
  /\ UNCHANGED <<problem, calls, visitor, terms, lifted>>

-----------------------------------------------------------------------------
(* The visitors.                                                           *)

\* What becomes of the automaton of a child, and of that of a node.
Begin(v, e) ==
  IF problem.algo.algo \in OnWholes
  THEN C!Visited(v, [exp |-> e, k |-> 0, left |-> v])
  ELSE C!Begin(v, e)

Merges(v, f) ==
  IF problem.algo.algo \notin OnWholes THEN {C!Merge(v, f)}
  ELSE IF f.k = 1 THEN {C!Visited(v, [f EXCEPT !.left = v])}
  ELSE {C!Visited(u, [f EXCEPT !.left = u]) : u \in C!Joined(type(f.exp), f.left, v, Tags)}

Leaves(v, f) ==
  IF problem.algo.algo \notin OnWholes THEN {C!Leave(v, f)}
  ELSE IF IsVariadic(f.exp) THEN {v}
  ELSE C!Applied(f.exp, v, Tags)

\* A visit is done: the caller, if there is one, gets what was built.
Return(v, callers) ==
  IF callers = <<>>
  THEN /\ visitor' = IF problem.algo.algo \in OnWholes THEN v ELSE [v EXCEPT !.res = C!Result(v)]
       /\ calls' = <<>>
       /\ stage' = "built"
  ELSE LET caller == Last(callers)
       IN  \E r \in Merges(v, [caller EXCEPT !.k = @ + 1]) :
             /\ visitor' = r.visitor
             /\ calls' = Append(Front(callers), r.frame)
             /\ stage' = stage

Enter(e, v) ==
  /\ ~IsLeaf(e)
  /\ \E b \in {Begin(v, e)} : visitor' = b.visitor /\ calls' = Append(calls, b.frame)
  /\ stage' = stage

Read(e, v) ==
  /\ IsLeaf(e)
  /\ \E u \in {IF problem.algo.algo \in OnWholes THEN C!Operand(e) ELSE C!Leaf(v, e)} :
       Return(u, calls)

\* The expression itself, or the next child of the node that is visited.
Descend ==
  /\ stage = "visit"
  /\ IF calls = <<>> THEN Enter(exp, C!Visitor) \/ Read(exp, C!Visitor)
     ELSE LET f == Last(calls)
          IN  /\ f.k < Len(Subs(f.exp))
              /\ Enter(Subs(f.exp)[f.k + 1], visitor) \/ Read(Subs(f.exp)[f.k + 1], visitor)
  /\ UNCHANGED <<problem, exp, terms, lifted>>

Leave ==
  /\ stage = "visit"
  /\ calls # <<>>
  /\ LET f == Last(calls)
     IN  /\ f.k = Len(Subs(f.exp))
         /\ \E v \in Leaves(visitor, f) : Return(v, Front(calls))
  /\ UNCHANGED <<problem, exp, terms, lifted>>

-----------------------------------------------------------------------------
(* Derived terms.                                                          *)

Start ==
  /\ stage = "terms"
  /\ terms = NoTerms
  /\ terms' = InitialTerms(rs, problem.algo, exp)
  /\ stage' = IF terms'.todo = <<>> THEN "built" ELSE stage
  /\ UNCHANGED <<problem, exp, calls, visitor, lifted>>

Derive ==
  /\ stage = "terms"
  /\ terms.todo # <<>>
  /\ Len(terms.names) < MaxStates
  /\ terms' = Complete(rs, problem.algo, terms)
  /\ stage' = IF terms'.todo = <<>> THEN "built" ELSE stage
  /\ UNCHANGED <<problem, exp, calls, visitor, lifted>>

-----------------------------------------------------------------------------
(* State elimination: lift moves the labels to the weights, which become   *)
(* expressions.  A lifted automaton is a function from pairs of states to  *)
(* expressions.                                                            *)

\* The label of an initial or of a final arc, or of a spontaneous one, is one.
Lifted(a, w) == lweight(rs, w, IF a.label \in {"$", ""} THEN One ELSE Atom(a.label))

\* add_transition: the expression of an arc that exists is added to.
add_transition(l, p, e) ==
  With(IF p \in DOMAIN l THEN add(rs, l[p], e) ELSE e, LAMBDA s :
    IF s = Zero THEN [q \in DOMAIN l \ {p} |-> l[q]] ELSE (p :> s) @@ l)

lift(aut) ==
  FoldSet(LAMBDA a, l : With(l, LAMBDA v :
            add_transition(v, <<a.src, a.dst>>, Lifted(a, aut[a]))),
          <<>>, DOMAIN aut)

\* From in to out through s.
Through(l, s, in, out) ==
  LET loop == IF <<s, s>> \in DOMAIN l THEN star(rs, add(rs, Zero, l[<<s, s>>]))
              ELSE star(rs, Zero)
  IN  mul(rs, mul(rs, l[<<in, s>>], loop), l[<<s, out>>])

eliminate_state(l, s) ==
  LET ins  == {p[1] : p \in {q \in DOMAIN l : q[2] = s}} \ {s}
      outs == {p[2] : p \in {q \in DOMAIN l : q[1] = s}} \ {s}
      kept(v) == [p \in {q \in DOMAIN v : s \notin {q[1], q[2]}} |-> v[p]]
  IN  With(FoldSet(LAMBDA p, v : With(v, LAMBDA u :
             add_transition(u, p, Through(l, s, p[1], p[2]))), l, ins \X outs),
           kept)

\* What is left when every state is: the arc from pre to post.
Expressed(l) == IF <<0, 1>> \in DOMAIN l THEN l[<<0, 1>>] ELSE Zero

automaton == IF IsVisitor THEN visitor.res ELSE terms.res
StatesOf(arcs) == UNION {{a.src, a.dst} : a \in arcs} \ {0, 1}
Left == UNION {{p[1], p[2]} : p \in DOMAIN lifted} \ {0, 1}

Lift ==
  /\ stage = "built"
  /\ Cardinality(StatesOf(DOMAIN automaton)) <= MaxEliminated
  /\ lifted' = lift(automaton)
  /\ stage' = "eliminate"
  /\ UNCHANGED <<problem, exp, calls, visitor, terms>>

\* The heuristics choose the order: any one.
Eliminate(s) ==
  /\ stage = "eliminate"
  /\ s \in Left
  /\ lifted' = eliminate_state(lifted, s)
  /\ UNCHANGED <<problem, stage, exp, calls, visitor, terms>>

ToExpression ==
  /\ stage = "eliminate"
  /\ Left = {}
  /\ exp' = Expressed(lifted)
  /\ stage' = "expressed"
  /\ UNCHANGED <<problem, calls, visitor, terms, lifted>>

-----------------------------------------------------------------------------
Next ==
  \/ Copy \/ Descend \/ Leave \/ Start \/ Derive \/ Lift \/ ToExpression
  \/ \E s \in Left : Eliminate(s)

Spec == Init /\ [][Next]_vars

-----------------------------------------------------------------------------
(* Properties.                                                             *)

RECURSIVE Uses(_, _)
Uses(e, ops) == type(e) \in ops \/ \E i \in DOMAIN Subs(e) : Uses(Subs(e)[i], ops)

\* The standard product loses weights when its second operand is not standard.
LosesWeights == problem.algo.algo = "operators" /\ rs.ws # "b" /\ visitor # <<>> /\ visitor.replaced

\* Whatever the identities, the construction, and the order of elimination,
\* the automaton and the expressions have the series of the expression given,
\* but for the weights that the standard product is known to lose.
AsPromised ==
  /\ stage = "built" /\ ~LosesWeights =>
       LET series == A!Series(automaton, MaxLength)
       IN  /\ series.defined
           /\ \A w \in DOMAIN series.of : series.of[w] = Weight(rs.ws, problem.exp, w)
  /\ stage = "expressed" /\ ~LosesWeights =>
       /\ IsValid(rs.ws, exp)
       /\ SameSeries(rs.ws, problem.exp, exp, MaxLength)

\* What a visitor joins afterwards relies on it: no arc enters the initial state
\* of what was built for a node, and but for standard none leaves its final state;
\* what inductive operates on is standard, and so is what it returns.
EndsStayFree ==
  /\ stage = "visit" =>
       \A i \in DOMAIN calls : calls[i].k > 0 =>
         CASE problem.algo.algo = "inductive" -> C!is_standard(calls[i].left)
           [] problem.algo.algo = "operators" -> TRUE
           [] OTHER ->
                \A arc \in DOMAIN visitor.res :
                  /\ arc.dst # calls[i].initial
                  /\ problem.algo.algo = "standard" \/ arc.src # calls[i].final
  /\ stage = "built" /\ IsVisitor =>
       CASE problem.algo.algo = "inductive" -> C!is_standard(visitor)
         [] problem.algo.algo = "operators" -> TRUE
         [] OTHER -> \A arc \in DOMAIN automaton : arc.dst = visitor.initial => arc.src = 0

\* new_transition is called for new transitions only.  The expansions that break
\* do call it twice for the same one.
TransitionsAreNew ==
  \/ problem.algo.breaking /\ problem.algo.algo = "expansion"
  \/ terms.parallel = {}

\* Derivation and expansion find the same derived terms with the same weights,
\* where both are defined.  derivation builds shuffles that ignore the identities.
DerivationIsExpansion ==
  stage = "terms" /\ problem.algo = [algo |-> "expansion", breaking |-> FALSE, determinize |-> FALSE] =>
    \A e \in Known(terms) :
      Uses(e, {"shuffle", "infiltrate", "transposition"}) \/
      \A l \in Letters : derivation(rs, e, l) = to_expansion(rs, e, FALSE).polynomials[l]

RECURSIVE Atoms(_)
Atoms(e) ==
  IF type(e) = "atom" THEN 1
  ELSE FoldLeft(LAMBDA n, c : n + Atoms(c), 0, Subs(e))

\* The construction ends: sums, products, stars and weights have no more derived
\* terms than atoms, and the expression itself.
FewDerivedTerms ==
  \/ problem.algo.breaking
  \/ problem.algo.determinize
  \/ Uses(problem.exp, {"conjunction", "shuffle", "infiltrate", "complement", "transposition"})
  \/ Len(terms.names) <= Atoms(exp) + 1
=============================================================================
