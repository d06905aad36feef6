--------------------------- MODULE Constructions ---------------------------
(***************************************************************************)
(* How expressions become automata.  First the visitors, then operations   *)
(* on automata as wholes.                                                  *)
(*                                                                         *)
(* The visitors that build an automaton while they traverse an expression: *)
(* standard, thompson, and zpc, regular or compact.  A visitor is a record *)
(* of its members: res, the automaton, a function from arcs to non-zero    *)
(* weights; next, the next state; initial and final, the ends of what was  *)
(* built last; factor, the final_weight_ of zpc.  A frame is the visit of  *)
(* a node: exp; k, the children visited; initial and final, the ends of    *)
(* what these built, last and constant, which zpc alone needs; others, the *)
(* final states when the visit started; mine, when the last child started. *)
(* States are numbered when they are needed.                               *)
(*                                                                         *)
(* Operations on automata as wholes: sums, products, stars, powers and     *)
(* weights, each for general, standard or deterministic automata, and the  *)
(* other operations of an automatonset.  An automaton is a record: res, a  *)
(* function from arcs to non-zero weights; free, whether its labelset has  *)
(* no empty word; replaced, whether an arc was set that had a weight which *)
(* should have been added to.  A state that no arc touches is left out.    *)
(***************************************************************************)
EXTENDS Naturals, Sequences, FiniteSets
LOCAL INSTANCE TLC
LOCAL INSTANCE FiniteSetsExt
LOCAL INSTANCE SequencesExt

CONSTANT ws, algo        \* the weightset and the visitor

INSTANCE Expressions

Arc(s, l, d)  == [src |-> s, label |-> l, dst |-> d]
FinalArc(s)   == Arc(s, "$", 1)
Out(v, s)     == {a \in DOMAIN v.res : a.src = s}
weight_of(v, a) == IF a \in DOMAIN v.res THEN v.res[a] ELSE W!zero(ws)
finals(v)     == {a.src : a \in {b \in DOMAIN v.res : b.dst = 1}}

-----------------------------------------------------------------------------
(* Edits of the automaton.                                                 *)

\* Null weights leave no arc.
SetArc(v, a, w) ==
  LET others == [b \in DOMAIN v.res \ {a} |-> v.res[b]]
  IN  [v EXCEPT !.res = IF w = W!zero(ws) THEN others ELSE (a :> w) @@ others]
AddArc(v, a, w) == SetArc(v, a, W!add(ws, weight_of(v, a), w))
Unset(v, arcs)  == [v EXCEPT !.res = [b \in DOMAIN v.res \ arcs |-> v.res[b]]]
Scale(v, arcs, w) ==
  [v EXCEPT !.res = [b \in DOMAIN v.res |->
                       IF b \in arcs THEN W!mul(ws, v.res[b], w) ELSE v.res[b]]]
del_state(v, s) == Unset(v, {a \in DOMAIN v.res : s \in {a.src, a.dst}})

\* put(v, x) for each x of S, in any order.
ForAll(v, S, put(_, _)) == FoldSet(LAMBDA x, u : With(u, LAMBDA t : put(t, x)), v, S)

\* A visitor and its frame, after a step.
Visited(v, f) == [visitor |-> v, frame |-> f]

Linked(v, s, d, w) == AddArc(v, Arc(s, "", d), w)
Between(v, i, f)   == [v EXCEPT !.initial = i, !.final = f]
Born(v, n)         == [v EXCEPT !.next = @ + n]

-----------------------------------------------------------------------------
(* standard: initial has no incoming arc; the other finals are final.      *)

StandardLeaf(v, e) ==
  LET i == v.next
      f == i + 1
      u == [Born(v, IF type(e) = "atom" THEN 2 ELSE 1) EXCEPT !.initial = i]
  IN  CASE type(e) = "zero" -> u
        [] type(e) = "one"  -> SetArc(u, FinalArc(i), W!one(ws))
        [] type(e) = "atom" ->
             SetArc(SetArc(u, Arc(i, e[2], f), W!one(ws)), FinalArc(f), W!one(ws))

\* What leaves the initial state of the child leaves that of the first one.
StandardAdd(v, f) ==
  del_state(ForAll(v, Out(v, v.initial),
                   LAMBDA u, a : AddArc(u, [a EXCEPT !.src = f.initial], v.res[a])),
            v.initial)

\* Mutant: the states that were final before the product go on too.
MutStandardMul(v, f) ==
  LET go(u, s) ==
        ForAll(Unset(u, {FinalArc(s)}), Out(v, v.initial), LAMBDA t, a :
          SetArc(t, [a EXCEPT !.src = s], W!mul(ws, u.res[FinalArc(s)], v.res[a])))
  IN  del_state(ForAll(v, f.mine \intersect finals(v), go), v.initial)

\* What leaves the initial state of the child leaves the final states of the
\* children before, which are no longer final by themselves.
StandardMul(v, f) ==
  LET go(u, s) ==
        ForAll(Unset(u, {FinalArc(s)}), Out(v, v.initial), LAMBDA t, a :
          SetArc(t, [a EXCEPT !.src = s], W!mul(ws, u.res[FinalArc(s)], v.res[a])))
  IN  del_state(ForAll(v, f.mine \ f.others, go), v.initial)

\* The final arcs are all weighted, those of others too.
StandardStar(v, f) ==
  LET i == v.initial
      w == W!star(ws, weight_of(v, FinalArc(i)))
      leaving == {a \in Out(v, i) : a.dst # 1}
      ends == finals(v) \ (f.others \union {i})
      loop(x) == [x[2] EXCEPT !.src = x[1]]
      u == Scale(v, leaving, w)
      looped == ForAll(u, ends \X leaving, LAMBDA t, x :
                  AddArc(t, loop(x), W!mul(ws, u.res[FinalArc(x[1])], u.res[x[2]])))
  IN  SetArc(Scale(looped, {FinalArc(s) : s \in finals(v)}, w), FinalArc(i), w)

StandardMerge(v, f) ==
  LET u == CASE f.k = 1 -> v
             [] f.k > 1 /\ type(f.exp) = "add" -> StandardAdd(v, f)
             [] f.k > 1 /\ type(f.exp) = "mul" -> StandardMul(v, f)
  IN  Visited(u, [f EXCEPT !.initial = IF f.k = 1 THEN v.initial ELSE @, !.mine = finals(u)])

StandardLeave(v, f) ==
  CASE type(f.exp) \in {"add", "mul"} -> [v EXCEPT !.initial = f.initial]
    [] type(f.exp) = "star"    -> StandardStar(v, f)
    [] type(f.exp) = "lweight" -> Scale(v, Out(v, v.initial), f.exp[2])
    [] type(f.exp) = "rweight" ->
         Scale(v, {FinalArc(s) : s \in finals(v) \ f.others}, f.exp[2])

-----------------------------------------------------------------------------
(* thompson: from initial to final, nothing enters one or leaves the other. *)

ThompsonLeaf(v, e) ==
  LET u == Between(Born(v, 2), v.next, v.next + 1)
  IN  CASE type(e) = "zero" -> u
        [] type(e) = "one"  -> Linked(u, u.initial, u.final, W!one(ws))
        [] type(e) = "atom" -> SetArc(u, Arc(u.initial, e[2], u.final), W!one(ws))

ThompsonMerge(v, f) ==
  IF type(f.exp) = "add"
  THEN Visited(Linked(Linked(v, f.initial, v.initial, W!one(ws)), v.final, f.final, W!one(ws)), f)
  ELSE Visited(IF f.k = 1 THEN v ELSE Linked(v, f.final, v.initial, W!one(ws)),
               [f EXCEPT !.initial = IF f.k = 1 THEN v.initial ELSE @, !.final = v.final])

\* Mutant: what is starred keeps its ends.
MutThompsonStar(v) ==
  Linked(Linked(v, v.final, v.initial, W!one(ws)), v.initial, v.final, W!one(ws))

ThompsonStar(v) ==
  LET i == v.next
      o == v.next + 1
      links == {<<i, v.initial>>, <<v.final, o>>, <<v.final, v.initial>>, <<i, o>>}
  IN  Between(Born(ForAll(v, links, LAMBDA u, x : Linked(u, x[1], x[2], W!one(ws))), 2), i, o)

ThompsonLeave(v, f) ==
  CASE type(f.exp) \in {"add", "mul"} -> Between(v, f.initial, f.final)
    [] type(f.exp) = "star"    -> ThompsonStar(v)
    [] type(f.exp) = "lweight" -> Scale(v, Out(v, v.initial), f.exp[2])
    [] type(f.exp) = "rweight" -> Scale(v, {a \in DOMAIN v.res : a.dst = v.final}, f.exp[2])

-----------------------------------------------------------------------------
(* zpc: the constant term is the final weight of initial, which final does *)
(* not have; compact, the states of the children serve again.              *)

constant(v, s) == weight_of(v, FinalArc(s))

ZpcLeaf(v, e) ==
  LET u == Between(Born(v, 2), v.next, v.next + 1)
  IN  CASE type(e) = "zero" -> u
        [] type(e) = "one"  -> SetArc(u, FinalArc(u.initial), W!one(ws))
        [] type(e) = "atom" -> SetArc(u, Arc(u.initial, e[2], u.final), W!one(ws))

\* A child of a sum: its constant term is added to those before.
ZpcAdd(v, f) ==
  LET u == Unset(v, {FinalArc(v.initial)})
      g == [f EXCEPT !.constant = W!add(ws, @, constant(v, v.initial))]
      linked(i, d, s, o) == Linked(Linked(u, i, d, W!one(ws)), s, o, W!one(ws))
  IN  IF algo = "zpc" THEN Visited(linked(f.initial, v.initial, v.final, f.final), g)
      ELSE IF f.k = 1
        THEN Visited(u, [g EXCEPT !.initial = v.initial, !.last = v.initial, !.final = v.final])
      ELSE Visited(linked(f.last, v.initial, f.final, v.final),
                   [g EXCEPT !.last = v.initial, !.final = v.final])

\* The product, from i to o, of what was built before and of the child.
ZpcMul(v, f, i, o) ==
  LET e == constant(v, f.initial)
      g == constant(v, v.initial)
      links == {<<i, v.initial, e>>, <<f.final, o, g>>, <<f.final, v.initial, W!one(ws)>>}
      u == ForAll(Unset(v, {FinalArc(f.initial), FinalArc(v.initial)}), links,
                  LAMBDA t, x : Linked(t, x[1], x[2], x[3]))
  IN  SetArc(u, FinalArc(i), W!mul(ws, e, g))

ZpcMerge(v, f) ==
  LET i == v.next
      o == v.next + 1
      apart == Linked(Linked(Born(v, 2), i, f.initial, W!one(ws)), v.final, o, W!one(ws))
  IN  CASE type(f.exp) = "add" -> ZpcAdd(v, f)
        [] type(f.exp) # "add" /\ f.k = 1 ->
             Visited(v, [f EXCEPT !.initial = v.initial, !.final = v.final])
        [] type(f.exp) = "mul" /\ f.k > 1 /\ algo = "zpc" ->
             Visited(ZpcMul(apart, f, i, o), [f EXCEPT !.initial = i, !.final = o])
        [] type(f.exp) = "mul" /\ f.k > 1 /\ algo # "zpc" ->
             Visited(ZpcMul(v, f, f.initial, v.final), [f EXCEPT !.final = v.final])

ZpcStar(v) ==
  LET i == v.next
      o == v.next + 1
      k == W!star(ws, constant(v, v.initial))
      links == {<<i, v.initial>>, <<v.final, o>>, <<v.final, v.initial>>}
      u == ForAll(Unset(v, {FinalArc(v.initial)}), links, LAMBDA t, x : Linked(t, x[1], x[2], k))
  IN  Between(Born(SetArc(u, FinalArc(i), k), 2), i, o)

\* rweight only remembers the weight, for all the final arcs of the result.
ZpcLeave(v, f) ==
  CASE type(f.exp) = "add" ->
         Between(SetArc(v, FinalArc(f.initial), f.constant), f.initial, f.final)
    [] type(f.exp) = "mul"     -> Between(v, f.initial, f.final)
    [] type(f.exp) = "star"    -> ZpcStar(v)
    [] type(f.exp) = "lweight" -> Scale(v, Out(v, v.initial), f.exp[2])
    [] type(f.exp) = "rweight" -> [v EXCEPT !.factor = W!mul(ws, f.exp[2], @)]

-----------------------------------------------------------------------------
(* One visitor.                                                            *)

Visitor ==
  [res |-> <<>>, next |-> 2, initial |-> 0, final |-> 1, factor |-> W!one(ws)]

\* A visit starts: thompson and zpc put a sum between two states of its own.
Begin(v, e) ==
  LET frame == [exp |-> e, k |-> 0, initial |-> v.next, final |-> v.next + 1,
                last |-> v.next, constant |-> W!zero(ws), others |-> finals(v), mine |-> {}]
  IN  Visited(IF type(e) = "add" THEN Born(v, 2) ELSE v, frame)

Leaf(v, e) ==
  CASE algo = "standard" -> StandardLeaf(v, e)
    [] algo = "thompson" -> ThompsonLeaf(v, e)
    [] algo \in {"zpc", "compact"} -> ZpcLeaf(v, e)
Merge(v, f) ==
  CASE algo = "standard" -> StandardMerge(v, f)
    [] algo = "thompson" -> ThompsonMerge(v, f)
    [] algo \in {"zpc", "compact"} -> ZpcMerge(v, f)
Leave(v, f) ==
  CASE algo = "standard" -> StandardLeave(v, f)
    [] algo = "thompson" -> ThompsonLeave(v, f)
    [] algo \in {"zpc", "compact"} -> ZpcLeave(v, f)

\* The automaton that is returned.
Result(v) ==
  LET u == SetArc(v, Arc(0, "$", v.initial), W!one(ws))
      ended == IF algo = "standard" THEN u ELSE SetArc(u, FinalArc(v.final), W!one(ws))
  IN  Scale(ended, {FinalArc(s) : s \in finals(ended)}, v.factor).res

-----------------------------------------------------------------------------
(* Operations on automata as wholes.                                       *)

one_   == W!one(ws)
Automaton(arcs) == [res |-> arcs, free |-> TRUE, replaced |-> FALSE]

Initials(v)   == Out(v, 0)
IntoFinal(v)  == {a \in DOMAIN v.res : a.dst = 1}
InnerIn(v, s) == {a \in DOMAIN v.res : a.dst = s /\ a.src # 0}
StatesIn(v)   == UNION {{a.src, a.dst} : a \in DOMAIN v.res} \ {0, 1}
Fresh(v)      == Max(StatesIn(v) \union {1}) + 1
\* The initial state of a standard automaton.
Start(v)      == (CHOOSE a \in Initials(v) : TRUE).dst
Initial(s)    == Arc(0, "$", s)

is_standard(v) ==
  /\ Cardinality(Initials(v)) = 1
  /\ \A a \in Initials(v) : v.res[a] = one_ /\ InnerIn(v, a.dst) = {}

is_deterministic(v) ==
  /\ Cardinality(Initials(v)) <= 1
  /\ \A a, b \in DOMAIN v.res : a.src = b.src /\ a.label = b.label => a = b

-----------------------------------------------------------------------------
(* Copies.                                                                 *)

\* The automaton whose arcs are the image of those of v by a one to one map.
Mapped(v, to_(_)) ==
  LET image == [a \in DOMAIN v.res |-> to_(a)]
  IN  [v EXCEPT !.res = [b \in {image[a] : a \in DOMAIN image} |->
                           v.res[CHOOSE a \in DOMAIN image : image[a] = b]]]
\* v, with other states than u.
Apart(u, v) ==
  LET shift(s) == IF s \in {0, 1} THEN s ELSE s + Fresh(u) - 2
  IN  Mapped(v, LAMBDA a : Arc(shift(a.src), a.label, shift(a.dst)))
\* u, and arcs of v which are not in u; the labelset is the join of theirs.
Including(u, v, arcs) ==
  [res |-> [a \in arcs |-> v.res[a]] @@ u.res,
   free |-> u.free /\ v.free, replaced |-> u.replaced \/ v.replaced]

transpose(v) ==
  LET swap(s) == IF s \in {0, 1} THEN 1 - s ELSE s
  IN  Mapped(v, LAMBDA a : Arc(swap(a.dst), a.label, swap(a.src)))

\* Where the initial states lead, the new one leads; those that nothing enters go.
standard_here(v) ==
  LET ini == Fresh(v)
      through(u, i) ==
        With(ForAll(u, Out(u, i.dst), LAMBDA t, a :
               AddArc(t, [a EXCEPT !.src = ini], W!mul(ws, v.res[i], u.res[a]))),
             LAMBDA t : With(Unset(t, {i}), LAMBDA r :
               IF \E a \in DOMAIN r.res : a.dst = i.dst THEN r ELSE del_state(r, i.dst)))
  IN  SetArc(ForAll(v, Initials(v), through), Initial(ini), one_)

standard(v) == IF is_standard(v) THEN v ELSE standard_here(v)

-----------------------------------------------------------------------------
(* Constructions on the fly, completed at once: the states are those that  *)
(* are reached from start, and phases(n) is what completes the state n.    *)

Reached(start, next(_)) ==
  LET RECURSIVE from(_, _)
      from(seen, new) ==
        IF new = {} THEN seen
        ELSE With(UNION {next(n) : n \in new} \ seen, LAMBDA S : from(seen \union S, S))
  IN  from({start}, {start})

Completed(start, end, phases(_)) ==
  LET \* The edits, each with its phase: two phases may add the same.
      edits(n) == With(phases(n), LAMBDA s : UNION {{i} \X s[i] : i \in DOMAIN s})
      known == Reached(start, LAMBDA n : {e[2].dst : e \in edits(n)}) \ {start, end}
      build(names) ==
        LET number(n) == IF n = start THEN 0 ELSE IF n = end THEN 1 ELSE Rank(names, n) + 1
            made(n) == {<<Arc(number(n), e[2].label, number(e[2].dst)), e>> : e \in edits(n)}
            weight(M, a) ==
              LET E == {m[2] : m \in {x \in M : x[1] = a}}
                  set == {e \in E : e[2].kind = "set"}
              IN  IF set # {} THEN (CHOOSE e \in set : TRUE)[2].weight
                  ELSE FoldSet(LAMBDA e, w : W!add(ws, e[2].weight, w), W!zero(ws), E)
            arcs(M) == [a \in {m[1] : m \in M} |-> weight(M, a)]
        IN  With(UNION {made(n) : n \in known \union {start, end}}, arcs)
      kept(f) == [a \in {x \in DOMAIN f : f[x] # W!zero(ws)} |-> f[a]]
  IN  With(With(FoldSet(LAMBDA n, s : Append(s, n), <<>>, known), build), kept)

D(v) == INSTANCE Subsets WITH
  pre <- 0, post <- 1, special <- "$",
  map <- LAMBDA s : Out(v, s), weight <- LAMBDA t : v.res[t],
  zero <- W!zero(ws), one <- one_,
  Plus <- LAMBDA l, r : W!add(ws, l, r), Times <- LAMBDA l, r : W!mul(ws, l, r),
  Quotient <- LAMBDA l, r : W!ldivide(ws, l, r)

determinize(v) ==
  [v EXCEPT !.res = Completed(D(v)!Single(0), D(v)!Single(1),
                                LAMBDA p : D(v)!add_transitions(p))]

P(opn, u, v) == INSTANCE Products WITH
  op <- opn, pre <- 0, post <- 1, special <- "$", one_ <- "",
  map <- LAMBDA i, s : Out(<<u, v>>[i], s),
  all_in <- LAMBDA i, s : {a \in DOMAIN <<u, v>>[i].res : a.dst = s},
  weight <- LAMBDA i, t : <<u, v>>[i].res[t], Tapes <- {1, 2},
  zero <- W!zero(ws), one <- W!one(ws),
  Plus <- LAMBDA l, r : W!add(ws, l, r), Times <- LAMBDA l, r : W!mul(ws, l, r)

\* What product_automaton adds for the pair n of states.
ProductPhases(opn, u, v, n) ==
  CASE opn = "add" -> P(opn, u, v)!add_add_transitions(n)
    [] opn = "conjunction" \/ n = <<0, 0>> -> P(opn, u, v)!add_conjunction_transitions(n)
    [] opn = "shuffle" /\ n # <<0, 0>> -> P(opn, u, v)!add_shuffle_transitions(n, FALSE)
    [] opn = "infiltrate" /\ n # <<0, 0>> ->
         P(opn, u, v)!add_conjunction_transitions(n)
         \o P(opn, u, v)!add_shuffle_transitions(n, TRUE)

ProductOf(opn, u, v) ==
  [res |-> Completed(<<0, 0>>, <<1, 1>>, LAMBDA n : ProductPhases(opn, u, v, n)),
   free |-> u.free /\ v.free, replaced |-> u.replaced \/ v.replaced]

-----------------------------------------------------------------------------
(* The automatonset.                                                       *)

zero == Automaton(Initial(2) :> one_)
one  == Automaton((Initial(2) :> one_) @@ (FinalArc(2) :> one_))
atom(l) ==
  Automaton((Initial(2) :> one_) @@ (Arc(2, l, 3) :> one_) @@ (FinalArc(3) :> one_))

\* The states from which post can be reached.
coaccessible(v) ==
  LET into(s) == {a.src : a \in {b \in DOMAIN v.res : b.dst = s}}
      S == Reached(1, into)
  IN  Unset(v, {a \in DOMAIN v.res : ~({a.src, a.dst} \subseteq S)})

OrZero(v) == IF v.res = <<>> THEN zero ELSE v

\* A sink is made for the letters that are missing.
complete(v) ==
  LET sink == Fresh(v)
      lacks(s) == {l \in Letters : \A a \in Out(v, s) : a.label # l}
      lost == UNION {{Arc(s, l, sink) : l \in lacks(s)} : s \in StatesIn(v)}
      loops == IF lost = {} THEN {} ELSE {Arc(sink, l, sink) : l \in Letters}
  IN  ForAll(v, lost \union loops, LAMBDA u, a : SetArc(u, a, one_))

Complemented(v) ==
  LET flipped(u) ==
        ForAll(Unset(u, IntoFinal(u)), {FinalArc(s) : s \in StatesIn(u) \ finals(u)},
               LAMBDA t, a : SetArc(t, a, one_))
  IN  With(With(With(determinize(v), complete), flipped), LAMBDA u : OrZero(coaccessible(u)))

-----------------------------------------------------------------------------
(* The operations that depend on the nature of automata.                   *)

\* dispatch_tags.
dispatch_tags(algo_, auts) ==
  IF algo_ # "auto" THEN algo_
  ELSE IF \A v \in auts : is_standard(v) THEN "standard"
  ELSE IF \A v \in auts : v.free /\ is_deterministic(v) THEN "deterministic"
  ELSE "general"

\* What the operation requires.  The general sum of other automata would be
\* determinized; but for Boolean weights that may never end.
Requires(op, tag, auts) ==
  /\ tag = "standard" /\ op # "mul" => \A v \in auts : is_standard(v)
  /\ tag = "deterministic" =>
       /\ ws = "b"
       /\ \A v \in auts : v.free /\ (op \in {"add", "power"} => is_deterministic(v))
  /\ op \in {"lweight", "rweight"} => tag # "deterministic"

\* The tags with which the operation may be asked for; "auto" stands for one of the
\* others: for a product it is always "standard".
Chosen(op, tags, auts) ==
  LET tag(t) ==
        CASE op = "mul" /\ t = "auto" -> "standard"
          [] op \in {"lweight", "rweight"} /\ t = "auto" ->
               IF \A v \in auts : is_standard(v) THEN "standard" ELSE "general"
          [] OTHER -> dispatch_tags(t, auts)
  IN  {t \in {tag(s) : s \in tags} : Requires(op, t, auts)}

AddStandard(u, v) ==
  LET i == Start(u)
      r == Apart(u, v)
      from(a) == IF a.src = Start(r) THEN [a EXCEPT !.src = i] ELSE a
  IN  ForAll(Including(u, r, {}), DOMAIN r.res \ Initials(r), LAMBDA t, a : AddArc(t, from(a), r.res[a]))

Add(tag, u, v) ==
  CASE tag = "general"       -> With(Apart(u, v), LAMBDA r : Including(u, r, DOMAIN r.res))
    [] tag = "standard"      -> AddStandard(u, v)
    [] tag = "deterministic" -> ProductOf("add", u, v)

\* u then v, but for the arcs between them: the arcs of v, less some.
Appended(u, r, out) ==
  Including(Unset(u, IntoFinal(u)), r, DOMAIN r.res \ (Initials(r) \union out))

MulGeneral(u, v) ==
  LET r == Apart(u, v)
      weigh(x) == W!mul(ws, u.res[x[1]], r.res[x[2]])
  IN  [ForAll(Appended(u, r, {}), IntoFinal(u) \X Initials(r), LAMBDA t, x :
         SetArc(t, Arc(x[1].src, "", x[2].dst), weigh(x)))
       EXCEPT !.free = FALSE]

\* From the final states of u, to where the initial ones of v lead.  Arcs are set:
\* two initial states that lead to one by the same label leave the weight of one.
MulStandard(u, v) ==
  LET r == Apart(u, v)
      old == UNION {Out(r, i.dst) : i \in {x \in Initials(r) : InnerIn(r, x.dst) = {}}}
      follow == {<<f, i, a>> \in IntoFinal(u) \X Initials(r) \X DOMAIN r.res : a.src = i.dst}
      weigh(x) == W!mul(ws, u.res[x[1]], W!mul(ws, r.res[x[2]], r.res[x[3]]))
      put(t, x) ==
        With([x[3] EXCEPT !.src = x[1].src], LAMBDA a :
          [SetArc(t, a, weigh(x)) EXCEPT !.replaced = @ \/ a \in DOMAIN t.res])
  IN  ForAll(Appended(u, r, old), follow, put)

Mul(tag, u, v) ==
  CASE tag = "general"       -> MulGeneral(u, v)
    [] tag = "standard"      -> MulStandard(u, v)
    [] tag = "deterministic" -> determinize(MulStandard(u, v))

\* A new state, initial and final, leads to the initial states; the final ones
\* come back to it.
StarGeneral(v) ==
  LET s == Fresh(v)
      arcs == Initials(v) \union IntoFinal(v)
      to_(a) == IF a.src = 0 THEN Arc(s, "", a.dst) ELSE Arc(a.src, "", s)
      u == ForAll(Unset(v, arcs), arcs, LAMBDA t, a : AddArc(t, to_(a), v.res[a]))
  IN  [SetArc(SetArc(u, Initial(s), one_), FinalArc(s), one_) EXCEPT !.free = FALSE]

\* As StandardStar, but no other final arc is at hand.
StarOfStandard(v) ==
  [v EXCEPT !.res = StandardStar([res |-> v.res, initial |-> Start(v)], [others |-> {}]).res]

Star(tag, v) ==
  CASE tag = "general"       -> StarGeneral(v)
    [] tag = "standard"      -> StarOfStandard(v)
    [] tag = "deterministic" -> determinize(StarOfStandard(standard(v)))

\* v{min,max}, by products and sums of one kind.
Power(tag, v, min, max) ==
  LET times(n) == FoldLeft(LAMBDA u, i : With(u, LAMBDA t : Mul(tag, t, v)), v, [i \in 1 .. n - 1 |-> i])
      plus(u, n) == With(<<u, times(n)>>, LAMBDA p : Add(tag, p[1], p[2]))
      start == [one EXCEPT !.free = v.free /\ tag # "general"]
      res == IF min = 0 THEN start ELSE times(min)
  IN  IF max = -1 THEN IF min = 0 THEN Star(tag, v) ELSE Mul(tag, times(min), Star(tag, v))
      ELSE IF min = max THEN res
      ELSE Mul(tag, res, FoldLeft(plus, start, [n \in 1 .. max - min |-> n]))

LWeight(tag, k, v) ==
  IF k = W!zero(ws) THEN [(IF tag = "standard" THEN zero ELSE Automaton(<<>>)) EXCEPT !.free = v.free]
  ELSE Scale(v, IF tag = "standard" THEN Out(v, Start(v)) ELSE Initials(v), k)

RWeight(tag, v, k) ==
  IF k = W!zero(ws) THEN LWeight(tag, k, v) ELSE Scale(v, IntoFinal(v), k)

-----------------------------------------------------------------------------
(* A visit of an expression: the frame keeps what the children before      *)
(* built, and the operations may be asked for with any of the tags.        *)

Operand(e) ==
  CASE type(e) = "zero" -> zero
    [] type(e) = "one"  -> one
    [] type(e) = "atom" -> atom(e[2])

\* l op r, and op v, for each tag that is possible.
Joined(op, l, r, tags) ==
  LET chosen == Chosen(op, tags, {l, r})
  IN  CASE op = "add" -> {Add(t, l, r) : t \in chosen}
        [] op = "mul" -> {Mul(t, l, r) : t \in chosen}
        [] op = "conjunction" -> {OrZero(coaccessible(ProductOf(op, l, r)))}
        [] op \in {"shuffle", "infiltrate"} -> {ProductOf(op, l, r)}

Applied(e, v, tags) ==
  LET chosen == Chosen(type(e), tags, {v})
  IN  CASE type(e) = "star"       -> {Star(t, v) : t \in chosen}
        [] type(e) = "power"      -> {Power(t, v, e[2][1], e[2][2]) : t \in chosen}
        [] type(e) = "lweight"    -> {LWeight(t, e[2], v) : t \in chosen}
        [] type(e) = "rweight"    -> {RWeight(t, v, e[2]) : t \in chosen}
        [] type(e) = "complement" -> {Complemented(v)}
        [] type(e) = "transposition" ->
             {IF tags = {"standard"} THEN standard(transpose(v)) ELSE transpose(v)}
=============================================================================
