------------------------------ MODULE Products ------------------------------
(***************************************************************************)
(* What product_automaton and compose_automaton add to their result when   *)
(* they complete a state.  The name of a state is a sequence: a state of   *)
(* each operand, the tapes.  The additions come in phases, one for each    *)
(* loop of the code, whose own order follows the operands' lists of arcs.  *)
(***************************************************************************)
EXTENDS Integers, FiniteSets, Sequences, SequencesExt

CONSTANTS
  op,               \* the construction
  pre, post,        \* of the operands, and of the result
  special, one_,    \* the label of initial and final arcs, and the empty word
  map(_, _),        \* map(i, s): the transition map of state s of operand i
  all_in(_, _),     \* the arcs that enter it, as far as they are known
  weight(_, _),     \* of an arc of an operand
  Tapes,            \* 1 .. the number of operands
  zero, one, Plus(_, _), Times(_, _)

Everywhere(s) == [i \in Tapes |-> s]

\* One addition to the result; kind tells the function of the automaton that
\* the code calls: new_transition, add_transition or set_transition.
Edit(kind, l, dst, w) == [kind |-> kind, label |-> l, dst |-> dst, weight |-> w]

\* Composition shows the second tape of its first operand and the first tape
\* of the other (focus), and hides the rest.
Visible(i, t) == IF op # "compose" THEN t.label ELSE t.label[3 - i]
Hidden(i, t)  == t.label[i]
IsOne(i, t)   == Visible(i, t) = one_
Ones(i, s)    == {t \in map(i, s) : IsOne(i, t)}

\* zip_map_tuple: the tuples of arcs that agree on their label.
Zipped(n) ==
  LET more(tuples, i) ==
        {Append(ts, t) : ts \in tuples, t \in map(i, n[i])}
      all == FoldLeft(more, {<<>>}, [i \in Tapes |-> i])
  IN  {ts \in all : \A i \in Tapes : Visible(i, ts[i]) = Visible(1, ts[1])}

Product(ts) == FoldLeft(LAMBDA w, i : Times(w, weight(i, ts[i])), one, [i \in Tapes |-> i])
Dst(ts)     == [i \in Tapes |-> ts[i].dst]

\* The operand is insplit: the first arc that enters a state tells for all.
is_proper_in(i, n) ==
  all_in(i, n[i]) = {} \/ \E t \in all_in(i, n[i]) : ~ IsOne(i, t)

has_proper_out(i, n) == \E t \in map(i, n[i]) : ~ IsOne(i, t)

\* Mutant: the tapes may advance on their own in any order.
MutAdvanceAlone(i, n) == \A j \in Tapes : j < i => has_proper_out(j, n)

\* When tape i may take a spontaneous arc: in the order of tapes only, so that
\* a path has one image.
AdvancesAlone(i, n) ==
  /\ \A j \in Tapes : j > i => is_proper_in(j, n)
  /\ \A j \in Tapes : j < i => has_proper_out(j, n)

add_one_transitions(i, n) ==
  {Edit("new", one_, [n EXCEPT ![i] = t.dst], weight(i, t)) :
     t \in IF AdvancesAlone(i, n) THEN Ones(i, n[i]) ELSE {}}

add_conjunction_transitions(n) ==
  <<{Edit("new", Visible(1, ts[1]), Dst(ts), Product(ts)) :
       ts \in {us \in Zipped(n) : ~ IsOne(1, us[1])}}>>
  \o [i \in Tapes |-> add_one_transitions(i, n)]

\* The weight with which the state is final; zero if a tape is not.
FinalWeight(n) ==
  LET final(i) ==
        LET ends == {t \in map(i, n[i]) : t.label = special}
        IN  IF ends = {} THEN zero ELSE weight(i, CHOOSE t \in ends : TRUE)
  IN  FoldLeft(LAMBDA w, i : Times(w, final(i)), one, [i \in Tapes |-> i])

\* Mutant: a loop is always a new arc.
MutAddShuffle(n, infiltrate) ==
  [i \in Tapes |->
     {Edit(IF infiltrate THEN "add" ELSE "new", t.label,
           [n EXCEPT ![i] = t.dst], weight(i, t)) :
        t \in {u \in map(i, n[i]) : u.label # special}}]
  \o <<{Edit("set", special, Everywhere(post), FinalWeight(n))}>>

\* Each tape moves in turn; a loop of several tapes adds up, and so do the
\* arcs of the conjunction (infiltrate).
add_shuffle_transitions(n, infiltrate) ==
  [i \in Tapes |->
     {Edit(IF infiltrate \/ n[i] = t.dst THEN "add" ELSE "new", t.label,
           [n EXCEPT ![i] = t.dst], weight(i, t)) :
        t \in {u \in map(i, n[i]) : u.label # special}}]
  \o <<{Edit("set", special, Everywhere(post), FinalWeight(n))}>>

\* Once the first operand accepted, the other goes on alone; until then what
\* both read disappears.
add_ldivide_transitions(n) ==
  LET ends == {t \in map(1, n[1]) : t.label = special /\ t.src # pre}
      left == IF ends = {} THEN one ELSE weight(1, CHOOSE t \in ends : TRUE)
      read == {ts \in Zipped(n) :
                 ~ IsOne(1, ts[1]) /\ (ts[1].label = special => n = Everywhere(pre))}
      label(ts) == IF ts[1].label = special THEN special ELSE one_
  IN  <<{Edit("new", u.label, <<post, u.dst>>, Times(left, weight(2, u))) :
           u \in IF ends # {} \/ n[1] = post THEN map(2, n[2]) ELSE {}}>>
      \* Additions that are alike, from other arcs, are not one.
      \o <<{[of |-> ts] @@ Edit("add", label(ts), Dst(ts), Product(ts)) : ts \in read}>>

\* A tape that cannot follow the other one falls into post.
add_add_transitions(n) ==
  LET common == {ts[1].label : ts \in Zipped(n)}
      alone(i) == {t \in map(i, n[i]) : t.label \notin common}
  IN  <<{Edit("add", ts[1].label, Dst(ts), one) : ts \in Zipped(n)},
        {Edit("new", t.label, <<t.dst, post>>, one) : t \in alone(1)},
        {Edit("new", t.label, <<post, t.dst>>, one) : t \in alone(2)}>>

\* Labels of the result are pairs of hidden labels.
Joined(n, i, t) ==
  Edit("new", IF i = 1 THEN <<Hidden(1, t), one_>> ELSE <<one_, Hidden(2, t)>>,
       [n EXCEPT ![i] = t.dst], weight(i, t))

\* The arcs of the pairs that agree are summed by destination and label before
\* they are added; spontaneous arcs were added before.
add_compose_transitions(n) ==
  LET read == {ts \in Zipped(n) : ~ IsOne(1, ts[1])}
      label(ts) == <<Hidden(1, ts[1]), Hidden(2, ts[2])>>
      alike(ts) == {us \in read : Dst(us) = Dst(ts) /\ label(us) = label(ts)}
      sum(S) == FoldSet(LAMBDA us, w : Plus(w, Product(us)), zero, S)
  IN  [i \in Tapes |-> {Joined(n, i, t) : t \in IF AdvancesAlone(i, n) THEN Ones(i, n[i]) ELSE {}}]
      \o <<{Edit("new", label(ts), Dst(ts), sum(alike(ts))) : ts \in read}>>
=============================================================================
