------------------------------ MODULE Subsets ------------------------------
(***************************************************************************)
(* What determinized_automaton adds to its result when it completes a      *)
(* state.  The name of a state is a polynomial: a function from states of  *)
(* the operand to non-zero weights.  With Boolean weights it is a set.     *)
(***************************************************************************)
EXTENDS Integers, FiniteSets, Sequences, SequencesExt

CONSTANTS
  pre, post,               \* of the operand
  special,                 \* the label of initial and final arcs
  map(_),                  \* the arcs that leave a state of the operand
  weight(_),               \* of an arc
  ws,                      \* the weightset
  zero, one, Plus(_, _), Times(_, _),
  Quotient(_, _)           \* ldivide(l, r) of the weightset, when it is exact

Single(s) == [q \in {s} |-> one]
Smallest(S) == CHOOSE x \in S : \A y \in S : x <= y

Magnitude(n) == IF n < 0 THEN -n ELSE n
gcd[m \in Nat, n \in Nat] == IF n = 0 THEN m ELSE gcd[n, m % n]

\* Mutant: the polynomial stays as it is.
MutNorm(p) == one

\* What a non-null polynomial is divided by: its first weight, or for z the
\* greatest common divisor of its weights, with the sign of the first one.
norm(p) ==
  LET first == p[Smallest(DOMAIN p)]
      divisor == FoldSet(LAMBDA s, d : gcd[d, Magnitude(p[s])], Magnitude(first), DOMAIN p)
  IN  IF ws = "z" THEN (IF first < 0 THEN -divisor ELSE divisor) ELSE first

\* For each label, the weighted sum of the destinations.
Destination(p, l) ==
  LET read == {t \in UNION {map(s) : s \in DOMAIN p} : t.label = l /\ t.dst # post}
      sum(d) ==
        FoldSet(LAMBDA t, w : Plus(w, Times(p[t.src], weight(t))), zero,
                {t \in read : t.dst = d})
      reached == {d \in {t.dst : t \in read} : sum(d) # zero}
  IN  [d \in reached |-> sum(d)]

\* scalar_product(ss, finals_).
FinalWeight(p) ==
  FoldSet(LAMBDA t, w : Plus(w, Times(p[t.src], weight(t))), zero,
          {t \in UNION {map(s) : s \in DOMAIN p} : t.dst = post})

\* complete_.  No arc leads to the null polynomial; the norm of a destination
\* goes on the arc.
add_transitions(p) ==
  LET labels == {t.label : t \in UNION {map(s) : s \in DOMAIN p}}
      follow(l) ==
        LET d == Destination(p, l)
            n == norm(d)
        IN  IF d = <<>> THEN {}
            ELSE {[kind |-> "new", label |-> l, weight |-> n,
                   dst |-> [s \in DOMAIN d |-> Quotient(n, d[s])]]}
  IN  <<UNION {follow(l) : l \in labels},
        IF FinalWeight(p) = zero THEN {}
        ELSE {[kind |-> "set", label |-> special, weight |-> FinalWeight(p),
               dst |-> Single(post)]}>>
=============================================================================
