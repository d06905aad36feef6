-------------------------- MODULE MinimizeHopcroft --------------------------
(***************************************************************************)
(* Hopcroft's algorithm: a class of the worklist splits, letter by letter, *)
(* the classes with states that lead to it and states that do not.         *)
(* The worklist is a set of bitsets, which are compared as integers.       *)
(***************************************************************************)
EXTENDS WeightedAutomata

CONSTANTS
  Automata            \* the inputs

VARIABLES
  aut,                \* a
  p,                  \* the partition
  w,                  \* the classes that may split others
  sub_w,              \* the one at work
  generators          \* the labels it has still to try

vars == <<aut, p, w, sub_w, generators>>

done == w = {} /\ generators = {}

\* There is no condition on the input: any automaton is taken.
Init ==
  /\ aut \in Automata
  /\ p = {{post}, States(aut) \ {post}}
  /\ w = {{post}}
  /\ sub_w = {}
  /\ generators = {}

Before(S, T) == S # T /\ Max(SymDiff(S, T)) \in T

Pop ==
  /\ generators = {}
  /\ \E S \in w :
       /\ \A T \in w \ {S} : Before(S, T)
       /\ sub_w' = S
       /\ w' = w \ {S}
  /\ generators' = Label
  /\ UNCHANGED <<aut, p>>

\* The states with an arc to sub_w, and those of y without.
Sources(l) == {a.src : a \in {b \in Arcs(aut) : b.label = l /\ b.dst \in sub_w}}
Halves(y, x) == {y \intersect x, y \ x}
Smaller(y, x) ==
  IF Cardinality(y \intersect x) <= Cardinality(y \ x)
  THEN y \intersect x ELSE y \ x

\* Mutant: a class that waited in the worklist stays there when it is split.
MutSplitKeeps(l) ==
  LET x == Sources(l)
      cut == {y \in p : {} \notin Halves(y, x)}
  IN  /\ l \in generators
      /\ l = Special => generators = {Special}
      /\ generators' = generators \ {l}
      /\ p' = (p \ cut) \union UNION {Halves(y, x) : y \in cut}
      /\ w' = w \union {Smaller(y, x) : y \in cut \ w}
                \union UNION {Halves(y, x) : y \in cut \intersect w}
      /\ UNCHANGED <<aut, sub_w>>

\* A class that waited in the worklist is replaced by its halves, for any
\* other class the smaller half is enough.
Split(l) ==
  LET x == Sources(l)
      cut == {y \in p : {} \notin Halves(y, x)}
  IN  /\ l \in generators
      /\ l = Special => generators = {Special}
      /\ generators' = generators \ {l}
      /\ p' = (p \ cut) \union UNION {Halves(y, x) : y \in cut}
      /\ w' = (w \ cut) \union {Smaller(y, x) : y \in cut \ w}
                \union UNION {Halves(y, x) : y \in cut \intersect w}
      /\ UNCHANGED <<aut, sub_w>>

Next == Pop \/ \E l \in Label : Split(l)

\* The worklist only holds classes, and the class at work, which may be split
\* meanwhile, is still a union of classes.
TypeOK ==
  /\ IsPartition(p, States(aut))
  /\ w \subseteq p
  /\ sub_w = UNION {C \in p : C \subseteq sub_w}
  /\ generators \subseteq Label
=============================================================================
