--------------------------- MODULE MinimizeMoore ---------------------------
(***************************************************************************)
(* Moore's algorithm.  Classes are numbered; each pass visits all of them, *)
(* those created by the pass included, and splits a class with the first   *)
(* letter that leads its states to different classes.                      *)
(***************************************************************************)
EXTENDS WeightedAutomata

CONSTANTS
  Automata            \* the inputs

VARIABLES
  aut,                \* a_
  class_to_set,       \* class_to_set_, from 1 on
  c,                  \* the class to visit
  go_on

vars == <<aut, class_to_set, c, go_on>>

classes == Range(class_to_set)
num_classes == Len(class_to_set)
done == c > num_classes /\ ~go_on

class_invalid == 0

\* The number of the class s goes to with l.
OutClass(s, l) ==
  LET dsts == {a.dst : a \in {b \in Out(aut, s) : b.label = l}}
  IN  IF dsts = {} THEN class_invalid
      ELSE CHOOSE k \in 1 .. num_classes : dsts \subseteq class_to_set[k]

Inner(a) == States(a) \ {pre, post}

\* Only states make a class.
Class(C) == IF C = {} THEN <<>> ELSE <<C>>

Init ==
  /\ aut \in {a \in Automata : IsDeterministic(a) /\ IsTrim(a)}
  /\ class_to_set =
       <<{pre}, {post}>> \o Class(Inner(aut) \ Finals(aut)) \o Class(Finals(aut))
  /\ c = 1
  /\ go_on = FALSE

Parts(l) == Cluster(class_to_set[c], LAMBDA s : OutClass(s, l))

\* The first part takes the number of the class, the others new numbers.
Split(l) ==
  /\ c <= num_classes
  /\ Cardinality(Parts(l)) >= 2
  /\ \E parts \in SetToSeqs(Parts(l)) :
       class_to_set' = ReplaceAt(class_to_set, c, Head(parts)) \o Tail(parts)
  /\ c' = c + 1
  /\ go_on' = TRUE
  /\ UNCHANGED aut

Skip ==
  /\ c <= num_classes
  /\ \A l \in Letter : Cardinality(Parts(l)) < 2
  /\ c' = c + 1
  /\ UNCHANGED <<aut, class_to_set, go_on>>

NextPass ==
  /\ c > num_classes
  /\ go_on
  /\ c' = 1
  /\ go_on' = FALSE
  /\ UNCHANGED <<aut, class_to_set>>

Next == (\E l \in Letter : Split(l)) \/ Skip \/ NextPass

\* Every state is in one class, and classes are numbered without a hole.
TypeOK ==
  /\ IsPartition(classes, States(aut))
  /\ Cardinality(classes) = num_classes
  /\ c \in 1 .. num_classes + 1
  /\ go_on \in BOOLEAN
=============================================================================
