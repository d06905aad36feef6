------------------------- MODULE MinimizeSignature -------------------------
(***************************************************************************)
(* Minimization with signatures.  The Boolean variant and the weighted one *)
(* are the same loop with other weights: a class is split into its states  *)
(* of equal signature; classes of one state are no longer candidates.      *)
(*                                                                         *)
(* The loop over the candidates (an unordered_set) inserts into it, which  *)
(* may rehash it: what the rest of the iteration visits is then any part   *)
(* of the candidates.  A pass that splits is followed by another one.      *)
(***************************************************************************)
EXTENDS WeightedAutomata

CONSTANTS
  Automata            \* the inputs

VARIABLES
  aut,                \* a_
  partition,          \* class_to_set_: the classes, whatever their numbers
  candidates,         \* classes: the classes to split
  todo,               \* those the current pass has still to visit
  go_on

vars == <<aut, partition, candidates, todo, go_on>>

done == todo = {} /\ ~go_on

Init ==
  /\ aut \in {a \in Automata : IsTrim(a)}
  /\ partition = {States(aut)}
  /\ candidates = {States(aut)}
  /\ todo = {States(aut)}
  /\ go_on = FALSE

Parts(C) == Cluster(C, LAMBDA s : Signature(aut, partition, s))

\* Mutant: a split does not ask for another pass.
MutSplitOnce(C) ==
  LET parts == Parts(C)
  IN  /\ C \in todo
      /\ Cardinality(parts) >= 2
      /\ partition' = (partition \ {C}) \union parts
      /\ candidates' =
           (candidates \ {C}) \union {D \in parts : Cardinality(D) # 1}
      /\ todo' \in SUBSET candidates'
      /\ UNCHANGED <<aut, go_on>>

Split(C) ==
  LET parts == Parts(C)
  IN  /\ C \in todo
      /\ Cardinality(parts) >= 2
      /\ partition' = (partition \ {C}) \union parts
      /\ candidates' =
           (candidates \ {C}) \union {D \in parts : Cardinality(D) # 1}
      /\ todo' \in SUBSET candidates'
      /\ go_on' = TRUE
      /\ UNCHANGED aut

Skip(C) ==
  /\ C \in todo
  /\ Cardinality(Parts(C)) < 2
  /\ todo' = todo \ {C}
  /\ UNCHANGED <<aut, partition, candidates, go_on>>

NextPass ==
  /\ todo = {}
  /\ go_on
  /\ todo' = candidates
  /\ go_on' = FALSE
  /\ UNCHANGED <<aut, partition, candidates>>

Next == (\E C \in todo : Split(C) \/ Skip(C)) \/ NextPass

\* The candidates are classes, and so are those the pass has still to visit,
\* although the loop changes what it iterates on; the others cannot be split.
TypeOK ==
  /\ IsPartition(partition, States(aut))
  /\ todo \subseteq candidates
  /\ candidates \subseteq partition
  /\ \A C \in partition \ candidates : Cardinality(C) = 1
  /\ go_on \in BOOLEAN
=============================================================================
