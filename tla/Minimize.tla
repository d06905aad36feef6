------------------------------ MODULE Minimize ------------------------------
(***************************************************************************)
(* minimize(aut, algo): the promise of CoarsestPartition, kept by the      *)
(* algorithm that the caller chose, then the quotient.  The variables of   *)
(* the other ones stay idle.                                               *)
(***************************************************************************)
EXTENDS WeightedAutomata

CONSTANTS
  Algorithms,         \* what algo may be
  Inputs(_),          \* the automata each may be given
  MaxLength           \* of the words that are evaluated

Tag == {"moore", "signature", "weighted", "hopcroft"}

ASSUME AlgorithmsAssumption == Algorithms \subseteq Tag

\* All but the last are for Boolean automata.
ASSUME InputsAssumption ==
  \A tag \in Algorithms : \A a \in Inputs(tag) :
    IsAutomaton(a) /\ (tag # "weighted" => IsUnweighted(a))

VARIABLES
  algo, aut,
  go_on,                              \* of Moore and the signatures
  class_to_set, c,                    \* of Moore
  partition, candidates, todo,        \* of the signatures
  p, w, sub_w, generators             \* of Hopcroft

moore     == <<class_to_set, c>>
signature == <<partition, candidates, todo>>
hopcroft  == <<p, w, sub_w, generators>>
vars == <<algo, aut, go_on, moore, signature, hopcroft>>

M == INSTANCE MinimizeMoore WITH Automata <- Inputs("moore")
S == INSTANCE MinimizeSignature WITH Automata <- Inputs("signature")
W == INSTANCE MinimizeSignature WITH Automata <- Inputs("weighted")
H == INSTANCE MinimizeHopcroft WITH Automata <- Inputs("hopcroft")

NoMoore     == class_to_set = <<>> /\ c = 0
NoSignature == partition = {} /\ candidates = {} /\ todo = {}
NoHopcroft  == p = {} /\ w = {} /\ sub_w = {} /\ generators = {}

Init ==
  /\ algo \in Algorithms
  /\ \/ algo = "moore" /\ M!Init /\ NoSignature /\ NoHopcroft
     \/ algo = "signature" /\ S!Init /\ NoMoore /\ NoHopcroft
     \/ algo = "weighted" /\ W!Init /\ NoMoore /\ NoHopcroft
     \/ algo = "hopcroft" /\ H!Init /\ go_on = FALSE /\ NoMoore /\ NoSignature

Next ==
  \/ algo = "moore" /\ M!Next /\ UNCHANGED <<algo, signature, hopcroft>>
  \/ algo = "signature" /\ S!Next /\ UNCHANGED <<algo, moore, hopcroft>>
  \/ algo = "weighted" /\ W!Next /\ UNCHANGED <<algo, moore, hopcroft>>
  \/ algo = "hopcroft" /\ H!Next /\ UNCHANGED <<algo, go_on, moore, signature>>

Spec == Init /\ [][Next]_vars /\ WF_vars(Next)

-----------------------------------------------------------------------------
\* The classes so far, and whether they are the result.
classes ==
  CASE algo = "moore"    -> M!classes
    [] algo = "hopcroft" -> p
    [] OTHER             -> partition

done ==
  CASE algo = "moore"    -> M!done
    [] algo = "hopcroft" -> H!done
    [] OTHER             -> S!done

\* The classes are a partition at every step, and what each algorithm keeps
\* beside them agrees with it.
TypeOK ==
  CASE algo = "moore"    -> M!TypeOK
    [] algo = "hopcroft" -> H!TypeOK
    [] OTHER             -> S!TypeOK

\* Hopcroft's algorithm has no say about pre, which no letter leaves.
loose == IF algo = "hopcroft" THEN {pre} ELSE {}

Promise == INSTANCE CoarsestPartition

\* Whatever the algorithm and the order it works in, only classes that a
\* stable partition would split are split, and it ends with nothing to split.
Refinement == Promise!Spec

\* "the result is equivalent to the input automaton"
\* (doc/notebooks/automaton.minimize.ipynb): the quotient by the classes
\* gives every word the weight that the input gives.
Equivalent == done => SameSeries(aut, Quotient(aut, classes), MaxLength)

\* It does so for every algorithm but Hopcroft's, with weights that cancel
\* too.
EquivalentButHopcroft == algo # "hopcroft" => Equivalent
=============================================================================
