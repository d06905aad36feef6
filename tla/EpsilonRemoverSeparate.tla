----------------------- MODULE EpsilonRemoverSeparate -----------------------
(***************************************************************************)
(* epsilon_remover_separate: spontaneous arcs are kept in an automaton of  *)
(* their own, so that the other one is the result, in its proper context.  *)
(* It implements EpsilonRemover: state after state, its two automata hold  *)
(* the arcs of the one that is edited in place.                            *)
(***************************************************************************)
EXTENDS Integers, FiniteSets, Functions

CONSTANTS
  Letter,        \* the generators of the labelset
  Automata(_)    \* the automata to search, in each weightset

VARIABLES
  ws,            \* the weightset of the automaton
  prune_,
  aut,           \* the input, then aut_proper_
  dirty,         \* aut_dirty_
  todo,          \* todo_ and handles_
  status         \* "ready", then "running", then "done" or "raised"

vars == <<ws, prune_, aut, dirty, todo, status>>

INSTANCE EpsilonElimination

\* update_profile_: each count is the sum of two.
ProfileOfParts(d, a, s) ==
  LET in_dirty   == Cardinality(In(d, s))
      in_proper  == Cardinality({x \in In(a, s) : x.label # "$"})
      out_dirty  == Cardinality(Out(d, s))
      out_proper == Cardinality(Out(a, s))
  IN  [in_sp |-> in_dirty, in_nsp |-> in_proper,
       out_sp |-> out_dirty, out_nsp |-> out_proper]

Init ==
  /\ ws \in W!Names
  /\ aut \in Automata(ws)
  /\ prune_ \in BOOLEAN
  /\ dirty = <<>>
  /\ todo = <<>>
  /\ status = "ready"

\* The constructor and build_heap_.
Build ==
  /\ status = "ready"
  /\ aut' = Part(aut, Arcs(aut) \ Spontaneous(aut))
  /\ dirty' = Part(aut, Spontaneous(aut))
  /\ todo' = [s \in {a.dst : a \in Arcs(dirty')} |-> ProfileOfParts(dirty', aut', s)]
  /\ status' = IF todo' = <<>> THEN "done" ELSE "running"
  /\ UNCHANGED <<ws, prune_>>

\* The neighbors are those of s in either automaton.
Free ==
  /\ status = "running"
  /\ LET s == Top(todo)
         parts == Separated(dirty, aut, s, prune_)
     IN  /\ CanFree(dirty, s)
         /\ dirty' = parts[1]
         /\ aut' = parts[2]
         /\ todo' = [n \in DOMAIN todo \ {s} |->
                       IF n \in Neighbors(dirty, s) \union Neighbors(aut, s)
                       THEN ProfileOfParts(dirty', aut', n)
                       ELSE todo[n]]
  /\ status' = IF todo' = <<>> THEN "done" ELSE "running"
  /\ UNCHANGED <<ws, prune_>>

Raise ==
  /\ status = "running"
  /\ LET s == Top(todo)
     IN  /\ ~ CanFree(dirty, s)
         /\ \E lost \in SUBSET (SpIn(dirty, s) \ {Loop(s)}) :
              dirty' = Part(dirty, Arcs(dirty) \ lost)
         /\ todo' = [n \in DOMAIN todo \ {s} |-> todo[n]]
  /\ status' = "raised"
  /\ UNCHANGED <<ws, prune_, aut>>

Next == Build \/ Free \/ Raise

Spec == Init /\ [][Next]_vars

-----------------------------------------------------------------------------
\* No arc is on the wrong side: the result has no spontaneous arc at any time.
PartsAreApart ==
  status # "ready" => is_proper(aut) /\ Arcs(dirty) = Spontaneous(dirty)

\* Side by side, the two automata go through the states of the in-place
\* elimination, in the same order.
InPlace == INSTANCE EpsilonRemover WITH aut <- Both(dirty, aut)
ImplementsEpsilonRemover == InPlace!Spec
=============================================================================
