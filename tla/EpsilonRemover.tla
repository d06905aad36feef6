--------------------------- MODULE EpsilonRemover ---------------------------
(***************************************************************************)
(* epsilon_remover (epsilon-remover.hh): the states that spontaneous arcs  *)
(* enter wait in a heap, and are freed from these arcs one by one, in      *)
(* place.  The key of a state in the heap is a profile of its arcs, which  *)
(* the elimination of each of its neighbours may change.                   *)
(***************************************************************************)
EXTENDS Integers, FiniteSets

CONSTANTS
  Letter,        \* the generators of the labelset
  Automata(_)    \* the automata to search, in each weightset

VARIABLES
  ws,            \* the weightset of the automaton
  prune_,
  aut,           \* aut_, edited in place
  todo,          \* todo_ and handles_: the profiles of the states to free
  status         \* "ready", then "running", then "done" or "raised"

vars == <<ws, prune_, aut, todo, status>>

INSTANCE EpsilonElimination

-----------------------------------------------------------------------------
Init ==
  /\ ws \in W!Names
  /\ aut \in Automata(ws)
  /\ prune_ \in BOOLEAN
  /\ todo = <<>>
  /\ status = "ready"

\* in_situ_remover: nothing to do for a proper automaton.
Build ==
  /\ status = "ready"
  /\ todo' = Heap(aut)
  /\ status' = IF is_proper(aut) THEN "done" ELSE "running"
  /\ UNCHANGED <<ws, prune_, aut>>

\* The loop ends with the last state.
Free ==
  /\ status = "running"
  /\ LET s == Top(todo)
     IN  /\ CanFree(aut, s)
         /\ aut' = Freed(aut, s, prune_)
         /\ todo' = Requeued(todo, aut, s, aut')
  /\ status' = IF todo' = <<>> THEN "done" ELSE "running"
  /\ UNCHANGED <<ws, prune_>>

\* star raises when the loop is met: some of the other spontaneous arcs into
\* the state are gone already.
Raise ==
  /\ status = "running"
  /\ LET s == Top(todo)
     IN  /\ ~ CanFree(aut, s)
         /\ \E lost \in SUBSET (SpIn(aut, s) \ {Loop(s)}) :
              aut' = Part(aut, Arcs(aut) \ lost)
         /\ todo' = [n \in DOMAIN todo \ {s} |-> todo[n]]
  /\ status' = "raised"
  /\ UNCHANGED <<ws, prune_>>

Next == Build \/ Free \/ Raise

Spec == Init /\ [][Next]_vars

-----------------------------------------------------------------------------

\* Freeing a state brings spontaneous arcs to no state but those that wait in
\* the heap already, so that none is left once the heap is empty.
NothingEscapes ==
  /\ status = "running" => \A a \in Spontaneous(aut) : a.dst \in DOMAIN todo
  /\ status = "done" => is_proper(aut)

\* The keys of the heap are what they should be: a profile changes only
\* when a neighbor is freed, and is computed again then.
ProfilesAreFresh ==
  status = "running" => \A s \in DOMAIN todo : todo[s] = Profile(aut, s)
=============================================================================
