-------------------------- MODULE StrongComponents --------------------------
(***************************************************************************)
(* What strong_components promises, whichever algorithm computes it: the   *)
(* strongly connected components of the automaton, each of them once, and  *)
(* each after all those it leads to.  scc_automaton relies on that order   *)
(* to number the components from the initial states on.                    *)
(***************************************************************************)
EXTENDS Naturals, Sequences, Reachability

CONSTANTS
  State,      \* the states of the automaton, pre() and post() excluded
  Relations   \* the sets of arcs <<source, destination>> to consider

VARIABLES
  edges,      \* the arcs of the automaton, which does not change
  components  \* components_

Digraph == [node |-> State, edge |-> edges]

\* The classes of the states that reach each other.
Sccs == {Component(Digraph, s) : s \in State}

Init ==
  /\ edges \in Relations
  /\ components = <<>>

Emit(C) ==
  /\ C \notin Range(components)
  /\ AllSuccessors(Digraph, C) \subseteq C \union UNION Range(components)
  /\ components' = Append(components, C)
  /\ UNCHANGED edges

Next == \E C \in Sccs : Emit(C)

vars == <<edges, components>>

Spec == Init /\ [][Next]_vars /\ WF_vars(Next)
=============================================================================
