------------------------------ MODULE Kosaraju ------------------------------
(***************************************************************************)
(* scc_impl<Aut, kosaraju_tag>: a first search of the transposed automaton *)
(* (reverse_postorder_impl) records its states as their calls of dfs       *)
(* return; a second search, of the automaton, takes its roots from the     *)
(* last one recorded to the first, and each root yields a component.  The  *)
(* component grows in components_ while it is searched: components_[num_]  *)
(* is the one under construction.                                          *)
(***************************************************************************)
EXTENDS Naturals, SequencesExt, Reachability

CONSTANTS
  State,          \* the states of the automaton, but pre() and post()
  Relations       \* the sets of arcs <<source, destination>> to consider

VARIABLES
  edges,          \* the arcs of aut
  pass,           \* which of the two searches runs
  marked,         \* marked_ of that search
  calls,          \* the calls of dfs: a state, the destinations still to see
  todo,           \* rvp_, from which the second search takes its roots
  num,            \* num_
  components      \* components_

vars == <<edges, pass, marked, calls, todo, num, components>>

Digraph == [node |-> State, edge |-> edges]
top     == Last(calls)

\* The graph that is searched.
Searched == IF pass = "transpose" THEN Transpose(Digraph) ELSE Digraph

Init ==
  /\ edges \in Relations
  /\ pass = "transpose"
  /\ marked = {}
  /\ calls = <<>>
  /\ todo = <<>>
  /\ num = 0
  /\ components = <<>>

\* components_[num_] gets one more state, and exists if it did not.
Grown(s) ==
  IF num = Len(components) THEN Append(components, {s})
  ELSE [components EXCEPT ![num + 1] = @ \union {s}]

\* The entry of dfs(s), in either search.
Enter(s, callers) ==
  /\ marked' = marked \union {s}
  /\ calls' = Append(callers, [state |-> s, todo |-> Successors(Searched, s)])
  /\ components' = IF pass = "transpose" THEN components ELSE Grown(s)
  /\ UNCHANGED <<edges, pass>>

\* The constructor of reverse_postorder_impl takes any unmarked state.
RootTranspose(s) ==
  /\ pass = "transpose" /\ calls = <<>>
  /\ s \notin marked
  /\ Enter(s, <<>>)
  /\ UNCHANGED <<todo, num>>

Call(dst) ==
  /\ calls # <<>>
  /\ dst \in top.todo \ marked
  /\ Enter(dst, [calls EXCEPT ![Len(calls)].todo = @ \ {dst}])
  /\ UNCHANGED <<todo, num>>

\* Mutant: the states are recorded in preorder, as they are entered.
MutReturnTranspose ==
  /\ pass = "transpose"
  /\ calls # <<>> /\ top.todo \subseteq marked
  /\ calls' = Front(calls)
  /\ todo' = <<top.state>> \o todo
  /\ UNCHANGED <<edges, pass, marked, num, components>>

\* dfs returns once all the destinations are marked.
ReturnTranspose ==
  /\ pass = "transpose"
  /\ calls # <<>> /\ top.todo \subseteq marked
  /\ calls' = Front(calls)
  /\ todo' = Append(todo, top.state)
  /\ UNCHANGED <<edges, pass, marked, num, components>>

\* The second search starts with marks of its own.
Turn ==
  /\ pass = "transpose" /\ calls = <<>> /\ marked = State
  /\ pass' = "components"
  /\ marked' = {}
  /\ UNCHANGED <<edges, calls, todo, num, components>>

\* todo.back() was reached from an earlier root.
Skip ==
  /\ pass = "components" /\ calls = <<>>
  /\ todo # <<>> /\ Last(todo) \in marked
  /\ todo' = Front(todo)
  /\ UNCHANGED <<edges, pass, marked, calls, num, components>>

Root ==
  /\ pass = "components" /\ calls = <<>>
  /\ todo # <<>> /\ Last(todo) \notin marked
  /\ Enter(Last(todo), <<>>)
  /\ todo' = Front(todo)
  /\ UNCHANGED num

\* ++num_ comes after the call from the constructor only.
Return ==
  /\ pass = "components"
  /\ calls # <<>> /\ top.todo \subseteq marked
  /\ calls' = Front(calls)
  /\ num' = IF Len(calls) = 1 THEN num + 1 ELSE num
  /\ UNCHANGED <<edges, pass, marked, todo, components>>

Done ==
  /\ pass = "components" /\ calls = <<>> /\ todo = <<>>
  /\ UNCHANGED vars

Next ==
  \/ \E s \in State : RootTranspose(s) \/ Call(s)
  \/ ReturnTranspose
  \/ Turn
  \/ Skip
  \/ Root
  \/ Return
  \/ Done

-----------------------------------------------------------------------------

\* Whatever remains to be searched, the next unmarked root leads only to
\* its own component and to components that are done: that is what the
\* order of the first search is for.
NextRootIsBottom ==
  pass = "components" /\ calls = <<>> /\ todo # <<>> /\ Last(todo) \notin marked =>
    \A s \in State :
      Reaches(Digraph, Last(todo), s) => s \in marked \/ Reaches(Digraph, s, Last(todo))
=============================================================================
