----------------------------- MODULE DijkstraScc -----------------------------
(***************************************************************************)
(* scc_impl<Aut, dijkstra_tag>: the path-based algorithm, with two stacks. *)
(* The loop that moves a component out of unassigned_ leaves by a break    *)
(* when it meets the root, before the pop of the for statement: the root   *)
(* stays on unassigned_, and ends in a second component as well.           *)
(***************************************************************************)
EXTENDS Naturals, SequencesExt, Reachability

CONSTANTS
  State,          \* the states of the automaton, but pre() and post()
  Relations       \* the sets of arcs <<source, destination>> to consider

VARIABLES
  edges,          \* the arcs of aut_
  preorder,       \* preorder_: state |-> visit order
  calls,          \* the calls of dfs: a state, the destinations still to see
  unassigned,     \* unassigned_
  uncertain,      \* uncertain_
  component,      \* component_: state |-> number of its component
  components      \* components_

vars == <<edges, preorder, calls, unassigned, uncertain, component, components>>

Digraph == [node |-> State, edge |-> edges]
top     == Last(calls)
Seen    == DOMAIN preorder

Init ==
  /\ edges \in Relations
  /\ preorder = <<>>
  /\ calls = <<>>
  /\ unassigned = <<>>
  /\ uncertain = <<>>
  /\ component = <<>>
  /\ components = <<>>

\* A map with one more state.
With(f, s, v) == [r \in DOMAIN f \union {s} |-> IF r = s THEN v ELSE f[r]]

\* The entry of dfs(s).
Enter(s, callers) ==
  /\ preorder' = With(preorder, s, Cardinality(Seen))
  /\ calls' = Append(callers, [state |-> s, todo |-> Successors(Digraph, s)])
  /\ unassigned' = Append(unassigned, s)
  /\ uncertain' = Append(uncertain, s)
  /\ UNCHANGED <<edges, component, components>>

Seeing(dst) == [calls EXCEPT ![Len(calls)].todo = @ \ {dst}]

\* The loop of components().
Root(s) ==
  /\ calls = <<>>
  /\ s \notin DOMAIN component
  /\ Enter(s, <<>>)

Call(dst) ==
  /\ calls # <<>>
  /\ dst \in top.todo \ Seen
  /\ Enter(dst, Seeing(dst))

\* Mutant: at most one state is popped.
MutBack(dst) ==
  /\ calls # <<>>
  /\ dst \in (top.todo \intersect Seen) \ DOMAIN component
  /\ uncertain' = IF preorder[Last(uncertain)] > preorder[dst]
                  THEN Front(uncertain) ELSE uncertain
  /\ calls' = Seeing(dst)
  /\ UNCHANGED <<edges, preorder, unassigned, component, components>>

\* A known destination without a component: what is above it on uncertain_
\* belongs to the same component as it does.
Back(dst) ==
  /\ calls # <<>>
  /\ dst \in (top.todo \intersect Seen) \ DOMAIN component
  /\ \E k \in DOMAIN uncertain :
       /\ preorder[uncertain[k]] <= preorder[dst]
       /\ \A i \in k + 1 .. Len(uncertain) : preorder[uncertain[i]] > preorder[dst]
       /\ uncertain' = SubSeq(uncertain, 1, k)
  /\ calls' = Seeing(dst)
  /\ UNCHANGED <<edges, preorder, unassigned, component, components>>

\* A destination that has a component.
Cross(dst) ==
  /\ calls # <<>>
  /\ dst \in top.todo \intersect DOMAIN component
  /\ calls' = Seeing(dst)
  /\ UNCHANGED <<edges, preorder, unassigned, uncertain, component, components>>

\* dfs returns; another state is the root of this component.
Finish ==
  /\ calls # <<>> /\ top.todo = {}
  /\ Last(uncertain) # top.state
  /\ calls' = Front(calls)
  /\ UNCHANGED <<edges, preorder, unassigned, uncertain, component, components>>

\* The position of the root of the component on unassigned_.
RootAt == CHOOSE i \in DOMAIN unassigned : unassigned[i] = top.state

\* The component that is moved out of unassigned_.
scc == {unassigned[i] : i \in RootAt .. Len(unassigned)}

\* dfs returns after the loop on unassigned_: everything from the root to
\* the top is in the component, everything above the root is popped.
Emit ==
  /\ calls # <<>> /\ top.todo = {}
  /\ Last(uncertain) = top.state
  /\ components' = Append(components, scc)
  /\ component' = [r \in scc \union DOMAIN component |->
                     IF r \in scc THEN Len(components) ELSE component[r]]
  /\ uncertain' = Front(uncertain)
  /\ unassigned' = SubSeq(unassigned, 1, RootAt)
  /\ calls' = Front(calls)
  /\ UNCHANGED <<edges, preorder>>

Done ==
  /\ calls = <<>> /\ DOMAIN component = State
  /\ UNCHANGED vars

Next ==
  \/ \E s \in State : Root(s) \/ Call(s) \/ Back(s) \/ Cross(s)
  \/ Finish
  \/ Emit
  \/ Done

-----------------------------------------------------------------------------

\* "Stack S contains all the vertices that have not yet been assigned to a
\* strongly connected component" (scc.hh:150-151).
UnassignedHaveNoComponent ==
  \A i \in DOMAIN unassigned : unassigned[i] \notin DOMAIN component
=============================================================================
