--------------------------- MODULE TarjanIterative ---------------------------
(***************************************************************************)
(* scc_impl<Aut, tarjan_iterative_tag>: Tarjan's algorithm with a stack of *)
(* its own, the default of strong_components.  low_ is lowered with the    *)
(* low_ (not the number_) of a known destination, and what keeps finished  *)
(* components out of the way is that their low_ is then the largest value. *)
(*                                                                         *)
(* The order of states() and the order of the transitions of a state are   *)
(* left open.                                                              *)
(***************************************************************************)
EXTENDS Naturals, SequencesExt, Reachability

CONSTANTS
  State,          \* the states of the automaton, but pre() and post()
  Relations       \* the sets of arcs <<source, destination>> to consider

VARIABLES
  edges,          \* the arcs of aut_
  number,         \* number_: state |-> visit order
  low,            \* low_
  dfs_stack,      \* dfs_stack_: a state and the destinations still to see
  stack,          \* stack_
  components      \* components_

vars == <<edges, number, low, dfs_stack, stack, components>>

\* Above any visit order: there are fewer states than unsigned int.
low_max == Cardinality(State)

curr_state_num == Cardinality(DOMAIN number)
Lower(a, b)    == IF a < b THEN a ELSE b
Known          == DOMAIN number
top            == Last(dfs_stack)
src            == top.state
Digraph        == [node |-> State, edge |-> edges]

Init ==
  /\ edges \in Relations
  /\ number = <<>>
  /\ low = <<>>
  /\ dfs_stack = <<>>
  /\ stack = <<>>
  /\ components = <<>>

\* A map with one more state.
With(f, s, v) == [r \in DOMAIN f \union {s} |-> IF r = s THEN v ELSE f[r]]

\* Number a state and push it on both stacks.
Visit(s, frames) ==
  /\ number' = With(number, s, curr_state_num)
  /\ low' = With(low, s, curr_state_num)
  /\ dfs_stack' = Append(frames, [state |-> s, pos |-> Successors(Digraph, s)])
  /\ stack' = Append(stack, s)
  /\ UNCHANGED <<edges, components>>

\* ++st.pos.
Advanced(dst) == [dfs_stack EXCEPT ![Len(dfs_stack)].pos = @ \ {dst}]

\* A root of the search.
Root(s) ==
  /\ dfs_stack = <<>>
  /\ s \notin Known
  /\ Visit(s, <<>>)

\* The next destination is new.
Tree(dst) ==
  /\ dfs_stack # <<>>
  /\ dst \in top.pos \ Known
  /\ Visit(dst, Advanced(dst))

\* The next destination is known.
NonTree(dst) ==
  /\ dfs_stack # <<>>
  /\ dst \in top.pos \intersect Known
  /\ low' = [low EXCEPT ![src] = Lower(@, low[dst])]
  /\ dfs_stack' = Advanced(dst)
  /\ UNCHANGED <<edges, number, stack, components>>

\* The end of a state: its parent can reach what it reaches.
Leave(lows) ==
  /\ dfs_stack' = Front(dfs_stack)
  /\ low' = IF Len(dfs_stack) = 1 THEN lows
            ELSE [lows EXCEPT ![Last(Front(dfs_stack)).state] =
                                 Lower(@, lows[src])]

\* No destination is left, and src is the root of no component.
Finish ==
  /\ dfs_stack # <<>> /\ top.pos = {}
  /\ low[src] # number[src]
  /\ Leave(low)
  /\ UNCHANGED <<edges, number, stack, components>>

\* Where src is on stack_.
SrcAt == CHOOSE i \in DOMAIN stack : stack[i] = src

\* Mutant: the loop pops one state too many.
MutPopped == {stack[i] : i \in DOMAIN stack \intersect (SrcAt - 1 .. Len(stack))}

\* What the do loop pops: src and everything above it.
Popped == {stack[i] : i \in SrcAt .. Len(stack)}

\* Mutant: what is popped keeps its low_.
MutEmit ==
  /\ dfs_stack # <<>> /\ top.pos = {}
  /\ low[src] = number[src]
  /\ components' = Append(components, Popped)
  /\ stack' = SubSeq(stack, 1, SrcAt - 1)
  /\ Leave(low)
  /\ UNCHANGED <<edges, number>>

\* No destination is left, and src is the root of a component.
Emit ==
  /\ dfs_stack # <<>> /\ top.pos = {}
  /\ low[src] = number[src]
  /\ components' = Append(components, Popped)
  /\ stack' = SubSeq(stack, 1, SrcAt - 1)
  /\ Leave([s \in Known |-> IF s \in Popped THEN low_max ELSE low[s]])
  /\ UNCHANGED <<edges, number>>

Done ==
  /\ dfs_stack = <<>> /\ Known = State
  /\ UNCHANGED vars

Next ==
  \/ \E s \in State : Root(s) \/ Tree(s) \/ NonTree(s)
  \/ Finish
  \/ Emit
  \/ Done

-----------------------------------------------------------------------------

\* stack_ holds the known states that are in no component yet, in the order
\* of their visit, and every state of the search path is one of them: the
\* do loop stops where it must.
StackIsPending ==
  /\ Range(stack) = Known \ UNION Range(components)
  /\ \A i, j \in DOMAIN stack : i < j => number[stack[i]] < number[stack[j]]
  /\ {dfs_stack[i].state : i \in DOMAIN dfs_stack} \subseteq Range(stack)

\* From each pending state, a pending state as old as its low_ can be
\* reached: low_ never promises a way back that does not exist.
LowIsReachable ==
  \A s \in Range(stack) :
    \E t \in Range(stack) : number[t] = low[s] /\ Reaches(Digraph, s, t)
=============================================================================
