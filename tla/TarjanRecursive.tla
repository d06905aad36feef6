--------------------------- MODULE TarjanRecursive ---------------------------
(***************************************************************************)
(* scc_impl<Aut, tarjan_recursive_tag>: the recursive form.  Each call of  *)
(* dfs keeps its own min, low_ of a state is written only when its call    *)
(* returns, and a call that found something lower than itself leaves its   *)
(* state on stack_ for an ancestor.  calls is the stack of C++ calls.      *)
(***************************************************************************)
EXTENDS Naturals, SequencesExt, Reachability

CONSTANTS
  State,          \* the states of the automaton, but pre() and post()
  Relations       \* the sets of arcs <<source, destination>> to consider

VARIABLES
  edges,          \* the arcs of aut_
  low,            \* low_, defined on marked_
  calls,          \* the calls of dfs: state, min, destinations still to see
  stack,          \* stack_
  components      \* components_

vars == <<edges, low, calls, stack, components>>

Digraph        == [node |-> State, edge |-> edges]
curr_state_num == Cardinality(DOMAIN low)
max            == Cardinality(State)  \* above any visit order
marked         == DOMAIN low
top            == Last(calls)
Lower(a, b)    == IF a < b THEN a ELSE b

Init ==
  /\ edges \in Relations
  /\ low = <<>>
  /\ calls = <<>>
  /\ stack = <<>>
  /\ components = <<>>

\* A map with one more state.
With(f, s, v) == [r \in DOMAIN f \union {s} |-> IF r = s THEN v ELSE f[r]]

\* The entry of dfs(s).
Enter(s, callers) ==
  /\ calls' = Append(callers, [state |-> s, min |-> curr_state_num,
                               todo |-> Successors(Digraph, s)])
  /\ low' = With(low, s, curr_state_num)
  /\ stack' = Append(stack, s)
  /\ UNCHANGED <<edges, components>>

\* The loop of the constructor.
Root(s) ==
  /\ calls = <<>>
  /\ s \notin marked
  /\ Enter(s, <<>>)

\* The loop on the transitions meets a new destination...
Call(dst) ==
  /\ calls # <<>>
  /\ dst \in top.todo \ marked
  /\ Enter(dst, [calls EXCEPT ![Len(calls)].todo = @ \ {dst}])

\* ... or one that is known.
Compare(dst) ==
  /\ calls # <<>>
  /\ dst \in top.todo \intersect marked
  /\ calls' = [calls EXCEPT ![Len(calls)].todo = @ \ {dst},
                             ![Len(calls)].min  = Lower(@, low[dst])]
  /\ UNCHANGED <<edges, low, stack, components>>

\* Back in the caller, which then compares its min with low_[dst].
Return(lows) ==
  /\ low' = lows
  /\ calls' = IF Len(calls) = 1 THEN <<>>
              ELSE [Front(calls) EXCEPT ![Len(calls) - 1].min =
                                           Lower(@, lows[top.state])]

\* The early return: an older state can be reached.
Finish ==
  /\ calls # <<>> /\ top.todo = {}
  /\ top.min < low[top.state]
  /\ Return([low EXCEPT ![top.state] = top.min])
  /\ UNCHANGED <<edges, stack, components>>

\* Where the state of this call is on stack_.
TopAt == CHOOSE i \in DOMAIN stack : stack[i] = top.state

\* What the do loop pops: the state of this call and all above it.
Popped == {stack[i] : i \in TopAt .. Len(stack)}

Emit ==
  /\ calls # <<>> /\ top.todo = {}
  /\ top.min >= low[top.state]
  /\ components' = Append(components, Popped)
  /\ stack' = SubSeq(stack, 1, TopAt - 1)
  /\ Return([s \in marked |-> IF s \in Popped THEN max ELSE low[s]])
  /\ UNCHANGED edges

Done ==
  /\ calls = <<>> /\ marked = State
  /\ UNCHANGED vars

Next ==
  \/ \E s \in State : Root(s) \/ Call(s) \/ Compare(s)
  \/ Finish
  \/ Emit
  \/ Done

-----------------------------------------------------------------------------

\* A state whose call returned without a component has below it, on
\* stack_, the state of a call that is still active and will pop it.
\* Otherwise it would never get a component.
WaitersHaveAnOwner ==
  LET active == {calls[i].state : i \in DOMAIN calls}
  IN  /\ active \subseteq Range(stack)
      /\ \A i \in DOMAIN stack :
           stack[i] \notin active =>
             \E j \in 1 .. i - 1 : stack[j] \in active
=============================================================================
