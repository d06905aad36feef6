--------------------------- MODULE WeightedGraph ---------------------------
(***************************************************************************)
(* What an automaton promises to the algorithms of vcsn: a set of states,  *)
(* among which pre() and post(), and a partial function from arcs (source, *)
(* label, destination) to non-zero weights.  Some states are lazy: their   *)
(* outgoing (or incoming) arcs are not known yet.  Nothing is said of      *)
(* handles, free lists or adjacency vectors: those belong to               *)
(* MutableAutomaton, which implements this module.                         *)
(***************************************************************************)
EXTENDS Naturals

CONSTANTS
  State,          \* the numbers a state may have
  Label,          \* the labels, the prepost label included
  Weight,         \* the weights
  zero,           \* the null weight: an arc weighted zero does not exist
  pre, post       \* the two special states

VARIABLES
  live,           \* the states of the automaton
  arcs,           \* arc |-> weight
  lazyOut,        \* the states whose outgoing arcs are unknown
  lazyIn          \* the states whose incoming arcs are unknown

vars == <<live, arcs, lazyOut, lazyIn>>

Arc == [src : State, label : Label, dst : State]

\* The automaton without the arcs of K.
Without(K) == [a \in DOMAIN arcs \ K |-> arcs[a]]

\* The automaton in which a weighs w: a null weight removes the arc.
Weighted(a, w) ==
  IF w = zero THEN Without({a})
  ELSE [b \in DOMAIN arcs \union {a} |-> IF b = a THEN w ELSE arcs[b]]

Incident(s) == {a \in DOMAIN arcs : a.src = s \/ a.dst = s}
Leaving(s)  == {a \in DOMAIN arcs : a.src = s}
Entering(s) == {a \in DOMAIN arcs : a.dst = s}

TypeOK ==
  /\ live \subseteq State
  /\ {pre, post} \subseteq live
  /\ DOMAIN arcs \subseteq Arc
  /\ \A a \in DOMAIN arcs :
       /\ arcs[a] \in Weight \ {zero}
       /\ {a.src, a.dst} \subseteq live
  /\ lazyOut \subseteq live
  /\ lazyIn \subseteq live

Init ==
  /\ live = {pre, post}
  /\ arcs = [a \in {} |-> zero]
  /\ lazyOut = {}
  /\ lazyIn = {}

NewState(s) ==
  /\ s \in State \ live
  /\ live' = live \union {s}
  /\ UNCHANGED <<arcs, lazyOut, lazyIn>>

\* A state goes away with the arcs that touch it.
DelState(s) ==
  /\ s \in live \ ({pre, post} \union lazyOut \union lazyIn)
  /\ live' = live \ {s}
  /\ arcs' = Without(Incident(s))
  /\ UNCHANGED <<lazyOut, lazyIn>>

\* One arc, and one only, gets a weight.
SetArc(a, w) ==
  /\ a.src \in live \ (lazyOut \union {post})
  /\ a.dst \in live \ (lazyIn \union {pre})
  /\ arcs' = Weighted(a, w)
  /\ UNCHANGED <<live, lazyOut, lazyIn>>

\* A state may be declared lazy only while no arc leaves (enters) it.
SetLazy(s, lazy) ==
  /\ s \in live
  /\ Leaving(s) = {}
  /\ lazyOut' = IF lazy THEN lazyOut \union {s} ELSE lazyOut \ {s}
  /\ UNCHANGED <<live, arcs, lazyIn>>

SetLazyIn(s, lazy) ==
  /\ s \in live
  /\ Entering(s) = {}
  /\ lazyIn' = IF lazy THEN lazyIn \union {s} ELSE lazyIn \ {s}
  /\ UNCHANGED <<live, arcs, lazyOut>>

Next ==
  \/ \E s \in State : NewState(s) \/ DelState(s)
  \/ \E a \in Arc, w \in Weight : SetArc(a, w)
  \/ \E s \in State, lazy \in BOOLEAN : SetLazy(s, lazy) \/ SetLazyIn(s, lazy)

Spec == Init /\ [][Next]_vars
=============================================================================
