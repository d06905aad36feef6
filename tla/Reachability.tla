---------------------------- MODULE Reachability ----------------------------
(***************************************************************************)
(* What can be reached in a digraph, without a recursion over its nodes:   *)
(* what no set that is closed under arcs can leave out.                    *)
(***************************************************************************)
EXTENDS Graphs

\* No arc leaves C.
Closed(G, C) == \A s \in C : Successors(G, s) \subseteq C

\* There is a path from s to t: some arc leaves every set that has s, and not t.
Reaches(G, s, t) == \A C \in SUBSET (G.node \ {t}) : s \in C => ~ Closed(G, C)

\* The nodes that s reaches and that reach s.
Component(G, s) == {t \in G.node : Reaches(G, s, t) /\ Reaches(G, t, s)}
=============================================================================
