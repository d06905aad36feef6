------------------------------- MODULE MCScc --------------------------------
(* The digraphs that the runs about components search: one for each class  *)
(* of isomorphic digraphs without loops over 1..4, and for each class of   *)
(* digraphs with loops over 1..3.  The algorithms leave the order of the   *)
(* states open, so isomorphic digraphs have the same behaviours.           *)
EXTENDS Scc
LOCAL INSTANCE Integers
LOCAL INSTANCE FiniteSetsExt

LOCAL Node == 1 .. 4
LOCAL Bit(e) == 2 ^ (4 * (e[1] - 1) + e[2] - 1)
LOCAL Code(E) == SumSet({Bit(e) : e \in E})
LOCAL Orders(S) ==
  {p \in [S -> S] : \A x, y \in S : p[x] = p[y] => x = y}
LOCAL Canonical(E, S) ==
  LET code == Code(E)
  IN  \A p \in Orders(S) : code <= Code({<<p[e[1]], p[e[2]]>> : e \in E})

LoopFree4 ==
  {E \in SUBSET {e \in Node \X Node : e[1] # e[2]} : Canonical(E, Node)}
WithLoops3 ==
  {E \in SUBSET ((1 .. 3) \X (1 .. 3)) : Canonical(E, 1 .. 3)}

SmallRelations == LoopFree4 \union WithLoops3

\* What no closed set leaves out is what paths lead to.
ASSUME ReachesMeansConnected ==
  \A E \in SmallRelations :
    LET digraph == [node |-> Node, edge |-> E]
        paths   == D!ConnectionsIn(digraph)
    IN  \A s, t \in Node : D!Reaches(digraph, s, t) <=> paths[s, t]
=============================================================================
