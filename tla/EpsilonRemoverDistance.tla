----------------------- MODULE EpsilonRemoverDistance -----------------------
(***************************************************************************)
(* epsilon_remover_distance: the distances between the states that         *)
(* spontaneous arcs touch are computed first, then each pair of states     *)
(* brings the arcs of the second one to the first one.                     *)
(***************************************************************************)
EXTENDS Integers, FiniteSets, Sequences, SequencesExt

CONSTANTS
  Letter,        \* the generators of the labelset
  Automata(_)    \* the automata to search, in each weightset

VARIABLES
  ws,            \* the weightset of the automaton
  prune_,
  aut,           \* the input, then aut_proper_
  de,            \* de_, the distances
  left,          \* the pairs of states that the loops have to visit
  status         \* "ready", then "running", then "done" or "raised"

vars == <<ws, prune_, aut, de, left, status>>

INSTANCE EpsilonElimination

Init ==
  /\ ws \in W!Names
  /\ aut \in Automata(ws)
  /\ prune_ \in BOOLEAN
  /\ de = <<>>
  /\ left = <<>>
  /\ status = "ready"

\* aut_dirty_->states()
DirtyStates(a) == UNION {{x.src, x.dst} : x \in Spontaneous(a)}

\* The constructor, all_distances included.
Measure ==
  /\ status = "ready"
  /\ LET ps  == Ascending(DirtyStates(aut))
         all == AllDistances(aut, DirtyStates(aut))
     IN  /\ aut' = Part(aut, Arcs(aut) \ Spontaneous(aut))
         /\ IF all.defined
            THEN /\ de' = all.d
                 /\ left' = FlattenSeq([i \in DOMAIN ps |->
                                           [j \in DOMAIN ps |-> <<ps[i], ps[j]>>]])
                 /\ status' = "running"
            ELSE /\ status' = "raised"
                 /\ UNCHANGED <<de, left>>
  /\ UNCHANGED <<ws, prune_>>

\* set_transition of each arc of q, from p: whatever p had is replaced.
SetFrom(a, p, q) ==
  LET set == {[t EXCEPT !.src = p] : t \in Out(a, q)}
  IN  NonZero([x \in Arcs(a) \union set |->
                 IF x \in set THEN W!mul(ws, de[<<p, q>>], a[[x EXCEPT !.src = q]])
                 ELSE a[x]])

Pair ==
  /\ status = "running" /\ left # <<>>
  /\ LET p == Head(left)[1]
         q == Head(left)[2]
     IN  aut' = IF de[<<p, q>>] = W!zero(ws) THEN aut ELSE SetFrom(aut, p, q)
  /\ left' = Tail(left)
  /\ UNCHANGED <<ws, prune_, de, status>>

\* One pass over the states, in their order.
Finish ==
  /\ status = "running" /\ left = <<>>
  /\ aut' = FoldLeft(LAMBDA a, s : Prune(a, s, prune_), aut,
                     Ascending(States(aut) \ {pre, post}))
  /\ status' = "done"
  /\ UNCHANGED <<ws, prune_, de, left>>

Next == Measure \/ Pair \/ Finish

Spec == Init /\ [][Next]_vars
=============================================================================
