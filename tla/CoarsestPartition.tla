------------------------- MODULE CoarsestPartition -------------------------
(***************************************************************************)
(* What every minimization by refinement promises: from some partition of  *)
(* the states, it only splits classes, it never separates states that a    *)
(* stable partition keeps together, and it ends, with a stable partition:  *)
(* the coarsest one.                                                       *)
(***************************************************************************)
EXTENDS WeightedAutomata

VARIABLES
  aut, classes, done,
  loose               \* states that any class may end with, usually none

\* The partitions of a finite set: a state has a class of its own or joins
\* one of those of the others.
Partitions(S) ==
  LET join(s, Ps) ==
        UNION {{P \union {{s}}} \union
               {(P \ {C}) \union {C \union {s}} : C \in P} : P \in Ps}
  IN  FoldSet(join, {{}}, S)

\* No stable partition keeps together states that P separates.  Only in an
\* automaton without arcs could one keep pre and post together.
CoarseEnough(P) ==
  \A Q \in Partitions(States(aut)) :
    \/ Refines(Q, P)
    \/ ~ Stable(aut, Q)
    \/ ClassOf(Q, pre) = ClassOf(Q, post)

Init ==
  /\ IsPartition(classes, States(aut))
  /\ CoarseEnough(classes)
  /\ done = FALSE

Split ==
  /\ ~done
  /\ classes' # classes
  /\ IsPartition(classes', States(aut))
  /\ Refines(classes', classes)
  /\ CoarseEnough(classes')
  /\ UNCHANGED <<aut, loose, done>>

Finish ==
  /\ ~done
  /\ \A C \in classes : \A s, t \in C \ loose :
       Signature(aut, classes, s) = Signature(aut, classes, t)
  /\ done' = TRUE
  /\ UNCHANGED <<aut, loose, classes>>

vars == <<aut, classes, done, loose>>

Spec == Init /\ [][Split \/ Finish]_vars /\ <>done
=============================================================================
