-------------------------- MODULE WeightedAutomata --------------------------
(***************************************************************************)
(* Automata labelled by letters, as values: an automaton is a function     *)
(* from arcs to non-zero weights, as in WeightedGraph, with no state that  *)
(* no arc touches except pre and post.  Initial and final arcs are those   *)
(* that leave pre and those that enter post; their label is Special.       *)
(***************************************************************************)
EXTENDS Naturals, Sequences, Folds, SequencesExt

CONSTANTS
  Letter,             \* the generators of the labelset
  Special,            \* the label of initial and final arcs
  zero, one,          \* the weightset
  Plus(_, _), Times(_, _)

pre  == 0
post == 1

\* The label $ is no letter, and a letter is no $.
ASSUME SpecialAssumption == Special \notin Letter

Label == Letter \union {Special}

\* Zero is neutral, the order of a sum does not matter.
SumOver(S, weigh(_)) ==
  MapThenFoldSet(Plus, zero, weigh, LAMBDA T : CHOOSE x \in T : TRUE, S)

Arcs(aut) == DOMAIN aut
States(aut) ==
  {pre, post} \union {a.src : a \in Arcs(aut)} \union {a.dst : a \in Arcs(aut)}
Out(aut, s) == {a \in Arcs(aut) : a.src = s}
Successors(aut, s) == {a.dst : a \in Out(aut, s)}
Finals(aut) == {s \in States(aut) : post \in Successors(aut, s)}

\* What the store holds (Legal and ArcsAreFunction of MutableAutomaton).
IsAutomaton(aut) ==
  /\ IsFiniteSet(Arcs(aut))
  /\ Arcs(aut) \subseteq [src : Nat, label : Label, dst : Nat]
  /\ \A a \in Arcs(aut) :
       /\ a.src # post /\ a.dst # pre /\ ~ (a.src = pre /\ a.dst = post)
       /\ a.label = Special <=> a.src = pre \/ a.dst = post
       /\ aut[a] # zero

\* Without weights but one, as Boolean automata.
IsUnweighted(aut) == \A a, b \in Arcs(aut) : aut[a] = aut[b]

\* One initial state at most, and one arc at most per state and label.
IsDeterministic(aut) ==
  \A a, b \in Arcs(aut) :
    /\ a.src = b.src /\ (a.label = b.label \/ a.src = pre)
    => a = b

\* The states on the paths that start (or end) in S: no path is longer than
\* there are states.
Reach(aut, next(_), S) ==
  LET further(s, seen) == seen \union UNION {next(t) : t \in seen}
  IN  FoldSet(further, S, States(aut))

\* Every state is on a path from pre to post.
IsTrim(aut) ==
  States(aut) \ {pre, post} \subseteq
    Reach(aut, LAMBDA s : {a.dst : a \in Out(aut, s)}, {pre}) \intersect
    Reach(aut, LAMBDA s : {a.src : a \in {b \in Arcs(aut) : b.dst = s}}, {post})

\* Every letter that the automaton has leads somewhere from every state that a
\* letter can leave.
IsComplete(aut) ==
  \A a \in Arcs(aut) : a.label \in Letter =>
    \A s \in States(aut) \ {pre, post} :
      \E b \in Arcs(aut) : b.src = s /\ b.label = a.label

\* The weight of a word: the sum over all paths, letter after letter.
Evaluate(aut, word) ==
  LET read(v, l) ==
        [d \in States(aut) |->
           SumOver({a \in Arcs(aut) : a.label = l /\ a.dst = d},
                   LAMBDA a : Times(v[a.src], aut[a]))]
      start == [s \in States(aut) |-> IF s = pre THEN one ELSE zero]
  IN  FoldLeft(read, start, <<Special>> \o word \o <<Special>>)[post]

\* Two automata that give the same weight to every word of length n at most.
SameSeries(a, b, n) ==
  \A word \in UNION {[1 .. k -> Letter] : k \in 0 .. n} :
    Evaluate(a, word) = Evaluate(b, word)

-----------------------------------------------------------------------------
(* Partitions of the states, and the automaton whose states are classes.   *)

ClassOf(P, s) == CHOOSE C \in P : s \in C
IsPartition(P, S) ==
  /\ UNION P = S
  /\ {} \notin P
  /\ \A C, D \in P : C = D \/ C \intersect D = {}

Refines(P, Q) == \A C \in P : \E D \in Q : C \subseteq D

\* Mutant: of the arcs with one label to one class, one gives its weight.
MutQuotient(aut, P) ==
  LET stand(s) == Min(ClassOf(P, s))
      kept == UNION {Out(aut, Min(C)) : C \in P}
      image(a) == [a EXCEPT !.dst = stand(a.dst)]
  IN  [b \in {image(a) : a \in kept} |->
         aut[CHOOSE a \in kept : image(a) = b]]

\* The states of a class stand for their smallest one, whose arcs are kept;
\* arcs with the same label to the same class are added up, and disappear when
\* their weights cancel.
Quotient(aut, P) ==
  LET stand(s) == Min(ClassOf(P, s))
      kept == UNION {Out(aut, Min(C)) : C \in P}
      image(a) == [a EXCEPT !.dst = stand(a.dst)]
      weight(b) == SumOver({a \in kept : image(a) = b}, LAMBDA a : aut[a])
      summed == {b \in {image(a) : a \in kept} : weight(b) # zero}
  IN  [b \in summed |-> weight(b)]

\* What distinguishes states: for each of their labels, the weight to each
\* class.  Weights that cancel leave a label with nothing but zeros.
Signature(aut, P, s) ==
  [l \in {a.label : a \in Out(aut, s)} |->
     [C \in P |-> SumOver({a \in Out(aut, s) : a.label = l /\ a.dst \in C},
                          LAMBDA a : aut[a])]]

\* The classes of S whose members have the same key.
Cluster(S, key(_)) == {{t \in S : key(t) = key(s)} : s \in S}

Stable(aut, P) ==
  \A C \in P : \A s, t \in C : Signature(aut, P, s) = Signature(aut, P, t)
=============================================================================
