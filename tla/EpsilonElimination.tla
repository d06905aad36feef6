------------------------- MODULE EpsilonElimination -------------------------
(***************************************************************************)
(* What the removers of spontaneous arcs share: the profile that orders    *)
(* the states, and the elimination of the spontaneous arcs into a state;   *)
(* and is_valid, which tells beforehand whether a removal can succeed.     *)
(***************************************************************************)
EXTENDS Integers, FiniteSets

CONSTANTS
  Letter,   \* the generators of the labelset
  ws        \* the weightset

W == INSTANCE Weightsets
INSTANCE SpontaneousAutomata WITH
  Special <- "$", empty_word <- "",
  zero <- W!zero(ws), one <- W!one(ws),
  Plus <- LAMBDA l, r : W!add(ws, l, r), Times <- LAMBDA l, r : W!mul(ws, l, r),
  Starrable <- LAMBDA v : W!starrable(ws, v), Star <- LAMBDA v : W!star(ws, v)

\* What the store holds (Legal and ArcsAreFunction of MutableAutomaton), with
\* weights of k.  It may be read backwards: a transposed automaton is one.
IsArc(x) ==
  /\ x \in [src : Nat, label : Label \union {""}, dst : Nat]
  /\ x.src # post /\ x.dst # pre
  /\ x.label = "$" <=> x.src = pre \/ x.dst = post

IsAutomatonOver(k, a) ==
  /\ a = [x \in Arcs(a) |-> a[x]] /\ IsFiniteSet(Arcs(a))
  /\ \A x \in Arcs(a) : IsArc(x) /\ W!IsWeight(k, a[x]) /\ a[x] # W!zero(k)

-----------------------------------------------------------------------------
(* Profiles. *)

\* in() and not all_in(): initial arcs do not count.
Profile(a, s) ==
  LET in_sp  == Cardinality(SpIn(a, s))
      in     == Cardinality({x \in In(a, s) : x.label # "$"})
      out_sp == Cardinality(SpOut(a, s))
      out    == Cardinality(Out(a, s))
  IN  [in_sp |-> in_sp, in_nsp |-> in - in_sp,
       out_sp |-> out_sp, out_nsp |-> out - out_sp]

\* operator< of epsilon_profile; the last resort is a total order.
Before(p, s, q, t) ==
  \/ p.out_sp < q.out_sp
  \/ /\ p.out_sp = q.out_sp
     /\ \/ p.out_nsp < q.out_nsp
        \/ /\ p.out_nsp = q.out_nsp
           /\ \/ p.in_sp < q.in_sp
              \/ p.in_sp = q.in_sp /\ t < s

Top(heap) ==
  CHOOSE s \in DOMAIN heap :
    \A t \in DOMAIN heap \ {s} : Before(heap[s], s, heap[t], t)

\* Mutant: the states that spontaneous arcs leave.
MutHeap(a) ==
  [s \in {x \in States(a) : SpOut(a, x) # {}} |-> Profile(a, s)]

Heap(a) ==
  [s \in {x \in States(a) : SpIn(a, x) # {}} |-> Profile(a, s)]

\* Mutant: the successors are forgotten.
MutNeighbors(a, s) == {x.src : x \in In(a, s)} \ {s}

Neighbors(a, s) ==
  ({x.src : x \in In(a, s)} \union {x.dst : x \in Out(a, s)}) \ {s}

-----------------------------------------------------------------------------
(* Elimination: in_situ_remover_(s). *)

\* The spontaneous arcs into s but its loop, as weights of their sources.
Closure(a, s) ==
  LET entering == SpIn(a, s) \ {Loop(s)}
  IN  [p \in {e.src : e \in entering} |->
         a[CHOOSE e \in entering : e.src = p]]

LoopStar(a, s) == IF Loop(s) \in Arcs(a) THEN W!star(ws, a[Loop(s)]) ELSE W!one(ws)

\* The arcs out of s, from each of the sources of closure; the weights that
\* they bring there; and those that the arcs have otherwise: the arcs out of s
\* get the weight of its loop in front.
Moved(a, s, closure) == {[t EXCEPT !.src = p] : t \in Out(a, s), p \in DOMAIN closure}
Blown(a, s, loop, t) == IF t \in Out(a, s) THEN W!mul(ws, loop, a[t]) ELSE Weight(a, t)
Brought(a, s, loop, closure, t) ==
  IF t \in Moved(a, s, closure)
  THEN W!mul(ws, closure[t.src], Blown(a, s, loop, [t EXCEPT !.src = s]))
  ELSE W!zero(ws)

\* Mutant: the new arcs replace those that were there.
MutBlowSets(a, s, loop, closure) ==
  [t \in Arcs(a) \union Moved(a, s, closure) |->
     IF t \in Moved(a, s, closure) THEN Brought(a, s, loop, closure, t)
     ELSE Blown(a, s, loop, t)]

\* The weights are added, since the sources may have like arcs.
Blow(a, s, loop, closure) ==
  NonZero([t \in Arcs(a) \union Moved(a, s, closure) |->
             W!add(ws, Blown(a, s, loop, t), Brought(a, s, loop, closure, t))])

Bypass(a, s) ==
  Blow(Part(a, Arcs(a) \ SpIn(a, s)), s, LoopStar(a, s), Closure(a, s))

\* The state goes if nothing enters it any more, not even an initial arc.
Prune(a, s, prune) == IF prune /\ In(a, s) = {} THEN Without(a, s) ELSE a

CanFree(a, s) == Loop(s) \in Arcs(a) => W!starrable(ws, a[Loop(s)])

\* in_situ_remover_(s).
Freed(a, s, prune) == Prune(Bypass(a, s), s, prune)

\* Mutant: a state goes although proper arcs still enter it.
MutSeparated(d, a, s, prune) ==
  LET loop    == LoopStar(d, s)
      closure == Closure(d, s)
      dirty   == Blow(Part(d, Arcs(d) \ SpIn(d, s)), s, loop, closure)
      proper  == Blow(a, s, loop, closure)
  IN  IF prune /\ In(dirty, s) = {}
      THEN <<Without(dirty, s), Without(proper, s)>>
      ELSE <<dirty, proper>>

\* remover_on of the separate remover: the same in two automata, the
\* spontaneous arcs (d) and the other ones (a).
Separated(d, a, s, prune) ==
  LET loop    == LoopStar(d, s)
      closure == Closure(d, s)
      dirty   == Blow(Part(d, Arcs(d) \ SpIn(d, s)), s, loop, closure)
      proper  == Blow(a, s, loop, closure)
  IN  IF prune /\ In(dirty, s) = {} /\ In(proper, s) = {}
      THEN <<Without(dirty, s), Without(proper, s)>>
      ELSE <<dirty, proper>>

\* The arcs of two automata, side by side.
Both(d, a) ==
  [x \in Arcs(d) \union Arcs(a) |-> IF x \in Arcs(d) THEN d[x] ELSE a[x]]

\* What is left of the other keys once s is freed, giving b.
Requeued(heap, a, s, b) ==
  [n \in DOMAIN heap \ {s} |-> IF n \in Neighbors(a, s) THEN Profile(b, n) ELSE heap[n]]

-----------------------------------------------------------------------------
(* is_valid (is-valid.hh). *)

\* The elimination, with pruning, on a copy of its own.
is_properable(a) ==
  LET \* One turn of the loop, if there is one more.
      step(r) ==
        LET s == Top(r.todo)
            b == Freed(r.aut, s, TRUE)
        IN  IF r.todo = <<>> \/ r.raised THEN r
            ELSE IF ~ CanFree(r.aut, s) THEN [r EXCEPT !.raised = TRUE]
            ELSE [r EXCEPT !.aut = b, !.todo = Requeued(r.todo, r.aut, s, b)]
      start == [aut |-> a, todo |-> Heap(a), raised |-> FALSE]
  IN  ~ FoldLeft(LAMBDA r, s : step(r), start, Ascending(States(a))).raised

absval(a) == [x \in Arcs(a) |-> W!abs(ws, a[x])]

\* Mutant: the weights are tried as they are.
MutIsValidSigned(a) ==
  CASE W!star_status(ws) = "STARRABLE"     -> TRUE
    [] W!star_status(ws) = "NON_STARRABLE" -> is_proper(a) \/ is_eps_acyclic(a)
    [] OTHER -> is_proper(a) \/ is_eps_acyclic(a) \/ is_properable(a)

\* Mutant: every automaton is said to be valid.
MutIsValidAlways(a) == TRUE

is_valid(a) ==
  CASE W!star_status(ws) = "STARRABLE"     -> TRUE
    [] W!star_status(ws) = "NON_STARRABLE" -> is_proper(a) \/ is_eps_acyclic(a)
    [] W!star_status(ws) = "TOPS" ->
         is_proper(a) \/ is_eps_acyclic(a) \/ is_properable(a)
    [] W!star_status(ws) = "ABSVAL" ->
         is_proper(a) \/ is_eps_acyclic(a) \/ is_properable(absval(a))
=============================================================================
