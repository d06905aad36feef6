----------------------------- MODULE LazyProper -----------------------------
(***************************************************************************)
(* lazy_proper_automaton (epsilon-remover-lazy.hh): spontaneous arcs are   *)
(* removed when a client asks for the arcs out of a state, and no earlier. *)
(* The separate remover works on the transposed automaton, whose result is *)
(* transposed back, one state of it after the other, in an order that      *)
(* clients and the lists of arcs choose.                                   *)
(***************************************************************************)
EXTENDS Integers, FiniteSets, Sequences, Functions

CONSTANTS
  Letter,        \* the generators of the labelset
  Automata(_)    \* the automata to search, in each weightset

VARIABLES
  ws, prune_,
  input,         \* the automaton to make proper
  status,        \* "ready", then "running"
  dirty, aut,    \* aut_dirty_ and aut_proper_ of remover_, transposed
  proper_states, \* proper_states_: those whose arcs are known
  known_states,  \* known_states_: those that clients may see
  serving,       \* the state that complete_ is at, or Nobody
  batch,         \* its successors that the inner loop has to visit
  has_removed    \* has_removed

vars == <<ws, prune_, input, status, dirty, aut, proper_states, known_states,
          serving, batch, has_removed>>
idle == <<ws, prune_, input, status>>

INSTANCE EpsilonElimination

Nobody == -1

\* Arcs turned round, initial ones into final ones.
Transpose(a) ==
  LET end(s) == IF s = pre THEN post ELSE IF s = post THEN pre ELSE s
      turn(x) == [x EXCEPT !.src = end(x.dst), !.dst = end(x.src)]
  IN  [x \in {turn(y) : y \in Arcs(a)} |-> a[turn(x)]]

\* What clients see.
View == Transpose(aut)

Init ==
  /\ ws \in W!Names /\ prune_ \in BOOLEAN
  /\ input \in Automata(ws) /\ aut = input
  /\ status = "ready"
  /\ dirty = <<>> /\ proper_states = {} /\ known_states = {}
  /\ serving = Nobody /\ batch = {} /\ has_removed = FALSE

\* The constructor: remover_ gets the transposed automaton.
Build ==
  /\ status = "ready" /\ status' = "running"
  /\ LET a == Transpose(input)
     IN  /\ dirty' = Part(a, Spontaneous(a))
         /\ aut' = Part(a, Arcs(a) \ Spontaneous(a))
  /\ proper_states' = {post}
  /\ known_states' = {pre, post}
  /\ UNCHANGED <<ws, prune_, input, serving, batch, has_removed>>

\* all_out(s) by a client, for a state that is lazy.
AllOut(s) ==
  /\ serving = Nobody
  /\ s \in known_states \ proper_states
  /\ serving' = s
  /\ batch' = Successors(View, s)
  /\ has_removed' = FALSE
  /\ UNCHANGED <<idle, dirty, aut, proper_states, known_states>>

Has(s) == SpIn(dirty, s) # {}   \* state_has_spontaneous_out

\* One turn of the loop over succ; remover_on edits both automata, and may
\* even remove succ.
Visit(succ) ==
  /\ serving # Nobody /\ succ \in batch
  /\ batch' = batch \ {succ}
  /\ IF Has(succ)
     THEN LET parts == Separated(dirty, aut, succ, prune_)
          IN  /\ CanFree(dirty, succ)
              /\ dirty' = parts[1]
              /\ aut' = parts[2]
              /\ has_removed' = TRUE
     ELSE UNCHANGED <<dirty, aut, has_removed>>
  /\ UNCHANGED <<idle, proper_states, known_states, serving>>

\* star raises: the client gets an exception, and may call again.
Raise(succ) ==
  /\ serving # Nobody /\ succ \in batch
  /\ Has(succ) /\ ~ CanFree(dirty, succ)
  /\ \E lost \in SUBSET (SpIn(dirty, succ) \ {Loop(succ)}) :
       dirty' = Part(dirty, Arcs(dirty) \ lost)
  /\ serving' = Nobody /\ batch' = {} /\ has_removed' = FALSE
  /\ UNCHANGED <<idle, aut, proper_states, known_states>>

\* The end of a turn of while (has_removed): there may be new successors.
Again ==
  /\ serving # Nobody /\ batch = {} /\ has_removed
  /\ batch' = Successors(View, serving)
  /\ has_removed' = FALSE
  /\ UNCHANGED <<idle, dirty, aut, proper_states, known_states, serving>>

\* Mutant: a single pass over the successors.
MutComplete ==
  /\ serving # Nobody /\ batch = {}
  /\ known_states' = known_states \union Successors(View, serving)
  /\ proper_states' = proper_states \union {serving}
  /\ serving' = Nobody
  /\ UNCHANGED <<idle, dirty, aut, batch, has_removed>>

Complete ==
  /\ serving # Nobody /\ batch = {} /\ ~ has_removed
  /\ known_states' = known_states \union Successors(View, serving)
  /\ proper_states' = proper_states \union {serving}
  /\ serving' = Nobody
  /\ UNCHANGED <<idle, dirty, aut, batch, has_removed>>

Next ==
  \/ Build
  \/ \E s \in States(input) : AllOut(s) \/ Visit(s) \/ Raise(s)
  \/ Again
  \/ Complete

Spec == Init /\ [][Next]_vars

-----------------------------------------------------------------------------
OutOf(a, s) == Part(a, Out(a, s))

\* What a client was told about a state stays true: serving other states,
\* failing to do so included, never changes its arcs or their weights.
AnswersKept ==
  \A s \in proper_states : OutOf(View, s)' = OutOf(View, s)

\* A client is never shown a state that has spontaneous arcs left, and which
\* might therefore go away, or get other arcs.
NothingPending == \A s \in known_states \ {pre, post} : ~ Has(s)

\* The part of an automaton that the initial state leads to.
Accessible(a) ==
  LET next(s) == Successors(a, s)
  IN  Part(a, {x \in Arcs(a) : x.src \in Reach(a, next, {pre})})

\* Once a client has asked for all the states it was shown, it has the whole
\* series: whatever the order of its questions, and even if some of them
\* failed, in which case it is never served entirely.
ServesTheSeries(Length) ==
  status = "running" /\ serving = Nobody /\ known_states \subseteq proper_states
    => LET before == Series(Accessible(input), Length)
           after  == Series(Part(View, {x \in Arcs(View) : x.src \in known_states}), Length)
       IN  before.defined /\ before.of = after.of
=============================================================================
