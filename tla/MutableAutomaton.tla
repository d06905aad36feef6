-------------------------- MODULE MutableAutomaton --------------------------
(***************************************************************************)
(* vcsn::detail::mutable_automaton_impl: the store behind every automaton  *)
(* of the library.  States and transitions are handles into two vectors;   *)
(* an erased slot is marked (a state by null_transition in succ, a         *)
(* transition by a null source) and its number is pushed on a free list    *)
(* from which the next creation takes it.  Each live transition is         *)
(* recorded three times: in its own slot, in succ of its source and in     *)
(* pred of its destination, and every operation must keep them agreeing.   *)
(*                                                                         *)
(* One action per public operation.  Guards are the asserts of the code,   *)
(* i.e. what a caller owes; the other disjuncts are its branches.  The     *)
(* order inside succ and pred is not modelled (no result depends on it);   *)
(* the order of the free lists is, since it decides which handle comes     *)
(* back.                                                                   *)
(***************************************************************************)
EXTENDS Integers, SequencesExt

CONSTANTS
  MaxStates,      \* bound on states_.size(), at least pre() and post()
  MaxTransitions, \* bound on transitions_.size()
  Label,          \* the ordinary labels
  prepost,        \* the special label of initial and final transitions
  Weight,         \* the values of the weightset (a finite part of it)
  zero,           \* its zero
  add(_, _),      \* its addition
  mul(_, _)       \* its product

ASSUME BoundsAssumption == MaxStates \in Nat \ {0, 1} /\ MaxTransitions \in Nat
ASSUME LabelAssumption == prepost \notin Label
ASSUME WeightAssumption == zero \in Weight

pre             == 0
post            == 1
null_state      == -1
null_transition == -1
lazy_transition == -2

State  == 0 .. MaxStates - 1
Handle == 0 .. MaxTransitions - 1
Labels == Label \union {prepost}

VARIABLES
  nstates,        \* states_.size()
  succ,           \* states_[s].succ
  pred,           \* states_[s].pred
  states_fs,      \* free indexes in states_
  ntransitions,   \* transitions_.size()
  src, dst,       \* transitions_[t].src, transitions_[t].dst
  label, weight,  \* transitions_[t].get_label(), transitions_[t].get_weight()
  transitions_fs  \* free indexes in transitions_

stateVars == <<nstates, states_fs>>
adjVars   == <<succ, pred>>
slotVars  == <<ntransitions, src, dst, label, weight, transitions_fs>>
vars      == <<stateVars, adjVars, slotVars>>

-----------------------------------------------------------------------------
(* Queries. *)

has_state(s)      == s \in 0 .. nstates - 1 /\ null_transition \notin succ[s]
is_lazy(s)        == lazy_transition \in succ[s]
is_lazy_in(s)     == lazy_transition \in pred[s]
has_transition(t) == t \in 0 .. ntransitions - 1 /\ src[t] # null_state

LiveStates      == {s \in State : has_state(s)}
LiveTransitions == {t \in Handle : has_transition(t)}

\* The search goes through the shorter of succ[p] and pred[q] only.
get_transition(p, q, l) ==
  LET found == IF Cardinality(succ[p]) <= Cardinality(pred[q])
               THEN {t \in succ[p] : dst[t] = q /\ label[t] = l}
               ELSE {t \in pred[q] : src[t] = p /\ label[t] = l}
  IN  IF found = {} THEN null_transition ELSE CHOOSE t \in found : TRUE

num_all_states == nstates - Len(states_fs)
num_initials   == Cardinality(succ[pre])
num_finals     == Cardinality(pred[post])
\* Mutant: the final transitions are not discounted.
MutNumTransitions == ntransitions - Len(transitions_fs) - num_initials
num_transitions ==
  ntransitions - Len(transitions_fs) - num_initials - num_finals

\* The asserts of get_transition.
Known(p, q) ==
  /\ has_state(p) /\ ~ is_lazy(p)
  /\ has_state(q) /\ ~ is_lazy_in(q)

\* The arcs the code accepts: never out of post(), into pre(), nor from
\* pre() to post(); the special label exactly on initial and final ones.
Legal(p, q, l) ==
  /\ p # post /\ q # pre /\ <<p, q>> # <<pre, post>>
  /\ l \in Labels
  /\ l = prepost <=> (p = pre \/ q = post)

-----------------------------------------------------------------------------
Init ==
  /\ nstates = 2
  /\ succ = [s \in State |-> {}]
  /\ pred = [s \in State |-> {}]
  /\ states_fs = <<>>
  /\ ntransitions = 0
  /\ src = [t \in Handle |-> null_state]
  /\ dst = [t \in Handle |-> null_state]
  /\ label = [t \in Handle |-> prepost]
  /\ weight = [t \in Handle |-> zero]
  /\ transitions_fs = <<>>

-----------------------------------------------------------------------------
(* States. *)

new_state ==
  /\ IF states_fs = <<>>
     THEN /\ nstates < MaxStates
          /\ nstates' = nstates + 1
          /\ UNCHANGED <<succ, states_fs>>
     ELSE /\ states_fs' = Front(states_fs)
          /\ succ' = [succ EXCEPT ![Last(states_fs)] = {}]
          /\ UNCHANGED nstates
  /\ UNCHANGED <<pred, slotVars>>

\* Mutant: the second pass runs on succ as it was before the first one.
MutDelStateLoopTwice(s) ==
  /\ has_state(s) /\ s > post
  /\ ~ is_lazy(s) /\ ~ is_lazy_in(s)
  /\ LET ins  == pred[s]
         outs == succ[s]
     IN  /\ succ' = [p \in State |->
                       IF p = s THEN {null_transition} ELSE succ[p] \ ins]
         /\ pred' = [q \in State |-> IF q = s THEN {} ELSE pred[q] \ outs]
         /\ src' = [t \in Handle |->
                      IF t \in ins \union outs THEN null_state ELSE src[t]]
         /\ \E is \in SetToSeqs(ins), os \in SetToSeqs(outs) :
              transitions_fs' = transitions_fs \o is \o os
  /\ states_fs' = Append(states_fs, s)
  /\ UNCHANGED <<nstates, ntransitions, dst, label, weight>>

\* Mutant: the erased state is marked in the wrong vector.
MutDelStateMarksPred(s) ==
  /\ has_state(s) /\ s > post
  /\ succ[s] = {} /\ pred[s] = {}
  /\ pred' = [pred EXCEPT ![s] = {null_transition}]
  /\ states_fs' = Append(states_fs, s)
  /\ UNCHANGED <<nstates, succ, slotVars>>

\* Mutant: the outgoing transitions outlive their source.
MutDelStateKeepsOuts(s) ==
  /\ has_state(s) /\ s > post
  /\ pred[s] = {}
  /\ succ' = [succ EXCEPT ![s] = {null_transition}]
  /\ states_fs' = Append(states_fs, s)
  /\ UNCHANGED <<nstates, pred, slotVars>>

\* del_transition_container on pred, then on what is left of succ: a loop
\* is freed by the first pass and must not be seen by the second one.  The
\* caller must not erase a lazy state: its sentinel is not a handle.
del_state(s) ==
  /\ has_state(s) /\ s > post
  /\ ~ is_lazy(s) /\ ~ is_lazy_in(s)
  /\ LET ins   == pred[s]
         succ1 == [p \in State |-> succ[p] \ ins]
         outs  == succ1[s]
         pred1 == [q \in State |-> IF q = s THEN {} ELSE pred[q] \ outs]
     IN  /\ succ' = [succ1 EXCEPT ![s] = {null_transition}]
         /\ pred' = pred1
         /\ src' = [t \in Handle |->
                      IF t \in ins \union outs THEN null_state ELSE src[t]]
         /\ \E is \in SetToSeqs(ins), os \in SetToSeqs(outs) :
              transitions_fs' = transitions_fs \o is \o os
  /\ states_fs' = Append(states_fs, s)
  /\ UNCHANGED <<nstates, ntransitions, dst, label, weight>>

\* Mutant: the sentinel is added to a vector that is in use.
MutSetLazyKeepsArcs(s, lazy) ==
  /\ has_state(s)
  /\ succ' = [succ EXCEPT ![s] = IF lazy THEN @ \union {lazy_transition} ELSE {}]
  /\ UNCHANGED <<stateVars, pred, slotVars>>

\* Both clear the vector, and keep at most the sentinel.
set_lazy(s, lazy) ==
  /\ has_state(s)
  /\ succ[s] \in {{}, {lazy_transition}}
  /\ succ' = [succ EXCEPT ![s] = IF lazy THEN {lazy_transition} ELSE {}]
  /\ UNCHANGED <<stateVars, pred, slotVars>>

set_lazy_in(s, lazy) ==
  /\ has_state(s)
  /\ pred[s] \in {{}, {lazy_transition}}
  /\ pred' = [pred EXCEPT ![s] = IF lazy THEN {lazy_transition} ELSE {}]
  /\ UNCHANGED <<stateVars, succ, slotVars>>

-----------------------------------------------------------------------------
(* Transitions: the steps the public operations share. *)

\* Mutant: the recycled handle stays on the free list.
MutCreateWithoutPop(p, q, l, w) ==
  LET t == IF transitions_fs = <<>> THEN ntransitions ELSE Last(transitions_fs)
  IN  /\ t < MaxTransitions
      /\ ntransitions' = ntransitions + (IF transitions_fs = <<>> THEN 1 ELSE 0)
      /\ src' = [src EXCEPT ![t] = p]
      /\ dst' = [dst EXCEPT ![t] = q]
      /\ label' = [label EXCEPT ![t] = l]
      /\ weight' = [weight EXCEPT ![t] = w]
      /\ succ' = [succ EXCEPT ![p] = @ \union {t}]
      /\ pred' = [pred EXCEPT ![q] = @ \union {t}]
      /\ UNCHANGED <<stateVars, transitions_fs>>

\* new_transition, once the weight is known not to be null.
Create(p, q, l, w) ==
  LET t == IF transitions_fs = <<>> THEN ntransitions ELSE Last(transitions_fs)
  IN  /\ t < MaxTransitions
      /\ IF transitions_fs = <<>>
         THEN ntransitions' = ntransitions + 1 /\ UNCHANGED transitions_fs
         ELSE transitions_fs' = Front(transitions_fs) /\ UNCHANGED ntransitions
      /\ src' = [src EXCEPT ![t] = p]
      /\ dst' = [dst EXCEPT ![t] = q]
      /\ label' = [label EXCEPT ![t] = l]
      /\ weight' = [weight EXCEPT ![t] = w]
      /\ succ' = [succ EXCEPT ![p] = @ \union {t}]
      /\ pred' = [pred EXCEPT ![q] = @ \union {t}]
      /\ UNCHANGED stateVars

\* Mutant: the destination is not told.
MutEraseKeepsPred(t) ==
  /\ succ' = [succ EXCEPT ![src[t]] = @ \ {t}]
  /\ src' = [src EXCEPT ![t] = null_state]
  /\ transitions_fs' = Append(transitions_fs, t)
  /\ UNCHANGED <<stateVars, pred, ntransitions, dst, label, weight>>

\* del_transition: out of both vectors, then the slot is marked and freed.
Erase(t) ==
  /\ succ' = [succ EXCEPT ![src[t]] = @ \ {t}]
  /\ pred' = [pred EXCEPT ![dst[t]] = @ \ {t}]
  /\ src' = [src EXCEPT ![t] = null_state]
  /\ transitions_fs' = Append(transitions_fs, t)
  /\ UNCHANGED <<stateVars, ntransitions, dst, label, weight>>

\* Mutant: a transition whose weight becomes null is kept.
MutReweighKeepsNull(t, w) ==
  /\ w \in Weight
  /\ weight' = [weight EXCEPT ![t] = w]
  /\ UNCHANGED <<stateVars, adjVars, ntransitions, src, dst, label,
                 transitions_fs>>

\* set_weight on a live transition: a null weight erases it.
Reweigh(t, w) ==
  /\ w \in Weight
  /\ IF w = zero THEN Erase(t)
     ELSE /\ weight' = [weight EXCEPT ![t] = w]
          /\ UNCHANGED <<stateVars, adjVars, ntransitions, src, dst, label,
                         transitions_fs>>

\* new_transition: a null weight creates nothing.
CreateUnlessNull(p, q, l, w) ==
  IF w = zero THEN UNCHANGED vars ELSE Create(p, q, l, w)

-----------------------------------------------------------------------------
(* Transitions: the public operations. *)

new_transition(p, q, l, w) ==
  /\ Known(p, q) /\ Legal(p, q, l)
  /\ get_transition(p, q, l) = null_transition
  /\ CreateUnlessNull(p, q, l, w)

set_transition(p, q, l, w) ==
  /\ Known(p, q) /\ Legal(p, q, l)
  /\ LET t == get_transition(p, q, l)
     IN  IF t = null_transition THEN CreateUnlessNull(p, q, l, w)
         ELSE Reweigh(t, w)

add_transition(p, q, l, w) ==
  /\ Known(p, q) /\ Legal(p, q, l)
  /\ LET t == get_transition(p, q, l)
     IN  IF t = null_transition THEN CreateUnlessNull(p, q, l, w)
         ELSE Reweigh(t, add(weight[t], w))

del_transition(t) ==
  /\ has_transition(t)
  /\ Erase(t)

del_transition_arc(p, q, l) ==
  /\ Known(p, q) /\ Legal(p, q, l)
  /\ LET t == get_transition(p, q, l)
     IN  IF t = null_transition THEN UNCHANGED vars ELSE Erase(t)

set_weight(t, w) == has_transition(t) /\ Reweigh(t, w)

\* These three read the weight of the transition after having set it, so
\* the caller must know that the result is not null.
add_weight(t, w) ==
  has_transition(t) /\ add(weight[t], w) # zero /\ Reweigh(t, add(weight[t], w))
lweight(t, w) ==
  has_transition(t) /\ mul(w, weight[t]) # zero /\ Reweigh(t, mul(w, weight[t]))
rweight(t, w) ==
  has_transition(t) /\ mul(weight[t], w) # zero /\ Reweigh(t, mul(weight[t], w))

-----------------------------------------------------------------------------
NextState ==
  \/ new_state
  \/ \E s \in State :
       \/ del_state(s)
       \/ \E lazy \in BOOLEAN : set_lazy(s, lazy) \/ set_lazy_in(s, lazy)

\* With prepost as the label, these are also set_initial, set_final,
\* add_initial, add_final, unset_initial and unset_final.
NextArc ==
  \E p, q \in State, l \in Labels :
    \/ del_transition_arc(p, q, l)
    \/ \E w \in Weight :
         \/ new_transition(p, q, l, w)
         \/ set_transition(p, q, l, w)
         \/ add_transition(p, q, l, w)

NextHandle ==
  \E t \in Handle :
    \/ del_transition(t)
    \/ \E w \in Weight :
         \/ set_weight(t, w)
         \/ add_weight(t, w)
         \/ lweight(t, w)
         \/ rweight(t, w)

Next == NextState \/ NextArc \/ NextHandle

Spec == Init /\ [][Next]_vars

-----------------------------------------------------------------------------
(* Types and the state invariants. *)

TypeOK ==
  /\ nstates \in 2 .. MaxStates
  /\ ntransitions \in 0 .. MaxTransitions
  /\ succ \in [State -> SUBSET (Handle \union {null_transition, lazy_transition})]
  /\ pred \in [State -> SUBSET (Handle \union {lazy_transition})]
  /\ states_fs \in Seq(State)
  /\ transitions_fs \in Seq(Handle)
  /\ src \in [Handle -> State \union {null_state}]
  /\ dst \in [Handle -> State \union {null_state}]
  /\ label \in [Handle -> Labels]
  /\ weight \in [Handle -> Weight]

\* The free lists hold exactly the erased slots, each of them once: a slot
\* freed twice would later be handed out to two owners, one freed never
\* would be lost.  (del_state, del_transition_container, new_state.)
FreeStoresExact ==
  /\ IsInjective(states_fs) /\ IsInjective(transitions_fs)
  /\ Range(states_fs) = {s \in 0 .. nstates - 1 : ~ has_state(s)}
  /\ Range(transitions_fs) =
       {t \in 0 .. ntransitions - 1 : src[t] = null_state}

\* The three records of a transition agree: succ[s] holds the handles of
\* the live transitions whose source is s, pred[s] those whose destination
\* is s, and both ends are live states.
Incidence ==
  /\ \A s \in State :
       /\ succ[s] \ {null_transition, lazy_transition} =
            {t \in LiveTransitions : src[t] = s}
       /\ pred[s] \ {lazy_transition} =
            {t \in LiveTransitions : dst[t] = s}
  /\ \A t \in LiveTransitions : has_state(src[t]) /\ has_state(dst[t])

\* A sentinel is alone in its vector, and an erased state has no
\* predecessors: has_state and is_lazy look at the first handle only.
SentinelsAlone ==
  \A s \in State :
    /\ null_transition \in succ[s] => succ[s] = {null_transition} /\ pred[s] = {}
    /\ lazy_transition \in succ[s] => succ[s] = {lazy_transition}
    /\ lazy_transition \in pred[s] => pred[s] = {lazy_transition}
    /\ s >= nstates => succ[s] = {} /\ pred[s] = {}

\* At most one transition per (source, label, destination), never weighted
\* zero, and legal, so that the automaton is the function that
\* WeightedGraph talks about and a lookup has one possible answer.
ArcsAreFunction ==
  /\ \A t, u \in LiveTransitions :
       src[t] = src[u] /\ dst[t] = dst[u] /\ label[t] = label[u] => t = u
  /\ \A t \in LiveTransitions :
       weight[t] # zero /\ Legal(src[t], dst[t], label[t])

\* num_transitions(), computed from four sizes, is the number of ordinary
\* transitions, unless the sentinel of a lazy pre() or post() is counted.
CountersExact ==
  ~ is_lazy(pre) /\ ~ is_lazy_in(post) =>
    /\ num_all_states = Cardinality(LiveStates)
    /\ num_transitions =
         Cardinality({t \in LiveTransitions : label[t] # prepost})

\* The transitions that are live before and after a step denote the same
\* arc before and after it.
Kept ==
  \A t \in LiveTransitions :
    has_transition(t)' =>
      src'[t] = src[t] /\ dst'[t] = dst[t] /\ label'[t] = label[t]

\* A handle that stays live keeps denoting the same arc, whatever is
\* created, erased or recycled around it: algorithms keep handles while
\* they edit the automaton.
HandlesStable == [][Kept]_vars

-----------------------------------------------------------------------------
(* The automaton that the store represents. *)

ArcOf(t) == [src |-> src[t], label |-> label[t], dst |-> dst[t]]

ArcWeights ==
  [a \in {ArcOf(t) : t \in LiveTransitions} |->
     weight[CHOOSE t \in LiveTransitions : ArcOf(t) = a]]

Graph == INSTANCE WeightedGraph WITH
  Label   <- Labels,
  live    <- LiveStates,
  arcs    <- ArcWeights,
  lazyOut <- {s \in LiveStates : is_lazy(s)},
  lazyIn  <- {s \in LiveStates : is_lazy_in(s)}

\* Every operation on the store is one operation on the automaton it
\* represents, or changes nothing that can be observed.
ImplementsGraph == Graph!Spec

-----------------------------------------------------------------------------
(* Model checking: over the field F2, 1 + 1 is null and the sums stay in   *)
(* the set.                                                                *)

F2Add(x, y) == (x + y) % 2
F2Mul(x, y) == (x * y) % 2

\* What an erased slot still contains is never read: states that differ only
\* there are the same state.
LiveView ==
  <<nstates, succ, pred, states_fs, ntransitions, src, transitions_fs,
    [t \in LiveTransitions |-> <<dst[t], label[t], weight[t]>>]>>
=============================================================================
