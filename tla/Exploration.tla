---------------------------- MODULE Exploration ----------------------------
(***************************************************************************)
(* What a construction on the fly promises: states have names, the arcs    *)
(* that leave a state depend on its name only, and states are served, once *)
(* each, in an order that nobody has to know.                              *)
(***************************************************************************)
EXTENDS TLAPS

CONSTANTS
  Leaving(_, _),   \* the arcs of a problem that leave a name, with those
  IsNull(_, _),    \* that weigh nothing: they make names known, but no arc
  First(_),        \* the name of pre()
  Last(_)          \* the name of post(), which no arc leaves

VARIABLES
  problem,         \* what is constructed, from what
  known,           \* the names that have a state
  served,          \* those whose arcs are in the result
  arcs             \* the result

vars == <<problem, known, served, arcs>>

Init ==
  /\ known = {First(problem), Last(problem)}
  /\ served = {Last(problem)}
  /\ arcs = {}

Serve(n) ==
  /\ n \in known \ served
  /\ arcs' = arcs \union {a \in Leaving(problem, n) : ~ IsNull(problem, a)}
  /\ known' = known \union {a.dst : a \in Leaving(problem, n)}
  /\ served' = served \union {n}
  /\ UNCHANGED problem

Next == \E n \in known : Serve(n)

Spec == Init /\ [][Next]_vars

-----------------------------------------------------------------------------
\* The result is made of the arcs of the names that are served; their ends are
\* known.
ArcsAreServed ==
  /\ served \subseteq known
  /\ First(problem) \in known
  /\ \A n \in served \ {Last(problem)} :
       \A a \in Leaving(problem, n) : a.dst \in known /\ (IsNull(problem, a) \/ a \in arcs)
  /\ \A a \in arcs :
       /\ a.dst \in known /\ ~ IsNull(problem, a)
       /\ \E n \in served \ {Last(problem)} : a \in Leaving(problem, n)

-----------------------------------------------------------------------------
(* What an exploration constructs does not depend on the order in which    *)
(* names are served, whatever the construction: proofs for all problems,   *)
(* finite or not.                                                          *)

Inner(S) == S \ {Last(problem)}

\* A set of names that holds the first and the last one, and those that the
\* arcs of its names lead to.
Closed(K) ==
  /\ {First(problem), Last(problem)} \subseteq K
  /\ \A n \in Inner(K) : \A a \in Leaving(problem, n) : a.dst \in K

\* Only names that are accessible get a state: those of every closed set.
OnlyAccessible == \A K : Closed(K) => known \subseteq K

\* The arcs of a set of names.
ArcsOf(S) ==
  {a \in UNION {Leaving(problem, n) : n \in Inner(S)} : ~ IsNull(problem, a)}

\* Once all is served, the result is the accessible part: its names are the
\* least closed set, its arcs are theirs.
AccessiblePart ==
  served = known =>
    /\ Closed(known)
    /\ OnlyAccessible
    /\ arcs = ArcsOf(known)

\* What a client reads of a name that is served.
Answer(n) == arcs \intersect Leaving(problem, n)

\* No later step changes an answer, or takes a name back.
AnswersStay ==
  [][/\ known \subseteq known'
     /\ served \subseteq served'
     /\ \A n \in Inner(served) : Answer(n)' = Answer(n)]_vars

IInv ==
  /\ ArcsAreServed
  /\ Last(problem) \in served
  /\ OnlyAccessible

-----------------------------------------------------------------------------
(* The inductive invariant. *)

LEMMA InitLemma == Init => IInv
  BY DEF Init, IInv, ArcsAreServed, OnlyAccessible, Closed

LEMMA ServeLemma ==
  ASSUME IInv, NEW n \in known, Serve(n)
  PROVE  IInv'
<1>0. /\ n \in known /\ n \notin served /\ n # Last(problem) /\ problem' = problem
      /\ arcs' = arcs \union {a \in Leaving(problem, n) : ~ IsNull(problem, a)}
      /\ known' = known \union {a.dst : a \in Leaving(problem, n)}
      /\ served' = served \union {n}
  BY DEF IInv, Serve
<1>1. served' \subseteq known' /\ (First(problem) \in known)' /\ (Last(problem) \in served)'
  BY <1>0 DEF IInv, ArcsAreServed
<1>2. ASSUME NEW m \in served' \ {Last(problem)}, NEW a \in Leaving(problem, m)
      PROVE  a.dst \in known' /\ (IsNull(problem, a) \/ a \in arcs')
  <2>1. CASE m = n
    BY <1>0, <2>1
  <2>2. CASE m # n
    BY <1>0, <2>2 DEF IInv, ArcsAreServed
  <2> QED BY <2>1, <2>2
<1>3. ASSUME NEW a \in arcs'
      PROVE  /\ a.dst \in known' /\ ~ IsNull(problem, a)
             /\ \E m \in served' \ {Last(problem)} : a \in Leaving(problem, m)
  <2>1. CASE a \in arcs
    BY <1>0, <2>1 DEF IInv, ArcsAreServed
  <2>2. CASE a \in Leaving(problem, n) /\ ~ IsNull(problem, a)
    BY <1>0, <2>2
  <2> QED BY <1>0, <2>1, <2>2
<1>4. ArcsAreServed'
  BY <1>0, <1>1, <1>2, <1>3 DEF ArcsAreServed
<1>5. OnlyAccessible'
  <2> SUFFICES ASSUME NEW K, Closed(K)
               PROVE  known' \subseteq K
    BY <1>0 DEF OnlyAccessible, Closed, Inner
  <2>1. known \subseteq K
    BY DEF IInv, OnlyAccessible
  <2>2. \A a \in Leaving(problem, n) : a.dst \in K
    BY <1>0, <2>1 DEF Closed, Inner
  <2> QED BY <1>0, <2>1, <2>2
<1> QED BY <1>1, <1>4, <1>5 DEF IInv

LEMMA NextLemma == IInv /\ [Next]_vars => IInv'
<1> SUFFICES ASSUME IInv, [Next]_vars PROVE IInv'
  OBVIOUS
<1>1. CASE Next
  BY <1>1, ServeLemma DEF Next
<1>2. CASE UNCHANGED vars
  BY <1>2 DEF vars, IInv, ArcsAreServed, OnlyAccessible, Closed, Inner
<1> QED BY <1>1, <1>2

LEMMA InvariantLemma == Spec => []IInv
  BY InitLemma, NextLemma, PTL DEF Spec

-----------------------------------------------------------------------------
(* The theorems. *)

\* The result is made of the arcs of the names served, all of them, and their
\* ends are known: no state is created for nothing and none is forgotten.
THEOREM ArcsServed == Spec => []ArcsAreServed
<1>1. IInv => ArcsAreServed
  BY DEF IInv
<1> QED BY <1>1, InvariantLemma, PTL

\* At the end, the loop over todo_ and the clients of a lazy automaton, in any
\* order, have constructed the same automaton: its accessible part.
THEOREM OrderDoesNotMatter == Spec => []AccessiblePart
<1>1. IInv => AccessiblePart
  <2> SUFFICES ASSUME IInv, served = known
               PROVE  Closed(known) /\ OnlyAccessible /\ arcs = ArcsOf(known)
    BY DEF AccessiblePart
  <2>1. Closed(known)
    BY DEF IInv, ArcsAreServed, Closed, Inner
  <2>2. arcs \subseteq ArcsOf(known)
    BY DEF IInv, ArcsAreServed, ArcsOf, Inner
  <2>3. ArcsOf(known) \subseteq arcs
    BY DEF IInv, ArcsAreServed, ArcsOf, Inner
  <2> QED BY <2>1, <2>2, <2>3 DEF IInv
<1> QED BY <1>1, InvariantLemma, PTL

\* What a client was told of a state holds for ever, whoever asks for other
\* states later: the marks of lazy_automaton_editor can be trusted.
THEOREM AnswersDoStay == Spec => AnswersStay
<1>1. ASSUME IInv, [Next]_vars
      PROVE  [/\ known \subseteq known'
              /\ served \subseteq served'
              /\ \A n \in Inner(served) : Answer(n)' = Answer(n)]_vars
  <2> SUFFICES ASSUME NEW m \in known, Serve(m)
               PROVE  /\ known \subseteq known'
                      /\ served \subseteq served'
                      /\ \A n \in Inner(served) : Answer(n)' = Answer(n)
    BY <1>1 DEF Next, vars
  <2>1. /\ known \subseteq known' /\ served \subseteq served' /\ problem' = problem
        /\ arcs' = arcs \union {a \in Leaving(problem, m) : ~ IsNull(problem, a)}
    BY DEF Serve
  <2>2. ASSUME NEW n \in Inner(served), NEW a \in Leaving(problem, n)
        PROVE  a \in arcs' <=> a \in arcs
    <3>1. IsNull(problem, a) \/ a \in arcs
      BY <1>1 DEF IInv, ArcsAreServed, Inner
    <3> QED BY <2>1, <3>1
  <2>3. ASSUME NEW n \in Inner(served)
        PROVE  Answer(n)' = Answer(n)
    BY <2>1, <2>2 DEF Answer
  <2> QED BY <2>1, <2>3
<1> QED BY <1>1, InvariantLemma, PTL DEF Spec, AnswersStay
=============================================================================
