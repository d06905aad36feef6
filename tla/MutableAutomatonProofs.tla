----------------------- MODULE MutableAutomatonProofs -----------------------
(***************************************************************************)
(* The store of automata keeps its three records of each transition in     *)
(* agreement and its free lists exact, for every number of states, of      *)
(* transitions, of labels and of weights, whatever the weightset.          *)
(***************************************************************************)
EXTENDS MutableAutomaton, FiniteSetTheorems, SequenceTheorems, TLAPS

-----------------------------------------------------------------------------
(* Free lists: what pushing, popping and concatenating does to a sequence  *)
(* without repetitions.                                                    *)

\* pop_back on a free list takes one number off it, and only that one.
LEMMA PopLemma ==
  ASSUME NEW S, NEW q \in Seq(S), q # <<>>, IsInjective(q)
  PROVE  /\ Last(q) \in S /\ Last(q) \in Range(q)
         /\ Front(q) \in Seq(S)
         /\ IsInjective(Front(q))
         /\ Range(Front(q)) = Range(q) \ {Last(q)}
<1>1. Len(q) \in Nat \ {0} /\ DOMAIN q = 1 .. Len(q)
  BY EmptySeq, LenProperties
<1>2. \A i \in 1 .. Len(q) : q[i] \in S
  BY ElementOfSeq
<1>3. /\ Front(q) \in Seq(S)
      /\ Len(Front(q)) = Len(q) - 1
      /\ \A i \in 1 .. Len(q) - 1 : Front(q)[i] = q[i]
  <2>1. \A i \in 1 .. Len(q) - 1 : q[i] \in S
    BY <1>1, <1>2
  <2>2. /\ SubSeq(q, 1, Len(q) - 1) \in Seq(S)
        /\ Len(SubSeq(q, 1, Len(q) - 1)) =
             IF 1 <= Len(q) - 1 THEN Len(q) - 1 - 1 + 1 ELSE 0
        /\ \A i \in 1 .. Len(q) - 1 - 1 + 1 :
             SubSeq(q, 1, Len(q) - 1)[i] = q[1 + i - 1]
    BY <1>1, <2>1, SubSeqProperties
  <2>. QED
    BY <1>1, <2>2 DEF Front
<1>4. DOMAIN Front(q) = 1 .. Len(q) - 1
  BY <1>3, LenProperties
<1>5. Last(q) \in S /\ Last(q) \in Range(q)
  BY <1>1, <1>2 DEF Last, Range
<1>6. IsInjective(Front(q))
  BY <1>1, <1>3, <1>4 DEF IsInjective
<1>7. Range(Front(q)) = Range(q) \ {Last(q)}
  BY <1>1, <1>3, <1>4 DEF IsInjective, Range, Last
<1>. QED
  BY <1>3, <1>5, <1>6, <1>7

\* emplace_back of a number that is not on the list yet.
LEMMA PushLemma ==
  ASSUME NEW S, NEW q \in Seq(S), IsInjective(q), NEW e \in S, e \notin Range(q)
  PROVE  /\ Append(q, e) \in Seq(S)
         /\ IsInjective(Append(q, e))
         /\ Range(Append(q, e)) = Range(q) \union {e}
<1>1. Len(q) \in Nat /\ DOMAIN q = 1 .. Len(q)
  BY LenProperties
<1>2. /\ Append(q, e) \in Seq(S)
      /\ Len(Append(q, e)) = Len(q) + 1
      /\ \A i \in 1 .. Len(q) : Append(q, e)[i] = q[i]
      /\ Append(q, e)[Len(q) + 1] = e
  BY AppendProperties
<1>3. DOMAIN Append(q, e) = 1 .. Len(q) + 1
  BY <1>2, LenProperties
<1>4. IsInjective(Append(q, e))
  BY <1>1, <1>2, <1>3 DEF IsInjective, Range
<1>5. Range(Append(q, e)) = Range(q) \union {e}
  BY <1>1, <1>2, <1>3 DEF Range
<1>. QED
  BY <1>2, <1>4, <1>5

\* insert at the end of the list: both lists are without repetitions and
\* have nothing in common.
LEMMA ConcatLemma ==
  ASSUME NEW S, NEW q \in Seq(S), NEW r \in Seq(S),
         IsInjective(q), IsInjective(r), Range(q) \intersect Range(r) = {}
  PROVE  /\ q \o r \in Seq(S)
         /\ IsInjective(q \o r)
         /\ Range(q \o r) = Range(q) \union Range(r)
<1>1. /\ Len(q) \in Nat /\ DOMAIN q = 1 .. Len(q)
      /\ Len(r) \in Nat /\ DOMAIN r = 1 .. Len(r)
  BY LenProperties
<1>2. /\ q \o r \in Seq(S)
      /\ Len(q \o r) = Len(q) + Len(r)
      /\ \A i \in 1 .. Len(q) + Len(r) :
           (q \o r)[i] = IF i <= Len(q) THEN q[i] ELSE r[i - Len(q)]
  BY ConcatProperties
<1>3. DOMAIN (q \o r) = 1 .. Len(q) + Len(r)
  BY <1>2, LenProperties
<1>4. IsInjective(q \o r)
  <2>. SUFFICES ASSUME NEW i \in DOMAIN (q \o r), NEW j \in DOMAIN (q \o r),
                       (q \o r)[i] = (q \o r)[j]
                PROVE  i = j
    BY DEF IsInjective
  <2>. i \in 1 .. Len(q) + Len(r) /\ j \in 1 .. Len(q) + Len(r)
    BY <1>3
  <2>1. CASE i <= Len(q) /\ j <= Len(q)
    BY <2>1, <1>1, <1>2 DEF IsInjective
  <2>2. CASE i <= Len(q) /\ ~ (j <= Len(q))
    <3>1. q[i] \in Range(q)
      BY <2>2, <1>1, <1>3 DEF Range
    <3>2. j - Len(q) \in DOMAIN r /\ r[j - Len(q)] \in Range(r)
      BY <2>2, <1>1, <1>3 DEF Range
    <3>. QED
      BY <2>2, <3>1, <3>2, <1>1, <1>2, <1>3
  <2>3. CASE ~ (i <= Len(q)) /\ j <= Len(q)
    <3>1. q[j] \in Range(q)
      BY <2>3, <1>1, <1>3 DEF Range
    <3>2. i - Len(q) \in DOMAIN r /\ r[i - Len(q)] \in Range(r)
      BY <2>3, <1>1, <1>3 DEF Range
    <3>. QED
      BY <2>3, <3>1, <3>2, <1>1, <1>2, <1>3
  <2>4. CASE ~ (i <= Len(q)) /\ ~ (j <= Len(q))
    <3>1. i - Len(q) \in DOMAIN r /\ j - Len(q) \in DOMAIN r
      BY <2>4, <1>1
    <3>2. r[i - Len(q)] = r[j - Len(q)]
      BY <2>4, <1>2
    <3>3. i - Len(q) = j - Len(q)
      BY <3>1, <3>2 DEF IsInjective
    <3>. QED
      BY <3>3, <1>1
  <2>. QED
    BY <2>1, <2>2, <2>3, <2>4
<1>5. Range(q \o r) = Range(q) \union Range(r)
  <2>1. \A i \in 1 .. Len(q) : i \in DOMAIN (q \o r) /\ (q \o r)[i] = q[i]
    BY <1>1, <1>2, <1>3
  <2>2. \A i \in 1 .. Len(r) :
          i + Len(q) \in DOMAIN (q \o r) /\ (q \o r)[i + Len(q)] = r[i]
    BY <1>1, <1>2, <1>3
  <2>3. \A i \in DOMAIN (q \o r) : (q \o r)[i] \in Range(q) \union Range(r)
    BY <1>1, <1>2, <1>3 DEF Range
  <2>4. Range(q) \subseteq Range(q \o r)
    BY <1>1, <2>1 DEF Range
  <2>5. Range(r) \subseteq Range(q \o r)
    BY <1>1, <2>2 DEF Range
  <2>6. Range(q \o r) \subseteq Range(q) \union Range(r)
    BY <2>3 DEF Range
  <2>. QED
    BY <2>4, <2>5, <2>6
<1>. QED
  BY <1>2, <1>4, <1>5

\* The vector of a finite set of handles lists each of them once.
LEMMA OrderLemma ==
  ASSUME NEW S, IsFiniteSet(S), NEW q \in SetToSeqs(S)
  PROVE  q \in Seq(S) /\ IsInjective(q) /\ Range(q) = S
<1>. DEFINE n == Cardinality(S)
<1>1. n \in Nat
  BY FS_CardinalityType
<1>2. q \in [1 .. n -> S] /\ \A i, j \in 1 .. n : i # j => q[i] # q[j]
  BY DEF SetToSeqs
<1>. HIDE DEF n
<1>3. q \in Seq(S)
  BY <1>1, <1>2, SeqDef
<1>4. IsInjective(q)
  BY <1>2 DEF IsInjective
<1>5. q \in Injection(1 .. n, S)
  BY <1>2, <1>4 DEF Injection
<1>6. IsFiniteSet(1 .. n) /\ Cardinality(1 .. n) = n
  BY <1>1, FS_Interval
<1>7. q \in Surjection(1 .. n, S)
  BY <1>5, <1>6, FS_Injection DEF n
<1>8. Range(q) = S
  BY <1>2, <1>7 DEF Surjection, Range
<1>. QED
  BY <1>3, <1>4, <1>8

-----------------------------------------------------------------------------
(* The inductive invariant, and the steps the operations share.            *)

IInv == TypeOK /\ FreeStoresExact /\ Incidence /\ SentinelsAlone /\ ArcsAreFunction

\* A step keeps a transition as it is; it keeps what a state is.
SameTransition(u) ==
  /\ src'[u] = src[u] /\ dst'[u] = dst[u]
  /\ label'[u] = label[u] /\ weight'[u] = weight[u]

SameState(s) ==
  /\ has_state(s)' <=> has_state(s)
  /\ is_lazy(s)' <=> is_lazy(s)
  /\ is_lazy_in(s)' <=> is_lazy_in(s)

\* A lookup that fails proves that there is no such transition, although it
\* reads one of the two adjacency vectors only.
LEMMA GetTransitionLemma ==
  ASSUME IInv, NEW p \in State, NEW q \in State, NEW l \in Labels, Known(p, q)
  PROVE  LET t == get_transition(p, q, l)
         IN  /\ t = null_transition =>
                  \A u \in LiveTransitions :
                    ~ (src[u] = p /\ dst[u] = q /\ label[u] = l)
             /\ t # null_transition =>
                  /\ t \in Handle /\ has_transition(t)
                  /\ src[t] = p /\ dst[t] = q /\ label[t] = l
<1>. DEFINE S1 == {t \in succ[p] : dst[t] = q /\ label[t] = l}
            S2 == {t \in pred[q] : src[t] = p /\ label[t] = l}
            L  == {t \in LiveTransitions : src[t] = p /\ dst[t] = q /\ label[t] = l}
<1>1. succ[p] = {t \in LiveTransitions : src[t] = p}
  BY DEF IInv, TypeOK, Incidence, Known, has_state, is_lazy
<1>2. pred[q] = {t \in LiveTransitions : dst[t] = q}
  BY DEF IInv, TypeOK, Incidence, Known, is_lazy_in
<1>3. S1 = L /\ S2 = L
  BY <1>1, <1>2
<1>. DEFINE F == IF Cardinality(succ[p]) <= Cardinality(pred[q]) THEN S1 ELSE S2
<1>4. get_transition(p, q, l) =
        IF L = {} THEN null_transition ELSE CHOOSE t \in L : TRUE
  <2>1. get_transition(p, q, l) =
          IF F = {} THEN null_transition ELSE CHOOSE t \in F : TRUE
    BY Zenon DEF get_transition
  <2>2. F = L
    BY <1>3
  <2>. HIDE DEF F, L
  <2>. QED
    BY <2>1, <2>2
<1>5. L \subseteq Handle /\ null_transition \notin Handle
  BY DEF LiveTransitions, Handle, null_transition
<1>6. L # {} => (CHOOSE t \in L : TRUE) \in L
  OBVIOUS
<1>. QED
  BY <1>4, <1>5, <1>6 DEF LiveTransitions

\* new_transition keeps the invariant: the slot it takes is not in use, and
\* the arc does not exist yet.
LEMMA CreateLemma ==
  ASSUME IInv, NEW p \in State, NEW q \in State, NEW l \in Labels, NEW w \in Weight,
         Known(p, q), Legal(p, q, l), w # zero,
         \A u \in LiveTransitions : ~ (src[u] = p /\ dst[u] = q /\ label[u] = l),
         Create(p, q, l, w)
  PROVE  /\ IInv'
         /\ \A u \in LiveTransitions : SameTransition(u)
         /\ \A s \in State : SameState(s)
         /\ \E t \in Handle \ LiveTransitions :
              /\ LiveTransitions' = LiveTransitions \union {t}
              /\ src'[t] = p /\ dst'[t] = q /\ label'[t] = l /\ weight'[t] = w
<1>. DEFINE t == IF transitions_fs = <<>> THEN ntransitions ELSE Last(transitions_fs)
<1>. USE BoundsAssumption
<1>1. /\ t < MaxTransitions
      /\ src' = [src EXCEPT ![t] = p]
      /\ dst' = [dst EXCEPT ![t] = q]
      /\ label' = [label EXCEPT ![t] = l]
      /\ weight' = [weight EXCEPT ![t] = w]
      /\ succ' = [succ EXCEPT ![p] = @ \union {t}]
      /\ pred' = [pred EXCEPT ![q] = @ \union {t}]
      /\ nstates' = nstates /\ states_fs' = states_fs
  BY DEF Create, stateVars
<1>2. /\ t \in Handle /\ t \notin LiveTransitions
      /\ LiveTransitions' = LiveTransitions \union {t}
      /\ transitions_fs' \in Seq(Handle) /\ IsInjective(transitions_fs')
      /\ Range(transitions_fs') = Range(transitions_fs) \ {t}
      /\ ntransitions' \in 0 .. MaxTransitions
      /\ 0 .. ntransitions' - 1 = (0 .. ntransitions - 1) \union {t}
  <2>. src \in [Handle -> State \union {null_state}] /\ p # null_state
    BY DEF IInv, TypeOK, State, null_state
  <2>1. CASE transitions_fs = <<>>
    <3>1. t = ntransitions /\ ntransitions' = ntransitions + 1
          /\ transitions_fs' = transitions_fs
      BY <2>1 DEF Create
    <3>2. t \in Handle /\ t \notin 0 .. ntransitions - 1
          /\ 0 .. ntransitions' - 1 = (0 .. ntransitions - 1) \union {t}
          /\ ntransitions' \in 0 .. MaxTransitions
      <4>1. ntransitions \in Nat /\ t = ntransitions /\ t + 1 <= MaxTransitions
        BY <1>1, <3>1 DEF IInv, TypeOK
      <4>. HIDE DEF t
      <4>. QED
        BY <4>1, <3>1 DEF Handle
    <3>3. Range(transitions_fs) = {}
      BY <2>1 DEF Range
    <3>4. t \notin LiveTransitions /\ LiveTransitions' = LiveTransitions \union {t}
      BY <1>1, <3>2 DEF LiveTransitions, has_transition
    <3>. QED
      BY <3>1, <3>2, <3>3, <3>4 DEF IInv, TypeOK, FreeStoresExact
  <2>2. CASE transitions_fs # <<>>
    <3>1. t = Last(transitions_fs) /\ transitions_fs' = Front(transitions_fs)
          /\ ntransitions' = ntransitions
      BY <2>2 DEF Create
    <3>2. /\ t \in Handle /\ t \in Range(transitions_fs)
          /\ transitions_fs' \in Seq(Handle)
          /\ IsInjective(transitions_fs')
          /\ Range(transitions_fs') = Range(transitions_fs) \ {t}
      BY <2>2, <3>1, PopLemma DEF IInv, TypeOK, FreeStoresExact
    <3>3. t \in 0 .. ntransitions - 1 /\ src[t] = null_state
      BY <3>2 DEF IInv, FreeStoresExact
    <3>4. t \notin LiveTransitions /\ LiveTransitions' = LiveTransitions \union {t}
      BY <1>1, <3>1, <3>2, <3>3 DEF LiveTransitions, has_transition
    <3>. QED
      BY <3>1, <3>2, <3>3, <3>4 DEF IInv, TypeOK
  <2>. QED
    BY <2>1, <2>2
<1>. HIDE DEF t
<1>3. TypeOK'
  BY <1>1, <1>2 DEF IInv, TypeOK
<1>4. \A s \in State : /\ has_state(s)' <=> has_state(s)
                       /\ is_lazy(s)' <=> is_lazy(s)
                       /\ is_lazy_in(s)' <=> is_lazy_in(s)
  BY <1>1, <1>2 DEF IInv, TypeOK, has_state, is_lazy, is_lazy_in,
     null_transition, lazy_transition, Handle
<1>5. FreeStoresExact'
  <2>1. {s \in 0 .. nstates - 1 : ~ has_state(s)}' =
        {s \in 0 .. nstates - 1 : ~ has_state(s)}
    BY <1>1, <1>4 DEF IInv, TypeOK, State
  <2>2. {u \in 0 .. ntransitions - 1 : src[u] = null_state}' =
        {u \in 0 .. ntransitions - 1 : src[u] = null_state} \ {t}
    <3>1. p # null_state
      BY DEF State, null_state
    <3>2. 0 .. ntransitions' - 1 \subseteq Handle
      BY <1>2 DEF Handle
    <3>3. t \notin LiveTransitions
      BY <1>2
    <3>. QED
      BY <1>1, <1>2, <3>1, <3>2 DEF IInv, TypeOK
  <2>. QED
    BY <1>1, <1>2, <2>1, <2>2 DEF IInv, FreeStoresExact
<1>6. Incidence'
  <2>1. ASSUME NEW s \in State
        PROVE  /\ (succ[s] \ {null_transition, lazy_transition})' =
                    {u \in LiveTransitions' : src'[u] = s}
               /\ (pred[s] \ {lazy_transition})' =
                    {u \in LiveTransitions' : dst'[u] = s}
    <3>1. t # null_transition /\ t # lazy_transition
      BY <1>2 DEF Handle, null_transition, lazy_transition
    <3>2. LiveTransitions \subseteq Handle
      BY DEF LiveTransitions
    <3>3. {u \in LiveTransitions' : src'[u] = s} =
          {u \in LiveTransitions : src[u] = s} \union (IF s = p THEN {t} ELSE {})
      BY <1>1, <1>2, <3>2 DEF IInv, TypeOK
    <3>4. {u \in LiveTransitions' : dst'[u] = s} =
          {u \in LiveTransitions : dst[u] = s} \union (IF s = q THEN {t} ELSE {})
      BY <1>1, <1>2, <3>2 DEF IInv, TypeOK
    <3>5. succ'[s] = succ[s] \union (IF s = p THEN {t} ELSE {})
      BY <1>1 DEF IInv, TypeOK
    <3>6. pred'[s] = pred[s] \union (IF s = q THEN {t} ELSE {})
      BY <1>1 DEF IInv, TypeOK
    <3>. QED
      BY <3>1, <3>3, <3>4, <3>5, <3>6 DEF IInv, Incidence
  <2>2. ASSUME NEW u \in LiveTransitions'
        PROVE  has_state(src[u])' /\ has_state(dst[u])'
    <3>1. CASE u = t
      BY <3>1, <1>1, <1>2, <1>4 DEF Known, IInv, TypeOK
    <3>2. CASE u # t
      <4>1. u \in LiveTransitions /\ u \in Handle
        BY <3>2, <1>2 DEF LiveTransitions
      <4>2. src[u] \in State /\ dst[u] \in State
        BY <4>1 DEF IInv, Incidence, TypeOK, has_state, State
      <4>3. src'[u] = src[u] /\ dst'[u] = dst[u]
        BY <3>2, <4>1, <1>1 DEF IInv, TypeOK
      <4>. QED
        BY <4>1, <4>2, <4>3, <1>4 DEF IInv, Incidence
    <3>. QED
      BY <3>1, <3>2
  <2>. QED
    BY <2>1, <2>2 DEF Incidence
<1>7. SentinelsAlone'
  <2>1. /\ null_transition \notin succ[p] /\ lazy_transition \notin succ[p]
        /\ lazy_transition \notin pred[q] /\ null_transition \notin succ[q]
        /\ p < nstates /\ q < nstates
    BY DEF Known, has_state, is_lazy, is_lazy_in, IInv, TypeOK
  <2>2. t # null_transition /\ t # lazy_transition
    BY <1>2 DEF Handle, null_transition, lazy_transition
  <2>. SUFFICES ASSUME NEW s \in State
       PROVE /\ null_transition \in succ'[s] =>
                  succ'[s] = {null_transition} /\ pred'[s] = {}
             /\ lazy_transition \in succ'[s] => succ'[s] = {lazy_transition}
             /\ lazy_transition \in pred'[s] => pred'[s] = {lazy_transition}
             /\ s >= nstates' => succ'[s] = {} /\ pred'[s] = {}
    BY DEF SentinelsAlone
  <2>3. succ'[s] = succ[s] \union (IF s = p THEN {t} ELSE {})
    BY <1>1 DEF IInv, TypeOK
  <2>4. pred'[s] = pred[s] \union (IF s = q THEN {t} ELSE {})
    BY <1>1 DEF IInv, TypeOK
  <2>5. nstates' = nstates /\ nstates \in Nat /\ s \in Int
    BY <1>1 DEF IInv, TypeOK, State
  <2>6. p \in Int /\ q \in Int
    BY DEF State
  <2>. QED
    BY <2>1, <2>2, <2>3, <2>4, <2>5, <2>6 DEF IInv, SentinelsAlone
<1>8. ASSUME NEW u \in LiveTransitions
      PROVE  /\ src'[u] = src[u] /\ dst'[u] = dst[u]
             /\ label'[u] = label[u] /\ weight'[u] = weight[u]
  <2>1. u # t /\ u \in Handle
    BY <1>2 DEF LiveTransitions
  <2>. QED
    BY <1>1, <2>1 DEF IInv, TypeOK
<1>9. ArcsAreFunction'
  <2>1. src'[t] = p /\ dst'[t] = q /\ label'[t] = l /\ weight'[t] = w
    BY <1>1, <1>2 DEF IInv, TypeOK
  <2>2. \A u \in LiveTransitions' : u = t \/ u \in LiveTransitions
    BY <1>2
  <2>3. \A u, v \in LiveTransitions' :
          src'[u] = src'[v] /\ dst'[u] = dst'[v] /\ label'[u] = label'[v] => u = v
    BY <1>8, <2>1, <2>2 DEF IInv, ArcsAreFunction
  <2>4. \A u \in LiveTransitions' :
          weight'[u] # zero /\ Legal(src'[u], dst'[u], label'[u])
    BY <1>8, <2>1, <2>2 DEF IInv, ArcsAreFunction
  <2>. QED
    BY <2>3, <2>4 DEF ArcsAreFunction, Legal
<1>10. \A s \in State : SameState(s)
  BY <1>4 DEF SameState
<1>11. \A u \in LiveTransitions : SameTransition(u)
  BY <1>8 DEF SameTransition
<1>12. src'[t] = p /\ dst'[t] = q /\ label'[t] = l /\ weight'[t] = w
  BY <1>1, <1>2 DEF IInv, TypeOK
<1>. QED
  BY <1>2, <1>3, <1>5, <1>6, <1>7, <1>9, <1>10, <1>11, <1>12 DEF IInv

\* del_transition keeps the invariant: the slot leaves both vectors and goes
\* on the free list, where it was not.
LEMMA EraseLemma ==
  ASSUME IInv, NEW t \in Handle, has_transition(t), Erase(t)
  PROVE  /\ IInv'
         /\ \A u \in LiveTransitions :
              dst'[u] = dst[u] /\ label'[u] = label[u] /\ (u # t => SameTransition(u))
         /\ LiveTransitions' = LiveTransitions \ {t}
         /\ \A s \in State : SameState(s)
<1>1. /\ succ' = [succ EXCEPT ![src[t]] = @ \ {t}]
      /\ pred' = [pred EXCEPT ![dst[t]] = @ \ {t}]
      /\ src' = [src EXCEPT ![t] = null_state]
      /\ transitions_fs' = Append(transitions_fs, t)
      /\ nstates' = nstates /\ states_fs' = states_fs
      /\ ntransitions' = ntransitions
      /\ dst' = dst /\ label' = label /\ weight' = weight
  BY DEF Erase, stateVars
<1>2. /\ t \in LiveTransitions /\ t \in 0 .. ntransitions - 1
      /\ src[t] \in State /\ dst[t] \in State
      /\ t # null_transition /\ t # lazy_transition
  <2>1. t \in LiveTransitions /\ t \in 0 .. ntransitions - 1
    BY DEF LiveTransitions, has_transition
  <2>2. has_state(src[t]) /\ has_state(dst[t])
    BY <2>1 DEF IInv, Incidence
  <2>3. src[t] \in State /\ dst[t] \in State
    <3>1. src[t] \in State \union {null_state} /\ dst[t] \in State \union {null_state}
      BY DEF IInv, TypeOK
    <3>2. null_state \notin 0 .. nstates - 1
      BY DEF null_state
    <3>. QED
      BY <2>2, <3>1, <3>2 DEF has_state
  <2>4. t # null_transition /\ t # lazy_transition
    BY DEF Handle, null_transition, lazy_transition
  <2>. QED
    BY <2>1, <2>3, <2>4
<1>3. LiveTransitions' = LiveTransitions \ {t}
  BY <1>1 DEF LiveTransitions, has_transition, IInv, TypeOK
<1>4. /\ transitions_fs' \in Seq(Handle) /\ IsInjective(transitions_fs')
      /\ Range(transitions_fs') = Range(transitions_fs) \union {t}
  <2>1. t \notin Range(transitions_fs)
    BY DEF IInv, FreeStoresExact, has_transition
  <2>. QED
    BY <1>1, <2>1, PushLemma DEF IInv, TypeOK, FreeStoresExact
<1>5. TypeOK'
  BY <1>1, <1>4 DEF IInv, TypeOK
<1>6. ASSUME NEW s \in State
      PROVE  /\ succ'[s] = succ[s] \ {t} \/ succ'[s] = succ[s]
             /\ pred'[s] = pred[s] \ {t} \/ pred'[s] = pred[s]
             /\ src[t] = s => succ'[s] = succ[s] \ {t}
             /\ dst[t] = s => pred'[s] = pred[s] \ {t}
             /\ src[t] # s => succ'[s] = succ[s]
             /\ dst[t] # s => pred'[s] = pred[s]
  BY <1>1, <1>2 DEF IInv, TypeOK
<1>7. \A s \in State : SameState(s)
  BY <1>1, <1>2, <1>6 DEF has_state, is_lazy, is_lazy_in, SameState
<1>8. FreeStoresExact'
  <2>1. {s \in 0 .. nstates - 1 : ~ has_state(s)}' =
        {s \in 0 .. nstates - 1 : ~ has_state(s)}
    <3>1. 0 .. nstates - 1 \subseteq State
      BY BoundsAssumption DEF IInv, TypeOK, State
    <3>. QED
      BY <1>1, <1>7, <3>1 DEF SameState
  <2>2. {u \in 0 .. ntransitions - 1 : src[u] = null_state}' =
        {u \in 0 .. ntransitions - 1 : src[u] = null_state} \union {t}
    <3>1. 0 .. ntransitions - 1 \subseteq Handle
      BY BoundsAssumption DEF IInv, TypeOK, Handle
    <3>. QED
      BY <1>1, <1>2, <3>1 DEF IInv, TypeOK
  <2>. QED
    BY <1>1, <1>4, <2>1, <2>2 DEF IInv, FreeStoresExact
<1>9. ASSUME NEW u \in LiveTransitions, u # t
      PROVE  src'[u] = src[u] /\ dst'[u] = dst[u]
             /\ label'[u] = label[u] /\ weight'[u] = weight[u]
  <2>1. u \in Handle
    BY DEF LiveTransitions
  <2>. QED
    BY <1>1, <1>9, <2>1 DEF IInv, TypeOK
<1>10. Incidence'
  <2>1. ASSUME NEW s \in State
        PROVE  /\ succ'[s] \ {null_transition, lazy_transition} =
                    {u \in LiveTransitions' : src'[u] = s}
               /\ pred'[s] \ {lazy_transition} =
                    {u \in LiveTransitions' : dst'[u] = s}
    <3>1. {u \in LiveTransitions' : src'[u] = s} =
          {u \in LiveTransitions : src[u] = s} \ {t}
      BY <1>3, <1>9
    <3>2. {u \in LiveTransitions' : dst'[u] = s} =
          {u \in LiveTransitions : dst[u] = s} \ {t}
      BY <1>3, <1>9
    <3>3. t \in succ[s] => src[t] = s
      BY <1>2 DEF IInv, Incidence
    <3>4. t \in pred[s] => dst[t] = s
      BY <1>2 DEF IInv, Incidence
    <3>5. succ'[s] = succ[s] \ {t} /\ pred'[s] = pred[s] \ {t}
      BY <1>6, <3>3, <3>4
    <3>. QED
      BY <3>1, <3>2, <3>5 DEF IInv, Incidence
  <2>2. ASSUME NEW u \in LiveTransitions'
        PROVE  has_state(src[u])' /\ has_state(dst[u])'
    <3>1. u \in LiveTransitions /\ u # t
      BY <1>3
    <3>2. has_state(src[u]) /\ has_state(dst[u])
      BY <3>1 DEF IInv, Incidence
    <3>3. src[u] \in State /\ dst[u] \in State
      BY <3>2, BoundsAssumption DEF IInv, TypeOK, has_state, State
    <3>. QED
      BY <3>1, <3>2, <3>3, <1>7, <1>9 DEF SameState
  <2>. QED
    BY <2>1, <2>2 DEF Incidence
<1>11. SentinelsAlone'
  <2>. SUFFICES ASSUME NEW s \in State
       PROVE /\ null_transition \in succ'[s] =>
                  succ'[s] = {null_transition} /\ pred'[s] = {}
             /\ lazy_transition \in succ'[s] => succ'[s] = {lazy_transition}
             /\ lazy_transition \in pred'[s] => pred'[s] = {lazy_transition}
             /\ s >= nstates' => succ'[s] = {} /\ pred'[s] = {}
    BY DEF SentinelsAlone
  <2>1. t \in succ[s] => succ[s] \subseteq Handle
    BY <1>2 DEF IInv, SentinelsAlone, TypeOK
  <2>2. \/ succ'[s] = succ[s]
        \/ t \in succ[s] /\ succ'[s] \subseteq Handle
        \/ t \notin succ[s] /\ succ'[s] = succ[s]
    BY <1>6, <2>1
  <2>3. pred'[s] \subseteq pred[s] /\ (t \in pred[s] \/ pred'[s] = pred[s])
    <3>1. pred'[s] = pred[s] \ {t} \/ pred'[s] = pred[s]
      BY <1>6
    <3>. QED
      BY <3>1
  <2>4. null_transition \notin Handle /\ lazy_transition \notin Handle
    BY DEF Handle, null_transition, lazy_transition
  <2>5. t \in succ[s] => ~ s >= nstates
    BY DEF IInv, SentinelsAlone
  <2>6. t \in pred[s] => lazy_transition \notin pred[s]
    BY <1>2 DEF IInv, SentinelsAlone
  <2>. QED
    BY <1>1, <2>2, <2>3, <2>4, <2>5, <2>6 DEF IInv, SentinelsAlone
<1>12. ArcsAreFunction'
  <2>1. \A u \in LiveTransitions' : u \in LiveTransitions /\ u # t
    BY <1>3
  <2>. QED
    BY <1>9, <2>1 DEF IInv, ArcsAreFunction, Legal
<1>13. \A u \in LiveTransitions : u # t => SameTransition(u)
  BY <1>9 DEF SameTransition
<1>. QED
  BY <1>1, <1>3, <1>5, <1>7, <1>8, <1>10, <1>11, <1>12, <1>13 DEF IInv

\* set_weight keeps the invariant: a null weight erases the transition.
LEMMA ReweighLemma ==
  ASSUME IInv, NEW t \in Handle, has_transition(t), NEW w, Reweigh(t, w)
  PROVE  /\ IInv'
         /\ \A u \in LiveTransitions :
              dst'[u] = dst[u] /\ label'[u] = label[u] /\ (u # t => src'[u] = src[u])
         /\ t \in LiveTransitions' => src'[t] = src[t]
<1>1. CASE w = zero
  BY <1>1, EraseLemma DEF Reweigh, SameTransition
<1>2. CASE w # zero
  <2>1. /\ w \in Weight /\ weight' = [weight EXCEPT ![t] = w]
        /\ UNCHANGED <<nstates, succ, pred, states_fs, ntransitions, src, dst,
                       label, transitions_fs>>
    BY <1>2 DEF Reweigh, stateVars, adjVars
  <2>2. LiveTransitions' = LiveTransitions /\ \A s : has_state(s)' <=> has_state(s)
    BY <2>1 DEF LiveTransitions, has_transition, has_state
  <2>3. TypeOK'
    BY <2>1 DEF IInv, TypeOK
  <2>4. FreeStoresExact' /\ SentinelsAlone'
    BY <2>1, <2>2 DEF IInv, FreeStoresExact, SentinelsAlone
  <2>5. Incidence'
    BY <2>1, <2>2 DEF IInv, Incidence
  <2>6. ArcsAreFunction'
    <3>1. \A u \in LiveTransitions : weight'[u] = weight[u] \/ weight'[u] = w
      BY <2>1 DEF IInv, TypeOK, LiveTransitions
    <3>. QED
      BY <1>2, <2>1, <2>2, <3>1 DEF IInv, ArcsAreFunction, Legal
  <2>. QED
    BY <2>1, <2>3, <2>4, <2>5, <2>6 DEF IInv
<1>. QED
  BY <1>1, <1>2

-----------------------------------------------------------------------------
(* The operations on states. *)

\* new_state keeps the invariant: a recycled state comes back without the
\* mark in succ and without predecessors.
LEMMA NewStateLemma ==
  ASSUME IInv, new_state
  PROVE  /\ IInv' /\ LiveTransitions' = LiveTransitions
         /\ UNCHANGED <<src, dst, label, weight>>
         /\ \E z \in State :
              /\ ~ has_state(z) /\ has_state(z)'
              /\ ~ is_lazy(z) /\ ~ is_lazy(z)' /\ ~ is_lazy_in(z) /\ ~ is_lazy_in(z)'
              /\ \A s \in State \ {z} : SameState(s)
<1>. USE BoundsAssumption
<1>1. UNCHANGED <<pred, ntransitions, src, dst, label, weight, transitions_fs>>
  BY DEF new_state, slotVars
<1>2. LiveTransitions' = LiveTransitions
  BY <1>1 DEF LiveTransitions, has_transition
<1>3. \A u \in LiveTransitions : /\ has_state(src[u]) /\ has_state(dst[u])
                                 /\ src[u] \in State /\ dst[u] \in State
  BY DEF IInv, Incidence, TypeOK, has_state, State
<1>4. CASE states_fs = <<>>
  <2>1. nstates' = nstates + 1 /\ nstates < MaxStates /\ UNCHANGED <<succ, states_fs>>
    BY <1>4 DEF new_state
  <2>2. Range(states_fs) = {}
    BY <1>4 DEF Range
  <2>3. \A s \in 0 .. nstates - 1 : has_state(s)
    BY <2>2 DEF IInv, FreeStoresExact
  <2>4. succ[nstates] = {} /\ nstates \in State
    BY <2>1 DEF IInv, TypeOK, SentinelsAlone, State
  <2>5. \A s \in 0 .. nstates' - 1 : has_state(s)'
    BY <2>1, <2>3, <2>4 DEF has_state, IInv, TypeOK
  <2>6. TypeOK'
    BY <1>1, <2>1 DEF IInv, TypeOK
  <2>7. FreeStoresExact'
    BY <1>1, <1>4, <2>1, <2>2, <2>5 DEF IInv, FreeStoresExact
  <2>8. Incidence'
    <3>1. \A u \in LiveTransitions' : has_state(src[u])' /\ has_state(dst[u])'
      <4>1. \A s \in State : has_state(s) => has_state(s)'
        BY <2>1 DEF has_state, IInv, TypeOK, State
      <4>. QED
        BY <1>1, <1>2, <1>3, <4>1
    <3>. QED
      BY <1>1, <1>2, <2>1, <3>1 DEF IInv, Incidence
  <2>9. SentinelsAlone'
    BY <1>1, <2>1 DEF IInv, SentinelsAlone, TypeOK, State
  <2>10. ArcsAreFunction'
    BY <1>1, <1>2 DEF IInv, ArcsAreFunction, Legal
  <2>11. PICK z \in State : z = nstates
    BY <2>4
  <2>12. /\ ~ has_state(z) /\ has_state(z)'
         /\ ~ is_lazy(z) /\ ~ is_lazy(z)' /\ ~ is_lazy_in(z) /\ ~ is_lazy_in(z)'
    <3>1. z \notin 0 .. nstates - 1 /\ z \in 0 .. nstates' - 1
      BY <2>1, <2>11 DEF IInv, TypeOK
    <3>2. succ[z] = {} /\ pred[z] = {}
      BY <2>4, <2>11 DEF IInv, TypeOK, SentinelsAlone
    <3>. QED
      BY <1>1, <2>1, <3>1, <3>2 DEF has_state, is_lazy, is_lazy_in
  <2>13. \A s \in State \ {z} : SameState(s)
    <3>1. \A s \in State \ {z} : s \in 0 .. nstates' - 1 <=> s \in 0 .. nstates - 1
      BY <2>1, <2>11 DEF IInv, TypeOK, State
    <3>. QED
      BY <1>1, <2>1, <3>1 DEF SameState, has_state, is_lazy, is_lazy_in
  <2>. QED
    BY <1>1, <1>2, <2>6, <2>7, <2>8, <2>9, <2>10, <2>12, <2>13 DEF IInv
<1>5. CASE states_fs # <<>>
  <2>0. PICK z : z = Last(states_fs)
    OBVIOUS
  <2>1. /\ states_fs' = Front(states_fs) /\ nstates' = nstates
        /\ succ' = [succ EXCEPT ![z] = {}]
    BY <1>5, <2>0 DEF new_state
  <2>2. /\ z \in State /\ z \in Range(states_fs)
        /\ states_fs' \in Seq(State) /\ IsInjective(states_fs')
        /\ Range(states_fs') = Range(states_fs) \ {z}
    BY <1>5, <2>0, <2>1, PopLemma DEF IInv, TypeOK, FreeStoresExact
  <2>3. z \in 0 .. nstates - 1 /\ succ[z] = {null_transition} /\ pred[z] = {}
    BY <2>2 DEF IInv, FreeStoresExact, SentinelsAlone, has_state
  <2>4. succ'[z] = {} /\ \A s \in State \ {z} : succ'[s] = succ[s]
    BY <2>1, <2>2 DEF IInv, TypeOK
  <2>5. has_state(z)' /\ \A s \in State \ {z} : has_state(s)' <=> has_state(s)
    BY <2>1, <2>3, <2>4 DEF has_state
  <2>6. TypeOK'
    BY <1>1, <2>1, <2>2 DEF IInv, TypeOK
  <2>7. FreeStoresExact'
    <3>1. 0 .. nstates - 1 \subseteq State
      BY DEF IInv, TypeOK, State
    <3>2. {s \in 0 .. nstates - 1 : ~ has_state(s)}' =
          {s \in 0 .. nstates - 1 : ~ has_state(s)} \ {z}
      BY <2>1, <2>5, <3>1
    <3>. QED
      BY <1>1, <2>2, <3>2 DEF IInv, FreeStoresExact
  <2>8. Incidence'
    <3>1. \A s \in State : succ'[s] \ {null_transition, lazy_transition}
                         = succ[s] \ {null_transition, lazy_transition}
      BY <2>3, <2>4
    <3>2. \A u \in LiveTransitions : has_state(src[u])' /\ has_state(dst[u])'
      BY <1>1, <1>3, <2>5
    <3>. QED
      BY <1>1, <1>2, <3>1, <3>2 DEF IInv, Incidence
  <2>9. SentinelsAlone'
    BY <1>1, <2>1, <2>3, <2>4 DEF IInv, SentinelsAlone
  <2>10. ArcsAreFunction'
    BY <1>1, <1>2 DEF IInv, ArcsAreFunction, Legal
  <2>11. /\ ~ has_state(z) /\ ~ is_lazy(z) /\ ~ is_lazy(z)'
         /\ ~ is_lazy_in(z) /\ ~ is_lazy_in(z)'
    BY <1>1, <2>3, <2>4 DEF has_state, is_lazy, is_lazy_in, null_transition, lazy_transition
  <2>12. \A s \in State \ {z} : SameState(s)
    BY <1>1, <2>4, <2>5 DEF SameState, is_lazy, is_lazy_in
  <2>. QED
    BY <1>1, <1>2, <2>2, <2>5, <2>6, <2>7, <2>8, <2>9, <2>10, <2>11, <2>12 DEF IInv
<1>. QED
  BY <1>4, <1>5

\* set_lazy and set_lazy_in keep the invariant: they replace a vector that
\* holds no handle by another one that holds none.
LEMMA SetLazyLemma ==
  ASSUME IInv, NEW s \in State, NEW lazy \in BOOLEAN,
         set_lazy(s, lazy) \/ set_lazy_in(s, lazy)
  PROVE  IInv' /\ LiveTransitions' = LiveTransitions /\ UNCHANGED <<src, dst, label>>
<1>1. UNCHANGED <<nstates, states_fs, ntransitions, src, dst, label, weight,
                  transitions_fs>>
  BY DEF set_lazy, set_lazy_in, slotVars, stateVars
<1>2. LiveTransitions' = LiveTransitions
  BY <1>1 DEF LiveTransitions, has_transition
<1>. DEFINE mark == IF lazy THEN {lazy_transition} ELSE {}
<1>3. \/ /\ succ' = [succ EXCEPT ![s] = mark] /\ pred' = pred
         /\ succ[s] \in {{}, {lazy_transition}}
      \/ /\ pred' = [pred EXCEPT ![s] = mark] /\ succ' = succ
         /\ pred[s] \in {{}, {lazy_transition}}
  BY DEF set_lazy, set_lazy_in
<1>4. has_state(s) /\ null_transition # lazy_transition
  BY DEF set_lazy, set_lazy_in, null_transition, lazy_transition
<1>5. mark \in {{}, {lazy_transition}}
  OBVIOUS
<1>. HIDE DEF mark
<1>6. \A r \in State \ {s} : succ'[r] = succ[r] /\ pred'[r] = pred[r]
  BY <1>3 DEF IInv, TypeOK
<1>7. /\ succ'[s] = succ[s] \/ (succ[s] \in {{}, {lazy_transition}} /\ succ'[s] = mark)
      /\ pred'[s] = pred[s] \/ (pred[s] \in {{}, {lazy_transition}} /\ pred'[s] = mark)
  BY <1>3 DEF IInv, TypeOK
<1>8. \A r \in State : has_state(r)' <=> has_state(r)
  BY <1>1, <1>4, <1>5, <1>6, <1>7 DEF has_state
<1>9. TypeOK'
  BY <1>1, <1>3, <1>5 DEF IInv, TypeOK
<1>10. FreeStoresExact'
  <2>1. 0 .. nstates - 1 \subseteq State
    BY BoundsAssumption DEF IInv, TypeOK, State
  <2>2. {r \in 0 .. nstates - 1 : ~ has_state(r)}' =
        {r \in 0 .. nstates - 1 : ~ has_state(r)}
    BY <1>1, <1>8, <2>1
  <2>. QED
    BY <1>1, <2>2 DEF IInv, FreeStoresExact
<1>11. Incidence'
  <2>1. \A r \in State :
          /\ succ'[r] \ {null_transition, lazy_transition}
               = succ[r] \ {null_transition, lazy_transition}
          /\ pred'[r] \ {lazy_transition} = pred[r] \ {lazy_transition}
    BY <1>5, <1>6, <1>7
  <2>2. \A u \in LiveTransitions : /\ has_state(src[u]) /\ has_state(dst[u])
                                   /\ src[u] \in State /\ dst[u] \in State
    BY BoundsAssumption DEF IInv, Incidence, TypeOK, has_state, State
  <2>. QED
    BY <1>1, <1>2, <1>8, <2>1, <2>2 DEF IInv, Incidence
<1>12. SentinelsAlone'
  <2>1. s < nstates
    BY <1>4 DEF has_state, IInv, TypeOK
  <2>2. null_transition \notin succ'[s] /\ ~ s >= nstates'
    BY <1>1, <1>4, <1>5, <1>7, <2>1 DEF has_state, IInv, TypeOK, State
  <2>. QED
    BY <1>1, <1>5, <1>6, <1>7, <2>2 DEF IInv, SentinelsAlone
<1>13. ArcsAreFunction'
  BY <1>1, <1>2 DEF IInv, ArcsAreFunction, Legal
<1>. QED
  BY <1>1, <1>2, <1>9, <1>10, <1>11, <1>12, <1>13 DEF IInv

\* del_state keeps the invariant: every transition that touches the state is
\* freed once, a loop included, and no adjacency vector still mentions it.
LEMMA DelStateLemma ==
  ASSUME IInv, NEW s \in State, del_state(s)
  PROVE  /\ IInv' /\ UNCHANGED <<dst, label>>
         /\ \A u \in LiveTransitions' : SameTransition(u)
         /\ LiveTransitions' = {u \in LiveTransitions : src[u] # s /\ dst[u] # s}
         /\ ~ has_state(s)' /\ \A r \in State \ {s} : SameState(r)
<1>. DEFINE ins   == pred[s]
            succ1 == [p \in State |-> succ[p] \ ins]
            outs  == succ1[s]
            gone  == ins \union outs
<1>. USE BoundsAssumption
<1>1. /\ has_state(s) /\ s > post
      /\ lazy_transition \notin succ[s] /\ lazy_transition \notin pred[s]
      /\ succ' = [succ1 EXCEPT ![s] = {null_transition}]
      /\ pred' = [q \in State |-> IF q = s THEN {} ELSE pred[q] \ outs]
      /\ src' = [t \in Handle |-> IF t \in gone THEN null_state ELSE src[t]]
      /\ states_fs' = Append(states_fs, s)
      /\ UNCHANGED <<nstates, ntransitions, dst, label, weight>>
  BY DEF del_state, is_lazy, is_lazy_in
<1>2. PICK is \in SetToSeqs(ins), os \in SetToSeqs(outs) :
        transitions_fs' = transitions_fs \o is \o os
  BY DEF del_state
<1>3. /\ ins = {t \in LiveTransitions : dst[t] = s}
      /\ succ[s] = {t \in LiveTransitions : src[t] = s}
      /\ outs = {t \in LiveTransitions : src[t] = s} \ ins
      /\ gone = {t \in LiveTransitions : src[t] = s \/ dst[t] = s}
  <2>1. pred[s] = {t \in LiveTransitions : dst[t] = s}
    BY <1>1 DEF IInv, Incidence
  <2>2. succ[s] = {t \in LiveTransitions : src[t] = s}
    BY <1>1 DEF IInv, Incidence, has_state
  <2>3. outs = succ[s] \ pred[s]
    OBVIOUS
  <2>. QED
    BY <2>1, <2>2, <2>3
<1>4. LiveTransitions \subseteq Handle /\ gone \subseteq LiveTransitions
  BY <1>3 DEF LiveTransitions
<1>5. /\ null_transition \notin Handle /\ lazy_transition \notin Handle
      /\ null_state \notin State /\ null_transition # lazy_transition
  BY DEF null_transition, lazy_transition, null_state, Handle, State
<1>6. LiveTransitions' = LiveTransitions \ gone
  BY <1>1, <1>4 DEF LiveTransitions, has_transition
<1>7. /\ transitions_fs' \in Seq(Handle) /\ IsInjective(transitions_fs')
      /\ Range(transitions_fs') = Range(transitions_fs) \union gone
  <2>1. IsFiniteSet(Handle)
    BY FS_Interval DEF IInv, TypeOK, Handle
  <2>2. ins \subseteq Handle /\ outs \subseteq Handle /\ ins \intersect outs = {}
    BY <1>3, <1>4
  <2>. HIDE DEF ins, outs
  <2>3. IsFiniteSet(ins) /\ IsFiniteSet(outs)
    BY <2>1, <2>2, FS_Subset
  <2>4. /\ is \in Seq(ins) /\ IsInjective(is) /\ Range(is) = ins
        /\ os \in Seq(outs) /\ IsInjective(os) /\ Range(os) = outs
    BY <2>3, OrderLemma
  <2>5. is \in Seq(Handle) /\ os \in Seq(Handle)
    BY <2>2, <2>4, SeqMonotonic
  <2>6. \A t \in LiveTransitions : t \notin Range(transitions_fs)
    BY DEF IInv, FreeStoresExact, LiveTransitions, has_transition
  <2>7. Range(transitions_fs) \intersect ins = {}
        /\ Range(transitions_fs) \intersect outs = {}
    BY <1>4, <2>6
  <2>8. /\ transitions_fs \o is \in Seq(Handle) /\ IsInjective(transitions_fs \o is)
        /\ Range(transitions_fs \o is) = Range(transitions_fs) \union ins
    BY <2>4, <2>5, <2>7, ConcatLemma DEF IInv, TypeOK, FreeStoresExact
  <2>9. PICK both : both = transitions_fs \o is
    OBVIOUS
  <2>10. /\ both \in Seq(Handle) /\ IsInjective(both)
         /\ Range(both) = Range(transitions_fs) \union ins
    BY <2>8, <2>9
  <2>11. Range(both) \intersect Range(os) = {}
    BY <2>2, <2>4, <2>7, <2>10
  <2>12. /\ both \o os \in Seq(Handle) /\ IsInjective(both \o os)
         /\ Range(both \o os) = Range(both) \union Range(os)
    BY <2>4, <2>5, <2>10, <2>11, ConcatLemma
  <2>13. transitions_fs' = both \o os
    BY <1>2, <2>9
  <2>. QED
    BY <2>4, <2>10, <2>12, <2>13
<1>8. /\ states_fs' \in Seq(State) /\ IsInjective(states_fs')
      /\ Range(states_fs') = Range(states_fs) \union {s}
  <2>1. s \notin Range(states_fs)
    BY <1>1 DEF IInv, FreeStoresExact
  <2>. QED
    BY <1>1, <2>1, PushLemma DEF IInv, TypeOK, FreeStoresExact
<1>9. /\ succ'[s] = {null_transition} /\ pred'[s] = {}
      /\ \A r \in State \ {s} : succ'[r] = succ[r] \ ins /\ pred'[r] = pred[r] \ outs
  BY <1>1
<1>. HIDE DEF ins, succ1, outs, gone
<1>10. \A r \in State \ {s} : has_state(r)' <=> has_state(r)
  BY <1>1, <1>3, <1>4, <1>5, <1>9 DEF has_state
<1>11. ~ has_state(s)'
  BY <1>9 DEF has_state
<1>12. TypeOK'
  <2>1. succ' \in [State -> SUBSET (Handle \union {null_transition, lazy_transition})]
    <3>1. succ' = [p \in State |-> IF p = s THEN {null_transition} ELSE succ[p] \ ins]
      BY <1>1 DEF succ1
    <3>. QED
      BY <3>1 DEF IInv, TypeOK
  <2>2. pred' \in [State -> SUBSET (Handle \union {lazy_transition})]
    BY <1>1 DEF IInv, TypeOK
  <2>3. src' \in [Handle -> State \union {null_state}]
    BY <1>1 DEF IInv, TypeOK
  <2>. QED
    BY <1>1, <1>7, <1>8, <2>1, <2>2, <2>3 DEF IInv, TypeOK
<1>13. FreeStoresExact'
  <2>1. 0 .. nstates - 1 \subseteq State /\ s \in 0 .. nstates - 1
    BY <1>1 DEF IInv, TypeOK, State, has_state
  <2>2. {r \in 0 .. nstates - 1 : ~ has_state(r)}' =
        {r \in 0 .. nstates - 1 : ~ has_state(r)} \union {s}
    BY <1>1, <1>10, <1>11, <2>1
  <2>3. 0 .. ntransitions - 1 \subseteq Handle
    BY DEF IInv, TypeOK, Handle
  <2>4. \A t \in gone : t \in 0 .. ntransitions - 1
    BY <1>4 DEF LiveTransitions, has_transition
  <2>5. {t \in 0 .. ntransitions - 1 : src[t] = null_state}' =
        {t \in 0 .. ntransitions - 1 : src[t] = null_state} \union gone
    BY <1>1, <2>3, <2>4
  <2>. QED
    BY <1>7, <1>8, <2>2, <2>5 DEF IInv, FreeStoresExact
<1>14. ASSUME NEW u \in LiveTransitions'
       PROVE  u \in LiveTransitions /\ src'[u] = src[u] /\ src[u] # s /\ dst[u] # s
  BY <1>1, <1>3, <1>4, <1>6
<1>15. Incidence'
  <2>1. ASSUME NEW r \in State
        PROVE  /\ succ'[r] \ {null_transition, lazy_transition} =
                    {u \in LiveTransitions' : src'[u] = r}
               /\ pred'[r] \ {lazy_transition} =
                    {u \in LiveTransitions' : dst'[u] = r}
    <3>1. CASE r = s
      BY <3>1, <1>1, <1>9, <1>14
    <3>2. CASE r # s
      <4>1. {u \in LiveTransitions' : src'[u] = r} =
            {u \in LiveTransitions : src[u] = r} \ ins
        BY <3>2, <1>3, <1>6, <1>14
      <4>2. {u \in LiveTransitions' : dst'[u] = r} =
            {u \in LiveTransitions : dst[u] = r} \ outs
        BY <3>2, <1>1, <1>3, <1>6
      <4>. QED
        BY <3>2, <4>1, <4>2, <1>9 DEF IInv, Incidence
    <3>. QED
      BY <3>1, <3>2
  <2>2. ASSUME NEW u \in LiveTransitions'
        PROVE  has_state(src[u])' /\ has_state(dst[u])'
    <3>1. has_state(src[u]) /\ has_state(dst[u])
      BY <1>14 DEF IInv, Incidence
    <3>2. src[u] \in State /\ dst[u] \in State
      BY <3>1 DEF has_state, IInv, TypeOK, State
    <3>. QED
      BY <3>1, <3>2, <1>1, <1>10, <1>14
  <2>. QED
    BY <2>1, <2>2 DEF Incidence
<1>16. SentinelsAlone'
  <2>. SUFFICES ASSUME NEW r \in State
       PROVE /\ null_transition \in succ'[r] =>
                  succ'[r] = {null_transition} /\ pred'[r] = {}
             /\ lazy_transition \in succ'[r] => succ'[r] = {lazy_transition}
             /\ lazy_transition \in pred'[r] => pred'[r] = {lazy_transition}
             /\ r >= nstates' => succ'[r] = {} /\ pred'[r] = {}
    BY DEF SentinelsAlone
  <2>1. CASE r = s
    <3>1. ~ s >= nstates'
      BY <1>1 DEF has_state, IInv, TypeOK, State
    <3>. QED
      BY <2>1, <3>1, <1>5, <1>9
  <2>2. CASE r # s
    <3>1. null_transition \notin ins /\ lazy_transition \notin ins
          /\ lazy_transition \notin outs
      BY <1>3, <1>4, <1>5
    <3>. QED
      BY <2>2, <3>1, <1>1, <1>9 DEF IInv, SentinelsAlone
  <2>. QED
    BY <2>1, <2>2
<1>17. ArcsAreFunction'
  <2>1. dst' = dst /\ label' = label /\ weight' = weight
    BY <1>1
  <2>2. \A t, u \in LiveTransitions' :
          src'[t] = src'[u] /\ dst'[t] = dst'[u] /\ label'[t] = label'[u] => t = u
    BY <1>14, <2>1 DEF IInv, ArcsAreFunction
  <2>3. \A t \in LiveTransitions' :
          weight'[t] # zero /\ Legal(src'[t], dst'[t], label'[t])
    BY <1>14, <2>1 DEF IInv, ArcsAreFunction
  <2>. QED
    BY <2>2, <2>3 DEF ArcsAreFunction, Legal
<1>18. \A u \in LiveTransitions' : SameTransition(u)
  BY <1>1, <1>14 DEF SameTransition
<1>19. \A r \in State \ {s} : SameState(r)
  <2>1. lazy_transition \notin ins /\ lazy_transition \notin outs
    BY <1>3, <1>4, <1>5
  <2>. QED
    BY <1>9, <1>10, <2>1 DEF SameState, is_lazy, is_lazy_in
<1>20. LiveTransitions' = {u \in LiveTransitions : src[u] # s /\ dst[u] # s}
  BY <1>3, <1>6
<1>. QED
  BY <1>1, <1>11, <1>12, <1>13, <1>15, <1>16, <1>17, <1>18, <1>19, <1>20 DEF IInv

-----------------------------------------------------------------------------
(* The specification. *)

\* An empty automaton has its two special states, and nothing to free.
LEMMA InitLemma == Init => IInv
<1>. SUFFICES ASSUME Init PROVE IInv
  OBVIOUS
<1>. USE DEF Init
<1>. USE BoundsAssumption, WeightAssumption
<1>1. TypeOK
  BY EmptySeq DEF TypeOK, State, Handle, Labels
<1>2. LiveTransitions = {} /\ \A s \in 0 .. 1 : s \in State /\ has_state(s)
  BY DEF LiveTransitions, has_transition, has_state, State
<1>3. FreeStoresExact
  BY <1>2 DEF FreeStoresExact, IsInjective, Range
<1>4. Incidence /\ SentinelsAlone /\ ArcsAreFunction
  BY <1>2 DEF Incidence, SentinelsAlone, ArcsAreFunction
<1>. QED
  BY <1>1, <1>3, <1>4 DEF IInv

\* Every operation guarantees the invariant, and Kept: the identity of the
\* transitions that are live before and after it.  An operation that changes
\* nothing does.
LEMMA StutterLemma ==
  ASSUME IInv, UNCHANGED vars
  PROVE  IInv' /\ Kept
BY DEF vars, stateVars, adjVars, slotVars, Kept, IInv, TypeOK, FreeStoresExact,
   Incidence, SentinelsAlone, ArcsAreFunction, LiveTransitions, has_transition,
   has_state, Legal

\* new_transition, and the creations hidden in set_transition and
\* add_transition.
LEMMA CreateUnlessNullLemma ==
  ASSUME IInv, NEW p \in State, NEW q \in State, NEW l \in Labels, NEW w \in Weight,
         Known(p, q), Legal(p, q, l), get_transition(p, q, l) = null_transition,
         CreateUnlessNull(p, q, l, w)
  PROVE  IInv' /\ Kept
<1>1. CASE w = zero
  BY <1>1, StutterLemma DEF CreateUnlessNull
<1>2. CASE w # zero
  <2>1. \A u \in LiveTransitions : ~ (src[u] = p /\ dst[u] = q /\ label[u] = l)
    BY GetTransitionLemma
  <2>2. Create(p, q, l, w)
    BY <1>2 DEF CreateUnlessNull
  <2>. QED
    BY <1>2, <2>1, <2>2, CreateLemma DEF Kept, SameTransition
<1>. QED
  BY <1>1, <1>2

\* del_transition, by handle.
LEMMA EraseKept ==
  ASSUME IInv, NEW t \in Handle, has_transition(t), Erase(t)
  PROVE  IInv' /\ Kept
<1>1. ~ has_transition(t)'
  BY EraseLemma DEF LiveTransitions
<1>. QED
  BY <1>1, EraseLemma DEF Kept, SameTransition

\* set_weight and the operations built on it.
LEMMA ReweighKept ==
  ASSUME IInv, NEW t \in Handle, has_transition(t), NEW w, Reweigh(t, w)
  PROVE  IInv' /\ Kept
<1>1. has_transition(t)' => t \in LiveTransitions'
  BY DEF LiveTransitions
<1>. QED
  BY <1>1, ReweighLemma DEF Kept

\* Every step of the specification, one operation after the other.
LEMMA StepLemma == IInv /\ [Next]_vars => IInv' /\ Kept
<1>. SUFFICES ASSUME IInv, [Next]_vars PROVE IInv' /\ Kept
  OBVIOUS
<1>1. CASE UNCHANGED vars
  BY <1>1, StutterLemma
<1>2. CASE NextState
  <2>1. CASE new_state
    BY <2>1, NewStateLemma DEF Kept
  <2>2. ASSUME NEW s \in State, del_state(s)
        PROVE  IInv' /\ Kept
    <3>1. \A t \in LiveTransitions : has_transition(t)' => t \in LiveTransitions'
      BY DEF LiveTransitions
    <3>. QED
      BY <2>2, <3>1, DelStateLemma DEF Kept, SameTransition
  <2>3. ASSUME NEW s \in State, NEW lazy \in BOOLEAN,
               set_lazy(s, lazy) \/ set_lazy_in(s, lazy)
        PROVE  IInv' /\ Kept
    BY <2>3, SetLazyLemma DEF Kept
  <2>. QED
    BY <1>2, <2>1, <2>2, <2>3 DEF NextState
<1>3. CASE NextArc
  <2>1. PICK p \in State, q \in State, l \in Labels :
          \/ del_transition_arc(p, q, l)
          \/ \E w \in Weight : \/ new_transition(p, q, l, w)
                               \/ set_transition(p, q, l, w)
                               \/ add_transition(p, q, l, w)
    BY <1>3 DEF NextArc
  <2>2. PICK t : t = get_transition(p, q, l)
    OBVIOUS
  <2>3. Known(p, q) /\ Legal(p, q, l)
    BY <2>1 DEF del_transition_arc, new_transition, set_transition, add_transition
  <2>4. t # null_transition => t \in Handle /\ has_transition(t)
    BY <2>2, <2>3, GetTransitionLemma
  <2>5. CASE del_transition_arc(p, q, l)
    <3>1. \/ t = null_transition /\ UNCHANGED vars
          \/ t # null_transition /\ Erase(t)
      BY <2>2, <2>5 DEF del_transition_arc
    <3>. QED
      BY <2>4, <3>1, EraseKept, StutterLemma
  <2>6. ASSUME NEW w \in Weight,
               \/ new_transition(p, q, l, w)
               \/ set_transition(p, q, l, w)
               \/ add_transition(p, q, l, w)
        PROVE  IInv' /\ Kept
    <3>1. \/ t = null_transition /\ CreateUnlessNull(p, q, l, w)
          \/ t # null_transition /\ \E v : Reweigh(t, v)
      BY <2>2, <2>6 DEF new_transition, set_transition, add_transition
    <3>. QED
      BY <2>2, <2>3, <2>4, <3>1, CreateUnlessNullLemma, ReweighKept
  <2>. QED
    BY <2>1, <2>5, <2>6
<1>4. CASE NextHandle
  <2>1. PICK t \in Handle :
          has_transition(t) /\ (Erase(t) \/ \E v : Reweigh(t, v))
    BY <1>4 DEF NextHandle, del_transition, set_weight, add_weight, lweight, rweight
  <2>. QED
    BY <2>1, EraseKept, ReweighKept
<1>. QED
  BY <1>1, <1>2, <1>3, <1>4 DEF Next

\* The invariant of the store: types, exact free lists, agreement of the
\* three records of each transition, lonely sentinels, and at most one
\* non-null, legal transition per arc.
THEOREM StoreInvariant == Spec => []IInv
<1>1. Init => IInv
  BY InitLemma
<1>2. IInv /\ [Next]_vars => IInv'
  BY StepLemma
<1>. QED
  BY <1>1, <1>2, PTL DEF Spec

\* mutable_automaton_impl keeps its vectors well typed: no sentinel or
\* index ever lands where a handle or a state is expected.
THEOREM TypeCorrect == Spec => []TypeOK
BY StoreInvariant, PTL DEF IInv

\* No slot is lost, and none is handed out twice (new_state, del_state,
\* new_transition, del_transition).
THEOREM FreeStoresAreExact == Spec => []FreeStoresExact
BY StoreInvariant, PTL DEF IInv

\* succ, pred and the slots of the transitions always agree.
THEOREM IncidenceAgrees == Spec => []Incidence
BY StoreInvariant, PTL DEF IInv

\* The first handle of a vector tells whether it is a sentinel.
THEOREM SentinelsStayAlone == Spec => []SentinelsAlone
BY StoreInvariant, PTL DEF IInv

\* Labels, sources and destinations determine the transition, and the
\* weight of a transition is never null.
THEOREM StoreIsFunction == Spec => []ArcsAreFunction
BY StoreInvariant, PTL DEF IInv

\* A handle that stays live denotes the same arc for ever, whatever the
\* other operations recycle.
THEOREM HandlesAreStable == Spec => HandlesStable
<1>1. IInv /\ [Next]_vars => [Kept]_vars
  BY StepLemma
<1>. QED
  BY <1>1, StoreInvariant, PTL DEF Spec, HandlesStable

-----------------------------------------------------------------------------
(* The store implements the automaton of WeightedGraph.                    *)

\* ArcWeights gives each live transition its own weight, although CHOOSE
\* picks the transition of an arc: no two live ones share an arc.
Represented ==
  /\ DOMAIN ArcWeights = {ArcOf(t) : t \in LiveTransitions}
  /\ \A t \in LiveTransitions : ArcWeights[ArcOf(t)] = weight[t]
  /\ \A t, u \in LiveTransitions : ArcOf(t) = ArcOf(u) => t = u

LEMMA RepresentLemma == IInv => Represented
<1>. SUFFICES ASSUME IInv PROVE Represented
  OBVIOUS
<1>1. \A t, u \in LiveTransitions : ArcOf(t) = ArcOf(u) => t = u
  BY DEF IInv, ArcsAreFunction, ArcOf
<1>2. DOMAIN ArcWeights = {ArcOf(t) : t \in LiveTransitions}
  BY DEF ArcWeights
<1>3. ASSUME NEW t \in LiveTransitions
      PROVE  ArcWeights[ArcOf(t)] = weight[t]
  <2>1. (CHOOSE u \in LiveTransitions : ArcOf(u) = ArcOf(t)) = t
    BY <1>1
  <2>. QED
    BY <2>1 DEF ArcWeights
<1>. QED
  BY <1>1, <1>2, <1>3 DEF Represented

LEMMA RepresentNext == IInv' => Represented'
  BY RepresentLemma, PTL

\* Two automata with the same arcs and weights are the same function.
LEMMA SameWeights ==
  ASSUME NEW f, f = [a \in DOMAIN f |-> f[a]], DOMAIN ArcWeights' = DOMAIN f,
         \A a \in DOMAIN f : ArcWeights'[a] = f[a]
  PROVE  ArcWeights' = f
<1>1. ArcWeights' = [a \in DOMAIN ArcWeights' |-> ArcWeights'[a]]
  BY DEF ArcWeights
<1>. QED
  BY <1>1

\* A new live transition is a new arc.
LEMMA AddedArc ==
  ASSUME IInv, IInv', NEW t \in Handle \ LiveTransitions, weight'[t] # zero,
         LiveTransitions' = LiveTransitions \union {t},
         \A u \in LiveTransitions : SameTransition(u)
  PROVE  ArcWeights' = Graph!Weighted(ArcOf(t)', weight'[t])
<1>1. Represented /\ Represented'
  BY RepresentLemma, RepresentNext
<1>2. PICK a : a = ArcOf(t)'
  OBVIOUS
<1>. DEFINE f == [b \in DOMAIN ArcWeights \union {a} |-> IF b = a THEN weight'[t] ELSE ArcWeights[b]]
<1>3. \A u \in LiveTransitions : ArcOf(u)' = ArcOf(u) /\ weight'[u] = weight[u]
  BY DEF ArcOf, SameTransition
<1>4. DOMAIN ArcWeights' = DOMAIN f
  BY <1>1, <1>2, <1>3 DEF Represented
<1>5. \A b \in DOMAIN f : ArcWeights'[b] = f[b]
  <2>1. ArcWeights'[a] = weight'[t]
    BY <1>1, <1>2 DEF Represented
  <2>2. \A u \in LiveTransitions : ArcWeights'[ArcOf(u)] = ArcWeights[ArcOf(u)]
    BY <1>1, <1>3 DEF Represented
  <2>. QED
    BY <1>1, <2>1, <2>2 DEF Represented
<1>6. ArcWeights' = f
  <2>1. f = [b \in DOMAIN f |-> f[b]]
    OBVIOUS
  <2>. HIDE DEF f
  <2>. QED
    BY <1>4, <1>5, <2>1, SameWeights
<1>. QED
  BY <1>2, <1>6 DEF Graph!Weighted

\* Transitions that die take their arcs with them, and no others.
LEMMA RemovedArcs ==
  ASSUME IInv, IInv', LiveTransitions' \subseteq LiveTransitions,
         \A u \in LiveTransitions' : SameTransition(u)
  PROVE  ArcWeights' = Graph!Without({ArcOf(u) : u \in LiveTransitions \ LiveTransitions'})
<1>1. Represented /\ Represented'
  BY RepresentLemma, RepresentNext
<1>. DEFINE K == {ArcOf(u) : u \in LiveTransitions \ LiveTransitions'}
            f == [b \in DOMAIN ArcWeights \ K |-> ArcWeights[b]]
<1>2. \A u \in LiveTransitions' : ArcOf(u)' = ArcOf(u) /\ weight'[u] = weight[u]
  BY DEF ArcOf, SameTransition
<1>3. \A u \in LiveTransitions' : ArcOf(u) \notin K
  BY <1>1 DEF Represented
<1>4. DOMAIN ArcWeights' = DOMAIN f
  <2>1. DOMAIN ArcWeights' = {ArcOf(u) : u \in LiveTransitions'}
    BY <1>1, <1>2 DEF Represented
  <2>2. DOMAIN f = {ArcOf(u) : u \in LiveTransitions} \ K
    BY <1>1 DEF Represented
  <2>. QED
    BY <1>3, <2>1, <2>2
<1>5. \A b \in DOMAIN f : ArcWeights'[b] = f[b]
  <2>1. \A u \in LiveTransitions' : ArcWeights'[ArcOf(u)] = ArcWeights[ArcOf(u)]
    BY <1>1, <1>2 DEF Represented
  <2>2. DOMAIN f = {ArcOf(u) : u \in LiveTransitions'}
    BY <1>1, <1>2, <1>4 DEF Represented
  <2>. QED
    BY <2>1, <2>2
<1>6. ArcWeights' = f
  <2>1. f = [b \in DOMAIN f |-> f[b]]
    OBVIOUS
  <2>. HIDE DEF f
  <2>. QED
    BY <1>4, <1>5, <2>1, SameWeights
<1>. QED
  BY <1>6 DEF Graph!Without

\* A transition that gets another weight.
LEMMA ReweighedArc ==
  ASSUME IInv, IInv', NEW t \in LiveTransitions, NEW w, w # zero,
         UNCHANGED <<ntransitions, src, dst, label>>, weight' = [weight EXCEPT ![t] = w]
  PROVE  ArcWeights' = Graph!Weighted(ArcOf(t), w)
<1>1. Represented /\ Represented' /\ LiveTransitions' = LiveTransitions
  BY RepresentLemma, RepresentNext DEF LiveTransitions, has_transition
<1>2. PICK a : a = ArcOf(t)
  OBVIOUS
<1>. DEFINE f == [b \in DOMAIN ArcWeights \union {a} |-> IF b = a THEN w ELSE ArcWeights[b]]
<1>3. \A u \in LiveTransitions :
        ArcOf(u)' = ArcOf(u) /\ weight'[u] = IF u = t THEN w ELSE weight[u]
  BY DEF ArcOf, IInv, TypeOK, LiveTransitions
<1>4. DOMAIN ArcWeights' = DOMAIN f
  <2>1. DOMAIN ArcWeights' = {ArcOf(u) : u \in LiveTransitions}
    BY <1>1, <1>3 DEF Represented
  <2>2. DOMAIN ArcWeights = {ArcOf(u) : u \in LiveTransitions}
    BY <1>1 DEF Represented
  <2>3. a \in DOMAIN ArcWeights
    BY <1>2, <2>2
  <2>. QED
    BY <2>1, <2>2, <2>3
<1>5. \A b \in DOMAIN f : ArcWeights'[b] = f[b]
  <2>1. \A u \in LiveTransitions :
          ArcWeights'[ArcOf(u)] = IF u = t THEN w ELSE ArcWeights[ArcOf(u)]
    BY <1>1, <1>3 DEF Represented
  <2>2. \A u \in LiveTransitions : ArcOf(u) = a <=> u = t
    BY <1>1, <1>2 DEF Represented
  <2>3. DOMAIN f = {ArcOf(u) : u \in LiveTransitions}
    BY <1>1, <1>2 DEF Represented
  <2>. QED
    BY <2>1, <2>2, <2>3
<1>6. ArcWeights' = f
  <2>1. f = [b \in DOMAIN f |-> f[b]]
    OBVIOUS
  <2>. HIDE DEF f
  <2>. QED
    BY <1>4, <1>5, <2>1, SameWeights
<1>. QED
  BY <1>2, <1>6 DEF Graph!Weighted

\* Operations on states leave the arcs alone.
LEMMA SameArcs ==
  ASSUME LiveTransitions' = LiveTransitions, UNCHANGED <<src, dst, label, weight>>
  PROVE  ArcWeights' = ArcWeights
  BY DEF ArcWeights, ArcOf

\* States that stay what they are.
LEMMA SameStates ==
  ASSUME \A s \in State : SameState(s)
  PROVE  /\ LiveStates' = LiveStates
         /\ {s \in LiveStates : is_lazy(s)}' = {s \in LiveStates : is_lazy(s)}
         /\ {s \in LiveStates : is_lazy_in(s)}' = {s \in LiveStates : is_lazy_in(s)}
  BY DEF SameState, LiveStates

\* The ends of a live transition are live and not lazy, and the arc is legal:
\* what WeightedGraph requires of an arc that gets a weight.
LEMMA EndsLemma ==
  ASSUME IInv, NEW t \in LiveTransitions
  PROVE  /\ ArcOf(t) \in Graph!Arc
         /\ ArcOf(t).src \in LiveStates \ ({s \in LiveStates : is_lazy(s)} \union {post})
         /\ ArcOf(t).dst \in LiveStates \ ({s \in LiveStates : is_lazy_in(s)} \union {pre})
<1>1. t \in Handle /\ t # lazy_transition /\ t # null_transition
  BY DEF LiveTransitions, Handle, lazy_transition, null_transition
<1>2. /\ has_state(src[t]) /\ has_state(dst[t]) /\ src[t] \in State /\ dst[t] \in State
      /\ label[t] \in Labels
  BY <1>1, BoundsAssumption DEF IInv, Incidence, TypeOK, has_state, State
<1>3. t \in succ[src[t]] /\ t \in pred[dst[t]]
  BY <1>2 DEF IInv, Incidence
<1>4. ~ is_lazy(src[t]) /\ ~ is_lazy_in(dst[t])
  BY <1>1, <1>2, <1>3 DEF IInv, SentinelsAlone, is_lazy, is_lazy_in
<1>5. src[t] # post /\ dst[t] # pre
  BY DEF IInv, ArcsAreFunction, Legal
<1>. QED
  BY <1>2, <1>4, <1>5 DEF ArcOf, Graph!Arc, LiveStates

-----------------------------------------------------------------------------
(* Each operation is an operation of WeightedGraph. *)

LEMMA NewStateRefines ==
  ASSUME IInv, new_state
  PROVE  Graph!Next
<1>1. PICK z \in State :
        /\ ~ has_state(z) /\ has_state(z)'
        /\ ~ is_lazy(z) /\ ~ is_lazy(z)' /\ ~ is_lazy_in(z) /\ ~ is_lazy_in(z)'
        /\ \A s \in State \ {z} : SameState(s)
  BY NewStateLemma
<1>2. z \in State \ LiveStates /\ LiveStates' = LiveStates \union {z}
  BY <1>1 DEF LiveStates, SameState
<1>3. /\ {s \in LiveStates : is_lazy(s)}' = {s \in LiveStates : is_lazy(s)}
      /\ {s \in LiveStates : is_lazy_in(s)}' = {s \in LiveStates : is_lazy_in(s)}
  BY <1>1, <1>2 DEF LiveStates, SameState
<1>4. ArcWeights' = ArcWeights
  BY NewStateLemma, SameArcs
<1>5. Graph!NewState(z)
  BY <1>2, <1>3, <1>4 DEF Graph!NewState
<1>. QED
  BY <1>5 DEF Graph!Next

LEMMA DelStateRefines ==
  ASSUME IInv, NEW s \in State, del_state(s)
  PROVE  Graph!Next
<1>1. /\ IInv' /\ LiveTransitions' = {u \in LiveTransitions : src[u] # s /\ dst[u] # s}
      /\ \A u \in LiveTransitions' : SameTransition(u)
      /\ ~ has_state(s)' /\ \A r \in State \ {s} : SameState(r)
  BY DelStateLemma
<1>2. has_state(s) /\ s # pre /\ s # post /\ ~ is_lazy(s) /\ ~ is_lazy_in(s)
  BY DEF del_state, State, pre, post
<1>3. LiveStates' = LiveStates \ {s}
  BY <1>1 DEF LiveStates, SameState
<1>4. /\ {r \in LiveStates : is_lazy(r)}' = {r \in LiveStates : is_lazy(r)}
      /\ {r \in LiveStates : is_lazy_in(r)}' = {r \in LiveStates : is_lazy_in(r)}
  BY <1>1, <1>2, <1>3 DEF LiveStates, SameState
<1>. DEFINE K == {ArcOf(u) : u \in LiveTransitions \ LiveTransitions'}
<1>5. K = Graph!Incident(s)
  <2>1. Represented
    BY RepresentLemma
  <2>2. \A u \in LiveTransitions : ArcOf(u).src = src[u] /\ ArcOf(u).dst = dst[u]
    BY DEF ArcOf
  <2>. QED
    BY <1>1, <2>1, <2>2 DEF Represented, Graph!Incident
<1>6. ArcWeights' = Graph!Without(Graph!Incident(s))
  BY <1>1, <1>5, RemovedArcs
<1>7. Graph!DelState(s)
  BY <1>2, <1>3, <1>4, <1>6 DEF Graph!DelState, LiveStates
<1>. QED
  BY <1>7 DEF Graph!Next

LEMMA SetLazyRefines ==
  ASSUME IInv, NEW s \in State, NEW lazy \in BOOLEAN,
         set_lazy(s, lazy) \/ set_lazy_in(s, lazy)
  PROVE  Graph!Next
<1>1. /\ UNCHANGED <<nstates, ntransitions, src, dst, label, weight>> /\ has_state(s)
      /\ LiveTransitions' = LiveTransitions
  BY DEF set_lazy, set_lazy_in, slotVars, stateVars, LiveTransitions, has_transition
<1>2. ArcWeights' = ArcWeights
  BY <1>1, SameArcs
<1>3. Represented /\ \A u \in LiveTransitions : ArcOf(u).src = src[u] /\ ArcOf(u).dst = dst[u]
  BY RepresentLemma DEF ArcOf
<1>. DEFINE mark == IF lazy THEN {lazy_transition} ELSE {}
<1>4. null_transition \notin mark /\ (lazy_transition \in mark <=> lazy)
  BY DEF null_transition, lazy_transition
<1>. HIDE DEF mark
<1>5. CASE set_lazy(s, lazy)
  <2>1. /\ succ[s] \in {{}, {lazy_transition}} /\ pred' = pred
        /\ succ'[s] = mark /\ \A r \in State \ {s} : succ'[r] = succ[r]
    BY <1>5 DEF set_lazy, IInv, TypeOK, mark
  <2>2. \A r \in State : has_state(r)' <=> has_state(r)
    BY <1>1, <1>4, <2>1 DEF has_state
  <2>3. LiveStates' = LiveStates /\ s \in LiveStates
    BY <1>1, <2>2 DEF LiveStates
  <2>4. \A u \in LiveTransitions : src[u] # s
    <3>1. {t \in LiveTransitions : src[t] = s} = {}
      BY <2>1 DEF IInv, Incidence
    <3>. QED
      BY <3>1
  <2>5. Graph!Leaving(s) = {}
    BY <1>3, <2>4 DEF Represented, Graph!Leaving
  <2>6. \A r \in State : is_lazy(r)' <=> IF r = s THEN lazy ELSE is_lazy(r)
    BY <1>4, <2>1 DEF is_lazy
  <2>7. {r \in LiveStates : is_lazy(r)}' =
          IF lazy THEN {r \in LiveStates : is_lazy(r)} \union {s}
          ELSE {r \in LiveStates : is_lazy(r)} \ {s}
    BY <2>3, <2>6 DEF LiveStates
  <2>8. {r \in LiveStates : is_lazy_in(r)}' = {r \in LiveStates : is_lazy_in(r)}
    BY <2>1, <2>3 DEF is_lazy_in
  <2>9. Graph!SetLazy(s, lazy)
    BY <1>2, <2>3, <2>5, <2>7, <2>8 DEF Graph!SetLazy
  <2>. QED
    BY <2>9 DEF Graph!Next
<1>6. CASE set_lazy_in(s, lazy)
  <2>1. /\ pred[s] \in {{}, {lazy_transition}} /\ succ' = succ
        /\ pred'[s] = mark /\ \A r \in State \ {s} : pred'[r] = pred[r]
    BY <1>6 DEF set_lazy_in, IInv, TypeOK, mark
  <2>2. \A r \in State : has_state(r)' <=> has_state(r)
    BY <1>1, <2>1 DEF has_state
  <2>3. LiveStates' = LiveStates /\ s \in LiveStates
    BY <1>1, <2>2 DEF LiveStates
  <2>4. \A u \in LiveTransitions : dst[u] # s
    <3>1. {t \in LiveTransitions : dst[t] = s} = {}
      BY <2>1 DEF IInv, Incidence
    <3>. QED
      BY <3>1
  <2>5. Graph!Entering(s) = {}
    BY <1>3, <2>4 DEF Represented, Graph!Entering
  <2>6. \A r \in State : is_lazy_in(r)' <=> IF r = s THEN lazy ELSE is_lazy_in(r)
    BY <1>4, <2>1 DEF is_lazy_in
  <2>7. {r \in LiveStates : is_lazy_in(r)}' =
          IF lazy THEN {r \in LiveStates : is_lazy_in(r)} \union {s}
          ELSE {r \in LiveStates : is_lazy_in(r)} \ {s}
    BY <2>3, <2>6 DEF LiveStates
  <2>8. {r \in LiveStates : is_lazy(r)}' = {r \in LiveStates : is_lazy(r)}
    BY <2>1, <2>3 DEF is_lazy
  <2>9. Graph!SetLazyIn(s, lazy)
    BY <1>2, <2>3, <2>5, <2>7, <2>8 DEF Graph!SetLazyIn
  <2>. QED
    BY <2>9 DEF Graph!Next
<1>. QED
  BY <1>5, <1>6

LEMMA CreateRefines ==
  ASSUME IInv, NEW p \in State, NEW q \in State, NEW l \in Labels, NEW w \in Weight,
         Known(p, q), Legal(p, q, l), get_transition(p, q, l) = null_transition,
         CreateUnlessNull(p, q, l, w)
  PROVE  Graph!Next \/ UNCHANGED vars
<1>1. CASE w = zero
  BY <1>1 DEF CreateUnlessNull
<1>2. CASE w # zero
  <2>1. \A u \in LiveTransitions : ~ (src[u] = p /\ dst[u] = q /\ label[u] = l)
    BY GetTransitionLemma
  <2>2. Create(p, q, l, w)
    BY <1>2 DEF CreateUnlessNull
  <2>3. /\ IInv' /\ \A u \in LiveTransitions : SameTransition(u)
        /\ \A s \in State : SameState(s)
        /\ \E t \in Handle \ LiveTransitions :
             /\ LiveTransitions' = LiveTransitions \union {t}
             /\ src'[t] = p /\ dst'[t] = q /\ label'[t] = l /\ weight'[t] = w
    BY <1>2, <2>1, <2>2, CreateLemma
  <2>4. PICK t \in Handle \ LiveTransitions :
          /\ LiveTransitions' = LiveTransitions \union {t}
          /\ src'[t] = p /\ dst'[t] = q /\ label'[t] = l /\ weight'[t] = w
    BY <2>3
  <2>5. PICK a : a = [src |-> p, label |-> l, dst |-> q]
    OBVIOUS
  <2>6. ArcOf(t)' = a
    BY <2>4, <2>5 DEF ArcOf
  <2>7. ArcWeights' = Graph!Weighted(ArcOf(t)', weight'[t])
    BY <1>2, <2>3, <2>4, AddedArc
  <2>8. ArcWeights' = Graph!Weighted(a, w)
    BY <2>4, <2>6, <2>7
  <2>9. /\ a \in Graph!Arc
        /\ a.src \in LiveStates \ ({s \in LiveStates : is_lazy(s)} \union {post})
        /\ a.dst \in LiveStates \ ({s \in LiveStates : is_lazy_in(s)} \union {pre})
    BY <2>5 DEF Known, Legal, Graph!Arc, LiveStates
  <2>10. Graph!SetArc(a, w)
    BY <2>3, <2>8, <2>9, SameStates DEF Graph!SetArc
  <2>. QED
    BY <2>9, <2>10 DEF Graph!Next
<1>. QED
  BY <1>1, <1>2

LEMMA EraseRefines ==
  ASSUME IInv, NEW t \in Handle, has_transition(t), Erase(t)
  PROVE  Graph!Next
<1>1. /\ IInv' /\ LiveTransitions' = LiveTransitions \ {t}
      /\ \A u \in LiveTransitions : u # t => SameTransition(u)
      /\ \A s \in State : SameState(s)
  BY EraseLemma
<1>2. t \in LiveTransitions
  BY DEF LiveTransitions
<1>3. {ArcOf(u) : u \in LiveTransitions \ LiveTransitions'} = {ArcOf(t)}
  BY <1>1, <1>2
<1>4. LiveTransitions' \subseteq LiveTransitions
      /\ \A u \in LiveTransitions' : SameTransition(u)
  BY <1>1
<1>5. ArcWeights' = Graph!Without({ArcOf(t)})
  BY <1>1, <1>3, <1>4, RemovedArcs
<1>6. ArcWeights' = Graph!Weighted(ArcOf(t), zero)
  BY <1>5 DEF Graph!Weighted
<1>7. Graph!SetArc(ArcOf(t), zero)
  BY <1>1, <1>2, <1>6, EndsLemma, SameStates DEF Graph!SetArc
<1>. QED
  BY <1>2, <1>7, EndsLemma, WeightAssumption DEF Graph!Next

LEMMA ReweighRefines ==
  ASSUME IInv, NEW t \in Handle, has_transition(t), NEW w, Reweigh(t, w)
  PROVE  Graph!Next
<1>1. CASE w = zero
  BY <1>1, EraseRefines DEF Reweigh
<1>2. CASE w # zero
  <2>1. /\ w \in Weight /\ weight' = [weight EXCEPT ![t] = w] /\ IInv'
        /\ UNCHANGED <<nstates, succ, pred, ntransitions, src, dst, label>>
    BY <1>2, ReweighLemma DEF Reweigh, stateVars, adjVars
  <2>2. t \in LiveTransitions
    BY DEF LiveTransitions
  <2>3. ArcWeights' = Graph!Weighted(ArcOf(t), w)
    BY <1>2, <2>1, <2>2, ReweighedArc
  <2>4. \A s \in State : SameState(s)
    BY <2>1 DEF SameState, has_state, is_lazy, is_lazy_in
  <2>5. Graph!SetArc(ArcOf(t), w)
    BY <2>2, <2>3, <2>4, EndsLemma, SameStates DEF Graph!SetArc
  <2>. QED
    BY <2>1, <2>2, <2>5, EndsLemma DEF Graph!Next
<1>. QED
  BY <1>1, <1>2

\* What cannot be seen of a step that changes nothing.
LEMMA StutterRefines == UNCHANGED vars => UNCHANGED Graph!vars
  BY DEF vars, stateVars, adjVars, slotVars, Graph!vars, LiveStates, ArcWeights, ArcOf,
     LiveTransitions, has_transition, has_state, is_lazy, is_lazy_in

LEMMA InitRefines == Init => Graph!Init
<1>. SUFFICES ASSUME Init PROVE Graph!Init
  OBVIOUS
<1>1. LiveTransitions = {}
  BY DEF Init, LiveTransitions, has_transition
<1>2. LiveStates = {pre, post}
  BY BoundsAssumption DEF Init, LiveStates, has_state, State, pre, post
<1>3. \A s \in LiveStates : ~ is_lazy(s) /\ ~ is_lazy_in(s)
  BY DEF Init, LiveStates, is_lazy, is_lazy_in
<1>4. ArcWeights = [a \in {} |-> zero]
  BY <1>1 DEF ArcWeights
<1>. QED
  BY <1>2, <1>3, <1>4 DEF Graph!Init

LEMMA StepRefines == IInv /\ [Next]_vars => [Graph!Next]_(Graph!vars)
<1>. SUFFICES ASSUME IInv, [Next]_vars
     PROVE Graph!Next \/ UNCHANGED Graph!vars
  OBVIOUS
<1>1. CASE UNCHANGED vars
  BY <1>1, StutterRefines
<1>2. CASE NextState
  BY <1>2, NewStateRefines, DelStateRefines, SetLazyRefines DEF NextState
<1>3. CASE NextArc
  <2>1. PICK p \in State, q \in State, l \in Labels :
          \/ del_transition_arc(p, q, l)
          \/ \E w \in Weight : \/ new_transition(p, q, l, w)
                               \/ set_transition(p, q, l, w)
                               \/ add_transition(p, q, l, w)
    BY <1>3 DEF NextArc
  <2>2. PICK t : t = get_transition(p, q, l)
    OBVIOUS
  <2>3. Known(p, q) /\ Legal(p, q, l)
    BY <2>1 DEF del_transition_arc, new_transition, set_transition, add_transition
  <2>4. t # null_transition => t \in Handle /\ has_transition(t)
    BY <2>2, <2>3, GetTransitionLemma
  <2>5. CASE del_transition_arc(p, q, l)
    <3>1. \/ t = null_transition /\ UNCHANGED vars
          \/ t # null_transition /\ Erase(t)
      BY <2>2, <2>5 DEF del_transition_arc
    <3>. QED
      BY <2>4, <3>1, EraseRefines, StutterRefines
  <2>6. ASSUME NEW w \in Weight,
               \/ new_transition(p, q, l, w)
               \/ set_transition(p, q, l, w)
               \/ add_transition(p, q, l, w)
        PROVE  Graph!Next \/ UNCHANGED Graph!vars
    <3>1. \/ t = null_transition /\ CreateUnlessNull(p, q, l, w)
          \/ t # null_transition /\ \E v : Reweigh(t, v)
      BY <2>2, <2>6 DEF new_transition, set_transition, add_transition
    <3>. QED
      BY <2>2, <2>3, <2>4, <3>1, CreateRefines, ReweighRefines, StutterRefines
  <2>. QED
    BY <2>1, <2>5, <2>6
<1>4. CASE NextHandle
  <2>1. PICK t \in Handle :
          has_transition(t) /\ (Erase(t) \/ \E v : Reweigh(t, v))
    BY <1>4 DEF NextHandle, del_transition, set_weight, add_weight, lweight, rweight
  <2>. QED
    BY <2>1, EraseRefines, ReweighRefines
<1>. QED
  BY <1>1, <1>2, <1>3, <1>4 DEF Next

\* The store implements the automaton that algorithms see: every operation is
\* the creation or the removal of a state, the weight of one arc, a mark, or
\* nothing, whatever is recycled underneath.
THEOREM StoreImplementsGraph == Spec => ImplementsGraph
<1>1. Spec => []IInv
  BY StoreInvariant
<1>. QED
  BY <1>1, InitRefines, StepRefines, PTL DEF Spec, ImplementsGraph, Graph!Spec

-----------------------------------------------------------------------------
(* Counters: sizes of vectors and of free lists.                           *)

\* Two sets that share nothing.
LEMMA DisjointLemma ==
  ASSUME NEW S, NEW T, IsFiniteSet(S), IsFiniteSet(T), S \intersect T = {}
  PROVE  Cardinality(S \union T) = Cardinality(S) + Cardinality(T)
<1>1. Cardinality(S \intersect T) = 0
  BY FS_EmptySet
<1>2. Cardinality(S) \in Nat /\ Cardinality(T) \in Nat
  BY FS_CardinalityType
<1>3. Cardinality(S \union T) = Cardinality(S) + Cardinality(T) - Cardinality(S \intersect T)
  BY FS_Union, Zenon
<1>. QED
  BY <1>1, <1>2, <1>3

\* The length of a free list is the number of slots it holds.
LEMMA LengthLemma ==
  ASSUME NEW S, NEW q \in Seq(S), IsInjective(q)
  PROVE  IsFiniteSet(Range(q)) /\ Cardinality(Range(q)) = Len(q)
<1>1. Len(q) \in Nat /\ DOMAIN q = 1 .. Len(q) /\ q \in [1 .. Len(q) -> S]
  BY LenProperties
<1>2. q \in Bijection(1 .. Len(q), Range(q))
  BY <1>1 DEF Bijection, Injection, Surjection, IsInjective, Range
<1>3. ExistsBijection(1 .. Len(q), Range(q))
  BY <1>2 DEF ExistsBijection
<1>4. IsFiniteSet(1 .. Len(q)) /\ Cardinality(1 .. Len(q)) = Len(q)
  <2>1. \A n \in Nat : IsFiniteSet(1 .. n) /\ Cardinality(1 .. n) = IF 1 > n THEN 0 ELSE n - 1 + 1
    BY FS_Interval
  <2>2. \A n \in Nat : (IF 1 > n THEN 0 ELSE n - 1 + 1) = n
    OBVIOUS
  <2>. QED
    BY <1>1, <2>1, <2>2
<1>. QED
  BY <1>3, <1>4, FS_Bijection

\* The slots of a vector that are not on its free list are in use.
LEMMA InUseLemma ==
  ASSUME NEW n \in Nat, NEW S, NEW q \in Seq(S), IsInjective(q),
         NEW L, L \intersect Range(q) = {}, L \union Range(q) = 0 .. n - 1
  PROVE  IsFiniteSet(L) /\ Cardinality(L) = n - Len(q)
<1>1. IsFiniteSet(0 .. n - 1) /\ Cardinality(0 .. n - 1) = n
  BY FS_Interval
<1>2. IsFiniteSet(L)
  BY <1>1, FS_Subset
<1>3. Cardinality(L \union Range(q)) = Cardinality(L) + Cardinality(Range(q))
  BY <1>2, LengthLemma, DisjointLemma
<1>4. Cardinality(L) \in Nat /\ Len(q) \in Nat
  BY <1>2, FS_CardinalityType, LenProperties
<1>5. Cardinality(Range(q)) = Len(q)
  BY LengthLemma
<1>6. Cardinality(L) + Len(q) = n
  BY <1>1, <1>3, <1>5
<1>. QED
  BY <1>2, <1>4, <1>6

\* pre() and post() are never erased, nor is any operation of WeightedGraph
\* able to.
EndsAreLive == {pre, post} \subseteq LiveStates

LEMMA EndsStayLive == Spec => []EndsAreLive
<1>1. Init => EndsAreLive
  BY InitRefines DEF EndsAreLive, Graph!Init
<1>2. EndsAreLive /\ IInv /\ [Next]_vars => EndsAreLive'
  BY StepRefines DEF EndsAreLive, Graph!Next, Graph!NewState, Graph!DelState,
     Graph!SetArc, Graph!SetLazy, Graph!SetLazyIn, Graph!vars
<1>. QED
  BY <1>1, <1>2, StoreInvariant, PTL DEF Spec

LEMMA CountersLemma == IInv /\ EndsAreLive => CountersExact
<1>. SUFFICES ASSUME IInv, EndsAreLive, ~ is_lazy(pre), ~ is_lazy_in(post)
     PROVE  /\ num_all_states = Cardinality(LiveStates)
            /\ num_transitions = Cardinality({t \in LiveTransitions : label[t] # prepost})
  BY DEF CountersExact
<1>. USE BoundsAssumption
<1>1. num_all_states = Cardinality(LiveStates)
  <2>1. nstates \in Nat /\ 0 .. nstates - 1 \subseteq State
    BY DEF IInv, TypeOK, State
  <2>2. LiveStates = {s \in 0 .. nstates - 1 : has_state(s)}
    BY <2>1 DEF LiveStates, has_state
  <2>3. /\ LiveStates \intersect Range(states_fs) = {}
        /\ LiveStates \union Range(states_fs) = 0 .. nstates - 1
    BY <2>2 DEF IInv, FreeStoresExact
  <2>4. states_fs \in Seq(State) /\ IsInjective(states_fs)
    BY DEF IInv, TypeOK, FreeStoresExact
  <2>. QED
    BY <2>1, <2>3, <2>4, InUseLemma DEF num_all_states
<1>2. /\ IsFiniteSet(LiveTransitions)
      /\ Cardinality(LiveTransitions) = ntransitions - Len(transitions_fs)
  <2>1. ntransitions \in Nat /\ 0 .. ntransitions - 1 \subseteq Handle
    BY DEF IInv, TypeOK, Handle
  <2>2. LiveTransitions = {t \in 0 .. ntransitions - 1 : src[t] # null_state}
    BY <2>1 DEF LiveTransitions, has_transition
  <2>3. /\ LiveTransitions \intersect Range(transitions_fs) = {}
        /\ LiveTransitions \union Range(transitions_fs) = 0 .. ntransitions - 1
    BY <2>2 DEF IInv, FreeStoresExact
  <2>4. transitions_fs \in Seq(Handle) /\ IsInjective(transitions_fs)
    BY DEF IInv, TypeOK, FreeStoresExact
  <2>. QED
    BY <2>1, <2>3, <2>4, InUseLemma
<1>. DEFINE I == {t \in LiveTransitions : src[t] = pre}
            F == {t \in LiveTransitions : dst[t] = post}
            N == {t \in LiveTransitions : label[t] # prepost}
<1>3. succ[pre] = I /\ pred[post] = F
  <2>1. pre \in State /\ post \in State /\ pre # post
    BY DEF State, pre, post
  <2>2. null_transition \notin succ[pre]
    BY DEF EndsAreLive, LiveStates, has_state
  <2>. QED
    BY <2>1, <2>2 DEF IInv, Incidence, is_lazy, is_lazy_in
<1>4. \A t \in LiveTransitions : Legal(src[t], dst[t], label[t])
  BY DEF IInv, ArcsAreFunction
<1>5. /\ I \intersect F = {} /\ (I \union F) \intersect N = {}
      /\ (I \union F) \union N = LiveTransitions
  BY <1>4 DEF Legal, pre, post
<1>6. IsFiniteSet(I) /\ IsFiniteSet(F) /\ IsFiniteSet(N) /\ IsFiniteSet(I \union F)
  <2>1. I \subseteq LiveTransitions /\ F \subseteq LiveTransitions
        /\ N \subseteq LiveTransitions /\ I \union F \subseteq LiveTransitions
    OBVIOUS
  <2>. HIDE DEF I, F, N
  <2>. QED
    BY <1>2, <2>1, FS_Subset
<1>. HIDE DEF I, F, N
<1>7. Cardinality(I \union F) = Cardinality(I) + Cardinality(F)
  BY <1>5, <1>6, DisjointLemma
<1>8. Cardinality(LiveTransitions) = Cardinality(I \union F) + Cardinality(N)
  BY <1>5, <1>6, DisjointLemma
<1>9. Cardinality(I) \in Nat /\ Cardinality(F) \in Nat /\ Cardinality(N) \in Nat
  BY <1>6, FS_CardinalityType
<1>10. ntransitions \in Nat /\ Len(transitions_fs) \in Nat
  BY LenProperties DEF IInv, TypeOK
<1>11. num_transitions = Cardinality(N)
  <2>1. num_transitions = ntransitions - Len(transitions_fs) - Cardinality(I) - Cardinality(F)
    BY <1>3 DEF num_transitions, num_initials, num_finals
  <2>. QED
    BY <1>2, <1>7, <1>8, <1>9, <1>10, <2>1
<1>. QED
  BY <1>1, <1>11 DEF N

\* num_states() and num_transitions(), differences of sizes, count what is live,
\* unless the sentinel of pre() or post() is counted with it.
THEOREM CountersAreExact == Spec => []CountersExact
  BY StoreInvariant, EndsStayLive, CountersLemma, PTL
=============================================================================
