------------------------------ MODULE Properer ------------------------------
(***************************************************************************)
(* proper(aut, algo): what the weightset tells about stars decides whether *)
(* the automaton is checked first; then the algorithm that the caller      *)
(* chose removes the spontaneous arcs.  The variables of the other         *)
(* algorithms stay idle.                                                   *)
(***************************************************************************)
EXTENDS Integers, FiniteSets, Sequences, Functions

CONSTANTS
  Letter,        \* the generators of the labelset
  Automata(_),   \* the automata to search, in each weightset
  Length,        \* of the words on which series are compared
  Algorithms     \* what algo_ may be

ASSUME AlgorithmsAssumption == Algorithms \subseteq {"inplace", "separate", "distance", "lazy"}

VARIABLES
  algo_, prune_, ws,
  input,         \* what proper was called on
  status,        \* "called", then "ready" or "rejected", then as the remover's
  aut,           \* the automaton that becomes the result
  todo,          \* of the in-place and separate removers
  dirty,         \* of the separate and lazy removers
  de, left,      \* of the distance remover
  proper_states, known_states, serving, batch, has_removed \* of the lazy one

lazy == <<proper_states, known_states, serving, batch, has_removed>>
vars == <<algo_, prune_, ws, input, status, aut, todo, dirty, de, left, lazy>>

INSTANCE EpsilonElimination

ASSUME LetterAssumption == "" \notin Letter /\ "$" \notin Letter

ASSUME AutomataAssumption ==
  \A k \in W!Names : \A a \in Automata(k) : IsAutomatonOver(k, a)

I == INSTANCE EpsilonRemover
S == INSTANCE EpsilonRemoverSeparate
D == INSTANCE EpsilonRemoverDistance
L == INSTANCE LazyProper

Init ==
  /\ algo_ \in Algorithms /\ prune_ \in BOOLEAN
  /\ ws \in W!Names
  /\ input \in Automata(ws)
  /\ aut = input
  /\ todo = <<>> /\ dirty = <<>> /\ de = <<>> /\ left = <<>>
  /\ proper_states = {} /\ known_states = {}
  /\ serving = L!Nobody /\ batch = {} /\ has_removed = FALSE
  /\ status = "called"

\* proper_star_: only some weightsets require a valid automaton; the lazy
\* algorithm requires nothing.
Check ==
  /\ status = "called"
  /\ status' = IF /\ algo_ # "lazy" /\ W!star_status(ws) \in {"ABSVAL", "NON_STARRABLE"}
                  /\ ~ is_valid(aut)
               THEN "rejected"
               ELSE "ready"
  /\ UNCHANGED <<algo_, prune_, ws, input, aut, todo, dirty, de, left, lazy>>

Inplace  == algo_ = "inplace" /\ I!Next /\ UNCHANGED <<algo_, input, dirty, de, left, lazy>>
Separate == algo_ = "separate" /\ S!Next /\ UNCHANGED <<algo_, input, de, left, lazy>>
Distance == algo_ = "distance" /\ D!Next /\ UNCHANGED <<algo_, input, todo, dirty, lazy>>
Lazy     == algo_ = "lazy" /\ L!Next /\ UNCHANGED <<algo_, todo, de, left>>

\* Every state that the client of the lazy automaton was shown is served.
Served == status = "running" /\ serving = L!Nobody /\ known_states \subseteq proper_states

\* The caller has an answer.  In any other state some step must be possible.
Answered ==
  /\ \/ status \in {"rejected", "raised", "done"}
     \/ algo_ = "lazy" /\ Served
  /\ UNCHANGED vars

Next == Check \/ Inplace \/ Separate \/ Distance \/ Lazy \/ Answered

Spec == Init /\ [][Next]_vars

-----------------------------------------------------------------------------
(* Properties. *)

\* The elimination never leaves or makes a spontaneous arc that no waiting
\* state accounts for; a client of the lazy automaton is never shown a state
\* that has spontaneous arcs left, and which might go away or get other arcs.
NothingEscapes ==
  /\ algo_ = "inplace" => I!NothingEscapes
  /\ algo_ = "lazy" => L!NothingPending

\* What a client of the lazy automaton was told about a state stays true:
\* serving other states, or failing to do so, never changes its arcs.
AnswersStand == [][algo_ = "lazy" => L!AnswersKept]_vars

\* The order of the heap is that of the automaton as it is.
ProfilesAreFresh == algo_ = "inplace" => I!ProfilesAreFresh

\* The separate remover goes through the states of the in-place one: the arcs
\* of its two automata, side by side, are those of the latter.
SeparateFollowsInPlace ==
  [][algo_ = "separate" /\ status # "called" => S!InPlace!Next]_vars

\* All the arcs, spontaneous or not, that stand for the input.
Whole == Both(dirty, aut)

Kept ==
  LET before == Series(input, Length)
      after  == Series(Whole, Length)
  IN  before.defined => after.defined /\ before.of = after.of

\* No step changes the weight of a word: neither the elimination of a state,
\* whatever the order, nor the removal of a state that nothing enters.  The
\* distance algorithm promises it for its result only, and keeps it with
\* Boolean weights.  A client of the lazy automaton has the series once it
\* has asked for all the states it was shown, in whatever order, and even if
\* some of its questions failed.
SeriesKept ==
  /\ \/ algo_ \in {"inplace", "separate"} /\ status \in {"running", "done"}
     \/ ws = "b" /\ status = "done"
     => Kept
  /\ algo_ = "lazy" => L!ServesTheSeries(Length)

\* "a.proper(algo)" is expected to be the same for 'distance', 'inplace' and
\* 'separate' (tests/python/proper.py:6).
AnyAlgorithmKeepsSeries == status = "done" => Kept

\* When the sum of the weights of all the spontaneous paths exists: for zmin,
\* no circuit is negative; for z, there is none; for q, the sum of their
\* absolute values exists (the pivots of a matrix of non-negative weights).
LeastWalk(a, n) ==
  LET Q == States(a) \ {pre, post}
      arcs == Matrix(a, Q)
      longer(d, k) ==
        [e \in Q \X Q |->
           SumOver(Q, LAMBDA m : W!mul(ws, d[<<e[1], m>>], arcs[<<m, e[2]>>]))]
  IN  FoldLeft(longer, arcs, [k \in 1 .. n - 1 |-> k])
Summable(a) ==
  LET Q == States(a) \ {pre, post}
  IN  CASE ws = "b"    -> TRUE
        [] ws = "z"    -> is_eps_acyclic(a)
        [] ws = "zmin" -> \A k \in 1 .. Cardinality(Q), s \in Q : LeastWalk(a, k)[<<s, s>>] >= 0
        [] ws = "q"    -> AllDistances(absval(a), Q).defined

\* An automaton is refused, before or during the removal, if and only if its
\* series does not exist, whatever the algorithm and its order.
RefusedIffNotSummable ==
  /\ status \in {"rejected", "raised"} => ~ Summable(input)
  /\ status = "done" => Summable(input)

\* Once is_valid agreed, no star raises in the middle of the removal: the
\* automaton edited in place cannot be left half done.
NeverRaisesOnceChecked ==
  W!star_status(ws) # "TOPS" => status # "raised"
=============================================================================
