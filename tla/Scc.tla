-------------------------------- MODULE Scc --------------------------------
(***************************************************************************)
(* strong_components(aut, algo): the promise of StrongComponents, kept by  *)
(* the algorithm that the caller chose.  The variables of the other ones   *)
(* stay idle.                                                              *)
(***************************************************************************)
EXTENDS Naturals, Sequences, FiniteSets, Functions

CONSTANTS
  State,          \* the states of the automaton, but pre() and post()
  Relations,      \* the sets of arcs <<source, destination>> to consider
  Algorithms      \* what algo may be

Scc_algo_t ==
  {"dijkstra", "tarjan,iterative", "tarjan,recursive", "kosaraju"}

ASSUME StateAssumption == IsFiniteSet(State)

ASSUME RelationsAssumption == Relations \subseteq SUBSET (State \X State)

ASSUME AlgorithmsAssumption == Algorithms \subseteq Scc_algo_t

VARIABLES
  algo, edges, components,
  number, low, dfs_stack, stack,                \* of Tarjan, and calls
  calls, pass, marked, todo, num,               \* of Kosaraju
  preorder, unassigned, uncertain, component    \* of Dijkstra, and calls

iterative == <<number, dfs_stack>>
tarjan    == <<low, stack>>
kosaraju  == <<pass, marked, todo, num>>
dijkstra  == <<preorder, unassigned, uncertain, component>>
vars == <<algo, edges, components, iterative, tarjan, calls, kosaraju, dijkstra>>

TI == INSTANCE TarjanIterative
TR == INSTANCE TarjanRecursive
K  == INSTANCE Kosaraju
D  == INSTANCE DijkstraScc

NoIterative == number = <<>> /\ dfs_stack = <<>>
NoTarjan    == low = <<>> /\ stack = <<>>
NoKosaraju  == pass = <<>> /\ marked = <<>> /\ todo = <<>> /\ num = <<>>
NoDijkstra  ==
  preorder = <<>> /\ unassigned = <<>> /\ uncertain = <<>> /\ component = <<>>

Init ==
  /\ algo \in Algorithms
  /\ \/ /\ algo = "tarjan,iterative" /\ TI!Init
        /\ calls = <<>> /\ NoKosaraju /\ NoDijkstra
     \/ /\ algo = "tarjan,recursive" /\ TR!Init
        /\ NoIterative /\ NoKosaraju /\ NoDijkstra
     \/ /\ algo = "kosaraju" /\ K!Init
        /\ NoIterative /\ NoTarjan /\ NoDijkstra
     \/ /\ algo = "dijkstra" /\ D!Init
        /\ NoIterative /\ NoTarjan /\ NoKosaraju

Next ==
  \/ /\ algo = "tarjan,iterative" /\ TI!Next
     /\ UNCHANGED <<algo, calls, kosaraju, dijkstra>>
  \/ /\ algo = "tarjan,recursive" /\ TR!Next
     /\ UNCHANGED <<algo, iterative, kosaraju, dijkstra>>
  \/ /\ algo = "kosaraju" /\ K!Next
     /\ UNCHANGED <<algo, iterative, tarjan, dijkstra>>
  \/ /\ algo = "dijkstra" /\ D!Next
     /\ UNCHANGED <<algo, iterative, tarjan, kosaraju>>

Spec == Init /\ [][Next]_vars /\ WF_vars(Next)

-----------------------------------------------------------------------------

\* What waits on stack_ is pending: the default algorithm holds the states in the
\* order of their visits, and pops those of one component and no other; the
\* recursive one leaves none there that no call will pop.
StacksArePending ==
  CASE algo = "tarjan,iterative" -> TI!StackIsPending
    [] algo = "tarjan,recursive" -> TR!WaitersHaveAnOwner
    [] OTHER                     -> TRUE

\* The low_ of the default algorithm never promises a way back that does
\* not exist, whatever the finished components contain.
LowIsReachable == algo = "tarjan,iterative" => TI!LowIsReachable

\* Every root of Kosaraju's second search leads only to its own component
\* and to those that are done.
NextRootIsBottom == algo = "kosaraju" => K!NextRootIsBottom

\* "Stack S contains all the vertices that have not yet been assigned to a
\* strongly connected component" (scc.hh:150-151).
UnassignedHaveNoComponent == algo = "dijkstra" => D!UnassignedHaveNoComponent

\* The components that are ready: Kosaraju's last one grows until num_ says
\* so; and a state that Dijkstra's gave to a component as the root of an
\* earlier one counts there only.
Earlier(i) == UNION {components[j] : j \in 1 .. i - 1}
Ready ==
  CASE algo = "kosaraju" -> SubSeq(components, 1, num)
    [] algo = "dijkstra" -> [i \in DOMAIN components |-> components[i] \ Earlier(i)]
    [] OTHER             -> components

Abstract == INSTANCE StrongComponents WITH components <- Ready

\* Whatever the algorithm, the components come out right, each once, those
\* they lead to first, and all of them in the end.
ImplementsStrongComponents == Abstract!Spec
=============================================================================
