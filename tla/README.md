# A formal model of vcsn

vcsn is a C++ library for weighted automata and transducers.  An automaton is
labelled over a *labelset* and weighted over a *weightset*; algorithms are
templates over both.  A dynamic layer (`dyn`) erases those types: a call looks
its specialisation up in a registry and, when there is none, generates a C++
file, compiles it with `vcsn compile`, loads the shared object and tries again.
This directory holds TLA+ modules translated from that code, the TLC
configurations that check them on small instances, and proofs that hold for all
instances.

## 1. Inventory

| Component | State it keeps | Operations | What makes it correct |
|---|---|---|---|
| **Automaton store** `vcsn/core/mutable-automaton.hh` | vectors of states (each with `succ`, `pred`) and of transitions, two free lists, lazy and erased marks | create, erase, reweight states and transitions; declare a state lazy | the three records of a transition agree; slots are recycled exactly once; handles keep their meaning; it is a function from arcs to non-null weights |
| **Decorators** `core/*-automaton.hh` | a wrapped automaton and maps from states to names, sets, pairs | forwarding, naming, permuting | maps and states in bijection |
| **On-the-fly construction** `algos/tuple-automaton.hh`, `core/lazy-*`, `misc/state-bimap.hh`, `core/transition-map.hh` | a bijection between tuples and states, a queue of states, lazy marks, caches of outgoing transitions | `state()`, `complete_`, `all_out` | the same automaton whatever the order in which states are completed; caches never stale |
| **Strongly connected components** `algos/scc.hh` | stacks, visit numbers, components | four algorithms, `scc`, `condense`, `component` | the components of the graph, each once, sinks first |
| **Accessibility, filter, trim** `algos/accessible.hh`, `filter.hh` | sets of states, a queue | `accessible`, `coaccessible`, `trim`, filters | exact reachability |
| **Determinization** `algos/determinize.hh` | a queue of subsets, a map subset -> state, cached successors | strict, lazy, weighted | deterministic, equivalent |
| **Epsilon removal** `algos/epsilon-remover*.hh`, `proper.hh` | a heap of state profiles, handles of the heap, the automaton edited in place | `in_situ_remover`, star of loops, pruning | same series, no spontaneous transition left, failure only when a star is undefined |
| **Minimization and quotient** `algos/minimize*.hh`, `quotient.hh` | partitions, worklists | Moore, signature, Hopcroft, weighted, Brzozowski | the coarsest partition; same series |
| **Rational operations on automata** `algos/standard.hh`, `add.hh`, `multiply.hh`, `star.hh`, ... | the automaton edited in place | `standard`, sum, product, star, weights | the series of the result |
| **State elimination** `algos/to-expression.hh` | a lifted automaton, a heap of profiles | `eliminate_state` | same series |
| **Shortest paths** `algos/dijkstra.hh`, `bellman-ford.hh`, `a-star.hh`, `eppstein.hh`, `k-lightest-path.hh` | a heap, a predecessor tree | lightest path(s) | minimal weight, in order |
| **Enumeration of the series** `algos/lightest.hh`, `shortest.hh` | a queue of states and words | `lightest`, `shortest`, `weight_series` | every word once, with its weight, in order |
| **Synchronizing words** `algos/synchronizing-word.hh`, `pair.hh` | the pair automaton, distances | greedy heuristics | the word synchronizes |
| **Comparisons and decisions** `algos/are-isomorphic.hh`, `is-ambiguous.hh`, `has-twins-property.hh`, ... | maps between states, worklists | predicates | equal to their definition |
| **Products and transducers** `algos/conjunction.hh`, `compose.hh`, `synchronize.hh`, `project.hh` | see on-the-fly construction | conjunction, shuffle, infiltration, composition | the series of the result |
| **Expressions** `core/rat/*`, `algos/derivation.hh`, `to-expansion.hh`, `thompson.hh`, `zpc.hh`, `derived-term.hh` | immutable terms | identities, derivation, expansion, automata from terms | series preserved |
| **Label sets, weight sets, polynomials** `labelset/*`, `weightset/*`, `core/polynomialset.hh` | none | operations, conversions, comparison | algebraic laws |
| **Dynamic registry and JIT** `algos/registry.hh`, `lib/vcsn/dyn/translate.cc`, `misc/xltdl*`, `libexec/vcsn-compile` | the registry of the process, files under the plugin directory shared by all processes | `call`, `compile`, `print`, `jit` | the library that is loaded is the one that was asked for, whatever else runs, fails or crashes |
| **Input and output** parsers, printers, dot, TikZ, daut, EFSM, FAdo, Grail | text | reading, writing | round trips |
| **Python binding, notebooks, tools, build system, tests, docs** | - | - | - |

How they interact.  Algorithms edit the store through its public interface only;
they hold state numbers and transition handles while they do so, which the store
may recycle.  Decorators own a store and keep maps keyed by its states.  The
on-the-fly constructions are called back by `all_out` from whatever algorithm
traverses them.  The dynamic layer calls every algorithm, and is the only part
with concurrency: several processes compile the same plugin at the same time in
the same directory, and any of them may fail or be killed.  Everything else is
sequential; what is hard there is the order in which worklists are served,
what is read before an edit and used after it, and what an early exit leaves
behind.

## 2. Plan

In this order, each item an abstract promise first, then the code that keeps it:

1. The store, its abstract specification, the refinement; proofs of all its properties.
2. Strongly connected components: one promise, four implementations.
3. The JIT cache, with processes, failures and kills; proofs of all its properties.
4. Minimization: one promise, four implementations, the quotient.
5. Epsilon removal: the in-place remover with its heap, the separate remover that
   follows it, the distance remover, the lazy proxy.
6. Automata constructed on the fly: products, composition, determinization,
   insplitting, strict or lazy, over one promise, proved independent of the order.
7. Lightest paths and lightest words: Dijkstra, A*, Bellman-Ford, Yen, the search
   through words.
8. Rational expressions: identities, derivations and expansions, the automata made
   from them, state elimination.
9. Operations on whole automata: sum, product, star, powers and weights, each for general,
   standard and deterministic automata, and the visitor `inductive`, which uses them.

All of these are done.  What would come next: quotients, prefixes and conjugates;
`ldivide_here` and `synchronize`; Eppstein's paths; proofs that an elimination keeps the
series of an automaton with spontaneous arcs, that the constructions on the fly implement `Exploration`, and that the paths of Bellman and Ford
and of Yen are lightest.

`Scc`, `Minimize`, `Properer`, `OnTheFly`, `Lightest` and `Rational` compose the algorithms as the
dispatchers of the code do, so that one run asks one question of all the algorithms
that answer it: the problem, and the algorithm, are chosen by `Init`.

## 3. Modules and the code

### The store

`WeightedGraph` is the automaton that a user sees: live states, a function from
arcs (source, label, destination) to non-null weights, and lazy marks.
`MutableAutomaton` is `mutable_automaton_impl`, slot by slot: `succ` and `pred`
(sets of handles, with the sentinels `null_transition` and `lazy_transition` that
the code stores in the same vectors), `src`, `dst`, `label`, `weight`, and the two
free lists in their order, since that order decides which handle comes back.  One
action per public operation; guards are the asserts, that is what a caller owes.
The order inside `succ` and `pred` is left out: no result depends on it.
`ImplementsGraph` is the refinement: `Graph == INSTANCE WeightedGraph WITH live <-
LiveStates, arcs <- ArcWeights, ...`.  The operations of the field F2 and the view `LiveView`,
which the run needs, are at the end of the module.

### Strongly connected components

`StrongComponents` is the promise of `strong_components`: components come out one by
one, each once, each after those it leads to, and in the end all are out.
`TarjanIterative`, `TarjanRecursive`, `Kosaraju` and `DijkstraScc` are the four
specialisations of `scc_impl`, over a digraph (weights and labels play no part).  A
recursive `dfs` is a stack of records (a state, the destinations still to see); one
action is one destination, one entry or one return.  The order of `states()` and of
`out(aut, s)` is left open, so the result is shown for any order.  `Reachability`
defines a path without recursion over the states, as what no set that is closed under
arcs leaves out, and a component with it; `MCScc` checks on its digraphs that this is
what paths lead to (`ReachesMeansConnected`).  `Scc` is the dispatcher: it starts the
algorithm that `algo` names, and maps what each has emitted to `StrongComponents`.
`MCScc` lists the digraphs, one per class of isomorphism.  `SccProofs` holds the proofs.

### Minimization

`WeightedAutomata` holds automata as values and the pure operators: evaluation of a
word, trimness, determinism, quotient, signature of a state.  `CoarsestPartition` is
the promise: a partition that is only refined, never beyond the coarsest stable
one, and that is stable in the end.  `MinimizeMoore`, `MinimizeSignature` (Boolean
and weighted signatures: the same loop) and `MinimizeHopcroft` are the refinements,
`Minimize` the dispatcher followed by `quotient`.  What the code leaves to a hash
table is left open: the numbers that the parts of a split get, and what an
iteration over an `unordered_set` visits after insertions rehashed it.  Hopcroft's
worklist is a `std::set` of bitsets, whose order is the order of integers
(`Before`).  `MCMinimize` builds the inputs.  They are automata in which nothing enters
`pre` and nothing leaves `post`, with non-null weights, on which `moore`, `signature` and
`hopcroft` only see the weight 1 (`InputsAssumption`).  `FoldProofs`
and `MinimizeProofs` hold the proofs.

### Epsilon removal

`Weightsets` is the arithmetic of `b`, `z`, `nmin`, `zmin` and `q`, one at least for each
`star_status_t`; a module takes the name `ws` of the weightset as a parameter.
`SpontaneousAutomata` extends `WeightedAutomata` with spontaneous arcs and
`all_distances`; the `Series` of an automaton, on the words up to a length, is the
reference that the removers are compared with.  `EpsilonElimination` is what the
removers share: profiles and their order, the elimination of the spontaneous arcs
into a state (`Freed`, and `Separated` for two automata), and `is_valid`, which runs
the elimination on a copy.  `EpsilonRemover` is the loop over the heap of
`epsilon-remover.hh`, an action for each state freed; when `star` raises, the
exception leaves the automaton as far edited as the order of the list of arcs says
(`Raise`, order left open).  `EpsilonRemoverSeparate` keeps the spontaneous arcs in
an automaton of their own; it follows the in-place remover step by step under `aut <-
Both(dirty, aut)`, the arcs of the two side by side (`SeparateFollowsInPlace`).  `EpsilonRemoverDistance` visits pairs of states.
`LazyProper` is the proxy that removes spontaneous arcs of a state when a client asks
for its transitions: it has no heap, its order is the client's, and a client may ask
again after an exception; `transpose` is modelled as a map of the arcs.  `Properer` is the
dispatcher: the check that the weightset requires, then the algorithm, or the proxy
and its clients.  Ties between profiles are broken by state numbers, as in the code.
An input (`IsAutomatonOver`) is what the store may hold: a finite function from arcs to non-null weights,
nothing enters `pre`, nothing leaves `post`, and `$` labels the arcs at these two and no other.
`ProperProofs` holds the proofs.

### The JIT cache

`JitCache` is the protocol of `Registry::get`, `translation::print`, `translation::jit`
and the program `vcsn-compile`, for one plugin and any number of processes.  A file
is the set of what it holds; a file with the pid in its name is a function of the
process; a file that is being written is not `whole`.  Times come from a clock that
every write advances; rename keeps them.  One action is one system call that other
processes may see, or one decision.  What the environment does is the variable
`perils`: calls at the same time, failures of the compiler, kills, headers that
change during a build, a dependency file seen half-written, different build
signatures, processes without Python.  Each run says which sets of perils
(`Worlds`) it considers, each property under which perils it is claimed.

### On the fly

`Exploration` is the promise of every automaton whose states stand for names (tuples
of states, polynomials): the arcs that leave a state depend on its name only, and names
are served once each, in any order.  `OnTheFly` is `tuple_automaton`,
`lazy_tuple_automaton`, `polystate_automaton` and `insplit_automaton`: `state()` with its map
and, unless lazy, its queue; `complete_`, transition by transition, each with
`new_transition` or `add_transition` as the code has it; `all_out` of a client, that may
ask for any state, several times.  Composition and conjunction with spontaneous arcs
read their operands through `insplit` and through the caches of `transition-map.hh`, which
are built once per state.  `Products` lists what `product_automaton` and `compose_automaton` add
in each phase of `add_*_transitions`, for `conjunction`, `shuffle`, `infiltrate`, `ldivide`, the
deterministic sum and `compose`; `Subsets` what `determinized_automaton` adds, weighted
residues and their normalization included.  `AsPromised` compares the result with the
series of the operands: the product of weights, the sum over the ways to shuffle, the
weights of a relation, the quotient.

### Lightest paths and words

The first part of `Lightest` is Dijkstra's loop, A*'s (with the heuristic of the code, which is zero),
and Bellman-Ford's passes with its final check: one action per state that leaves the heap,
or per pass.  The second is `yen_impl`: its spurs, the arcs and states it hides, the
set of candidates.  The rest of `Lightest` is the dispatcher `lightest(aut, num, algo)`, with
`lightest_impl` and its queue of states and words, and what makes words of paths.  Ties
in a heap are left open.  `PoppedIsFinal`: once a state is out of the heap it never gets
lighter, so the dangling handle is never used.  The queue of `lightest_impl` is a set:
`add` on a polynomial is idempotent there.  Assumed of the requests: the weights of `nmin` are not
negative (its values are unsigned in the code), and no weight is so large that the distances of the states
overflow (`DistancesAssumption`; the code adds without a check).  `LightestProofs` holds the proofs.

### Rational expressions

`Expressions` is an expressionset: the constructors `add`, `mul`, `star`, `lweight`, `rweight`, `conjunction`,
`shuffle`, `infiltrate`, `complement`, `transposition`, each as `expressionset.hxx` simplifies it
under the identities `none`, `trivial`, `associative`, `linear` and `distributive`, with the
order of expressions where sums are kept sorted; `copy`, that rebuilds an expression in
another set, and makes products and sums of powers `E{2}`, `E{1,}` (`power`, `multiply`);
and, as a reference, the weight of a word.  `DerivedTerms` has `to_expansion` and `derivation`,
broken or not, and one step of the loop of `derived_term_automaton`.
`Constructions` is the visitors `standard`, `thompson` and `zpc`: a traversal is a stack
of calls, so that what a visitor reads of the automaton under construction is what it
is at that moment.  Its second half is `add.hh`, `multiply.hh`, `star.hh`, `weight.hh`, `standard.hh`
and `automatonset.hh`: functions from automata to automata, one variant for each tag,
`dispatch_tags` that chooses the tag for `"auto"`, and what each variant requires.  The operations
that explore (conjunction, shuffle, infiltration, the deterministic sum, determinization) use
`Products` and `Subsets`, completed at once; `OnTheFly` shows that the order does not matter.
`Rational` puts them together: copy, construct, `lift`, eliminate the
states in any order, and compare the series at each stage.  Two of its constructions are
visits that operate on one automaton per subexpression: `inductive`, on standard automata
only, and `operators`, which is a user who applies one operation after the other, each
with any tag that the operands allow: any of these is a step of `Next`.

## 4. Runs

| Run | Bounds | What it shows |
|---|---|---|
| `store` | 4 state slots (2 beside `pre`, `post`), 3 transition slots, one label, F2 | every invariant of the store, stability of handles, refinement of `WeightedGraph` |
| `scc` | digraphs of 4 states without loops, of 3 with loops, up to isomorphism; any order | all four algorithms implement `StrongComponents`; the stack invariants of each |
| `scc_unassigned` | same, Dijkstra only | the comment on `unassigned_` is violated (finding) |
| `jit` | 2 processes, 3 calls, 1 change of a header, 2 signatures, three worlds | whole files only; current libraries; signatures noticed; no needless build |
| `jit_interrupted` | same, kills and two signatures | the wrong library is loaded (finding) |
| `minimize` | automata of at most 4 states, one or two letters; words of at most 4 letters | all four algorithms implement `CoarsestPartition`; all but Hopcroft's give an equivalent automaton |
| `minimize_hopcroft` | partial deterministic automata of at most 3 states | Hopcroft's result is not equivalent (finding) |
| `proper` | 3 states beside `pre`, `post`; 2 sets of proper arcs; at most 6 spontaneous arcs for `b`, 3 for the others, loops and circuits included, weights 1 and -1 or 1 and -1/2; words of at most 2 letters; pruning or not; lazy clients in any order, that ask again after an exception | each elimination keeps the series; no spontaneous arc survives; keys of the heap are current; an automaton is refused when and only when its series does not exist; after the check no `star` raises; the separate remover follows the in-place one; answers of the lazy proxy stand |
| `proper_distance` | same, distance only | the result has another series (finding) |
| `on_the_fly` | operands of 2 or 3 states (up to 3 operands), weights in `b`, `z`, `zmin`, `q`; words of at most 3 letters; results of at most 12 states; strict, and lazy in any order | the result is what `Exploration` says, with the promised series; `new_transition` makes new transitions; the queue runs dry |
| `lightest` | 3 inner states, 8 candidate arcs (parallel ones, loops, circuits), at most 5 of them, or all, with 2 or 3 weights; `nmin`, and `zmin` with negative weights for Bellman-Ford; at most 4 paths or 3 words | the path is a lightest one, or there is none; circuits that lighten are refused; paths and words come in order, none missing |
| `rational` | expressions of at most 3 operators over 2 letters, and stars of sums of products; `b`, `z`, `q`; 5 sets of identities; 4 visitors, `inductive` (`linear`), operations with any tag (`b`, `q`, `trivial`; powers `{0}`, `{2}`, `{0,2}`, `{1,2}`, `{2,}`), 6 ways to derived terms; automata of at most 12 states, those of at most 4 states are eliminated in any order; words of at most 2 letters | every stage has the series of the expression; nothing is joined at an end that is in use; derivation and expansion agree; few derived terms |

Why the bounds are enough.  *Store*: three transitions over two ordinary states
give a loop, a pair of parallel paths and a free list in which the order counts;
F2 is the smallest weightset in which a sum of non-null weights is null.  The
proofs below lift all bounds.  `LiveView` identifies states that differ only in
what erased slots contain, which no operation reads.  *Components*: with 4 states
there are two non-trivial components with arcs across, nested cycles and cross
arcs to finished components; larger graphs only repeat them.  *JIT*: two processes
suffice for any interleaving of a writer with a reader, a third call for a
process that comes after both; one edit makes anything stale; the proofs lift these
bounds too.  *Minimization*: a
pass of Moore that visits classes created by itself needs 3 or 4 states; words of
length 4 tell any two automata of these sizes whose quotients differ by a class.
The weights of that run are pairs of an integer and a Boolean, like those of the
context `lat<z, b>`: automata whose weights are all `<<0, b>>` compute as Boolean
automata, those whose weights are all `<<z, FALSE>>` as automata over the integers.
*Epsilon removal*: with three states, the elimination of one makes a loop on a second
out of a circuit and an arc into a third; three spontaneous arcs make a loop beside a
circuit of two, or one circuit of three, and opposite weights cancel or do not
depending on the order.  In `q`, a loop of -1/2 beside a circuit of 1 is the case that
`absval` is for.
*On the fly*: two states per operand give a pair of spontaneous arcs that both
operands may take, loops on one side, and a name that is reached by several arcs; the
weight -1 makes sums cancel, -2 and -1/2 tell residues that differ by a unit.
*Lightest*: three inner states are enough for a detour that is
lighter than a direct arc, for an entry of the heap that becomes stale, and for
three paths that share a prefix; `MCLightest` keeps word searches to trim automata without
circuits of weight 0 (see the findings).  *Rational*: two
operators under a third make a part that waits while another one is built, which is what
the visitors may confuse; sums of products under a star give derived terms that are found
twice.

Inputs the runs leave out, and why.  Automata are made under `trivial` identities at
least: without any, derived terms are not finite in number; expressions without identities are
only copied.  `standard` in `q` is given proper stars only, but
for the one that is built first, and `zpc` no weight on the right unless the identities
move it to the left: on others the code is wrong (see below).  Derivation is not defined
on infiltration and transposition; a complement is that of a language, in `b`; expressions
have a defined series.  Operations on deterministic automata are asked for in `b` only, since a determinization
may not end with other weights, and on labelsets without the empty word.  In
`q`, an automaton in which a standard product replaced a weight is not compared (see below).

Fairness.  The sequential algorithms are loops that run until they are done:
weak fairness of the next-state relation is the absence of a stop in the middle.
The termination of the four minimizations and the four component searches is
checked under it, and that of the strict constructions on the fly under `WF_vars(Serve)`,
the loop over their queue (`Terminates`): always, but for the weighted subset construction, which
must end in `zmin` when the operand has the twins property, and need not end in `z` and `q`.  No liveness is claimed of lazy automata: clients ask for what they like.
None is claimed of the JIT: a process may be killed, or
may never be scheduled, and nothing in the code promises otherwise.  None is claimed
of epsilon removal either: a step takes a state out of the heap and puts none in, and
the run `proper` checks that some step is possible until there is an answer
(`Answered` is the only step that changes nothing); `lightest` does the same.

Deadlock is not checked in the runs on minimization and on expressions (a run that is
done stops), on the JIT (the bound on calls stops it) and on the fly (the bound on
states, or clients that have nothing left to ask); it is in the others, where the end
of an algorithm is an action `Done` or `Answered`.

## 5. Findings

With a run that shows them:

* `scc.hh:171`: in the path-based algorithm a `break` skips the pop of the `for`
  statement, so the root of each component stays on `unassigned_` and is put in the
  enclosing component as well.  `0 -> 1` yields `{1}` and `{0, 1}`.  The number and
  the order of the components are right (`ImplementsStrongComponents` holds when a
  state counts for its first component only), which is all the tests look at.
* `minimize-hopcroft.hh`: the worklist starts with the class of `post` alone.  On a
  partial automaton the result is wrong: `ε + a` becomes `a*`.  Second, `pre` starts
  in the class of the ordinary states and no letter ever separates it, so even on a
  complete automaton it may stay with a state whose arcs the quotient then drops;
  this is why `CoarsestPartition` has `loose` states, and why
  `EquivalentButHopcroft` is what the run `minimize` claims.
* `vcsn-compile:237`: the signature of a build is saved before the build.  When the
  build is interrupted, the next one finds its own signature and takes the library
  of another signature for up to date.  Two concurrent builds with different
  signatures, or a build without Python, which writes no signature, have the same
  effect.
* `epsilon-remover-distance.hh:105`: the algorithm edits the arcs it still has to
  read, and replaces those it should add to (`set_transition`, where the others have
  `add_transition`).  With weights other than Boolean, `proper` with
  `algo="distance"` returns another series.  `SeriesKept` claims the rest: with
  Boolean weights its result is right.

Met while modelling; the properties exclude them, and say so:

* `vcsn-compile:243`: the compiler writes the dependency file under its final name.
  A process that reads it half-written compares too few files, and keeps a stale
  library: `CurrentUnlessTorn` is false without its premise.  So it is when a header
  changes between the moment the compiler reads it and the end of the link.
* `compose.hh`, `add_compose_transitions`: `new_transition` is called for an arc that the
  phase before may have added (two transitions whose middle labels differ), against the
  precondition of `mutable-automaton.hh:536-549`.  The store then holds parallel arcs;
  hence `NewButInCompose`.
* `standard.hh`, `star`: all the final states in the automaton are weighted on the right, those of
  parts that wait for their turn included.  In `q`, `a+(<1/2>\e+b)*` gives a wrong weight to
  `a`.  With other weightsets the star of a constant term is one or undefined.
  `tests/python/standard.py` has no such case.
* `zpc.hh`: `final_weight_` is a member, set by a weight on the right and applied by whatever
  state is built next: `(ab)<2>+c`.  The tests (`tests/python/zpc.py:11-25`) have weights on the
  right of single letters only.
* `multiply.hh:137`, `standard_tag`: `set_transition` replaces.  When the right operand has several
  initial states that lead to one state by the same label, or are both final, weights are
  lost: `b` times the transpose of the automaton of `a+a`, say.  `NEWS.md:1454-1456` says that `"auto"` is
  `"standard"` only if the operands are standard, but for a product it is so for all (line
  175).  `LosesWeights` leaves those out of `AsPromised`.
* `expressionset.hxx:748`: under associative identities, `E{n}` has `n` factors `E`, which are not
  gathered with theirs: `(ab){2}` and `abab` are different expressions of the same series.
* `multiply.hh:227-234`: `E{1}` with the tag `deterministic` returns its operand as it is, deterministic
  or not.
* `derived-term.hh` with `"expansion,breaking"` calls `new_transition` twice for the same
  arc, on `a(b+c)+a(b+d)`; hence the exception in `TransitionsAreNew`.
* `state-eliminator`: `naive_profiler` never resets `has_loop_`; Delgado's measure is computed on
  unsigned numbers that wrap when a state has no arc in, or out; keys of predecessors are not
  updated.  Only the order depends on it, and the run takes any order.
* `has-twins-property.hh`: `cycle_identity` compares the product of the weights of one cycle with itself,
  where the two cycles should be compared.
* `epsilon-remover-lazy.hh`: the lazy mark is cleared before the state is completed.  After an
  exception the state would be served half done; the proxy's own list of proper states
  saves it (`AnswersStand`).
* `ldivide.hh`: the weighted quotient ignores spontaneous arcs of the divisor, and `ldivide_here` erases
  transitions while it iterates over them.
* `eppstein.hh`: the heap is copied, so handles point into another heap; parallel arcs are
  never sidetracks.  Not modelled for that reason.
* `dijkstra.hh`, `a-star.hh`: "No preconditions", yet weights must not be negative;
  `bellman-ford.hh`, `dijkstra.hh`: from a source that arcs enter, the distance of the source is
  overwritten, as by a first visit.  From `pre()` no arc does, but Yen's searches start at other
  states: where an earlier path is left at a state with a loop that comes before its other arcs, these
  seem heavier than they are.  On `0 -$-> 3`, `3 -a-> 2` (1), `3 -a-> 3` (3), `3 -a-> 4` (1), `2 -a-> 4` (1),
  with 3 and 4 final, the second path is `aa`, of weight 2, instead of `a`, of weight 1.
  `KPathsInOrder` holds on the networks of the run, whose loop never delays the
  lightest way.
* `lightest.hh`: the search through words never ends on a circuit of weight 0, nor on an automaton
  that is not trim and has fewer words than asked for; with negative weights the words are not
  in the order that `lightest.hh:66-69` promises.  `yen_impl` returns one empty path when there
  is none, and simple paths only.

## 6. Proofs

`MutableAutomatonProofs` (about 1550 obligations): for all bounds, labels and weightsets (only
`zero \in Weight` is assumed of the weightset; a sum or a product that leaves `Weight` is
not a step).  The inductive invariant is `IInv == TypeOK /\ FreeStoresExact /\
Incidence /\ SentinelsAlone /\ ArcsAreFunction`.  None of the parts is inductive
alone: `Incidence` is lost if a recycled slot is still live, which
`FreeStoresExact` excludes; `ArcsAreFunction` needs `Incidence` to know that a lookup
in the shorter of two vectors sees everything (`GetTransitionLemma`); `del_state`
frees the handles of two vectors, which are disjoint after its first pass because of
`Incidence`, and that is what keeps `FreeStoresExact`.  There is one lemma for each
step that the operations share (`CreateLemma`, `EraseLemma`, `ReweighLemma`) and one for
each operation on states; lemmas on sequences (`PopLemma`, `PushLemma`, `ConcatLemma`,
`OrderLemma`) say what a free list does to its range and to its injectivity.  The theorems
`TypeCorrect`, `FreeStoresAreExact`, `IncidenceAgrees`, `SentinelsStayAlone`, `StoreIsFunction`
and the action property `HandlesAreStable` follow.

`StoreImplementsGraph` is the refinement, `Spec => Graph!Spec`.  The abstract arcs are
a function made from the slots (`ArcWeights`); the proof characterizes it by what it contains
(`Represented`: an arc has weight `w` if and only if some live slot holds it), and
shows of each way to edit slots what it does to that function (`AddedArc`,
`RemovedArcs`, `ReweighedArc`, `SameArcs`); one lemma per operation then finds the abstract
step, which may be a stutter: a sum that stays null, a state already lazy.
`CountersAreExact` needs two things more: that `pre` and `post` are never erased, which
is carried over from the abstract specification through the refinement (`EndsStayLive`), and
that an injective sequence is as long as its range is large (`LengthLemma`).

`JitCacheProofs` (about 1170 obligations), for any number of processes, signatures,
calls and edits.  `WholeFiles`, under all perils: `OnlyWholeFiles` is not
inductive, one must know that what is about to be renamed or moved is whole, and
so is what the linker reads (`Renamed`, per program counter).  `LoadedAreCurrent`: the
invariant `CInv` says what times tell (`TimesTell`: whatever is at least as recent as the
headers was made from them, whatever is left of a former version is older than any new
source) and what each call has made so far (`MadeSoFar`); `UpToDateLemma` is where the times
are compared.  `LoadedAsAsked`: one call at a time (`Solo`), the saved signature is that of
the library or of the build under way (`Signed`).  `NothingIsRebuilt` is the converse of the
second: `NoneNewer` says that no source is newer than a current library, which is true
only because an equal source keeps its time.  Assumed: bounds are naturals, there is a
signature, processes without Python are processes.

The end of `Exploration` (90 obligations), for every problem, finite or not: `ArcsServed`,
`OrderDoesNotMatter`, `AnswersDoStay`.  The invariant is that the arcs are those of the names
served, and that known names are in every set closed under arcs (`OnlyAccessible`);
when everything known is served, the result is then the accessible part, the
least closed set, whatever the order was.  The run `on_the_fly` shows that the constructions of the code
implement `Exploration`.

`SccProofs`, for every finite set of states, every relation over it and
each of the four algorithms: `StacksArePendingTheorem`, `LowIsReachableTheorem`,
`NextRootIsBottomTheorem`, and `ComponentsAreRight`, the safety part of
`ImplementsStrongComponents`, which says that the steps of the four are steps of
`StrongComponents` or stutters.  Paths cannot be defined by recursion here, and need not be:
`Reaches` is transitive by definition, and a set is a component as soon as its members reach
each other and no arc leaves it but to what was closed before (`ComponentLemma`).
Its first part has no variables.  The invariant there, `Search`, is about numbers, a search path, the
destinations that each state of the path has not seen yet, and the states found:
the numbers grow along the path (`Numbered`); a state of the path reaches all that was
visited since, and whatever waits reaches a state of the path (`Connected`); `low` promises
no way back that does not exist (`WayBack`) and forgets none that was seen (`Explored`); a
state of the path knows all that those who left the path since knew (`LowestOnPath`); no arc leaves what is
found (`Closed`).  `LowIsReachable` is a part of `WayBack`, which is not inductive alone: that a state
with `low = num` closes a component takes all the others.  There is one lemma for each kind of
step (`VisitLemma`, `KnownLemma`, `LowerLemma`, `FinishLemma`, `EmitLemma`), and the second part shows which
of them each action of an algorithm is.  The recursive Tarjan forgets `num`, and Dijkstra's
algorithm has no `low`: the invariant says that some numbers exist for which `Search` holds
(`TRInv`, `DInv`), and each step gives the next ones.  In Dijkstra's algorithm
`low` is the number of the root under which a state lies on the second stack, and the components are taken
without the states that were emitted before, because of the finding above.
Kosaraju's two searches have an invariant of their own: the
first, on the transposed graph, records in each component a state after all that it
reaches there (`Post`, `Ahead`), so that the second, from the last state left, finds its component and nothing
more (`Sweep`, `BottomLemma`).

`FoldProofs` is the key to sums.  The folds of the community modules are recursive functions
chosen by `CHOOSE`, and an induction theorem with an operator parameter is out of reach, but a
set of sets can play the part of the predicate (`StrongInduction`).  `FoldUnrolled` shows that the
function exists and that a fold is one item combined with the fold of the others;
`FoldStays`, that it stays in a set closed under the step.  The module has operators as constants, and
`MinimizeProofs` instantiates it with `SumOver`: a sum does not depend on the order (`SumTake`),
splits along a partition (`SumUnion`), and stays among the weights (`SumType`).  Its lemmas on values
are about partitions, classes numbered in a sequence (`Numbers`), the keys by which a class is cut,
and signatures: a state's signature for a coarse partition is determined by that for a finer one
(`CoarserAlike`), which is the heart of `RefinedCoarse`.

`MinimizeProofs`, for automata of any size.  `TypeCorrect` (`TypeOK`: the classes are a
partition at every step, those of Moore are numbered without a hole, the worklists hold classes
only) assumes `InputsAssumption` and no more: any weights, any weightset.  It takes the
determinism of the automata of Moore's algorithm, because what it reads of a state is the class of *the* successor.
`KeepsThePromise`: for all four, the first partition is coarse enough, every step splits
without separating what a stable partition keeps together, and when the algorithm is done no
class has states of different signatures: the safety part of `Refinement`.  It assumes that the weights of the inputs are in a commutative monoid `K`
(`IsMonoid`: nothing is assumed of products), and that Hopcroft's inputs are
deterministic, trim and complete (for the letters they have), for which it is written, as are those of the run
`minimize` (`CompleteInputsAssumption`); `minimize_hopcroft` shows that it is wrong on
others.  Not separating too much is one argument for all (`Coarse`).  Separating
enough is one invariant per algorithm: while nothing was split, the classes visited need no split
(`MVisited`, `SVisited`); Moore also keeps final states, `pre` and `post` apart from the first pass on
(`Uniform`).  Hopcroft's is `Pending`: when a letter leads two states of a class to two classes,
one of these is in the worklist, or the class at work tells them apart and the letter is
still to be tried.  One of the two is enough, and so is the smaller half of a
split, because the automaton is deterministic: a state that the letter leads to one is not led to the other.  The end, `HopcroftStable`, is where completeness is
needed: a letter that leads nowhere is no arc, and the worklist only knows about arcs.  It is also where
`loose` states come from: `pre` may share a class with states that have letters.

`QuotientKeepsSeries`: the quotient by what the other three end with gives
every word the weight that the automaton gives it (`EquivalentButHopcroft`), for automata and words of any size.  The weights
are those of a semiring (`IsSemiring`: sums in any order, distributivity on both sides, `zero` annihilates; the
lemmas do not need products to associate, since `Evaluate` multiplies along the word).  With signatures that agree
in each class (`StableAtEnd`), the induction is over the letters read: after each of them, the state that
stands for a class in the quotient has the sum of what the states of the class have in the automaton (`Stands`,
`StandsLemma`).  A letter more is `StandsStep`: the sum over the arcs into a class is grouped by
the class they come from (`ReadClass`), and the states of one class have the same weight to it
(`AlikeTo`).  Two corners are part of the statement: an arc whose weight cancels is no
arc of the quotient, and an automaton without initial arc may have `pre` and `post` in one class, whose
quotient has no word, as the automaton (`NoInitialLemma`).

`ProperProofs` (about 2860 obligations), for every alphabet, every finite automaton, each of the weightsets `b`, `z`, `zmin`
and `q`, with pruning or without.  Assumed: the alphabet holds neither the empty word nor the
special letter (`LetterAssumption`), and the inputs are automata (`AutomataAssumption`); the check of `is_valid` may
say anything.  The inductive invariant `IInv` has a part for each algorithm, which TLC checked first.

- *In place* (`InplaceInv`): the automaton remains one, each spontaneous arc enters a state of the
  heap, and each key is the profile of its state.  `NoneEscapes` and `HeapIsInOrder` follow.  That it
  remains an automaton is the part that `NothingEscapes` and `ProfilesAreFresh` do not say, and the
  one that costs: a profile counts arcs, so they must stay finite in number (`ProfilesAreFresh`), and an arc
  whose weight has become null must be gone.  `FreedSpontaneousLemma` says that the elimination of a state
  leaves no spontaneous arc into it, and makes some only into states that already had one;
  `FarProfileLemma`, that the profile of a state which is no neighbor does not change, even if
  the state freed is pruned: its arcs all go from and to neighbors.
- *Separate* (`SeparateInv`): the two automata are the parts of a whole, by their labels
  (`AreParts`).  `BlowOfPartLemma` says that the elimination of a state works on the arcs of some labels as it
  does on all of them, since an arc and those that replace it have one label.  With
  it, a state has the same arcs, the same star and the same neighbors in the whole as in the parts together
  (`PartsFreedLemma`, `PartsProfileLemma`), the heaps are equal, so are their tops, and each step is one of the remover in
  place (`SeparateRefinesInPlace`), exceptions half way included: what the list of arcs had lost
  by then is lost in the whole (`PartsLostLemma`).
- *Lazy* (`LazyInv`): a state that a client was shown has no spontaneous arc left in the transposed
  automaton that the remover edits; a state served leads to states shown only; the successors of
  the state being served have none either when a turn of the loop removed nothing, but for those
  that the turn has still to visit.  The middle part is why answers stand: the elimination of a state edits the arcs
  of its neighbors, and a state served could only be one if it led to a state not yet proper.
  `AnswersHold` is the action property; the lemmas on `Turn` say that transposing twice
  changes nothing.

All three rest on the weights (`ReduceLemma`, `AddLemma`, `MulLemma`, `ZeroLemma`, `StarLemma`): operations give weights, a
sum with zero is the other term, and fractions stay in lowest terms.  The last one needs that Euclid's
algorithm ends: `GcdExists` constructs the recursive function on pairs by a least counterexample (`LeastLemma`), since the
induction theorems of the library cannot be instantiated.  It is for these proofs that `gcd` is a function
of a pair, and that the zero of `zmin` is the neutral element of `add` also beside sums that exceed it (on the weights of the
runs, where nothing reaches `oo`, this changes nothing).  The definitions that the removers
share are reached through four instances, and the `Same...` lemmas say that they are the same.

`LightestProofs` (about 2530 obligations), for automata of any size; heaps pop any of the states that tie.

- `PoppedStaysFinal` (`PoppedIsFinal`), for Dijkstra's algorithm from any source, the searches of Yen
  through hidden arcs included, and for A*; weights that may be negative are excluded for the former (`NotNegative`;
  the requests of the run satisfy it).  The inductive invariant `HeapInv` says that what left the heap is nearer than what
  is in it (`Kept`).  Without it, an arc could make a state lighter that is out of the heap.  The source is the
  exception: it enters the heap again when an arc leads to it.
- `LightestPathIsFound` (`LightestPathFound`), for Dijkstra's algorithm and A*.  The arcs of `res` are a tree
  (`Tree`, `Rooted`: any set of states that are over is entered from outside), what is over is nearer than what
  waits (`Nearer`), no arc of what is over makes anything lighter (`Spread`), and no distance reaches `oo` (`Bounded`,
  from the bound on weights: one arc more for each state that is over).  A pop keeps these facts
  while its arcs are followed one after the other, whose order does not matter (`Growing`).  When
  the loop ends, no path can be lighter than what `dist` says of `post`: its first
  state that is not over is not nearer (`LowerBound`).  The way back from `post` through `res` comes to
  no state twice, so that the steps of `Path` are enough to reach `pre` (`BackIsShort`, `FoundPath`), and
  its weight is the distance.  The paths compared with are made by a fold over their lengths:
  `SimplePathsAreAll` says that it finds all the paths that come to no state twice.

Only model-checked, and why:

- of epsilon removal, that the series is kept (`SeriesKept`), that automata are refused when and only when their series does
  not exist (`RefusedIffNotSummable`), and that no star raises after the check (`NeverRaisesOnceChecked`): these are about
  sums over all the paths of spontaneous arcs, infinitely many with a circuit, about which the model and the code
  compute by recursion on the length of words, on states and on pivots; the third also that
  a fold over the states (`is_properable`) makes the same steps as the remover, which is an induction over data;
- of lightest paths, `LightestPathFound` for Bellman and Ford's algorithm (why its passes are enough, and that its check finds
  the circuits that lighten, is an induction over paths that cross the passes), `KPathsInOrder`, which
  does not hold of all networks (section 5), and `WordsInOrder`, whose reference is the weight of a word, letter by letter;
- the expressions and constructions of `Rational`, whose modules use `RECURSIVE` operators or
  extend one that does;
- that the constructions on the fly implement `Exploration` (`AsPromised`, `NewButInCompose`): the promise is
  proved of `Exploration` itself, the names and arcs of each construction are compared with it by TLC;
- all liveness: that components and minimizations end (the fairness of
  `StrongComponents` and `CoarsestPartition`), and `Terminates`.

## 7. What is not modelled

The components marked *not modelled* in `PROJECT.json`, each with its reason there:
parsers, printers, the Python binding and
the build system are input and output without protocol; label sets, the other weight
sets, joins of types and polynomials are values without state; reduction is linear algebra
over fields; synchronizing words, comparisons and generators are single traversals of a fixed automaton.
Of the operations on automata, quotients, prefixes and conjugates, and `aut += aut`, where an
operand is edited while it is read, are left out.

Inside the modelled components: formatting, logging, timing; the options
of `vcsn-compile` that force a build; times of equal value (a file system with
coarse times); two signatures that the registry has compiled into one plugin
(`translate.cc:425`); the credit `VCSN_CREDIT` of traversals (`accessible.hh:54`), which wraps when it is 0;
Brzozowski's minimization (two determinizations).  Of epsilon removal: `proper_here` on
an automaton that others hold, forward
elimination (the same code between two transpositions), weights of `log`, `r`,
polynomials and expressions.  On the fly: an exception of an operand in the middle of a
completion; `ldivide_here`, repeated conjunction, `synchronize`, projections.  Of lightest
paths: Eppstein.  Of expressions: `compose`, `ldivide`, tuples and names,
aggressive identities, labelsets of words or with a neutral letter, the
heuristics of state elimination, lazy derived terms.
