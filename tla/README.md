# Verification of the program partitioner for security enclaves

The repository splits a C program, given as LLVM bitcode, into a part that runs inside an
SGX enclave and a part that runs outside, from annotations on the sensitive functions. An
LLVM pass computes and optimizes the split, another one makes a module of each part, and a
separate tool generates the Asylo code through which the two parts call each other.

This directory holds TLA+ models of these programs, the TLC configurations that check them
on small instances, and TLAPS proofs for every size of instance.

## 1. Inventory

| Component | State it keeps | Operations | Talks to | What makes it correct |
|---|---|---|---|---|
| `Partition` (`lib/Analysis/Partition.cpp`, `PartitionUtils.cpp`) | function set, related functions with levels, globals, in- and out-interface | add, remove, compute interfaces | everything below holds or copies one | interfaces follow the functions; smallest level wins |
| `Partitioner` (`Partitioner.cpp`) | per annotation: worklists, processed values, table of levels | traversal forward, backward, from returns; merge; globals; complement | reads the PDG; fills `Partition` | ends; finds exactly the dependent functions; levels justified |
| `ProgramPartitionAnalysis` | both partitions, call graph, option | `runOnModule`: partition, weigh, optimize, dump | parser, partitioner, optimizer | the result is a split with the sensitive functions inside |
| `PartitionOptimizer` and its optimizations (`lib/Optimization`) | list of optimizations, each with what it will move | `run` of each, then `apply` of each, then the clean-up | both partitions, call graph, PDG, ILP solver | any sequence of options leaves a sound split and fresh interfaces |
| Kernighan-Lin (`KLOptimizer`, `KLOptimizationPass`) | candidates, gains, sequence of moves | tentative moves, best prefix, revert | both partitions, call graph | gains exact below infinity, best prefix kept, never worse |
| `PartitionExtractor` (`lib/Transforms`) | setter per global, sliced module | instrument stores, clone, clean, rename | partitions, PDG, LLVM module | copies of shared globals agree; calls resolve; ends |
| `SGXCodeGenerator` (calls) | in the generated code: parameter stacks, one per call | wrapper pushes, handler pops and pushes back, wrapper pops | Asylo runtime | values reach their own places at any nesting |
| `SGXCodeGenerationTool`, `SGXCodeGenerator` (selectors) | names wanted, functions found, selectors; in the enclave: handlers | find declarations, number, register at start | clang, Asylo runtime | selectors distinct; the enclave starts complete or fails |
| `CallGraph`, `Weight`, `Numbers` | edges with a copy at either end, factors | build, weigh, normalize | KL, ILP, statistics | one copy at either end; both order the calls alike; sums and products with infinities |
| Annotation parsers, annotation creator | set of annotations; list to draw functions from | parse a JSON file or the module; draw functions, write a file | analysis | exactly the first entry of each function is kept; nothing drawn twice; a written file reads back |
| Statistics | JSON tree | counts of functions, TCB, context switches | partitions, call graph | each call across the border counted once |
| Shadow call stack (`lib/Eval`, `eval/eval_library`) | current caller, counts | instrument; addCaller, addCallee | instrumented program | a call is counted, and for its own pair |
| Writers, proto generators, debug passes, logger, scripts | text | print | - | layout only |

The hard behaviours: two rounds of optimizations between which the partitions overlap; sets
and tables that become stale when functions move; hash-ordered loops whose result must not
depend on the order; worklists over cyclic graphs; calls nested across the border, each with
a last-in first-out stack, any of which may fail; a program whose globals exist twice.
The list of hazards, each at its line with the properties for it, is in `PROJECT.json`.
Nothing is persisted, and nothing but the generated code's calls can fail in the middle, so
there is no crash recovery to model.

## 2. Modules

| Module | Models | State and actions in the code |
|---|---|---|
| `Partition` | a partition, a program as the analysis sees it, interfaces, levels | operators only. A call site is a pair `<<caller, callee>>`; `program.uses` are the neighbours of a global's PDG node |
| `ProgramPartitioning` | `Partitioner::partition`, `PartitionOptimizer::run` and `apply` | `part` is `m_securePartition` and `m_insecurePartition`; one action per annotation, per case of `run`, per `apply`, plus the two final loops |
| `SecureSplit` | what the pass promises: the enclave only grows, contains the sensitive functions when published, and the rest is outside | abstract specification |
| `KLPass` | `KLOptimizationPass::Impl::run` | one action per move (with the update of all gains), per element scanned, and for the revert; weights are added with `safe_sum`, as `Double` does |
| `MoveChoice` | one choice of candidates to keep | abstract specification of `KLPass`; it is `RunKL` of `ProgramPartitioning` |
| `Traversal` | `PartitionForArguments::traverse`, `PartitionForReturnValue::traverse` | worklists are sequences in the order of the `std::list`s; one action per node taken off |
| `Numbers` | `NumberType<double>`: sums, differences and products with the value for infinity | operators on exact fractions |
| `CallGraph` | `CallGraph::create` and `WeightAssigningHelper` | one action per node of LLVM's graph, per call site added, per group of weights assigned, per factor normalized. `weight` has a place for each of the two copies of an edge |
| `WeighedSplit` | `ILPOptimization` and `PartitionStatistics` on a weighed graph | extends `CallGraph`; the solver, the solution taken over, and one report per partition |
| `GlobalSetters` | `PartitionExtractorPass` and the stores of the program it makes | one action per node visited, per extraction, per function the clean-up loop looks at, per store and setter call |
| `EnclaveInterface` | the interface functions of both sides, as the generator gets them | constants, shared by the next two |
| `EnclaveCalls` | the generated wrappers and handlers of ecalls and ocalls | `calls` is the stack of calls under way with their parameter stacks; one action each for wrapper, handler, assignment and return of the function, and failure; `GivenBack` is what the redirecting function returns |
| `InterfaceSelectors` | the search for declarations on both sides, `generateInterfaceSelectors`, and in the generated program `asylo_enclave_init`, `registerOCalls` and `main` | one action per declaration, per selector, per registration, and for an enclave that cannot be loaded |
| `ShadowCallStack` | `ShadowCallStackGeneratorPass` and the recorder it links in | threads with their stacks of functions; a recorder call is a step in and a step out, between which other threads run; one action per real call, return, and exit of the process |
| `Annotations` | `AnnotationCreatorPass`, `JsonAnnotationParser`, `ModuleAnnotationParser` | one action per function drawn and per entry parsed; `annotations` is the hash set with the equality of the code |

`ProgramPartitioning` EXTENDS `Partition`; `EnclaveCalls` and `InterfaceSelectors` EXTEND
`EnclaveInterface`; `CallGraph` EXTENDS `Numbers` and `WeighedSplit` EXTENDS `CallGraph`, so that the integer program and the statistics see the weights that the
assignment really gives and not invented ones. `KLPass` shows what `RunKL` of the pipeline
assumes, by `ImplementsMoveChoice`, and its inputs include the pairs of copies
(raw at the caller, normalized at the callee) that `CallGraph` produces; `Traversal` computes
the levels that an annotation of a program of `ProgramPartitioning` carries; `Annotations`
ends in the set of annotations `ProgramPartitioning` starts from; `GlobalSetters` starts
from any split, and from the globals each partition was given (`program.globals`), whether
they are those of its functions, stale ones, as functions that moved leave them
(`GlobalsFollowFunctions`), or those a move of globals made; `InterfaceSelectors` and
`EnclaveCalls` start from the interfaces. They are separate modules because each is a loop that runs to its end
inside one step of the next.

Each component's proofs are in a module of their own, named after it with `Proofs`; those of
`WeighedSplit` are with those of `CallGraph`, whose invariants they rest on, and those of the two
modules about the generated code are in `GeneratedCodeProofs`.
Definitions named `X_Word` are variants of the definition `X`, each with a plausible
mistake; they show that a property notices the mistake.

### Abstractions

Functions, globals, nodes and values are elements of sets. A hash container is iterated in
any order (`\E`). Names are the functions themselves. Only the edges of the PDG that a
component looks at are in its graph. The weights of `KLPass` are in units of a common
denominator, infinity included, and its sums, differences and running totals are the
saturating ones of `Double`: a sum that has met infinity stays there until a number of the
other sign comes, one that steps over it goes on. An edge list has an order, since that of
the terms then matters. The weights of `CallGraph` are fractions, since what
normalization and the test for an overflow do to a value below 1 matters. The rounding of
doubles is left out. `RunKL` of `ProgramPartitioning` keeps any set of candidates, whatever
their gains: what holds of it holds of the real pass, but a behaviour of it need not be one,
so that the run that shows a violation (`globals_follow`) does without it. The solver is exact or fails; its variables are 0 or 1 because the
program is a minimum cut, whose best values are taken there. The recorder of the shadow
stack has no lock: what two threads at once do to its string and map is undefined, of which
the model has the lost count and the cleared caller; `raced` remembers that it has happened.
A reference to a global that a module does not define is a variable of that side; what a
linker makes of it is left out. The statements of the generated calls are run as emitted, a
variable being a place for one value, although a compiler refuses some of them (section 3). What Asylo does on a call
(`EnclaveCall`, `UntrustedCall`, `RegisterEntryHandler`, the parameter stack of a call) is
modelled from the generated calls and marked external in the map.

## 3. What is checked

All passing runs explore every behaviour of the stated instances, without symmetry or state
constraints. The bounds are named constants (`MaxDepth`, `MaxCalls`) or the sizes of the
sets in the MC modules.

**pipeline** (`MCProgramPartitioning`). Five functions, one of them a declaration, every
subset of six calls with or without loops, five sets of annotations, nine values of
`-optimize`. Two callable functions and a third give every case the movers distinguish
(called from one side, from both, from a loop, not at all); two annotations that reach
common functions at different distances are what the order of merging needs.
`PartitionsComplementary` and `SensitiveStaysSecure` say that the split is sound;
`InterfacesAgree` that the two sides see one border; `LevelsMinimal` and
`RelatedAccountedFor` that no related function is lost or given a wrong level;
`EntryPointsJustified` what the function movers are for; `ImplementsSecureSplit` that the
pass is a refinement of `SecureSplit`.

**kl_pass** (`MCKLPass`). Five functions, every subset of six calls, one of them of a
function to itself, equal or unequal edge copies, two orders of the edge lists, zero or mixed
node costs, so that ties of gains occur. Infinity is 5, calls weigh 1 or 3: some functions
reach it, exactly or beyond, and others do not. `GainsExact`: the gains that are updated by
twice an edge cost are what a fresh computation gives, for functions that are `Light`, whose
edges and node together weigh less than infinity (`gain_when_moved` shows that it fails for others).
`KeepsBestPrefix`: the best prefix as the saturating `+=` sums it, ties taken late,
saturated or not. `NeverWorse` needs equal copies and `AllLight`, so that nothing in the pass saturates.
`AlwaysSplit` and `ImplementsMoveChoice` need neither.

**traversal** (`MCTraversal`). Nodes of three functions and a declaration, every subset of
eleven edges without a cycle of argument nodes, pointer and value arguments, with and
without an annotated return, the function being void or not. `FindsAllReachable` compares the worklist algorithm with a
definition by reachability; `LevelsJustified`, `AssertionsHold`, `Termination`.
Three preconditions are the code's own limits: `AssertionsHold` speaks of graphs whose nodes
all have a parent function, because a way through a node without one (a global variable's)
loses the level and fails the assertion at `Partitioner.cpp:236`; `CyclesAssumption` excludes
cycles of argument nodes only, which the code does not remember and would follow for ever;
and for returns `FindsAllReachable` speaks of graphs in which no two nodes on the way have
one value, because the code remembers values and not nodes. `ValuesAssumption` is what the
PDG library gives: an instruction has one node, and the node of a function has a value.

**call_graph** (`MCWeighedSplit`). Four functions, one of them without a body, fourteen
programs and four splits each, one with a related function of level 0: calls that repeat, that recurse, that come before and after
a call in a loop, an indirect one, and a callee the PDG does not know. Infinity is 7 and a
loop costs 3 instead of 100000 and 1000: sums then reach infinity exactly and step over
it, both of which the code treats differently and neither of which the real values do on a
small program. The graph is built in every order of the nodes of LLVM's graph.
`EdgesPaired`: one copy of an edge at either end however often it is called.
`CallNumbersBounded`: what the order of the call sites can do to the number of calls; a call
site is its place among the calls of the program.
`CopiesCorrespond`: normalizing one copy and not the other leaves both ordering the calls
alike. `OnlyFirstLevelWeighs`: of the levels, integer division leaves a weight of 1 to
level 1 alone. The greater levels are not told apart, and level 0, the nearest, which related
functions of an annotated return have, weighs as little as they do: the order of near and far turns there
(`CallGraph.cpp:370-373`). `IlpMinimumCut`: a solution is the cheapest legal enclave, over all
subsets. `SwitchesCounted`: the statistics count each copy of a call across the border once,
in every order of the hash set.

**shadow_stack** (`MCShadowCallStack`). `main`, a function and a library function that may
call back and start a thread; two threads, three calls: enough for a call that another one
interrupts between its two recorder calls, or inside one of them, and for recursion below it.
`PairsExact` and `ExternalExact` are what the counts are good for with one thread (they fail
with two, and where `main` is called again, which is why both are excluded); `TotalsExact` is
what is left with any number as long as no two recorder calls have overlapped: no call is
lost, though its caller may be wrong. After an overlap a count may be lost, too, and nothing
is claimed.

**annotations** (`MCAnnotations`). Three functions to draw from with percentages 0, 50, 100
and 150, sixty files with repeated entries in one item and in two, and the annotations of a
module. `PickedOnce`, `CreatedFileReadBack`, `FirstEntryKept`.

**global_setters** (`MCGlobalSetters`). Two splits, two orders of the module's functions,
eight call structures, the acyclic ones of sets of data edges, three writers of one shared
global and one of another; programs in which a store goes to an element of a global, in which
no edge leads to a store, in which a function has moved since the globals were computed, and
in which globals were moved. `CopiesAgree` over every interleaving of stores of the generated
program: it speaks of each global that both partitions were given and all stores to which are
direct and reached from it (`PlainGlobals`), whatever the other globals are like.
`StoresForwarded` against reachability, from the globals the partitions were given: a store in a
function that moved has no call if the global did not come along, which is what the code
does and what `globals_follow` is about. `CalleesResolved` for the clean-up loop with its
doubly advanced iterator; `Termination`. A global without a node in the PDG is one without edges. On a
cycle of data edges behind a global `addGlobalSetter`, which does not remember the nodes it
visited, never ends.

**enclave_calls** (`MCEnclaveCalls`). Two ecalls and two ocalls with one and two parameters,
one of them void, two values, nested three deep: an ecall that makes an ocall that makes an
ecall, each with its stack, and any of which may fail. `ArgumentsArrive`; `ResultReachesWrapper` and
`ParametersReversed` say what the wrapper's own variables hold after its pops, which is as far as
results and parameters come; `StacksBalanced`.

**interface_selectors** (`MCInterfaceSelectors`). Every two sources of up to two
declarations or definitions of four names, two on each side: a name declared in one source
and defined in the other, defined before it is declared, or never. `SelectorsDistinct` (of
both tables), `StartedComplete`, `StartsWhenFoundOnce`. Of a function found twice the
generator also emits its wrapper and handler twice, which does not compile; the model goes on to what the
selectors would do.

### Disagreements between the code and its documents

Each of these is a run in which TLC finds the documented property violated.

| Run | Property | What happens |
|---|---|---|
| globals_follow | `GlobalsFollowFunctions` | the search-based option moves a related function into the enclave, the global only it uses stays outside |
| gain_when_moved | `GainWhenMoved` | the gain of a function whose sums have met infinity is not what its move gains |
| parameters_back | `ParametersWrittenBack` | two parameters come back to the wrapper exchanged; the comment asks for the reverse order |

Met while modelling, and in the models as the code does it, or left out, with the reason:

* `-optimize=function-duplicate` alone fails the assertion on its two predecessors
  (`PartitionOptimizer.cpp:84`) for every program. `RunDuplicateFunctions` only has the step
  to `"aborted"`.
* A function that is found twice makes the selector of Abort, a number counted from the size
  of a map, that of another function (`SGXCodeGenerator.cpp:141`): the enclave then refuses
  to start, if the duplicate definitions have compiled. `StartsWhenFoundOnce` says that this is the only reason.
* A product that is smaller than its first factor is taken for an overflow
  (`Numbers.h:123-124`, "overfolw") and becomes infinite, as every positive number times a
  fraction does; the callees' weights are normalized to fractions, so that the statistics
  report infinitely many arguments passed. `safe_mult` of `Numbers` has it so.
* A store to an element or a field of a global has no setter call, since its pointer operand
  is an address computed from the global (`PartitionExtractor.cpp:132`; `src/README.md:45`
  names setters for globals modified in both partitions). `GlobalSetters` has such stores,
  and `CopiesAgree` does not speak of the globals they go to.
* A global that only one side was given gets a setter in the module without it.
* Some generated statements do not compile: the redirecting function of a void ecall returns
  a `returnVal` it does not have (`SGXCodeGenerator.cpp:537`); the handler of an ocall with a
  result uses one it does not declare (line 445); and every wrapper pops values into its
  parameters, which are pointers in the case of `returnVal` and of pointer parameters (lines
  329, 513). `EnclaveCalls` runs them as emitted, a variable being a place for one value.
* What a wrapper pops reaches nobody: its parameters are its own, by value, or local
  pointers, which are assigned to and not through. The redirecting function, which "will
  redirect the call" (line 337), returns a variable nothing was assigned to (`GivenBack`).
  `ParametersReversed`, `ParametersWrittenBack` and `ResultReachesWrapper` speak of the
  wrapper's own variables.
* The generated ocall handlers and `registerOCalls` end without their `return`. Both are
  nondeterministic choices of the models.
* `parseFunctionsFromStats` (`CodeGenUtils.cpp:38`) ends without a return, too;
  `InterfaceSelectors` starts from the sets it was to return.
* An array is pushed with `strlen` bytes, without the zero at its end. Values have one unit
  in `EnclaveCalls`.
* One key of the statistics is the literal text `m_partitionName`
  (`PartitionStatistics.cpp:88`): both partitions write it, and the second stays.
  `Entries` of `WeighedSplit` has it so.

### Fairness

Every program here is a loop of one thread that nothing suspends, so the liveness properties
(`Termination` of `Traversal` and of `GlobalSetters`, the two loops that may not end) assume
weak fairness of the whole next-state relation and no more: the loop takes its next turn as
long as there is one. No action is assumed to be preferred, and the order of hash containers
is left free. The other loops are over finite lists that only shrink, so that their
termination says nothing. `EnclaveCalls` and `ShadowCallStack` state no liveness: the
functions behind the wrappers, and the instrumented program, may run as long as they like.

`CHECK_DEADLOCK FALSE` appears where a pass or the modelled program ends. `GlobalSetters`
ends in a program that goes on storing.

## 4. What is proved

TLAPS checks the following for every value of the constants that meets the named assumptions
of the modules: well-formed programs, files and weights, disjoint starting partitions, disjoint
names, and finite sets of functions, threads and nodes. One theorem needs more than that,
and says so: `ReachableFunctionsFound` rests on `ValuesAssumption`. Where a property is
conditional (`Light`, `AllLight`, `PlainGlobals`, `~raced`), so is its theorem.

* `ProgramPartitioningProofs`
  * `TypeCorrect`, `SplitIsComplementary`, `SensitiveNeverLeaves`, `InterfacesAreDual`,
    `PassImplementsSplit`. The invariant is `TypeOK /\ SplitInv`. `PartitionsComplementary`
    is not inductive, since it says nothing before the end and the sides do overlap; what
    carries it is that from the first computation on the two sides together have every
    function of the module, and that the last step makes them disjoint. `StepEffect` sums up
    what a step may do to the function sets (the enclave never loses a function; the other
    side loses only what the enclave has) and is proved once per action; both the invariant
    and the refinement follow from it.
  * `LevelsAreMinimal`, `RelatedAreAccountedFor`. `RelatedInv` says that a level is the least
    over the annotations visited so far until an optimization has run, and from then on that
    a related function is only dropped by a step after which the enclave holds it.
  * `EntryPointsAreJustified`. `MoverInv` keeps, for each function a mover lists or has added,
    the reason: no call site outside, or one in a loop inside. A reason stays, since the
    enclave only grows; at the end only the second one is left for an entry point.
* `KLPassProofs`
  * `SplitThroughoutPass`, `PassIsOneChoice`. The invariant `PassInv` ties the partitions
    to the sequence of moves: the moved functions are distinct candidates, and the sides are
    the starting ones with exactly the moved, at last the kept, functions carried over.
  * `GainsStayExact`: for a function whose edges and node weigh less than infinity together
    no sum saturates, in whatever order it is added up (`RunningSumsExact`, `ListSum`), and
    `safe_sum` is a plain sum (`SafeSumExact`); what a move adds to its gain, twice the
    weight of its edges to the function moved, then is what moving it changes in the sums the
    gains are defined by. It holds of unequal copies of the edges, too, and whatever
    saturates at other functions.
  * `BestPrefixKept`: `ScanInv` says that the scan has the saturating total of the moves looked
    at, and that the prefix it holds is as good as any of them and better than every longer one.
  * `PassNeverWorse`: with equal copies and `AllLight`, the totals of the scan are plain sums
    (`HeftsAddUp`), and the first n moves lower the cost of the cut by at
    least the total of their gains (`CostInv`; a function that calls itself lowers it by
    more); the prefix of no moves is one of those compared.
* `TraversalProofs`
  * `TraversalTypeCorrect`, `LevelsNeverMissing`. `AssertionsHold` needs that every node
    that waits in a worklist belongs to a function with a level, and that levels are never
    taken back.
  * `LevelsStayJustified`. Levels are lowered while other functions refer to them; a lower
    level of the neighbour justifies one just as well.
  * `ReachableFunctionsFound`, for every graph, with cycles of instructions or without, and
    every order in which nodes are pushed. The code keeps no set of visited nodes, only marks
    on instructions; the invariant `FindInv` says that there are sets F and B, visited
    forward and backward, such that what they and the waiting nodes reach is all there is to
    reach, that a marked instruction is in them, and that the related functions are the ones
    they account for. At the end nothing waits, and they are closed. For annotated returns it
    speaks, like the property, of graphs in which no two nodes on the way have one value.
* `CallGraphProofs`
  * `EdgesStayPaired`, `EdgesStayPairedInSplit`. An edge is added to both lists at once, but
    only if the callee is not among the children of the caller: the invariant is that
    the children are exactly the callees in the caller's list, and that a call still to be
    added belongs to a node that has been made.
  * `CallNumbersStayBounded`: by induction over the sets of call sites, the last one taken
    off: a number without a call in a loop is exact until it meets infinity; one with a loop
    was set to the cost of a loop and counted on from there.
  * `FirstLevelAloneWeighs`, `CopiesAlwaysCorrespond`. `WeightInv` knows the weights at every
    moment of the assignment: those of related functions are 1 at level 1 and 0 at all others, which normalizing leaves
    as they are; the callers' call numbers are raw; the callees' are raw, or scaled by the
    least and the greatest number, which keeps every order and every equality.
  * `SwitchesAlwaysCounted`. Until infinity is met the weights of the calls are integers or
    have the one denominator they were normalized with, so that sums of doubles are sums of
    integers in units of it (`Measured`, `Counted`). A sum in the order of a list then is
    exact, or infinite, or has stepped over infinity and is exact again (`AddUpFits`); a sum
    of such sums, one for each function, fits the sum over all edges at the border, because
    each of these edges is in the lists of one function of the partition, once
    (`PartitionFits`). `SwitchInv` adds the stages: nothing that is weighed changes any more,
    and the report on one partition leaves the number of the other alone.
  * `IlpAlwaysMinimumCut`. An enclave that the constraints allow is, with the edges it does not
    cut, a solution; the constraints say when an edge may be whole and not that it is, but no
    edge has a negative weight (`EdgeCostCounted`). What all calls cost together is what
    the cut and the uncut ones cost (`TotalUnion`), so that the best objective is the lowest
    expense (`BestIsCheapest`). `SizeInv` knows that the normalized sizes have one
    denominator, which the worth of the functions needs.
* `ShadowCallStackProofs`
  * `CallsAreCounted`, `OthersAreExternal`. The invariant follows the current caller through
    the places a thread can be at: it is the running function between its recorder call and
    the call itself, the caller at the entry of the callee, and empty in a body, so
    that an unannounced call finds it empty. `SeenInv` says that as long as nothing has
    overlapped, what an `addCallee` found when it came in is still there when it leaves
    (`RecordCalleeFresh`), so that its two steps are one count; that two have overlapped is
    never taken back (`RacedStays`). With one thread nothing overlaps. The exclusions of the properties (one thread,
    `main` not called) cannot come true again once false, which the induction needs.
  * `TotalsAlwaysExact`, without these exclusions but for overlaps. What keeps it is that a thread that
    announces a call counts a function without a body, so that a function with a body is
    counted once at its entry and nowhere else, under whatever caller; each step changes the
    sum over the callers, the number of threads at an entry and the calls made together.
* `GeneratedCodeProofs`
  * `SelectorsStayDistinct`: the selector of a function is a place at which the list of the
    functions found on its side has it, which no other function can have; the handlers are
    registered under these selectors.
  * `StartsComplete`: while a side is searched, a declared function of its interface has been
    found, or is declared further on; then the selectors are those of the list up to the
    counter, and the registered handlers those of the list up to it.
  * `StartsUnlessFoundTwice`: the number of Abort is one past the number of functions numbered,
    which is the selector of none of them as long as none takes up two places of the list;
    and a function defined in the first source that declares it is taken off those wanted
    before it could be found again.
  * `ArgumentsAlwaysArrive`, `ResultsReachWrappers`, `ParametersAlwaysReversed`,
    `StacksStayBalanced`, for every signature and depth. `FrameOK` gives the stack of a call
    at each place of control: what the wrapper pushed on the border, nothing while the
    function runs, result and parameters when it has returned. The lemmas before it are the
    laws of a last-in first-out stack: pops return the reverse, and a reverse twice is the
    sequence.
* `GlobalSettersProofs`
  * `CalleesStayResolved`, for every program, order of its functions and order of visits.
    What makes it inductive is that the bodies of a module do not change once it is cloned,
    so that what is erased is never used later, and that a setter that is called joins the
    partition on the other side.
  * `DirectStoresForwarded`. The search has no set of visited nodes either: `SearchInv` says
    that a direct store has its setter call, or its global is still to come, or a node that
    waits leads to it.
  * `CopiesStayEqual`, without a hypothesis: every store to a plain global has its setter
    call, by `DirectStoresForwarded`, and between the store and the call no other store runs
    (`AgreeInv`). Which globals are plain depends on the program alone (`PlainGlobalsStay`).
* `AnnotationsProofs`
  * `FunctionsPickedOnce`: the list of all functions stays an arrangement of the candidates
    when two of its places are swapped, and those picked are at its end, in the order from
    there (`Drawn`).
  * `FirstEntriesKept`, `CreatedFilesReadBack`: the entries left are the rest of the file's, the
    annotations are the first ones of those gone through, and each entry gone through has an
    annotation equal to its own (`GoneThrough`); a created file is one item, whose entries
    are the functions picked.

### Sums and closures

Several of these are about a sum or a count over a set, or about what a relation reaches. The
community modules define these by recursive functions, and the induction theorems of the
library, which take an operator as parameter, cannot be instantiated here. The proofs go
another way, from the two facts that strict inclusion of the subsets of a finite set is well
founded and that a well-founded relation has minimal elements, neither of which takes an
operator: if a set P of subsets has every subset all of whose strict subsets it has, it has
them all (`SubsetInduction`). With it each module shows that the
recursion behind its fold has a solution (which the `CHOOSE` in a recursive function leaves
open), that two solutions agree where both are defined, and so that the fold does what it
says: one element taken off. `CallGraphProofs` does this once for all three folds of its
modules (`FoldExists`, `FoldUnique`, `FoldLast`), and `AnnotationsProofs` along the places of a
sequence for the recursion behind `FlattenSeq`. Reachability is shown closed in the same way: a sequence of sets
that grows until it stops must stop within the size of the whole.

### Only model-checked

* `Termination` of `Traversal` and of `GlobalSetters`: liveness under fairness.
* Everything that is true of an instance only: that the actions all happen, and the three
  disagreements above, which are counterexamples.

## 5. Further work

1. `KLPass` on the graph of `CallGraph` instead of on given weights: `CopiesAlwaysCorrespond`
   says what may be assumed of the copies.
2. The in-interface and the number of arguments of the statistics: `AddUpFits` holds of the
   sums of `args_passed` where the products do not overflow, but what the overflow test of
   a product does to a fraction leaves nothing simple to state.

## 6. Not modelled

* The generator of protocol buffers (`ProtoFileGenerator` and its clang version) is a tool of
  its own, the text of which nothing here reads. It is a recursive walk over types with no
  state; it does not end for a struct that contains a pointer to itself.
* Source and class writers: what is written is modelled where it runs, in `EnclaveCalls` and
  `InterfaceSelectors`; how it is written is layout. The same holds of the dot file of the
  call graph and of `dump()` of the analysis.
* The debug passes and `ModuleInformation` print what they find and change nothing that the
  modelled parts read.
* The logger, and the scripts that tabulate output files or fill in a build template.
* The construction of the PDG, LLVM's cloning, clang's parsing, the CPLEX solver and the
  Asylo runtime are outside the repository; the models take them as the code uses them.
