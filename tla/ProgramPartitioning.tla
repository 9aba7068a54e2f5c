------------------------- MODULE ProgramPartitioning -------------------------
(***************************************************************************)
(* ProgramPartitionAnalysis: the pass that splits a program into a secure  *)
(* and an insecure partition (Partitioner) and then optimizes the split    *)
(* (PartitionOptimizer and the optimizations it owns).                     *)
(*                                                                         *)
(* The optimizer works in two rounds.  Every requested optimization first  *)
(* runs: the function and global movers only remember what they would      *)
(* move, Kernighan-Lin changes both partitions at once.  Then every        *)
(* optimization is applied, and only a last loop takes the functions of    *)
(* the secure partition out of the insecure one and recomputes the         *)
(* interfaces.  Between the two rounds the partitions overlap.             *)
(***************************************************************************)
EXTENDS Partition, Sequences

CONSTANTS
  Main,        \* the function named "main"
  Programs,    \* the programs to consider
  OptNames     \* values of the -optimize option; "" when it is absent

ASSUME MainAssumption == Main \in Functions
ASSUME ProgramsAssumption == \A p \in Programs : IsProgram(p)
ASSUME OptNamesAssumption == OptNames \subseteq STRING

VARIABLES
  program,     \* the module under analysis
  optName,     \* the -optimize option
  phase,       \* where ProgramPartitionAnalysis::runOnModule is
  todo,        \* annotations Partitioner::partition has still to visit
  part,        \* the two partitions, by side
  pending,     \* optimizations PartitionOptimizer::run has still to run
  optimizers,  \* m_optimizations
  cursor       \* the next optimization apply() visits

vars == <<program, optName, phase, todo, part, pending, optimizers, cursor>>

Sides == {"secure", "insecure"}
Other(s) == IF s = "secure" THEN "insecure" ELSE "secure"

Kinds == {"FUNCTIONS_MOVE_TO", "GLOBALS_MOVE_TO", "DUPLICATE_FUNCTIONS",
          "KERNIGHAN_LIN", "STATIC_ANALYSIS", "ILP"}

Phases == {"partition", "optimize", "apply", "done", "aborted"}

(***************************************************************************)
(* An optimization that has run: its kind, the partition it was created    *)
(* for and the functions or globals it decided to move.                    *)
(***************************************************************************)
OptimizerType ==
  [kind : Kinds, side : Sides, functions : SUBSET Functions,
   globals : SUBSET Globals]

Optimizer(k, s, F, G) == [kind |-> k, side |-> s, functions |-> F, globals |-> G]

getOptimizations(name) ==
  CASE name = "search-based"       -> <<"STATIC_ANALYSIS">>
    [] name = "local"              -> <<"FUNCTIONS_MOVE_TO", "GLOBALS_MOVE_TO">>
    [] name = "function-move"      -> <<"FUNCTIONS_MOVE_TO">>
    [] name = "global-move"        -> <<"GLOBALS_MOVE_TO">>
    [] name = "function-duplicate" -> <<"DUPLICATE_FUNCTIONS">>
    [] name = "kl"                 -> <<"KERNIGHAN_LIN">>
    [] name = "ilp"                -> <<"ILP">>
    [] OTHER                       -> << >>

TypeOK ==
  /\ program \in Programs
  /\ optName \in OptNames
  /\ phase \in Phases
  /\ todo \subseteq program.annotations
  /\ part \in [Sides -> PartitionType]
  /\ pending \in Seq(Kinds)
  /\ optimizers \in Seq(OptimizerType)
  /\ cursor \in 1 .. Len(optimizers) + 1

Init ==
  /\ program \in Programs
  /\ optName \in OptNames
  /\ phase = "partition"
  /\ todo = program.annotations
  /\ part = [s \in Sides |-> EmptyPartition]
  /\ pending = << >>
  /\ optimizers = << >>
  /\ cursor = 1

(***************************************************************************)
(* Partitioner                                                             *)
(***************************************************************************)

(***************************************************************************)
(* The partition of one annotation: the annotated function and what the    *)
(* two traversals relate to it.                                            *)
(***************************************************************************)
AnnotationPartition(a) ==
  [EmptyPartition EXCEPT !.functions = {a.function},
                         !.related = MergeLevels(a.argRelated, a.retRelated)]

\* Variant: the last annotation's partition replaces the earlier ones.
PartitionForAnnotation_Replaces(a) ==
  /\ phase = "partition"
  /\ a \in todo
  /\ part' = [part EXCEPT !["secure"] = AnnotationPartition(a)]
  /\ todo' = todo \ {a}
  /\ UNCHANGED <<program, optName, phase, pending, optimizers, cursor>>

(***************************************************************************)
(* One turn of the loop of Partitioner::partition.  The annotations come   *)
(* out of hash containers, in any order.                                   *)
(***************************************************************************)
PartitionForAnnotation(a) ==
  /\ phase = "partition"
  /\ a \in todo
  /\ part' = [part EXCEPT !["secure"] = AddToPartition(@, AnnotationPartition(a))]
  /\ todo' = todo \ {a}
  /\ UNCHANGED <<program, optName, phase, pending, optimizers, cursor>>

WithInterfaces(P) ==
  [P EXCEPT !.inInterface = InInterface(program, P.functions),
            !.outInterface = OutInterface(program, P.functions)]

WithGlobals(P) == [P EXCEPT !.globals = ReferencedGlobals(program, P.functions)]

(***************************************************************************)
(* The rest of Partitioner::partition: globals and interfaces of the       *)
(* secure partition, and the insecure partition as its complement.  The    *)
(* optimizer is started only when the option was given.                    *)
(***************************************************************************)
ComputePartitions ==
  /\ phase = "partition"
  /\ todo = {}
  /\ LET sec == WithInterfaces(WithGlobals(part["secure"]))
         rest == [EmptyPartition EXCEPT !.functions = Functions \ sec.functions]
     IN  part' = [s \in Sides |->
                    IF s = "secure" THEN sec ELSE WithInterfaces(WithGlobals(rest))]
  /\ phase' = IF optName = "" THEN "done" ELSE "optimize"
  /\ pending' = IF optName = "" THEN << >> ELSE getOptimizations(optName)
  /\ UNCHANGED <<program, optName, todo, optimizers, cursor>>

(***************************************************************************)
(* PartitionOptimizer::run: one action per case of its loop                *)
(***************************************************************************)

\* Variant: one call site inside is enough.
calledFromPartitionOnly_Sometimes(P) ==
  {f \in P.outInterface \ program.declarations :
     \E c \in P.functions : <<c, f>> \in program.calls}

(***************************************************************************)
(* What FunctionsMoveToPartitionOptimization::run moves into a partition:  *)
(* defined functions of its out-interface whose call sites all lie in the  *)
(* partition, or with a call site in a loop of the partition.              *)
(***************************************************************************)
calledFromPartitionOnly(P) ==
  {f \in P.outInterface \ program.declarations :
     \A c \in Functions : <<c, f>> \in program.calls => c \in P.functions}

calledFromPartitionLoops(P) ==
  {f \in P.outInterface \ program.declarations :
     \E c \in P.functions : <<c, f>> \in program.loopCalls}

MovedTo(P) == calledFromPartitionOnly(P) \cup calledFromPartitionLoops(P)

NextOptimization(k) ==
  /\ phase = "optimize"
  /\ pending # << >>
  /\ Head(pending) = k
  /\ pending' = Tail(pending)
  /\ UNCHANGED <<program, optName, todo, cursor>>

RunFunctionsMoveTo ==
  /\ NextOptimization("FUNCTIONS_MOVE_TO")
  /\ optimizers' = optimizers \o
       << Optimizer("FUNCTIONS_MOVE_TO", "secure", MovedTo(part["secure"]), {}),
          Optimizer("FUNCTIONS_MOVE_TO", "insecure", MovedTo(part["insecure"]), {}) >>
  /\ UNCHANGED <<phase, part>>

(***************************************************************************)
(* Each partition keeps the globals the other one does not reference.      *)
(***************************************************************************)
OwnGlobals(s) == part[s].globals \ part[Other(s)].globals

RunGlobalsMoveTo ==
  /\ NextOptimization("GLOBALS_MOVE_TO")
  /\ optimizers' = optimizers \o
       << Optimizer("GLOBALS_MOVE_TO", "secure", {}, OwnGlobals("secure")),
          Optimizer("GLOBALS_MOVE_TO", "insecure", {}, OwnGlobals("insecure")) >>
  /\ UNCHANGED <<phase, part>>

(***************************************************************************)
(* runDuplicateFunctionsOptimization takes the two function movers from    *)
(* the first two slots of m_optimizations and asserts they are there.      *)
(* Duplicated functions are only recorded: the optimization has no apply.  *)
(***************************************************************************)
FunctionMoversFirst(opts) ==
  /\ Len(opts) >= 2
  /\ \A i \in 1 .. 2 : opts[i].kind = "FUNCTIONS_MOVE_TO"

RunDuplicateFunctions ==
  /\ NextOptimization("DUPLICATE_FUNCTIONS")
  /\ LET duplicated == IF FunctionMoversFirst(optimizers)
                       THEN optimizers[1].functions \cap optimizers[2].functions
                       ELSE {}
     IN  optimizers' = Append(optimizers,
                         Optimizer("DUPLICATE_FUNCTIONS", "secure", duplicated, {}))
  /\ phase' = IF FunctionMoversFirst(optimizers) THEN phase ELSE "aborted"
  /\ UNCHANGED part

RunStaticAnalysis ==
  /\ NextOptimization("STATIC_ANALYSIS")
  /\ optimizers' = Append(optimizers, Optimizer("STATIC_ANALYSIS", "secure", {}, {}))
  /\ UNCHANGED <<phase, part>>

(***************************************************************************)
(* KLOptimizer::run changes the partitions at once: of the candidates it   *)
(* tries, a prefix of the move sequence stays moved (module KLPass).  The  *)
(* gains are left out: any set of candidates may stay, the ones that the   *)
(* gains would choose among them.                                          *)
(***************************************************************************)
passCandidates == part["insecure"].functions \ (program.declarations \cup {Main})

RunKL ==
  /\ NextOptimization("KERNIGHAN_LIN")
  /\ \E kept \in SUBSET passCandidates :
       part' = [part EXCEPT
                  !["secure"].functions = @ \cup kept,
                  !["secure"].related = WithoutRelated(@, kept),
                  !["insecure"].functions = @ \ kept]
  /\ optimizers' = Append(optimizers, Optimizer("KERNIGHAN_LIN", "secure", {}, {}))
  /\ UNCHANGED phase

(***************************************************************************)
(* ILPOptimization::run: the solver's choice of functions on the secure    *)
(* side.  Its constraints put the secure functions there and keep          *)
(* declarations and main out; when it fails nothing moves.                 *)
(***************************************************************************)
ILPSolutions ==
  {{}} \cup {part["secure"].functions \cup S :
               S \in SUBSET (Functions \ (program.declarations \cup {Main}))}

RunILP ==
  /\ NextOptimization("ILP")
  /\ \E moved \in ILPSolutions :
       optimizers' = Append(optimizers, Optimizer("ILP", "secure", moved, {}))
  /\ UNCHANGED <<phase, part>>

FinishRun ==
  /\ phase = "optimize"
  /\ pending = << >>
  /\ phase' = "apply"
  /\ UNCHANGED <<program, optName, todo, part, pending, optimizers, cursor>>

(***************************************************************************)
(* PartitionOptimizer::apply                                               *)
(***************************************************************************)

\* Variant: the loop of apply() skips an element.
NextToApply_Skips(k) ==
  /\ phase = "apply"
  /\ cursor <= Len(optimizers)
  /\ optimizers[cursor].kind = k
  /\ cursor' = cursor + 2
  /\ UNCHANGED <<program, optName, phase, todo, pending, optimizers>>

NextToApply(k) ==
  /\ phase = "apply"
  /\ cursor <= Len(optimizers)
  /\ optimizers[cursor].kind = k
  /\ cursor' = cursor + 1
  /\ UNCHANGED <<program, optName, phase, todo, pending, optimizers>>

ApplyFunctionsMoveTo ==
  /\ NextToApply("FUNCTIONS_MOVE_TO")
  /\ LET opt == optimizers[cursor]
     IN  part' = [part EXCEPT ![opt.side].functions = @ \cup opt.functions]

ApplyGlobalsMoveTo ==
  /\ NextToApply("GLOBALS_MOVE_TO")
  /\ LET opt == optimizers[cursor]
     IN  part' = [part EXCEPT ![opt.side].globals = opt.globals]

ApplyStaticAnalysis ==
  /\ NextToApply("STATIC_ANALYSIS")
  /\ part' = [part EXCEPT
                !["secure"].functions = @ \cup RelatedFunctions(part["secure"]),
                !["secure"].related = NoneRelated]

ApplyILP ==
  /\ NextToApply("ILP")
  /\ LET moved == optimizers[cursor].functions
     IN  part' = [part EXCEPT
                    !["secure"].functions = @ \cup moved,
                    !["secure"].related = WithoutRelated(@, moved),
                    !["insecure"].functions = @ \ moved]

ApplyKL ==                       \* KLOptimizer has no apply of its own
  /\ NextToApply("KERNIGHAN_LIN")
  /\ UNCHANGED part

\* Variants: the removal loop is missing, takes the functions out of the
\* wrong partition, or forgets the related functions.
secureWins_Missing == part

secureWins_WrongSide ==
  LET F == part["insecure"].functions
  IN  [part EXCEPT !["secure"].related = WithoutRelated(@, F),
                   !["secure"].functions = @ \ F]

secureWins_KeepsRelated ==
  [part EXCEPT !["insecure"].functions = @ \ part["secure"].functions]

(***************************************************************************)
(* The end of apply: the secure partition wins every function both sides   *)
(* hold, and the interfaces (not the globals) are computed again.          *)
(***************************************************************************)
secureWins ==
  LET F == part["secure"].functions
  IN  [part EXCEPT !["secure"].related = WithoutRelated(@, F),
                   !["insecure"].functions = @ \ F]

FinishApply ==
  /\ phase = "apply"
  /\ cursor > Len(optimizers)
  /\ part' = [s \in Sides |-> WithInterfaces(secureWins[s])]
  /\ phase' = "done"
  /\ UNCHANGED <<program, optName, todo, pending, optimizers, cursor>>

Next ==
  \/ \E a \in todo : PartitionForAnnotation(a)
  \/ ComputePartitions
  \/ RunFunctionsMoveTo \/ RunGlobalsMoveTo \/ RunDuplicateFunctions
  \/ RunStaticAnalysis \/ RunKL \/ RunILP
  \/ FinishRun
  \/ ApplyFunctionsMoveTo \/ ApplyGlobalsMoveTo \/ ApplyStaticAnalysis
  \/ ApplyILP \/ ApplyKL
  \/ FinishApply

Spec == Init /\ [][Next]_vars

(***************************************************************************)
(* Properties                                                              *)
(***************************************************************************)
secure   == part["secure"].functions
insecure == part["insecure"].functions

(***************************************************************************)
(* However the optimizations were combined, when the pass ends every       *)
(* function of the module is on exactly one side.  While the optimizations *)
(* are applied a function may be on both: the mover of the insecure        *)
(* partition adds even annotated functions to it.                          *)
(***************************************************************************)
PartitionsComplementary ==
  phase = "done" => /\ secure \cup insecure = Functions
                    /\ secure \cap insecure = {}

(***************************************************************************)
(* A function that was annotated is never outside the secure partition     *)
(* once its annotation was visited, and is not left in the insecure one.   *)
(***************************************************************************)
SensitiveStaysSecure ==
  \A a \in program.annotations \ todo :
    /\ a.function \in secure
    /\ phase = "done" => a.function \notin insecure

(***************************************************************************)
(* The same boundary seen from both sides: an entry point of one partition *)
(* is exactly a function with a PDG that the other one calls out to.       *)
(* PartitionStatistics counts ecalls and ocalls from these sets.           *)
(***************************************************************************)
InterfacesAgree ==
  phase = "done" =>
    \A s \in Sides :
      part[s].inInterface = part[Other(s)].outInterface \cap program.hasPDG

(***************************************************************************)
(* The level of a function is its distance in the closest traversal that   *)
(* reached it, in whatever order the annotations were visited.             *)
(***************************************************************************)
TraversalLevels(f) ==
  (UNION {{a.argRelated[f], a.retRelated[f]} : a \in program.annotations})
    \ {NotRelated}

StaticallyRelated == {f \in Functions : TraversalLevels(f) # {}}

LevelsMinimal ==
  (phase = "optimize" /\ optimizers = << >>) =>
    \A f \in Functions :
      IF f \in StaticallyRelated
      THEN /\ part["secure"].related[f] \in TraversalLevels(f)
           /\ \A l \in TraversalLevels(f) : part["secure"].related[f] <= l
      ELSE part["secure"].related[f] = NotRelated

(***************************************************************************)
(* After optimization the functions still reported as related are exactly  *)
(* those the analysis related that stayed outside: none is forgotten, none *)
(* is reported that is already in the enclave.                             *)
(***************************************************************************)
RelatedAccountedFor ==
  phase = "done" /\ optName # "" =>
    RelatedFunctions(part["secure"]) = StaticallyRelated \ secure

(***************************************************************************)
(* Moving a function because only the enclave calls it adds no entry       *)
(* point: after a function move every ecall leads to an annotated function *)
(* or to one the enclave calls in a loop.                                  *)
(***************************************************************************)
EntryPointsJustified ==
  phase = "done" /\ optName \in {"local", "function-move"} =>
    \A f \in part["secure"].inInterface \ AnnotatedFunctions(program) :
      \E e \in secure : <<e, f>> \in program.loopCalls

(***************************************************************************)
(* "Will add missing code to have funcional modules" (README.md:45): a     *)
(* function finds the globals it references in the module of its side,     *)
(* whose globals are those of the partition.                               *)
(***************************************************************************)
GlobalsFollowFunctions ==
  phase = "done" =>
    \A s \in Sides : ReferencedGlobals(program, part[s].functions) \subseteq part[s].globals

(***************************************************************************)
(* The pass implements the abstract split.  The partition sets of both     *)
(* sides change all the time; the split counts as published when the pass  *)
(* is done, and only then is the insecure side looked at.                  *)
(***************************************************************************)
Split == INSTANCE SecureSplit WITH
  Sensitive <- {AnnotatedFunctions(p) : p \in Programs},
  sensitive <- AnnotatedFunctions(program),
  enclave   <- secure,
  app       <- IF phase = "done" THEN insecure ELSE {},
  published <- phase = "done"

ImplementsSecureSplit == Split!Spec
=============================================================================
