---------------------- MODULE ProgramPartitioningProofs ----------------------
(***************************************************************************)
(* Machine-checked facts about the partitioning pass, for every module,    *)
(* every set of programs and every option: type correctness; the split is  *)
(* complementary and keeps the sensitive functions inside; the interfaces  *)
(* of the two sides agree; the pass implements SecureSplit; the levels of  *)
(* the related functions are least, and none is forgotten; a function move *)
(* adds no entry point without a reason.                                   *)
(***************************************************************************)
EXTENDS ProgramPartitioning, TLAPS

(***************************************************************************)
(* The operations of the class Partition stay within its type.             *)
(***************************************************************************)
LEMMA MergeLevelsType ==
  ASSUME NEW r \in RelatedLevels, NEW s \in RelatedLevels
  PROVE  MergeLevels(r, s) \in RelatedLevels
<1>1. ASSUME NEW f \in Functions
      PROVE  (CASE r[f] = NotRelated -> s[f]
                [] r[f] # NotRelated /\ s[f] # NotRelated /\ s[f] < r[f] -> s[f]
                [] OTHER -> r[f]) \in Nat \cup {NotRelated}
  BY SMT DEF RelatedLevels
<1>2. QED BY <1>1 DEF MergeLevels, RelatedLevels

\* removeRelatedFunction keeps the level map a level map.
LEMMA WithoutRelatedType ==
  ASSUME NEW r \in RelatedLevels, NEW S
  PROVE  WithoutRelated(r, S) \in RelatedLevels
  BY DEF WithoutRelated, RelatedLevels

\* A default-constructed Partition is one.
LEMMA EmptyPartitionType == EmptyPartition \in PartitionType
  BY DEF EmptyPartition, PartitionType, NoneRelated, RelatedLevels

\* addToPartition(const Partition&) yields a partition.
LEMMA AddToPartitionType ==
  ASSUME NEW P \in PartitionType, NEW Q \in PartitionType
  PROVE  AddToPartition(P, Q) \in PartitionType
  BY MergeLevelsType DEF AddToPartition, PartitionType

(***************************************************************************)
(* Recomputing interfaces and globals changes nothing else of a partition. *)
(***************************************************************************)
LEMMA WithInterfacesType ==
  ASSUME NEW P \in PartitionType
  PROVE  /\ WithInterfaces(P) \in PartitionType
         /\ WithInterfaces(P).functions = P.functions
         /\ WithInterfaces(P).related = P.related
         /\ WithInterfaces(P).globals = P.globals
         /\ WithInterfaces(P).inInterface = InInterface(program, P.functions)
         /\ WithInterfaces(P).outInterface = OutInterface(program, P.functions)
<1>1. InInterface(program, P.functions) \in SUBSET Functions
  BY DEF InInterface, PartitionType
<1>2. OutInterface(program, P.functions) \in SUBSET Functions
  BY DEF OutInterface
<1>3. QED BY <1>1, <1>2 DEF WithInterfaces, PartitionType

\* Replacing the globals changes nothing else of a partition.
LEMMA WithGlobalsType ==
  ASSUME NEW P \in PartitionType
  PROVE  /\ WithGlobals(P) \in PartitionType
         /\ WithGlobals(P).functions = P.functions
<1>1. ReferencedGlobals(program, P.functions) \in SUBSET Globals
  BY DEF ReferencedGlobals
<1>2. QED BY <1>1 DEF WithGlobals, PartitionType

\* The partition of one annotation holds just the annotated function.
LEMMA AnnotationPartitionType ==
  ASSUME NEW a \in program.annotations, IsProgram(program)
  PROVE  /\ AnnotationPartition(a) \in PartitionType
         /\ AnnotationPartition(a).functions = {a.function}
         /\ a.function \in Functions
<1>1. /\ a.function \in Functions
      /\ a.argRelated \in RelatedLevels
      /\ a.retRelated \in RelatedLevels
  BY DEF IsProgram
<1>2. MergeLevels(a.argRelated, a.retRelated) \in RelatedLevels
  BY <1>1, MergeLevelsType
<1>3. QED BY <1>1, <1>2, EmptyPartitionType DEF AnnotationPartition, PartitionType,
                                                EmptyPartition

\* calledFromPartitionOnly and calledFromPartitionLoops yield functions.
LEMMA MovedToType == \A P \in PartitionType : MovedTo(P) \subseteq Functions
  BY DEF MovedTo, calledFromPartitionOnly, calledFromPartitionLoops, PartitionType

\* Every option value, known or not, yields a list of optimization kinds.
LEMMA getOptimizationsType ==
  ASSUME NEW name \in STRING PROVE getOptimizations(name) \in Seq(Kinds)
<1>1. /\ << >> \in Seq(Kinds)
      /\ \A k \in Kinds : <<k>> \in Seq(Kinds)
      /\ <<"FUNCTIONS_MOVE_TO", "GLOBALS_MOVE_TO">> \in Seq(Kinds)
  BY DEF Kinds
<1>2. {"FUNCTIONS_MOVE_TO", "GLOBALS_MOVE_TO", "DUPLICATE_FUNCTIONS",
       "KERNIGHAN_LIN", "STATIC_ANALYSIS", "ILP"} \subseteq Kinds
  BY DEF Kinds
<1>3. QED BY <1>1, <1>2, SMT DEF getOptimizations

\* The constructor of an optimizer yields one.
LEMMA OptimizerIsType ==
  ASSUME NEW k \in Kinds, NEW s \in Sides,
         NEW F \in SUBSET Functions, NEW G \in SUBSET Globals
  PROVE  Optimizer(k, s, F, G) \in OptimizerType
  BY DEF Optimizer, OptimizerType

(***************************************************************************)
(* The end of apply: only the insecure functions and the related functions *)
(* of the secure side shrink.                                              *)
(***************************************************************************)
LEMMA SecureWinsType ==
  ASSUME part \in [Sides -> PartitionType]
  PROVE  /\ secureWins \in [Sides -> PartitionType]
         /\ secureWins["secure"].functions = secure
         /\ secureWins["insecure"].functions = insecure \ secure
<1>1. part["secure"] \in PartitionType /\ part["insecure"] \in PartitionType
  BY DEF Sides
<1>2. WithoutRelated(part["secure"].related, part["secure"].functions) \in RelatedLevels
  BY <1>1, WithoutRelatedType DEF PartitionType
<1>3. QED BY <1>1, <1>2 DEF secureWins, secure, insecure, Sides, PartitionType

(***************************************************************************)
(* Every variable keeps its type, whatever the option and the programs.    *)
(***************************************************************************)
LEMMA TypeInit == Init => TypeOK
<1> SUFFICES ASSUME Init PROVE TypeOK
  OBVIOUS
<1>1. part \in [Sides -> PartitionType]
  BY EmptyPartitionType DEF Init
<1>2. pending \in Seq(Kinds) /\ optimizers \in Seq(OptimizerType) /\ Len(optimizers) = 0
  BY DEF Init
<1>3. QED BY <1>1, <1>2 DEF Init, TypeOK, Phases

\* The program in hand is one of those the assumption is about.
LEMMA ProgramIsWellFormed == TypeOK => IsProgram(program)
  BY ProgramsAssumption DEF TypeOK

\* The functions of the two sides are functions of the module.
LEMMA SidesTyped ==
  ASSUME part \in [Sides -> PartitionType], NEW s \in Sides
  PROVE  /\ part[s] \in PartitionType
         /\ Other(s) \in Sides
         /\ part[Other(s)] \in PartitionType
  BY DEF Sides, Other

(***************************************************************************)
(* Appending optimizations to m_optimizations keeps the cursor in range.   *)
(***************************************************************************)
LEMMA TypeAppendOne ==
  ASSUME TypeOK, NEW o \in OptimizerType, optimizers' = Append(optimizers, o),
         cursor' = cursor
  PROVE  /\ optimizers' \in Seq(OptimizerType)
         /\ cursor' \in 1 .. Len(optimizers') + 1
  BY DEF TypeOK

\* The same when two optimizations are appended (local).
LEMMA TypeAppendTwo ==
  ASSUME TypeOK, NEW o \in OptimizerType, NEW q \in OptimizerType,
         optimizers' = optimizers \o <<o, q>>, cursor' = cursor
  PROVE  /\ optimizers' \in Seq(OptimizerType)
         /\ cursor' \in 1 .. Len(optimizers') + 1
<1>1. <<o, q>> \in Seq(OptimizerType) /\ Len(<<o, q>>) = 2
  OBVIOUS
<1>2. optimizers' \in Seq(OptimizerType) /\ Len(optimizers') = Len(optimizers) + 2
  BY <1>1 DEF TypeOK
<1>3. QED BY <1>2 DEF TypeOK

\* Taking the next optimization off the list keeps the list typed.
LEMMA NextOptimizationType ==
  ASSUME TypeOK, NEW k \in Kinds, NextOptimization(k)
  PROVE  /\ program' \in Programs /\ optName' \in OptNames
         /\ todo' \subseteq program'.annotations
         /\ pending' \in Seq(Kinds)
         /\ cursor' = cursor /\ program' = program /\ todo' = todo
         /\ optName' = optName /\ phase = "optimize"
  BY DEF TypeOK, NextOptimization

\* The optimization apply() visits next is one of the list.
LEMMA NextToApplyType ==
  ASSUME TypeOK, NEW k \in Kinds, NextToApply(k)
  PROVE  /\ program' \in Programs /\ optName' \in OptNames /\ phase' \in Phases
         /\ todo' \subseteq program'.annotations
         /\ pending' \in Seq(Kinds)
         /\ optimizers' \in Seq(OptimizerType)
         /\ cursor' \in 1 .. Len(optimizers') + 1
         /\ optimizers[cursor] \in OptimizerType
         /\ program' = program /\ todo' = todo /\ phase' = "apply" /\ phase = "apply"
  BY DEF TypeOK, NextToApply

\* No step of the pass breaks the type invariant.
LEMMA TypeStep == TypeOK /\ [Next]_vars => TypeOK'
<1> SUFFICES ASSUME TypeOK, [Next]_vars PROVE TypeOK'
  OBVIOUS
<1> USE ProgramIsWellFormed
<1>0. /\ part["secure"] \in PartitionType /\ part["insecure"] \in PartitionType
      /\ \A k \in {"FUNCTIONS_MOVE_TO", "GLOBALS_MOVE_TO", "DUPLICATE_FUNCTIONS",
                   "KERNIGHAN_LIN", "STATIC_ANALYSIS", "ILP"} : k \in Kinds
  BY DEF TypeOK, Sides, Kinds
<1>1. ASSUME NEW a \in todo, PartitionForAnnotation(a) PROVE TypeOK'
  <2>1. AnnotationPartition(a) \in PartitionType
    BY AnnotationPartitionType DEF TypeOK
  <2>2. AddToPartition(part["secure"], AnnotationPartition(a)) \in PartitionType
    BY <1>0, <2>1, AddToPartitionType
  <2>3. part' \in [Sides -> PartitionType]
    BY <1>1, <2>2 DEF PartitionForAnnotation, TypeOK
  <2>4. QED BY <1>1, <2>3 DEF PartitionForAnnotation, TypeOK
<1>2. ASSUME ComputePartitions PROVE TypeOK'
  <2> DEFINE sec == WithInterfaces(WithGlobals(part["secure"]))
  <2> DEFINE rest == [EmptyPartition EXCEPT !.functions = Functions \ sec.functions]
  <2>1. rest \in PartitionType
    BY EmptyPartitionType DEF PartitionType
  <2>2. sec \in PartitionType /\ WithInterfaces(WithGlobals(rest)) \in PartitionType
    BY <1>0, <2>1, WithInterfacesType, WithGlobalsType
  <2>3. part' = [s \in Sides |-> IF s = "secure" THEN sec
                                 ELSE WithInterfaces(WithGlobals(rest))]
    BY <1>2 DEF ComputePartitions
  <2> HIDE DEF sec, rest
  <2>4. part' \in [Sides -> PartitionType]
    BY <2>2, <2>3
  <2>5. pending' \in Seq(Kinds)
    <3>1. optName \in STRING
      BY OptNamesAssumption DEF TypeOK
    <3>2. getOptimizations(optName) \in Seq(Kinds)
      BY <3>1, getOptimizationsType, Zenon
    <3>3. << >> \in Seq(Kinds)
      OBVIOUS
    <3>4. QED BY <1>2, <3>2, <3>3 DEF ComputePartitions
  <2>6. QED BY <1>2, <2>4, <2>5 DEF ComputePartitions, TypeOK, Phases
<1>3. ASSUME RunFunctionsMoveTo PROVE TypeOK'
  <2>1. \A s \in Sides : Optimizer("FUNCTIONS_MOVE_TO", s, MovedTo(part[s]), {})
                           \in OptimizerType
    BY <1>0, MovedToType, OptimizerIsType DEF TypeOK
  <2>2. optimizers' \in Seq(OptimizerType) /\ cursor' \in 1 .. Len(optimizers') + 1
    BY <1>0, <1>3, <2>1, TypeAppendTwo, NextOptimizationType DEF RunFunctionsMoveTo, Sides
  <2>3. QED BY <1>0, <1>3, <2>2, NextOptimizationType DEF RunFunctionsMoveTo, TypeOK
<1>4. ASSUME RunGlobalsMoveTo PROVE TypeOK'
  <2>1. \A s \in Sides : OwnGlobals(s) \in SUBSET Globals
    BY SidesTyped DEF OwnGlobals, PartitionType, TypeOK
  <2>2. \A s \in Sides : Optimizer("GLOBALS_MOVE_TO", s, {}, OwnGlobals(s))
                           \in OptimizerType
    BY <1>0, <2>1, OptimizerIsType
  <2>3. optimizers' \in Seq(OptimizerType) /\ cursor' \in 1 .. Len(optimizers') + 1
    BY <1>0, <1>4, <2>2, TypeAppendTwo, NextOptimizationType DEF RunGlobalsMoveTo, Sides
  <2>4. QED BY <1>0, <1>4, <2>3, NextOptimizationType DEF RunGlobalsMoveTo, TypeOK
<1>5. ASSUME RunDuplicateFunctions PROVE TypeOK'
  <2> DEFINE dup == IF FunctionMoversFirst(optimizers)
                    THEN optimizers[1].functions \cap optimizers[2].functions
                    ELSE {}
  <2>1. dup \in SUBSET Functions
    <3>1. CASE FunctionMoversFirst(optimizers)
      <4>1. optimizers[1] \in OptimizerType
        BY <3>1 DEF FunctionMoversFirst, TypeOK
      <4>2. QED BY <3>1, <4>1 DEF OptimizerType
    <3>2. QED BY <3>1
  <2> HIDE DEF dup
  <2>2. Optimizer("DUPLICATE_FUNCTIONS", "secure", dup, {}) \in OptimizerType
    BY <1>0, <2>1, OptimizerIsType DEF Sides
  <2>3. optimizers' = Append(optimizers, Optimizer("DUPLICATE_FUNCTIONS", "secure", dup, {}))
    BY <1>5 DEF RunDuplicateFunctions, dup
  <2>4. optimizers' \in Seq(OptimizerType) /\ cursor' \in 1 .. Len(optimizers') + 1
    BY <1>0, <1>5, <2>2, <2>3, TypeAppendOne, NextOptimizationType
       DEF RunDuplicateFunctions
  <2>5. QED BY <1>0, <1>5, <2>4, NextOptimizationType
            DEF RunDuplicateFunctions, TypeOK, Phases
<1>6. ASSUME RunStaticAnalysis PROVE TypeOK'
  <2>1. Optimizer("STATIC_ANALYSIS", "secure", {}, {}) \in OptimizerType
    BY <1>0, OptimizerIsType DEF Sides
  <2>2. optimizers' \in Seq(OptimizerType) /\ cursor' \in 1 .. Len(optimizers') + 1
    BY <1>0, <1>6, <2>1, TypeAppendOne, NextOptimizationType DEF RunStaticAnalysis
  <2>3. QED BY <1>0, <1>6, <2>2, NextOptimizationType DEF RunStaticAnalysis, TypeOK
<1>7. ASSUME RunKL PROVE TypeOK'
  <2>1. PICK kept \in SUBSET passCandidates :
          part' = [part EXCEPT !["secure"].functions = @ \cup kept,
                               !["secure"].related = WithoutRelated(@, kept),
                               !["insecure"].functions = @ \ kept]
    BY <1>7 DEF RunKL
  <2>2. kept \subseteq Functions
    BY <1>0 DEF passCandidates, PartitionType
  <2>3. WithoutRelated(part["secure"].related, kept) \in RelatedLevels
    BY <1>0, WithoutRelatedType DEF PartitionType
  <2>4. part' \in [Sides -> PartitionType]
    BY <1>0, <2>1, <2>2, <2>3 DEF TypeOK, Sides, PartitionType
  <2>5. Optimizer("KERNIGHAN_LIN", "secure", {}, {}) \in OptimizerType
    BY <1>0, OptimizerIsType DEF Sides
  <2>6. optimizers' \in Seq(OptimizerType) /\ cursor' \in 1 .. Len(optimizers') + 1
    BY <1>0, <1>7, <2>5, TypeAppendOne, NextOptimizationType DEF RunKL
  <2>7. QED BY <1>0, <1>7, <2>4, <2>6, NextOptimizationType DEF RunKL, TypeOK
<1>8. ASSUME RunILP PROVE TypeOK'
  <2>1. PICK moved \in ILPSolutions :
          optimizers' = Append(optimizers, Optimizer("ILP", "secure", moved, {}))
    BY <1>8 DEF RunILP
  <2>2. moved \in SUBSET Functions
    BY <1>0 DEF ILPSolutions, PartitionType
  <2>3. Optimizer("ILP", "secure", moved, {}) \in OptimizerType
    BY <1>0, <2>2, OptimizerIsType DEF Sides
  <2>4. optimizers' \in Seq(OptimizerType) /\ cursor' \in 1 .. Len(optimizers') + 1
    BY <1>0, <1>8, <2>1, <2>3, TypeAppendOne, NextOptimizationType DEF RunILP
  <2>5. QED BY <1>0, <1>8, <2>4, NextOptimizationType DEF RunILP, TypeOK
<1>9. ASSUME FinishRun PROVE TypeOK'
  BY <1>9 DEF FinishRun, TypeOK, Phases
<1>10. ASSUME ApplyFunctionsMoveTo PROVE TypeOK'
  <2>1. optimizers[cursor] \in OptimizerType
    BY <1>0, <1>10, NextToApplyType DEF ApplyFunctionsMoveTo
  <2>2. part' \in [Sides -> PartitionType]
    BY <1>10, <2>1 DEF ApplyFunctionsMoveTo, OptimizerType, PartitionType, TypeOK
  <2>3. QED BY <1>0, <1>10, <2>2, NextToApplyType DEF ApplyFunctionsMoveTo, TypeOK
<1>11. ASSUME ApplyGlobalsMoveTo PROVE TypeOK'
  <2>1. optimizers[cursor] \in OptimizerType
    BY <1>0, <1>11, NextToApplyType DEF ApplyGlobalsMoveTo
  <2>2. part' \in [Sides -> PartitionType]
    BY <1>11, <2>1 DEF ApplyGlobalsMoveTo, OptimizerType, PartitionType, TypeOK
  <2>3. QED BY <1>0, <1>11, <2>2, NextToApplyType DEF ApplyGlobalsMoveTo, TypeOK
<1>12. ASSUME ApplyStaticAnalysis PROVE TypeOK'
  <2>1. RelatedFunctions(part["secure"]) \in SUBSET Functions
    BY DEF RelatedFunctions
  <2>2. NoneRelated \in RelatedLevels
    BY DEF NoneRelated, RelatedLevels
  <2>3. part' \in [Sides -> PartitionType]
    BY <1>0, <1>12, <2>1, <2>2 DEF ApplyStaticAnalysis, TypeOK, Sides, PartitionType
  <2>4. QED BY <1>0, <1>12, <2>3, NextToApplyType DEF ApplyStaticAnalysis, TypeOK
<1>13. ASSUME ApplyILP PROVE TypeOK'
  <2> DEFINE moved == optimizers[cursor].functions
  <2>1. moved \in SUBSET Functions
    BY <1>0, <1>13, NextToApplyType DEF ApplyILP, OptimizerType
  <2>2. WithoutRelated(part["secure"].related, moved) \in RelatedLevels
    BY <1>0, WithoutRelatedType DEF PartitionType
  <2>3. part' = [part EXCEPT !["secure"].functions = @ \cup moved,
                             !["secure"].related = WithoutRelated(@, moved),
                             !["insecure"].functions = @ \ moved]
    BY <1>13 DEF ApplyILP
  <2> HIDE DEF moved
  <2>4. part' \in [Sides -> PartitionType]
    BY <1>0, <2>1, <2>2, <2>3 DEF TypeOK, Sides, PartitionType
  <2>5. QED BY <1>0, <1>13, <2>4, NextToApplyType DEF ApplyILP, TypeOK
<1>14. ASSUME ApplyKL PROVE TypeOK'
  BY <1>0, <1>14, NextToApplyType DEF ApplyKL, TypeOK
<1>15. ASSUME FinishApply PROVE TypeOK'
  <2>1. secureWins \in [Sides -> PartitionType]
    BY SecureWinsType DEF TypeOK
  <2>2. \A s \in Sides : WithInterfaces(secureWins[s]) \in PartitionType
    BY <2>1, WithInterfacesType
  <2>3. part' \in [Sides -> PartitionType]
    BY <1>15, <2>2 DEF FinishApply
  <2>4. QED BY <1>15, <2>3 DEF FinishApply, TypeOK, Phases
<1>16. CASE UNCHANGED vars
  BY <1>16 DEF vars, TypeOK
<1>17. QED
  BY <1>1, <1>2, <1>3, <1>4, <1>5, <1>6, <1>7, <1>8, <1>9, <1>10, <1>11, <1>12,
     <1>13, <1>14, <1>15, <1>16 DEF Next

\* Type correctness: every variable of the pass keeps its type.
THEOREM TypeCorrect == Spec => []TypeOK
  BY TypeInit, TypeStep, PTL DEF Spec

(***************************************************************************)
(* The split.  PartitionsComplementary speaks of the end of the pass only, *)
(* and is not inductive: what carries it there is that until then the two  *)
(* sides together never lose a function of the module.                     *)
(***************************************************************************)
InterfacesCurrent ==
  \A s \in Sides :
    /\ part[s].inInterface = InInterface(program, part[s].functions)
    /\ part[s].outInterface = OutInterface(program, part[s].functions)

SplitInv ==
  /\ \A a \in program.annotations \ todo : a.function \in secure
  /\ phase # "partition" => todo = {}
  /\ phase \in {"optimize", "apply", "done"} => secure \cup insecure = Functions
  /\ phase = "done" => secure \cap insecure = {} /\ InterfacesCurrent

IInv == TypeOK /\ SplitInv

(***************************************************************************)
(* What a step does to the two function sets.  The secure one never loses  *)
(* a function; the insecure one loses only functions the secure one has.   *)
(***************************************************************************)
StepEffect ==
  /\ program' = program
  /\ secure \subseteq secure'
  /\ \A a \in todo \ todo' : a.function \in secure'
  /\ phase \in {"optimize", "apply"} => secure \cup insecure \subseteq secure' \cup insecure'
  /\ phase' # "partition" => todo' = {}
  /\ phase \in {"done", "aborted"} => UNCHANGED <<phase, part, todo>>
  /\ phase' \in {"optimize", "apply"} /\ phase = "partition"
       => secure' \cup insecure' = Functions
  /\ phase' = "done" /\ phase # "done" =>
       /\ secure' \cup insecure' = Functions
       /\ secure' \cap insecure' = {}
       /\ InterfacesCurrent'
       /\ phase \in {"partition", "apply"} /\ todo = {} /\ todo' = {}

\* The effect of a step of PartitionOptimizer::run.
LEMMA OptimizerStepEffect ==
  ASSUME IInv, program' = program, todo' = todo, phase = "optimize",
         phase' \in {"optimize", "apply", "aborted"},
         secure \subseteq secure', secure \cup insecure \subseteq secure' \cup insecure'
  PROVE  StepEffect
  BY DEF StepEffect, IInv, SplitInv

\* The effect of a step of PartitionOptimizer::apply.
LEMMA ApplyStepEffect ==
  ASSUME IInv, program' = program, todo' = todo, phase = "apply", phase' = "apply",
         secure \subseteq secure', secure \cup insecure \subseteq secure' \cup insecure'
  PROVE  StepEffect
  BY DEF StepEffect, IInv, SplitInv

\* Every step of the pass has one of the effects StepEffect lists.
LEMMA EveryStepEffect == IInv /\ [Next]_vars => StepEffect
<1> SUFFICES ASSUME IInv, [Next]_vars PROVE StepEffect
  OBVIOUS
<1>0. /\ TypeOK /\ IsProgram(program)
      /\ part["secure"] \in PartitionType /\ part["insecure"] \in PartitionType
      /\ DOMAIN part = Sides
      /\ \A k \in {"FUNCTIONS_MOVE_TO", "GLOBALS_MOVE_TO", "DUPLICATE_FUNCTIONS",
                   "KERNIGHAN_LIN", "STATIC_ANALYSIS", "ILP"} : k \in Kinds
  BY ProgramIsWellFormed DEF IInv, TypeOK, Sides, Kinds
<1>1. ASSUME NEW a \in todo, PartitionForAnnotation(a) PROVE StepEffect
  <2>1. AnnotationPartition(a).functions = {a.function}
    BY <1>0, AnnotationPartitionType DEF TypeOK
  <2>2. secure' = secure \cup {a.function}
    BY <1>0, <1>1, <2>1 DEF PartitionForAnnotation, AddToPartition, secure, Sides
  <2>3. QED BY <1>1, <2>2 DEF PartitionForAnnotation, StepEffect
<1>2. ASSUME ComputePartitions PROVE StepEffect
  <2> DEFINE sec == WithInterfaces(WithGlobals(part["secure"]))
  <2> DEFINE rest == [EmptyPartition EXCEPT !.functions = Functions \ sec.functions]
  <2> DEFINE ins == WithInterfaces(WithGlobals(rest))
  <2>1. sec.functions = secure /\ secure \subseteq Functions
    BY <1>0, WithInterfacesType, WithGlobalsType DEF secure, PartitionType
  <2>2. rest \in PartitionType /\ rest.functions = Functions \ secure
    BY <2>1, EmptyPartitionType DEF PartitionType
  <2> HIDE DEF rest
  <2>3. ins.functions = Functions \ secure
    BY <2>2, WithInterfacesType, WithGlobalsType
  <2>4. /\ sec.inInterface = InInterface(program, sec.functions)
        /\ sec.outInterface = OutInterface(program, sec.functions)
        /\ ins.inInterface = InInterface(program, ins.functions)
        /\ ins.outInterface = OutInterface(program, ins.functions)
    BY <1>0, <2>1, <2>2, <2>3, WithInterfacesType, WithGlobalsType
  <2>5. /\ part'["secure"] = sec /\ part'["insecure"] = ins
        /\ program' = program /\ todo = {} /\ todo' = {} /\ phase = "partition"
    BY <1>2 DEF ComputePartitions, Sides, rest
  <2> HIDE DEF sec, ins
  <2>6. secure' = secure /\ insecure' = Functions \ secure
    BY <2>1, <2>3, <2>5 DEF secure, insecure
  <2>7. InterfacesCurrent'
    BY <2>4, <2>5 DEF InterfacesCurrent, Sides
  <2>8. QED BY <2>1, <2>5, <2>6, <2>7 DEF StepEffect
<1>3. ASSUME \/ RunFunctionsMoveTo \/ RunGlobalsMoveTo \/ RunDuplicateFunctions
             \/ RunStaticAnalysis \/ RunILP \/ FinishRun
      PROVE  StepEffect
  <2>1. /\ program' = program /\ todo' = todo /\ phase = "optimize" /\ part' = part
        /\ phase' \in {"optimize", "apply", "aborted"}
    BY <1>3 DEF RunFunctionsMoveTo, RunGlobalsMoveTo, RunDuplicateFunctions,
                RunStaticAnalysis, RunILP, FinishRun, NextOptimization
  <2>2. secure' = secure /\ insecure' = insecure
    BY <2>1 DEF secure, insecure
  <2>3. QED BY <2>1, <2>2, OptimizerStepEffect
<1>4. ASSUME RunKL PROVE StepEffect
  <2>1. PICK kept \in SUBSET passCandidates :
          part' = [part EXCEPT !["secure"].functions = @ \cup kept,
                               !["secure"].related = WithoutRelated(@, kept),
                               !["insecure"].functions = @ \ kept]
    BY <1>4 DEF RunKL
  <2>2. secure' = secure \cup kept /\ insecure' = insecure \ kept
    BY <1>0, <2>1 DEF secure, insecure, Sides, PartitionType
  <2>3. program' = program /\ todo' = todo /\ phase = "optimize" /\ phase' = "optimize"
    BY <1>4 DEF RunKL, NextOptimization
  <2>4. QED BY <2>2, <2>3, OptimizerStepEffect
<1>5. ASSUME ApplyFunctionsMoveTo PROVE StepEffect
  <2>1. /\ optimizers[cursor] \in OptimizerType
        /\ program' = program /\ todo' = todo /\ phase = "apply" /\ phase' = "apply"
    BY <1>0, <1>5, NextToApplyType DEF ApplyFunctionsMoveTo
  <2>2. secure \subseteq secure' /\ insecure \subseteq insecure'
    BY <1>0, <1>5, <2>1
       DEF ApplyFunctionsMoveTo, OptimizerType, secure, insecure, Sides, PartitionType
  <2>3. QED BY <2>1, <2>2, ApplyStepEffect
<1>6. ASSUME ApplyGlobalsMoveTo PROVE StepEffect
  <2>1. /\ optimizers[cursor] \in OptimizerType
        /\ program' = program /\ todo' = todo /\ phase = "apply" /\ phase' = "apply"
    BY <1>0, <1>6, NextToApplyType DEF ApplyGlobalsMoveTo
  <2>2. secure' = secure /\ insecure' = insecure
    BY <1>0, <1>6, <2>1
       DEF ApplyGlobalsMoveTo, OptimizerType, secure, insecure, Sides, PartitionType
  <2>3. QED BY <2>1, <2>2, ApplyStepEffect
<1>7. ASSUME ApplyStaticAnalysis PROVE StepEffect
  <2>1. program' = program /\ todo' = todo /\ phase = "apply" /\ phase' = "apply"
    BY <1>0, <1>7, NextToApplyType DEF ApplyStaticAnalysis
  <2>2. secure \subseteq secure' /\ insecure' = insecure
    BY <1>0, <1>7 DEF ApplyStaticAnalysis, secure, insecure, Sides, PartitionType
  <2>3. QED BY <2>1, <2>2, ApplyStepEffect
<1>8. ASSUME ApplyILP PROVE StepEffect
  <2> DEFINE moved == optimizers[cursor].functions
  <2>1. program' = program /\ todo' = todo /\ phase = "apply" /\ phase' = "apply"
    BY <1>0, <1>8, NextToApplyType DEF ApplyILP
  <2>2. part' = [part EXCEPT !["secure"].functions = @ \cup moved,
                             !["secure"].related = WithoutRelated(@, moved),
                             !["insecure"].functions = @ \ moved]
    BY <1>8 DEF ApplyILP
  <2> HIDE DEF moved
  <2>3. secure' = secure \cup moved /\ insecure' = insecure \ moved
    BY <1>0, <2>2 DEF secure, insecure, Sides, PartitionType
  <2>4. QED BY <2>1, <2>3, ApplyStepEffect
<1>9. ASSUME ApplyKL PROVE StepEffect
  <2>1. program' = program /\ todo' = todo /\ phase = "apply" /\ phase' = "apply"
    BY <1>0, <1>9, NextToApplyType DEF ApplyKL
  <2>2. secure' = secure /\ insecure' = insecure
    BY <1>9 DEF ApplyKL, secure, insecure
  <2>3. QED BY <2>1, <2>2, ApplyStepEffect
<1>10. ASSUME FinishApply PROVE StepEffect
  <2>1. /\ secureWins \in [Sides -> PartitionType]
        /\ secureWins["secure"].functions = secure
        /\ secureWins["insecure"].functions = insecure \ secure
    BY <1>0, SecureWinsType DEF TypeOK
  <2>2. \A s \in Sides : part'[s] = WithInterfaces(secureWins[s])
    BY <1>10 DEF FinishApply
  <2>3. \A s \in Sides :
          /\ part'[s].functions = secureWins[s].functions
          /\ part'[s].inInterface = InInterface(program, part'[s].functions)
          /\ part'[s].outInterface = OutInterface(program, part'[s].functions)
    BY <2>1, <2>2, WithInterfacesType
  <2>4. secure' = secure /\ insecure' = insecure \ secure
    BY <2>1, <2>3 DEF secure, insecure, Sides
  <2>5. /\ program' = program /\ todo' = todo /\ phase = "apply" /\ phase' = "done"
        /\ todo = {}
    BY <1>10 DEF FinishApply, IInv, SplitInv
  <2>6. InterfacesCurrent'
    BY <2>3, <2>5 DEF InterfacesCurrent
  <2>7. secure \cup insecure = Functions
    BY <2>5 DEF IInv, SplitInv
  <2>8. QED BY <2>4, <2>5, <2>6, <2>7 DEF StepEffect
<1>11. CASE UNCHANGED vars
  BY <1>11 DEF vars, StepEffect, IInv, SplitInv, secure, insecure
<1>12. QED
  BY <1>1, <1>2, <1>3, <1>4, <1>5, <1>6, <1>7, <1>8, <1>9, <1>10, <1>11 DEF Next

\* The invariant holds before the first annotation.
LEMMA IInvInit == Init => IInv
<1> SUFFICES ASSUME Init PROVE IInv
  OBVIOUS
<1>1. TypeOK
  BY TypeInit
<1>2. QED BY <1>1 DEF Init, IInv, SplitInv

\* Every step keeps the invariant.
LEMMA IInvStep == IInv /\ [Next]_vars => IInv'
<1> SUFFICES ASSUME IInv, [Next]_vars PROVE IInv'
  OBVIOUS
<1>1. TypeOK /\ TypeOK' /\ StepEffect
  BY TypeStep, EveryStepEffect DEF IInv
<1>2. /\ secure' \subseteq Functions /\ insecure' \subseteq Functions
      /\ phase \in Phases
  BY <1>1 DEF TypeOK, secure, insecure, PartitionType, Sides
<1>3. (\A a \in program.annotations \ todo : a.function \in secure)'
  BY <1>1 DEF IInv, SplitInv, StepEffect
<1>4. (phase # "partition" => todo = {})'
  BY <1>1 DEF StepEffect
<1>5. (phase = "done" => secure \cap insecure = {} /\ InterfacesCurrent)'
  <2>1. CASE phase = "done"
    <3>1. part' = part /\ program' = program /\ secure' = secure /\ insecure' = insecure
      BY <1>1, <2>1 DEF StepEffect, secure, insecure
    <3>2. QED BY <2>1, <3>1 DEF IInv, SplitInv, InterfacesCurrent
  <2>2. CASE phase # "done"
    BY <1>1, <2>2 DEF StepEffect
  <2>3. QED BY <2>1, <2>2
<1>6. (phase \in {"optimize", "apply", "done"} => secure \cup insecure = Functions)'
  <2>1. CASE phase \in {"optimize", "apply"}
    BY <1>1, <1>2, <2>1 DEF StepEffect, IInv, SplitInv
  <2>2. CASE phase = "partition"
    BY <1>1, <2>2 DEF StepEffect
  <2>3. CASE phase \in {"done", "aborted"}
    <3>1. phase' = phase /\ secure' = secure /\ insecure' = insecure
      BY <1>1, <2>3 DEF StepEffect, secure, insecure
    <3>2. QED BY <2>3, <3>1 DEF IInv, SplitInv
  <2>4. QED BY <1>2, <2>1, <2>2, <2>3 DEF Phases
<1>7. QED BY <1>1, <1>3, <1>4, <1>5, <1>6 DEF IInv, SplitInv

\* The invariant holds throughout the pass.
LEMMA IInvHolds == Spec => []IInv
  BY IInvInit, IInvStep, PTL DEF Spec

(***************************************************************************)
(* When the pass ends every function of the module is on exactly one side: *)
(* secure and insecure partitions of ProgramPartition are complementary.   *)
(***************************************************************************)
THEOREM SplitIsComplementary == Spec => []PartitionsComplementary
<1>1. IInv => PartitionsComplementary
  BY DEF IInv, SplitInv, PartitionsComplementary
<1>2. QED BY <1>1, IInvHolds, PTL

(***************************************************************************)
(* An annotated function is in the enclave from the moment its annotation  *)
(* was visited, and in the end nowhere else.                               *)
(***************************************************************************)
THEOREM SensitiveNeverLeaves == Spec => []SensitiveStaysSecure
<1>1. IInv => SensitiveStaysSecure
  BY DEF IInv, SplitInv, SensitiveStaysSecure
<1>2. QED BY <1>1, IInvHolds, PTL

(***************************************************************************)
(* The in-interface of either side is the out-interface of the other,      *)
(* restricted to functions with a PDG: callers have bodies, and the PDG    *)
(* has every function with a body.                                         *)
(***************************************************************************)
THEOREM InterfacesAreDual == Spec => []InterfacesAgree
<1>1. ASSUME IInv PROVE InterfacesAgree
  <2> SUFFICES ASSUME phase = "done", NEW s \in Sides
               PROVE  part[s].inInterface = part[Other(s)].outInterface \cap program.hasPDG
    BY DEF InterfacesAgree
  <2>1. IsProgram(program) /\ Other(s) \in Sides
    BY <1>1, ProgramIsWellFormed DEF IInv, Sides, Other
  <2>2. part[Other(s)].functions = Functions \ part[s].functions
    BY <1>1, SidesTyped DEF IInv, SplitInv, TypeOK, Sides, Other, secure, insecure
  <2>3. /\ part[s].inInterface = InInterface(program, part[s].functions)
        /\ part[Other(s)].outInterface = OutInterface(program, part[Other(s)].functions)
    BY <1>1, <2>1 DEF IInv, SplitInv, InterfacesCurrent
  <2>4. part[s].functions \subseteq Functions
    BY <1>1 DEF IInv, TypeOK, PartitionType
  <2>5. \A x, y : <<x, y>> \in program.calls => x \in program.hasPDG /\ x \in Functions
    BY <2>1 DEF IsProgram
  <2>6. QED BY <2>2, <2>3, <2>4, <2>5 DEF InInterface, OutInterface
<1>2. IInv => InterfacesAgree
  BY <1>1
<1>3. QED BY <1>2, IInvHolds, PTL

(***************************************************************************)
(* The pass implements SecureSplit: initial states map to initial states,  *)
(* and every step grows the enclave, publishes the split or changes        *)
(* nothing of what SecureSplit sees.                                       *)
(***************************************************************************)
THEOREM PassImplementsSplit == Spec => ImplementsSecureSplit
<1>1. Init => Split!Init
  <2> SUFFICES ASSUME Init PROVE Split!Init
    OBVIOUS
  <2>1. secure = {} /\ phase = "partition" /\ program \in Programs
    BY DEF Init, secure, Sides, EmptyPartition
  <2>2. QED BY <2>1 DEF Split!Init
<1>2. IInv /\ IInv' /\ [Next]_vars => [Split!Next]_(Split!vars)
  <2> SUFFICES ASSUME IInv, IInv', [Next]_vars PROVE [Split!Next]_(Split!vars)
    OBVIOUS
  <2>1. StepEffect
    BY EveryStepEffect
  <2>2. /\ secure' \subseteq Functions /\ insecure' \subseteq Functions
        /\ AnnotatedFunctions(program)' = AnnotatedFunctions(program)
    BY <2>1 DEF IInv, TypeOK, secure, insecure, PartitionType, Sides, StepEffect,
                AnnotatedFunctions
  <2>3. CASE phase = "done"
    <3>1. phase' = phase /\ secure' = secure /\ insecure' = insecure
      BY <2>1, <2>3 DEF StepEffect, secure, insecure
    <3>2. QED BY <2>2, <2>3, <3>1 DEF Split!vars
  <2>4. CASE phase # "done" /\ phase' # "done"
    BY <2>1, <2>2, <2>4 DEF StepEffect, Split!Next, Split!Grow
  <2>5. CASE phase # "done" /\ phase' = "done"
    <3>1. /\ secure \subseteq secure'
          /\ insecure' = Functions \ secure'
          /\ todo' = {} /\ program' = program
      BY <2>1, <2>2, <2>5 DEF StepEffect
    <3>2. \A a \in program'.annotations : a.function \in secure'
      BY <3>1 DEF IInv, SplitInv
    <3>3. AnnotatedFunctions(program) \subseteq secure'
      BY <3>1, <3>2 DEF AnnotatedFunctions
    <3>4. Split!Publish
      BY <2>2, <2>5, <3>1, <3>3 DEF Split!Publish
    <3>5. QED BY <3>4 DEF Split!Next
  <2>6. QED BY <2>3, <2>4, <2>5
<1>3. QED BY <1>1, <1>2, IInvHolds, PTL DEF Spec, Split!Spec, ImplementsSecureSplit

(***************************************************************************)
(* The related functions.  Neither property is inductive: LevelsMinimal    *)
(* speaks of the moment the optimizer starts, RelatedAccountedFor of the   *)
(* end.  While the annotations are visited a level is the least over those *)
(* visited so far; from then on the map only loses functions that are in   *)
(* the secure partition by the same step.                                  *)
(***************************************************************************)
LevelsOf(f, A) ==
  (UNION {{a.argRelated[f], a.retRelated[f]} : a \in A}) \ {NotRelated}

IsLeast(l, L) ==
  /\ L = {} => l = NotRelated
  /\ L # {} => l \in L /\ \A m \in L : l <= m

relatedLevel(f) == part["secure"].related[f]

NothingOptimized == phase = "partition" \/ (phase = "optimize" /\ optimizers = << >>)

RelatedInv ==
  /\ NothingOptimized =>
       \A f \in Functions : IsLeast(relatedLevel(f), LevelsOf(f, program.annotations \ todo))
  /\ phase # "partition" =>
       \A f \in Functions :
         /\ relatedLevel(f) # NotRelated => f \in StaticallyRelated
         /\ f \in StaticallyRelated => relatedLevel(f) # NotRelated \/ f \in secure
  /\ phase = "done" /\ optName # "" =>
       \A f \in secure : relatedLevel(f) = NotRelated

\* Merging two least levels gives the least level of both sets.
LEMMA MergeKeepsLeast ==
  ASSUME NEW r \in RelatedLevels, NEW s \in RelatedLevels, NEW f \in Functions,
         NEW L \in SUBSET Nat, NEW M \in SUBSET Nat,
         IsLeast(r[f], L), IsLeast(s[f], M)
  PROVE  IsLeast(MergeLevels(r, s)[f], L \cup M)
<1>1. r[f] \in Nat \cup {-1} /\ s[f] \in Nat \cup {-1}
  BY DEF RelatedLevels, NotRelated
<1>2. MergeLevels(r, s)[f] = CASE r[f] = -1 -> s[f]
                               [] r[f] # -1 /\ s[f] # -1 /\ s[f] < r[f] -> s[f]
                               [] OTHER -> r[f]
  BY DEF MergeLevels, NotRelated
<1>3. /\ L = {} <=> r[f] = -1
      /\ M = {} <=> s[f] = -1
  BY <1>1 DEF IsLeast, NotRelated
<1>4. CASE L = {}
  BY <1>2, <1>3, <1>4 DEF IsLeast
<1>5. CASE L # {} /\ M = {}
  BY <1>2, <1>3, <1>5 DEF IsLeast
<1>6. CASE L # {} /\ M # {} /\ s[f] < r[f]
  <2>1. MergeLevels(r, s)[f] = s[f]
    BY <1>2, <1>3, <1>6
  <2>2. \A m \in L \cup M : s[f] <= m
    BY <1>1, <1>6 DEF IsLeast
  <2>3. QED BY <1>6, <2>1, <2>2 DEF IsLeast
<1>7. CASE L # {} /\ M # {} /\ ~(s[f] < r[f])
  <2>1. MergeLevels(r, s)[f] = r[f]
    BY <1>2, <1>3, <1>7
  <2>2. \A m \in L \cup M : r[f] <= m
    BY <1>1, <1>7 DEF IsLeast
  <2>3. QED BY <1>7, <2>1, <2>2 DEF IsLeast
<1>8. QED BY <1>4, <1>5, <1>6, <1>7

\* What one traversal recorded is the least level of what it recorded.
LEMMA SingleLevelLeast ==
  ASSUME NEW l \in Nat \cup {NotRelated} PROVE IsLeast(l, {l} \ {NotRelated})
  BY DEF IsLeast, NotRelated

\* The partition of one annotation has the least levels of its traversals.
LEMMA AnnotationLevelsLeast ==
  ASSUME NEW a \in program.annotations, IsProgram(program), NEW f \in Functions
  PROVE  /\ LevelsOf(f, {a}) \in SUBSET Nat
         /\ AnnotationPartition(a).related \in RelatedLevels
         /\ IsLeast(AnnotationPartition(a).related[f], LevelsOf(f, {a}))
<1>1. a.argRelated \in RelatedLevels /\ a.retRelated \in RelatedLevels
  BY DEF IsProgram
<1>2. a.argRelated[f] \in Nat \cup {NotRelated} /\ a.retRelated[f] \in Nat \cup {NotRelated}
  BY <1>1 DEF RelatedLevels
<1> DEFINE L == {a.argRelated[f]} \ {NotRelated}
           M == {a.retRelated[f]} \ {NotRelated}
<1>3. LevelsOf(f, {a}) = L \cup M /\ L \in SUBSET Nat /\ M \in SUBSET Nat
  BY <1>2 DEF LevelsOf
<1>4. IsLeast(a.argRelated[f], L) /\ IsLeast(a.retRelated[f], M)
  BY <1>2, SingleLevelLeast
<1> HIDE DEF L, M
<1>5. IsLeast(MergeLevels(a.argRelated, a.retRelated)[f], L \cup M)
  BY <1>1, <1>3, <1>4, MergeKeepsLeast
<1>6. AnnotationPartition(a).related = MergeLevels(a.argRelated, a.retRelated)
  BY DEF AnnotationPartition, EmptyPartition
<1>7. QED BY <1>1, <1>3, <1>5, <1>6, MergeLevelsType

\* The levels of well-formed annotations are naturals.
LEMMA LevelsAreNaturals ==
  ASSUME IsProgram(program), NEW A \in SUBSET program.annotations, NEW f \in Functions
  PROVE  LevelsOf(f, A) \in SUBSET Nat
<1>1. ASSUME NEW a \in A
      PROVE  {a.argRelated[f], a.retRelated[f]} \subseteq Nat \cup {NotRelated}
  BY DEF IsProgram, RelatedLevels
<1>2. QED BY <1>1 DEF LevelsOf

(***************************************************************************)
(* Visiting one more annotation keeps the levels least.                    *)
(***************************************************************************)
LEMMA VisitKeepsLeast ==
  ASSUME TypeOK, RelatedInv, NEW a \in todo, PartitionForAnnotation(a)
  PROVE  RelatedInv'
<1>1. IsProgram(program) /\ part["secure"] \in PartitionType /\ a \in program.annotations
  BY ProgramIsWellFormed DEF TypeOK, Sides
<1>2. part'["secure"].related = MergeLevels(part["secure"].related,
                                            AnnotationPartition(a).related)
  BY DEF PartitionForAnnotation, TypeOK, Sides, AddToPartition
<1>3. /\ phase = "partition" /\ phase' = "partition" /\ program' = program
      /\ program.annotations \ todo' = (program.annotations \ todo) \cup {a}
  BY <1>1 DEF PartitionForAnnotation
<1>4. ASSUME NEW f \in Functions
      PROVE  IsLeast(part'["secure"].related[f], LevelsOf(f, program.annotations \ todo'))
  <2>1. LevelsOf(f, program.annotations \ todo')
          = LevelsOf(f, program.annotations \ todo) \cup LevelsOf(f, {a})
    BY <1>3 DEF LevelsOf
  <2>2. IsLeast(part["secure"].related[f], LevelsOf(f, program.annotations \ todo))
    BY <1>3 DEF RelatedInv, NothingOptimized, relatedLevel
  <2>3. /\ LevelsOf(f, {a}) \in SUBSET Nat
        /\ AnnotationPartition(a).related \in RelatedLevels
        /\ IsLeast(AnnotationPartition(a).related[f], LevelsOf(f, {a}))
    BY <1>1, AnnotationLevelsLeast
  <2>4. LevelsOf(f, program.annotations \ todo) \in SUBSET Nat
    BY <1>1, LevelsAreNaturals
  <2>5. part["secure"].related \in RelatedLevels
    BY <1>1 DEF PartitionType
  <2>6. IsLeast(MergeLevels(part["secure"].related, AnnotationPartition(a).related)[f],
                LevelsOf(f, program.annotations \ todo) \cup LevelsOf(f, {a}))
    BY <2>2, <2>3, <2>4, <2>5, MergeKeepsLeast
  <2>7. QED BY <1>2, <2>1, <2>6
<1>5. QED BY <1>3, <1>4 DEF RelatedInv, NothingOptimized, relatedLevel

(***************************************************************************)
(* What an optimization does to the related functions: it may drop those   *)
(* the secure partition holds afterwards, and touches no other.            *)
(***************************************************************************)
RelatedShrinks ==
  /\ phase \in {"optimize", "apply"}
  /\ phase' \in {"optimize", "apply", "done", "aborted"}
  /\ phase' = "optimize" => optimizers' # << >>
  /\ program' = program
  /\ secure \subseteq secure'
  /\ \A f \in Functions :
       \/ relatedLevel(f)' = relatedLevel(f)
       \/ relatedLevel(f)' = NotRelated /\ f \in secure'
  /\ phase' = "done" => \A f \in secure' : relatedLevel(f)' = NotRelated

\* That is enough to keep the account of the related functions.
LEMMA ShrinkKeepsRelated == RelatedInv /\ RelatedShrinks => RelatedInv'
<1> SUFFICES ASSUME RelatedInv, RelatedShrinks PROVE RelatedInv'
  OBVIOUS
<1>1. StaticallyRelated' = StaticallyRelated
  BY DEF RelatedShrinks, StaticallyRelated, TraversalLevels
<1>2. phase # "partition" /\ phase' # "partition" /\ ~NothingOptimized'
  BY DEF RelatedShrinks, NothingOptimized
<1>3. ASSUME NEW f \in Functions
      PROVE  /\ relatedLevel(f)' # NotRelated => f \in StaticallyRelated
             /\ f \in StaticallyRelated => relatedLevel(f)' # NotRelated \/ f \in secure'
  BY <1>2 DEF RelatedInv, RelatedShrinks
<1>4. QED BY <1>1, <1>2, <1>3 DEF RelatedInv, RelatedShrinks

\* Appending to m_optimizations leaves it non-empty.
LEMMA AppendedNotEmpty ==
  ASSUME TypeOK,
         \/ \E o : optimizers' = Append(optimizers, o)
         \/ \E o, q : optimizers' = optimizers \o <<o, q>>
  PROVE  optimizers' # << >>
<1>1. CASE \E o : optimizers' = Append(optimizers, o)
  BY <1>1 DEF TypeOK
<1>2. CASE \E o, q : optimizers' = optimizers \o <<o, q>>
  <2>1. PICK o, q : optimizers' = optimizers \o <<o, q>>
    BY <1>2
  <2>2. Len(optimizers') = Len(optimizers) + 2 /\ Len(optimizers) \in Nat
    BY <2>1 DEF TypeOK
  <2>3. QED BY <2>2
<1>3. QED BY <1>1, <1>2

\* Every step of the pass keeps the account of the related functions.
LEMMA RelatedStep == IInv /\ RelatedInv /\ [Next]_vars => RelatedInv'
<1> SUFFICES ASSUME IInv, RelatedInv, [Next]_vars PROVE RelatedInv'
  OBVIOUS
<1>0. /\ TypeOK /\ IsProgram(program) /\ secure \subseteq secure' /\ program' = program
      /\ part["secure"] \in PartitionType /\ DOMAIN part = Sides
  BY ProgramIsWellFormed, EveryStepEffect DEF IInv, TypeOK, Sides, StepEffect
<1>1. ASSUME NEW a \in todo, PartitionForAnnotation(a) PROVE RelatedInv'
  BY <1>0, <1>1, VisitKeepsLeast
<1>2. ASSUME ComputePartitions PROVE RelatedInv'
  <2> DEFINE sec == WithInterfaces(WithGlobals(part["secure"]))
  <2>1. sec.functions = secure /\ sec.related = part["secure"].related
    <3>1. WithGlobals(part["secure"]).related = part["secure"].related
      BY <1>0 DEF WithGlobals, PartitionType
    <3>2. QED BY <1>0, <3>1, WithInterfacesType, WithGlobalsType DEF secure
  <2>2. /\ part'["secure"] = sec /\ todo = {} /\ todo' = {} /\ phase = "partition"
        /\ phase' = IF optName = "" THEN "done" ELSE "optimize"
        /\ optName' = optName
    BY <1>2 DEF ComputePartitions, Sides
  <2> HIDE DEF sec
  <2>3. /\ \A f \in Functions : relatedLevel(f)' = relatedLevel(f)
        /\ StaticallyRelated' = StaticallyRelated
    BY <1>0, <2>1, <2>2 DEF relatedLevel, StaticallyRelated, TraversalLevels
  <2>4. ASSUME NEW f \in Functions
        PROVE  /\ IsLeast(relatedLevel(f), TraversalLevels(f))
               /\ LevelsOf(f, program.annotations \ todo) = TraversalLevels(f)
    BY <2>2 DEF RelatedInv, NothingOptimized, LevelsOf, TraversalLevels
  <2>5. \A f \in Functions : relatedLevel(f) # NotRelated <=> f \in StaticallyRelated
    BY <2>4 DEF StaticallyRelated, IsLeast, TraversalLevels
  <2>6. \A f \in Functions :
          LevelsOf(f, program.annotations \ todo)' = LevelsOf(f, program.annotations \ todo)
    BY <1>0, <2>2 DEF LevelsOf
  <2>7. QED BY <2>2, <2>3, <2>4, <2>5, <2>6 DEF RelatedInv
<1>3. ASSUME \/ RunFunctionsMoveTo \/ RunGlobalsMoveTo \/ RunDuplicateFunctions
             \/ RunStaticAnalysis \/ RunILP \/ FinishRun
      PROVE  RelatedInv'
  <2>1. /\ phase = "optimize" /\ part' = part
        /\ phase' \in {"optimize", "apply", "aborted"}
    BY <1>3 DEF RunFunctionsMoveTo, RunGlobalsMoveTo, RunDuplicateFunctions,
                RunStaticAnalysis, RunILP, FinishRun, NextOptimization
  <2>2. phase' = "optimize" => optimizers' # << >>
    <3>1. CASE FinishRun
      BY <3>1 DEF FinishRun
    <3>2. CASE RunFunctionsMoveTo \/ RunGlobalsMoveTo
      BY <1>0, <3>2, AppendedNotEmpty DEF RunFunctionsMoveTo, RunGlobalsMoveTo
    <3>3. CASE RunDuplicateFunctions \/ RunStaticAnalysis \/ RunILP
      BY <1>0, <3>3, AppendedNotEmpty DEF RunDuplicateFunctions, RunStaticAnalysis, RunILP
    <3>4. QED BY <1>3, <3>1, <3>2, <3>3
  <2>3. RelatedShrinks
    BY <1>0, <2>1, <2>2 DEF RelatedShrinks, relatedLevel
  <2>4. QED BY <2>3, ShrinkKeepsRelated
<1>4. ASSUME RunKL PROVE RelatedInv'
  <2>1. PICK kept \in SUBSET passCandidates :
          part' = [part EXCEPT !["secure"].functions = @ \cup kept,
                               !["secure"].related = WithoutRelated(@, kept),
                               !["insecure"].functions = @ \ kept]
    BY <1>4 DEF RunKL
  <2>2. /\ secure' = secure \cup kept
        /\ part'["secure"].related = WithoutRelated(part["secure"].related, kept)
    BY <1>0, <2>1 DEF secure, Sides, PartitionType
  <2>3. \A f \in Functions :
          relatedLevel(f)' = IF f \in kept THEN NotRelated ELSE relatedLevel(f)
    BY <2>2 DEF relatedLevel, WithoutRelated
  <2>4. phase = "optimize" /\ phase' = "optimize" /\ optimizers' # << >>
    BY <1>0, <1>4, AppendedNotEmpty DEF RunKL, NextOptimization
  <2>5. QED BY <1>0, <2>2, <2>3, <2>4, ShrinkKeepsRelated DEF RelatedShrinks
<1>5. ASSUME ApplyFunctionsMoveTo \/ ApplyGlobalsMoveTo \/ ApplyKL PROVE RelatedInv'
  <2>1. phase = "apply" /\ phase' = "apply"
    BY <1>5 DEF ApplyFunctionsMoveTo, ApplyGlobalsMoveTo, ApplyKL, NextToApply
  <2>2. optimizers[cursor] \in OptimizerType
    BY <1>0, <1>5 DEF ApplyFunctionsMoveTo, ApplyGlobalsMoveTo, ApplyKL, NextToApply, TypeOK
  <2>3. part'["secure"].related = part["secure"].related
    BY <1>0, <1>5, <2>2 DEF ApplyFunctionsMoveTo, ApplyGlobalsMoveTo, ApplyKL,
                            OptimizerType, Sides, PartitionType
  <2>4. QED BY <1>0, <2>1, <2>3, ShrinkKeepsRelated DEF RelatedShrinks, relatedLevel
<1>6. ASSUME ApplyStaticAnalysis PROVE RelatedInv'
  <2>1. phase = "apply" /\ phase' = "apply"
    BY <1>6 DEF ApplyStaticAnalysis, NextToApply
  <2>2. /\ secure' = secure \cup RelatedFunctions(part["secure"])
        /\ part'["secure"].related = NoneRelated
    BY <1>0, <1>6 DEF ApplyStaticAnalysis, secure, Sides, PartitionType
  <2>3. \A f \in Functions : relatedLevel(f)' = NotRelated
    BY <2>2 DEF relatedLevel, NoneRelated
  <2>4. \A f \in Functions : relatedLevel(f) # NotRelated => f \in secure'
    BY <2>2 DEF relatedLevel, RelatedFunctions
  <2>5. QED BY <1>0, <2>1, <2>3, <2>4, ShrinkKeepsRelated DEF RelatedShrinks
<1>7. ASSUME ApplyILP PROVE RelatedInv'
  <2> DEFINE moved == optimizers[cursor].functions
  <2>1. phase = "apply" /\ phase' = "apply"
    BY <1>7 DEF ApplyILP, NextToApply
  <2>2. part' = [part EXCEPT !["secure"].functions = @ \cup moved,
                             !["secure"].related = WithoutRelated(@, moved),
                             !["insecure"].functions = @ \ moved]
    BY <1>7 DEF ApplyILP
  <2> HIDE DEF moved
  <2>3. /\ secure' = secure \cup moved
        /\ part'["secure"].related = WithoutRelated(part["secure"].related, moved)
    BY <1>0, <2>2 DEF secure, Sides, PartitionType
  <2>4. \A f \in Functions :
          relatedLevel(f)' = IF f \in moved THEN NotRelated ELSE relatedLevel(f)
    BY <2>3 DEF relatedLevel, WithoutRelated
  <2>5. QED BY <1>0, <2>1, <2>3, <2>4, ShrinkKeepsRelated DEF RelatedShrinks
<1>8. ASSUME FinishApply PROVE RelatedInv'
  <2>1. secureWins \in [Sides -> PartitionType] /\ secureWins["secure"].functions = secure
    BY <1>0, SecureWinsType DEF TypeOK
  <2>2. secureWins["secure"].related = WithoutRelated(part["secure"].related, secure)
    BY <1>0 DEF secureWins, secure, Sides, PartitionType
  <2>3. part'["secure"] = WithInterfaces(secureWins["secure"])
    BY <1>8 DEF FinishApply, Sides
  <2>4. /\ secure' = secure
        /\ part'["secure"].related = WithoutRelated(part["secure"].related, secure)
    BY <2>1, <2>2, <2>3, WithInterfacesType DEF secure, Sides
  <2>5. \A f \in Functions :
          relatedLevel(f)' = IF f \in secure THEN NotRelated ELSE relatedLevel(f)
    BY <2>4 DEF relatedLevel, WithoutRelated
  <2>6. phase = "apply" /\ phase' = "done" /\ secure \subseteq Functions
    BY <1>0, <1>8 DEF FinishApply, PartitionType, secure
  <2>7. QED BY <1>0, <2>4, <2>5, <2>6, ShrinkKeepsRelated DEF RelatedShrinks
<1>9. CASE UNCHANGED vars
  BY <1>9 DEF vars, RelatedInv, NothingOptimized, relatedLevel, secure, LevelsOf,
              StaticallyRelated, TraversalLevels
<1>10. QED
  BY <1>1, <1>2, <1>3, <1>4, <1>5, <1>6, <1>7, <1>8, <1>9 DEF Next

\* No function is related before the first annotation.
LEMMA RelatedInit == Init => RelatedInv
<1> SUFFICES ASSUME Init PROVE RelatedInv
  OBVIOUS
<1>1. phase = "partition" /\ program.annotations \ todo = {}
      /\ \A f \in Functions : relatedLevel(f) = NotRelated
  BY DEF Init, relatedLevel, Sides, EmptyPartition, NoneRelated
<1>2. \A f \in Functions : LevelsOf(f, {}) = {}
  BY DEF LevelsOf
<1>3. QED BY <1>1, <1>2 DEF RelatedInv, IsLeast

\* The account of the related functions holds throughout the pass.
LEMMA RelatedHolds == Spec => [](IInv /\ RelatedInv)
<1>1. IInv /\ RelatedInv /\ [Next]_vars => (IInv /\ RelatedInv)'
  BY IInvStep, RelatedStep
<1>2. QED BY <1>1, IInvInit, RelatedInit, PTL DEF Spec

(***************************************************************************)
(* When the optimizer starts, the level of a function is its distance in   *)
(* the closest traversal, whatever the order of the annotations.           *)
(***************************************************************************)
THEOREM LevelsAreMinimal == Spec => []LevelsMinimal
<1>1. ASSUME IInv, RelatedInv PROVE LevelsMinimal
  <2> SUFFICES ASSUME phase = "optimize", optimizers = << >>, NEW f \in Functions
               PROVE  IF f \in StaticallyRelated
                      THEN /\ part["secure"].related[f] \in TraversalLevels(f)
                           /\ \A l \in TraversalLevels(f) : part["secure"].related[f] <= l
                      ELSE part["secure"].related[f] = NotRelated
    BY DEF LevelsMinimal
  <2>1. program.annotations \ todo = program.annotations
    BY <1>1 DEF IInv, SplitInv
  <2>2. IsLeast(part["secure"].related[f], TraversalLevels(f))
    BY <1>1, <2>1 DEF RelatedInv, NothingOptimized, relatedLevel, LevelsOf, TraversalLevels
  <2>3. QED BY <2>2 DEF IsLeast, StaticallyRelated
<1>2. IInv /\ RelatedInv => LevelsMinimal
  BY <1>1
<1>3. QED BY <1>2, RelatedHolds, PTL

(***************************************************************************)
(* Whatever was optimized, in the end the related functions still reported *)
(* are exactly those of the analysis that stayed outside the enclave.      *)
(***************************************************************************)
THEOREM RelatedAreAccountedFor == Spec => []RelatedAccountedFor
<1>1. IInv /\ RelatedInv => RelatedAccountedFor
  BY DEF RelatedInv, RelatedAccountedFor, RelatedFunctions, relatedLevel, StaticallyRelated
<1>2. QED BY <1>1, RelatedHolds, PTL

(***************************************************************************)
(* The function movers.  EntryPointsJustified speaks of the end; what is   *)
(* inductive is the reason a mover had for each function it adds: no call  *)
(* site outside, or one in a loop inside.  The secure partition only       *)
(* grows, so that a reason once given stays.                               *)
(***************************************************************************)
MoverNames == {"local", "function-move"}
MoverKinds == {"FUNCTIONS_MOVE_TO", "GLOBALS_MOVE_TO"}

MoveJustified(f) ==
  \/ \A c \in Functions : <<c, f>> \in program.calls => c \in secure
  \/ \E e \in secure : <<e, f>> \in program.loopCalls

PendingMovers == \A i \in 1 .. Len(pending) : pending[i] \in MoverKinds

OptimizerMovers ==
  \A i \in 1 .. Len(optimizers) :
    /\ optimizers[i].kind \in MoverKinds
    /\ optimizers[i].side = "secure" => \A f \in optimizers[i].functions : MoveJustified(f)

SecureJustified ==
  \A f \in secure \ AnnotatedFunctions(program) : MoveJustified(f)

MoverInv ==
  optName \in MoverNames => PendingMovers /\ OptimizerMovers /\ SecureJustified

\* A reason to move a function outlives every growth of the partition.
LEMMA ReasonStays ==
  ASSUME program' = program, secure \subseteq secure', NEW f, MoveJustified(f)
  PROVE  MoveJustified(f)'
  BY DEF MoveJustified

\* What the mover of the secure partition collects, it has a reason for.
LEMMA MovedIsJustified ==
  ASSUME NEW f \in MovedTo(part["secure"]) PROVE MoveJustified(f)
  BY DEF MovedTo, calledFromPartitionOnly, calledFromPartitionLoops, MoveJustified, secure

\* Appending a justified move of the secure side and any of the other keeps the reasons.
LEMMA MoversAppended ==
  ASSUME TypeOK, OptimizerMovers, program' = program, secure' = secure,
         NEW o, NEW q, optimizers' = optimizers \o <<o, q>>,
         o.kind \in MoverKinds, q.kind \in MoverKinds, q.side = "insecure",
         \A f \in o.functions : MoveJustified(f)
  PROVE  OptimizerMovers'
<1>1. /\ Len(optimizers') = Len(optimizers) + 2 /\ Len(optimizers) \in Nat
      /\ \A i \in 1 .. Len(optimizers) : optimizers'[i] = optimizers[i]
      /\ optimizers'[Len(optimizers) + 1] = o
      /\ optimizers'[Len(optimizers) + 2] = q
  BY DEF TypeOK
<1>2. ASSUME NEW i \in 1 .. Len(optimizers')
      PROVE  /\ optimizers'[i].kind \in MoverKinds
             /\ optimizers'[i].side = "secure" =>
                  \A f \in optimizers'[i].functions : MoveJustified(f)
  <2>1. CASE i \in 1 .. Len(optimizers)
    BY <1>1, <2>1 DEF OptimizerMovers
  <2>2. CASE i = Len(optimizers) + 1
    BY <1>1, <2>2
  <2>3. CASE i = Len(optimizers) + 2
    BY <1>1, <2>3
  <2>4. QED BY <1>1, <2>1, <2>2, <2>3
<1>3. QED BY <1>2, ReasonStays DEF OptimizerMovers

\* A step that leaves the lists alone and adds only justified functions.
LEMMA JustifiedGrowth ==
  ASSUME OptimizerMovers, SecureJustified, program' = program,
         optimizers' = optimizers, secure \subseteq secure',
         \A f \in secure' \ secure : f \in AnnotatedFunctions(program) \/ MoveJustified(f)
  PROVE  OptimizerMovers' /\ SecureJustified'
<1>1. OptimizerMovers'
  BY ReasonStays DEF OptimizerMovers
<1>2. AnnotatedFunctions(program)' = AnnotatedFunctions(program)
  BY DEF AnnotatedFunctions
<1>3. SecureJustified'
  BY <1>2, ReasonStays DEF SecureJustified
<1>4. QED BY <1>1, <1>3

\* Every step of the pass keeps the reasons of the function movers.
LEMMA MoverStep == IInv /\ MoverInv /\ [Next]_vars => MoverInv'
<1> SUFFICES ASSUME IInv, MoverInv, [Next]_vars, optName' \in MoverNames
             PROVE  (PendingMovers /\ OptimizerMovers /\ SecureJustified)'
  BY DEF MoverInv
<1>0. /\ TypeOK /\ IsProgram(program) /\ secure \subseteq secure' /\ program' = program
      /\ part["secure"] \in PartitionType /\ DOMAIN part = Sides
  BY ProgramIsWellFormed, EveryStepEffect DEF IInv, TypeOK, Sides, StepEffect
<1>a. optName' = optName
  BY DEF Next, vars, PartitionForAnnotation, ComputePartitions, RunFunctionsMoveTo,
         RunGlobalsMoveTo, RunDuplicateFunctions, RunStaticAnalysis, RunKL, RunILP,
         FinishRun, NextOptimization, ApplyFunctionsMoveTo, ApplyGlobalsMoveTo,
         ApplyStaticAnalysis, ApplyILP, ApplyKL, FinishApply, NextToApply
<1>b. PendingMovers /\ OptimizerMovers /\ SecureJustified
  BY <1>a DEF MoverInv
<1>c. ASSUME secure' = secure, optimizers' = optimizers
      PROVE  OptimizerMovers' /\ SecureJustified'
  BY <1>0, <1>b, <1>c, JustifiedGrowth
<1>d. ASSUME NEW k \in Kinds \ MoverKinds PROVE ~NextOptimization(k) /\ ~NextToApply(k)
  <2>1. ~NextOptimization(k)
    BY <1>0, <1>b DEF NextOptimization, PendingMovers, TypeOK
  <2>2. ~NextToApply(k)
    BY <1>0, <1>b DEF NextToApply, OptimizerMovers, TypeOK
  <2>3. QED BY <2>1, <2>2
<1>e. ASSUME NEW k \in Kinds, NextOptimization(k) PROVE PendingMovers'
  BY <1>0, <1>b, <1>e DEF NextOptimization, PendingMovers, TypeOK
<1>f. {"DUPLICATE_FUNCTIONS", "KERNIGHAN_LIN", "STATIC_ANALYSIS", "ILP"}
        \subseteq Kinds \ MoverKinds
  BY DEF Kinds, MoverKinds
<1>1. ASSUME NEW a \in todo, PartitionForAnnotation(a)
      PROVE  (PendingMovers /\ OptimizerMovers /\ SecureJustified)'
  <2>1. a \in program.annotations /\ AnnotationPartition(a).functions = {a.function}
    BY <1>0, AnnotationPartitionType DEF TypeOK
  <2>2. secure' = secure \cup {a.function}
    BY <1>0, <1>1, <2>1 DEF PartitionForAnnotation, AddToPartition, secure, Sides
  <2>3. a.function \in AnnotatedFunctions(program)
    BY <2>1 DEF AnnotatedFunctions
  <2>4. optimizers' = optimizers /\ pending' = pending
    BY <1>1 DEF PartitionForAnnotation
  <2>5. OptimizerMovers' /\ SecureJustified'
    BY <1>0, <1>b, <2>2, <2>3, <2>4, JustifiedGrowth
  <2>6. QED BY <1>b, <2>4, <2>5 DEF PendingMovers
<1>2. ASSUME ComputePartitions
      PROVE  (PendingMovers /\ OptimizerMovers /\ SecureJustified)'
  <2>1. WithInterfaces(WithGlobals(part["secure"])).functions = secure
    BY <1>0, WithInterfacesType, WithGlobalsType DEF secure
  <2>2. part'["secure"] = WithInterfaces(WithGlobals(part["secure"]))
    BY <1>2 DEF ComputePartitions, Sides
  <2>3. secure' = secure /\ optimizers' = optimizers
    BY <1>2, <2>1, <2>2 DEF ComputePartitions, secure
  <2>4. getOptimizations(optName) \in {<<"FUNCTIONS_MOVE_TO", "GLOBALS_MOVE_TO">>,
                                       <<"FUNCTIONS_MOVE_TO">>}
    BY <1>a, SMT DEF MoverNames, getOptimizations
  <2>5. optName # ""
    BY <1>a DEF MoverNames
  <2>6. pending' = getOptimizations(optName)
    BY <1>2, <2>5 DEF ComputePartitions
  <2>7. PendingMovers'
    BY <2>4, <2>6 DEF PendingMovers, MoverKinds
  <2>8. QED BY <1>c, <2>3, <2>7
<1>3. ASSUME RunFunctionsMoveTo
      PROVE  (PendingMovers /\ OptimizerMovers /\ SecureJustified)'
  <2> DEFINE o == Optimizer("FUNCTIONS_MOVE_TO", "secure", MovedTo(part["secure"]), {})
             q == Optimizer("FUNCTIONS_MOVE_TO", "insecure", MovedTo(part["insecure"]), {})
  <2>1. /\ optimizers' = optimizers \o <<o, q>>
        /\ secure' = secure
        /\ NextOptimization("FUNCTIONS_MOVE_TO")
    BY <1>3 DEF RunFunctionsMoveTo, secure
  <2>2. /\ o.kind \in MoverKinds /\ q.kind \in MoverKinds /\ q.side = "insecure"
        /\ o.functions = MovedTo(part["secure"])
    BY DEF Optimizer, MoverKinds
  <2> HIDE DEF o, q
  <2>3. OptimizerMovers'
    BY <1>0, <1>b, <2>1, <2>2, MoversAppended, MovedIsJustified
  <2>4. PendingMovers'
    BY <1>e, <2>1 DEF Kinds
  <2>5. SecureJustified'
    BY <1>0, <1>b, <2>1, ReasonStays DEF SecureJustified, AnnotatedFunctions
  <2>6. QED BY <2>3, <2>4, <2>5
<1>4. ASSUME RunGlobalsMoveTo
      PROVE  (PendingMovers /\ OptimizerMovers /\ SecureJustified)'
  <2> DEFINE o == Optimizer("GLOBALS_MOVE_TO", "secure", {}, OwnGlobals("secure"))
             q == Optimizer("GLOBALS_MOVE_TO", "insecure", {}, OwnGlobals("insecure"))
  <2>1. /\ optimizers' = optimizers \o <<o, q>>
        /\ secure' = secure
        /\ NextOptimization("GLOBALS_MOVE_TO")
    BY <1>4 DEF RunGlobalsMoveTo, secure
  <2>2. /\ o.kind \in MoverKinds /\ q.kind \in MoverKinds /\ q.side = "insecure"
        /\ o.functions = {}
    BY DEF Optimizer, MoverKinds
  <2> HIDE DEF o, q
  <2>3. OptimizerMovers'
    BY <1>0, <1>b, <2>1, <2>2, MoversAppended
  <2>4. PendingMovers'
    BY <1>e, <2>1 DEF Kinds
  <2>5. SecureJustified'
    BY <1>0, <1>b, <2>1, ReasonStays DEF SecureJustified, AnnotatedFunctions
  <2>6. QED BY <2>3, <2>4, <2>5
<1>5. ~(RunDuplicateFunctions \/ RunStaticAnalysis \/ RunKL \/ RunILP)
  BY <1>d, <1>f DEF RunDuplicateFunctions, RunStaticAnalysis, RunKL, RunILP
<1>6. ASSUME FinishRun
      PROVE  (PendingMovers /\ OptimizerMovers /\ SecureJustified)'
  <2>1. secure' = secure /\ optimizers' = optimizers /\ pending' = pending
    BY <1>6 DEF FinishRun, secure
  <2>2. QED BY <1>b, <1>c, <2>1 DEF PendingMovers
<1>7. ASSUME ApplyFunctionsMoveTo
      PROVE  (PendingMovers /\ OptimizerMovers /\ SecureJustified)'
  <2> DEFINE o == optimizers[cursor]
  <2>1. /\ cursor \in 1 .. Len(optimizers) /\ o \in OptimizerType
        /\ optimizers' = optimizers /\ pending' = pending
        /\ part' = [part EXCEPT ![o.side].functions = @ \cup o.functions]
    BY <1>0, <1>7 DEF ApplyFunctionsMoveTo, NextToApply, TypeOK
  <2>2. o.side = "secure" => \A f \in o.functions : MoveJustified(f)
    BY <1>b, <2>1 DEF OptimizerMovers
  <2> HIDE DEF o
  <2>3. \A f \in secure' \ secure : o.side = "secure" /\ f \in o.functions
    BY <1>0, <2>1 DEF OptimizerType, secure, Sides, PartitionType
  <2>4. OptimizerMovers' /\ SecureJustified'
    BY <1>0, <1>b, <2>1, <2>2, <2>3, JustifiedGrowth
  <2>5. QED BY <1>b, <2>1, <2>4 DEF PendingMovers
<1>8. ASSUME ApplyGlobalsMoveTo
      PROVE  (PendingMovers /\ OptimizerMovers /\ SecureJustified)'
  <2>1. /\ optimizers[cursor] \in OptimizerType
        /\ optimizers' = optimizers /\ pending' = pending
    BY <1>0, <1>8 DEF ApplyGlobalsMoveTo, NextToApply, TypeOK
  <2>2. secure' = secure
    BY <1>0, <1>8, <2>1 DEF ApplyGlobalsMoveTo, OptimizerType, secure, Sides, PartitionType
  <2>3. QED BY <1>b, <1>c, <2>1, <2>2 DEF PendingMovers
<1>9. ~(ApplyStaticAnalysis \/ ApplyILP \/ ApplyKL)
  BY <1>d, <1>f DEF ApplyStaticAnalysis, ApplyILP, ApplyKL
<1>10. ASSUME FinishApply
       PROVE  (PendingMovers /\ OptimizerMovers /\ SecureJustified)'
  <2>1. secureWins \in [Sides -> PartitionType] /\ secureWins["secure"].functions = secure
    BY <1>0, SecureWinsType DEF TypeOK
  <2>2. part'["secure"] = WithInterfaces(secureWins["secure"])
    BY <1>10 DEF FinishApply, Sides
  <2>3. secure' = secure /\ optimizers' = optimizers /\ pending' = pending
    BY <1>10, <2>1, <2>2, WithInterfacesType DEF FinishApply, secure, Sides
  <2>4. QED BY <1>b, <1>c, <2>3 DEF PendingMovers
<1>11. CASE UNCHANGED vars
  <2>1. secure' = secure /\ optimizers' = optimizers /\ pending' = pending
    BY <1>11 DEF vars, secure
  <2>2. QED BY <1>b, <1>c, <2>1 DEF PendingMovers
<1>12. QED
  BY <1>1, <1>2, <1>3, <1>4, <1>5, <1>6, <1>7, <1>8, <1>9, <1>10, <1>11 DEF Next

\* Nothing is moved, or waits to be, at the start.
LEMMA MoverInit == Init => MoverInv
<1> SUFFICES ASSUME Init PROVE MoverInv
  OBVIOUS
<1>1. secure = {} /\ Len(pending) = 0 /\ Len(optimizers) = 0
  BY DEF Init, secure, Sides, EmptyPartition
<1>2. QED BY <1>1 DEF MoverInv, PendingMovers, OptimizerMovers, SecureJustified

(***************************************************************************)
(* After a function move every ecall leads to an annotated function or to  *)
(* one the enclave calls in a loop: what FunctionsMoveToPartition adds for *)
(* being called from the enclave only is no entry point of it.             *)
(***************************************************************************)
THEOREM EntryPointsAreJustified == Spec => []EntryPointsJustified
<1>1. ASSUME IInv, MoverInv PROVE EntryPointsJustified
  <2> SUFFICES ASSUME phase = "done", optName \in {"local", "function-move"},
                      NEW f \in part["secure"].inInterface \ AnnotatedFunctions(program)
               PROVE  \E e \in secure : <<e, f>> \in program.loopCalls
    BY DEF EntryPointsJustified
  <2>1. part["secure"].inInterface = InInterface(program, secure)
    BY <1>1 DEF IInv, SplitInv, InterfacesCurrent, Sides, secure
  <2>2. f \in secure /\ \E c \in Functions \ secure : <<c, f>> \in program.calls
    BY <2>1 DEF InInterface
  <2>3. MoveJustified(f)
    BY <1>1, <2>2 DEF MoverInv, MoverNames, SecureJustified
  <2>4. QED BY <2>2, <2>3 DEF MoveJustified
<1>2. IInv /\ MoverInv => EntryPointsJustified
  BY <1>1
<1>3. IInv /\ MoverInv /\ [Next]_vars => (IInv /\ MoverInv)'
  BY IInvStep, MoverStep
<1>4. QED BY <1>2, <1>3, IInvInit, MoverInit, PTL DEF Spec
=============================================================================
