------------------------------ MODULE Partition ------------------------------
(***************************************************************************)
(* The value class `Partition` holds for one side of the split: its        *)
(* functions, the functions the static analysis found related to it with   *)
(* their distance ("level"), its two interfaces and the globals it         *)
(* references.  Also the pure functions of PartitionUtils and of           *)
(* PartitionGlobals, which compute interfaces and globals of a function    *)
(* set from the program dependence graph.                                  *)
(*                                                                         *)
(* A program is what the analyses read of the LLVM module and of its PDG:  *)
(*   declarations  functions without a body                                *)
(*   hasPDG        functions the PDG has a FunctionPDG for                 *)
(*   calls         <<caller, callee>> pairs with at least one call site    *)
(*   loopCalls     those with a call site inside a loop of the caller      *)
(*   uses          <<function, global>>: an edge of the global's PDG node  *)
(*                 leads to or from a node of the function                 *)
(*   annotations   the annotations, each with the functions its argument   *)
(*                 and return-value traversals reach                       *)
(***************************************************************************)
EXTENDS Integers

CONSTANTS
  Functions,   \* the functions of the module, declarations included
  Globals      \* its global variables

NotRelated == -1      \* what getFunctionRelationLevel returns for no entry

RelatedLevels == [Functions -> Nat \cup {NotRelated}]

PartitionType ==
  [functions    : SUBSET Functions,
   related      : RelatedLevels,
   inInterface  : SUBSET Functions,
   outInterface : SUBSET Functions,
   globals      : SUBSET Globals]

NoneRelated == [f \in Functions |-> NotRelated]

EmptyPartition ==
  [functions |-> {}, related |-> NoneRelated, inInterface |-> {},
   outInterface |-> {}, globals |-> {}]

RelatedFunctions(P) == {f \in Functions : P.related[f] # NotRelated}

\* Variant: a plain map insert, the first level stays.
MergeLevels_KeepsFirst(r, s) ==
  [f \in Functions |-> IF r[f] = NotRelated THEN s[f] ELSE r[f]]

(***************************************************************************)
(* addRelatedFunctions: an entry both sides have keeps the smaller level.  *)
(***************************************************************************)
MergeLevels(r, s) ==
  [f \in Functions |->
     CASE r[f] = NotRelated -> s[f]
       [] r[f] # NotRelated /\ s[f] # NotRelated /\ s[f] < r[f] -> s[f]
       [] OTHER -> r[f]]

(***************************************************************************)
(* removeRelatedFunction for every function of a set.                      *)
(***************************************************************************)
WithoutRelated(r, S) == [f \in Functions |-> IF f \in S THEN NotRelated ELSE r[f]]

(***************************************************************************)
(* addToPartition(const Partition&).                                       *)
(***************************************************************************)
AddToPartition(P, Q) ==
  [functions    |-> P.functions \cup Q.functions,
   related      |-> MergeLevels(P.related, Q.related),
   inInterface  |-> P.inInterface \cup Q.inInterface,
   outInterface |-> P.outInterface \cup Q.outInterface,
   globals      |-> P.globals \cup Q.globals]

\* Variant: callees inside the set count as leaving it.
OutInterface_WithInner(p, S) ==
  {f \in Functions : \E c \in S \cap p.hasPDG : <<c, f>> \in p.calls}

(***************************************************************************)
(* computeInInterface: a function of S with a call site in a function      *)
(* outside S.  computeOutInterface: a function outside S called from S.    *)
(***************************************************************************)
InInterface(p, S) ==
  {f \in S \cap p.hasPDG : \E c \in Functions \ S : <<c, f>> \in p.calls}

OutInterface(p, S) ==
  {f \in Functions \ S : \E c \in S \cap p.hasPDG : <<c, f>> \in p.calls}

ReferencedGlobals(p, S) == {g \in Globals : \E f \in S : <<f, g>> \in p.uses}

(***************************************************************************)
(* Well-formed programs.  A call site is an instruction of a body, so its  *)
(* caller is defined; the PDG has every defined function (the optimizer    *)
(* asserts it) and may have declarations; annotated functions are          *)
(* functions of the module; the traversals record defined functions only.  *)
(***************************************************************************)
IsProgram(p) ==
  /\ p.declarations \subseteq Functions
  /\ Functions \ p.declarations \subseteq p.hasPDG
  /\ p.hasPDG \subseteq Functions
  /\ p.calls \subseteq (Functions \ p.declarations) \X Functions
  /\ p.loopCalls \subseteq p.calls
  /\ p.uses \subseteq (Functions \ p.declarations) \X Globals
  /\ \A a \in p.annotations :
       /\ a.function \in Functions
       /\ {a.argRelated, a.retRelated} \subseteq RelatedLevels
       /\ \A f \in p.declarations :
            a.argRelated[f] = NotRelated /\ a.retRelated[f] = NotRelated

AnnotatedFunctions(p) == {a.function : a \in p.annotations}
=============================================================================
