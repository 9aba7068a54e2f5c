------------------------------ MODULE Traversal ------------------------------
(***************************************************************************)
(* PartitionForArguments and PartitionForReturnValue: how an annotation's  *)
(* related functions are found.  A worklist traversal of the program       *)
(* dependence graph, forward from each annotated argument and backward     *)
(* from the values stored on the way, or backward from the returns of the  *)
(* annotated function.  A function node met becomes a related function;    *)
(* its level counts the function boundaries crossed to reach it.           *)
(*                                                                         *)
(* The graph comes from the PDG library.  A node has                       *)
(*   Kind     "ignored" for constants and null nodes, "plain" for a node   *)
(*            that is no PDGLLVMNode                                       *)
(*   Parent   getParent(): the function it belongs to; a function node's   *)
(*            and a formal argument's is that function; a global variable  *)
(*            has none                                                     *)
(*   Value    getNodeValue()                                               *)
(*   Pointer  for arguments: of pointer type                               *)
(*   StoredValue  for a store: the node of its value operand, if the       *)
(*            annotated function's graph has one                           *)
(* Parallel edges are one edge here: visiting a node again only repeats    *)
(* what its first visit did.                                               *)
(***************************************************************************)
EXTENDS Integers, SequencesExt, FiniteSetsExt

CONSTANTS
  Functions, NoFunction,
  Declarations,          \* functions without a body
  WithPDG,               \* functions the PDG has a FunctionPDG for
  Annotated,             \* the annotated function
  Nodes, NoNode, Values, NoValue,
  Kind, Parent, Value, Pointer, StoredValue,
  EdgeSets,              \* the edges a graph over these nodes may have
  Annotations,           \* annotated formal argument nodes, return or not;
                         \* void: there is no return value
  Returns                \* the return instructions of Annotated

ASSUME GraphAssumption ==
  /\ NoFunction \notin Functions /\ NoNode \notin Nodes /\ NoValue \notin Values
  /\ Annotated \in Functions \ Declarations
  /\ Declarations \cup WithPDG \subseteq Functions
  /\ IsFiniteSet(Nodes)
  /\ Kind \in [Nodes -> {"instruction", "function", "formal", "actual",
                         "global", "plain", "ignored"}]
  /\ Parent \in [Nodes -> Functions \cup {NoFunction}]
  /\ Value \in [Nodes -> Values \cup {NoValue}]
  /\ Pointer \in [Nodes -> BOOLEAN]
  /\ StoredValue \in [Nodes -> Nodes \cup {NoNode}]
  /\ \A n \in Nodes :
       Kind[n] \in {"instruction", "function", "formal", "actual"}
         => Parent[n] \in Functions
  /\ EdgeSets \subseteq SUBSET (Nodes \X Nodes)

(***************************************************************************)
(* The annotated arguments and the returns are nodes of the annotated      *)
(* function; so is a stored value, unless it has no parent.                *)
(***************************************************************************)
ASSUME AnnotationsAssumption ==
  LET own == {n \in Nodes : Parent[n] = Annotated}
  IN  /\ Annotations \subseteq [arguments : Seq(own), onReturn : BOOLEAN,
                              void : BOOLEAN]
      /\ Returns \in Seq(own)
      /\ \A n \in Nodes :
           StoredValue[n] # NoNode
             => StoredValue[n] \in own \/ Parent[StoredValue[n]] = NoFunction

(***************************************************************************)
(* The library keeps one node per instruction: hasNode and getNode look it *)
(* up by its value.  A function node's value is its function.              *)
(***************************************************************************)
ASSUME ValuesAssumption ==
  /\ \A n, m \in Nodes :
       Kind[n] = "instruction" /\ Kind[m] = "instruction" /\ Value[n] = Value[m]
         => n = m \/ Value[n] = NoValue
  /\ \A n \in Nodes : Kind[n] = "function" => Value[n] # NoValue

(***************************************************************************)
(* The nodes reached from a set along a successor function.                *)
(***************************************************************************)
ReachFrom(S, next) ==
  LET R[k \in 0 .. Cardinality(Nodes)] ==
        IF k = 0 THEN S
        ELSE LET nearer == R[k - 1] IN nearer \cup UNION {next[n] : n \in nearer}
  IN  R[Cardinality(Nodes)]

(***************************************************************************)
(* Only instruction nodes are visited once, so that the argument           *)
(* traversals end only if every cycle of the graph passes one, or a node   *)
(* where traversal stops.  A function passing its own pointer argument     *)
(* on to itself would close such a cycle of argument nodes.                *)
(***************************************************************************)
EndlessKinds == {"formal", "actual", "global"}

CycleThroughArguments(E) ==
  \E S \in SUBSET {n \in Nodes : Kind[n] \in EndlessKinds} :
    S # {} /\ \A n \in S : \E m \in S : <<n, m>> \in E

ASSUME CyclesAssumption == \A E \in EdgeSets : ~CycleThroughArguments(E)

VARIABLES
  edges,       \* the edges of the graph
  annotation,  \* m_annotation
  pc,          \* where traverse() is
  arg,         \* the annotated argument it works on
  worklist,    \* forwardWorkingList or workingList; Head is its back()
  backward,    \* backwardWorkingList; its last element is its back()
  processed,   \* processed_values of the loop that runs
  levels,      \* m_functionLevels
  functions,   \* m_partition: its functions
  related      \* m_partition: its related functions

vars == <<edges, annotation, pc, arg, worklist, backward, processed,
          levels, functions, related>>

NoLevel == -1
Levels == [Functions -> Nat \cup {NoLevel}]

Init ==
  /\ edges \in EdgeSets
  /\ annotation \in Annotations
  /\ pc \in {"arguments", "returns"}
  /\ arg = 0
  /\ worklist = << >> /\ backward = << >>
  /\ processed = {}
  /\ levels = [f \in Functions |-> NoLevel]
  /\ functions = {}
  /\ related = [f \in Functions |-> NoLevel]

Defined(f) == f \in Functions \ Declarations

\* Variant: a new function gets the level of the current one.
updateFunctionLevels_NoHop(currentF, newFs) ==
  IF currentF = NoFunction \/ levels[currentF] = NoLevel THEN levels
  ELSE [f \in Functions |-> IF f \in newFs /\ levels[f] = NoLevel
                            THEN levels[currentF] ELSE levels[f]]

(***************************************************************************)
(* updateFunctionLevel for the parents of the nodes a visit pushes: a      *)
(* function first reached, or reached at a lower level, gets the level of  *)
(* the current function, one more if it is another.  Without a level for   *)
(* the current function nothing happens.                                   *)
(***************************************************************************)
updateFunctionLevels(currentF, newFs) ==
  IF currentF = NoFunction \/ levels[currentF] = NoLevel THEN levels
  ELSE [f \in Functions |->
          LET level == IF f = currentF THEN levels[f] ELSE levels[currentF] + 1
          IN  IF f \in newFs /\ (levels[f] = NoLevel \/ level < levels[f])
              THEN level ELSE levels[f]]

(***************************************************************************)
(* addRelatedFunction for a set of functions, each with the level lv has   *)
(* for it: an entry the partition already has stays.                       *)
(***************************************************************************)
addRelated(F, lv) ==
  [f \in Functions |-> IF f \in F /\ related[f] = NoLevel THEN lv[f] ELSE related[f]]

InsertLevelZero ==
  levels' = [levels EXCEPT ![Annotated] = IF @ = NoLevel THEN 0 ELSE @]

(***************************************************************************)
(* canPartition of the two classes.                                        *)
(***************************************************************************)
CanPartitionArguments ==
  /\ annotation.arguments # << >>
  /\ Annotated \in WithPDG
  /\ \A k \in 1 .. Len(annotation.arguments) : Pointer[annotation.arguments[k]]

CanPartitionReturn ==
  annotation.onReturn /\ ~annotation.void /\ Annotated \in WithPDG

Refuse ==
  /\ \/ pc = "arguments" /\ ~CanPartitionArguments
     \/ pc = "returns" /\ ~CanPartitionReturn
  /\ pc' = "done"
  /\ UNCHANGED <<edges, annotation, arg, worklist, backward, processed,
                 levels, functions, related>>

StartArguments ==
  /\ pc = "arguments"
  /\ CanPartitionArguments
  /\ functions' = {Annotated}
  /\ pc' = "nextArgument"
  /\ UNCHANGED <<edges, annotation, arg, worklist, backward, processed, levels, related>>

StartReturns ==
  /\ pc = "returns"
  /\ CanPartitionReturn
  /\ InsertLevelZero
  /\ functions' = {Annotated}
  /\ worklist' = Reverse(Returns)
  /\ pc' = "return"
  /\ UNCHANGED <<edges, annotation, arg, backward, processed, related>>

(***************************************************************************)
(* The loop of PartitionForArguments::traverse: a forward traversal from   *)
(* the next argument, a backward one from what it collected, and so on.    *)
(***************************************************************************)
StartForward ==
  /\ pc = "nextArgument"
  /\ arg < Len(annotation.arguments)
  /\ arg' = arg + 1
  /\ InsertLevelZero
  /\ worklist' = <<annotation.arguments[arg + 1]>>
  /\ backward' = << >>
  /\ processed' = {}
  /\ pc' = "forward"
  /\ UNCHANGED <<edges, annotation, functions, related>>

StartBackward ==
  /\ pc = "forward"
  /\ worklist = << >>
  /\ worklist' = Reverse(backward)
  /\ backward' = << >>
  /\ processed' = {}
  /\ pc' = "backward"
  /\ UNCHANGED <<edges, annotation, arg, levels, functions, related>>

Finish ==
  /\ \/ pc = "backward" /\ worklist = << >> /\ pc' = "nextArgument"
     \/ pc = "nextArgument" /\ arg = Len(annotation.arguments) /\ pc' = "done"
     \/ pc = "return" /\ worklist = << >> /\ pc' = "done"
  /\ UNCHANGED <<edges, annotation, arg, worklist, backward, processed,
                 levels, functions, related>>

Visiting == pc \in {"forward", "backward", "return"} /\ worklist # << >>
node == Head(worklist)

\* Variant: every node is visited once for its value, not only instructions.
Deduplicated_All(n) == Value[n] # NoValue

(***************************************************************************)
(* Nodes visited once: instructions, and in the return traversal every     *)
(* node that has a value.                                                  *)
(***************************************************************************)
Deduplicated(n) ==
  /\ Value[n] # NoValue
  /\ pc = "return" \/ Kind[n] = "instruction"

Dropped(n) ==
  \/ Kind[n] = "plain"
  \/ Value[n] = NoValue /\ pc # "return"
  \/ Deduplicated(n) /\ Value[n] \in processed

\* Variant: `continue' before the node is popped.
DropNode_NotPopped ==
  /\ Visiting
  /\ Dropped(node)
  /\ UNCHANGED vars

DropNode ==
  /\ Visiting
  /\ Dropped(node)
  /\ worklist' = Tail(worklist)
  /\ UNCHANGED <<edges, annotation, pc, arg, backward, processed,
                 levels, functions, related>>

MarkProcessed ==
  processed' = IF Deduplicated(node) THEN processed \cup {Value[node]} ELSE processed

(***************************************************************************)
(* A function node ends its branch.  assert(false) where no level is known.*)
(***************************************************************************)
VisitFunctionNode ==
  LET F == Parent[node]
      relates == Defined(F) /\ F # Annotated
  IN  /\ Visiting
      /\ ~Dropped(node)
      /\ Kind[node] = "function"
      /\ MarkProcessed
      /\ worklist' = Tail(worklist)
      /\ IF relates /\ levels[F] = NoLevel
         THEN pc' = "aborted" /\ UNCHANGED related
         ELSE /\ related' = IF relates THEN addRelated({F}, levels) ELSE related
              /\ UNCHANGED pc
      /\ UNCHANGED <<edges, annotation, arg, backward, levels, functions>>

Neighbours(n) ==
  IF pc = "forward" THEN {m \in Nodes : <<n, m>> \in edges}
                    ELSE {m \in Nodes : <<m, n>> \in edges}

canProcess(n) == {m \in Neighbours(n) : Kind[m] # "ignored"}

(***************************************************************************)
(* collectNodesForActualArg: the formal arguments a pointer argument is    *)
(* passed to; their functions are related at once.                         *)
(***************************************************************************)
CalleeFormals(n) ==
  IF pc = "forward" /\ Kind[n] = "actual" /\ Pointer[n]
  THEN {m \in Neighbours(n) : Kind[m] = "formal" /\ Parent[m] \in WithPDG}
  ELSE {}

(***************************************************************************)
(* Any other node: its neighbours are pushed, and a stored value is kept   *)
(* for the backward traversal.  lvRelated are the levels addRelatedFunction*)
(* finds for the callees of an argument.                                   *)
(***************************************************************************)
VisitWith(lv, lvRelated) ==
  LET callees == {f \in {Parent[m] : m \in CalleeFormals(node)} : Defined(f)}
  IN  /\ Visiting
      /\ ~Dropped(node)
      /\ Kind[node] # "function"
      /\ MarkProcessed
      /\ backward' = IF pc = "forward" /\ StoredValue[node] # NoNode
                     THEN Append(backward, StoredValue[node]) ELSE backward
      /\ \E formals \in SetToSeqs(CalleeFormals(node)),
            next \in SetToSeqs(canProcess(node)) :
           worklist' = Tail(worklist) \o formals \o next
      /\ levels' = lv
      /\ IF \E f \in callees : lvRelated[f] = NoLevel
         THEN pc' = "aborted" /\ UNCHANGED related
         ELSE related' = addRelated(callees, lvRelated) /\ UNCHANGED pc
      /\ UNCHANGED <<edges, annotation, arg, functions>>

ReachedFunctions == {Parent[m] : m \in canProcess(node)}

\* Variant: a callee is related before its level is updated.
VisitNode_LateLevels ==
  VisitWith(updateFunctionLevels(Parent[node], ReachedFunctions), levels)

VisitNode ==
  LET lv == updateFunctionLevels(Parent[node], ReachedFunctions)
  IN  VisitWith(lv, lv)

Next ==
  \/ Refuse \/ StartArguments \/ StartReturns
  \/ StartForward \/ StartBackward \/ Finish
  \/ DropNode \/ VisitFunctionNode \/ VisitNode

Spec == Init /\ [][Next]_vars

(***************************************************************************)
(* The traversal is a loop of one thread: it is never suspended for ever.  *)
(***************************************************************************)
FairSpec == Spec /\ WF_vars(Next)

(***************************************************************************)
(* Properties                                                              *)
(***************************************************************************)
TypeOK ==
  /\ edges \in EdgeSets /\ annotation \in Annotations
  /\ pc \in {"arguments", "returns", "nextArgument", "forward", "backward",
             "return", "done", "aborted"}
  /\ arg \in 0 .. Len(annotation.arguments)
  /\ worklist \in Seq(Nodes) /\ backward \in Seq(Nodes)
  /\ processed \subseteq Values
  /\ levels \in Levels /\ related \in Levels
  /\ functions \subseteq {Annotated}

(***************************************************************************)
(* A level counts function boundaries crossed on the way from the          *)
(* annotated function: it is 0 there, and any other function has a         *)
(* dependence on a function of lower level.  A recorded level is never     *)
(* below the current one (it may stay above it: the first one is kept).    *)
(***************************************************************************)
LevelsJustified ==
  /\ levels[Annotated] \in {0, NoLevel}
  /\ \A f \in Functions \ {Annotated} : levels[f] # NoLevel =>
       \E e \in edges : \E n, m \in {e[1], e[2]} :
         /\ Parent[n] \in Functions /\ Parent[m] = f
         /\ levels[Parent[n]] \in 0 .. levels[f] - 1
  /\ \A f \in Functions : related[f] # NoLevel => related[f] >= levels[f]

(***************************************************************************)
(* assert(false) of addRelatedFunction is out of reach as long as every    *)
(* node of the graph belongs to a function.                                *)
(***************************************************************************)
NoParentless == \A n \in Nodes : Parent[n] # NoFunction

AssertionsHold == NoParentless => pc # "aborted"

(***************************************************************************)
(* What the traversals must find, defined without a worklist: the function *)
(* nodes reachable forward from the annotated arguments, the callees their *)
(* pointers are passed to, and the function nodes reachable backward from  *)
(* the values stored on the way; or those reachable backward from the      *)
(* returns.  The return traversal visits one node per value, so that it    *)
(* finds all of them only where no two of the nodes share one.             *)
(***************************************************************************)
Expands(n) == Kind[n] \notin {"plain", "function"} /\ Value[n] # NoValue

Forth == [n \in Nodes |->
  {m \in Nodes : <<n, m>> \in edges /\ Expands(n) /\ Kind[m] # "ignored"}]

Back == [n \in Nodes |->
  {m \in Nodes : <<m, n>> \in edges /\ Expands(n) /\ Kind[m] # "ignored"}]

\* The return traversal goes on from a node without a value, too.
BackFromReturn == [n \in Nodes |->
  {m \in Nodes : /\ <<m, n>> \in edges /\ Kind[m] # "ignored"
                 /\ Kind[n] \notin {"plain", "function"}}]

FunctionsOf(S) ==
  {f \in Functions \ {Annotated} : Defined(f) /\ \E n \in S : Kind[n] = "function" /\ Parent[n] = f}

PassedTo(S) ==
  {f \in Functions : /\ Defined(f) /\ f \in WithPDG
                     /\ \E n \in S, m \in Nodes :
                          /\ Kind[n] = "actual" /\ Pointer[n] /\ m \in Forth[n]
                          /\ Kind[m] = "formal" /\ Parent[m] = f}

ForwardReach == ReachFrom({annotation.arguments[k] : k \in 1 .. arg}, Forth)

StoredIn(S) == {StoredValue[n] : n \in {m \in S : Expands(m)}} \ {NoNode}

FromArguments ==
  FunctionsOf(ForwardReach) \cup PassedTo(ForwardReach)
    \cup FunctionsOf(ReachFrom(StoredIn(ForwardReach), Back))

ReturnReach == ReachFrom({Returns[k] : k \in 1 .. Len(Returns)}, BackFromReturn)

DistinctValues(S) ==
  \A n, m \in S : Value[n] # NoValue /\ (Value[n] = Value[m]) => n = m

RelatedFunctions == {f \in Functions : related[f] # NoLevel}

FindsAllReachable ==
  pc = "done" /\ functions # {} =>
    IF arg > 0 THEN RelatedFunctions = FromArguments
    ELSE DistinctValues(ReturnReach) => RelatedFunctions = FunctionsOf(ReturnReach)

Termination == <>(pc \in {"done", "aborted"})
=============================================================================
