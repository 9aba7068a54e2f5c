--------------------------- MODULE TraversalProofs ---------------------------
(***************************************************************************)
(* Machine-checked facts about the traversals, for every dependence graph  *)
(* and every annotation: type correctness; that the assertion of           *)
(* addRelatedFunction holds whenever every node has a parent function;     *)
(* that every level is justified by an edge to a function of lower level;  *)
(* and that a finished traversal found exactly what is reachable.          *)
(*                                                                         *)
(* The arguments: a node enters a worklist only when a node of a levelled  *)
(* function pushes it, and pushing it gives its parent a level; levels are *)
(* lowered but never taken back.  For what is found, the nodes visited so  *)
(* far (which the code does not record) and the nodes that wait are        *)
(* together everything needed, and no more.                                *)
(***************************************************************************)
EXTENDS Traversal, FiniteSetTheorems, WellFoundedInduction, TLAPS

(***************************************************************************)
(* The orders in which a finite set may be pushed are sequences over it.   *)
(***************************************************************************)
LEMMA OrdersAreSequences ==
  ASSUME NEW S \in SUBSET Nodes, NEW s \in SetToSeqs(S)
  PROVE  s \in Seq(S)
<1>1. Cardinality(S) \in Nat
  BY GraphAssumption, FS_Subset, FS_CardinalityType
<1>2. s \in [1 .. Cardinality(S) -> S]
  BY DEF SetToSeqs
<1>3. QED BY <1>1, <1>2

\* Reversing a list keeps its elements.
LEMMA ReverseIsSequence ==
  ASSUME NEW S, NEW s \in Seq(S) PROVE Reverse(s) \in Seq(S)
  BY DEF Reverse

(***************************************************************************)
(* updateFunctionLevel keeps levels typed, and a known level stays known;  *)
(* from a levelled function every function reached gets a level.           *)
(***************************************************************************)
LEMMA LevelsAfterUpdate ==
  ASSUME levels \in Levels, NEW c \in Functions \cup {NoFunction}, NEW F,
         NoFunction \notin Functions
  PROVE  LET lv == updateFunctionLevels(c, F)
         IN  /\ lv \in Levels
             /\ \A f \in Functions : levels[f] # NoLevel => lv[f] # NoLevel
             /\ c \in Functions /\ levels[c] # NoLevel
                  => \A f \in F \cap Functions : lv[f] # NoLevel
<1> DEFINE lv == updateFunctionLevels(c, F)
<1>0. \A f \in Functions : levels[f] \in Nat \cup {-1}
  BY DEF Levels, NoLevel
<1>1. CASE c = NoFunction \/ levels[c] = NoLevel
  BY <1>1 DEF updateFunctionLevels
<1>2. CASE c \in Functions /\ levels[c] # NoLevel
  <2> DEFINE L(f) == IF f = c THEN levels[f] ELSE levels[c] + 1
  <2>1. lv = [f \in Functions |->
                IF f \in F /\ (levels[f] = NoLevel \/ L(f) < levels[f])
                THEN L(f) ELSE levels[f]]
    BY <1>2 DEF updateFunctionLevels
  <2>2. \A f \in Functions : L(f) \in Nat
    BY <1>0, <1>2 DEF NoLevel
  <2> HIDE DEF L, lv
  <2>3. \A f \in Functions : lv[f] \in Nat \cup {-1} /\ (lv[f] = -1 => levels[f] = -1 /\ f \notin F)
    BY <1>0, <2>1, <2>2 DEF NoLevel
  <2>4. lv \in Levels
    BY <2>1, <2>3 DEF Levels, NoLevel
  <2>5. QED BY <2>3, <2>4 DEF lv, NoLevel
<1>3. QED BY <1>1, <1>2

\* Relating functions keeps the entries levels.
LEMMA RelatedAfterAdd ==
  ASSUME related \in Levels, NEW F, NEW lv \in Levels
  PROVE  addRelated(F, lv) \in Levels
  BY DEF addRelated, Levels

(***************************************************************************)
(* Facts about the constants in the shape the proofs use.                  *)
(***************************************************************************)
LEMMA NodeFacts ==
  /\ NoFunction \notin Functions
  /\ Annotated \in Functions
  /\ \A n \in Nodes : /\ Parent[n] \in Functions \cup {NoFunction}
                      /\ Value[n] \in Values \cup {NoValue}
                      /\ StoredValue[n] \in Nodes \cup {NoNode}
                      /\ Kind[n] = "function" => Parent[n] \in Functions
  BY GraphAssumption

LEMMA PushedAreNodes ==
  \A n : /\ canProcess(n) \in SUBSET Nodes
         /\ CalleeFormals(n) \in SUBSET canProcess(n)
  BY DEF canProcess, CalleeFormals, Neighbours

(***************************************************************************)
(* Type correctness.                                                       *)
(***************************************************************************)
\* The annotated arguments are nodes of the annotated function.
LEMMA ArgumentsOwned ==
  ASSUME TypeOK
  PROVE  annotation.arguments \in Seq({n \in Nodes : Parent[n] = Annotated})
<1> DEFINE Lists == Seq({n \in Nodes : Parent[n] = Annotated})
<1>1. annotation \in [arguments : Lists, onReturn : BOOLEAN, void : BOOLEAN]
  BY AnnotationsAssumption DEF TypeOK
<1> HIDE DEF Lists
<1>2. annotation.arguments \in Lists
  BY <1>1
<1>3. QED BY <1>2 DEF Lists

LEMMA TypeInit == Init => TypeOK
<1> SUFFICES ASSUME Init PROVE TypeOK
  OBVIOUS
<1>1. annotation.arguments \in Seq({n \in Nodes : Parent[n] = Annotated})
  BY AnnotationsAssumption DEF Init
<1>2. [f \in Functions |-> NoLevel] \in Levels
  BY DEF Levels
<1>3. QED BY <1>1, <1>2 DEF Init, TypeOK

LEMMA TypeVisitNode == TypeOK /\ VisitNode => TypeOK'
<1> SUFFICES ASSUME TypeOK, VisitNode PROVE TypeOK'
  OBVIOUS
<1> DEFINE lv == updateFunctionLevels(Parent[node], ReachedFunctions)
<1>1. worklist \in Seq(Nodes) /\ worklist # << >> /\ node \in Nodes
  BY DEF TypeOK, VisitNode, VisitWith, Visiting, node
<1>2. lv \in Levels
  BY <1>1, NodeFacts, LevelsAfterUpdate DEF TypeOK
<1>3. PICK formals \in SetToSeqs(CalleeFormals(node)), next \in SetToSeqs(canProcess(node)) :
        worklist' = Tail(worklist) \o formals \o next
  BY DEF VisitNode, VisitWith
<1>4. formals \in Seq(Nodes) /\ next \in Seq(Nodes)
  <2>1. CalleeFormals(node) \in SUBSET Nodes /\ canProcess(node) \in SUBSET Nodes
    BY PushedAreNodes
  <2>2. formals \in Seq(CalleeFormals(node)) /\ next \in Seq(canProcess(node))
    BY <2>1, OrdersAreSequences
  <2>3. QED BY <2>1, <2>2
<1>5. worklist' \in Seq(Nodes)
  BY <1>1, <1>3, <1>4
<1>6. backward' \in Seq(Nodes)
  BY <1>1, NodeFacts DEF TypeOK, VisitNode, VisitWith
<1>7. processed' \subseteq Values
  BY <1>1, NodeFacts DEF TypeOK, VisitNode, VisitWith, MarkProcessed, Deduplicated
<1>8. levels' \in Levels /\ related' \in Levels
  <2>1. levels' = lv
    BY DEF VisitNode, VisitWith
  <2>2. related' = related \/ \E F : related' = addRelated(F, lv)
    BY DEF VisitNode, VisitWith
  <2>3. QED BY <1>2, <2>1, <2>2, RelatedAfterAdd DEF TypeOK
<1>9. /\ pc' \in {pc, "aborted"} /\ UNCHANGED <<edges, annotation, arg, functions>>
  BY DEF VisitNode, VisitWith
<1>10. QED BY <1>5, <1>6, <1>7, <1>8, <1>9 DEF TypeOK

LEMMA TypeVisitFunctionNode == TypeOK /\ VisitFunctionNode => TypeOK'
<1> SUFFICES ASSUME TypeOK, VisitFunctionNode PROVE TypeOK'
  OBVIOUS
<1>1. worklist \in Seq(Nodes) /\ worklist # << >> /\ node \in Nodes
  BY DEF TypeOK, VisitFunctionNode, Visiting, node
<1>2. worklist' \in Seq(Nodes)
  BY <1>1 DEF VisitFunctionNode
<1>3. processed' \subseteq Values
  BY <1>1, NodeFacts DEF TypeOK, VisitFunctionNode, MarkProcessed, Deduplicated
<1>4. related' \in Levels
  <2>1. related' = related \/ \E F : related' = addRelated(F, levels)
    BY DEF VisitFunctionNode
  <2>2. QED BY <2>1, RelatedAfterAdd DEF TypeOK
<1>5. /\ pc' \in {pc, "aborted"}
      /\ UNCHANGED <<edges, annotation, arg, backward, levels, functions>>
  BY DEF VisitFunctionNode
<1>6. QED BY <1>2, <1>3, <1>4, <1>5 DEF TypeOK

(***************************************************************************)
(* The other steps only start, end or drop.                                *)
(***************************************************************************)
LEMMA TypeStep == TypeOK /\ [Next]_vars => TypeOK'
<1> SUFFICES ASSUME TypeOK, [Next]_vars PROVE TypeOK'
  OBVIOUS
<1>0. /\ annotation.arguments \in Seq(Nodes) /\ Returns \in Seq(Nodes)
      /\ worklist \in Seq(Nodes) /\ backward \in Seq(Nodes)
      /\ levels \in Levels /\ Annotated \in Functions
  BY AnnotationsAssumption, NodeFacts DEF TypeOK
<1>1. InsertLevelZero => levels' \in Levels
  BY <1>0 DEF InsertLevelZero, Levels, NoLevel
<1>2. CASE Refuse
  BY <1>2 DEF Refuse, TypeOK
<1>3. CASE StartArguments
  BY <1>3 DEF StartArguments, TypeOK
<1>4. CASE StartReturns
  <2>1. Reverse(Returns) \in Seq(Nodes)
    BY <1>0, ReverseIsSequence
  <2>2. QED BY <1>1, <1>4, <2>1 DEF StartReturns, TypeOK
<1>5. CASE StartForward
  <2>1. arg' \in 0 .. Len(annotation'.arguments) /\ worklist' \in Seq(Nodes)
    BY <1>0, <1>5 DEF StartForward, TypeOK
  <2>2. QED BY <1>1, <1>5, <2>1 DEF StartForward, TypeOK
<1>6. CASE StartBackward
  <2>1. Reverse(backward) \in Seq(Nodes)
    BY <1>0, ReverseIsSequence
  <2>2. QED BY <1>6, <2>1 DEF StartBackward, TypeOK
<1>7. CASE Finish
  BY <1>7 DEF Finish, TypeOK
<1>8. CASE DropNode
  <2>1. worklist' \in Seq(Nodes)
    BY <1>0, <1>8 DEF DropNode, Visiting
  <2>2. QED BY <1>8, <2>1 DEF DropNode, TypeOK
<1>9. CASE VisitFunctionNode
  BY <1>9, TypeVisitFunctionNode
<1>10. CASE VisitNode
  BY <1>10, TypeVisitNode
<1>11. CASE UNCHANGED vars
  BY <1>11 DEF vars, TypeOK
<1>12. QED BY <1>2, <1>3, <1>4, <1>5, <1>6, <1>7, <1>8, <1>9, <1>10, <1>11 DEF Next

(***************************************************************************)
(* Every variable of the traversals keeps its type, for every graph.       *)
(***************************************************************************)
THEOREM TraversalTypeCorrect == Spec => []TypeOK
  BY TypeInit, TypeStep, PTL DEF Spec

(***************************************************************************)
(* The strengthening: whatever waits in a worklist belongs to a levelled   *)
(* function.                                                               *)
(***************************************************************************)
Levelled(n) == levels[Parent[n]] # NoLevel

WaitingLevelled ==
  /\ pc # "aborted"
  /\ pc \in {"forward", "backward", "return"} => levels[Annotated] # NoLevel
  /\ \A k \in 1 .. Len(worklist) : Levelled(worklist[k])
  /\ \A k \in 1 .. Len(backward) : Levelled(backward[k])

LevelInv == TypeOK /\ (NoParentless => WaitingLevelled)

(***************************************************************************)
(* Levels are never taken back, so that what was levelled stays so.        *)
(***************************************************************************)
LevelsKept == \A f \in Functions : levels[f] # NoLevel => levels'[f] # NoLevel

LEMMA StillLevelled ==
  ASSUME TypeOK, NoParentless, WaitingLevelled, LevelsKept
  PROVE  /\ \A k \in 1 .. Len(worklist) : levels'[Parent[worklist[k]]] # NoLevel
         /\ \A k \in 1 .. Len(backward) : levels'[Parent[backward[k]]] # NoLevel
<1>1. /\ \A k \in 1 .. Len(worklist) : worklist[k] \in Nodes
      /\ \A k \in 1 .. Len(backward) : backward[k] \in Nodes
  BY DEF TypeOK
<1>2. \A n \in Nodes : Parent[n] \in Functions
  BY NodeFacts DEF NoParentless
<1>3. QED BY <1>1, <1>2 DEF WaitingLevelled, Levelled, LevelsKept

\* Popping the head leaves elements of the list.
LEMMA TailElements ==
  ASSUME NEW S, NEW s \in Seq(S), s # << >>
  PROVE  /\ Tail(s) \in Seq(S) /\ Len(Tail(s)) = Len(s) - 1
         /\ \A k \in 1 .. Len(Tail(s)) : k + 1 \in 1 .. Len(s) /\ Tail(s)[k] = s[k + 1]
  OBVIOUS

\* Annotating a level zero takes no level back and levels the annotated function.
LEMMA LevelZeroKeeps ==
  ASSUME TypeOK, InsertLevelZero
  PROVE  LevelsKept /\ levels'[Annotated] # NoLevel
  BY NodeFacts DEF TypeOK, Levels, InsertLevelZero, LevelsKept, NoLevel

(***************************************************************************)
(* Visiting a node levels every function it pushes a node of, before any   *)
(* of them is related.                                                     *)
(***************************************************************************)
LEMMA VisitNodeLevels ==
  ASSUME TypeOK, NoParentless, WaitingLevelled, VisitNode
  PROVE  WaitingLevelled'
<1> DEFINE lv == updateFunctionLevels(Parent[node], ReachedFunctions)
<1>1. /\ worklist \in Seq(Nodes) /\ worklist # << >>
      /\ 1 \in 1 .. Len(worklist) /\ node = worklist[1] /\ node \in Nodes
      /\ pc \in {"forward", "backward", "return"}
  BY DEF TypeOK, VisitNode, VisitWith, Visiting, node
<1>2. \A n \in Nodes : Parent[n] \in Functions
  BY NodeFacts DEF NoParentless
<1>3. levels[Parent[node]] # NoLevel /\ Parent[node] \in Functions
  BY <1>1, <1>2 DEF WaitingLevelled, Levelled
<1>4. /\ levels' = lv
      /\ \A f \in Functions : levels[f] # NoLevel => lv[f] # NoLevel
      /\ \A f \in ReachedFunctions \cap Functions : lv[f] # NoLevel
  <2>1. levels' = lv
    BY DEF VisitNode, VisitWith
  <2>2. QED BY <1>3, <2>1, NodeFacts, LevelsAfterUpdate DEF TypeOK
<1> HIDE DEF lv
<1>5. \A n \in canProcess(node) : n \in Nodes /\ lv[Parent[n]] # NoLevel
  <2>1. TAKE n \in canProcess(node)
  <2>2. n \in Nodes /\ Parent[n] \in ReachedFunctions
    BY PushedAreNodes DEF ReachedFunctions
  <2>3. QED BY <1>2, <1>4, <2>2
<1>6. PICK formals \in SetToSeqs(CalleeFormals(node)), next \in SetToSeqs(canProcess(node)) :
        worklist' = Tail(worklist) \o formals \o next
  BY DEF VisitNode, VisitWith
<1>7. formals \in Seq(canProcess(node)) /\ next \in Seq(canProcess(node))
  <2>1. /\ CalleeFormals(node) \in SUBSET canProcess(node)
        /\ canProcess(node) \in SUBSET Nodes
    BY PushedAreNodes
  <2>2. formals \in Seq(CalleeFormals(node)) /\ next \in Seq(canProcess(node))
    BY <2>1, OrdersAreSequences
  <2>3. QED BY <2>1, <2>2
<1>8. LevelsKept
  BY <1>4 DEF LevelsKept
<1>9. \A k \in 1 .. Len(worklist') : levels'[Parent[worklist'[k]]] # NoLevel
  <2> DEFINE t == Tail(worklist)
  <2>1. t \in Seq(Nodes) /\ \A k \in 1 .. Len(t) : k + 1 \in 1 .. Len(worklist) /\ t[k] = worklist[k + 1]
    BY <1>1, TailElements
  <2>2. \A k \in 1 .. Len(t) : levels'[Parent[t[k]]] # NoLevel
    BY <2>1, <1>8, StillLevelled
  <2>3. /\ \A k \in 1 .. Len(formals) : levels'[Parent[formals[k]]] # NoLevel
        /\ \A k \in 1 .. Len(next) : levels'[Parent[next[k]]] # NoLevel
    BY <1>4, <1>5, <1>7
  <2>4. formals \in Seq(Nodes) /\ next \in Seq(Nodes)
    BY <1>7, PushedAreNodes
  <2> HIDE DEF t
  <2>5. \A k \in 1 .. Len(t \o formals) : levels'[Parent[(t \o formals)[k]]] # NoLevel
    BY <2>1, <2>2, <2>3, <2>4
  <2>6. t \o formals \in Seq(Nodes)
    BY <2>1, <2>4
  <2>7. \A k \in 1 .. Len(t \o formals \o next) :
          levels'[Parent[(t \o formals \o next)[k]]] # NoLevel
    BY <2>3, <2>4, <2>5, <2>6
  <2>8. QED BY <1>6, <2>7 DEF t
<1>10. \A k \in 1 .. Len(backward') : levels'[Parent[backward'[k]]] # NoLevel
  <2>1. \A k \in 1 .. Len(backward) : levels'[Parent[backward[k]]] # NoLevel
    BY <1>8, StillLevelled
  <2>2. CASE backward' = backward
    BY <2>1, <2>2
  <2>3. CASE StoredValue[node] # NoNode /\ backward' = Append(backward, StoredValue[node])
    <3>1. StoredValue[node] \in Nodes /\ Parent[StoredValue[node]] = Annotated
      BY <1>1, <1>2, <2>3, NodeFacts, AnnotationsAssumption DEF NoParentless
    <3>2. levels'[Annotated] # NoLevel
      BY <1>1, <1>8, NodeFacts DEF WaitingLevelled, LevelsKept
    <3>3. backward \in Seq(Nodes)
      BY DEF TypeOK
    <3>4. QED BY <2>1, <2>3, <3>1, <3>2, <3>3
  <2>4. QED BY <2>2, <2>3 DEF VisitNode, VisitWith
<1>11. pc' = pc
  <2>1. \A f \in {Parent[m] : m \in CalleeFormals(node)} : lv[f] # NoLevel
    BY <1>5, PushedAreNodes
  <2>2. QED BY <2>1 DEF VisitNode, VisitWith, lv
<1>12. levels'[Annotated] # NoLevel
  BY <1>1, <1>8, NodeFacts DEF WaitingLevelled, LevelsKept
<1>13. QED BY <1>9, <1>10, <1>11, <1>12 DEF WaitingLevelled, Levelled

(***************************************************************************)
(* A function node's own function is levelled when the node is visited.    *)
(***************************************************************************)
LEMMA VisitFunctionNodeLevels ==
  ASSUME TypeOK, NoParentless, WaitingLevelled, VisitFunctionNode
  PROVE  WaitingLevelled'
<1>1. /\ worklist \in Seq(Nodes) /\ worklist # << >>
      /\ 1 \in 1 .. Len(worklist) /\ node = worklist[1]
  BY DEF TypeOK, VisitFunctionNode, Visiting, node
<1>2. levels[Parent[node]] # NoLevel
  BY <1>1 DEF WaitingLevelled, Levelled
<1>3. pc' = pc /\ UNCHANGED <<backward, levels>> /\ worklist' = Tail(worklist)
  BY <1>2 DEF VisitFunctionNode
<1>4. QED BY <1>1, <1>3, TailElements DEF WaitingLevelled, Levelled

(***************************************************************************)
(* The invariant is inductive.                                             *)
(***************************************************************************)
LEMMA LevelInvStep == LevelInv /\ [Next]_vars => LevelInv'
<1> SUFFICES ASSUME TypeOK, NoParentless => WaitingLevelled, [Next]_vars, NoParentless
             PROVE  WaitingLevelled'
  BY TypeStep DEF LevelInv, NoParentless
<1>0. /\ WaitingLevelled
      /\ worklist \in Seq(Nodes) /\ backward \in Seq(Nodes)
      /\ \A n \in Nodes : Parent[n] = Annotated => n \in Nodes
  BY DEF TypeOK
<1>1. CASE Refuse
  BY <1>0, <1>1 DEF Refuse, WaitingLevelled, Levelled
<1>2. CASE StartArguments
  BY <1>0, <1>2 DEF StartArguments, WaitingLevelled, Levelled
<1>3. CASE StartReturns
  <2>1. LevelsKept /\ levels'[Annotated] # NoLevel
    BY <1>3, LevelZeroKeeps DEF StartReturns
  <2>2. Returns \in Seq({n \in Nodes : Parent[n] = Annotated})
    BY AnnotationsAssumption
  <2>3. Reverse(Returns) \in Seq({n \in Nodes : Parent[n] = Annotated})
    BY <2>2, ReverseIsSequence
  <2>4. \A k \in 1 .. Len(worklist') : Parent[worklist'[k]] = Annotated
    BY <1>3, <2>3 DEF StartReturns
  <2>5. \A k \in 1 .. Len(backward') : levels'[Parent[backward'[k]]] # NoLevel
    BY <1>0, <1>3, <2>1, StillLevelled DEF StartReturns
  <2>6. pc' = "return"
    BY <1>3 DEF StartReturns
  <2>7. QED BY <2>1, <2>4, <2>5, <2>6 DEF WaitingLevelled, Levelled
<1>4. CASE StartForward
  <2>1. levels'[Annotated] # NoLevel
    BY <1>4, LevelZeroKeeps DEF StartForward
  <2>2. /\ annotation.arguments \in Seq({n \in Nodes : Parent[n] = Annotated})
        /\ arg + 1 \in 1 .. Len(annotation.arguments)
    BY <1>4, ArgumentsOwned DEF TypeOK, StartForward
  <2>3. Parent[annotation.arguments[arg + 1]] = Annotated
    BY <2>2
  <2>4. /\ pc' = "forward" /\ backward' = << >>
        /\ worklist' = <<annotation.arguments[arg + 1]>>
    BY <1>4 DEF StartForward
  <2>5. QED BY <2>1, <2>3, <2>4 DEF WaitingLevelled, Levelled
<1>5. CASE StartBackward
  <2>1. /\ pc = "forward" /\ pc' = "backward" /\ backward' = << >>
        /\ worklist' = Reverse(backward) /\ levels' = levels
    BY <1>5 DEF StartBackward
  <2>2. \A k \in 1 .. Len(Reverse(backward)) :
          \E j \in 1 .. Len(backward) : Reverse(backward)[k] = backward[j]
    BY <1>0 DEF Reverse
  <2>3. QED BY <1>0, <2>1, <2>2 DEF WaitingLevelled, Levelled
<1>6. CASE Finish
  BY <1>0, <1>6 DEF Finish, WaitingLevelled, Levelled
<1>7. CASE DropNode
  <2>1. /\ worklist # << >> /\ worklist' = Tail(worklist)
        /\ UNCHANGED <<pc, backward, levels>>
    BY <1>7 DEF DropNode, Visiting
  <2>2. QED BY <1>0, <2>1, TailElements DEF WaitingLevelled, Levelled
<1>8. CASE VisitFunctionNode
  BY <1>0, <1>8, VisitFunctionNodeLevels
<1>9. CASE VisitNode
  BY <1>0, <1>9, VisitNodeLevels
<1>10. CASE UNCHANGED vars
  BY <1>0, <1>10 DEF vars, WaitingLevelled, Levelled
<1>11. QED BY <1>1, <1>2, <1>3, <1>4, <1>5, <1>6, <1>7, <1>8, <1>9, <1>10 DEF Next

(***************************************************************************)
(* In every dependence graph whose nodes all belong to functions, the      *)
(* assertion of addRelatedFunction holds: a function that is related has a *)
(* level.                                                                  *)
(***************************************************************************)
THEOREM LevelsNeverMissing == Spec => []AssertionsHold
<1>1. Init => LevelInv
  BY TypeInit DEF Init, LevelInv, WaitingLevelled
<1>2. LevelInv => AssertionsHold
  BY DEF LevelInv, WaitingLevelled, AssertionsHold
<1>3. QED BY <1>1, <1>2, LevelInvStep, PTL DEF Spec

(***************************************************************************)
(* A level is never below what it is worth.  The strengthening: while a    *)
(* worklist is worked on the annotated function has level zero, and only   *)
(* levelled functions are related.                                         *)
(***************************************************************************)
JustifiedInv ==
  /\ TypeOK
  /\ LevelsJustified
  /\ pc \in {"forward", "backward", "return"} => levels[Annotated] = 0
  /\ \A f \in Functions : related[f] # NoLevel => levels[f] # NoLevel

\* Function f may have its level lv[f]: a neighbour has a lower one.
JustifiedBy(lv, f) ==
  \E e \in edges : \E n, m \in {e[1], e[2]} :
    /\ Parent[n] \in Functions /\ Parent[m] = f
    /\ lv[Parent[n]] \in 0 .. lv[f] - 1

(***************************************************************************)
(* New levels keep the justification if every change lowers a level, or    *)
(* gives a first one, and brings a justification of its own.               *)
(***************************************************************************)
LEMMA LoweringKeeps ==
  ASSUME JustifiedInv, NEW lv \in Levels, levels' = lv,
         lv[Annotated] \in {0, NoLevel},
         \A f \in Functions : levels[f] # NoLevel => lv[f] # NoLevel /\ lv[f] <= levels[f],
         \A f \in Functions \ {Annotated} : lv[f] = levels[f] \/ JustifiedBy(lv, f),
         UNCHANGED edges,
         \A f \in Functions : related'[f] = related[f] \/ (related'[f] = lv[f] /\ lv[f] # NoLevel),
         pc' \in {"forward", "backward", "return"} => lv[Annotated] = 0,
         TypeOK'
  PROVE  JustifiedInv'
<1>0. \A f \in Functions : /\ levels[f] \in Nat \cup {-1} /\ lv[f] \in Nat \cup {-1}
                           /\ related[f] \in Nat \cup {-1}
  BY DEF JustifiedInv, TypeOK, Levels, NoLevel
<1>1. ASSUME NEW f \in Functions \ {Annotated}, lv[f] # NoLevel
      PROVE  JustifiedBy(lv, f)
  <2>1. CASE lv[f] = levels[f]
    <3>0. PICK e \in edges : \E n, m \in {e[1], e[2]} :
            /\ Parent[n] \in Functions /\ Parent[m] = f
            /\ levels[Parent[n]] \in 0 .. levels[f] - 1
      BY <1>1, <2>1 DEF JustifiedInv, LevelsJustified
    <3>1. PICK n \in {e[1], e[2]}, m \in {e[1], e[2]} :
            /\ Parent[n] \in Functions /\ Parent[m] = f
            /\ levels[Parent[n]] \in 0 .. levels[f] - 1
      BY <3>0
    <3> DEFINE p == Parent[n]
    <3>2. p \in Functions /\ levels[p] \in 0 .. levels[f] - 1
      BY <3>1
    <3> HIDE DEF p
    <3>3. lv[p] \in 0 .. lv[f] - 1
      BY <1>0, <1>1, <2>1, <3>2 DEF NoLevel
    <3>4. QED BY <3>1, <3>3 DEF JustifiedBy, p
  <2>2. QED BY <1>1, <2>1
<1>2. \A f \in Functions : related'[f] # NoLevel => lv[f] # NoLevel /\ related'[f] >= lv[f]
  <2>1. TAKE f \in Functions
  <2>2. CASE related'[f] = related[f]
    BY <1>0, <2>2 DEF JustifiedInv, LevelsJustified, NoLevel
  <2>3. CASE related'[f] = lv[f] /\ lv[f] # NoLevel
    BY <1>0, <2>3 DEF NoLevel
  <2>4. QED BY <2>2, <2>3
<1>3. LevelsJustified'
  BY <1>1, <1>2 DEF LevelsJustified, JustifiedBy, NoLevel
<1>4. QED BY <1>2, <1>3 DEF JustifiedInv, NoLevel

(***************************************************************************)
(* A step that leaves the levels alone, or lets the annotated function     *)
(* have level zero, keeps them justified.                                  *)
(***************************************************************************)
LEMMA LevelZeroJustified ==
  ASSUME JustifiedInv, TypeOK', UNCHANGED <<edges, related>>,
         \/ InsertLevelZero
         \/ levels' = levels /\ (pc' \in {"forward", "backward", "return"} => levels[Annotated] = 0)
  PROVE  JustifiedInv'
<1>1. levels \in Levels /\ levels' \in Levels /\ Annotated \in Functions
  BY NodeFacts DEF JustifiedInv, TypeOK
<1>2. \A f \in Functions : levels[f] \in Nat \cup {-1}
  BY <1>1 DEF Levels, NoLevel
<1>3. /\ \A f \in Functions \ {Annotated} : levels'[f] = levels[f]
      /\ levels'[Annotated] = levels[Annotated] \/ levels[Annotated] = NoLevel
      /\ levels'[Annotated] \in {0, NoLevel}
      /\ pc' \in {"forward", "backward", "return"} => levels'[Annotated] = 0
      /\ levels[Annotated] # NoLevel => levels'[Annotated] = levels[Annotated]
  BY <1>1 DEF InsertLevelZero, Levels, JustifiedInv, LevelsJustified
<1> DEFINE lv == levels'
<1>4. \A f \in Functions : levels[f] # NoLevel => lv[f] # NoLevel /\ lv[f] <= levels[f]
  BY <1>2, <1>3 DEF NoLevel
<1>5. QED
  <2>1. lv \in Levels /\ levels' = lv
    BY <1>1
  <2>2. \A f \in Functions \ {Annotated} : lv[f] = levels[f] \/ JustifiedBy(lv, f)
    BY <1>3
  <2>3. lv[Annotated] \in {0, NoLevel} /\ (pc' \in {"forward", "backward", "return"} => lv[Annotated] = 0)
    BY <1>3
  <2>4. \A f \in Functions : related'[f] = related[f] \/ (related'[f] = lv[f] /\ lv[f] # NoLevel)
    OBVIOUS
  <2> HIDE DEF lv
  <2>5. QED BY <2>1, <2>2, <2>3, <2>4, <1>4, LoweringKeeps

(***************************************************************************)
(* updateFunctionLevel lowers levels only, by a step over an edge of the   *)
(* graph, and never touches a level zero.                                  *)
(***************************************************************************)
LEMMA UpdateLowers ==
  ASSUME JustifiedInv, NEW x \in Nodes, NEW F, levels[Annotated] = 0,
         \A f \in F \cap Functions : \E m \in Nodes :
           Parent[m] = f /\ (<<x, m>> \in edges \/ <<m, x>> \in edges)
  PROVE  LET lv == updateFunctionLevels(Parent[x], F)
         IN  /\ lv \in Levels /\ lv[Annotated] = 0
             /\ \A f \in Functions : levels[f] # NoLevel => lv[f] # NoLevel /\ lv[f] <= levels[f]
             /\ \A f \in Functions \ {Annotated} : lv[f] = levels[f] \/ JustifiedBy(lv, f)
<1> DEFINE c == Parent[x]
           lv == updateFunctionLevels(c, F)
<1>0. \A f \in Functions : levels[f] \in Nat \cup {-1}
  BY DEF JustifiedInv, TypeOK, Levels, NoLevel
<1>1. levels \in Levels /\ c \in Functions \cup {NoFunction} /\ NoFunction \notin Functions /\ Annotated \in Functions
  BY NodeFacts DEF JustifiedInv, TypeOK
<1>2. lv \in Levels
  BY <1>1, LevelsAfterUpdate
<1>3. CASE c = NoFunction \/ levels[c] = NoLevel
  <2>1. lv = levels
    BY <1>3 DEF updateFunctionLevels
  <2> HIDE DEF lv
  <2>2. \A f \in Functions : levels[f] <= levels[f]
    BY <1>0
  <2>3. QED BY <1>1, <2>1, <2>2 DEF lv
<1>4. CASE c \in Functions /\ levels[c] # NoLevel
  <2> DEFINE L(f) == IF f = c THEN levels[f] ELSE levels[c] + 1
  <2>1. lv = [f \in Functions |->
                IF f \in F /\ (levels[f] = NoLevel \/ L(f) < levels[f])
                THEN L(f) ELSE levels[f]]
    BY <1>1, <1>4 DEF updateFunctionLevels
  <2>2. \A f \in Functions : L(f) \in Nat
    BY <1>0, <1>4 DEF NoLevel
  <2>3. L(c) = levels[c] /\ \A f \in Functions : f # c => L(f) = levels[c] + 1
    OBVIOUS
  <2>h. c \in Functions /\ levels[c] \in Nat /\ levels[c] # -1
    BY <1>0, <1>4 DEF NoLevel
  <2> HIDE DEF L, lv, c
  <2>4. lv[c] = levels[c]
    BY <2>1, <2>3, <2>h DEF NoLevel
  <2>5. \A f \in Functions : levels[f] # -1 => lv[f] # -1 /\ lv[f] <= levels[f]
    BY <1>0, <2>1, <2>2 DEF NoLevel
  <2>6. lv[Annotated] = 0
    BY <1>1, <2>1, <2>2 DEF NoLevel
  <2>7. ASSUME NEW f \in Functions, lv[f] # levels[f] PROVE JustifiedBy(lv, f)
    <3>1. f \in F /\ lv[f] = L(f) /\ f # c
      BY <2>1, <2>3, <2>7
    <3>2. lv[f] = levels[c] + 1
      BY <2>3, <3>1
    <3>3. lv[c] \in 0 .. lv[f] - 1
      BY <2>4, <2>h, <3>2
    <3>4. PICK m \in Nodes : Parent[m] = f /\ (<<x, m>> \in edges \/ <<m, x>> \in edges)
      BY <3>1
    <3>5. CASE <<x, m>> \in edges
      <4>1. <<x, m>>[1] = x /\ <<x, m>>[2] = m
        OBVIOUS
      <4>2. QED BY <2>h, <3>3, <3>4, <3>5, <4>1 DEF JustifiedBy, c
    <3>6. CASE <<m, x>> \in edges
      <4>1. <<m, x>>[1] = m /\ <<m, x>>[2] = x
        OBVIOUS
      <4>2. QED BY <2>h, <3>3, <3>4, <3>6, <4>1 DEF JustifiedBy, c
    <3>7. QED BY <3>4, <3>5, <3>6
  <2>8. QED BY <1>2, <2>5, <2>6, <2>7 DEF lv, c, NoLevel
<1>5. \/ c = NoFunction \/ levels[c] = NoLevel
      \/ c \in Functions /\ levels[c] # NoLevel
  BY <1>1
<1> HIDE DEF lv, c
<1>6. QED BY <1>3, <1>4, <1>5 DEF lv, c

\* Visiting a node keeps every level justified.
LEMMA VisitNodeJustified ==
  ASSUME JustifiedInv, TypeOK', VisitNode PROVE JustifiedInv'
<1> DEFINE lv == updateFunctionLevels(Parent[node], ReachedFunctions)
           callees == {f \in {Parent[m] : m \in CalleeFormals(node)} : Defined(f)}
<1>1. /\ node \in Nodes /\ pc \in {"forward", "backward", "return"}
      /\ levels' = lv /\ UNCHANGED edges
  BY DEF JustifiedInv, TypeOK, VisitNode, VisitWith, Visiting, node
<1>2. \A f \in ReachedFunctions \cap Functions : \E m \in Nodes :
        Parent[m] = f /\ (<<node, m>> \in edges \/ <<m, node>> \in edges)
  BY DEF ReachedFunctions, canProcess, Neighbours
<1>3. levels[Annotated] = 0
  BY <1>1 DEF JustifiedInv
<1>4. /\ lv \in Levels /\ lv[Annotated] = 0
      /\ \A f \in Functions : levels[f] # NoLevel => lv[f] # NoLevel /\ lv[f] <= levels[f]
      /\ \A f \in Functions \ {Annotated} : lv[f] = levels[f] \/ JustifiedBy(lv, f)
  BY <1>1, <1>2, <1>3, UpdateLowers
<1>5. \A f \in Functions : related'[f] = related[f] \/ (related'[f] = lv[f] /\ lv[f] # NoLevel)
  <2>1. CASE UNCHANGED related
    BY <2>1
  <2>2. CASE related' = addRelated(callees, lv) /\ \A f \in callees : lv[f] # NoLevel
    BY <2>2 DEF addRelated
  <2>3. QED BY <2>1, <2>2 DEF VisitNode, VisitWith
<1> HIDE DEF lv
<1>6. QED BY <1>1, <1>4, <1>5, LoweringKeeps

\* A function node is related with the level its function has.
LEMMA VisitFunctionNodeJustified ==
  ASSUME JustifiedInv, TypeOK', VisitFunctionNode PROVE JustifiedInv'
<1>1. /\ pc \in {"forward", "backward", "return"} /\ UNCHANGED <<levels, edges>>
  BY DEF VisitFunctionNode, Visiting
<1>2. levels[Annotated] = 0 /\ levels \in Levels
  BY <1>1 DEF JustifiedInv, TypeOK
<1>3. \A f \in Functions : levels[f] <= levels[f]
  BY <1>2 DEF Levels, NoLevel
<1>4. \A f \in Functions : related'[f] = related[f] \/ (related'[f] = levels[f] /\ levels[f] # NoLevel)
  BY DEF VisitFunctionNode, addRelated
<1>5. QED BY <1>1, <1>2, <1>3, <1>4, LoweringKeeps

\* Every step keeps the levels justified.
LEMMA JustifiedStep == JustifiedInv /\ [Next]_vars => JustifiedInv'
<1> SUFFICES ASSUME JustifiedInv, [Next]_vars PROVE JustifiedInv'
  OBVIOUS
<1>0. TypeOK'
  BY TypeStep DEF JustifiedInv
<1>1. CASE Refuse
  BY <1>0, <1>1, LevelZeroJustified DEF Refuse
<1>2. CASE StartArguments
  BY <1>0, <1>2, LevelZeroJustified DEF StartArguments
<1>3. CASE StartReturns
  BY <1>0, <1>3, LevelZeroJustified DEF StartReturns
<1>4. CASE StartForward
  BY <1>0, <1>4, LevelZeroJustified DEF StartForward
<1>5. CASE StartBackward
  <2>1. pc = "forward" /\ UNCHANGED <<edges, levels, related>>
    BY <1>5 DEF StartBackward
  <2>2. levels[Annotated] = 0
    BY <2>1 DEF JustifiedInv
  <2>3. QED BY <1>0, <2>1, <2>2, LevelZeroJustified
<1>6. CASE Finish
  BY <1>0, <1>6, LevelZeroJustified DEF Finish
<1>7. CASE DropNode
  <2>1. pc' = pc /\ UNCHANGED <<edges, levels, related>>
    BY <1>7 DEF DropNode
  <2>2. QED BY <1>0, <2>1, LevelZeroJustified DEF JustifiedInv
<1>8. CASE VisitFunctionNode
  BY <1>0, <1>8, VisitFunctionNodeJustified
<1>9. CASE VisitNode
  BY <1>0, <1>9, VisitNodeJustified
<1>10. CASE UNCHANGED vars
  <2>1. pc' = pc /\ UNCHANGED <<edges, levels, related>>
    BY <1>10 DEF vars
  <2>2. QED BY <1>0, <2>1, LevelZeroJustified DEF JustifiedInv
<1>11. QED BY <1>1, <1>2, <1>3, <1>4, <1>5, <1>6, <1>7, <1>8, <1>9, <1>10 DEF Next

(***************************************************************************)
(* In every dependence graph the level of a function other than the        *)
(* annotated one is justified by an edge to a function of a lower level,   *)
(* and no related function was recorded with a level below its own.        *)
(***************************************************************************)
THEOREM LevelsStayJustified == Spec => []LevelsJustified
<1>1. Init => JustifiedInv
  <2> SUFFICES ASSUME Init PROVE JustifiedInv
    OBVIOUS
  <2>1. TypeOK
    BY TypeInit
  <2>2. \A f \in Functions : levels[f] = NoLevel /\ related[f] = NoLevel
    BY DEF Init
  <2>3. LevelsJustified
    BY <2>2, NodeFacts DEF LevelsJustified
  <2>4. QED BY <2>1, <2>2, <2>3 DEF Init, JustifiedInv
<1>2. JustifiedInv => LevelsJustified
  BY DEF JustifiedInv
<1>3. QED BY <1>1, <1>2, JustifiedStep, PTL DEF Spec

(***************************************************************************)
(* Reachability.                                                           *)
(***************************************************************************)

(***************************************************************************)
(* Induction over the subsets of a finite set, for a set P of subsets: if  *)
(* a subset is in P whenever all smaller ones are, all are.                *)
(***************************************************************************)
LEMMA SubsetInduction ==
  ASSUME NEW S, IsFiniteSet(S), NEW P,
         \A T \in SUBSET S : (\A U \in SUBSET T : U # T => U \in P) => T \in P
  PROVE  \A T \in SUBSET S : T \in P
<1> DEFINE Others == {T \in SUBSET S : T \notin P}
<1> DEFINE R == StrictSubsetOrdering(S)
<1> SUFFICES ASSUME Others # {} PROVE FALSE
  OBVIOUS
<1>1. IsWellFoundedOn(R, SUBSET S)
  <2>1. FiniteSubsetsOf(S) = SUBSET S
    BY FS_FiniteSubsetsOfFinite, Zenon
  <2>2. IsWellFoundedOn(StrictSubsetOrdering(S), FiniteSubsetsOf(S))
    BY FS_StrictSubsetOrderingWellFounded, Zenon
  <2>3. QED BY <2>1, <2>2
<1>2. Others \subseteq SUBSET S
  OBVIOUS
<1>3. PICK T \in Others : \A U \in Others : ~(<<U, T>> \in R)
  <2> HIDE DEF Others, R
  <2> QED BY <1>1, <1>2, WFMin
<1>4. ASSUME NEW U \in SUBSET T, U # T PROVE U \in P
  <2>1. <<U, T>> \in R
    BY <1>3, <1>4 DEF StrictSubsetOrdering
  <2>2. QED BY <1>3, <2>1
<1>5. QED BY <1>3, <1>4

(***************************************************************************)
(* Induction over the natural numbers, for a set P: of two intervals that  *)
(* start at 0 the shorter one is a subset of the other.                    *)
(***************************************************************************)
LEMMA NatInduct ==
  ASSUME NEW P, 0 \in P, \A n \in Nat : n \in P => n + 1 \in P
  PROVE  \A n \in Nat : n \in P
<1> SUFFICES ASSUME NEW m \in Nat PROVE m \in P
  OBVIOUS
<1> DEFINE Q == {T \in SUBSET (0 .. m) : \A n \in Nat : T = 0 .. n => n \in P}
<1>1. IsFiniteSet(0 .. m)
  BY FS_Interval
<1>2. ASSUME NEW T \in SUBSET (0 .. m), \A U \in SUBSET T : U # T => U \in Q
      PROVE  T \in Q
  <2> SUFFICES ASSUME NEW n \in Nat, T = 0 .. n PROVE n \in P
    OBVIOUS
  <2>1. CASE n = 0
    BY <2>1
  <2>2. CASE n # 0
    <3>1. n - 1 \in Nat /\ (n - 1) + 1 = n /\ 0 .. n - 1 \in SUBSET T /\ 0 .. n - 1 # T
      BY <2>2
    <3>2. n - 1 \in P
      BY <3>1, <1>2
    <3>3. QED BY <3>1, <3>2
  <2>3. QED BY <2>1, <2>2
<1>3. \A T \in SUBSET (0 .. m) : T \in Q
  <2> DEFINE I == 0 .. m
  <2>1. /\ IsFiniteSet(I)
        /\ \A T \in SUBSET I : (\A U \in SUBSET T : U # T => U \in Q) => T \in Q
    BY <1>1, <1>2
  <2> HIDE DEF Q, I
  <2>2. \A T \in SUBSET I : T \in Q
    BY <2>1, SubsetInduction
  <2>3. QED BY <2>2 DEF I
<1>4. QED BY <1>3

(***************************************************************************)
(* ReachFrom is the last of a sequence of sets, each the one before with   *)
(* the successors of its members.                                          *)
(***************************************************************************)
ReachStep(X, G) == X \cup UNION {G[n] : n \in X}

IsReach(R, S, G, N) ==
  R = [k \in 0 .. N |-> IF k = 0 THEN S ELSE ReachStep(R[k - 1], G)]

Closed(C, G) == \A n \in C : G[n] \subseteq C

\* Every closed set with S in it has X in it.
Within(X, S, G) == \A C \in SUBSET Nodes : S \subseteq C /\ Closed(C, G) => X \subseteq C

\* ReachFrom in these words.
LEMMA ReachUnfold ==
  ASSUME NEW S, NEW G
  PROVE  ReachFrom(S, G) = (CHOOSE R : IsReach(R, S, G, Cardinality(Nodes)))[Cardinality(Nodes)]
  BY DEF ReachFrom, IsReach, ReachStep

\* The recursion has a solution, however long it is.
LEMMA ReachExists ==
  ASSUME NEW S, NEW G, NEW N \in Nat
  PROVE  \E R : IsReach(R, S, G, N)
<1> DEFINE P == {k \in Nat : \E R : IsReach(R, S, G, k)}
<1>1. 0 \in P
  <2> DEFINE R == [k \in 0 .. 0 |-> S]
  <2>1. R = [k \in 0 .. 0 |-> IF k = 0 THEN S ELSE ReachStep(R[k - 1], G)]
    OBVIOUS
  <2> HIDE DEF R
  <2>2. QED BY <2>1 DEF IsReach
<1>2. ASSUME NEW k \in Nat, k \in P PROVE k + 1 \in P
  <2>1. PICK R : R = [i \in 0 .. k |-> IF i = 0 THEN S ELSE ReachStep(R[i - 1], G)]
    BY <1>2 DEF IsReach
  <2> DEFINE Q == [i \in 0 .. k + 1 |-> IF i = k + 1 THEN ReachStep(R[k], G) ELSE R[i]]
  <2>2. \A i \in 0 .. k : Q[i] = R[i]
    OBVIOUS
  <2>3. \A i \in 0 .. k + 1 : Q[i] = IF i = 0 THEN S ELSE ReachStep(Q[i - 1], G)
    <3> SUFFICES ASSUME NEW i \in 0 .. k + 1
                 PROVE  Q[i] = IF i = 0 THEN S ELSE ReachStep(Q[i - 1], G)
      OBVIOUS
    <3>1. CASE i = k + 1
      <4>1. Q[i] = ReachStep(R[k], G) /\ i - 1 = k /\ i # 0
        BY <3>1
      <4>2. Q[k] = R[k]
        BY <2>2
      <4>3. QED BY <4>1, <4>2
    <3>2. CASE i # k + 1 /\ i # 0
      <4>1. i \in 0 .. k /\ i - 1 \in 0 .. k
        BY <3>2
      <4>2. Q[i] = R[i] /\ Q[i - 1] = R[i - 1]
        BY <2>2, <4>1
      <4>3. R[i] = ReachStep(R[i - 1], G)
        BY <2>1, <3>2, <4>1
      <4>4. QED BY <3>2, <4>2, <4>3
    <3>3. CASE i = 0
      <4>1. R[0] = S
        BY <2>1
      <4>2. QED BY <2>2, <3>3, <4>1
    <3>4. QED BY <3>1, <3>2, <3>3
  <2>4. Q = [i \in 0 .. k + 1 |-> Q[i]]
    OBVIOUS
  <2> HIDE DEF Q
  <2>5. IsReach(Q, S, G, k + 1)
    BY <2>3, <2>4 DEF IsReach
  <2>6. QED BY <2>5
<1> HIDE DEF P
<1>3. N \in P
  BY <1>1, <1>2, NatInduct
<1>4. QED BY <1>3 DEF P

(***************************************************************************)
(* ReachFrom is closed, for it has as many rounds as there are nodes: a    *)
(* round that adds nothing closes the set, and every other adds a node.    *)
(***************************************************************************)
LEMMA ReachIsLeast ==
  ASSUME NEW S \in SUBSET Nodes, NEW G \in [Nodes -> SUBSET Nodes]
  PROVE  LET X == ReachFrom(S, G)
         IN  X \in SUBSET Nodes /\ S \subseteq X /\ Closed(X, G) /\ Within(X, S, G)
<1> DEFINE N == Cardinality(Nodes)
           R == CHOOSE Q : IsReach(Q, S, G, N)
<1>1. N \in Nat /\ IsFiniteSet(Nodes)
  BY GraphAssumption, FS_CardinalityType
<1>2. R = [k \in 0 .. N |-> IF k = 0 THEN S ELSE ReachStep(R[k - 1], G)]
  BY <1>1, ReachExists DEF IsReach
<1>3. ReachFrom(S, G) = R[N]
  BY ReachUnfold
<1> HIDE DEF R, N
<1>4. R[0] = S
  BY <1>1, <1>2
<1>5. \A k \in Nat : k + 1 <= N => R[k + 1] = ReachStep(R[k], G)
  <2> TAKE k \in Nat
  <2> HAVE k + 1 <= N
  <2>1. k + 1 \in 0 .. N /\ k + 1 # 0 /\ (k + 1) - 1 = k
    BY <1>1
  <2>2. QED BY <1>2, <2>1
<1> DEFINE P == {k \in Nat : k <= N =>
                   /\ R[k] \in SUBSET Nodes /\ S \subseteq R[k] /\ Within(R[k], S, G)
                   /\ Closed(R[k], G) \/ Cardinality(R[k]) >= k}
<1>6. 0 \in P
  <2>1. Cardinality(S) \in Nat
    BY <1>1, FS_Subset, FS_CardinalityType
  <2>2. Within(S, S, G)
    BY DEF Within
  <2>3. QED BY <1>4, <2>1, <2>2
<1>7. ASSUME NEW k \in Nat, k \in P PROVE k + 1 \in P
  <2> SUFFICES ASSUME k + 1 <= N PROVE k + 1 \in P
    OBVIOUS
  <2> DEFINE X == R[k]
             Y == R[k + 1]
  <2>1. /\ X \in SUBSET Nodes /\ S \subseteq X /\ Within(X, S, G)
        /\ Closed(X, G) \/ Cardinality(X) >= k
    BY <1>1, <1>7
  <2>2. Y = X \cup UNION {G[n] : n \in X}
    BY <1>5 DEF ReachStep
  <2> HIDE DEF X, Y
  <2>3. Y \in SUBSET Nodes /\ S \subseteq Y /\ X \subseteq Y
    BY <2>1, <2>2
  <2>4. Within(Y, S, G)
    BY <2>1, <2>2 DEF Within, Closed
  <2>5. Closed(X, G) => Closed(Y, G)
    BY <2>1, <2>2 DEF Closed
  <2>6. ASSUME ~Closed(X, G) PROVE Cardinality(Y) >= k + 1
    <3>1. X # Y
      BY <2>2, <2>6 DEF Closed
    <3>2. IsFiniteSet(Y) /\ Cardinality(Y) \in Nat /\ Cardinality(X) \in Nat
      BY <1>1, <2>1, <2>3, FS_Subset, FS_CardinalityType
    <3>3. Cardinality(X) <= Cardinality(Y) /\ Cardinality(X) # Cardinality(Y)
      BY <2>3, <3>1, <3>2, FS_Subset
    <3>4. QED BY <2>1, <2>6, <3>2, <3>3
  <2>7. Closed(Y, G) \/ Cardinality(Y) >= k + 1
    BY <2>5, <2>6
  <2>8. QED BY <2>3, <2>4, <2>7 DEF Y
<1>8. N \in P
  <2> HIDE DEF P
  <2>1. QED BY <1>1, <1>6, <1>7, NatInduct
<1>9. /\ R[N] \in SUBSET Nodes /\ S \subseteq R[N] /\ Within(R[N], S, G)
      /\ Closed(R[N], G) \/ Cardinality(R[N]) >= N
  BY <1>1, <1>8
<1>10. Cardinality(R[N]) >= N => R[N] = Nodes
  <2>1. Cardinality(R[N]) \in Nat /\ Cardinality(R[N]) <= Cardinality(Nodes)
    BY <1>1, <1>9, FS_Subset, FS_CardinalityType
  <2>2. Cardinality(R[N]) >= N => Cardinality(R[N]) = Cardinality(Nodes)
    BY <1>1, <2>1 DEF N
  <2>3. QED BY <1>1, <1>9, <2>2, FS_Subset
<1>11. Closed(Nodes, G)
  BY DEF Closed
<1>12. QED BY <1>3, <1>9, <1>10, <1>11

\* A closed set over S that every such set contains is what ReachFrom computes.
LEMMA ReachIs ==
  ASSUME NEW S \in SUBSET Nodes, NEW G \in [Nodes -> SUBSET Nodes],
         NEW X \in SUBSET Nodes, S \subseteq X, Closed(X, G), Within(X, S, G)
  PROVE  X = ReachFrom(S, G)
<1> DEFINE Y == ReachFrom(S, G)
<1>1. Y \in SUBSET Nodes /\ S \subseteq Y /\ Closed(Y, G) /\ Within(Y, S, G)
  BY ReachIsLeast
<1> HIDE DEF Y
<1>2. X \subseteq Y /\ Y \subseteq X
  BY <1>1 DEF Within
<1>3. QED BY <1>2 DEF Y

(***************************************************************************)
(* An exploration of a graph G from sources S: V has been visited and W    *)
(* waits.  Nothing is lost and nothing else is found.                      *)
(***************************************************************************)
Explored(V, W, S, G) ==
  /\ V \in SUBSET Nodes /\ W \in SUBSET Nodes
  /\ S \subseteq V \cup W
  /\ \A n \in V : G[n] \subseteq V \cup W
  /\ Within(V \cup W, S, G)

\* A step takes x from the waiting nodes and adds some of its successors.
LEMMA ExploreStep ==
  ASSUME NEW G \in [Nodes -> SUBSET Nodes], NEW S, NEW V, NEW W, NEW U, NEW x \in W,
         Explored(V, W, S, G),
         W \subseteq {x} \cup U, U \subseteq W \cup G[x], G[x] \subseteq V \cup {x} \cup U
  PROVE  Explored(V \cup {x}, U, S, G)
<1>1. x \in Nodes /\ G[x] \in SUBSET Nodes
  BY DEF Explored
<1>2. Within((V \cup {x}) \cup U, S, G)
  BY <1>1 DEF Explored, Within, Closed
<1>3. QED BY <1>1, <1>2 DEF Explored

\* More sources may be put among the waiting nodes.
LEMMA ExploreMore ==
  ASSUME NEW G \in [Nodes -> SUBSET Nodes], NEW S, NEW V, NEW W, NEW X \in SUBSET Nodes,
         Explored(V, W, S, G)
  PROVE  Explored(V, W \cup X, S \cup X, G)
<1>1. Within(V \cup (W \cup X), S \cup X, G)
  BY DEF Explored, Within
<1>2. QED BY <1>1 DEF Explored

\* When nothing waits the visited nodes are those reachable.
LEMMA ExploreEnds ==
  ASSUME NEW G \in [Nodes -> SUBSET Nodes], NEW S, NEW V, Explored(V, {}, S, G)
  PROVE  V = ReachFrom(S, G)
  BY ReachIs DEF Explored, Closed

(***************************************************************************)
(* The three graphs.                                                       *)
(***************************************************************************)
LEMMA GraphsTyped ==
  /\ Forth \in [Nodes -> SUBSET Nodes]
  /\ Back \in [Nodes -> SUBSET Nodes]
  /\ BackFromReturn \in [Nodes -> SUBSET Nodes]
  BY DEF Forth, Back, BackFromReturn

Elements(s) == {s[k] : k \in 1 .. Len(s)}

\* The elements of the lists the traversals make.
LEMMA ElementsOf ==
  ASSUME NEW S, NEW s \in Seq(S)
  PROVE  /\ Elements(s) \in SUBSET S
         /\ Elements(Reverse(s)) = Elements(s)
         /\ s = << >> => Elements(s) = {}
         /\ s # << >> => Head(s) \in Elements(s) /\ Elements(s) = {Head(s)} \cup Elements(Tail(s))
<1>1. Elements(s) \in SUBSET S
  BY DEF Elements
<1>2. Elements(Reverse(s)) = Elements(s)
  <2>1. /\ Len(Reverse(s)) = Len(s)
        /\ \A k \in 1 .. Len(s) : Reverse(s)[k] = s[Len(s) - k + 1] /\ Len(s) - k + 1 \in 1 .. Len(s)
    BY DEF Reverse
  <2>2. \A k \in 1 .. Len(s) : s[k] = Reverse(s)[Len(s) - k + 1]
    <3> TAKE k \in 1 .. Len(s)
    <3> DEFINE j == Len(s) - k + 1
    <3>1. j \in 1 .. Len(s) /\ Len(s) - j + 1 = k
      OBVIOUS
    <3> HIDE DEF j
    <3>2. Reverse(s)[j] = s[k]
      BY <2>1, <3>1
    <3>3. QED BY <3>2 DEF j
  <2>3. QED BY <2>1, <2>2 DEF Elements
<1>3. s = << >> => Elements(s) = {}
  BY DEF Elements
<1>4. ASSUME s # << >>
      PROVE  Head(s) \in Elements(s) /\ Elements(s) = {Head(s)} \cup Elements(Tail(s))
  <2>1. /\ Len(s) \in Nat /\ 1 \in 1 .. Len(s) /\ Head(s) = s[1]
        /\ Len(Tail(s)) = Len(s) - 1
        /\ \A k \in 1 .. Len(Tail(s)) : k + 1 \in 1 .. Len(s) /\ Tail(s)[k] = s[k + 1]
    BY <1>4
  <2> DEFINE t == Tail(s)
  <2>2. /\ Len(t) = Len(s) - 1
        /\ \A k \in 1 .. Len(t) : k + 1 \in 1 .. Len(s) /\ t[k] = s[k + 1]
    BY <2>1
  <2> HIDE DEF t
  <2>3. \A k \in 1 .. Len(s) : k = 1 \/ \E j \in 1 .. Len(t) : t[j] = s[k]
    <3> SUFFICES ASSUME NEW k \in 1 .. Len(s), k # 1
                 PROVE  \E j \in 1 .. Len(t) : t[j] = s[k]
      OBVIOUS
    <3> DEFINE j == k - 1
    <3>1. j \in 1 .. Len(t) /\ j + 1 = k
      BY <2>1, <2>2
    <3> HIDE DEF j
    <3>2. t[j] = s[k]
      BY <2>2, <3>1
    <3>3. QED BY <3>1, <3>2
  <2>4. \A x : x \in Elements(s) => x = Head(s) \/ x \in Elements(t)
    BY <2>1, <2>3 DEF Elements
  <2>h. \A x : x \in Elements(t) => x \in Elements(s)
    BY <2>2 DEF Elements
  <2>i. Head(s) \in Elements(s)
    BY <2>1 DEF Elements
  <2>5. QED BY <2>4, <2>h, <2>i DEF t
<1>5. QED BY <1>1, <1>2, <1>3, <1>4

LEMMA ElementsOfConcat ==
  ASSUME NEW S, NEW s \in Seq(S), NEW t \in Seq(S)
  PROVE  Elements(s \o t) = Elements(s) \cup Elements(t)
<1>1. /\ Len(s \o t) = Len(s) + Len(t) /\ Len(s) \in Nat /\ Len(t) \in Nat
      /\ \A k \in 1 .. Len(s) : k \in 1 .. Len(s \o t) /\ (s \o t)[k] = s[k]
      /\ \A k \in 1 .. Len(t) : k + Len(s) \in 1 .. Len(s \o t) /\ (s \o t)[k + Len(s)] = t[k]
  OBVIOUS
<1>2. \A k \in 1 .. Len(s \o t) :
        \/ k \in 1 .. Len(s) /\ (s \o t)[k] = s[k]
        \/ k - Len(s) \in 1 .. Len(t) /\ (s \o t)[k] = t[k - Len(s)]
  OBVIOUS
<1>3. ASSUME NEW x \in Elements(s \o t) PROVE x \in Elements(s) \cup Elements(t)
  <2>1. PICK k \in 1 .. Len(s \o t) : x = (s \o t)[k]
    BY DEF Elements
  <2>2. CASE k \in 1 .. Len(s) /\ (s \o t)[k] = s[k]
    BY <2>1, <2>2 DEF Elements
  <2>3. CASE k - Len(s) \in 1 .. Len(t) /\ (s \o t)[k] = t[k - Len(s)]
    <3> DEFINE j == k - Len(s)
    <3>1. j \in 1 .. Len(t) /\ x = t[j]
      BY <2>1, <2>3
    <3> HIDE DEF j
    <3>2. QED BY <3>1 DEF Elements
  <2>4. QED BY <1>2, <2>2, <2>3
<1>4. ASSUME NEW x \in Elements(s) PROVE x \in Elements(s \o t)
  <2>1. PICK k \in 1 .. Len(s) : x = s[k]
    BY <1>4 DEF Elements
  <2>2. k \in 1 .. Len(s \o t) /\ (s \o t)[k] = x
    BY <1>1, <2>1
  <2>3. QED BY <2>2 DEF Elements
<1>5. ASSUME NEW x \in Elements(t) PROVE x \in Elements(s \o t)
  <2>1. PICK k \in 1 .. Len(t) : x = t[k]
    BY <1>5 DEF Elements
  <2> DEFINE j == k + Len(s)
  <2>2. j \in 1 .. Len(s \o t) /\ (s \o t)[j] = x
    BY <1>1, <2>1
  <2> HIDE DEF j
  <2>3. QED BY <2>2 DEF Elements
<1>6. QED BY <1>3, <1>4, <1>5

LEMMA ElementsOfAppend ==
  ASSUME NEW S, NEW s \in Seq(S), NEW x \in S
  PROVE  Elements(Append(s, x)) = Elements(s) \cup {x}
<1>1. /\ Len(Append(s, x)) = Len(s) + 1 /\ Len(s) \in Nat
      /\ \A k \in 1 .. Len(s) : Append(s, x)[k] = s[k]
      /\ Append(s, x)[Len(s) + 1] = x
  OBVIOUS
<1>2. QED BY <1>1 DEF Elements

\* Every order of a finite set has the set's members for its elements.
LEMMA ElementsOfOrder ==
  ASSUME NEW S \in SUBSET Nodes, NEW s \in SetToSeqs(S)
  PROVE  Elements(s) = S
<1>1. IsFiniteSet(S) /\ Cardinality(S) \in Nat
  BY GraphAssumption, FS_Subset, FS_CardinalityType
<1> DEFINE D == 1 .. Cardinality(S)
<1>2. s \in [D -> S] /\ \A i, j \in D : i # j => s[i] # s[j]
  BY DEF SetToSeqs
<1>3. s \in Injection(D, S)
  BY <1>2 DEF Injection, IsInjective
<1>4. IsFiniteSet(D) /\ Cardinality(D) = Cardinality(S)
  BY <1>1, FS_Interval
<1> HIDE DEF D
<1>5. s \in Surjection(D, S)
  BY <1>1, <1>3, <1>4, FS_Injection
<1>6. \A x \in S : \E k \in D : s[k] = x
  BY <1>5 DEF Surjection
<1>7. Len(s) = Cardinality(S) /\ \A k \in D : s[k] \in S
  BY <1>1, <1>2 DEF D
<1>8. QED BY <1>6, <1>7 DEF D, Elements

(***************************************************************************)
(* What one more visited node adds to what is to be found.                 *)
(***************************************************************************)
StoredBy(x) == IF Expands(x) /\ StoredValue[x] # NoNode THEN {StoredValue[x]} ELSE {}

FunctionsAt(x) == {f \in Functions \ {Annotated} : Defined(f) /\ Kind[x] = "function" /\ Parent[x] = f}

PassedBy(x) ==
  {f \in Functions : /\ Defined(f) /\ f \in WithPDG /\ Kind[x] = "actual" /\ Pointer[x]
                     /\ \E m \in Nodes : m \in Forth[x] /\ Kind[m] = "formal" /\ Parent[m] = f}

LEMMA OneMoreNode ==
  ASSUME NEW F, NEW x
  PROVE  /\ StoredIn(F \cup {x}) = StoredIn(F) \cup StoredBy(x)
         /\ FunctionsOf(F \cup {x}) = FunctionsOf(F) \cup FunctionsAt(x)
         /\ PassedTo(F \cup {x}) = PassedTo(F) \cup PassedBy(x)
<1>1. StoredIn(F \cup {x}) = StoredIn(F) \cup StoredBy(x)
  BY DEF StoredIn, StoredBy
<1>2. FunctionsOf(F \cup {x}) = FunctionsOf(F) \cup FunctionsAt(x)
  BY DEF FunctionsOf, FunctionsAt
<1>3. PassedTo(F \cup {x}) = PassedTo(F) \cup PassedBy(x)
  <2>1. \A f : f \in PassedTo(F \cup {x}) <=> f \in PassedTo(F) \/ f \in PassedBy(x)
    BY DEF PassedTo, PassedBy
  <2>2. QED BY <2>1
<1>4. QED BY <1>1, <1>2, <1>3

\* A node that is not expanded has no successors and stores nothing.
LEMMA NotExpanded ==
  ASSUME NEW x \in Nodes, ~Expands(x)
  PROVE  Forth[x] = {} /\ Back[x] = {} /\ StoredBy(x) = {} /\ PassedBy(x) = {}
<1>1. Forth[x] = {} /\ Back[x] = {}
  BY DEF Forth, Back
<1>2. StoredBy(x) = {}
  BY DEF StoredBy
<1>3. PassedBy(x) = {}
  BY <1>1 DEF PassedBy
<1>4. QED BY <1>1, <1>2, <1>3

\* Relating functions of known level adds them to the related functions.
LEMMA RelatedMore ==
  ASSUME related \in Levels, NEW C \in SUBSET Functions, NEW lv \in Levels,
         \A f \in C : lv[f] # NoLevel, related' = addRelated(C, lv)
  PROVE  RelatedFunctions' = RelatedFunctions \cup C
<1>1. \A f \in Functions : related'[f] = IF f \in C /\ related[f] = NoLevel THEN lv[f] ELSE related[f]
  BY DEF addRelated
<1>2. \A f \in Functions : related'[f] # NoLevel <=> related[f] # NoLevel \/ f \in C
  BY <1>1
<1>3. QED BY <1>2 DEF RelatedFunctions

(***************************************************************************)
(* A step that pops a node explores it.  A node dropped for its value must *)
(* have been visited.                                                      *)
(***************************************************************************)
Graph == IF pc = "forward" THEN Forth ELSE IF pc = "backward" THEN Back ELSE BackFromReturn

LEMMA PopExplores ==
  ASSUME TypeOK, Visiting, NEW V, NEW S, Explored(V, Elements(worklist), S, Graph),
         \/ DropNode /\ (Deduplicated(node) /\ Value[node] \in processed => node \in V)
         \/ VisitFunctionNode
         \/ VisitNode
  PROVE  Explored(V \cup {node}, Elements(worklist'), S, Graph)
<1> DEFINE W == Elements(worklist)
           T == Elements(Tail(worklist))
<1>1. worklist \in Seq(Nodes) /\ worklist # << >> /\ Tail(worklist) \in Seq(Nodes)
  BY DEF TypeOK, Visiting
<1>2. node \in W /\ W = {node} \cup T /\ W \in SUBSET Nodes /\ node \in Nodes
  BY <1>1, ElementsOf DEF node
<1>3. Graph \in [Nodes -> SUBSET Nodes]
  BY GraphsTyped DEF Graph
<1>4. CASE worklist' = Tail(worklist) /\ (Graph[node] = {} \/ node \in V)
  <2>1. Graph[node] \subseteq V \cup {node} \cup T
    BY <1>2, <1>4 DEF Explored
  <2>2. Elements(worklist') = T
    BY <1>4
  <2> HIDE DEF W, T
  <2>3. QED BY <1>2, <1>3, <2>1, <2>2, ExploreStep DEF W
<1>5. CASE Elements(worklist') = T \cup Graph[node]
  <2> HIDE DEF T
  <2>1. QED BY <1>2, <1>3, <1>5, ExploreStep
<1>6. CASE DropNode /\ (Deduplicated(node) /\ Value[node] \in processed => node \in V)
  <2>1. ~Expands(node) /\ pc # "return" => Graph[node] = {}
    BY <1>2, NotExpanded DEF Graph, DropNode, Visiting
  <2>2. Kind[node] = "plain" => Graph[node] = {}
    BY <1>2 DEF Graph, Forth, Back, BackFromReturn, Expands
  <2>3. Graph[node] = {} \/ node \in V
    BY <1>6, <2>1, <2>2 DEF DropNode, Dropped, Expands
  <2>4. QED BY <1>4, <1>6, <2>3 DEF DropNode
<1>7. CASE VisitFunctionNode
  <2>1. Graph[node] = {}
    BY <1>2, <1>7 DEF Graph, Forth, Back, BackFromReturn, Expands, VisitFunctionNode
  <2>2. QED BY <1>4, <1>7, <2>1 DEF VisitFunctionNode
<1>8. CASE VisitNode
  <2>1. ~Dropped(node) /\ Kind[node] # "function" /\ pc \in {"forward", "backward", "return"}
    BY <1>8 DEF VisitNode, VisitWith, Visiting
  <2>2. Kind[node] \notin {"plain", "function"} /\ (pc # "return" => Expands(node))
    BY <2>1 DEF Dropped, Expands
  <2>3. canProcess(node) = Graph[node]
    BY <1>2, <2>1, <2>2 DEF canProcess, Neighbours, Graph, Forth, Back, BackFromReturn
  <2>4. PICK formals \in SetToSeqs(CalleeFormals(node)), next \in SetToSeqs(canProcess(node)) :
          worklist' = Tail(worklist) \o formals \o next
    BY <1>8 DEF VisitNode, VisitWith
  <2>5. /\ canProcess(node) \in SUBSET Nodes
        /\ CalleeFormals(node) \in SUBSET canProcess(node)
    BY PushedAreNodes
  <2>6. /\ formals \in Seq(CalleeFormals(node)) /\ next \in Seq(canProcess(node))
        /\ Elements(formals) = CalleeFormals(node) /\ Elements(next) = canProcess(node)
    BY <2>5, OrdersAreSequences, ElementsOfOrder
  <2>7. formals \in Seq(Nodes) /\ next \in Seq(Nodes) /\ Tail(worklist) \o formals \in Seq(Nodes)
    BY <1>1, <2>5, <2>6
  <2> DEFINE p == Tail(worklist) \o formals
  <2>8. Elements(p) = T \cup Elements(formals) /\ p \in Seq(Nodes) /\ worklist' = p \o next
    BY <1>1, <2>4, <2>7, ElementsOfConcat
  <2> HIDE DEF p
  <2>h. Elements(worklist') = Elements(p) \cup Elements(next)
    BY <2>7, <2>8, ElementsOfConcat
  <2>9. QED BY <1>5, <2>3, <2>5, <2>6, <2>8, <2>h
<1>9. QED BY <1>6, <1>7, <1>8

(***************************************************************************)
(* The strengthening.  F has been visited forward and B backward, for all  *)
(* arguments so far; what waits is in the list of the loop that runs, and  *)
(* during a forward traversal the values stored so far wait for the next   *)
(* backward one.  A loop has marked an instruction only when it visited    *)
(* it.  What is related is what the visited nodes account for.             *)
(***************************************************************************)
ArgumentsUpTo(k) == {annotation.arguments[i] : i \in 1 .. k}

WaitingForward == IF pc = "forward" THEN Elements(worklist) ELSE {}

WaitingBackward == IF pc = "forward" THEN Elements(backward)
                   ELSE IF pc = "backward" THEN Elements(worklist) ELSE {}

MarkedIn(V) == \A v \in processed : \E n \in V : Kind[n] = "instruction" /\ Value[n] = v

ArgumentsExplored(F, B) ==
  /\ Explored(F, WaitingForward, ArgumentsUpTo(arg), Forth)
  /\ Explored(B, WaitingBackward, StoredIn(F), Back)
  /\ pc = "forward" => MarkedIn(F)
  /\ pc = "backward" => MarkedIn(B)
  /\ RelatedFunctions = FunctionsOf(F) \cup PassedTo(F) \cup FunctionsOf(B)

ReturnsExplored(B) ==
  /\ Explored(B, Elements(worklist), Elements(Returns), BackFromReturn)
  /\ \A v \in processed : \E n \in B : Value[n] = v
  /\ RelatedFunctions = FunctionsOf(B)

FindInv ==
  /\ TypeOK
  /\ pc \in {"arguments", "returns"} =>
       arg = 0 /\ functions = {} /\ RelatedFunctions = {} /\ processed = {}
  /\ pc \in {"nextArgument", "forward", "backward"} =>
       annotation.arguments # << >> /\ \E F, B : ArgumentsExplored(F, B)
  /\ pc = "return" =>
       arg = 0 /\ (DistinctValues(ReturnReach) => \E B : ReturnsExplored(B))
  /\ FindsAllReachable

\* The graphs and what is reached in them stay as long as the edges do.
LEMMA GraphsKept ==
  ASSUME UNCHANGED edges
  PROVE  /\ Forth' = Forth /\ Back' = Back /\ BackFromReturn' = BackFromReturn
         /\ ReturnReach' = ReturnReach
         /\ \A F : PassedTo(F)' = PassedTo(F)
<1>1. Forth' = Forth /\ Back' = Back /\ BackFromReturn' = BackFromReturn
  BY DEF Forth, Back, BackFromReturn
<1>2. ReturnReach' = ReturnReach
  BY <1>1 DEF ReturnReach
<1>3. \A F : PassedTo(F)' = PassedTo(F)
  BY <1>1 DEF PassedTo
<1>4. QED BY <1>1, <1>2, <1>3

\* The arguments and the returns are nodes.
LEMMA SourcesAreNodes ==
  ASSUME TypeOK
  PROVE  /\ annotation.arguments \in Seq(Nodes) /\ Len(annotation.arguments) \in Nat
         /\ arg \in Nat /\ arg <= Len(annotation.arguments)
         /\ Returns \in Seq(Nodes) /\ Elements(Returns) \in SUBSET Nodes
         /\ \A k \in 1 .. Len(annotation.arguments) : annotation.arguments[k] \in Nodes
<1> DEFINE own == {n \in Nodes : Parent[n] = Annotated}
<1>1. annotation.arguments \in Seq(Nodes) /\ Returns \in Seq(Nodes)
  <2>1. annotation.arguments \in Seq(own) /\ Returns \in Seq(own)
    BY ArgumentsOwned, AnnotationsAssumption
  <2>2. own \subseteq Nodes
    OBVIOUS
  <2> HIDE DEF own
  <2>3. QED BY <2>1, <2>2
<1>2. QED BY <1>1, ElementsOf DEF TypeOK

(***************************************************************************)
(* What a visit relates is what the visited node accounts for.             *)
(***************************************************************************)
LEMMA VisitedFunctionRelates ==
  ASSUME TypeOK, VisitFunctionNode, pc' # "aborted"
  PROVE  RelatedFunctions' = RelatedFunctions \cup FunctionsAt(node)
<1> DEFINE F == Parent[node]
           relates == Defined(F) /\ F # Annotated
<1>1. Kind[node] = "function" /\ related \in Levels /\ levels \in Levels
  BY DEF VisitFunctionNode, TypeOK
<1>2. CASE relates
  <2>1. FunctionsAt(node) = {F} /\ F \in Functions
    BY <1>1, <1>2 DEF FunctionsAt, Defined
  <2>2. levels[F] # NoLevel /\ related' = addRelated({F}, levels)
    BY <1>2 DEF VisitFunctionNode
  <2> HIDE DEF F
  <2>3. QED BY <1>1, <2>1, <2>2, RelatedMore
<1>3. CASE ~relates
  <2>1. related' = related
    BY <1>3 DEF VisitFunctionNode
  <2>2. FunctionsAt(node) = {}
    BY <1>3 DEF FunctionsAt
  <2>3. QED BY <2>1, <2>2 DEF RelatedFunctions
<1>4. QED BY <1>2, <1>3

LEMMA VisitedNodeRelates ==
  ASSUME TypeOK, VisitNode, pc' # "aborted"
  PROVE  /\ RelatedFunctions' =
              RelatedFunctions \cup (IF pc = "forward" THEN PassedBy(node) ELSE {})
         /\ FunctionsAt(node) = {}
<1> DEFINE callees == {f \in {Parent[m] : m \in CalleeFormals(node)} : Defined(f)}
           lv == updateFunctionLevels(Parent[node], ReachedFunctions)
<1>1. /\ Visiting /\ ~Dropped(node) /\ Kind[node] # "function" /\ related \in Levels
      /\ levels' = lv
  BY DEF VisitNode, VisitWith, TypeOK
<1>2. node \in Nodes /\ levels \in Levels
  BY <1>1 DEF TypeOK, Visiting, node
<1>3. lv \in Levels
  BY <1>2, NodeFacts, LevelsAfterUpdate
<1>4. /\ related' = addRelated(callees, lv)
      /\ \A f \in callees : lv[f] # NoLevel
  <2>1. pc' = pc
    BY <1>1 DEF VisitNode, VisitWith, Visiting
  <2>2. pc # "aborted"
    BY <1>1 DEF Visiting
  <2>3. QED BY <2>1, <2>2 DEF VisitNode, VisitWith
<1>5. callees \in SUBSET Functions
  BY DEF Defined
<1>6. callees = IF pc = "forward" THEN PassedBy(node) ELSE {}
  <2>1. CASE pc # "forward"
    BY <2>1 DEF CalleeFormals
  <2>2. CASE pc = "forward"
    <3>1. Expands(node)
      BY <1>1, <2>2 DEF Dropped, Expands
    <3>2. \A m \in Nodes : Kind[m] = "formal" => (m \in Forth[node] <=> m \in Neighbours(node))
      BY <1>2, <2>2, <3>1 DEF Forth, Neighbours
    <3>3. \A f : f \in callees <=> f \in PassedBy(node)
      <4>1. TAKE f
      <4>2. f \in callees <=>
              /\ Defined(f) /\ Kind[node] = "actual" /\ Pointer[node]
              /\ \E m \in Neighbours(node) :
                   Kind[m] = "formal" /\ Parent[m] \in WithPDG /\ Parent[m] = f
        BY <2>2 DEF CalleeFormals
      <4>3. Neighbours(node) \in SUBSET Nodes
        BY DEF Neighbours
      <4>4. QED BY <3>2, <4>2, <4>3 DEF PassedBy, Defined
    <3>4. QED BY <2>2, <3>3
  <2>3. QED BY <2>1, <2>2
<1> HIDE DEF callees, lv
<1>7. RelatedFunctions' = RelatedFunctions \cup callees
  BY <1>1, <1>3, <1>4, <1>5, RelatedMore
<1>8. QED BY <1>1, <1>6, <1>7 DEF FunctionsAt

(***************************************************************************)
(* A dropped node has been visited, or accounts for nothing.               *)
(***************************************************************************)
LEMMA DroppedAccountsForNothing ==
  ASSUME TypeOK, DropNode
  PROVE  \/ Deduplicated(node) /\ Value[node] \in processed
         \/ ~Expands(node) /\ FunctionsAt(node) = {}
<1>1. node \in Nodes /\ Dropped(node)
  BY DEF TypeOK, DropNode, Visiting, node
<1>2. QED BY <1>1, ValuesAssumption DEF Dropped, Expands, FunctionsAt

\* In the argument traversals a mark belongs to the one node of its instruction.
LEMMA MarkedWasVisited ==
  ASSUME NEW V \in SUBSET Nodes, MarkedIn(V), pc # "return", node \in Nodes,
         Deduplicated(node), Value[node] \in processed
  PROVE  node \in V
  BY ValuesAssumption DEF MarkedIn, Deduplicated

\* Visiting a node marks it, if anything.
LEMMA MarksVisited ==
  ASSUME NEW V, NEW x, x = node, MarkedIn(V), pc # "return",
         DropNode \/ VisitFunctionNode \/ VisitNode
  PROVE  MarkedIn(V \cup {x})'
<1>1. \/ processed' = processed
      \/ processed' = processed \cup {Value[node]} /\ Kind[node] = "instruction"
  BY DEF DropNode, VisitFunctionNode, VisitNode, VisitWith, MarkProcessed, Deduplicated
<1>2. QED BY <1>1 DEF MarkedIn

(***************************************************************************)
(* A forward traversal pops a node.                                        *)
(***************************************************************************)
LEMMA PopForward ==
  ASSUME TypeOK, pc = "forward", pc' # "aborted", NEW F, NEW B, ArgumentsExplored(F, B),
         DropNode \/ VisitFunctionNode \/ VisitNode, NEW x, x = node
  PROVE  ArgumentsExplored(F \cup {x}, B)'
<1>0. /\ Visiting /\ x \in Nodes /\ pc' = pc
      /\ UNCHANGED <<edges, annotation, arg>>
  BY DEF TypeOK, DropNode, VisitFunctionNode, VisitNode, VisitWith, Visiting, node
<1>1. /\ Explored(F, Elements(worklist), ArgumentsUpTo(arg), Graph) /\ Graph = Forth
      /\ Explored(B, Elements(backward), StoredIn(F), Back)
      /\ MarkedIn(F) /\ F \in SUBSET Nodes
      /\ RelatedFunctions = FunctionsOf(F) \cup PassedTo(F) \cup FunctionsOf(B)
  BY DEF ArgumentsExplored, WaitingForward, WaitingBackward, Graph, Explored
<1>2. Deduplicated(x) /\ Value[x] \in processed => x \in F
  BY <1>0, <1>1, MarkedWasVisited
<1>3. Explored(F \cup {x}, Elements(worklist'), ArgumentsUpTo(arg), Forth)
  BY <1>0, <1>1, <1>2, PopExplores
<1>4. DropNode => x \in F \/ (~Expands(x) /\ FunctionsAt(x) = {})
  BY <1>2, DroppedAccountsForNothing
<1>5. /\ StoredIn(F \cup {x}) = StoredIn(F) \cup StoredBy(x)
      /\ FunctionsOf(F \cup {x}) = FunctionsOf(F) \cup FunctionsAt(x)
      /\ PassedTo(F \cup {x}) = PassedTo(F) \cup PassedBy(x)
  BY OneMoreNode
<1>6. ~Expands(x) => StoredBy(x) = {} /\ PassedBy(x) = {}
  BY <1>0, NotExpanded
<1>7. backward \in Seq(Nodes) /\ StoredBy(x) \in SUBSET Nodes
  BY <1>0, NodeFacts DEF TypeOK, StoredBy
<1>8. x \in F => F \cup {x} = F
  OBVIOUS
<1>9. PICK X \in SUBSET Nodes : /\ StoredIn(F \cup {x}) = StoredIn(F) \cup X
                                /\ Elements(backward') = Elements(backward) \cup X
  <2>1. CASE DropNode
    <3>1. Elements(backward') = Elements(backward) \cup {}
      BY <2>1 DEF DropNode
    <3>2. StoredIn(F \cup {x}) = StoredIn(F) \cup {}
      BY <1>4, <1>5, <1>6, <1>8, <2>1
    <3>3. QED BY <3>1, <3>2
  <2>2. CASE VisitFunctionNode
    <3>1. Elements(backward') = Elements(backward) \cup {} /\ ~Expands(x)
      BY <2>2 DEF VisitFunctionNode, Expands
    <3>2. StoredIn(F \cup {x}) = StoredIn(F) \cup {}
      BY <1>5, <1>6, <3>1
    <3>3. QED BY <3>1, <3>2
  <2>3. CASE VisitNode
    <3>1. Expands(x)
      BY <2>3 DEF VisitNode, VisitWith, Dropped, Expands
    <3>2. backward' = IF StoredValue[x] # NoNode THEN Append(backward, StoredValue[x]) ELSE backward
      BY <2>3 DEF VisitNode, VisitWith
    <3>3. Elements(backward') = Elements(backward) \cup StoredBy(x)
      <4>1. CASE StoredValue[x] # NoNode
        <5>1. StoredValue[x] \in Nodes
          BY <1>0, <4>1, NodeFacts
        <5>2. QED BY <1>7, <3>1, <3>2, <4>1, <5>1, ElementsOfAppend DEF StoredBy
      <4>2. CASE StoredValue[x] = NoNode
        BY <3>2, <4>2 DEF StoredBy
      <4>3. QED BY <4>1, <4>2
    <3>4. QED BY <1>5, <1>7, <3>3
  <2>4. QED BY <2>1, <2>2, <2>3
<1>10. Explored(B, Elements(backward'), StoredIn(F \cup {x}), Back)
  <2> DEFINE W == Elements(backward)
  <2>1. Explored(B, W, StoredIn(F), Back)
    BY <1>1
  <2> HIDE DEF W
  <2>2. Explored(B, W \cup X, StoredIn(F) \cup X, Back)
    BY <2>1, GraphsTyped, ExploreMore
  <2>3. QED BY <1>9, <2>2 DEF W
<1>11. RelatedFunctions' =
         FunctionsOf(F \cup {x}) \cup PassedTo(F \cup {x}) \cup FunctionsOf(B)
  <2>1. CASE DropNode
    <3>1. RelatedFunctions' = RelatedFunctions
      BY <2>1 DEF DropNode, RelatedFunctions
    <3>2. QED BY <1>1, <1>4, <1>5, <1>6, <1>8, <2>1, <3>1
  <2>2. CASE VisitFunctionNode
    <3>1. RelatedFunctions' = RelatedFunctions \cup FunctionsAt(x) /\ ~Expands(x)
      BY <2>2, VisitedFunctionRelates DEF VisitFunctionNode, Expands
    <3>2. QED BY <1>1, <1>5, <1>6, <3>1
  <2>3. CASE VisitNode
    <3>1. RelatedFunctions' = RelatedFunctions \cup PassedBy(x) /\ FunctionsAt(x) = {}
      BY <2>3, VisitedNodeRelates
    <3>2. QED BY <1>1, <1>5, <3>1
  <2>4. QED BY <2>1, <2>2, <2>3
<1>12. MarkedIn(F \cup {x})'
  BY <1>1, MarksVisited
<1>13. /\ Forth' = Forth /\ Back' = Back /\ PassedTo(F \cup {x})' = PassedTo(F \cup {x})
       /\ ArgumentsUpTo(arg)' = ArgumentsUpTo(arg)
  BY <1>0, GraphsKept DEF ArgumentsUpTo
<1>14. WaitingForward' = Elements(worklist') /\ WaitingBackward' = Elements(backward')
  BY <1>0 DEF WaitingForward, WaitingBackward, Elements
<1>15. QED BY <1>0, <1>3, <1>10, <1>11, <1>12, <1>13, <1>14 DEF ArgumentsExplored

(***************************************************************************)
(* A backward traversal pops a node.                                       *)
(***************************************************************************)
LEMMA PopBackward ==
  ASSUME TypeOK, pc = "backward", pc' # "aborted", NEW F, NEW B, ArgumentsExplored(F, B),
         DropNode \/ VisitFunctionNode \/ VisitNode, NEW x, x = node
  PROVE  ArgumentsExplored(F, B \cup {x})'
<1>0. /\ Visiting /\ x \in Nodes /\ pc' = pc
      /\ UNCHANGED <<edges, annotation, arg>>
  BY DEF TypeOK, DropNode, VisitFunctionNode, VisitNode, VisitWith, Visiting, node
<1>1. /\ Explored(F, {}, ArgumentsUpTo(arg), Forth)
      /\ Explored(B, Elements(worklist), StoredIn(F), Graph) /\ Graph = Back
      /\ MarkedIn(B) /\ B \in SUBSET Nodes
      /\ RelatedFunctions = FunctionsOf(F) \cup PassedTo(F) \cup FunctionsOf(B)
  BY DEF ArgumentsExplored, WaitingForward, WaitingBackward, Graph, Explored
<1>2. Deduplicated(x) /\ Value[x] \in processed => x \in B
  BY <1>0, <1>1, MarkedWasVisited
<1>3. Explored(B \cup {x}, Elements(worklist'), StoredIn(F), Back)
  BY <1>0, <1>1, <1>2, PopExplores
<1>4. FunctionsOf(B \cup {x}) = FunctionsOf(B) \cup FunctionsAt(x)
  BY OneMoreNode
<1>5. RelatedFunctions' = RelatedFunctions \cup FunctionsAt(x)
  <2>1. CASE DropNode
    <3>1. RelatedFunctions' = RelatedFunctions
      BY <2>1 DEF DropNode, RelatedFunctions
    <3>2. x \in B \/ FunctionsAt(x) = {}
      BY <1>2, <2>1, DroppedAccountsForNothing
    <3>3. x \in B => FunctionsAt(x) \subseteq FunctionsOf(B)
      BY DEF FunctionsAt, FunctionsOf
    <3>4. QED BY <1>1, <3>1, <3>2, <3>3
  <2>2. CASE VisitFunctionNode
    BY <2>2, VisitedFunctionRelates
  <2>3. CASE VisitNode
    BY <2>3, VisitedNodeRelates
  <2>4. QED BY <2>1, <2>2, <2>3
<1>6. MarkedIn(B \cup {x})'
  BY <1>1, MarksVisited
<1>7. /\ Forth' = Forth /\ Back' = Back /\ PassedTo(F)' = PassedTo(F)
      /\ ArgumentsUpTo(arg)' = ArgumentsUpTo(arg)
  BY <1>0, GraphsKept DEF ArgumentsUpTo
<1>8. WaitingForward' = {} /\ WaitingBackward' = Elements(worklist')
  BY <1>0 DEF WaitingForward, WaitingBackward, Elements
<1>9. RelatedFunctions' = FunctionsOf(F) \cup PassedTo(F) \cup FunctionsOf(B \cup {x})
  BY <1>1, <1>4, <1>5
<1>10. QED BY <1>0, <1>1, <1>3, <1>6, <1>7, <1>8, <1>9 DEF ArgumentsExplored

(***************************************************************************)
(* The return traversal pops a node; of the nodes it reaches no two may    *)
(* share a value.                                                          *)
(***************************************************************************)
LEMMA PopReturn ==
  ASSUME TypeOK, pc = "return", pc' # "aborted", NEW B, ReturnsExplored(B),
         DistinctValues(ReturnReach),
         DropNode \/ VisitFunctionNode \/ VisitNode, NEW x, x = node
  PROVE  ReturnsExplored(B \cup {x})'
<1>0. /\ Visiting /\ x \in Nodes /\ pc' = pc /\ worklist # << >> /\ worklist \in Seq(Nodes)
      /\ UNCHANGED <<edges, annotation, arg>>
  BY DEF TypeOK, DropNode, VisitFunctionNode, VisitNode, VisitWith, Visiting, node
<1>1. /\ Explored(B, Elements(worklist), Elements(Returns), Graph) /\ Graph = BackFromReturn
      /\ B \in SUBSET Nodes
      /\ RelatedFunctions = FunctionsOf(B)
  BY DEF ReturnsExplored, Graph, Explored
<1>2. B \cup Elements(worklist) \subseteq ReturnReach
  <2>1. ReturnReach = ReachFrom(Elements(Returns), BackFromReturn)
    BY DEF ReturnReach, Elements
  <2>2. /\ ReturnReach \in SUBSET Nodes /\ Elements(Returns) \subseteq ReturnReach
        /\ Closed(ReturnReach, BackFromReturn)
    BY <2>1, SourcesAreNodes, GraphsTyped, ReachIsLeast
  <2>3. QED BY <1>1, <2>2 DEF Explored, Within
<1>3. x \in Elements(worklist)
  BY <1>0, ElementsOf DEF node
<1>4. Deduplicated(x) /\ Value[x] \in processed => x \in B
  BY <1>2, <1>3 DEF ReturnsExplored, DistinctValues, Deduplicated
<1>5. Explored(B \cup {x}, Elements(worklist'), Elements(Returns), BackFromReturn)
  BY <1>0, <1>1, <1>4, PopExplores
<1>6. FunctionsOf(B \cup {x}) = FunctionsOf(B) \cup FunctionsAt(x)
  BY OneMoreNode
<1>7. RelatedFunctions' = RelatedFunctions \cup FunctionsAt(x)
  <2>1. CASE DropNode
    <3>1. RelatedFunctions' = RelatedFunctions
      BY <2>1 DEF DropNode, RelatedFunctions
    <3>2. x \in B \/ FunctionsAt(x) = {}
      BY <1>4, <2>1, DroppedAccountsForNothing
    <3>3. x \in B => FunctionsAt(x) \subseteq FunctionsOf(B)
      BY DEF FunctionsAt, FunctionsOf
    <3>4. QED BY <1>1, <3>1, <3>2, <3>3
  <2>2. CASE VisitFunctionNode
    BY <2>2, VisitedFunctionRelates
  <2>3. CASE VisitNode
    BY <2>3, VisitedNodeRelates
  <2>4. QED BY <2>1, <2>2, <2>3
<1>8. \A v \in processed' : \E n \in B \cup {x} : Value[n] = v
  <2>1. processed' = processed \/ processed' = processed \cup {Value[x]}
    BY DEF DropNode, VisitFunctionNode, VisitNode, VisitWith, MarkProcessed
  <2>2. QED BY <2>1 DEF ReturnsExplored
<1>9. BackFromReturn' = BackFromReturn /\ Elements(worklist)' = Elements(worklist')
  BY <1>0, GraphsKept DEF Elements
<1>10. QED BY <1>1, <1>5, <1>6, <1>7, <1>8, <1>9 DEF ReturnsExplored

(***************************************************************************)
(* The steps between the visits.                                           *)
(***************************************************************************)
LEMMA FindBegins ==
  ASSUME FindInv, TypeOK', StartArguments \/ StartReturns
  PROVE  FindInv'
<1>1. /\ pc \in {"arguments", "returns"} /\ arg = 0 /\ RelatedFunctions = {} /\ processed = {}
      /\ arg' = arg /\ processed' = processed /\ RelatedFunctions' = RelatedFunctions
      /\ pc' # "done"
  BY DEF FindInv, StartArguments, StartReturns, RelatedFunctions
<1>2. /\ Explored({}, {}, {}, Forth') /\ Explored({}, {}, {}, Back')
      /\ FunctionsOf({}) = {} /\ PassedTo({})' = {} /\ StoredIn({}) = {}
  BY DEF Explored, Within, FunctionsOf, PassedTo, StoredIn
<1>3. CASE StartArguments
  <2>1. ArgumentsUpTo(arg)' = {}
    BY <1>1 DEF ArgumentsUpTo
  <2>2. ArgumentsExplored({}, {})'
    BY <1>1, <1>2, <1>3, <2>1
       DEF ArgumentsExplored, WaitingForward, WaitingBackward, StartArguments
  <2>3. annotation'.arguments # << >>
    BY <1>3 DEF StartArguments, CanPartitionArguments
  <2>4. QED BY <1>1, <1>3, <2>2, <2>3 DEF FindInv, StartArguments, FindsAllReachable
<1>4. CASE StartReturns
  <2> DEFINE W == Elements(Returns)
  <2>1. W \in SUBSET Nodes /\ Elements(worklist') = W
    BY <1>4, SourcesAreNodes, ElementsOf DEF StartReturns, FindInv
  <2>2. Explored({}, W, W, BackFromReturn')
    <3> HIDE DEF W
    <3>1. QED BY <2>1 DEF Explored, Within
  <2>3. Elements(worklist)' = Elements(worklist')
    BY DEF Elements
  <2>4. ReturnsExplored({})'
    BY <1>1, <1>2, <2>1, <2>2, <2>3 DEF ReturnsExplored, Elements
  <2>5. pc' = "return"
    BY <1>4 DEF StartReturns
  <2>6. QED BY <1>1, <2>4, <2>5 DEF FindInv, FindsAllReachable
<1>5. QED BY <1>3, <1>4

LEMMA FindNextArgument ==
  ASSUME FindInv, TypeOK', StartForward
  PROVE  FindInv'
<1>1. /\ pc = "nextArgument" /\ pc' = "forward" /\ arg' = arg + 1 /\ arg + 1 <= Len(annotation.arguments)
      /\ worklist' = <<annotation.arguments[arg + 1]>> /\ backward' = << >> /\ processed' = {}
      /\ UNCHANGED <<edges, annotation, functions, related>>
  BY SourcesAreNodes DEF FindInv, StartForward
<1>2. PICK F, B : ArgumentsExplored(F, B)
  BY <1>1 DEF FindInv
<1> DEFINE a == annotation.arguments[arg + 1]
<1>3. arg \in Nat /\ arg + 1 \in 1 .. Len(annotation.arguments) /\ a \in Nodes
  BY <1>1, SourcesAreNodes DEF FindInv
<1>4. Elements(worklist') = {a} /\ Elements(backward') = {}
  BY <1>1 DEF Elements
<1>5. ArgumentsUpTo(arg)' = ArgumentsUpTo(arg) \cup {a}
  <2>1. 1 .. arg + 1 = (1 .. arg) \cup {arg + 1}
    BY <1>3
  <2>2. ArgumentsUpTo(arg)' = {annotation.arguments[i] : i \in 1 .. arg + 1}
    BY <1>1 DEF ArgumentsUpTo
  <2>3. QED BY <2>1, <2>2 DEF ArgumentsUpTo
<1> HIDE DEF a
<1>6. Explored(F, {}, ArgumentsUpTo(arg), Forth) /\ Explored(B, {}, StoredIn(F), Back)
  BY <1>1, <1>2 DEF ArgumentsExplored, WaitingForward, WaitingBackward
<1>7. Explored(F, {} \cup {a}, ArgumentsUpTo(arg) \cup {a}, Forth)
  BY <1>3, <1>6, GraphsTyped, ExploreMore
<1>8. {} \cup {a} = {a}
  OBVIOUS
<1>9. /\ Forth' = Forth /\ Back' = Back /\ PassedTo(F)' = PassedTo(F)
      /\ RelatedFunctions' = RelatedFunctions
  BY <1>1, GraphsKept DEF RelatedFunctions
<1>10. WaitingForward' = {a} /\ WaitingBackward' = {}
  BY <1>1, <1>4 DEF WaitingForward, WaitingBackward, Elements
<1>11. ArgumentsExplored(F, B)'
  BY <1>1, <1>2, <1>5, <1>6, <1>7, <1>8, <1>9, <1>10 DEF ArgumentsExplored, MarkedIn
<1>12. QED BY <1>1, <1>11 DEF FindInv, FindsAllReachable

LEMMA FindTurnsBack ==
  ASSUME FindInv, TypeOK', StartBackward
  PROVE  FindInv'
<1>1. /\ pc = "forward" /\ pc' = "backward" /\ worklist = << >> /\ worklist' = Reverse(backward)
      /\ processed' = {} /\ backward \in Seq(Nodes)
      /\ UNCHANGED <<edges, annotation, arg, functions, related>>
  BY DEF FindInv, TypeOK, StartBackward
<1>2. PICK F, B : ArgumentsExplored(F, B)
  BY <1>1 DEF FindInv
<1>3. Elements(worklist) = {} /\ Elements(worklist') = Elements(backward)
  <2>1. Elements(Reverse(backward)) = Elements(backward)
    BY <1>1, ElementsOf
  <2>2. Elements(worklist) = {}
    BY <1>1 DEF Elements
  <2>3. QED BY <1>1, <2>1, <2>2
<1>4. WaitingForward' = WaitingForward /\ WaitingBackward' = WaitingBackward
  BY <1>1, <1>3 DEF WaitingForward, WaitingBackward, Elements
<1>5. /\ Forth' = Forth /\ Back' = Back /\ PassedTo(F)' = PassedTo(F)
      /\ RelatedFunctions' = RelatedFunctions /\ ArgumentsUpTo(arg)' = ArgumentsUpTo(arg)
  BY <1>1, GraphsKept DEF RelatedFunctions, ArgumentsUpTo
<1>6. ArgumentsExplored(F, B)'
  BY <1>1, <1>2, <1>4, <1>5 DEF ArgumentsExplored, MarkedIn
<1>7. QED BY <1>1, <1>6 DEF FindInv, FindsAllReachable

(***************************************************************************)
(* At the end nothing waits: what was visited is what is reachable.        *)
(***************************************************************************)
LEMMA FindEnds ==
  ASSUME FindInv, TypeOK', Finish
  PROVE  FindInv'
<1>0. UNCHANGED <<edges, annotation, arg, worklist, backward, processed, functions, related>>
  BY DEF Finish
<1>1. /\ Forth' = Forth /\ Back' = Back /\ BackFromReturn' = BackFromReturn
      /\ ReturnReach' = ReturnReach /\ \A F : PassedTo(F)' = PassedTo(F)
      /\ RelatedFunctions' = RelatedFunctions /\ ArgumentsUpTo(arg)' = ArgumentsUpTo(arg)
  BY <1>0, GraphsKept DEF RelatedFunctions, ArgumentsUpTo
<1>2. CASE pc = "backward" /\ worklist = << >> /\ pc' = "nextArgument"
  <2>1. PICK F, B : ArgumentsExplored(F, B)
    BY <1>2 DEF FindInv
  <2>2. WaitingForward' = WaitingForward /\ WaitingBackward' = WaitingBackward
    BY <1>2 DEF WaitingForward, WaitingBackward, Elements
  <2>3. ArgumentsExplored(F, B)'
    BY <1>0, <1>1, <1>2, <2>1, <2>2 DEF ArgumentsExplored
  <2>4. QED BY <1>0, <1>2, <2>3 DEF FindInv, FindsAllReachable
<1>3. CASE pc = "nextArgument" /\ arg = Len(annotation.arguments) /\ pc' = "done"
  <2>1. PICK F, B : ArgumentsExplored(F, B)
    BY <1>3 DEF FindInv
  <2>2. Explored(F, {}, ArgumentsUpTo(arg), Forth) /\ Explored(B, {}, StoredIn(F), Back)
    BY <1>3, <2>1 DEF ArgumentsExplored, WaitingForward, WaitingBackward
  <2>3. F = ReachFrom(ArgumentsUpTo(arg), Forth) /\ B = ReachFrom(StoredIn(F), Back)
    BY <2>2, GraphsTyped, ExploreEnds
  <2>4. F = ForwardReach
    BY <2>3 DEF ForwardReach, ArgumentsUpTo
  <2>5. RelatedFunctions = FromArguments
    BY <2>1, <2>3, <2>4 DEF ArgumentsExplored, FromArguments
  <2>6. ForwardReach' = ForwardReach
    BY <1>0, <1>1 DEF ForwardReach
  <2>7. FromArguments' = FromArguments
    BY <1>1, <2>6 DEF FromArguments
  <2>8. arg > 0
    <3>1. annotation.arguments \in Seq(Nodes) /\ annotation.arguments # << >>
      BY <1>3, SourcesAreNodes DEF FindInv
    <3>2. QED BY <1>3, <3>1
  <2>9. QED BY <1>0, <1>1, <1>3, <2>5, <2>7, <2>8 DEF FindInv, FindsAllReachable
<1>4. CASE pc = "return" /\ worklist = << >> /\ pc' = "done"
  <2>1. ASSUME DistinctValues(ReturnReach) PROVE RelatedFunctions = FunctionsOf(ReturnReach)
    <3>1. PICK B : ReturnsExplored(B)
      BY <1>4, <2>1 DEF FindInv
    <3>2. Elements(worklist) = {}
      BY <1>4 DEF Elements
    <3>3. B = ReachFrom(Elements(Returns), BackFromReturn)
      BY <3>1, <3>2, GraphsTyped, ExploreEnds DEF ReturnsExplored
    <3>4. QED BY <3>1, <3>3 DEF ReturnsExplored, ReturnReach, Elements
  <2>2. arg = 0 /\ ~(arg > 0)
    BY <1>4 DEF FindInv
  <2>3. DistinctValues(ReturnReach)' = DistinctValues(ReturnReach)
    BY <1>1 DEF DistinctValues
  <2>4. FindsAllReachable'
    BY <1>0, <1>1, <2>1, <2>2, <2>3 DEF FindsAllReachable
  <2>5. QED BY <1>4, <2>4 DEF FindInv
<1>5. QED BY <1>2, <1>3, <1>4 DEF Finish

\* Popping a node, in each of the three traversals.
LEMMA FindPops ==
  ASSUME FindInv, TypeOK', DropNode \/ VisitFunctionNode \/ VisitNode
  PROVE  FindInv'
<1>1. /\ Visiting /\ pc' \in {pc, "aborted"}
      /\ UNCHANGED <<edges, annotation, arg, functions>>
  BY DEF DropNode, VisitFunctionNode, VisitNode, VisitWith
<1>2. pc \in {"forward", "backward", "return"}
  BY <1>1 DEF Visiting
<1>3. FindsAllReachable'
  BY <1>1, <1>2 DEF FindsAllReachable
<1>4. CASE pc' = "aborted"
  BY <1>3, <1>4 DEF FindInv
<1>5. CASE pc' # "aborted" /\ pc = "forward"
  <2>1. PICK F, B : ArgumentsExplored(F, B)
    BY <1>5 DEF FindInv
  <2>2. PICK x : x = node
    OBVIOUS
  <2>3. ArgumentsExplored(F \cup {x}, B)'
    BY <1>5, <2>1, <2>2, PopForward DEF FindInv
  <2>4. QED BY <1>1, <1>3, <1>5, <2>3 DEF FindInv
<1>6. CASE pc' # "aborted" /\ pc = "backward"
  <2>1. PICK F, B : ArgumentsExplored(F, B)
    BY <1>6 DEF FindInv
  <2>2. PICK x : x = node
    OBVIOUS
  <2>3. ArgumentsExplored(F, B \cup {x})'
    BY <1>6, <2>1, <2>2, PopBackward DEF FindInv
  <2>4. QED BY <1>1, <1>3, <1>6, <2>3 DEF FindInv
<1>7. CASE pc' # "aborted" /\ pc = "return"
  <2>1. DistinctValues(ReturnReach)' = DistinctValues(ReturnReach)
    BY <1>1, GraphsKept DEF DistinctValues
  <2>2. ASSUME DistinctValues(ReturnReach) PROVE \E B : ReturnsExplored(B)'
    <3>1. PICK B : ReturnsExplored(B)
      BY <1>7, <2>2 DEF FindInv
    <3>2. PICK x : x = node
      OBVIOUS
    <3>3. ReturnsExplored(B \cup {x})'
      BY <1>7, <2>2, <3>1, <3>2, PopReturn DEF FindInv
    <3>4. QED BY <3>3
  <2>3. QED BY <1>1, <1>3, <1>7, <2>1, <2>2 DEF FindInv
<1>8. QED BY <1>2, <1>4, <1>5, <1>6, <1>7

\* The invariant is inductive.
LEMMA FindStep == FindInv /\ [Next]_vars => FindInv'
<1> SUFFICES ASSUME FindInv, [Next]_vars PROVE FindInv'
  OBVIOUS
<1>0. TypeOK'
  BY TypeStep DEF FindInv
<1>1. CASE Refuse
  BY <1>0, <1>1 DEF Refuse, FindInv, FindsAllReachable
<1>2. CASE StartArguments \/ StartReturns
  BY <1>0, <1>2, FindBegins
<1>3. CASE StartForward
  BY <1>0, <1>3, FindNextArgument
<1>4. CASE StartBackward
  BY <1>0, <1>4, FindTurnsBack
<1>5. CASE Finish
  BY <1>0, <1>5, FindEnds
<1>6. CASE DropNode \/ VisitFunctionNode \/ VisitNode
  BY <1>0, <1>6, FindPops
<1>7. CASE UNCHANGED vars
  <2>1. /\ UNCHANGED <<edges, annotation, pc, arg, worklist, backward, processed, levels>>
        /\ UNCHANGED <<functions, related>>
    BY <1>7 DEF vars
  <2>2. /\ Forth' = Forth /\ Back' = Back /\ BackFromReturn' = BackFromReturn
        /\ ReturnReach' = ReturnReach /\ \A F : PassedTo(F)' = PassedTo(F)
    BY <2>1, GraphsKept
  <2>3. /\ RelatedFunctions' = RelatedFunctions /\ ArgumentsUpTo(arg)' = ArgumentsUpTo(arg)
        /\ WaitingForward' = WaitingForward /\ WaitingBackward' = WaitingBackward
        /\ Elements(worklist)' = Elements(worklist)
        /\ DistinctValues(ReturnReach)' = DistinctValues(ReturnReach)
    BY <2>1, <2>2 DEF RelatedFunctions, ArgumentsUpTo, WaitingForward, WaitingBackward,
                      Elements, DistinctValues
  <2>4. \A F, B : ArgumentsExplored(F, B) => ArgumentsExplored(F, B)'
    BY <2>1, <2>2, <2>3 DEF ArgumentsExplored, MarkedIn
  <2>5. \A B : ReturnsExplored(B) => ReturnsExplored(B)'
    BY <2>1, <2>2, <2>3 DEF ReturnsExplored
  <2>6. FindsAllReachable'
    <3>1. ForwardReach' = ForwardReach
      BY <2>1, <2>2 DEF ForwardReach
    <3>2. FromArguments' = FromArguments
      BY <2>2, <3>1 DEF FromArguments
    <3>3. QED BY <2>1, <2>2, <2>3, <3>2 DEF FindInv, FindsAllReachable
  <2>7. QED BY <1>0, <2>1, <2>3, <2>4, <2>5, <2>6 DEF FindInv
<1>8. QED BY <1>1, <1>2, <1>3, <1>4, <1>5, <1>6, <1>7 DEF Next

(***************************************************************************)
(* In every dependence graph a finished traversal of the arguments has     *)
(* related exactly the functions reachable forward from them, those their  *)
(* pointers are passed to, and those reachable backward from what was      *)
(* stored; one of the returns exactly the functions reachable backward     *)
(* from them, where no two of the nodes it reaches share a value.          *)
(***************************************************************************)
THEOREM ReachableFunctionsFound == Spec => []FindsAllReachable
<1>1. Init => FindInv
  <2> SUFFICES ASSUME Init PROVE FindInv
    OBVIOUS
  <2>1. RelatedFunctions = {}
    BY DEF Init, RelatedFunctions
  <2>2. QED BY <2>1, TypeInit DEF Init, FindInv, FindsAllReachable
<1>2. FindInv => FindsAllReachable
  BY DEF FindInv
<1>3. QED BY <1>1, <1>2, FindStep, PTL DEF Spec
=============================================================================
