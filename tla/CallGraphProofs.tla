--------------------------- MODULE CallGraphProofs ---------------------------
(***************************************************************************)
(* Machine-checked facts about the call graph and its weights, for every   *)
(* module, every order its functions and its calls come in and every cost  *)
(* of a loop: the two copies of an edge stay paired, the numbers of calls  *)
(* are what they should be, and normalizing turns no order around.         *)
(*                                                                         *)
(* Only children is asked before an edge is added, so the first proof has  *)
(* to know that the three collections of edges agree at all times: the     *)
(* caller's list has exactly the children, and the callee's list exactly   *)
(* the functions whose child it is.                                        *)
(*                                                                         *)
(* The number of calls is folded over the call sites in their order; what  *)
(* it is for every program is shown by induction over the subsets of them, *)
(* from the recursion that defines the fold.  The weights then are known   *)
(* at every moment: the numbers themselves, or these numbers scaled by the *)
(* least and the greatest of them.                                         *)
(*                                                                         *)
(* The optimization and the statistics of WeighedSplit read the graph and  *)
(* never change it, so that the same holds of the two together.  Their     *)
(* sums are added up in units of one common denominator: a sum that meets  *)
(* no infinity is exact, whatever the order.  With that the reported       *)
(* context switches are compared with the calls across the border, and     *)
(* what the solver moves with every other enclave.                         *)
(***************************************************************************)
EXTENDS WeighedSplit, FiniteSetTheorems, WellFoundedInduction, TLAPS

GraphTypeOK ==
  /\ program \in Programs
  /\ nodes \subseteq Functions
  /\ children \in [Functions -> SUBSET Functions]
  /\ outEdges \in [Functions -> Seq(Functions)]
  /\ inEdges \in [Functions -> Seq(Functions)]

EdgesAgree ==
  /\ \A f \in Functions : NoRepeats(outEdges[f]) /\ NoRepeats(inEdges[f])
  /\ \A f \in Functions : ToSet(outEdges[f]) = children[f]
  /\ \A f, h \in Functions : f \in ToSet(inEdges[h]) <=> h \in children[f]
  /\ \A f, h \in Functions : h \in children[f] => {f, h} \subseteq nodes

(***************************************************************************)
(* A function has its node unless its turn is still to come; the calls to  *)
(* be added are those of a function whose turn has been.                   *)
(***************************************************************************)
NodesAdvance ==
  /\ todo \subseteq Functions \cup {NoFunction}
  /\ Functions \ todo \subseteq nodes
  /\ \A k \in pending : /\ k \in DOMAIN program.calls
                        /\ program.calls[k].caller \in nodes
  /\ pc # "create" => nodes = Functions

GraphInv == GraphTypeOK /\ EdgesAgree /\ NodesAdvance

(***************************************************************************)
(* A list without repetitions has none after something new is put at its   *)
(* end, and then holds that as well.                                       *)
(***************************************************************************)
LEMMA AppendNew ==
  ASSUME NEW S, NEW s \in Seq(S), NEW x \in S
  PROVE  /\ Append(s, x) \in Seq(S)
         /\ ToSet(Append(s, x)) = ToSet(s) \cup {x}
         /\ NoRepeats(s) /\ x \notin ToSet(s) => NoRepeats(Append(s, x))
<1>1. /\ Append(s, x) \in Seq(S)
      /\ Len(s) \in Nat /\ Len(Append(s, x)) = Len(s) + 1
      /\ DOMAIN s = 1 .. Len(s) /\ DOMAIN Append(s, x) = 1 .. Len(s) + 1
      /\ Append(s, x)[Len(s) + 1] = x
      /\ \A k \in 1 .. Len(s) : Append(s, x)[k] = s[k]
  OBVIOUS
<1>2. 1 .. Len(s) + 1 = (1 .. Len(s)) \cup {Len(s) + 1}
  BY <1>1
<1>3. ToSet(Append(s, x)) = ToSet(s) \cup {x}
  BY <1>1, <1>2 DEF ToSet
<1>4. ASSUME NoRepeats(s), x \notin ToSet(s) PROVE NoRepeats(Append(s, x))
  BY <1>1, <1>2, <1>4 DEF NoRepeats, ToSet
<1>5. QED BY <1>1, <1>3, <1>4

LEMMA GraphInvInit == Init => GraphInv
<1> SUFFICES ASSUME Init PROVE GraphInv
  OBVIOUS
<1>1. /\ program \in Programs /\ nodes = {} /\ pending = {} /\ pc = "create"
      /\ todo = Functions \cup {NoFunction}
      /\ children = [f \in Functions |-> {}]
      /\ outEdges = [f \in Functions |-> << >>]
      /\ inEdges = [f \in Functions |-> << >>]
  BY DEF Init
<1>2. GraphTypeOK
  BY <1>1 DEF GraphTypeOK
<1>3. ToSet(<< >>) = {} /\ NoRepeats(<< >>)
  BY DEF ToSet, NoRepeats
<1>4. EdgesAgree
  BY <1>1, <1>3 DEF EdgesAgree
<1>5. NodesAdvance
  BY <1>1 DEF NodesAdvance
<1>6. QED BY <1>2, <1>4, <1>5 DEF GraphInv

LEMMA VisitNodeKeeps ==
  ASSUME GraphInv, NEW n \in todo, VisitNode(n)
  PROVE  GraphInv'
<1> USE DEF GraphInv
<1>1. /\ program' = program /\ pc = "create" /\ pc' = pc /\ todo' = todo \ {n}
      /\ children' = children /\ outEdges' = outEdges /\ inEdges' = inEdges
  BY DEF VisitNode
<1>2. CASE n = NoFunction
  <2>1. nodes' = nodes /\ pending' = pending
    BY <1>2 DEF VisitNode
  <2>2. NoFunction \notin Functions
    BY ProgramsAssumption
  <2>3. GraphTypeOK' /\ EdgesAgree'
    BY <1>1, <2>1 DEF GraphTypeOK, EdgesAgree
  <2>4. NodesAdvance'
    BY <1>1, <1>2, <2>1, <2>2 DEF NodesAdvance
  <2>5. QED BY <2>3, <2>4
<1>3. CASE n # NoFunction
  <2>1. nodes' = nodes \cup {n} /\ pending' = CallsFrom(n)
    BY <1>3 DEF VisitNode
  <2>2. n \in Functions
    BY <1>3 DEF NodesAdvance
  <2>3. GraphTypeOK' /\ EdgesAgree'
    BY <1>1, <2>1, <2>2 DEF GraphTypeOK, EdgesAgree
  <2>4. NodesAdvance'
    BY <1>1, <2>1 DEF NodesAdvance, CallsFrom
  <2>5. QED BY <2>3, <2>4
<1>4. QED BY <1>2, <1>3

(***************************************************************************)
(* A call adds an edge at both ends, or at neither.                        *)
(***************************************************************************)
LEMMA ConnectKeeps ==
  ASSUME GraphTypeOK, EdgesAgree, NEW f \in nodes, NEW h \in Functions,
         nodes' = nodes \cup {h}, program' = program, Connect(f, h)
  PROVE  GraphTypeOK' /\ EdgesAgree'
<1>1. f \in Functions
  BY DEF GraphTypeOK
<1>2. CASE h \in children[f]
  <2>1. children' = children /\ outEdges' = outEdges /\ inEdges' = inEdges
    BY <1>2 DEF Connect
  <2>2. QED BY <2>1 DEF GraphTypeOK, EdgesAgree
<1>3. CASE h \notin children[f]
  <2>1. /\ children' = [children EXCEPT ![f] = @ \cup {h}]
        /\ outEdges' = [outEdges EXCEPT ![f] = Append(@, h)]
        /\ inEdges' = [inEdges EXCEPT ![h] = Append(@, f)]
    BY <1>3 DEF Connect
  <2>2. outEdges[f] \in Seq(Functions) /\ inEdges[h] \in Seq(Functions)
    BY <1>1 DEF GraphTypeOK
  <2>3. h \notin ToSet(outEdges[f]) /\ f \notin ToSet(inEdges[h])
    BY <1>1, <1>3 DEF EdgesAgree
  <2>4. /\ outEdges'[f] \in Seq(Functions) /\ NoRepeats(outEdges'[f])
        /\ ToSet(outEdges'[f]) = ToSet(outEdges[f]) \cup {h}
    <3>1. outEdges'[f] = Append(outEdges[f], h)
      BY <1>1, <2>1 DEF GraphTypeOK
    <3>2. NoRepeats(outEdges[f])
      BY <1>1 DEF EdgesAgree
    <3>3. QED BY <2>2, <2>3, <3>1, <3>2, AppendNew
  <2>5. /\ inEdges'[h] \in Seq(Functions) /\ NoRepeats(inEdges'[h])
        /\ ToSet(inEdges'[h]) = ToSet(inEdges[h]) \cup {f}
    <3>1. inEdges'[h] = Append(inEdges[h], f)
      BY <2>1 DEF GraphTypeOK
    <3>2. NoRepeats(inEdges[h])
      BY DEF EdgesAgree
    <3>3. QED BY <1>1, <2>2, <2>3, <3>1, <3>2, AppendNew
  <2>6. /\ \A g \in Functions : g # f => outEdges'[g] = outEdges[g]
        /\ \A g \in Functions : g # h => inEdges'[g] = inEdges[g]
        /\ \A g \in Functions : children'[g] =
             IF g = f THEN children[f] \cup {h} ELSE children[g]
    BY <2>1 DEF GraphTypeOK
  <2>7. GraphTypeOK'
    <3>1. children' \in [Functions -> SUBSET Functions]
      BY <1>1, <2>1 DEF GraphTypeOK
    <3>2. outEdges' \in [Functions -> Seq(Functions)]
      BY <2>1, <2>4, <2>6 DEF GraphTypeOK
    <3>3. inEdges' \in [Functions -> Seq(Functions)]
      BY <2>1, <2>5, <2>6 DEF GraphTypeOK
    <3>4. QED BY <3>1, <3>2, <3>3 DEF GraphTypeOK
  <2>8. EdgesAgree'
    <3>1. \A g \in Functions : NoRepeats(outEdges'[g]) /\ NoRepeats(inEdges'[g])
      BY <2>4, <2>5, <2>6 DEF EdgesAgree
    <3>2. \A g \in Functions : ToSet(outEdges'[g]) = children'[g]
      BY <2>4, <2>6 DEF EdgesAgree
    <3>3. \A g, e \in Functions : g \in ToSet(inEdges'[e]) <=> e \in children'[g]
      BY <2>5, <2>6 DEF EdgesAgree
    <3>4. \A g, e \in Functions : e \in children'[g] => {g, e} \subseteq nodes'
      BY <2>6 DEF EdgesAgree
    <3>5. QED BY <3>1, <3>2, <3>3, <3>4 DEF EdgesAgree, NoRepeats, ToSet
  <2>9. QED BY <2>7, <2>8
<1>4. QED BY <1>2, <1>3

LEMMA AddNodeConnectionKeeps ==
  ASSUME GraphInv, NEW k \in pending, AddNodeConnection(k)
  PROVE  GraphInv'
<1> USE DEF GraphInv
<1> DEFINE call == program.calls[k]
<1>1. /\ program' = program /\ pc = "create" /\ pc' = pc /\ todo' = todo
      /\ pending' = pending \ {k}
  BY DEF AddNodeConnection
<1>2. call \in Calls /\ call.caller \in nodes
  BY ProgramsAssumption DEF GraphTypeOK, NodesAdvance
<1>3. CASE call.callee = NoFunction
  <2>1. UNCHANGED graph
    BY <1>3 DEF AddNodeConnection
  <2>2. /\ nodes' = nodes /\ children' = children
        /\ outEdges' = outEdges /\ inEdges' = inEdges
    BY <2>1 DEF graph
  <2>3. QED BY <1>1, <2>2 DEF GraphTypeOK, EdgesAgree, NodesAdvance
<1>4. CASE call.callee # NoFunction
  <2>1. nodes' = nodes \cup {call.callee} /\ Connect(call.caller, call.callee)
    BY <1>4 DEF AddNodeConnection
  <2>2. call.callee \in Functions
    BY <1>2, <1>4 DEF Calls
  <2>3. GraphTypeOK' /\ EdgesAgree'
    BY <1>1, <1>2, <2>1, <2>2, ConnectKeeps
  <2>4. NodesAdvance'
    BY <1>1, <2>1 DEF NodesAdvance
  <2>5. QED BY <2>3, <2>4
<1>5. QED BY <1>3, <1>4

(***************************************************************************)
(* The weights are given to a graph that does not change any more.         *)
(***************************************************************************)
LEMMA WeighingKeeps ==
  ASSUME GraphInv, UNCHANGED <<program, todo, pending, graph>>,
         pc # "create" \/ pc' = "create"
  PROVE  GraphInv'
BY DEF GraphInv, GraphTypeOK, EdgesAgree, NodesAdvance, graph

LEMMA FinishGraphKeeps ==
  ASSUME GraphInv, FinishGraph
  PROVE  GraphInv'
BY DEF GraphInv, GraphTypeOK, EdgesAgree, NodesAdvance, graph, FinishGraph

LEMMA GraphInvStep == GraphInv /\ [Next]_graphVars => GraphInv'
<1> SUFFICES ASSUME GraphInv, [Next]_graphVars PROVE GraphInv'
  OBVIOUS
<1>1. ASSUME NEW n \in todo, VisitNode(n) PROVE GraphInv'
  BY <1>1, VisitNodeKeeps
<1>2. ASSUME NEW k \in pending, AddNodeConnection(k) PROVE GraphInv'
  BY <1>2, AddNodeConnectionKeeps
<1>3. CASE FinishGraph
  BY <1>3, FinishGraphKeeps
<1>4. CASE AssignNodeWeights
  BY <1>4, WeighingKeeps DEF AssignNodeWeights
<1>5. CASE AssignCallNumWeights
  BY <1>5, WeighingKeeps DEF AssignCallNumWeights
<1>6. CASE AssignArgWeights
  BY <1>6, WeighingKeeps DEF AssignArgWeights
<1>7. CASE AssignRetValueWeights
  BY <1>7, WeighingKeeps DEF AssignRetValueWeights
<1>8. ASSUME NEW x \in Factors, Normalize(x) PROVE GraphInv'
  BY <1>8, WeighingKeeps DEF Normalize
<1>9. CASE FinishWeights
  BY <1>9, WeighingKeeps DEF FinishWeights
<1>10. CASE UNCHANGED graphVars
  BY <1>10, WeighingKeeps DEF graphVars
<1>11. QED
  BY <1>1, <1>2, <1>3, <1>4, <1>5, <1>6, <1>7, <1>8, <1>9, <1>10 DEF Next

LEMMA GraphInvPaired == GraphInv => EdgesPaired
BY DEF GraphInv, EdgesAgree, NodesAdvance, EdgesPaired

(***************************************************************************)
(* However often and in whatever order the calls come, an edge has exactly *)
(* one copy at either end, and every function of the module has its node   *)
(* when the weights are assigned (CallGraph::create).                      *)
(***************************************************************************)
THEOREM EdgesStayPaired == Spec => []EdgesPaired
<1>1. Spec => []GraphInv
  BY GraphInvInit, GraphInvStep, PTL DEF Spec
<1>2. QED BY <1>1, GraphInvPaired, PTL

LEMMA SplitStepsGraph == [SplitNext]_vars => [Next]_graphVars
<1> SUFFICES ASSUME [SplitNext]_vars PROVE [Next]_graphVars
  OBVIOUS
<1>1. CASE Weigh
  BY <1>1 DEF Weigh
<1>2. CASE StartOptimization \/ StartStatistics \/ RunIlp \/ ApplyIlp
  BY <1>2 DEF StartOptimization, StartStatistics, RunIlp, ApplyIlp
<1>3. CASE ReportSecure
  BY <1>3 DEF ReportSecure, ReportPartition
<1>4. CASE ReportInsecure
  BY <1>4 DEF ReportInsecure, ReportPartition
<1>5. CASE UNCHANGED vars
  BY <1>5 DEF vars
<1>6. QED BY <1>1, <1>2, <1>3, <1>4, <1>5 DEF SplitNext

(***************************************************************************)
(* The same with everything that is done to the weighed graph afterwards   *)
(* (ProgramPartition::optimize and dumpStats).                             *)
(***************************************************************************)
THEOREM EdgesStayPairedInSplit == SplitSpec => []EdgesPaired
<1>1. SplitInit => GraphInv
  BY GraphInvInit DEF SplitInit
<1>2. GraphInv /\ [SplitNext]_vars => GraphInv'
  BY SplitStepsGraph, GraphInvStep
<1>3. SplitSpec => []GraphInv
  BY <1>1, <1>2, PTL DEF SplitSpec
<1>4. QED BY <1>3, GraphInvPaired, PTL

-----------------------------------------------------------------------------
(***************************************************************************)
(* Induction over the subsets of a finite set, for a set P of subsets: if  *)
(* a subset is in P whenever all smaller ones are, all are.                *)
(***************************************************************************)
LEMMA SubsetInduction ==
  ASSUME NEW S, IsFiniteSet(S), NEW P,
         \A T \in SUBSET S : (\A U \in SUBSET T : U # T => U \in P) => T \in P
  PROVE  \A T \in SUBSET S : T \in P
<1> DEFINE Others == {T \in SUBSET S : T \notin P}
<1> DEFINE R == StrictSubsetOrdering(S)
<1> SUFFICES ASSUME Others # {} PROVE FALSE
  OBVIOUS
<1>1. IsWellFoundedOn(R, SUBSET S)
  <2>1. FiniteSubsetsOf(S) = SUBSET S
    BY FS_FiniteSubsetsOfFinite, Zenon
  <2>2. IsWellFoundedOn(StrictSubsetOrdering(S), FiniteSubsetsOf(S))
    BY FS_StrictSubsetOrderingWellFounded, Zenon
  <2>3. QED BY <2>1, <2>2
<1>2. PICK T \in Others : \A U \in Others : ~(<<U, T>> \in R)
  <2>1. Others \subseteq SUBSET S
    OBVIOUS
  <2> HIDE DEF Others, R
  <2> QED BY <1>1, <2>1, WFMin
<1>3. ASSUME NEW U \in SUBSET T, U # T PROVE U \in P
  <2>1. <<U, T>> \in R
    BY <1>2, <1>3 DEF StrictSubsetOrdering
  <2>2. QED BY <1>2, <2>1
<1>4. QED BY <1>2, <1>3

(***************************************************************************)
(* A finite set of numbers has a greatest one; a set of numbers from 0 to  *)
(* B has a greatest and a least one.                                       *)
(***************************************************************************)
LEMMA GreatestOfFinite ==
  ASSUME NEW S, IsFiniteSet(S), S \subseteq Nat, S # {}
  PROVE  \E m \in S : \A n \in S : n <= m
<1> DEFINE P == {T \in SUBSET S : T = {} \/ \E m \in T : \A n \in T : n <= m}
<1>1. ASSUME NEW T \in SUBSET S, \A U \in SUBSET T : U # T => U \in P
      PROVE  T \in P
  <2>1. CASE T = {}
    BY <2>1
  <2>2. CASE T # {}
    <3>1. PICK x \in T : TRUE
      BY <2>2
    <3>2. T \ {x} \in P
      BY <1>1
    <3>3. CASE T \ {x} = {}
      <4>1. \A n \in T : n <= x
        BY <3>3
      <4>2. QED BY <4>1
    <3>4. CASE T \ {x} # {}
      <4>1. PICK m \in T \ {x} : \A n \in T \ {x} : n <= m
        BY <3>2, <3>4
      <4>2. m \in Nat /\ x \in Nat
        OBVIOUS
      <4>3. CASE x <= m
        <5>1. \A n \in T : n <= m
          BY <4>1, <4>3
        <5>2. QED BY <5>1
      <4>4. CASE m <= x
        <5>1. \A n \in T : n <= x
          BY <4>1, <4>2, <4>4
        <5>2. QED BY <5>1
      <4>5. QED BY <4>2, <4>3, <4>4
    <3>5. QED BY <3>3, <3>4
  <2>3. QED BY <2>1, <2>2
<1>2. \A T \in SUBSET S : T \in P
  <2> HIDE DEF P
  <2> QED BY <1>1, SubsetInduction
<1>3. QED BY <1>2

LEMMA GreatestOfBounded ==
  ASSUME NEW B \in Nat, NEW S, S \subseteq 0 .. B, S # {}
  PROVE  \E m \in S : \A n \in S : n <= m
<1> DEFINE I == 0 .. B
<1>1. IsFiniteSet(I)
  BY FS_Interval
<1>2. S \subseteq I /\ S \subseteq Nat
  OBVIOUS
<1> HIDE DEF I
<1>3. IsFiniteSet(S)
  BY <1>1, <1>2, FS_Subset
<1>4. QED BY <1>2, <1>3, GreatestOfFinite

LEMMA LeastOfBounded ==
  ASSUME NEW B \in Nat, NEW S, S \subseteq 0 .. B, S # {}
  PROVE  \E m \in S : \A n \in S : m <= n
<1> DEFINE Mirror == {B - n : n \in S}
<1>1. Mirror \subseteq 0 .. B /\ Mirror # {}
  <2>1. \A n \in S : B - n \in 0 .. B
    OBVIOUS
  <2>2. QED BY <2>1
<1>2. PICK k \in Mirror : \A n \in Mirror : n <= k
  <2> HIDE DEF Mirror
  <2> QED BY <1>1, GreatestOfBounded
<1>3. PICK m \in S : k = B - m
  OBVIOUS
<1>4. ASSUME NEW n \in S PROVE m <= n
  <2>1. B - n \in Mirror
    OBVIOUS
  <2>2. B - n <= B - m
    BY <1>2, <1>3, <2>1
  <2>3. m \in Int /\ n \in Int
    OBVIOUS
  <2>4. QED BY <2>2, <2>3
<1>5. QED BY <1>4

(***************************************************************************)
(* The greatest of some places among the calls is one of them.             *)
(***************************************************************************)
LEMMA LastIsOne ==
  ASSUME NEW s, IsFiniteSet(s), s \subseteq Nat, s # {}
  PROVE  Max(s) \in s
<1>1. PICK m \in s : \A k \in s : k <= m
  BY GreatestOfFinite
<1>2. \A k \in s : m >= k
  BY <1>1
<1>3. QED BY <1>2 DEF Max

-----------------------------------------------------------------------------
(***************************************************************************)
(* Folds                                                                   *)
(*                                                                         *)
(* Three loops fold over a set: the number of calls over the call sites,   *)
(* the total of a cost over nodes or edges, and the statistics over the    *)
(* places of a list.  A rule names one, d is what it reads, and what all   *)
(* three have in common is shown once.                                     *)
(***************************************************************************)
CountRule == "count"
TotalRule == "total"
AddRule == "addUp"

Start(rule) == IF rule = CountRule THEN 0 ELSE Zero

Chosen(rule, s) == IF rule = TotalRule THEN AnyOf(s) ELSE Max(s)

Joined(rule, d, x, acc) ==
  IF rule = CountRule THEN CountCall(d[x], acc)
  ELSE IF rule = TotalRule THEN plus(d[x], acc)
  ELSE IF d[x].skip THEN acc ELSE safe_sum(acc, d[x].number)

FoldStep(rule, d, it, s) ==
  IF s = {} THEN Start(rule) ELSE Joined(rule, d, Chosen(rule, s), it[s \ {Chosen(rule, s)}])

IsFoldOf(rule, d, it, S) == it = [s \in SUBSET S |-> FoldStep(rule, d, it, s)]

FoldOf(rule, d, S) == (CHOOSE it : IsFoldOf(rule, d, it, S))[S]

Foldable(rule, S) == IsFiniteSet(S) /\ (rule = TotalRule \/ S \subseteq Nat)

LEMMA ChosenIsOne ==
  ASSUME NEW rule, NEW s, Foldable(rule, s), s # {}
  PROVE  Chosen(rule, s) \in s
<1>1. CASE rule = TotalRule
  BY <1>1 DEF Chosen, AnyOf
<1>2. CASE rule # TotalRule
  BY <1>2, LastIsOne DEF Chosen, Foldable
<1>3. QED BY <1>1, <1>2

LEMMA SubsetFoldable ==
  ASSUME NEW rule, NEW S, Foldable(rule, S), NEW T \in SUBSET S
  PROVE  Foldable(rule, T)
BY FS_Subset DEF Foldable

(***************************************************************************)
(* Two solutions agree on every set both are defined for.                  *)
(***************************************************************************)
LEMMA FoldUnique ==
  ASSUME NEW rule, NEW d, NEW S, NEW T, Foldable(rule, S), T \subseteq S,
         NEW it, IsFoldOf(rule, d, it, S), NEW jt, IsFoldOf(rule, d, jt, T)
  PROVE  it[T] = jt[T]
<1> DEFINE P == {s \in SUBSET T : it[s] = jt[s]}
<1>2. IsFiniteSet(T) /\ Foldable(rule, T)
  BY SubsetFoldable DEF Foldable
<1>1. ASSUME NEW s \in SUBSET T, \A u \in SUBSET s : u # s => u \in P
      PROVE  s \in P
  <2>1. it[s] = FoldStep(rule, d, it, s) /\ jt[s] = FoldStep(rule, d, jt, s)
    BY DEF IsFoldOf
  <2>2. CASE s = {}
    BY <2>1, <2>2 DEF FoldStep
  <2>3. CASE s # {}
    <3>1. Chosen(rule, s) \in s
      BY <1>2, <2>3, ChosenIsOne, SubsetFoldable
    <3>2. it[s \ {Chosen(rule, s)}] = jt[s \ {Chosen(rule, s)}]
      BY <3>1, <1>1
    <3>3. QED BY <2>1, <2>3, <3>2 DEF FoldStep
  <2>4. QED BY <2>2, <2>3
<1>3. \A s \in SUBSET T : s \in P
  <2> HIDE DEF P
  <2> QED BY <1>1, <1>2, SubsetInduction
<1>4. QED BY <1>3

(***************************************************************************)
(* The recursion has a solution for every set of places: it is put         *)
(* together from those for the smaller sets, which agree.                  *)
(***************************************************************************)
LEMMA FoldExists ==
  ASSUME NEW rule, NEW d, NEW S, Foldable(rule, S)
  PROVE  \E it : IsFoldOf(rule, d, it, S)
<1> DEFINE P == {T \in SUBSET S : \E it : IsFoldOf(rule, d, it, T)}
           last(s) == Chosen(rule, s)
<1>0. \A s \in SUBSET S : Foldable(rule, s) /\ (s # {} => last(s) \in s)
  BY ChosenIsOne, SubsetFoldable
<1> HIDE DEF last
<1>1. ASSUME NEW T \in SUBSET S, \A U \in SUBSET T : U # T => U \in P
      PROVE  T \in P
  <2> DEFINE solution(U) == CHOOSE it : IsFoldOf(rule, d, it, U)
             value(s) == IF s = {} THEN Start(rule)
                         ELSE Joined(rule, d, last(s), solution(s \ {last(s)})[s \ {last(s)}])
             jt == [s \in SUBSET T |-> value(s)]
  <2>1. \A U \in SUBSET T : U # T => IsFoldOf(rule, d, solution(U), U)
    BY <1>1
  <2>2. ASSUME NEW s \in SUBSET T, s # {}
        PROVE  jt[s \ {last(s)}] = solution(s \ {last(s)})[s \ {last(s)}]
    <3> DEFINE u == s \ {last(s)}
    <3>1. last(s) \in s
      BY <1>0, <2>2
    <3>2. u \in SUBSET T /\ u # T
      BY <3>1
    <3>3. solution(u)[u] = FoldStep(rule, d, solution(u), u)
      <4>1. IsFoldOf(rule, d, solution(u), u)
        BY <2>1, <3>2
      <4> HIDE DEF solution, u
      <4>2. QED BY <4>1 DEF IsFoldOf
    <3>4. ASSUME u = {} PROVE jt[u] = solution(u)[u]
      <4>1. jt[u] = value(u)
        BY <3>2
      <4> HIDE DEF solution, u, jt
      <4>2. QED BY <4>1, <3>3, <3>4 DEF FoldStep
    <3>5. ASSUME u # {} PROVE jt[u] = solution(u)[u]
      <4> DEFINE r == u \ {last(u)}
      <4>1. last(u) \in u
        BY <1>0, <3>2, <3>5
      <4>2. r \in SUBSET T /\ r # T /\ r \subseteq u
        BY <4>1, <3>2
      <4>3. solution(u)[r] = solution(r)[r]
        <5>1. IsFoldOf(rule, d, solution(u), u) /\ IsFoldOf(rule, d, solution(r), r)
          BY <2>1, <3>2, <4>2
        <5>2. Foldable(rule, u)
          BY <1>0, <3>2
        <5> HIDE DEF solution, u, r
        <5>3. QED BY <5>1, <5>2, <4>2, FoldUnique
      <4>4. jt[u] = Joined(rule, d, last(u), solution(r)[r])
        <5>1. jt[u] = value(u)
          BY <3>2
        <5> HIDE DEF solution, u, jt
        <5>2. QED BY <5>1, <3>5
      <4>5. solution(u)[u] = Joined(rule, d, last(u), solution(u)[r])
        <5> HIDE DEF solution, u, jt
        <5>1. QED BY <3>3, <3>5 DEF FoldStep, last
      <4> HIDE DEF solution, u, jt, r
      <4>6. QED BY <4>3, <4>4, <4>5
    <3>6. QED BY <3>4, <3>5
  <2>3. ASSUME NEW s \in SUBSET T PROVE jt[s] = FoldStep(rule, d, jt, s)
    <3>1. CASE s = {}
      BY <3>1 DEF FoldStep
    <3>2. CASE s # {}
      <4>1. jt[s] = Joined(rule, d, last(s), solution(s \ {last(s)})[s \ {last(s)}])
        BY <3>2
      <4>2. jt[s \ {last(s)}] = solution(s \ {last(s)})[s \ {last(s)}]
        BY <2>2, <3>2
      <4> HIDE DEF solution, jt
      <4>3. QED BY <4>1, <4>2, <3>2 DEF FoldStep, last
    <3>3. QED BY <3>1, <3>2
  <2>4. jt = [s \in SUBSET T |-> FoldStep(rule, d, jt, s)]
    <3>1. jt = [s \in SUBSET T |-> jt[s]]
      OBVIOUS
    <3> HIDE DEF jt
    <3>2. QED BY <3>1, <2>3
  <2> HIDE DEF jt
  <2>5. IsFoldOf(rule, d, jt, T)
    BY <2>4 DEF IsFoldOf
  <2>6. QED BY <2>5
<1>2. \A T \in SUBSET S : T \in P
  <2>1. IsFiniteSet(S)
    BY DEF Foldable
  <2> HIDE DEF P
  <2> QED BY <1>1, <2>1, SubsetInduction
<1>3. QED BY <1>2

(***************************************************************************)
(* So a solution for a set has the fold over each of its subsets, and a    *)
(* fold takes the elements one by one, the chosen one last.                *)
(***************************************************************************)
LEMMA SolutionFolds ==
  ASSUME NEW rule, NEW d, NEW S, Foldable(rule, S),
         NEW it, IsFoldOf(rule, d, it, S), NEW T \in SUBSET S
  PROVE  it[T] = FoldOf(rule, d, T)
<1>1. Foldable(rule, T)
  BY SubsetFoldable
<1>2. IsFoldOf(rule, d, CHOOSE jt : IsFoldOf(rule, d, jt, T), T)
  BY <1>1, FoldExists
<1>3. it[T] = (CHOOSE jt : IsFoldOf(rule, d, jt, T))[T]
  BY <1>2, FoldUnique
<1>4. QED BY <1>3 DEF FoldOf

LEMMA FoldLast ==
  ASSUME NEW rule, NEW d, NEW S, Foldable(rule, S)
  PROVE  FoldOf(rule, d, S) =
           IF S = {} THEN Start(rule)
           ELSE Joined(rule, d, Chosen(rule, S), FoldOf(rule, d, S \ {Chosen(rule, S)}))
<1>1. PICK it : IsFoldOf(rule, d, it, S)
  BY FoldExists
<1>2. it[S] = FoldStep(rule, d, it, S)
  BY <1>1 DEF IsFoldOf
<1>3. ASSUME NEW T \in SUBSET S PROVE it[T] = FoldOf(rule, d, T)
  BY <1>1, SolutionFolds
<1>4. it[S] = FoldOf(rule, d, S) /\ it[S \ {Chosen(rule, S)}] = FoldOf(rule, d, S \ {Chosen(rule, S)})
  BY <1>3
<1>5. QED BY <1>2, <1>4 DEF FoldStep

-----------------------------------------------------------------------------
(***************************************************************************)
(* The number of calls                                                     *)
(***************************************************************************)
CountOf(calls, S) == FoldOf(CountRule, calls, S)

(***************************************************************************)
(* callNumber picks some solution of its recursion, which depends on the   *)
(* program alone.                                                          *)
(***************************************************************************)
LEMMA CallNumberUnfold ==
  ASSUME NEW f, NEW h, Foldable(CountRule, callSites(f, h))
  PROVE  callNumber(f, h) = CountOf(program.calls, callSites(f, h))
<1> DEFINE S == callSites(f, h)
           calls == program.calls
           Solves(it) == it = [s \in SUBSET S |->
             IF s = {} THEN 0 ELSE CountCall(calls[Max(s)], it[s \ {Max(s)}])]
<1>1. callNumber(f, h) = (CHOOSE it : Solves(it))[S]
  BY DEF callNumber, MapThenFoldSet
<1>2. \A it : Solves(it) <=> IsFoldOf(CountRule, calls, it, S)
  BY DEF IsFoldOf, FoldStep, Start, Joined, Chosen, CountRule, TotalRule
<1> HIDE DEF Solves, S, calls
<1>3. \E it : Solves(it)
  BY <1>2, FoldExists DEF S
<1>4. PICK it : Solves(it) /\ callNumber(f, h) = it[S]
  BY <1>1, <1>3
<1>5. it[S] = CountOf(calls, S)
  BY <1>2, <1>4, SolutionFolds DEF S, CountOf
<1>6. QED BY <1>4, <1>5 DEF S, calls

LEMMA CountLast ==
  ASSUME NEW calls, NEW S, IsFiniteSet(S), S \subseteq Nat
  PROVE  CountOf(calls, S) =
           IF S = {} THEN 0 ELSE CountCall(calls[Max(S)], CountOf(calls, S \ {Max(S)}))
<1>1. Foldable(CountRule, S)
  BY DEF Foldable
<1>2. CountRule # TotalRule
  BY DEF CountRule, TotalRule
<1>3. QED BY <1>1, <1>2, FoldLast DEF CountOf, Start, Chosen, Joined

-----------------------------------------------------------------------------
PlainOf(calls, S) == {k \in S : ~calls[k].inLoop}

(***************************************************************************)
(* The number of calls, whatever their order: without a call in a loop it  *)
(* is exact below infinity, with one it is the cost of a loop and at most  *)
(* the other calls more.                                                   *)
(***************************************************************************)
LEMMA CountIs ==
  ASSUME NEW calls, NEW n \in Nat, \A k \in 1 .. n : calls[k] \in Calls,
         NEW S, S \subseteq 1 .. n
  PROVE  /\ CountOf(calls, S) \in 0 .. LOOP_COST + Cardinality(S)
         /\ PlainOf(calls, S) = S /\ Cardinality(S) < POS_INFINITY =>
              CountOf(calls, S) = Cardinality(S)
         /\ PlainOf(calls, S) # S =>
              /\ LOOP_COST <= CountOf(calls, S)
              /\ CountOf(calls, S) <= LOOP_COST + Cardinality(PlainOf(calls, S))
<1> DEFINE Good(T) ==
      /\ CountOf(calls, T) \in 0 .. LOOP_COST + Cardinality(T)
      /\ PlainOf(calls, T) = T /\ Cardinality(T) < POS_INFINITY =>
           CountOf(calls, T) = Cardinality(T)
      /\ PlainOf(calls, T) # T =>
           /\ LOOP_COST <= CountOf(calls, T)
           /\ CountOf(calls, T) <= LOOP_COST + Cardinality(PlainOf(calls, T))
<1> DEFINE P == {T \in SUBSET S : Good(T)}
<1>0. LOOP_COST \in Nat \ {0} /\ POS_INFINITY \in Nat
  BY ProgramsAssumption, InfinityAssumption
<1>1. \A T \in SUBSET S : IsFiniteSet(T) /\ Cardinality(T) \in Nat
  <2>1. IsFiniteSet(1 .. n)
    BY FS_Interval
  <2>2. QED BY <2>1, FS_Subset, FS_CardinalityType
<1>2. ASSUME NEW T \in SUBSET S, \A U \in SUBSET T : U # T => U \in P
      PROVE  T \in P
  <2>1. CASE T = {}
    <3>1. CountOf(calls, T) = 0
      BY <1>1, <2>1, CountLast
    <3>2. Cardinality(T) = 0
      BY <2>1, FS_EmptySet
    <3>3. PlainOf(calls, T) = T
      BY <2>1 DEF PlainOf
    <3>4. QED BY <1>0, <3>1, <3>2, <3>3
  <2>2. CASE T # {}
    <3> DEFINE x == Max(T)
               U == T \ {x}
               c == CountOf(calls, U)
               d == CountOf(calls, T)
    <3>0. IsFiniteSet(T) /\ T \subseteq Nat
      BY <1>1
    <3>1. x \in T
      BY <2>2, <3>0, LastIsOne
    <3>2. d = CountCall(calls[x], c)
      BY <2>2, <3>0, CountLast
    <3> HIDE DEF x, d, c
    <3>3. calls[x] \in Calls
      BY <3>1
    <3>4. U \in SUBSET T /\ U # T /\ U \in SUBSET S
      BY <3>1
    <3>5. Good(U)
      BY <3>4, <1>2
    <3>6. Cardinality(T) = Cardinality(U) + 1 /\ Cardinality(U) \in Nat
      BY <3>1, <3>4, <1>1, FS_RemoveElement
    <3>7. /\ c \in 0 .. LOOP_COST + Cardinality(U)
          /\ PlainOf(calls, U) = U /\ Cardinality(U) < POS_INFINITY => c = Cardinality(U)
          /\ PlainOf(calls, U) # U =>
               LOOP_COST <= c /\ c <= LOOP_COST + Cardinality(PlainOf(calls, U))
      BY <3>5 DEF c
    <3>8. CASE calls[x].inLoop
      <4>1. d = LOOP_COST
        BY <3>2, <3>8 DEF CountCall
      <4>2. PlainOf(calls, T) # T
        BY <3>1, <3>8 DEF PlainOf
      <4>3. Cardinality(PlainOf(calls, T)) \in Nat
        BY <1>1 DEF PlainOf
      <4>4. QED BY <1>0, <3>6, <4>1, <4>2, <4>3 DEF d
    <3>9. CASE ~calls[x].inLoop
      <4>1. d = IF c = POS_INFINITY THEN c ELSE c + 1
        BY <3>2, <3>9 DEF CountCall
      <4>2. PlainOf(calls, T) = PlainOf(calls, U) \cup {x} /\ x \notin PlainOf(calls, U)
        BY <3>1, <3>9 DEF PlainOf
      <4>3. PlainOf(calls, T) = T <=> PlainOf(calls, U) = U
        BY <3>1, <4>2
      <4>4. PlainOf(calls, U) \in SUBSET S
        BY <3>4 DEF PlainOf
      <4>5. /\ Cardinality(PlainOf(calls, T)) = Cardinality(PlainOf(calls, U)) + 1
            /\ Cardinality(PlainOf(calls, U)) \in Nat
        BY <4>2, <4>4, <1>1, FS_AddElement
      <4> HIDE DEF U
      <4>6. d \in 0 .. LOOP_COST + Cardinality(T)
        BY <1>0, <3>6, <3>7, <4>1
      <4>7. PlainOf(calls, T) = T /\ Cardinality(T) < POS_INFINITY => d = Cardinality(T)
        BY <1>0, <3>6, <3>7, <4>1, <4>3
      <4>8. PlainOf(calls, T) # T =>
              LOOP_COST <= d /\ d <= LOOP_COST + Cardinality(PlainOf(calls, T))
        BY <1>0, <3>7, <4>1, <4>3, <4>5
      <4>9. QED BY <4>6, <4>7, <4>8 DEF d
    <3>10. QED BY <3>3, <3>8, <3>9 DEF Calls
  <2>3. QED BY <2>1, <2>2
<1>3. \A T \in SUBSET S : T \in P
  <2> HIDE DEF P
  <2> QED BY <1>1, <1>2, SubsetInduction
<1>4. QED BY <1>3

(***************************************************************************)
(* The same of the calls of a program; callNumber depends on that alone.   *)
(***************************************************************************)
LEMMA CallNumberIs ==
  ASSUME program \in Programs, NEW f, NEW h
  PROVE  /\ callNumber(f, h) \in 0 .. LOOP_COST + Len(program.calls)
         /\ Plain(f, h) = Cardinality(callSites(f, h)) /\ Plain(f, h) < POS_INFINITY =>
              callNumber(f, h) = Plain(f, h)
         /\ Plain(f, h) # Cardinality(callSites(f, h)) =>
              LOOP_COST <= callNumber(f, h) /\ callNumber(f, h) <= LOOP_COST + Plain(f, h)
         /\ Plain(f, h) \in Nat /\ Len(program.calls) \in Nat
<1> DEFINE calls == program.calls
           n == Len(calls)
           S == callSites(f, h)
<1>1. calls \in Seq(Calls)
  BY ProgramsAssumption
<1>2. n \in Nat /\ DOMAIN calls = 1 .. n /\ \A k \in 1 .. n : calls[k] \in Calls
  BY <1>1
<1>3. S \subseteq 1 .. n
  BY <1>2 DEF callSites, CallsFrom
<1>4. callNumber(f, h) = CountOf(calls, S)
  <2>1. IsFiniteSet(1 .. n)
    BY <1>2, FS_Interval
  <2>2. Foldable(CountRule, S)
    BY <1>2, <1>3, <2>1, FS_Subset DEF Foldable
  <2>3. QED BY <2>2, CallNumberUnfold
<1>5. Plain(f, h) = Cardinality(PlainOf(calls, S)) /\ PlainOf(calls, S) \subseteq S
  BY DEF Plain, PlainOf
<1>6. LOOP_COST \in Nat
  BY ProgramsAssumption
<1> HIDE DEF calls, n, S
<1>7. /\ IsFiniteSet(S) /\ Cardinality(S) \in Nat /\ Cardinality(S) <= n
      /\ Plain(f, h) \in Nat
      /\ Plain(f, h) = Cardinality(S) <=> PlainOf(calls, S) = S
  <2>1. IsFiniteSet(1 .. n) /\ Cardinality(1 .. n) = n
    BY <1>2, FS_Interval
  <2>2. IsFiniteSet(S) /\ Cardinality(S) \in Nat /\ Cardinality(S) <= n
    BY <2>1, <1>3, FS_Subset, FS_CardinalityType
  <2>3. IsFiniteSet(PlainOf(calls, S)) /\ Plain(f, h) \in Nat
    BY <2>2, <1>5, FS_Subset, FS_CardinalityType
  <2>4. Cardinality(PlainOf(calls, S)) = Cardinality(S) => PlainOf(calls, S) = S
    BY <2>2, <1>5, FS_Subset
  <2>5. QED BY <2>2, <2>3, <2>4, <1>5
<1>8. /\ CountOf(calls, S) \in 0 .. LOOP_COST + Cardinality(S)
      /\ PlainOf(calls, S) = S /\ Cardinality(S) < POS_INFINITY =>
           CountOf(calls, S) = Cardinality(S)
      /\ PlainOf(calls, S) # S =>
           /\ LOOP_COST <= CountOf(calls, S)
           /\ CountOf(calls, S) <= LOOP_COST + Cardinality(PlainOf(calls, S))
  BY <1>2, <1>3, CountIs
<1>9. callNumber(f, h) \in 0 .. LOOP_COST + n
  BY <1>2, <1>4, <1>6, <1>7, <1>8
<1>10. QED BY <1>2, <1>4, <1>5, <1>7, <1>8, <1>9 DEF calls, n, S

LEMMA CallNumberFixed ==
  ASSUME program' = program, NEW f, NEW h
  PROVE  callNumber(f, h)' = callNumber(f, h)
<1> DEFINE NumberOf(calls, S) == MapThenFoldSet(CountCall, 0, LAMBDA k : calls[k], Max, S)
<1>1. callNumber(f, h) = NumberOf(program.calls, callSites(f, h))
  BY DEF callNumber
<1>2. callNumber(f, h)' = NumberOf(program'.calls, callSites(f, h)')
  BY DEF callNumber, MapThenFoldSet
<1>3. callSites(f, h)' = callSites(f, h)
  BY DEF callSites, CallsFrom
<1>4. QED BY <1>1, <1>2, <1>3

-----------------------------------------------------------------------------
(***************************************************************************)
(* Normalizing                                                             *)
(***************************************************************************)
LeastOf(V) == CHOOSE v \in V : \A w \in V : AtMost(v, w)
GreatestOf(V) == CHOOSE v \in V : \A w \in V : AtMost(w, v)

\* The weight of a number between lo and hi when it is normalized.
Scaled(n, lo, hi) == IF lo = hi THEN Number(lo) ELSE Frac(n - lo, hi - lo)

\* Normalizing the numbers N with the weights V scales them between lo and hi.
ScalesBetween(N, V, lo, hi) ==
  \A n \in N : normalized(Number(n), LeastOf(V), GreatestOf(V)) = Scaled(n, lo, hi)

(***************************************************************************)
(* Of bounded counts there are a least and a greatest one, and normalizing *)
(* scales by these.                                                        *)
(***************************************************************************)
LEMMA CountsScaled ==
  ASSUME NEW B \in Nat, NEW N, N \subseteq 0 .. B, N # {},
         NEW V, \A n \in N : Number(n) \in V, \A v \in V : \E n \in N : v = Number(n)
  PROVE  \E lo, hi \in N : N \subseteq lo .. hi /\ ScalesBetween(N, V, lo, hi)
<1>1. PICK lo \in N : \A n \in N : lo <= n
  BY LeastOfBounded
<1>2. PICK hi \in N : \A n \in N : n <= hi
  BY GreatestOfBounded
<1>3. \A n \in N : n \in Int
  OBVIOUS
<1>4. N \subseteq lo .. hi
  BY <1>1, <1>2, <1>3
<1>5. \A m, n \in N : AtMost(Number(m), Number(n)) <=> m <= n
  BY <1>3 DEF AtMost, Number, Frac
<1>6. LeastOf(V) = Number(lo)
  <2>1. Number(lo) \in V /\ \A w \in V : AtMost(Number(lo), w)
    BY <1>1, <1>5
  <2>2. ASSUME NEW v \in V, \A w \in V : AtMost(v, w) PROVE v = Number(lo)
    <3>1. PICK m \in N : v = Number(m)
      OBVIOUS
    <3>2. m <= lo
      BY <2>2, <3>1, <1>5
    <3>3. m = lo
      BY <1>1, <1>3, <3>2
    <3>4. QED BY <3>1, <3>3
  <2>3. QED BY <2>1, <2>2 DEF LeastOf
<1>7. GreatestOf(V) = Number(hi)
  <2>1. Number(hi) \in V /\ \A w \in V : AtMost(w, Number(hi))
    BY <1>2, <1>5
  <2>2. ASSUME NEW v \in V, \A w \in V : AtMost(w, v) PROVE v = Number(hi)
    <3>1. PICK m \in N : v = Number(m)
      OBVIOUS
    <3>2. hi <= m
      BY <2>2, <3>1, <1>5
    <3>3. m = hi
      BY <1>2, <1>3, <3>2
    <3>4. QED BY <3>1, <3>3
  <2>3. QED BY <2>1, <2>2 DEF GreatestOf
<1>8. ASSUME NEW n \in N PROVE normalized(Number(n), Number(lo), Number(hi)) = Scaled(n, lo, hi)
  <2>1. n \in Int /\ lo \in Int /\ hi \in Int
    BY <1>3
  <2>2. Equal(Number(lo), Number(hi)) <=> lo = hi
    BY <2>1 DEF Equal, Number, Frac
  <2>3. /\ minus(Number(n), Number(lo)) = Frac(n - lo, 1)
        /\ minus(Number(hi), Number(lo)) = Frac(hi - lo, 1)
    BY <2>1 DEF minus, plus, Number, Frac
  <2>4. over(Frac(n - lo, 1), Frac(hi - lo, 1)) = Frac(n - lo, hi - lo)
    BY <2>1 DEF over, Frac
  <2>5. QED BY <2>2, <2>3, <2>4 DEF normalized, Scaled
<1>9. QED BY <1>4, <1>6, <1>7, <1>8 DEF ScalesBetween

(***************************************************************************)
(* Scaling keeps the order, and stays from 0 to 1 where there are two      *)
(* different numbers.                                                      *)
(***************************************************************************)
LEMMA ScaledKeepsOrder ==
  ASSUME NEW lo \in Nat, NEW hi \in Nat, NEW m \in lo .. hi, NEW n \in lo .. hi
  PROVE  /\ Less(Scaled(m, lo, hi), Scaled(n, lo, hi)) <=> m < n
         /\ lo # hi => /\ AtMost(Zero, Scaled(m, lo, hi))
                       /\ AtMost(Scaled(m, lo, hi), Number(1))
<1>1. CASE lo = hi
  BY <1>1 DEF Scaled, Less, Number, Frac
<1>2. CASE lo # hi
  <2> DEFINE d == hi - lo
             a == m - lo
             b == n - lo
  <2>1. d \in Nat \ {0} /\ a \in 0 .. d /\ b \in 0 .. d /\ (m < n <=> a < b)
    BY <1>2
  <2>2. Scaled(m, lo, hi) = Frac(a, d) /\ Scaled(n, lo, hi) = Frac(b, d)
    BY <1>2 DEF Scaled
  <2> HIDE DEF a, b, d
  <2>3. a * d < b * d <=> a < b
    BY <2>1
  <2>4. 0 * d <= a * 1 /\ a * 1 <= 1 * d
    BY <2>1
  <2>5. QED BY <2>1, <2>2, <2>3, <2>4 DEF Less, AtMost, Zero, Number, Frac
<1>3. QED BY <1>1, <1>2

-----------------------------------------------------------------------------
(***************************************************************************)
(* The weights                                                             *)
(***************************************************************************)
RelatedPlaces == {NodePlace(f) : f \in DOMAIN split.related}
RelatedWeight(x) == Number(relatedValue(split.related[x[2]]))

KnownPlaces == {e \in AllInPlaces \cup AllOutPlaces : Callee(e) \in program.hasPDG}
Count(e) == callNumber(Caller(e), Callee(e))

(***************************************************************************)
(* The related functions weigh 0 or 1, so that normalizing changes nothing *)
(* of their weights.                                                       *)
(***************************************************************************)
RelatedWeights ==
  /\ weight["SENSITIVE_RELATED"] = [x \in RelatedPlaces |-> RelatedWeight(x)]
  /\ pushed["SENSITIVE_RELATED"] \in {{}, RelatedPlaces}

(***************************************************************************)
(* The callers' copies keep the numbers of calls; the callees' ones have   *)
(* them until they are normalized and are scaled by the least and the      *)
(* greatest of them from then on.                                          *)
(***************************************************************************)
NotScaledYet ==
  /\ pushed["CALL_NUM"] = PushedCopies
  /\ \A e \in PushedCopies : weight["CALL_NUM"][e] = Number(Count(e))

ScaledBetween(least, greatest) ==
  \A e \in PushedCopies :
    /\ Count(e) \in Count(least) .. Count(greatest)
    /\ weight["CALL_NUM"][e] = Scaled(Count(e), Count(least), Count(greatest))

CallWeights ==
  /\ DOMAIN weight["CALL_NUM"] = KnownPlaces
  /\ \A e \in KnownPlaces : e[1] = "out" => weight["CALL_NUM"][e] = Number(Count(e))
  /\ \/ NotScaledYet
     \/ /\ pushed["CALL_NUM"] = {}
        /\ \E least, greatest \in PushedCopies : ScaledBetween(least, greatest)

WeightInv ==
  /\ split \in Splits
  /\ DOMAIN weight = Factors /\ DOMAIN pushed = Factors
  /\ pc \notin {"create", "weighNodes"} => RelatedWeights
  /\ pc \in {"create", "weighNodes", "weighCalls"} => weight["CALL_NUM"] = << >>
  /\ pc \notin {"create", "weighNodes", "weighCalls"} => CallWeights

LEMMA WeightInvInit == Init => WeightInv
BY DEF Init, WeightInv, Factors

LEMMA RelatedValues ==
  ASSUME NEW level \in Nat
  PROVE  /\ relatedValue(level) \in {0, 1}
         /\ relatedValue(level) = IF level = 1 THEN 1 ELSE 0
<1>1. ASSUME NEW k \in Nat \ {0} PROVE 1 \div k = IF k = 1 THEN 1 ELSE 0
  OBVIOUS
<1>2. LOOP_COST \in Nat \ {0, 1}
  BY ProgramsAssumption
<1>3. QED BY <1>1, <1>2 DEF relatedValue

(***************************************************************************)
(* What a step does to one factor is all that a step with another factor   *)
(* leaves alone.                                                           *)
(***************************************************************************)
LEMMA RelatedWeightsKept ==
  ASSUME RelatedWeights, split' = split,
         weight'["SENSITIVE_RELATED"] = weight["SENSITIVE_RELATED"],
         pushed'["SENSITIVE_RELATED"] \in {{}, pushed["SENSITIVE_RELATED"]}
  PROVE  RelatedWeights'
BY DEF RelatedWeights, RelatedPlaces, RelatedWeight

LEMMA PlacesFixed ==
  ASSUME UNCHANGED <<program, nodes, inEdges, outEdges>>
  PROVE  /\ KnownPlaces' = KnownPlaces /\ PushedCopies' = PushedCopies
         /\ \A e : Count(e)' = Count(e)
<1>1. AllInPlaces' = AllInPlaces /\ AllOutPlaces' = AllOutPlaces
  BY DEF AllInPlaces, AllOutPlaces, InPlaces, OutPlaces
<1>2. KnownPlaces' = KnownPlaces
  BY <1>1 DEF KnownPlaces, Callee
<1>3. PushedCopies' = PushedCopies
  BY DEF PushedCopies, InPlaces
<1>4. ASSUME NEW e PROVE Count(e)' = Count(e)
  BY CallNumberFixed DEF Count, Caller, Callee
<1>5. QED BY <1>2, <1>3, <1>4

LEMMA CallWeightsKept ==
  ASSUME CallWeights, UNCHANGED <<program, nodes, inEdges, outEdges>>,
         weight'["CALL_NUM"] = weight["CALL_NUM"],
         pushed'["CALL_NUM"] = pushed["CALL_NUM"]
  PROVE  CallWeights'
<1>1. /\ KnownPlaces' = KnownPlaces /\ PushedCopies' = PushedCopies
      /\ \A e : Count(e)' = Count(e)
  BY PlacesFixed
<1>2. NotScaledYet => NotScaledYet'
  BY <1>1 DEF NotScaledYet
<1>3. \A least, greatest \in PushedCopies :
        ScaledBetween(least, greatest) => ScaledBetween(least, greatest)'
  BY <1>1 DEF ScaledBetween
<1>4. QED BY <1>1, <1>2, <1>3 DEF CallWeights

(***************************************************************************)
(* What normalizing does to the weights of a factor.                       *)
(***************************************************************************)
LEMMA NormalizeEffect ==
  ASSUME DOMAIN weight = Factors, DOMAIN pushed = Factors, NEW x \in Factors, Normalize(x)
  PROVE  LET V == {weight[x][e] : e \in pushed[x]}
         IN  /\ DOMAIN weight' = Factors /\ DOMAIN pushed' = Factors
             /\ pushed[x] # {} /\ pushed'[x] = {}
             /\ weight'[x] = [e \in DOMAIN weight[x] |->
                  IF e \in pushed[x] THEN normalized(weight[x][e], LeastOf(V), GreatestOf(V))
                                     ELSE weight[x][e]]
             /\ \A y \in Factors \ {x} : weight'[y] = weight[y] /\ pushed'[y] = pushed[y]
             /\ UNCHANGED <<program, split, pc, todo, pending, graph>>
BY DEF Normalize, LeastOf, GreatestOf

LEMMA NormalizeRelated ==
  ASSUME WeightInv, RelatedWeights, Normalize("SENSITIVE_RELATED")
  PROVE  RelatedWeights'
<1> DEFINE R == "SENSITIVE_RELATED"
           V == {weight[R][e] : e \in pushed[R]}
           value(e) == relatedValue(split.related[e[2]])
           N == {value(e) : e \in RelatedPlaces}
<1>1. R \in Factors
  BY DEF Factors
<1>2. /\ pushed[R] # {} /\ pushed'[R] = {} /\ split' = split
      /\ weight'[R] = [e \in DOMAIN weight[R] |->
           IF e \in pushed[R] THEN normalized(weight[R][e], LeastOf(V), GreatestOf(V))
                              ELSE weight[R][e]]
  BY <1>1, NormalizeEffect DEF WeightInv
<1>3. /\ pushed[R] = RelatedPlaces /\ DOMAIN weight[R] = RelatedPlaces
      /\ \A e \in RelatedPlaces : weight[R][e] = Number(value(e))
  BY <1>2 DEF RelatedWeights, RelatedWeight
<1>4. \A e \in RelatedPlaces : value(e) \in {0, 1}
  <2> SUFFICES ASSUME NEW e \in RelatedPlaces PROVE value(e) \in {0, 1}
    OBVIOUS
  <2>1. PICK f \in DOMAIN split.related : e = NodePlace(f)
    BY DEF RelatedPlaces
  <2>2. e[2] = f /\ split.related[f] \in Nat
    BY <2>1, ProgramsAssumption DEF NodePlace, WeightInv
  <2>3. QED BY <2>2, RelatedValues
<1> HIDE DEF value
<1>5. N \subseteq 0 .. 1 /\ N # {}
  BY <1>2, <1>3, <1>4
<1>6. (\A n \in N : Number(n) \in V) /\ (\A v \in V : \E n \in N : v = Number(n))
  BY <1>3
<1> HIDE DEF V, N
<1>7. PICK lo, hi \in N : N \subseteq lo .. hi /\ ScalesBetween(N, V, lo, hi)
  BY <1>5, <1>6, CountsScaled
<1>8. \A n \in N : Scaled(n, lo, hi) = Number(n)
  <2> SUFFICES ASSUME NEW n \in N PROVE Scaled(n, lo, hi) = Number(n)
    OBVIOUS
  <2>1. lo \in {0, 1} /\ hi \in {0, 1} /\ n \in {0, 1} /\ n \in lo .. hi
    BY <1>5, <1>7
  <2>2. CASE lo = hi
    <3>1. n = lo
      BY <2>1, <2>2
    <3>2. QED BY <2>2, <3>1 DEF Scaled
  <2>3. CASE lo # hi
    <3>1. n - lo = n /\ hi - lo = 1
      BY <2>1, <2>3
    <3>2. QED BY <2>3, <3>1 DEF Scaled, Number
  <2>4. QED BY <2>2, <2>3
<1>9. \A e \in RelatedPlaces : weight'[R][e] = Number(value(e))
  <2> SUFFICES ASSUME NEW e \in RelatedPlaces PROVE weight'[R][e] = Number(value(e))
    OBVIOUS
  <2>1. value(e) \in N
    BY DEF N
  <2>2. weight'[R][e] = normalized(Number(value(e)), LeastOf(V), GreatestOf(V))
    BY <1>2, <1>3
  <2>3. QED BY <2>1, <2>2, <1>7, <1>8 DEF ScalesBetween
<1>10. weight'[R] = weight[R]
  <2>1. weight[R] = [e \in RelatedPlaces |-> weight[R][e]]
    BY DEF RelatedWeights
  <2>2. weight'[R] = [e \in RelatedPlaces |-> weight'[R][e]]
    BY <1>2, <1>3
  <2>3. QED BY <2>1, <2>2, <1>3, <1>9
<1>11. QED BY <1>2, <1>10, RelatedWeightsKept

LEMMA NormalizeCalls ==
  ASSUME GraphInv, WeightInv, CallWeights, Normalize("CALL_NUM")
  PROVE  CallWeights'
<1> DEFINE C == "CALL_NUM"
           V == {weight[C][e] : e \in pushed[C]}
           N == {Count(e) : e \in PushedCopies}
           B == LOOP_COST + Len(program.calls)
<1>1. C \in Factors
  BY DEF Factors
<1>2. /\ pushed[C] # {} /\ pushed'[C] = {}
      /\ UNCHANGED <<program, nodes, inEdges, outEdges>>
      /\ weight'[C] = [e \in DOMAIN weight[C] |->
           IF e \in pushed[C] THEN normalized(weight[C][e], LeastOf(V), GreatestOf(V))
                              ELSE weight[C][e]]
  BY <1>1, NormalizeEffect DEF WeightInv, graph
<1>3. /\ KnownPlaces' = KnownPlaces /\ PushedCopies' = PushedCopies
      /\ \A e : Count(e)' = Count(e)
  BY <1>2, PlacesFixed
<1>4. /\ pushed[C] = PushedCopies /\ DOMAIN weight[C] = KnownPlaces
      /\ \A e \in PushedCopies : weight[C][e] = Number(Count(e))
      /\ \A e \in KnownPlaces : e[1] = "out" => weight[C][e] = Number(Count(e))
  BY <1>2 DEF CallWeights, NotScaledYet
<1>5. /\ B \in Nat
      /\ \A e : Count(e) \in 0 .. B
  <2>1. program \in Programs /\ LOOP_COST \in Nat
    BY ProgramsAssumption DEF GraphInv, GraphTypeOK
  <2>2. \A e : Count(e) \in 0 .. B /\ Len(program.calls) \in Nat
    BY <2>1, CallNumberIs DEF Count
  <2>3. QED BY <2>1, <2>2
<1>6. \A e \in PushedCopies : e \in KnownPlaces /\ e[1] = "in"
  <2> SUFFICES ASSUME NEW h \in nodes \cap program.hasPDG, NEW e \in InPlaces(h)
               PROVE  e \in KnownPlaces /\ e[1] = "in"
    BY DEF PushedCopies
  <2>1. PICK f \in ToSet(inEdges[h]) : e = <<"in", f, h>>
    BY DEF InPlaces
  <2>2. e \in AllInPlaces /\ e[1] = "in" /\ e[3] = h
    BY <2>1 DEF AllInPlaces
  <2>3. QED BY <2>2 DEF KnownPlaces, Callee
<1>7. N \subseteq 0 .. B /\ N # {}
  BY <1>2, <1>4, <1>5
<1>8. (\A n \in N : Number(n) \in V) /\ (\A v \in V : \E n \in N : v = Number(n))
  BY <1>4
<1> HIDE DEF V, N, B
<1>9. PICK lo, hi \in N : N \subseteq lo .. hi /\ ScalesBetween(N, V, lo, hi)
  BY <1>5, <1>7, <1>8, CountsScaled
<1>10. PICK least \in PushedCopies : lo = Count(least)
  BY DEF N
<1>11. PICK greatest \in PushedCopies : hi = Count(greatest)
  BY DEF N
<1>12. \A e \in PushedCopies :
         /\ Count(e) \in lo .. hi
         /\ weight'[C][e] = Scaled(Count(e), lo, hi)
  <2> SUFFICES ASSUME NEW e \in PushedCopies
               PROVE  Count(e) \in lo .. hi /\ weight'[C][e] = Scaled(Count(e), lo, hi)
    OBVIOUS
  <2>1. Count(e) \in N
    BY DEF N
  <2>2. weight'[C][e] = normalized(Number(Count(e)), LeastOf(V), GreatestOf(V))
    BY <1>2, <1>4, <1>6
  <2>3. QED BY <2>1, <2>2, <1>9 DEF ScalesBetween
<1>13. ScaledBetween(least, greatest)'
  BY <1>3, <1>10, <1>11, <1>12 DEF ScaledBetween
<1>14. DOMAIN weight'[C] = KnownPlaces /\ \A e \in KnownPlaces :
         e[1] = "out" => weight'[C][e] = Number(Count(e))
  <2>1. DOMAIN weight'[C] = KnownPlaces
    BY <1>2, <1>4
  <2>2. \A e \in KnownPlaces : e \notin PushedCopies => weight'[C][e] = weight[C][e]
    BY <1>2, <1>4
  <2>3. "in" # "out"
    OBVIOUS
  <2>4. QED BY <2>1, <2>2, <2>3, <1>4, <1>6
<1>15. QED BY <1>2, <1>3, <1>13, <1>14 DEF CallWeights

LEMMA AssignNodeWeightsKeeps ==
  ASSUME WeightInv, AssignNodeWeights
  PROVE  WeightInv'
<1>1. /\ split' = split /\ pc = "weighNodes" /\ pc' = "weighCalls"
      /\ DOMAIN weight' = Factors /\ DOMAIN pushed' = Factors
      /\ weight'["CALL_NUM"] = weight["CALL_NUM"]
  BY DEF AssignNodeWeights, WeightInv, Factors
<1>2. /\ weight'["SENSITIVE_RELATED"] =
           [x \in RelatedPlaces |-> Number(relatedValue(split.related[x[2]]))]
      /\ pushed'["SENSITIVE_RELATED"] = RelatedPlaces
  BY DEF AssignNodeWeights, WeightInv, RelatedPlaces, Factors
<1>3. RelatedWeights'
  BY <1>1, <1>2 DEF RelatedWeights, RelatedPlaces, RelatedWeight
<1>4. QED BY <1>1, <1>3 DEF WeightInv

LEMMA AssignCallNumWeightsKeeps ==
  ASSUME WeightInv, AssignCallNumWeights
  PROVE  WeightInv'
<1>1. /\ split' = split /\ pc = "weighCalls" /\ pc' = "weighArgs"
      /\ DOMAIN weight' = Factors /\ DOMAIN pushed' = Factors
      /\ weight'["SENSITIVE_RELATED"] = weight["SENSITIVE_RELATED"]
      /\ pushed'["SENSITIVE_RELATED"] = pushed["SENSITIVE_RELATED"]
      /\ UNCHANGED <<program, nodes, inEdges, outEdges>>
  BY DEF AssignCallNumWeights, WeightInv, graph
<1>2. /\ weight'["CALL_NUM"] =
           [e \in KnownPlaces |-> Number(callNumber(Caller(e), Callee(e)))]
      /\ pushed'["CALL_NUM"] = PushedCopies
  BY DEF AssignCallNumWeights, WeightInv, KnownPlaces, Factors
<1>3. RelatedWeights'
  BY <1>1, RelatedWeightsKept DEF WeightInv
<1>4. \A e \in PushedCopies : e \in KnownPlaces
  BY DEF PushedCopies, KnownPlaces, AllInPlaces, InPlaces, Callee
<1>5. /\ KnownPlaces' = KnownPlaces /\ PushedCopies' = PushedCopies
      /\ \A e : Count(e)' = Count(e)
  BY <1>1, PlacesFixed
<1>6. \A e \in KnownPlaces : weight'["CALL_NUM"][e] = Number(Count(e))
  BY <1>2 DEF Count
<1>7. CallWeights'
  BY <1>2, <1>4, <1>5, <1>6 DEF CallWeights, NotScaledYet
<1>8. QED BY <1>1, <1>3, <1>7 DEF WeightInv

(***************************************************************************)
(* The steps that give or normalize other weights.                         *)
(***************************************************************************)
LEMMA OtherWeightsKeep ==
  ASSUME WeightInv, UNCHANGED <<program, nodes, inEdges, outEdges, split>>,
         pc \in {"create", "weighNodes"} <=> pc' \in {"create", "weighNodes"},
         pc \in {"create", "weighNodes", "weighCalls"} <=>
           pc' \in {"create", "weighNodes", "weighCalls"},
         DOMAIN weight' = Factors, DOMAIN pushed' = Factors,
         \A x \in {"SENSITIVE_RELATED", "CALL_NUM"} :
           weight'[x] = weight[x] /\ pushed'[x] = pushed[x]
  PROVE  WeightInv'
<1>1. RelatedWeights => RelatedWeights'
  BY RelatedWeightsKept
<1>2. CallWeights => CallWeights'
  BY CallWeightsKept
<1>3. QED BY <1>1, <1>2 DEF WeightInv

LEMMA NormalizeKeeps ==
  ASSUME GraphInv, WeightInv, NEW x \in Factors, Normalize(x)
  PROVE  WeightInv'
<1>1. pc = "normalize" /\ pc' = "normalize"
  BY DEF Normalize
<1>2. RelatedWeights /\ CallWeights
  BY <1>1 DEF WeightInv
<1>3. /\ DOMAIN weight' = Factors /\ DOMAIN pushed' = Factors
      /\ \A y \in Factors \ {x} : weight'[y] = weight[y] /\ pushed'[y] = pushed[y]
      /\ UNCHANGED <<program, nodes, inEdges, outEdges, split>>
  BY NormalizeEffect DEF WeightInv, graph
<1>4. RelatedWeights'
  <2>1. CASE x = "SENSITIVE_RELATED"
    BY <1>2, <2>1, NormalizeRelated
  <2>2. CASE x # "SENSITIVE_RELATED"
    BY <1>2, <1>3, <2>2, RelatedWeightsKept DEF Factors
  <2>3. QED BY <2>1, <2>2
<1>5. CallWeights'
  <2>1. CASE x = "CALL_NUM"
    BY <1>2, <2>1, NormalizeCalls
  <2>2. CASE x # "CALL_NUM"
    BY <1>2, <1>3, <2>2, CallWeightsKept DEF Factors
  <2>3. QED BY <2>1, <2>2
<1>6. split' \in Splits
  BY <1>3 DEF WeightInv
<1>7. QED BY <1>1, <1>3, <1>4, <1>5, <1>6 DEF WeightInv

LEMMA WeightInvStep == GraphInv /\ WeightInv /\ [Next]_graphVars => WeightInv'
<1> SUFFICES ASSUME GraphInv, WeightInv, [Next]_graphVars PROVE WeightInv'
  OBVIOUS
<1>1. ASSUME pc' \in {"create", "weighNodes"}, UNCHANGED <<split, weight, pushed>>,
             pc \in {"create", "weighNodes"}
      PROVE  WeightInv'
  BY <1>1 DEF WeightInv
<1>2. ASSUME NEW n \in todo, VisitNode(n) PROVE WeightInv'
  BY <1>1, <1>2 DEF VisitNode
<1>3. ASSUME NEW k \in pending, AddNodeConnection(k) PROVE WeightInv'
  BY <1>1, <1>3 DEF AddNodeConnection
<1>4. CASE FinishGraph
  BY <1>1, <1>4 DEF FinishGraph
<1>5. CASE AssignNodeWeights
  BY <1>5, AssignNodeWeightsKeeps
<1>6. CASE AssignCallNumWeights
  BY <1>6, AssignCallNumWeightsKeeps
<1>7. CASE AssignArgWeights
  <2>1. /\ UNCHANGED <<program, nodes, inEdges, outEdges, split>>
        /\ pc = "weighArgs" /\ pc' = "weighRet"
    BY <1>7 DEF AssignArgWeights, graph
  <2>2. /\ DOMAIN weight' = Factors /\ DOMAIN pushed' = Factors
        /\ \A x \in {"SENSITIVE_RELATED", "CALL_NUM"} :
             weight'[x] = weight[x] /\ pushed'[x] = pushed[x]
    BY <1>7 DEF AssignArgWeights, WeightInv, Factors
  <2>3. QED BY <2>1, <2>2, OtherWeightsKeep
<1>8. CASE AssignRetValueWeights
  <2>1. /\ UNCHANGED <<program, nodes, inEdges, outEdges, split>>
        /\ pc = "weighRet" /\ pc' = "normalize"
    BY <1>8 DEF AssignRetValueWeights, graph
  <2>2. /\ DOMAIN weight' = Factors /\ DOMAIN pushed' = Factors
        /\ \A x \in {"SENSITIVE_RELATED", "CALL_NUM"} :
             weight'[x] = weight[x] /\ pushed'[x] = pushed[x]
    BY <1>8 DEF AssignRetValueWeights, WeightInv, Factors
  <2>3. QED BY <2>1, <2>2, OtherWeightsKeep
<1>9. ASSUME NEW x \in Factors, Normalize(x) PROVE WeightInv'
  BY <1>9, NormalizeKeeps
<1>10. CASE FinishWeights
  <2>1. /\ UNCHANGED <<program, nodes, inEdges, outEdges, split, weight, pushed>>
        /\ pc = "normalize" /\ pc' = "weighed"
    BY <1>10 DEF FinishWeights, graph
  <2>2. DOMAIN weight' = Factors /\ DOMAIN pushed' = Factors
    BY <2>1 DEF WeightInv
  <2>3. QED BY <2>1, <2>2, OtherWeightsKeep
<1>11. CASE UNCHANGED graphVars
  <2>1. UNCHANGED <<program, nodes, inEdges, outEdges, split, weight, pushed, pc>>
    BY <1>11 DEF graphVars, graph
  <2>2. DOMAIN weight' = Factors /\ DOMAIN pushed' = Factors
    BY <2>1 DEF WeightInv
  <2>3. QED BY <2>1, <2>2, OtherWeightsKeep
<1>12. QED
  BY <1>2, <1>3, <1>4, <1>5, <1>6, <1>7, <1>8, <1>9, <1>10, <1>11 DEF Next

(***************************************************************************)
(* The graph and its weights at all times, with what is done to them       *)
(* afterwards.                                                             *)
(***************************************************************************)
LEMMA GraphAndWeightsInSplit == SplitSpec => [](GraphInv /\ WeightInv)
<1>1. SplitInit => GraphInv /\ WeightInv
  BY GraphInvInit, WeightInvInit DEF SplitInit
<1>2. GraphInv /\ WeightInv /\ [SplitNext]_vars => GraphInv' /\ WeightInv'
  BY SplitStepsGraph, GraphInvStep, WeightInvStep
<1>3. QED BY <1>1, <1>2, PTL DEF SplitSpec

LEMMA RelatedWeightsOfFirst == WeightInv => OnlyFirstLevelWeighs
<1> SUFFICES ASSUME WeightInv, pc = "weighed", NEW f \in DOMAIN split.related
             PROVE  Equal(weight["SENSITIVE_RELATED"][NodePlace(f)],
                          Number(IF split.related[f] = 1 THEN 1 ELSE 0))
  BY DEF OnlyFirstLevelWeighs
<1> DEFINE level == split.related[f]
<1>1. level \in Nat
  BY ProgramsAssumption DEF WeightInv
<1>2. weight["SENSITIVE_RELATED"][NodePlace(f)] = Number(relatedValue(level))
  BY DEF WeightInv, RelatedWeights, RelatedWeight, RelatedPlaces, NodePlace
<1> HIDE DEF level
<1>3. relatedValue(level) = IF level = 1 THEN 1 ELSE 0
  BY <1>1, RelatedValues
<1>4. QED BY <1>2, <1>3 DEF Equal, Number, Frac, level

(***************************************************************************)
(* For every cost of a loop above 1, all levels the analysis may give and  *)
(* every order of normalizing: 1/level and 1/LOOP_COST, divided as         *)
(* integers, tell level 1 from all others and nothing else, level 0 from   *)
(* the farthest ones neither (assignSensitiveRelatedNodeWeights,           *)
(* normalizeWeights).                                                      *)
(***************************************************************************)
THEOREM FirstLevelAloneWeighs == SplitSpec => []OnlyFirstLevelWeighs
BY GraphAndWeightsInSplit, RelatedWeightsOfFirst, PTL

LEMMA CallNumbersCounted == GraphInv /\ WeightInv => CallNumbersBounded
<1> SUFFICES ASSUME GraphInv, WeightInv, NEW e \in DOMAIN weight["CALL_NUM"],
                    e[1] = "out", Plain(Caller(e), Callee(e)) < POS_INFINITY
             PROVE  IF Plain(Caller(e), Callee(e)) = Cardinality(callSites(Caller(e), Callee(e)))
                    THEN weight["CALL_NUM"][e] = Number(Plain(Caller(e), Callee(e)))
                    ELSE /\ AtMost(Number(LOOP_COST), weight["CALL_NUM"][e])
                         /\ AtMost(weight["CALL_NUM"][e],
                                   Number(LOOP_COST + Plain(Caller(e), Callee(e))))
  BY DEF CallNumbersBounded
<1> DEFINE c == Count(e)
           plain == Plain(Caller(e), Callee(e))
           all == Cardinality(callSites(Caller(e), Callee(e)))
<1>1. pc \notin {"create", "weighNodes", "weighCalls"}
  <2>1. DOMAIN << >> = {}
    OBVIOUS
  <2>2. QED BY <2>1 DEF WeightInv
<1>2. weight["CALL_NUM"][e] = Number(c)
  BY <1>1 DEF WeightInv, CallWeights
<1>3. program \in Programs /\ LOOP_COST \in Nat
  BY ProgramsAssumption DEF GraphInv, GraphTypeOK
<1>4. /\ c \in 0 .. LOOP_COST + Len(program.calls)
      /\ plain = all /\ plain < POS_INFINITY => c = plain
      /\ plain # all => LOOP_COST <= c /\ c <= LOOP_COST + plain
      /\ plain \in Nat /\ Len(program.calls) \in Nat
  BY <1>3, CallNumberIs DEF Count
<1> HIDE DEF c, plain, all
<1>5. c \in Int
  BY <1>3, <1>4
<1>6. CASE plain = all
  BY <1>2, <1>4, <1>6 DEF plain, all
<1>7. CASE plain # all
  <2>1. AtMost(Number(LOOP_COST), Number(c)) /\ AtMost(Number(c), Number(LOOP_COST + plain))
    BY <1>3, <1>4, <1>5, <1>7 DEF AtMost, Number, Frac
  <2>2. QED BY <1>2, <1>7, <2>1 DEF plain, all
<1>8. QED BY <1>6, <1>7

(***************************************************************************)
(* For every program and every order of its call sites: the callers' copy  *)
(* of an edge has exactly the number of its calls if none is in a loop,    *)
(* and otherwise at least the cost of a loop and at most all other calls   *)
(* more (collectFunctionCallSiteData).                                     *)
(***************************************************************************)
THEOREM CallNumbersStayBounded == SplitSpec => []CallNumbersBounded
BY GraphAndWeightsInSplit, CallNumbersCounted, PTL

(***************************************************************************)
(* A call whose number is known at one end is known at both.               *)
(***************************************************************************)
LEMMA PairHasCopies ==
  ASSUME GraphInv, CallWeights, pc # "create", NEW p \in Pairs
  PROVE  /\ <<"in", p[1], p[2]>> \in PushedCopies
         /\ <<"out", p[1], p[2]>> \in KnownPlaces
<1>1. PICK e \in KnownPlaces : p = <<Caller(e), Callee(e)>>
  BY DEF Pairs, CallWeights
<1> DEFINE f == p[1]
           h == p[2]
<1>2. f = Caller(e) /\ h = Callee(e) /\ h \in program.hasPDG
  BY <1>1 DEF KnownPlaces
<1>3. nodes = Functions
  BY DEF GraphInv, NodesAdvance
<1>4. \A g \in Functions :
        ToSet(outEdges[g]) \subseteq Functions /\ ToSet(inEdges[g]) \subseteq Functions
  <2>1. \A g \in Functions : outEdges[g] \in Seq(Functions) /\ inEdges[g] \in Seq(Functions)
    BY DEF GraphInv, GraphTypeOK
  <2>2. QED BY <2>1 DEF ToSet
<1>5. f \in Functions /\ h \in Functions /\ h \in ToSet(outEdges[f]) /\ f \in ToSet(inEdges[h])
  <2>1. CASE e \in AllInPlaces
    <3>1. PICK hh \in nodes : e \in InPlaces(hh)
      BY <2>1 DEF AllInPlaces
    <3>2. PICK ff \in ToSet(inEdges[hh]) : e = <<"in", ff, hh>>
      BY <3>1 DEF InPlaces
    <3>3. f = ff /\ h = hh
      BY <1>2, <3>2 DEF Caller, Callee
    <3>4. QED BY <1>3, <1>4, <3>1, <3>2, <3>3 DEF GraphInv, EdgesAgree
  <2>2. CASE e \in AllOutPlaces
    <3>1. PICK ff \in nodes : e \in OutPlaces(ff)
      BY <2>2 DEF AllOutPlaces
    <3>2. PICK hh \in ToSet(outEdges[ff]) : e = <<"out", ff, hh>>
      BY <3>1 DEF OutPlaces
    <3>3. f = ff /\ h = hh
      BY <1>2, <3>2 DEF Caller, Callee
    <3>4. QED BY <1>3, <1>4, <3>1, <3>2, <3>3 DEF GraphInv, EdgesAgree
  <2>3. QED BY <1>1, <2>1, <2>2 DEF KnownPlaces
<1> HIDE DEF f, h
<1>6. <<"in", f, h>> \in InPlaces(h) /\ <<"out", f, h>> \in OutPlaces(f)
  BY <1>5 DEF InPlaces, OutPlaces
<1>7. <<"in", f, h>> \in PushedCopies
  BY <1>2, <1>3, <1>5, <1>6 DEF PushedCopies
<1>8. <<"out", f, h>> \in AllOutPlaces /\ Callee(<<"out", f, h>>) = h
  BY <1>3, <1>5, <1>6 DEF AllOutPlaces, Callee
<1>9. <<"out", f, h>> \in KnownPlaces
  BY <1>2, <1>8 DEF KnownPlaces
<1>10. QED BY <1>7, <1>9 DEF f, h

LEMMA PushedIsPair ==
  ASSUME CallWeights, NEW e \in PushedCopies
  PROVE  <<Caller(e), Callee(e)>> \in Pairs
<1>1. e \in KnownPlaces
  BY DEF PushedCopies, KnownPlaces, AllInPlaces, InPlaces, Callee
<1>2. QED BY <1>1 DEF Pairs, CallWeights

LEMMA CopiesOrderedAlike == GraphInv /\ WeightInv => CopiesCorrespond
<1> SUFFICES ASSUME GraphInv, WeightInv, pc = "weighed"
             PROVE  /\ \A p, q \in Pairs :
                         Less(InCopy(p), InCopy(q)) <=> Less(OutCopy(p), OutCopy(q))
                    /\ \/ \A p \in Pairs :
                            AtMost(Zero, InCopy(p)) /\ AtMost(InCopy(p), Number(1))
                       \/ \A p \in Pairs : Equal(InCopy(p), OutCopy(p))
                    /\ (\A p, q \in Pairs : Equal(OutCopy(p), OutCopy(q))) =>
                         \A p \in Pairs : Equal(InCopy(p), OutCopy(p))
  BY DEF CopiesCorrespond
<1> DEFINE n(p) == callNumber(p[1], p[2])
<1>1. CallWeights
  BY DEF WeightInv
<1>2. \A p : n(p) \in Nat
  <2>1. program \in Programs /\ LOOP_COST \in Nat
    BY ProgramsAssumption DEF GraphInv, GraphTypeOK
  <2>2. QED BY <2>1, CallNumberIs
<1>3. \A p \in Pairs : OutCopy(p) = Number(n(p))
  <2> SUFFICES ASSUME NEW p \in Pairs PROVE OutCopy(p) = Number(n(p))
    OBVIOUS
  <2> DEFINE e == <<"out", p[1], p[2]>>
  <2>1. e \in KnownPlaces /\ e[1] = "out" /\ Count(e) = n(p)
    BY <1>1, PairHasCopies DEF Count, Caller, Callee
  <2>2. weight["CALL_NUM"][e] = Number(Count(e))
    BY <1>1, <2>1 DEF CallWeights
  <2>3. QED BY <2>1, <2>2 DEF OutCopy
<1>4. \A p \in Pairs : <<"in", p[1], p[2]>> \in PushedCopies /\ Count(<<"in", p[1], p[2]>>) = n(p)
  BY <1>1, PairHasCopies DEF Count, Caller, Callee
<1>5. CASE NotScaledYet
  <2>1. \A p \in Pairs : InCopy(p) = OutCopy(p)
    BY <1>3, <1>4, <1>5 DEF NotScaledYet, InCopy
  <2>2. QED BY <2>1 DEF Equal
<1>6. ASSUME NEW least \in PushedCopies, NEW greatest \in PushedCopies,
             ScaledBetween(least, greatest)
      PROVE  /\ \A p, q \in Pairs :
                  Less(InCopy(p), InCopy(q)) <=> Less(OutCopy(p), OutCopy(q))
             /\ \/ \A p \in Pairs :
                     AtMost(Zero, InCopy(p)) /\ AtMost(InCopy(p), Number(1))
                \/ \A p \in Pairs : Equal(InCopy(p), OutCopy(p))
             /\ (\A p, q \in Pairs : Equal(OutCopy(p), OutCopy(q))) =>
                  \A p \in Pairs : Equal(InCopy(p), OutCopy(p))
  <2> DEFINE lo == Count(least)
             hi == Count(greatest)
  <2>1. lo \in Nat /\ hi \in Nat
    <3>1. \A e : Count(e) = n(<<Caller(e), Callee(e)>>)
      BY DEF Count
    <3> HIDE DEF n
    <3>2. QED BY <1>2, <3>1
  <2>2. \A p \in Pairs : n(p) \in lo .. hi /\ InCopy(p) = Scaled(n(p), lo, hi)
    <3> SUFFICES ASSUME NEW p \in Pairs
                 PROVE  n(p) \in lo .. hi /\ InCopy(p) = Scaled(n(p), lo, hi)
      OBVIOUS
    <3> DEFINE e == <<"in", p[1], p[2]>>
    <3>1. e \in PushedCopies /\ Count(e) = n(p)
      BY <1>4
    <3>2. Count(e) \in lo .. hi /\ weight["CALL_NUM"][e] = Scaled(Count(e), lo, hi)
      BY <1>6, <3>1 DEF ScaledBetween
    <3>3. QED BY <3>1, <3>2 DEF InCopy
  <2> DEFINE first == <<Caller(least), Callee(least)>>
             last == <<Caller(greatest), Callee(greatest)>>
  <2>3. first \in Pairs /\ n(first) = lo /\ last \in Pairs /\ n(last) = hi
    BY <1>1, PushedIsPair DEF Count
  <2> HIDE DEF n, lo, hi, first, last
  <2>4. \A p, q \in Pairs : Less(OutCopy(p), OutCopy(q)) <=> n(p) < n(q)
    BY <1>2, <1>3 DEF Less, Number, Frac
  <2>5. \A p, q \in Pairs : Less(InCopy(p), InCopy(q)) <=> Less(OutCopy(p), OutCopy(q))
    BY <2>1, <2>2, <2>4, ScaledKeepsOrder
  <2>6. CASE lo = hi
    <3>1. \A p \in Pairs : n(p) = lo
      BY <2>1, <2>2, <2>6
    <3>2. \A p \in Pairs : InCopy(p) = OutCopy(p)
      BY <1>3, <2>2, <2>6, <3>1 DEF Scaled
    <3>3. QED BY <2>5, <3>2 DEF Equal
  <2>7. CASE lo # hi
    <3>1. \A p \in Pairs : AtMost(Zero, InCopy(p)) /\ AtMost(InCopy(p), Number(1))
      BY <2>1, <2>2, <2>7, ScaledKeepsOrder
    <3>2. ~Equal(OutCopy(first), OutCopy(last))
      BY <1>3, <2>1, <2>3, <2>7 DEF Equal, Number, Frac
    <3>3. QED BY <2>3, <2>5, <3>1, <3>2
  <2>8. QED BY <2>6, <2>7
<1>7. QED BY <1>1, <1>5, <1>6 DEF CallWeights

(***************************************************************************)
(* For every program, however far its numbers of calls are apart: when the *)
(* weights are done both copies of the edges order the calls alike, the    *)
(* callees' ones from 0 to 1 unless all calls weigh the same, and then the *)
(* copies are equal (assignCallNumWeights, normalizeWeights).              *)
(***************************************************************************)
THEOREM CopiesAlwaysCorrespond == SplitSpec => []CopiesCorrespond
BY GraphAndWeightsInSplit, CopiesOrderedAlike, PTL

-----------------------------------------------------------------------------
(***************************************************************************)
(* Numbers with a common measure                                           *)
(*                                                                         *)
(* The weights of one factor are integers or have the one denominator they *)
(* were normalized with.  In units of that denominator D, plus, minus and  *)
(* the comparisons of doubles are those of integers.                       *)
(***************************************************************************)
Measured(a, D) == a.num \in Int /\ a.den \in {1, D}

Units(a, D) == IF a.den = D THEN a.num ELSE a.num * D

LEMMA MultiplesOrdered ==
  ASSUME NEW D \in Nat \ {0}, NEW x \in Int, NEW y \in Int
  PROVE  /\ x * D <= y * D <=> x <= y
         /\ (x + y) * D = x * D + y * D
         /\ (-x) * D = -(x * D)
<1>1. (x + y) * D = x * D + y * D /\ (-x) * D = -(x * D)
  OBVIOUS
<1>2. ASSUME x <= y PROVE x * D <= y * D
  BY <1>2
<1>3. ASSUME y + 1 <= x PROVE y * D < x * D
  <2>1. (y + 1) * D <= x * D
    BY <1>3
  <2>2. (y + 1) * D = y * D + D
    OBVIOUS
  <2>3. y * D \in Int /\ x * D \in Int
    OBVIOUS
  <2>4. QED BY <2>1, <2>2, <2>3
<1>4. x * D \in Int /\ y * D \in Int
  OBVIOUS
<1>5. QED BY <1>1, <1>2, <1>3, <1>4

LEMMA PlusMeasured ==
  ASSUME NEW D \in Nat \ {0}, NEW a, NEW b, Measured(a, D), Measured(b, D)
  PROVE  /\ Measured(plus(a, b), D)
         /\ Units(plus(a, b), D) = Units(a, D) + Units(b, D)
         /\ Units(a, D) \in Int
<1>1. CASE a.den = b.den
  <2>1. plus(a, b) = Frac(a.num + b.num, a.den)
    BY <1>1 DEF plus
  <2>2. QED BY <1>1, <2>1, MultiplesOrdered DEF Measured, Units, Frac
<1>2. CASE a.den # b.den
  <2>1. plus(a, b) = Frac(a.num * b.den + b.num * a.den, a.den * b.den)
    BY <1>2 DEF plus
  <2>2. CASE a.den = 1 /\ b.den = D
    BY <1>2, <2>1, <2>2 DEF Measured, Units, Frac
  <2>3. CASE a.den = D /\ b.den = 1
    BY <1>2, <2>1, <2>3 DEF Measured, Units, Frac
  <2>4. QED BY <1>2, <2>2, <2>3 DEF Measured
<1>3. QED BY <1>1, <1>2

LEMMA OppositeMeasured ==
  ASSUME NEW D \in Nat \ {0}, NEW a, Measured(a, D)
  PROVE  /\ Measured(Frac(-a.num, a.den), D)
         /\ Units(Frac(-a.num, a.den), D) = -Units(a, D)
BY MultiplesOrdered DEF Measured, Units, Frac

LEMMA MinusMeasured ==
  ASSUME NEW D \in Nat \ {0}, NEW a, NEW b, Measured(a, D), Measured(b, D)
  PROVE  /\ Measured(minus(a, b), D)
         /\ Units(minus(a, b), D) = Units(a, D) - Units(b, D)
<1> DEFINE c == Frac(-b.num, b.den)
<1>1. Measured(c, D) /\ Units(c, D) = -Units(b, D)
  BY OppositeMeasured
<1>2. minus(a, b) = plus(a, c)
  BY DEF minus
<1> HIDE DEF c
<1>3. Units(a, D) \in Int /\ Units(b, D) \in Int
  BY PlusMeasured
<1>4. QED BY <1>1, <1>2, <1>3, PlusMeasured

LEMMA AtMostMeasured ==
  ASSUME NEW D \in Nat \ {0}, NEW a, NEW b, Measured(a, D), Measured(b, D)
  PROVE  /\ AtMost(a, b) <=> Units(a, D) <= Units(b, D)
         /\ Equal(a, b) <=> Units(a, D) = Units(b, D)
<1>1. /\ a.num * D <= b.num * D <=> a.num <= b.num
      /\ b.num * D <= a.num * D <=> b.num <= a.num
      /\ a.num \in Int /\ b.num \in Int /\ a.num * D \in Int /\ b.num * D \in Int
  BY MultiplesOrdered DEF Measured
<1>2. AtMost(a, b) <=> Units(a, D) <= Units(b, D)
  BY <1>1 DEF Measured, Units, AtMost
<1>3. Equal(a, b) <=> Units(a, D) = Units(b, D)
  BY <1>1 DEF Measured, Units, Equal
<1>4. QED BY <1>2, <1>3

LEMMA IntegersMeasured ==
  ASSUME NEW D \in Nat \ {0}, NEW n \in Int
  PROVE  Measured(Number(n), D) /\ Units(Number(n), D) = n * D
BY DEF Measured, Units, Number, Frac

(***************************************************************************)
(* The measured numbers from 0 on.                                         *)
(***************************************************************************)
Counted(a, D) == Measured(a, D) /\ a.num >= 0

LEMMA CountedUnits ==
  ASSUME NEW D \in Nat \ {0}, NEW a, Counted(a, D)
  PROVE  Units(a, D) \in Nat
BY DEF Counted, Measured, Units

LEMMA InfinityMeasured ==
  ASSUME NEW D \in Nat \ {0}, NEW a, Measured(a, D)
  PROVE  /\ isPosInfinity(a) <=> Units(a, D) = POS_INFINITY * D
         /\ isNegInfinity(a) => Units(a, D) < 0
         /\ Measured(Infinity, D) /\ Measured(NegInfinity, D) /\ Measured(Zero, D)
         /\ Units(Infinity, D) = POS_INFINITY * D /\ POS_INFINITY * D \in Nat \ {0}
         /\ Units(Zero, D) = 0
<1>1. POS_INFINITY \in Nat \ {0}
  BY InfinityAssumption
<1>2. /\ Measured(Infinity, D) /\ Units(Infinity, D) = POS_INFINITY * D
      /\ Measured(NegInfinity, D) /\ Units(NegInfinity, D) = (-POS_INFINITY) * D
      /\ Measured(Zero, D) /\ Units(Zero, D) = 0 * D
  BY <1>1, IntegersMeasured DEF Infinity, NegInfinity, Zero
<1>3. POS_INFINITY * D \in Nat \ {0} /\ (-POS_INFINITY) * D = -(POS_INFINITY * D)
  BY <1>1
<1>4. isPosInfinity(a) <=> Units(a, D) = POS_INFINITY * D
  BY <1>2, AtMostMeasured DEF isPosInfinity
<1>5. isNegInfinity(a) <=> Units(a, D) = (-POS_INFINITY) * D
  BY <1>2, AtMostMeasured DEF isNegInfinity
<1>6. Units(a, D) \in Int
  BY PlusMeasured
<1>7. QED BY <1>2, <1>3, <1>4, <1>5, <1>6

LEMMA SafeSumMeasured ==
  ASSUME NEW D \in Nat \ {0}, NEW a, NEW b, Measured(a, D), Measured(b, D)
  PROVE  Measured(safe_sum(a, b), D)
<1>1. Measured(Infinity, D) /\ Measured(NegInfinity, D) /\ Measured(Zero, D)
  BY InfinityMeasured
<1>2. Measured(plus(a, b), D)
  BY PlusMeasured
<1>3. safe_sum(a, b) \in {Infinity, NegInfinity, Zero, plus(a, b)}
  BY DEF safe_sum
<1>4. QED BY <1>1, <1>2, <1>3

(***************************************************************************)
(* The sum of numbers from 0 on: infinite when one of them is, the exact   *)
(* sum otherwise.                                                          *)
(***************************************************************************)
LEMMA SafeSumCounted ==
  ASSUME NEW D \in Nat \ {0}, NEW a, NEW b, Counted(a, D), Counted(b, D)
  PROVE  /\ Counted(safe_sum(a, b), D)
         /\ Units(safe_sum(a, b), D) =
              IF Units(a, D) = POS_INFINITY * D \/ Units(b, D) = POS_INFINITY * D
              THEN POS_INFINITY * D ELSE Units(a, D) + Units(b, D)
<1>1. Measured(a, D) /\ Measured(b, D) /\ a.num >= 0 /\ b.num >= 0
  BY DEF Counted
<1>2. /\ isPosInfinity(a) <=> Units(a, D) = POS_INFINITY * D
      /\ isPosInfinity(b) <=> Units(b, D) = POS_INFINITY * D
      /\ ~isNegInfinity(a) /\ ~isNegInfinity(b)
      /\ Units(Infinity, D) = POS_INFINITY * D /\ Measured(Infinity, D)
  BY <1>1, InfinityMeasured, CountedUnits
<1>3. CASE isPosInfinity(a) \/ isPosInfinity(b)
  <2>1. safe_sum(a, b) = Infinity
    BY <1>1, <1>2, <1>3 DEF safe_sum
  <2>2. Infinity.num >= 0
    BY InfinityAssumption DEF Infinity, Number, Frac
  <2>3. QED BY <1>2, <1>3, <2>1, <2>2 DEF Counted
<1>4. CASE ~(isPosInfinity(a) \/ isPosInfinity(b))
  <2>1. safe_sum(a, b) = plus(a, b)
    BY <1>1, <1>2, <1>4 DEF safe_sum
  <2>2. plus(a, b).num >= 0
    BY <1>1 DEF plus, Frac, Measured
  <2>3. Measured(plus(a, b), D) /\ Units(plus(a, b), D) = Units(a, D) + Units(b, D)
    BY <1>1, PlusMeasured
  <2>4. QED BY <1>2, <1>4, <2>1, <2>2, <2>3 DEF Counted
<1>5. QED BY <1>3, <1>4

LEMMA SafeMultCounted ==
  ASSUME NEW D \in Nat \ {0}, NEW a, Counted(a, D), NEW k \in Nat
  PROVE  Counted(safe_mult(a, Number(k)), D)
<1> DEFINE b == Number(k)
<1>1. Counted(b, 1) /\ Measured(a, D) /\ a.num >= 0 /\ b.num = k /\ b.den = 1
  BY DEF Counted, Measured, Number, Frac
<1>2. ~isNegInfinity(a) /\ ~isNegInfinity(b)
  <2>1. ~isNegInfinity(a)
    BY <1>1, InfinityMeasured, CountedUnits
  <2>2. Measured(b, 1) /\ Units(b, 1) \in Nat
    BY <1>1, CountedUnits DEF Counted
  <2> HIDE DEF b
  <2>3. ~isNegInfinity(b)
    BY <2>2, InfinityMeasured
  <2>4. QED BY <2>1, <2>3
<1>3. Counted(Zero, D) /\ Counted(Infinity, D)
  BY InfinityMeasured, InfinityAssumption DEF Counted, Zero, Infinity, Number, Frac, Measured
<1>4. CASE a.num = 0 \/ b.num = 0
  BY <1>3, <1>4 DEF safe_mult
<1>5. CASE ~(a.num = 0 \/ b.num = 0)
  <2> HIDE DEF b
  <2>1. CASE isPosInfinity(a) \/ isPosInfinity(b)
    <3>1. safe_mult(a, b) = Signed(b.num > 0)
      BY <1>2, <1>5, <2>1 DEF safe_mult
    <3>2. b.num > 0
      BY <1>1, <1>5
    <3>3. QED BY <1>3, <3>1, <3>2 DEF Signed, b
  <2>2. CASE ~(isPosInfinity(a) \/ isPosInfinity(b))
    <3> DEFINE product == Abs(times(a, b))
    <3>1. safe_mult(a, b) = finiteProduct(a, b)
      BY <1>2, <1>5, <2>2 DEF safe_mult
    <3>2. a.num * b.num \in Nat /\ a.den * b.den = a.den
      BY <1>1 DEF Measured
    <3>3. Counted(product, D)
      BY <1>1, <3>2 DEF Counted, Measured, Abs, AbsInt, times, Frac
    <3>4. ~(a.num < 0 \/ b.num < 0)
      BY <1>1 DEF Measured
    <3>5. finiteProduct(a, b) \in {Infinity, product}
      BY <3>4 DEF finiteProduct, Signed
    <3> HIDE DEF product
    <3>6. QED BY <1>3, <3>1, <3>3, <3>5 DEF b
  <2>3. QED BY <2>1, <2>2
<1>6. QED BY <1>4, <1>5

(***************************************************************************)
(* The number r is what a safe sum of numbers that are exactly u units may *)
(* be: u itself or infinity, the latter only if u has reached it.          *)
(***************************************************************************)
Fits(r, u, D) ==
  /\ Counted(r, D)
  /\ \/ Units(r, D) = u
     \/ Units(r, D) = POS_INFINITY * D /\ u >= POS_INFINITY * D

LEMMA SumFits ==
  ASSUME NEW D \in Nat \ {0}, NEW r, NEW s, NEW u \in Nat, NEW v \in Nat,
         Fits(r, u, D), Fits(s, v, D)
  PROVE  Fits(safe_sum(r, s), u + v, D)
<1>1. Counted(r, D) /\ Counted(s, D)
  BY DEF Fits
<1>2. Units(r, D) \in Nat /\ Units(s, D) \in Nat
  BY <1>1, CountedUnits
<1>3. /\ Counted(safe_sum(r, s), D)
      /\ Units(safe_sum(r, s), D) =
           IF Units(r, D) = POS_INFINITY * D \/ Units(s, D) = POS_INFINITY * D
           THEN POS_INFINITY * D ELSE Units(r, D) + Units(s, D)
  BY <1>1, SafeSumCounted
<1> DEFINE I == POS_INFINITY * D
<1>4. I \in Nat
  BY InfinityAssumption
<1>5. /\ Units(r, D) = u \/ (Units(r, D) = I /\ u >= I)
      /\ Units(s, D) = v \/ (Units(s, D) = I /\ v >= I)
  BY DEF Fits
<1> HIDE DEF I
<1>6. \/ Units(safe_sum(r, s), D) = u + v
      \/ Units(safe_sum(r, s), D) = I /\ u + v >= I
  BY <1>2, <1>3, <1>4, <1>5 DEF I
<1>7. QED BY <1>3, <1>6 DEF Fits, I

-----------------------------------------------------------------------------
(***************************************************************************)
(* Totals                                                                  *)
(***************************************************************************)
LEMMA TotalUnfold ==
  ASSUME NEW cost, NEW S, IsFiniteSet(S)
  PROVE  Total(cost, S) = FoldOf(TotalRule, cost, S)
<1> DEFINE Solves(it) == it = [s \in SUBSET S |->
             IF s = {} THEN Zero ELSE plus(cost[AnyOf(s)], it[s \ {AnyOf(s)}])]
<1>0. Foldable(TotalRule, S)
  BY DEF Foldable
<1>1. Total(cost, S) = (CHOOSE it : Solves(it))[S]
  BY DEF Total, MapThenFoldSet
<1>2. \A it : Solves(it) <=> IsFoldOf(TotalRule, cost, it, S)
  BY DEF IsFoldOf, FoldStep, Start, Joined, Chosen, CountRule, TotalRule
<1> HIDE DEF Solves
<1>3. \E it : Solves(it)
  BY <1>0, <1>2, FoldExists
<1>4. PICK it : Solves(it) /\ Total(cost, S) = it[S]
  BY <1>1, <1>3
<1>5. it[S] = FoldOf(TotalRule, cost, S)
  BY <1>0, <1>2, <1>4, SolutionFolds
<1>6. QED BY <1>4, <1>5

LEMMA TotalLast ==
  ASSUME NEW cost, NEW S, IsFiniteSet(S)
  PROVE  /\ S = {} => Total(cost, S) = Zero
         /\ S # {} => /\ AnyOf(S) \in S
                      /\ Total(cost, S) = plus(cost[AnyOf(S)], Total(cost, S \ {AnyOf(S)}))
<1>1. Foldable(TotalRule, S) /\ CountRule # TotalRule /\ IsFiniteSet(S \ {AnyOf(S)})
  BY FS_Subset DEF Foldable, TotalRule, CountRule
<1>2. Chosen(TotalRule, S) = AnyOf(S)
  BY DEF Chosen
<1>3. S # {} => AnyOf(S) \in S
  BY DEF AnyOf
<1>4. QED BY <1>1, <1>2, <1>3, FoldLast, TotalUnfold DEF Start, Joined

AllMeasured(cost, S, D) == \A x \in S : Measured(cost[x], D)
AllCounted(cost, S, D) == \A x \in S : Counted(cost[x], D)

TotalUnits(cost, S, D) == Units(Total(cost, S), D)

LEMMA TotalMeasured ==
  ASSUME NEW D \in Nat \ {0}, NEW cost, NEW S, IsFiniteSet(S), AllMeasured(cost, S, D)
  PROVE  Measured(Total(cost, S), D) /\ TotalUnits(cost, S, D) \in Int
<1> DEFINE P == {T \in SUBSET S : Measured(Total(cost, T), D)}
<1>1. ASSUME NEW T \in SUBSET S, \A U \in SUBSET T : U # T => U \in P
      PROVE  T \in P
  <2>0. IsFiniteSet(T)
    BY FS_Subset
  <2>1. CASE T = {}
    <3>1. Total(cost, T) = Zero
      BY <2>0, <2>1, TotalLast
    <3>2. Measured(Zero, D)
      BY DEF Measured, Zero, Number, Frac
    <3>3. QED BY <3>1, <3>2
  <2>2. CASE T # {}
    <3>1. /\ AnyOf(T) \in T
          /\ Total(cost, T) = plus(cost[AnyOf(T)], Total(cost, T \ {AnyOf(T)}))
      BY <2>0, <2>2, TotalLast
    <3>2. Measured(cost[AnyOf(T)], D)
      BY <3>1 DEF AllMeasured
    <3>3. Measured(Total(cost, T \ {AnyOf(T)}), D)
      BY <1>1, <3>1
    <3>4. Measured(Total(cost, T), D)
      BY <3>1, <3>2, <3>3, PlusMeasured
    <3>5. QED BY <3>4
  <2>3. QED BY <2>1, <2>2
<1>2. \A T \in SUBSET S : T \in P
  <2> HIDE DEF P
  <2> QED BY <1>1, SubsetInduction
<1>3. Measured(Total(cost, S), D)
  BY <1>2
<1>4. QED BY <1>3, PlusMeasured DEF TotalUnits

(***************************************************************************)
(* Any element may be taken out of a total, not only the one the fold      *)
(* takes.                                                                  *)
(***************************************************************************)
TakenOut(cost, T, D) ==
  \A x \in T : TotalUnits(cost, T, D) = Units(cost[x], D) + TotalUnits(cost, T \ {x}, D)

LEMMA TotalTakenOut ==
  ASSUME NEW D \in Nat \ {0}, NEW cost, NEW S, IsFiniteSet(S), AllMeasured(cost, S, D)
  PROVE  TakenOut(cost, S, D)
<1> DEFINE P == {T \in SUBSET S : TakenOut(cost, T, D)}
<1>0. ASSUME NEW T \in SUBSET S
      PROVE  /\ IsFiniteSet(T) /\ AllMeasured(cost, T, D)
             /\ Measured(Total(cost, T), D) /\ TotalUnits(cost, T, D) \in Int
  <2>1. IsFiniteSet(T) /\ AllMeasured(cost, T, D)
    BY FS_Subset DEF AllMeasured
  <2>2. QED BY <2>1, TotalMeasured
<1>1. ASSUME NEW T \in SUBSET S, \A U \in SUBSET T : U # T => U \in P
      PROVE  T \in P
  <2> SUFFICES ASSUME NEW x \in T
               PROVE  TotalUnits(cost, T, D) = Units(cost[x], D) + TotalUnits(cost, T \ {x}, D)
    BY DEF TakenOut
  <2> DEFINE y == AnyOf(T)
  <2>1. y \in T /\ Total(cost, T) = plus(cost[y], Total(cost, T \ {y}))
    BY <1>0, TotalLast
  <2> HIDE DEF y
  <2>2. /\ Measured(cost[x], D) /\ Measured(cost[y], D)
        /\ Units(cost[x], D) \in Int /\ Units(cost[y], D) \in Int
    BY <2>1, PlusMeasured DEF AllMeasured
  <2>3. TotalUnits(cost, T, D) = Units(cost[y], D) + TotalUnits(cost, T \ {y}, D)
    BY <1>0, <2>1, <2>2, PlusMeasured DEF TotalUnits
  <2>4. CASE x = y
    BY <2>3, <2>4
  <2>5. CASE x # y
    <3>1. T \ {y} \in P /\ T \ {x} \in P
      BY <1>1, <2>1
    <3> DEFINE rest == TotalUnits(cost, (T \ {y}) \ {x}, D)
    <3>2. TotalUnits(cost, T \ {y}, D) = Units(cost[x], D) + rest
      BY <2>5, <3>1 DEF TakenOut
    <3>3. TotalUnits(cost, T \ {x}, D) = Units(cost[y], D) + rest
      <4>1. TotalUnits(cost, T \ {x}, D) = Units(cost[y], D) + TotalUnits(cost, (T \ {x}) \ {y}, D)
        BY <2>1, <2>5, <3>1 DEF TakenOut
      <4>2. (T \ {x}) \ {y} = (T \ {y}) \ {x}
        OBVIOUS
      <4>3. QED BY <4>1, <4>2
    <3>4. rest \in Int
      BY <1>0
    <3> HIDE DEF rest
    <3>5. QED BY <2>2, <2>3, <3>2, <3>3, <3>4
  <2>6. QED BY <2>4, <2>5
<1>2. \A T \in SUBSET S : T \in P
  <2> HIDE DEF P
  <2> QED BY <1>1, SubsetInduction
<1>3. QED BY <1>2

LEMMA TotalEmpty ==
  ASSUME NEW D \in Nat \ {0}, NEW cost
  PROVE  TotalUnits(cost, {}, D) = 0
<1>1. Total(cost, {}) = Zero
  BY FS_EmptySet, TotalLast
<1>2. QED BY <1>1, IntegersMeasured DEF TotalUnits, Zero

(***************************************************************************)
(* The total over two sets without a common element is that over the one   *)
(* and that over the other.                                                *)
(***************************************************************************)
LEMMA TotalUnion ==
  ASSUME NEW D \in Nat \ {0}, NEW cost, NEW A, NEW B, IsFiniteSet(A), IsFiniteSet(B),
         A \cap B = {}, AllMeasured(cost, A, D), AllMeasured(cost, B, D)
  PROVE  TotalUnits(cost, A \cup B, D) = TotalUnits(cost, A, D) + TotalUnits(cost, B, D)
<1> DEFINE P == {T \in SUBSET A :
      TotalUnits(cost, T \cup B, D) = TotalUnits(cost, T, D) + TotalUnits(cost, B, D)}
<1>0. ASSUME NEW T \in SUBSET A
      PROVE  /\ IsFiniteSet(T) /\ AllMeasured(cost, T, D)
             /\ IsFiniteSet(T \cup B) /\ AllMeasured(cost, T \cup B, D)
             /\ TotalUnits(cost, T, D) \in Int /\ TotalUnits(cost, B, D) \in Int
             /\ TotalUnits(cost, T \cup B, D) \in Int
  <2>1. IsFiniteSet(T) /\ AllMeasured(cost, T, D) /\ AllMeasured(cost, T \cup B, D)
    BY FS_Subset DEF AllMeasured
  <2>2. IsFiniteSet(T \cup B)
    BY <2>1, FS_Union
  <2>3. QED BY <2>1, <2>2, TotalMeasured
<1>1. ASSUME NEW T \in SUBSET A, \A U \in SUBSET T : U # T => U \in P
      PROVE  T \in P
  <2>1. CASE T = {}
    <3>1. T \cup B = B /\ TotalUnits(cost, T, D) = 0
      BY <2>1, TotalEmpty
    <3>2. TotalUnits(cost, T \cup B, D) = TotalUnits(cost, T, D) + TotalUnits(cost, B, D)
      BY <1>0, <3>1
    <3>3. QED BY <3>2
  <2>2. CASE T # {}
    <3>1. PICK x \in T : TRUE
      BY <2>2
    <3> DEFINE U == T \ {x}
    <3>2. U \in P /\ U \in SUBSET A /\ (T \cup B) \ {x} = U \cup B
      BY <1>1
    <3>3. TotalUnits(cost, T, D) = Units(cost[x], D) + TotalUnits(cost, U, D)
      BY <1>0, TotalTakenOut DEF TakenOut
    <3>4. x \in T \cup B /\ TakenOut(cost, T \cup B, D)
      BY <1>0, TotalTakenOut
    <3>5. TotalUnits(cost, T \cup B, D) = Units(cost[x], D) + TotalUnits(cost, U \cup B, D)
      BY <3>2, <3>4 DEF TakenOut
    <3>6. TotalUnits(cost, U \cup B, D) = TotalUnits(cost, U, D) + TotalUnits(cost, B, D)
      BY <3>2
    <3>7. Units(cost[x], D) \in Int
      BY PlusMeasured DEF AllMeasured
    <3>8. TotalUnits(cost, U, D) \in Int /\ TotalUnits(cost, B, D) \in Int
      BY <1>0, <3>2
    <3> HIDE DEF U
    <3>9. TotalUnits(cost, T \cup B, D) = TotalUnits(cost, T, D) + TotalUnits(cost, B, D)
      BY <3>3, <3>5, <3>6, <3>7, <3>8
    <3>10. QED BY <3>9
  <2>3. QED BY <2>1, <2>2
<1>2. \A T \in SUBSET A : T \in P
  <2> HIDE DEF P
  <2> QED BY <1>1, SubsetInduction
<1>3. QED BY <1>2

(***************************************************************************)
(* A total of numbers from 0 on is one too.                                *)
(***************************************************************************)
LEMMA TotalCounted ==
  ASSUME NEW D \in Nat \ {0}, NEW cost, NEW S, IsFiniteSet(S), AllCounted(cost, S, D)
  PROVE  AllMeasured(cost, S, D) /\ TotalUnits(cost, S, D) \in Nat
<1> DEFINE P == {T \in SUBSET S : TotalUnits(cost, T, D) \in Nat}
<1>0. AllMeasured(cost, S, D)
  BY DEF AllMeasured, AllCounted, Counted
<1>1. ASSUME NEW T \in SUBSET S, \A U \in SUBSET T : U # T => U \in P
      PROVE  T \in P
  <2>1. CASE T = {}
    <3>1. TotalUnits(cost, T, D) \in Nat
      BY <2>1, TotalEmpty
    <3>2. QED BY <3>1
  <2>2. CASE T # {}
    <3>1. PICK x \in T : TRUE
      BY <2>2
    <3>2. T \ {x} \in P
      BY <1>1
    <3>3. IsFiniteSet(T) /\ AllMeasured(cost, T, D)
      BY <1>0, FS_Subset DEF AllMeasured
    <3>4. TotalUnits(cost, T, D) = Units(cost[x], D) + TotalUnits(cost, T \ {x}, D)
      BY <3>3, TotalTakenOut DEF TakenOut
    <3>5. Units(cost[x], D) \in Nat
      BY CountedUnits DEF AllCounted
    <3>6. TotalUnits(cost, T, D) \in Nat
      BY <3>2, <3>4, <3>5
    <3>7. QED BY <3>6
  <2>3. QED BY <2>1, <2>2
<1>2. \A T \in SUBSET S : T \in P
  <2> HIDE DEF P
  <2> QED BY <1>1, SubsetInduction
<1>3. QED BY <1>0, <1>2

LEMMA TotalSingle ==
  ASSUME NEW D \in Nat \ {0}, NEW cost, NEW x, Measured(cost[x], D)
  PROVE  TotalUnits(cost, {x}, D) = Units(cost[x], D)
<1>1. IsFiniteSet({x}) /\ AllMeasured(cost, {x}, D) /\ {x} \ {x} = {}
  BY FS_Singleton DEF AllMeasured
<1>2. TotalUnits(cost, {x}, D) = Units(cost[x], D) + TotalUnits(cost, {x} \ {x}, D)
  BY <1>1, TotalTakenOut DEF TakenOut
<1>3. Units(cost[x], D) \in Int
  BY PlusMeasured
<1>4. QED BY <1>1, <1>2, <1>3, TotalEmpty

-----------------------------------------------------------------------------
(***************************************************************************)
(* The statistics                                                          *)
(***************************************************************************)
AddEntries(numbers, list, skipped) ==
  [k \in DOMAIN list |-> [skip |-> list[k] \in skipped, number |-> numbers[list[k]]]]

LEMMA AddUpUnfold ==
  ASSUME NEW numbers, NEW list, NEW skipped, Foldable(AddRule, DOMAIN list)
  PROVE  AddUp(numbers, list, skipped)
           = FoldOf(AddRule, AddEntries(numbers, list, skipped), DOMAIN list)
<1> DEFINE S == DOMAIN list
           d == AddEntries(numbers, list, skipped)
           Solves(it) == it = [s \in SUBSET S |->
             IF s = {} THEN Zero
             ELSE IF list[Max(s)] \in skipped THEN it[s \ {Max(s)}]
             ELSE safe_sum(it[s \ {Max(s)}], numbers[list[Max(s)]])]
<1>1. AddUp(numbers, list, skipped) = (CHOOSE it : Solves(it))[S]
  BY DEF AddUp, FoldLeft, MapThenFoldSet
<1>2. AddRule # TotalRule /\ AddRule # CountRule
  BY DEF AddRule, TotalRule, CountRule
<1>3. \A s \in SUBSET S : s # {} => Max(s) \in S
  <2> SUFFICES ASSUME NEW s \in SUBSET S, s # {} PROVE Max(s) \in S
    OBVIOUS
  <2>1. IsFiniteSet(s) /\ s \subseteq Nat
    BY <1>2, FS_Subset DEF Foldable
  <2>2. QED BY <2>1, LastIsOne
<1>4. \A it : \A s \in SUBSET S : FoldStep(AddRule, d, it, s) =
        IF s = {} THEN Zero
        ELSE IF list[Max(s)] \in skipped THEN it[s \ {Max(s)}]
        ELSE safe_sum(it[s \ {Max(s)}], numbers[list[Max(s)]])
  BY <1>2, <1>3 DEF FoldStep, Start, Joined, Chosen, AddEntries
<1>5. \A it : Solves(it) <=> IsFoldOf(AddRule, d, it, S)
  BY <1>4 DEF IsFoldOf
<1> HIDE DEF Solves, d
<1>6. \E it : Solves(it)
  BY <1>5, FoldExists
<1>7. PICK it : Solves(it) /\ AddUp(numbers, list, skipped) = it[S]
  BY <1>1, <1>6
<1>8. it[S] = FoldOf(AddRule, d, S)
  BY <1>5, <1>7, SolutionFolds
<1>9. QED BY <1>7, <1>8 DEF d

(***************************************************************************)
(* An entry x of a list stands for the places W when its number is what    *)
(* they cost, or there are none and it is passed over.                     *)
(***************************************************************************)
StandsFor(numbers, x, skipped, cost, W, D) ==
  /\ IsFiniteSet(W) /\ AllCounted(cost, W, D)
  /\ IF x \in skipped THEN W = {} ELSE Fits(numbers[x], TotalUnits(cost, W, D), D)

Together(W, T) == UNION {W[k] : k \in T}

LEMMA TogetherLast ==
  ASSUME NEW W, NEW T, NEW x \in T
  PROVE  Together(W, T) = Together(W, T \ {x}) \cup W[x]
BY DEF Together

(***************************************************************************)
(* What a list adds up to is what the places cost its entries stand for,   *)
(* if no two entries stand for the same place.                             *)
(***************************************************************************)
LEMMA AddUpFits ==
  ASSUME NEW D \in Nat \ {0}, NEW cost, NEW numbers, NEW list, NEW skipped, NEW W,
         Foldable(AddRule, DOMAIN list),
         \A k \in DOMAIN list : StandsFor(numbers, list[k], skipped, cost, W[k], D),
         \A j, k \in DOMAIN list : j # k => W[j] \cap W[k] = {}
  PROVE  Fits(AddUp(numbers, list, skipped), TotalUnits(cost, Together(W, DOMAIN list), D), D)
<1> DEFINE S == DOMAIN list
           d == AddEntries(numbers, list, skipped)
           sum(T) == FoldOf(AddRule, d, T)
           Good(T) == /\ IsFiniteSet(Together(W, T)) /\ AllCounted(cost, Together(W, T), D)
                      /\ Fits(sum(T), TotalUnits(cost, Together(W, T), D), D)
           P == {T \in SUBSET S : Good(T)}
<1>1. AddRule # TotalRule /\ AddRule # CountRule
  BY DEF AddRule, TotalRule, CountRule
<1>2. ASSUME NEW T \in SUBSET S, \A U \in SUBSET T : U # T => U \in P
      PROVE  T \in P
  <2>0. Foldable(AddRule, T)
    BY SubsetFoldable
  <2>1. CASE T = {}
    <3>1. sum(T) = Zero
      BY <2>0, <2>1, <1>1, FoldLast DEF Start
    <3>2. Together(W, T) = {}
      BY <2>1 DEF Together
    <3>3. Fits(sum(T), TotalUnits(cost, Together(W, T), D), D)
      <4>1. Counted(Zero, D) /\ Units(Zero, D) = 0
        BY DEF Counted, Measured, Zero, Number, Frac, Units
      <4>2. QED BY <3>1, <3>2, <4>1, TotalEmpty DEF Fits
    <3>4. IsFiniteSet(Together(W, T)) /\ AllCounted(cost, Together(W, T), D)
      BY <3>2, FS_EmptySet DEF AllCounted
    <3>5. QED BY <3>3, <3>4
  <2>2. CASE T # {}
    <3> DEFINE x == Max(T)
               U == T \ {x}
    <3>1. x \in T
      BY <2>0, <2>2, <1>1, LastIsOne DEF Foldable
    <3>2. sum(T) = IF list[x] \in skipped THEN sum(U) ELSE safe_sum(sum(U), numbers[list[x]])
      <4>1. Chosen(AddRule, T) = x
        BY <1>1 DEF Chosen
      <4>2. sum(T) = Joined(AddRule, d, Chosen(AddRule, T), sum(T \ {Chosen(AddRule, T)}))
        BY <2>0, <2>2, FoldLast
      <4>3. /\ d[x].skip <=> list[x] \in skipped
            /\ d[x].number = numbers[list[x]]
        BY <3>1 DEF AddEntries
      <4> HIDE DEF sum, x, d
      <4>4. QED BY <1>1, <4>1, <4>2, <4>3 DEF Joined
    <3>3. U \in SUBSET T /\ U # T
      BY <3>1
    <3>4. U \in P
      BY <1>2, <3>3
    <3> HIDE DEF x, sum
    <3>5. Good(U)
      BY <3>4
    <3>6. StandsFor(numbers, list[x], skipped, cost, W[x], D)
      BY <3>1
    <3>7. Together(W, T) = Together(W, U) \cup W[x] /\ Together(W, U) \cap W[x] = {}
      <4>1. Together(W, T) = Together(W, U) \cup W[x]
        BY <3>1, TogetherLast
      <4>2. \A k \in U : W[k] \cap W[x] = {}
        BY <3>1
      <4>3. QED BY <4>1, <4>2 DEF Together
    <3> HIDE DEF U
    <3> DEFINE A == Together(W, U)
               B == W[x]
    <3>8. IsFiniteSet(A) /\ IsFiniteSet(B) /\ AllCounted(cost, A, D) /\ AllCounted(cost, B, D)
      BY <3>5, <3>6 DEF StandsFor
    <3>9. IsFiniteSet(Together(W, T)) /\ AllCounted(cost, Together(W, T), D)
      <4>1. IsFiniteSet(A \cup B)
        BY <3>8, FS_Union
      <4>2. AllCounted(cost, A \cup B, D)
        BY <3>8 DEF AllCounted
      <4>3. QED BY <3>7, <4>1, <4>2
    <3> HIDE DEF A, B
    <3>10. /\ TotalUnits(cost, A \cup B, D) = TotalUnits(cost, A, D) + TotalUnits(cost, B, D)
           /\ TotalUnits(cost, A, D) \in Nat /\ TotalUnits(cost, B, D) \in Nat
      BY <3>7, <3>8, TotalUnion, TotalCounted DEF A, B
    <3>11. Fits(sum(U), TotalUnits(cost, A, D), D)
      BY <3>5 DEF A
    <3>12. CASE list[x] \in skipped
      <4>1. B = {}
        BY <3>6, <3>12 DEF StandsFor, B
      <4>2. Together(W, T) = A
        BY <3>7, <4>1 DEF A, B
      <4>3. Fits(sum(T), TotalUnits(cost, Together(W, T), D), D)
        BY <3>2, <3>11, <3>12, <4>2
      <4>4. QED BY <3>9, <4>3
    <3>13. CASE list[x] \notin skipped
      <4>1. Fits(numbers[list[x]], TotalUnits(cost, B, D), D)
        BY <3>6, <3>13 DEF StandsFor, B
      <4>2. Fits(safe_sum(sum(U), numbers[list[x]]),
                 TotalUnits(cost, A, D) + TotalUnits(cost, B, D), D)
        BY <3>10, <3>11, <4>1, SumFits
      <4>3. Fits(sum(T), TotalUnits(cost, Together(W, T), D), D)
        BY <3>2, <3>7, <3>10, <3>13, <4>2 DEF A, B
      <4>4. QED BY <3>9, <4>3
    <3>14. QED BY <3>12, <3>13
  <2>3. QED BY <2>1, <2>2
<1>3. \A T \in SUBSET S : T \in P
  <2>1. IsFiniteSet(S)
    BY DEF Foldable
  <2> HIDE DEF P
  <2> QED BY <1>2, <2>1, SubsetInduction
<1>4. Good(S)
  BY <1>3
<1>5. QED BY <1>4, AddUpUnfold

(***************************************************************************)
(* The edges a function has, and those of them that cross the border.      *)
(***************************************************************************)
PlacesOf(f) == InPlaces(f) \cup OutPlaces(f)

CrossOf(f, S) == {e \in PlacesOf(f) : Other(e) \notin S}

\* A list without repetitions, of the places of a set.
ListOf(list, S) == /\ Foldable(AddRule, DOMAIN list)
                   /\ \A j, k \in DOMAIN list : list[j] = list[k] => j = k
                   /\ ToSet(list) = S

LEMMA ConcatenatedLists ==
  ASSUME NEW V, NEW s \in Seq(V), NEW t \in Seq(V), NoRepeats(s), NoRepeats(t),
         ToSet(s) \cap ToSet(t) = {}
  PROVE  ListOf(s \o t, ToSet(s) \cup ToSet(t))
<1> DEFINE m == Len(s)
           n == Len(t)
           r == s \o t
<1>1. m \in Nat /\ n \in Nat /\ DOMAIN s = 1 .. m /\ DOMAIN t = 1 .. n
  OBVIOUS
<1>2. /\ DOMAIN r = 1 .. m + n
      /\ \A k \in 1 .. m : r[k] = s[k]
      /\ \A k \in m + 1 .. m + n : r[k] = t[k - m]
  OBVIOUS
<1> HIDE DEF m, n, r
<1>3. \A k \in 1 .. m + n : k \in 1 .. m \/ (k \in m + 1 .. m + n /\ k - m \in 1 .. n)
  BY <1>1
<1>4. \A k \in 1 .. n : k + m \in m + 1 .. m + n /\ (k + m) - m = k /\ k + m \in 1 .. m + n
  BY <1>1
<1>5. \A k \in 1 .. m : k \in 1 .. m + n
  BY <1>1
<1>6. ToSet(r) = ToSet(s) \cup ToSet(t)
  <2>1. \A k \in DOMAIN r : r[k] \in ToSet(s) \cup ToSet(t)
    BY <1>1, <1>2, <1>3 DEF ToSet
  <2>2. \A k \in DOMAIN s : s[k] \in ToSet(r)
    BY <1>1, <1>2, <1>5 DEF ToSet
  <2>3. \A k \in DOMAIN t : t[k] \in ToSet(r)
    <3> SUFFICES ASSUME NEW k \in 1 .. n PROVE t[k] \in ToSet(r)
      BY <1>1
    <3>1. r[k + m] = t[k] /\ k + m \in DOMAIN r
      BY <1>2, <1>4
    <3>2. QED BY <3>1 DEF ToSet
  <2>4. QED BY <2>1, <2>2, <2>3 DEF ToSet
<1>7. \A j, k \in DOMAIN r : r[j] = r[k] => j = k
  <2> SUFFICES ASSUME NEW j \in 1 .. m + n, NEW k \in 1 .. m + n, r[j] = r[k] PROVE j = k
    BY <1>2
  <2>1. CASE j \in 1 .. m /\ k \in 1 .. m
    BY <2>1, <1>1, <1>2 DEF NoRepeats
  <2>2. CASE j \in m + 1 .. m + n /\ k \in m + 1 .. m + n
    <3>1. j - m \in 1 .. n /\ k - m \in 1 .. n /\ t[j - m] = t[k - m]
      BY <2>2, <1>1, <1>2
    <3>2. j - m = k - m
      BY <3>1, <1>1 DEF NoRepeats
    <3>3. QED BY <3>2, <1>1
  <2>3. ASSUME NEW i \in 1 .. m, NEW l \in m + 1 .. m + n PROVE r[i] # r[l]
    <3>1. l - m \in 1 .. n
      BY <1>1
    <3>2. r[i] \in ToSet(s)
      BY <1>1, <1>2 DEF ToSet
    <3>3. r[l] \in ToSet(t)
      BY <1>1, <1>2, <3>1 DEF ToSet
    <3>4. QED BY <3>2, <3>3
  <2>4. ASSUME \/ j \in 1 .. m /\ k \in m + 1 .. m + n
               \/ k \in 1 .. m /\ j \in m + 1 .. m + n
        PROVE  FALSE
    BY <2>3, <2>4
  <2>5. QED BY <1>3, <2>1, <2>2, <2>4
<1>8. Foldable(AddRule, DOMAIN r)
  <2>1. m + n \in Int /\ 1 .. m + n \subseteq Nat
    BY <1>1
  <2>2. IsFiniteSet(1 .. m + n)
    BY <2>1, FS_Interval
  <2>3. QED BY <2>1, <2>2, <1>2 DEF Foldable
<1>9. QED BY <1>6, <1>7, <1>8 DEF ListOf, r

LEMMA EdgesListed ==
  ASSUME GraphInv, NEW f \in Functions
  PROVE  ListOf(Edges(f), PlacesOf(f))
<1> DEFINE s == EdgesIn(f)
           t == EdgesOut(f)
           V == ToSet(s) \cup ToSet(t)
<1>1. /\ inEdges[f] \in Seq(Functions) /\ outEdges[f] \in Seq(Functions)
      /\ NoRepeats(inEdges[f]) /\ NoRepeats(outEdges[f])
  BY DEF GraphInv, GraphTypeOK, EdgesAgree
<1>2. /\ DOMAIN s = 1 .. Len(inEdges[f]) /\ Len(inEdges[f]) \in Nat
      /\ \A k \in DOMAIN s : s[k] = <<"in", inEdges[f][k], f>> /\ inEdges[f][k] \in Functions
      /\ DOMAIN t = 1 .. Len(outEdges[f]) /\ Len(outEdges[f]) \in Nat
      /\ \A k \in DOMAIN t : t[k] = <<"out", f, outEdges[f][k]>> /\ outEdges[f][k] \in Functions
  BY <1>1 DEF EdgesIn, EdgesOut
<1>3. s \in Seq(V) /\ t \in Seq(V)
  <2>1. (\A k \in DOMAIN s : s[k] \in V) /\ (\A k \in DOMAIN t : t[k] \in V)
    BY DEF ToSet
  <2>2. s = [k \in DOMAIN s |-> s[k]] /\ t = [k \in DOMAIN t |-> t[k]]
    BY DEF EdgesIn, EdgesOut
  <2> HIDE DEF s, t, V
  <2>3. s \in [1 .. Len(inEdges[f]) -> V] /\ t \in [1 .. Len(outEdges[f]) -> V]
    BY <1>2, <2>1, <2>2
  <2>4. ASSUME NEW n \in Nat, NEW q \in [1 .. n -> V] PROVE q \in Seq(V)
    OBVIOUS
  <2>5. QED BY <1>2, <2>3, <2>4
<1>4. NoRepeats(s) /\ NoRepeats(t)
  BY <1>1, <1>2 DEF NoRepeats, EdgesIn, EdgesOut
<1>5. ToSet(s) = InPlaces(f) /\ ToSet(t) = OutPlaces(f)
  BY DEF ToSet, InPlaces, OutPlaces, EdgesIn, EdgesOut
<1>6. InPlaces(f) \cap OutPlaces(f) = {}
  BY DEF InPlaces, OutPlaces
<1> HIDE DEF s, t, V
<1>7. ListOf(s \o t, ToSet(s) \cup ToSet(t))
  BY <1>3, <1>4, <1>5, <1>6, ConcatenatedLists
<1>8. QED BY <1>5, <1>7 DEF Edges, PlacesOf, s, t

LEMMA OrderListed ==
  ASSUME NEW S, IsFiniteSet(S), NEW order \in SetToSeqs(S)
  PROVE  ListOf(order, S)
<1> DEFINE n == Cardinality(S)
           I == 1 .. n
<1>1. n \in Nat /\ IsFiniteSet(I) /\ Cardinality(I) = n /\ I \subseteq Nat
  <2>1. n \in Nat
    BY FS_CardinalityType
  <2>2. IsFiniteSet(1 .. n) /\ Cardinality(1 .. n) = n
    BY <2>1, FS_Interval
  <2>3. QED BY <2>1, <2>2
<1>2. order \in [I -> S] /\ \A j, k \in I : order[j] = order[k] => j = k
  BY DEF SetToSeqs
<1> HIDE DEF n, I
<1>3. \A y \in S : \E k \in I : order[k] = y
  <2>1. \A j, k \in DOMAIN order : order[j] = order[k] => j = k
    BY <1>2
  <2>2. order \in Injection(I, S)
    BY <1>2, <2>1 DEF Injection, IsInjective
  <2>3. Cardinality(I) = Cardinality(S)
    BY <1>1 DEF n
  <2>4. order \in Surjection(I, S)
    BY <2>2, <2>3, FS_Injection
  <2>5. QED BY <2>4 DEF Surjection
<1>4. ToSet(order) = S
  BY <1>2, <1>3 DEF ToSet
<1>5. QED BY <1>1, <1>2, <1>4 DEF ListOf, Foldable

(***************************************************************************)
(* What a function makes of a finite set is finite.                        *)
(***************************************************************************)
LEMMA ImageFinite ==
  ASSUME NEW S, IsFiniteSet(S), NEW f
  PROVE  IsFiniteSet({f[x] : x \in S})
<1> DEFINE T == {f[x] : x \in S}
           g == [x \in S |-> f[x]]
<1>1. g \in Surjection(S, T)
  BY DEF Surjection
<1> HIDE DEF g, T
<1>2. IsFiniteSet(T)
  BY <1>1, FS_Surjection
<1>3. QED BY <1>2 DEF T

(***************************************************************************)
(* The copies are finitely many, and the numbers of calls they have may be *)
(* measured by one denominator.                                            *)
(***************************************************************************)
LEMMA PlacesFinite ==
  ASSUME GraphInv
  PROVE  /\ IsFiniteSet(AllInPlaces) /\ IsFiniteSet(AllOutPlaces) /\ IsFiniteSet(AllPlaces)
         /\ \A f \in Functions : ToSet(outEdges[f]) \subseteq Functions
                                 /\ ToSet(inEdges[f]) \subseteq Functions
<1> DEFINE FF == Functions \X Functions
           In == [p \in FF |-> <<"in", p[1], p[2]>>]
           Out == [p \in FF |-> <<"out", p[1], p[2]>>]
           Ins == {In[p] : p \in FF}
           Outs == {Out[p] : p \in FF}
<1>1. IsFiniteSet(FF)
  BY ProgramsAssumption, FS_Product
<1>2. IsFiniteSet(Ins)
  <2> HIDE DEF In, FF
  <2> QED BY <1>1, ImageFinite
<1>3. IsFiniteSet(Outs)
  <2> HIDE DEF Out, FF
  <2> QED BY <1>1, ImageFinite
<1>4. /\ nodes \subseteq Functions
      /\ \A f \in Functions : ToSet(outEdges[f]) \subseteq Functions
                              /\ ToSet(inEdges[f]) \subseteq Functions
  <2>1. \A g \in Functions : outEdges[g] \in Seq(Functions) /\ inEdges[g] \in Seq(Functions)
    BY DEF GraphInv, GraphTypeOK
  <2>2. QED BY <2>1 DEF ToSet, GraphInv, GraphTypeOK
<1>5. AllInPlaces \subseteq Ins
  <2> SUFFICES ASSUME NEW h \in nodes, NEW f \in ToSet(inEdges[h])
               PROVE  <<"in", f, h>> \in Ins
    BY DEF AllInPlaces, InPlaces
  <2>1. <<f, h>> \in FF /\ In[<<f, h>>] = <<"in", f, h>>
    BY <1>4
  <2>2. QED BY <2>1
<1>6. AllOutPlaces \subseteq Outs
  <2> SUFFICES ASSUME NEW f \in nodes, NEW h \in ToSet(outEdges[f])
               PROVE  <<"out", f, h>> \in Outs
    BY DEF AllOutPlaces, OutPlaces
  <2>1. <<f, h>> \in FF /\ Out[<<f, h>>] = <<"out", f, h>>
    BY <1>4
  <2>2. QED BY <2>1
<1>7. IsFiniteSet(AllInPlaces) /\ IsFiniteSet(AllOutPlaces)
  <2> HIDE DEF Ins, Outs
  <2> QED BY <1>2, <1>3, <1>5, <1>6, FS_Subset
<1>8. QED BY <1>4, <1>7, FS_Union DEF AllPlaces

LEMMA CallNumCounted ==
  ASSUME GraphInv, CallWeights
  PROVE  \E D \in Nat \ {0} : AllCounted(callNum, AllPlaces, D)
<1>1. \A e : Count(e) \in Nat
  <2>1. program \in Programs /\ LOOP_COST \in Nat
    BY ProgramsAssumption DEF GraphInv, GraphTypeOK
  <2>2. QED BY <2>1, CallNumberIs DEF Count
<1>2. \A n \in Nat : \A D : Counted(Number(n), D)
  BY DEF Counted, Measured, Number, Frac
<1>3. \A e \in AllPlaces : callNum[e] =
        IF e \in KnownPlaces THEN weight["CALL_NUM"][e] ELSE Zero
  BY DEF callNum, factor, CallWeights
<1>4. ASSUME NEW D \in Nat \ {0}, \A e \in PushedCopies : Counted(weight["CALL_NUM"][e], D)
      PROVE  AllCounted(callNum, AllPlaces, D)
  <2> SUFFICES ASSUME NEW e \in AllPlaces PROVE Counted(callNum[e], D)
    BY DEF AllCounted
  <2>1. CASE e \notin KnownPlaces
    BY <1>2, <1>3, <2>1 DEF Zero
  <2>2. CASE e \in KnownPlaces /\ e \in AllInPlaces
    <3>1. PICK h \in nodes : e \in InPlaces(h)
      BY <2>2 DEF AllInPlaces
    <3>2. Callee(e) = h
      BY <3>1 DEF InPlaces, Callee
    <3>3. e \in PushedCopies
      BY <2>2, <3>1, <3>2 DEF PushedCopies, KnownPlaces
    <3>4. QED BY <1>3, <1>4, <2>2, <3>3
  <2>3. CASE e \in KnownPlaces /\ e \in AllOutPlaces
    <3>1. e[1] = "out"
      BY <2>3 DEF AllOutPlaces, OutPlaces
    <3>2. weight["CALL_NUM"][e] = Number(Count(e))
      BY <2>3, <3>1 DEF CallWeights
    <3>3. QED BY <1>1, <1>2, <1>3, <2>3, <3>2
  <2>4. QED BY <2>1, <2>2, <2>3 DEF AllPlaces
<1>5. CASE NotScaledYet
  <2>1. \A e \in PushedCopies : Counted(weight["CALL_NUM"][e], 1)
    BY <1>1, <1>2, <1>5 DEF NotScaledYet
  <2>2. 1 \in Nat \ {0}
    OBVIOUS
  <2>3. QED BY <1>4, <2>1, <2>2
<1>6. ASSUME NEW least \in PushedCopies, NEW greatest \in PushedCopies,
             ScaledBetween(least, greatest)
      PROVE  \E D \in Nat \ {0} : AllCounted(callNum, AllPlaces, D)
  <2> DEFINE lo == Count(least)
             hi == Count(greatest)
             D == IF lo = hi THEN 1 ELSE hi - lo
  <2>1. lo \in Nat /\ hi \in Nat
    BY <1>1
  <2>2. \A e \in PushedCopies :
          Count(e) \in lo .. hi /\ weight["CALL_NUM"][e] = Scaled(Count(e), lo, hi)
    BY <1>6 DEF ScaledBetween
  <2> HIDE DEF lo, hi
  <2>3. hi >= lo
    BY <2>1, <2>2
  <2>4. D \in Nat \ {0}
    BY <2>1, <2>3
  <2>5. \A n \in lo .. hi : Counted(Scaled(n, lo, hi), D)
    BY <2>1, <2>3 DEF Counted, Measured, Scaled, Number, Frac
  <2> HIDE DEF D
  <2>6. \A e \in PushedCopies : Counted(weight["CALL_NUM"][e], D)
    BY <2>2, <2>5
  <2>7. QED BY <1>4, <2>4, <2>6
<1>7. QED BY <1>5, <1>6 DEF CallWeights

(***************************************************************************)
(* The switches counted in a function are those of its edges that cross    *)
(* the border.                                                             *)
(***************************************************************************)
LEMMA FunctionFits ==
  ASSUME GraphInv, nodes = Functions, NEW D \in Nat \ {0}, AllCounted(callNum, AllPlaces, D),
         NEW S, NEW f \in Functions
  PROVE  /\ IsFiniteSet(CrossOf(f, S)) /\ AllCounted(callNum, CrossOf(f, S), D)
         /\ Fits(getCtxSwitchesInFunction(f, S), TotalUnits(callNum, CrossOf(f, S), D), D)
<1> DEFINE list == Edges(f)
           skipped == Within(f, S)
           W == [k \in DOMAIN list |-> IF list[k] \in skipped THEN {} ELSE {list[k]}]
<1>1. ListOf(list, PlacesOf(f))
  BY EdgesListed
<1>2. skipped = {e \in PlacesOf(f) : Other(e) \in S}
  BY <1>1 DEF ListOf, Within
<1>3. PlacesOf(f) \subseteq AllPlaces
  BY DEF PlacesOf, AllPlaces, AllInPlaces, AllOutPlaces
<1>4. IsFiniteSet(CrossOf(f, S)) /\ AllCounted(callNum, CrossOf(f, S), D)
  <2>1. CrossOf(f, S) \subseteq AllPlaces
    BY <1>3 DEF CrossOf
  <2>2. QED BY <2>1, PlacesFinite, FS_Subset DEF AllCounted
<1> HIDE DEF list, skipped
<1>5. \A k \in DOMAIN list : list[k] \in PlacesOf(f)
  BY <1>1 DEF ListOf, ToSet
<1>6. \A k \in DOMAIN list : StandsFor(callNum, list[k], skipped, callNum, W[k], D)
  <2> SUFFICES ASSUME NEW k \in DOMAIN list
               PROVE  StandsFor(callNum, list[k], skipped, callNum, W[k], D)
    OBVIOUS
  <2>1. CASE list[k] \in skipped
    <3>1. W[k] = {}
      BY <2>1
    <3> HIDE DEF W
    <3>2. QED BY <2>1, <3>1, FS_EmptySet DEF StandsFor, AllCounted
  <2>2. CASE list[k] \notin skipped
    <3>1. W[k] = {list[k]}
      BY <2>2
    <3> HIDE DEF W
    <3>2. Counted(callNum[list[k]], D)
      BY <1>3, <1>5 DEF AllCounted
    <3>3. TotalUnits(callNum, {list[k]}, D) = Units(callNum[list[k]], D)
      BY <3>2, TotalSingle DEF Counted
    <3>4. IsFiniteSet({list[k]}) /\ AllCounted(callNum, {list[k]}, D)
      BY <3>2, FS_Singleton DEF AllCounted
    <3>5. Fits(callNum[list[k]], TotalUnits(callNum, {list[k]}, D), D)
      BY <3>2, <3>3 DEF Fits
    <3>6. QED BY <2>2, <3>1, <3>4, <3>5 DEF StandsFor
  <2>3. QED BY <2>1, <2>2
<1>7. \A j, k \in DOMAIN list : j # k => W[j] \cap W[k] = {}
  BY <1>1 DEF ListOf
<1>8. Together(W, DOMAIN list) = CrossOf(f, S)
  <2>1. \A e \in CrossOf(f, S) : \E k \in DOMAIN list : list[k] = e
    BY <1>1 DEF ListOf, ToSet, CrossOf
  <2>2. \A e \in CrossOf(f, S) : e \notin skipped
    BY <1>2 DEF CrossOf
  <2>3. \A k \in DOMAIN list : list[k] \notin skipped => list[k] \in CrossOf(f, S)
    BY <1>2, <1>5 DEF CrossOf
  <2>4. QED BY <2>1, <2>2, <2>3 DEF Together
<1> HIDE DEF W
<1>9. Fits(AddUp(callNum, list, skipped), TotalUnits(callNum, Together(W, DOMAIN list), D), D)
  BY <1>1, <1>6, <1>7, AddUpFits DEF ListOf
<1>10. QED BY <1>4, <1>8, <1>9 DEF getCtxSwitchesInFunction, list, skipped

LEMMA CrossOfTogether ==
  ASSUME GraphInv, nodes = Functions, NEW S, S \subseteq Functions
  PROVE  /\ UNION {CrossOf(f, S) : f \in S} = CrossingPlaces(S)
         /\ \A f, g \in S : f # g => CrossOf(f, S) \cap CrossOf(g, S) = {}
<1>1. \A f \in Functions : \A e \in InPlaces(f) :
        e[1] = "in" /\ Callee(e) = f /\ Other(e) = Caller(e) /\ e \in AllInPlaces
  BY DEF InPlaces, Callee, Caller, Other, AllInPlaces
<1>2. \A f \in Functions : \A e \in OutPlaces(f) :
        e[1] = "out" /\ Caller(e) = f /\ Other(e) = Callee(e) /\ e \in AllOutPlaces
  BY DEF OutPlaces, Callee, Caller, Other, AllOutPlaces
<1>3. \A f, g \in S : f # g => CrossOf(f, S) \cap CrossOf(g, S) = {}
  BY <1>1, <1>2 DEF CrossOf, PlacesOf
<1>4. \A f \in S : CrossOf(f, S) \subseteq CrossingPlaces(S)
  BY <1>1, <1>2 DEF CrossOf, PlacesOf, CrossingPlaces
<1>5. \A e \in CrossingPlaces(S) : \E f \in S : e \in CrossOf(f, S)
  <2> SUFFICES ASSUME NEW e \in CrossingPlaces(S) PROVE \E f \in S : e \in CrossOf(f, S)
    OBVIOUS
  <2>1. CASE e \in AllInPlaces /\ Callee(e) \in S /\ Caller(e) \notin S
    <3>1. PICK h \in Functions : e \in InPlaces(h)
      BY <2>1 DEF AllInPlaces
    <3>2. h \in S /\ Other(e) \notin S
      BY <1>1, <2>1, <3>1
    <3>3. QED BY <3>1, <3>2 DEF CrossOf, PlacesOf
  <2>2. CASE e \in AllOutPlaces /\ Caller(e) \in S /\ Callee(e) \notin S
    <3>1. PICK h \in Functions : e \in OutPlaces(h)
      BY <2>2 DEF AllOutPlaces
    <3>2. h \in S /\ Other(e) \notin S
      BY <1>2, <2>2, <3>1
    <3>3. QED BY <3>1, <3>2 DEF CrossOf, PlacesOf
  <2>3. QED BY <2>1, <2>2 DEF CrossingPlaces
<1>6. QED BY <1>3, <1>4, <1>5

(***************************************************************************)
(* What SwitchesCounted says of a number of switches.                      *)
(***************************************************************************)
Correct(switches, exact) ==
  \/ Equal(switches, exact)
  \/ AtMost(Infinity, exact) /\ isPosInfinity(switches)

\* What is reported for S when its functions come in an order.
SwitchesIn(S, order) == AddUp([f \in S |-> getCtxSwitchesInFunction(f, S)], order, {})

LEMMA PartitionFits ==
  ASSUME GraphInv, CallWeights, nodes = Functions, NEW S, S \subseteq Functions,
         NEW order \in SetToSeqs(S)
  PROVE  Correct(SwitchesIn(S, order), Total(callNum, CrossingPlaces(S)))
<1> DEFINE numbers == [f \in S |-> getCtxSwitchesInFunction(f, S)]
           W == [k \in DOMAIN order |-> CrossOf(order[k], S)]
<1>1. PICK D \in Nat \ {0} : AllCounted(callNum, AllPlaces, D)
  BY CallNumCounted
<1>2. ListOf(order, S)
  <2>1. IsFiniteSet(S)
    BY ProgramsAssumption, FS_Subset
  <2>2. QED BY <2>1, OrderListed
<1>3. \A k \in DOMAIN order : order[k] \in S
  BY <1>2 DEF ListOf, ToSet
<1>4. \A k \in DOMAIN order : StandsFor(numbers, order[k], {}, callNum, W[k], D)
  <2> SUFFICES ASSUME NEW k \in DOMAIN order
               PROVE  StandsFor(numbers, order[k], {}, callNum, W[k], D)
    OBVIOUS
  <2>1. order[k] \in S /\ order[k] \in Functions
    BY <1>3
  <2>2. numbers[order[k]] = getCtxSwitchesInFunction(order[k], S) /\ W[k] = CrossOf(order[k], S)
    BY <2>1
  <2>3. QED BY <1>1, <2>1, <2>2, FunctionFits DEF StandsFor
<1>5. \A j, k \in DOMAIN order : j # k => W[j] \cap W[k] = {}
  BY <1>2, <1>3, CrossOfTogether DEF ListOf
<1>6. Together(W, DOMAIN order) = CrossingPlaces(S)
  <2>1. Together(W, DOMAIN order) = UNION {CrossOf(f, S) : f \in S}
    <3>1. \A f \in S : \E k \in DOMAIN order : order[k] = f
      BY <1>2 DEF ListOf, ToSet
    <3>2. QED BY <1>3, <3>1 DEF Together
  <2>2. QED BY <2>1, CrossOfTogether
<1> HIDE DEF W, numbers
<1>7. Fits(AddUp(numbers, order, {}), TotalUnits(callNum, CrossingPlaces(S), D), D)
  <2>1. Foldable(AddRule, DOMAIN order)
    BY <1>2 DEF ListOf
  <2>2. QED BY <2>1, <1>4, <1>5, <1>6, AddUpFits
<1> DEFINE r == AddUp(numbers, order, {})
           exact == Total(callNum, CrossingPlaces(S))
<1>8. Measured(r, D) /\ Measured(exact, D)
  <2>1. CrossingPlaces(S) \subseteq AllPlaces
    BY DEF CrossingPlaces, AllPlaces
  <2>2. IsFiniteSet(CrossingPlaces(S)) /\ AllMeasured(callNum, CrossingPlaces(S), D)
    BY <1>1, <2>1, PlacesFinite, FS_Subset DEF AllCounted, AllMeasured, Counted
  <2>3. QED BY <2>2, <1>7, TotalMeasured DEF Fits, Counted
<1>9. \/ Units(r, D) = Units(exact, D)
      \/ Units(r, D) = POS_INFINITY * D /\ Units(exact, D) >= POS_INFINITY * D
  BY <1>7 DEF Fits, TotalUnits
<1>10. SwitchesIn(S, order) = r
  BY DEF SwitchesIn, numbers
<1> HIDE DEF r, exact
<1>11. Measured(Infinity, D) /\ Units(Infinity, D) = POS_INFINITY * D
       /\ (isPosInfinity(r) <=> Units(r, D) = POS_INFINITY * D)
  BY <1>8, InfinityMeasured
<1>12. /\ Equal(r, exact) <=> Units(r, D) = Units(exact, D)
       /\ AtMost(Infinity, exact) <=> Units(Infinity, D) <= Units(exact, D)
  BY <1>8, <1>11, AtMostMeasured
<1>13. Units(exact, D) \in Int /\ Units(Infinity, D) \in Int
  BY <1>8, <1>11, PlusMeasured
<1>14. Correct(r, exact)
  BY <1>9, <1>11, <1>12, <1>13 DEF Correct
<1>15. QED BY <1>10, <1>14 DEF exact

(***************************************************************************)
(* The stages: what comes after the weights leaves them alone, nothing is  *)
(* reported before its turn, and what is reported counts every call across *)
(* the border once.                                                        *)
(***************************************************************************)
CountedFor(name, S) ==
  Reported(name) => Correct(SwitchesOf(name), Total(callNum, CrossingPlaces(S)))

StageInv ==
  /\ stage \in {"weigh", "ilp", "applyIlp", "reportSecure", "reportInsecure", "done"}
  /\ stage # "weigh" => pc = "weighed"
  /\ secure \subseteq Functions /\ moved \subseteq Functions
  /\ stage \notin {"reportInsecure", "done"} => report = << >>
  /\ stage = "reportInsecure" => ~Reported("insecure")

SwitchInv == StageInv /\ CountedFor("secure", secure) /\ CountedFor("insecure", Functions \ secure)

LEMMA SwitchInvCounts == SwitchInv => SwitchesCounted
<1> SUFFICES ASSUME SwitchInv,
                    NEW side \in {<<"secure", secure>>, <<"insecure", Functions \ secure>>},
                    Reported(side[1])
             PROVE  Correct(SwitchesOf(side[1]), Total(callNum, CrossingPlaces(side[2])))
  BY DEF SwitchesCounted, Correct
<1>1. CASE side = <<"secure", secure>>
  BY <1>1 DEF SwitchInv, CountedFor
<1>2. CASE side = <<"insecure", Functions \ secure>>
  BY <1>2 DEF SwitchInv, CountedFor
<1>3. QED BY <1>1, <1>2

LEMMA ExactFixed ==
  ASSUME UNCHANGED <<nodes, inEdges, outEdges, weight>>, NEW S
  PROVE  callNum' = callNum /\ CrossingPlaces(S)' = CrossingPlaces(S)
<1>1. AllInPlaces' = AllInPlaces /\ AllOutPlaces' = AllOutPlaces
  BY DEF AllInPlaces, AllOutPlaces, InPlaces, OutPlaces
<1>2. AllPlaces' = AllPlaces
  BY <1>1 DEF AllPlaces
<1>3. \A e : factor("CALL_NUM", e)' = factor("CALL_NUM", e)
  BY DEF factor
<1>4. callNum' = callNum
  BY <1>2, <1>3 DEF callNum
<1>5. CrossingPlaces(S)' = CrossingPlaces(S)
  BY <1>1 DEF CrossingPlaces, Caller, Callee
<1>6. QED BY <1>4, <1>5

LEMMA NothingReported ==
  ASSUME report = << >>
  PROVE  DOMAIN report = {} /\ \A name : ~Reported(name)
<1>1. DOMAIN << >> = {}
  OBVIOUS
<1>2. QED BY <1>1 DEF Reported

LEMMA SwitchInvInit == SplitInit => SwitchInv
<1> SUFFICES ASSUME SplitInit PROVE SwitchInv
  OBVIOUS
<1>1. /\ stage = "weigh" /\ secure = split.functions /\ moved = {} /\ report = << >>
      /\ split \in Splits
  BY DEF SplitInit, Init
<1>2. secure \subseteq Functions
  BY <1>1, ProgramsAssumption
<1>3. QED BY <1>1, <1>2, NothingReported DEF SwitchInv, StageInv, CountedFor

(***************************************************************************)
(* What write_entry leaves in the tree for a partition: its own switches,  *)
(* and those of the other one as they were.                                *)
(***************************************************************************)
LEMMA ReportWrites ==
  ASSUME NEW name \in {"secure", "insecure"}, NEW S, NEW R, NEW order,
         ReportPartition(name, S, R, order)
  PROVE  /\ UNCHANGED <<graphVars, secure, related, moved, solved>>
         /\ Reported(name)' /\ SwitchesOf(name)' = SwitchesIn(S, order)
         /\ \A other \in {"secure", "insecure"} \ {name} :
              /\ Reported(other)' <=> Reported(other)
              /\ Reported(other) => SwitchesOf(other)' = SwitchesOf(other)
<1> DEFINE args == AddUp([f \in S |-> getArgNumPassedFromFunction(f, S)], order, {})
           E == Entries(name, S, R, SwitchesIn(S, order), args)
           place(x) == <<x, "context_switches">>
<1>1. report' = Written(E) /\ UNCHANGED <<graphVars, secure, related, moved, solved>>
  BY DEF ReportPartition, SwitchesIn
<1>2. DOMAIN E = EntryPlaces(name)
  BY DEF Entries
<1>3. /\ place(name) \in EntryPlaces(name)
      /\ \A other \in {"secure", "insecure"} \ {name} : place(other) \notin EntryPlaces(name)
  BY DEF EntryPlaces, EntryNames
<1>4. E[place(name)] = SwitchesIn(S, order)
  BY <1>3 DEF Entries
<1> HIDE DEF E
<1>5. /\ DOMAIN report' = EntryPlaces(name) \cup DOMAIN report
      /\ \A p \in DOMAIN report' :
           report'[p] = IF p \in EntryPlaces(name) THEN E[p] ELSE report[p]
  BY <1>1, <1>2 DEF Written
<1>6. QED BY <1>1, <1>3, <1>4, <1>5 DEF Reported, SwitchesOf

LEMMA ReportCounts ==
  ASSUME GraphInv, WeightInv, SwitchInv, stage # "weigh",
         NEW S, S \subseteq Functions, NEW order \in SetToSeqs(S)
  PROVE  Correct(SwitchesIn(S, order), Total(callNum, CrossingPlaces(S)))
<1>1. pc = "weighed"
  BY DEF SwitchInv, StageInv
<1>2. nodes = Functions /\ CallWeights
  BY <1>1 DEF GraphInv, NodesAdvance, WeightInv
<1>3. QED BY <1>2, PartitionFits

LEMMA SwitchInvStep ==
  GraphInv /\ WeightInv /\ SwitchInv /\ [SplitNext]_vars => SwitchInv'
<1> SUFFICES ASSUME GraphInv, WeightInv, SwitchInv, [SplitNext]_vars PROVE SwitchInv'
  OBVIOUS
<1> USE DEF SwitchInv
<1>1. ASSUME StageInv', report' = << >> PROVE SwitchInv'
  <2>1. DOMAIN << >> = {}
    OBVIOUS
  <2>2. ~Reported("secure")' /\ ~Reported("insecure")'
    BY <1>1, <2>1 DEF Reported
  <2>3. QED BY <1>1, <2>2 DEF CountedFor
<1>2. CASE Weigh
  <2>1. stage = "weigh" /\ UNCHANGED splitVars
    BY <1>2 DEF Weigh
  <2>2. QED BY <1>1, <2>1 DEF StageInv, splitVars
<1>3. CASE StartOptimization \/ StartStatistics
  <2>1. /\ stage = "weigh" /\ pc = "weighed" /\ stage' \in {"ilp", "reportSecure"}
        /\ UNCHANGED <<pc, secure, moved, report>>
    BY <1>3 DEF StartOptimization, StartStatistics, graphVars
  <2>2. QED BY <1>1, <2>1 DEF StageInv
<1>4. CASE RunIlp
  <2>1. stage = "ilp" /\ stage' = "applyIlp" /\ UNCHANGED <<pc, secure, report>>
    BY <1>4 DEF RunIlp, graphVars
  <2>2. moved' \subseteq Functions
    <3>1. CASE moved' = moved
      BY <3>1 DEF StageInv
    <3>2. CASE \E s \in Solutions : moved' = s.inside
      BY <3>2 DEF Solutions, GraphInv, GraphTypeOK
    <3>3. QED BY <1>4, <3>1, <3>2 DEF RunIlp
  <2>3. QED BY <1>1, <2>1, <2>2 DEF StageInv
<1>5. CASE ApplyIlp
  <2>1. /\ stage = "applyIlp" /\ stage' = "reportSecure" /\ secure' = secure \cup moved
        /\ UNCHANGED <<pc, moved, report>>
    BY <1>5 DEF ApplyIlp, graphVars
  <2>2. QED BY <1>1, <2>1 DEF StageInv
<1>6. CASE ReportSecure
  <2>1. /\ stage = "reportSecure" /\ stage' = "reportInsecure"
        /\ \E order \in SetToSeqs(secure) : ReportPartition("secure", secure, related, order)
    BY <1>6 DEF ReportSecure
  <2>2. PICK order \in SetToSeqs(secure) : ReportPartition("secure", secure, related, order)
    BY <2>1
  <2>3. /\ UNCHANGED <<graphVars, secure, related, moved, solved>>
        /\ Reported("secure")' /\ SwitchesOf("secure")' = SwitchesIn(secure, order)
        /\ Reported("insecure")' <=> Reported("insecure")
    BY <2>2, ReportWrites
  <2>4. secure \subseteq Functions /\ ~Reported("insecure")
    BY <2>1, NothingReported DEF StageInv
  <2>5. Correct(SwitchesIn(secure, order), Total(callNum, CrossingPlaces(secure)))
    BY <2>1, <2>4, ReportCounts
  <2>6. callNum' = callNum /\ CrossingPlaces(secure)' = CrossingPlaces(secure)
    BY <2>3, ExactFixed DEF graphVars, graph
  <2>7. CountedFor("secure", secure)'
    BY <2>3, <2>5, <2>6 DEF CountedFor
  <2>8. CountedFor("insecure", Functions \ secure)'
    BY <2>3, <2>4 DEF CountedFor
  <2>9. StageInv'
    BY <2>1, <2>3, <2>4 DEF StageInv, graphVars
  <2>10. QED BY <2>7, <2>8, <2>9
<1>7. CASE ReportInsecure
  <2> DEFINE S == Functions \ secure
  <2>1. /\ stage = "reportInsecure" /\ stage' = "done"
        /\ \E order \in SetToSeqs(S) : ReportPartition("insecure", S, {}, order)
    BY <1>7 DEF ReportInsecure
  <2>2. PICK order \in SetToSeqs(S) : ReportPartition("insecure", S, {}, order)
    BY <2>1
  <2>3. /\ UNCHANGED <<graphVars, secure, related, moved, solved>>
        /\ Reported("insecure")' /\ SwitchesOf("insecure")' = SwitchesIn(S, order)
        /\ Reported("secure")' <=> Reported("secure")
        /\ Reported("secure") => SwitchesOf("secure")' = SwitchesOf("secure")
    BY <2>2, ReportWrites
  <2>4. Correct(SwitchesIn(S, order), Total(callNum, CrossingPlaces(S)))
    BY <2>1, ReportCounts
  <2>5. /\ callNum' = callNum /\ CrossingPlaces(secure)' = CrossingPlaces(secure)
        /\ CrossingPlaces(S)' = CrossingPlaces(S)
    BY <2>3, ExactFixed DEF graphVars, graph
  <2>6. CountedFor("insecure", Functions \ secure)'
    BY <2>3, <2>4, <2>5 DEF CountedFor
  <2>7. CountedFor("secure", secure)'
    BY <2>3, <2>5 DEF CountedFor
  <2>8. StageInv'
    BY <2>1, <2>3 DEF StageInv, graphVars
  <2>9. QED BY <2>6, <2>7, <2>8
<1>8. CASE UNCHANGED vars
  <2>1. UNCHANGED <<pc, stage, secure, moved, report, nodes, inEdges, outEdges, weight>>
    BY <1>8 DEF vars, splitVars, graphVars, graph
  <2>2. callNum' = callNum /\ \A S : CrossingPlaces(S)' = CrossingPlaces(S)
    BY <2>1, ExactFixed
  <2>3. QED BY <2>1, <2>2 DEF StageInv, CountedFor, Reported, SwitchesOf
<1>9. QED BY <1>2, <1>3, <1>4, <1>5, <1>6, <1>7, <1>8 DEF SplitNext

(***************************************************************************)
(* For every program, every split and every order of the hash set: the     *)
(* number of context switches reported for a partition counts each call    *)
(* across the border once and no other, exactly or, once that many are     *)
(* infinite, as infinity (reportNumOfContextSwitches).                     *)
(***************************************************************************)
THEOREM SwitchesAlwaysCounted == SplitSpec => []SwitchesCounted
<1>1. SplitInit => GraphInv /\ WeightInv /\ SwitchInv
  BY GraphInvInit, WeightInvInit, SwitchInvInit DEF SplitInit
<1>2. GraphInv /\ WeightInv /\ SwitchInv /\ [SplitNext]_vars
        => GraphInv' /\ WeightInv' /\ SwitchInv'
  BY SplitStepsGraph, GraphInvStep, WeightInvStep, SwitchInvStep
<1>3. SplitSpec => []SwitchInv
  BY <1>1, <1>2, PTL DEF SplitSpec
<1>4. QED BY <1>3, SwitchInvCounts, PTL

-----------------------------------------------------------------------------
(***************************************************************************)
(* The integer program                                                     *)
(*                                                                         *)
(* The sizes of the functions are numbers until they are normalized and    *)
(* have one denominator from then on.                                      *)
(***************************************************************************)
FunctionPlaces == {NodePlace(f) : f \in Functions}

SizesGiven ==
  /\ pushed["SIZE"] = FunctionPlaces
  /\ weight["SIZE"] = [x \in FunctionPlaces |-> Number(program.size[x[2]])]

SizesMeasured ==
  /\ DOMAIN weight["SIZE"] = FunctionPlaces
  /\ \E D \in Nat \ {0} : AllCounted(weight["SIZE"], FunctionPlaces, D)

SizeInv ==
  pc \notin {"create", "weighNodes"} => SizesMeasured /\ (pushed["SIZE"] = {} \/ SizesGiven)

LEMMA AssignNodeWeightsSizes ==
  ASSUME GraphInv, WeightInv, AssignNodeWeights
  PROVE  SizeInv'
<1>1. nodes = Functions
  BY DEF AssignNodeWeights, GraphInv, NodesAdvance
<1>2. weight'["SIZE"] = [x \in FunctionPlaces |-> Number(program.size[x[2]])]
  BY <1>1 DEF AssignNodeWeights, WeightInv, Factors, FunctionPlaces
<1>3. pushed'["SIZE"] = FunctionPlaces
  BY <1>1 DEF AssignNodeWeights, WeightInv, Factors, FunctionPlaces
<1>4. program' = program
  BY DEF AssignNodeWeights
<1>5. SizesGiven'
  BY <1>2, <1>3, <1>4 DEF SizesGiven, FunctionPlaces, NodePlace
<1>6. SizesMeasured'
  <2>1. \A f \in Functions : program.size[f] \in Nat
    BY ProgramsAssumption DEF GraphInv, GraphTypeOK
  <2>2. \A x \in FunctionPlaces : x[2] \in Functions
    BY DEF FunctionPlaces, NodePlace
  <2>3. DOMAIN weight'["SIZE"] = FunctionPlaces
    BY <1>2
  <2>4. \A x \in FunctionPlaces : Counted(weight'["SIZE"][x], 1)
    BY <1>2, <2>1, <2>2 DEF Counted, Measured, Number, Frac
  <2>5. 1 \in Nat \ {0}
    OBVIOUS
  <2>6. QED BY <2>3, <2>4, <2>5 DEF SizesMeasured, AllCounted, FunctionPlaces, NodePlace
<1>7. QED BY <1>5, <1>6 DEF SizeInv

LEMMA NormalizeSizes ==
  ASSUME GraphInv, WeightInv, SizesGiven, Normalize("SIZE")
  PROVE  SizesMeasured' /\ pushed'["SIZE"] = {}
<1> DEFINE R == "SIZE"
           V == {weight[R][e] : e \in pushed[R]}
           size == program.size
           N == {size[f] : f \in Functions}
<1>1. R \in Factors
  BY DEF Factors
<1>2. /\ pushed[R] # {} /\ pushed'[R] = {}
      /\ weight'[R] = [e \in DOMAIN weight[R] |->
           IF e \in pushed[R] THEN normalized(weight[R][e], LeastOf(V), GreatestOf(V))
                              ELSE weight[R][e]]
  BY <1>1, NormalizeEffect DEF WeightInv
<1>3. /\ pushed[R] = FunctionPlaces /\ DOMAIN weight[R] = FunctionPlaces
      /\ \A e \in FunctionPlaces : weight[R][e] = Number(size[e[2]])
  BY DEF SizesGiven
<1>4. \A f \in Functions : size[f] \in Nat
  BY ProgramsAssumption DEF GraphInv, GraphTypeOK
<1>5. /\ \A e \in FunctionPlaces : e[2] \in Functions
      /\ \A f \in Functions : NodePlace(f) \in FunctionPlaces /\ NodePlace(f)[2] = f
  BY DEF FunctionPlaces, NodePlace
<1> HIDE DEF size
<1>6. IsFiniteSet(N) /\ N \subseteq Nat /\ N # {}
  <2>1. IsFiniteSet(N)
    BY ProgramsAssumption, ImageFinite
  <2>2. QED BY <2>1, <1>2, <1>3, <1>4, <1>5
<1>7. (\A n \in N : Number(n) \in V) /\ (\A v \in V : \E n \in N : v = Number(n))
  <2>1. V = {weight[R][e] : e \in FunctionPlaces}
    BY <1>3
  <2>2. \A f \in Functions : weight[R][NodePlace(f)] = Number(size[f])
    BY <1>3, <1>5
  <2>3. \A f \in Functions : Number(size[f]) \in V
    BY <2>1, <2>2, <1>5
  <2>4. \A e \in FunctionPlaces : \E n \in N : weight[R][e] = Number(n)
    BY <1>3, <1>5
  <2>5. QED BY <2>1, <2>3, <2>4
<1> HIDE DEF V
<1>8. \A f \in Functions : size[f] \in N
  OBVIOUS
<1> HIDE DEF N
<1>9. PICK B \in N : \A n \in N : n <= B
  BY <1>6, GreatestOfFinite
<1>10. B \in Nat /\ N \subseteq 0 .. B
  BY <1>6, <1>9
<1>11. PICK lo, hi \in N : N \subseteq lo .. hi /\ ScalesBetween(N, V, lo, hi)
  BY <1>6, <1>7, <1>10, CountsScaled
<1> DEFINE D == IF lo = hi THEN 1 ELSE hi - lo
<1>12. lo \in Nat /\ hi \in Nat /\ hi >= lo
  BY <1>6, <1>11
<1>13. D \in Nat \ {0}
  BY <1>12
<1>14. \A n \in lo .. hi : Counted(Scaled(n, lo, hi), D)
  BY <1>12 DEF Counted, Measured, Scaled, Number, Frac
<1> HIDE DEF D
<1>15. \A e \in FunctionPlaces : Counted(weight'[R][e], D)
  <2> SUFFICES ASSUME NEW e \in FunctionPlaces PROVE Counted(weight'[R][e], D)
    OBVIOUS
  <2>1. size[e[2]] \in N /\ size[e[2]] \in lo .. hi
    BY <1>5, <1>8, <1>11
  <2>2. weight'[R][e] = normalized(Number(size[e[2]]), LeastOf(V), GreatestOf(V))
    BY <1>2, <1>3
  <2>3. weight'[R][e] = Scaled(size[e[2]], lo, hi)
    BY <1>11, <2>1, <2>2 DEF ScalesBetween
  <2>4. QED BY <1>14, <2>1, <2>3
<1>16. DOMAIN weight'[R] = FunctionPlaces
  BY <1>2, <1>3
<1>17. QED
  BY <1>2, <1>13, <1>15, <1>16 DEF SizesMeasured, AllCounted, FunctionPlaces, NodePlace

LEMMA SizesKept ==
  ASSUME SizeInv, pc \notin {"create", "weighNodes"}, program' = program,
         weight'["SIZE"] = weight["SIZE"], pushed'["SIZE"] = pushed["SIZE"]
  PROVE  SizeInv'
BY DEF SizeInv, SizesMeasured, SizesGiven, FunctionPlaces, NodePlace, AllCounted

LEMMA SizeInvStep ==
  GraphInv /\ WeightInv /\ SizeInv /\ [Next]_graphVars => SizeInv'
<1> SUFFICES ASSUME GraphInv, WeightInv, SizeInv, [Next]_graphVars PROVE SizeInv'
  OBVIOUS
<1>1. ASSUME pc' \in {"create", "weighNodes"} PROVE SizeInv'
  BY <1>1 DEF SizeInv
<1>2. ASSUME NEW n \in todo, VisitNode(n) PROVE SizeInv'
  BY <1>1, <1>2 DEF VisitNode
<1>3. ASSUME NEW k \in pending, AddNodeConnection(k) PROVE SizeInv'
  BY <1>1, <1>3 DEF AddNodeConnection
<1>4. CASE FinishGraph
  BY <1>1, <1>4 DEF FinishGraph
<1>5. CASE AssignNodeWeights
  BY <1>5, AssignNodeWeightsSizes
<1>6. CASE AssignCallNumWeights
  BY <1>6, SizesKept DEF AssignCallNumWeights, WeightInv, Factors
<1>7. CASE AssignArgWeights
  BY <1>7, SizesKept DEF AssignArgWeights, WeightInv, Factors
<1>8. CASE AssignRetValueWeights
  BY <1>8, SizesKept DEF AssignRetValueWeights, WeightInv, Factors
<1>9. ASSUME NEW x \in Factors, Normalize(x) PROVE SizeInv'
  <2>1. /\ pc = "normalize" /\ pc' = pc /\ program' = program /\ pushed[x] # {}
        /\ \A y \in Factors \ {x} : weight'[y] = weight[y] /\ pushed'[y] = pushed[y]
    BY <1>9, NormalizeEffect DEF WeightInv, Normalize
  <2>2. CASE x = "SIZE"
    <3>1. SizesGiven
      BY <2>1, <2>2 DEF SizeInv
    <3>2. SizesMeasured' /\ pushed'["SIZE"] = {}
      BY <1>9, <2>2, <3>1, NormalizeSizes
    <3>3. QED BY <3>2 DEF SizeInv
  <2>3. CASE x # "SIZE"
    <3>1. "SIZE" \in Factors \ {x}
      BY <2>3 DEF Factors
    <3>2. QED BY <2>1, <3>1, SizesKept
  <2>4. QED BY <2>2, <2>3
<1>10. CASE FinishWeights
  BY <1>10, SizesKept DEF FinishWeights
<1>11. CASE UNCHANGED graphVars
  <2>1. UNCHANGED <<program, pc, weight, pushed>>
    BY <1>11 DEF graphVars
  <2>2. CASE pc \in {"create", "weighNodes"}
    BY <1>1, <2>1, <2>2
  <2>3. CASE pc \notin {"create", "weighNodes"}
    BY <2>1, <2>3, SizesKept
  <2>4. QED BY <2>2, <2>3
<1>12. QED
  BY <1>2, <1>3, <1>4, <1>5, <1>6, <1>7, <1>8, <1>9, <1>10, <1>11 DEF Next

(***************************************************************************)
(* The edges cost integers from 0 on, the functions what one denominator   *)
(* measures.                                                               *)
(***************************************************************************)
LEMMA EdgeCostCounted ==
  ASSUME GraphInv, CallWeights, NEW D \in Nat \ {0}
  PROVE  AllCounted(edgeCost, AllOutPlaces, D)
<1> SUFFICES ASSUME NEW e \in AllOutPlaces PROVE Counted(edgeCost[e], D)
  BY DEF AllCounted
<1>1. \A n \in Nat : Counted(Number(n), D)
  BY DEF Counted, Measured, Number, Frac
<1>2. edgeCost[e] = safe_mult(factor("CALL_NUM", e), Number(1))
  BY DEF edgeCost, factorWeight, coef
<1>3. Counted(factor("CALL_NUM", e), D)
  <2>1. CASE e \in KnownPlaces
    <3>1. e[1] = "out"
      BY DEF AllOutPlaces, OutPlaces
    <3>2. factor("CALL_NUM", e) = Number(Count(e))
      BY <2>1, <3>1 DEF factor, CallWeights
    <3>3. Count(e) \in Nat
      <4>1. program \in Programs /\ LOOP_COST \in Nat
        BY ProgramsAssumption DEF GraphInv, GraphTypeOK
      <4>2. QED BY <4>1, CallNumberIs DEF Count
    <3>4. QED BY <1>1, <3>2, <3>3
  <2>2. CASE e \notin KnownPlaces
    <3>1. factor("CALL_NUM", e) = Number(0)
      BY <2>2 DEF factor, CallWeights, Zero
    <3>2. QED BY <1>1, <3>1
  <2>3. QED BY <2>1, <2>2
<1>4. 1 \in Nat
  OBVIOUS
<1>5. QED BY <1>2, <1>3, <1>4, SafeMultCounted

LEMMA NodeCostMeasured ==
  ASSUME nodes = Functions, split \in Splits, RelatedWeights, SizesMeasured
  PROVE  \E D \in Nat \ {0} : AllMeasured(nodeCost, Functions, D)
<1>1. PICK D \in Nat \ {0} : AllCounted(weight["SIZE"], FunctionPlaces, D)
  BY DEF SizesMeasured
<1>2. SUFFICES ASSUME NEW f \in Functions PROVE Measured(nodeCost[f], D)
  BY DEF AllMeasured
<1> DEFINE R == "SENSITIVE_RELATED"
           p == NodePlace(f)
           worth == factorWeight(R, p)
           size == factorWeight("SIZE", p)
<1>3. nodeCost[f] = safe_sum(worth, Frac(-size.num, size.den))
  BY DEF nodeCost, safe_difference
<1>4. \A n \in Nat : Counted(Number(n), D)
  BY DEF Counted, Measured, Number, Frac
<1>5. Counted(worth, D)
  <2>1. worth = safe_mult(factor(R, p), Number(LOOP_COST))
    BY DEF factorWeight, coef
  <2>2. Counted(factor(R, p), D)
    <3>1. CASE p \in RelatedPlaces
      <4>1. f \in DOMAIN split.related
        BY <3>1 DEF RelatedPlaces, NodePlace
      <4>2. split.related[f] \in Nat
        BY <4>1, ProgramsAssumption
      <4>3. relatedValue(split.related[f]) \in Nat
        BY <4>2, RelatedValues
      <4>4. factor(R, p) = Number(relatedValue(split.related[f]))
        BY <3>1 DEF factor, RelatedWeights, RelatedWeight, NodePlace
      <4>5. QED BY <1>4, <4>3, <4>4
    <3>2. CASE p \notin RelatedPlaces
      <4>1. factor(R, p) = Number(0)
        BY <3>2 DEF factor, RelatedWeights, Zero
      <4>2. QED BY <1>4, <4>1
    <3>3. QED BY <3>1, <3>2
  <2>3. LOOP_COST \in Nat
    BY ProgramsAssumption
  <2> HIDE DEF worth
  <2>4. QED BY <2>1, <2>2, <2>3, SafeMultCounted
<1>6. Counted(size, D)
  <2>1. size = safe_mult(factor("SIZE", p), Number(1))
    BY DEF factorWeight, coef
  <2>2. Counted(factor("SIZE", p), D)
    BY <1>1 DEF factor, SizesMeasured, AllCounted, FunctionPlaces
  <2>3. 1 \in Nat
    OBVIOUS
  <2> HIDE DEF size
  <2>4. QED BY <2>1, <2>2, <2>3, SafeMultCounted
<1> HIDE DEF worth, size
<1>7. Measured(worth, D) /\ Measured(Frac(-size.num, size.den), D)
  BY <1>5, <1>6, OppositeMeasured DEF Counted
<1>8. QED BY <1>3, <1>7, SafeSumMeasured

(***************************************************************************)
(* The worth of an enclave: what its functions are worth less what the     *)
(* calls across its border cost.                                           *)
(***************************************************************************)
CutBy(out, S) == {e \in out : (Caller(e) \in S) # (Callee(e) \in S)}
UncutBy(out, S) == {e \in out : Caller(e) \in S <=> Callee(e) \in S}

Expense(edge, node, out, S) == minus(Total(edge, CutBy(out, S)), Total(node, S))

\* A solution with whole edges of those out that are not cut.
SolutionOf(out, inside, whole) == whole \subseteq UncutBy(out, inside)

(***************************************************************************)
(* If no enclave T with its uncut edges whole has a better objective than  *)
(* the solution with M and whole, none has a lower expense than M.         *)
(***************************************************************************)
LEMMA BestIsCheapest ==
  ASSUME NEW D \in Nat \ {0}, NEW edge, NEW node, NEW out, IsFiniteSet(out),
         AllCounted(edge, out, D), AllMeasured(node, Functions, D),
         NEW M \in SUBSET Functions, NEW T \in SUBSET Functions,
         NEW whole, SolutionOf(out, M, whole),
         AtMost(plus(Total(edge, UncutBy(out, T)), Total(node, T)),
                plus(Total(edge, whole), Total(node, M)))
  PROVE  AtMost(Expense(edge, node, out, M), Expense(edge, node, out, T))
<1>1. ASSUME NEW S \in SUBSET out
      PROVE  /\ IsFiniteSet(S) /\ AllCounted(edge, S, D) /\ AllMeasured(edge, S, D)
             /\ Measured(Total(edge, S), D) /\ TotalUnits(edge, S, D) \in Nat
  <2>1. IsFiniteSet(S) /\ AllCounted(edge, S, D)
    BY FS_Subset DEF AllCounted
  <2>2. QED BY <2>1, TotalCounted, TotalMeasured
<1>2. ASSUME NEW S \in SUBSET Functions
      PROVE  Measured(Total(node, S), D) /\ TotalUnits(node, S, D) \in Int
  <2>1. IsFiniteSet(S) /\ AllMeasured(node, S, D)
    BY ProgramsAssumption, FS_Subset DEF AllMeasured
  <2>2. QED BY <2>1, TotalMeasured
<1>3. ASSUME NEW S
      PROVE  /\ CutBy(out, S) \in SUBSET out /\ UncutBy(out, S) \in SUBSET out
             /\ TotalUnits(edge, out, D)
                  = TotalUnits(edge, CutBy(out, S), D) + TotalUnits(edge, UncutBy(out, S), D)
  <2> DEFINE A == CutBy(out, S)
             B == UncutBy(out, S)
  <2>1. A \in SUBSET out /\ B \in SUBSET out /\ A \cup B = out /\ A \cap B = {}
    BY DEF CutBy, UncutBy
  <2> HIDE DEF A, B
  <2>2. TotalUnits(edge, A \cup B, D) = TotalUnits(edge, A, D) + TotalUnits(edge, B, D)
    BY <1>1, <2>1, TotalUnion
  <2>3. QED BY <2>1, <2>2 DEF A, B
<1>4. TotalUnits(edge, whole, D) <= TotalUnits(edge, UncutBy(out, M), D)
  <2> DEFINE B == UncutBy(out, M)
             rest == B \ whole
  <2>1. /\ whole \in SUBSET out /\ rest \in SUBSET out
        /\ whole \cup rest = B /\ whole \cap rest = {}
    BY <1>3 DEF SolutionOf
  <2> HIDE DEF B, rest
  <2>2. TotalUnits(edge, B, D) = TotalUnits(edge, whole, D) + TotalUnits(edge, rest, D)
    BY <1>1, <2>1, TotalUnion
  <2>3. TotalUnits(edge, whole, D) \in Nat /\ TotalUnits(edge, rest, D) \in Nat
    BY <1>1, <2>1
  <2>4. QED BY <2>2, <2>3 DEF B
<1>5. whole \in SUBSET out
  BY <1>3 DEF SolutionOf
<1> DEFINE all == TotalUnits(edge, out, D)
           w == TotalUnits(edge, whole, D)
           cm == TotalUnits(edge, CutBy(out, M), D)
           um == TotalUnits(edge, UncutBy(out, M), D)
           ct == TotalUnits(edge, CutBy(out, T), D)
           ut == TotalUnits(edge, UncutBy(out, T), D)
           nm == TotalUnits(node, M, D)
           nt == TotalUnits(node, T, D)
<1>6. /\ w \in Int /\ cm \in Int /\ um \in Int /\ ct \in Int /\ ut \in Int
      /\ nm \in Int /\ nt \in Int
      /\ cm + um = ct + ut /\ w <= um
  BY <1>1, <1>2, <1>3, <1>4, <1>5
<1>7. ut + nt <= w + nm
  <2> DEFINE a == plus(Total(edge, UncutBy(out, T)), Total(node, T))
             b == plus(Total(edge, whole), Total(node, M))
  <2>1. Measured(a, D) /\ Units(a, D) = ut + nt
    BY <1>1, <1>2, <1>3, PlusMeasured DEF TotalUnits
  <2>2. Measured(b, D) /\ Units(b, D) = w + nm
    BY <1>1, <1>2, <1>5, PlusMeasured DEF TotalUnits
  <2> HIDE DEF a, b, ut, nt, w, nm
  <2>3. AtMost(a, b)
    BY DEF a, b
  <2>4. QED BY <2>1, <2>2, <2>3, AtMostMeasured
<1>8. Measured(Expense(edge, node, out, M), D) /\ Units(Expense(edge, node, out, M), D) = cm - nm
  BY <1>1, <1>2, <1>3, MinusMeasured DEF Expense, TotalUnits
<1>9. Measured(Expense(edge, node, out, T), D) /\ Units(Expense(edge, node, out, T), D) = ct - nt
  BY <1>1, <1>2, <1>3, MinusMeasured DEF Expense, TotalUnits
<1> HIDE DEF w, cm, um, ct, ut, nm, nt
<1>10. cm - nm <= ct - nt
  BY <1>6, <1>7
<1>11. QED BY <1>8, <1>9, <1>10, AtMostMeasured

(***************************************************************************)
(* What the solver may return moves a cheapest enclave: each enclave that  *)
(* is legal is, with the edges it does not cut, a solution too.            *)
(***************************************************************************)
Cheapest(M) ==
  /\ secure \subseteq M
  /\ \A T \in {X \in SUBSET Functions : Legal(X)} :
       AtMost(Expense(edgeCost, nodeCost, AllOutPlaces, M),
              Expense(edgeCost, nodeCost, AllOutPlaces, T))

Best(s) == \A t \in Solutions : AtMost(Objective(t), Objective(s))

LEMMA SolutionsCut ==
  ASSUME NEW s \in Solutions
  PROVE  /\ s.inside \subseteq nodes /\ secure \subseteq s.inside
         /\ SolutionOf(AllOutPlaces, s.inside, s.whole)
BY DEF Solutions, Constraints, Legal, SolutionOf, UncutBy

LEMMA LegalIsSolution ==
  ASSUME NEW T \in SUBSET nodes, Legal(T)
  PROVE  [inside |-> T, whole |-> UncutBy(AllOutPlaces, T)] \in Solutions
<1>1. UncutBy(AllOutPlaces, T) \in SUBSET AllOutPlaces
  BY DEF UncutBy
<1>2. Constraints(T, UncutBy(AllOutPlaces, T))
  BY DEF Constraints, UncutBy
<1>3. QED BY <1>1, <1>2 DEF Solutions

LEMMA BestMovesCheapest ==
  ASSUME GraphInv, WeightInv, SizeInv, pc = "weighed", NEW s \in Solutions, Best(s)
  PROVE  Cheapest(s.inside)
<1>1. nodes = Functions /\ split \in Splits /\ RelatedWeights /\ CallWeights /\ SizesMeasured
  BY DEF GraphInv, NodesAdvance, WeightInv, SizeInv
<1>2. PICK D \in Nat \ {0} : AllMeasured(nodeCost, Functions, D)
  BY <1>1, NodeCostMeasured
<1>3. AllCounted(edgeCost, AllOutPlaces, D) /\ IsFiniteSet(AllOutPlaces)
  BY <1>1, EdgeCostCounted, PlacesFinite
<1>4. /\ s.inside \in SUBSET Functions /\ secure \subseteq s.inside
      /\ SolutionOf(AllOutPlaces, s.inside, s.whole)
  BY <1>1, SolutionsCut
<1>5. SUFFICES ASSUME NEW T \in SUBSET Functions, Legal(T)
               PROVE  AtMost(Expense(edgeCost, nodeCost, AllOutPlaces, s.inside),
                             Expense(edgeCost, nodeCost, AllOutPlaces, T))
  BY <1>4 DEF Cheapest
<1> DEFINE t == [inside |-> T, whole |-> UncutBy(AllOutPlaces, T)]
<1>6. AtMost(Objective(t), Objective(s))
  BY <1>1, <1>5, LegalIsSolution DEF Best
<1>7. AtMost(plus(Total(edgeCost, UncutBy(AllOutPlaces, T)), Total(nodeCost, T)),
             plus(Total(edgeCost, s.whole), Total(nodeCost, s.inside)))
  BY <1>6 DEF Objective
<1>8. QED BY <1>2, <1>3, <1>4, <1>5, <1>7, BestIsCheapest

LEMMA CheapestIsMinimumCut ==
  (stage = "applyIlp" /\ solved => Cheapest(moved)) => IlpMinimumCut
BY DEF IlpMinimumCut, Cheapest, Expense, BorderCost, CutBy

(***************************************************************************)
(* Nothing is solved before the solver runs, and what is read here stays   *)
(* as it is until the functions have been moved.                           *)
(***************************************************************************)
IlpInv ==
  /\ stage \in {"weigh", "ilp"} => ~solved
  /\ stage = "applyIlp" /\ solved => Cheapest(moved)

LEMMA CostsFixed ==
  ASSUME UNCHANGED <<graphVars, secure>>
  PROVE  \A M : Cheapest(M)' <=> Cheapest(M)
<1>1. UNCHANGED <<nodes, inEdges, outEdges, weight>>
  BY DEF graphVars, graph
<1>2. AllOutPlaces' = AllOutPlaces
  BY <1>1 DEF AllOutPlaces, OutPlaces
<1>3. \A x, p : factorWeight(x, p)' = factorWeight(x, p)
  BY <1>1 DEF factorWeight, factor, coef
<1>4. edgeCost' = edgeCost
  BY <1>2, <1>3 DEF edgeCost
<1>5. nodeCost' = nodeCost
  BY <1>1, <1>3 DEF nodeCost, NodePlace
<1>6. \A T : Legal(T)' <=> Legal(T)
  BY <1>1 DEF Legal
<1>7. QED BY <1>2, <1>4, <1>5, <1>6 DEF Cheapest

LEMMA IlpInvStep ==
  GraphInv /\ WeightInv /\ SizeInv /\ StageInv /\ IlpInv /\ [SplitNext]_vars => IlpInv'
<1> SUFFICES ASSUME GraphInv, WeightInv, SizeInv, StageInv, IlpInv, [SplitNext]_vars
             PROVE  IlpInv'
  OBVIOUS
<1>1. CASE Weigh
  BY <1>1 DEF Weigh, splitVars, IlpInv
<1>2. CASE StartOptimization \/ StartStatistics
  BY <1>2 DEF StartOptimization, StartStatistics, IlpInv
<1>3. CASE RunIlp
  <2>1. /\ stage = "ilp" /\ stage' = "applyIlp" /\ UNCHANGED <<graphVars, secure>>
    BY <1>3 DEF RunIlp
  <2>2. pc = "weighed" /\ ~solved
    BY <2>1 DEF StageInv, IlpInv
  <2>3. CASE UNCHANGED <<moved, solved>>
    BY <2>1, <2>2, <2>3 DEF IlpInv
  <2>4. ASSUME NEW s \in Solutions, Best(s), moved' = s.inside PROVE IlpInv'
    <3>1. Cheapest(moved')
      BY <2>2, <2>4, BestMovesCheapest
    <3>2. Cheapest(moved)'
      BY <2>1, <3>1, CostsFixed DEF Cheapest
    <3>3. QED BY <2>1, <3>2 DEF IlpInv
  <2>5. \/ UNCHANGED <<moved, solved>>
        \/ \E s \in Solutions : Best(s) /\ moved' = s.inside
    BY <1>3 DEF RunIlp, Best
  <2>6. QED BY <2>3, <2>4, <2>5
<1>4. CASE ApplyIlp
  BY <1>4 DEF ApplyIlp, IlpInv
<1>5. CASE ReportSecure \/ ReportInsecure
  BY <1>5 DEF ReportSecure, ReportInsecure, IlpInv
<1>6. CASE UNCHANGED vars
  <2>1. UNCHANGED <<graphVars, secure, stage, solved, moved>>
    BY <1>6 DEF vars, splitVars
  <2>2. Cheapest(moved)' <=> Cheapest(moved)
    BY <2>1, CostsFixed DEF Cheapest
  <2>3. QED BY <2>1, <2>2 DEF IlpInv
<1>7. QED BY <1>1, <1>2, <1>3, <1>4, <1>5, <1>6 DEF SplitNext

(***************************************************************************)
(* For every program and every split: what the solved program moves into   *)
(* the enclave costs the least, over all enclaves its constraints allow.   *)
(* The constraints of createConstraints say when an edge may be whole, not *)
(* that it is; the weights of the calls are not negative, which makes a    *)
(* best solution keep what it can.                                         *)
(***************************************************************************)
THEOREM IlpAlwaysMinimumCut == SplitSpec => []IlpMinimumCut
<1>1. SplitInit => GraphInv /\ WeightInv /\ SizeInv /\ SwitchInv /\ IlpInv
  <2>1. SplitInit => SizeInv /\ IlpInv
    BY DEF SplitInit, Init, SizeInv, IlpInv
  <2>2. QED BY <2>1, GraphInvInit, WeightInvInit, SwitchInvInit DEF SplitInit
<1>2. [SplitNext]_vars => [Next]_graphVars
  BY SplitStepsGraph
<1>3. SwitchInv => StageInv
  BY DEF SwitchInv
<1>4. GraphInv /\ WeightInv /\ SizeInv /\ SwitchInv /\ IlpInv /\ [SplitNext]_vars
        => GraphInv' /\ WeightInv' /\ SizeInv' /\ SwitchInv' /\ IlpInv'
  BY <1>2, <1>3, GraphInvStep, WeightInvStep, SizeInvStep, SwitchInvStep, IlpInvStep
<1>5. IlpInv => IlpMinimumCut
  BY CheapestIsMinimumCut DEF IlpInv
<1>6. QED BY <1>1, <1>4, <1>5, PTL DEF SplitSpec
==============================================================================
