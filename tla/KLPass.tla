------------------------------- MODULE KLPass -------------------------------
(***************************************************************************)
(* KLOptimizationPass: one Kernighan-Lin pass over the insecure functions. *)
(* Every candidate is moved to the secure partition, best gain first, each *)
(* move changing the gains of the candidates left; then the moves after    *)
(* the best prefix are taken back.                                         *)
(*                                                                         *)
(* A call graph keeps two copies of an edge, one at each end, and each     *)
(* copy has its own CALL_NUM weight: CallGraph::assignWeights normalizes   *)
(* the copies at the callees only.  g.inWeight[<<f, h>>] is the weight of  *)
(* the call f -> h on the copy h holds, g.outWeight on the copy f holds;   *)
(* 0 where there is no call.  g.related and g.size are the weights         *)
(* SENSITIVE_RELATED and SIZE of the nodes, 0 where there is none.         *)
(* g.callers[f] and g.callees[f] are the far ends of the edges of f's      *)
(* node, in the order of its two edge lists; repeated calls share an edge. *)
(*                                                                         *)
(* A weight is a Double of Numbers.h, given here in units of a common      *)
(* denominator of all weights, POS_INFINITY too: an integer.  The sums of  *)
(* the pass are those of Double, which saturate.  Numbers of calls are     *)
(* never negative.                                                         *)
(***************************************************************************)
EXTENDS Integers, Sequences, FiniteSets, Functions

CONSTANTS
  Functions,     \* the functions of the module
  Graphs,        \* weighted call graphs
  Starts,        \* the partitions the pass may be started on
  POS_INFINITY   \* NumberType's infinity, 100000

ASSUME FunctionsAssumption == IsFiniteSet(Functions)

ASSUME InfinityAssumption == POS_INFINITY \in Nat \ {0}

ASSUME GraphsAssumption ==
  \A g \in Graphs :
    /\ g.callers \in [Functions -> Seq(Functions)]
    /\ g.callees \in [Functions -> Seq(Functions)]
    /\ \A f \in Functions : IsInjective(g.callers[f]) /\ IsInjective(g.callees[f])
    /\ g.inWeight \in [Functions \X Functions -> Nat]
    /\ g.outWeight \in [Functions \X Functions -> Nat]
    /\ \A f, h \in Functions :
         /\ f \notin Range(g.callers[h]) => g.inWeight[<<f, h>>] = 0
         /\ h \notin Range(g.callees[f]) => g.outWeight[<<f, h>>] = 0
    /\ g.related \in [Functions -> Int]
    /\ g.size \in [Functions -> Int]

(***************************************************************************)
(* The split the pass starts from is complementary (ComputePartitions of   *)
(* ProgramPartitioning), and a candidate is an insecure function.          *)
(***************************************************************************)
ASSUME StartsAssumption ==
  \A s \in Starts :
    /\ s.secure \cup s.insecure = Functions
    /\ s.secure \cap s.insecure = {}
    /\ s.related \subseteq Functions
    /\ s.candidates \subseteq s.insecure

VARIABLES
  graph,       \* m_callgraph
  start,       \* the partitions when the pass was created
  pc,          \* where KLOptimizationPass::run is
  candidates,  \* m_candidates still to be moved
  moveGains,   \* m_moveGains, by candidate
  order,       \* m_functionMoveGains: the functions moved so far
  gains,       \*   and the gain each had when it was moved
  i,           \* applyOptimization: the next move to look at,
  intmdGain,   \*   the total gain of the moves before it,
  maxGain,     \*   the greatest total met
  idx,         \*   and the number of moves it was met after
  secure, insecure, related

vars == <<graph, start, pc, candidates, moveGains, order, gains,
          i, intmdGain, maxGain, idx, secure, insecure, related>>

(***************************************************************************)
(* operator + and += of Double: each infinity absorbs all but numbers of   *)
(* the other sign; the two of them cancel.  A plain sum may pass infinity. *)
(***************************************************************************)
NEG_INFINITY == -POS_INFINITY

safe_sum(x, y) ==
  IF (x = POS_INFINITY /\ y >= 0) \/ (y = POS_INFINITY /\ x >= 0) THEN POS_INFINITY
  ELSE IF {x, y} = {POS_INFINITY, NEG_INFINITY} THEN 0
  ELSE IF (x = NEG_INFINITY /\ y <= 0) \/ (y = NEG_INFINITY /\ x <= 0) THEN NEG_INFINITY
  ELSE x + y

(***************************************************************************)
(* A variable that starts at 0 and has the numbers of a sequence added to  *)
(* it: its value after each of them.                                       *)
(***************************************************************************)
runningSums(values) ==
  LET sum[n \in 0 .. Len(values)] ==
        IF n = 0 THEN 0 ELSE safe_sum(sum[n - 1], values[n])
  IN  sum

(***************************************************************************)
(* computeCandidateEdgeCosts: both edge copies the candidate itself holds. *)
(***************************************************************************)
inWeights(f) == [caller \in Functions |-> graph.inWeight[<<caller, f>>]]
outWeights(f) == [callee \in Functions |-> graph.outWeight[<<f, callee>>]]

edgeCost(f, other) == safe_sum(inWeights(f)[other], outWeights(f)[other])

(***************************************************************************)
(* getFunctionCosts: what f's own edges cost when its neighbours in the    *)
(* insecure partition count as internal and all others as external, added  *)
(* up along the list of incoming and then that of outgoing edges.  An edge *)
(* that is not counted adds 0, which leaves every sum as it is.            *)
(***************************************************************************)
weightsAlong(list, weight, counted) ==
  [k \in 1 .. Len(list) |-> IF list[k] \in counted THEN weight[list[k]] ELSE 0]

costWith(f, counted) ==
  LET weights == weightsAlong(graph.callers[f], inWeights(f), counted)
                   \o weightsAlong(graph.callees[f], outWeights(f), counted)
  IN  runningSums(weights)[Len(weights)]

internalCost(f) == costWith(f, insecure)
externalCost(f) == costWith(f, Functions \ insecure)

(***************************************************************************)
(* computeNodeCosts: related functions are wanted inside, large ones not.  *)
(* Multiplied by the int -1 a size is a plain double, and so is this sum.  *)
(***************************************************************************)
functionCost(f) == graph.related[f] - graph.size[f]

initialGain(f) == safe_sum(safe_sum(externalCost(f), -internalCost(f)), functionCost(f))

Init ==
  /\ graph \in Graphs
  /\ start \in Starts
  /\ pc = "move"
  /\ candidates = start.candidates
  /\ moveGains = [f \in candidates |-> 0]
  /\ order = << >>
  /\ gains = << >>
  /\ i = 1 /\ intmdGain = 0 /\ maxGain = 0 /\ idx = 0
  /\ secure = start.secure
  /\ insecure = start.insecure
  /\ related = start.related

\* Variant: the edge to the moved function is counted once, not twice.
updatedGains_Single ==
  [f \in candidates |->
     IF order = << >> THEN initialGain(f)
     ELSE safe_sum(moveGains[f], edgeCost(f, order[Len(order)]))]

(***************************************************************************)
(* computeMoveGains: from scratch before the first move, afterwards only   *)
(* the edges to the function just moved are counted anew.                  *)
(***************************************************************************)
updatedGains ==
  [f \in candidates |->
     IF order = << >> THEN initialGain(f)
     ELSE safe_sum(moveGains[f], 2 * edgeCost(f, order[Len(order)]))]

(***************************************************************************)
(* The move of a function, with the gain it has by now.                    *)
(***************************************************************************)
moveFunction(f) ==
  /\ order' = Append(order, f)
  /\ gains' = Append(gains, updatedGains[f])
  /\ candidates' = candidates \ {f}
  /\ moveGains' = [h \in candidates' |-> updatedGains[h]]
  /\ secure' = secure \cup {f}
  /\ insecure' = insecure \ {f}

(***************************************************************************)
(* One turn of the loop of run(): gains, the first candidate of greatest   *)
(* gain, its move.  The candidates come out of a hash set, so that the     *)
(* first of several best ones may be any of them.                          *)
(***************************************************************************)
MoveBest(f) ==
  /\ pc = "move"
  /\ f \in candidates
  /\ \A h \in candidates : updatedGains[h] <= updatedGains[f]
  /\ moveFunction(f)
  /\ UNCHANGED <<graph, start, pc, i, intmdGain, maxGain, idx, related>>

AllMoved ==
  /\ pc = "move"
  /\ candidates = {}
  /\ pc' = "scan"
  /\ UNCHANGED <<graph, start, candidates, moveGains, order, gains,
                 i, intmdGain, maxGain, idx, secure, insecure, related>>

(***************************************************************************)
(* A turn of the first loop of applyOptimization: the running total, and   *)
(* whether it is a new best one.                                           *)
(***************************************************************************)
ScanStep(best(_)) ==
  /\ pc = "scan"
  /\ i <= Len(order)
  /\ i' = i + 1
  /\ intmdGain' = safe_sum(intmdGain, gains[i])
  /\ IF best(intmdGain') THEN maxGain' = intmdGain' /\ idx' = i
                         ELSE UNCHANGED <<maxGain, idx>>
  /\ UNCHANGED <<graph, start, pc, candidates, moveGains, order, gains,
                 secure, insecure, related>>

\* Variant: ties keep the shorter prefix.
ScanGain_Strict == LET B(sum) == maxGain < sum IN ScanStep(B)

(***************************************************************************)
(* applyOptimization: a total as good as the best one moves the cut on;    *)
(* then the moves after the best index are reverted, and the related       *)
(* entries of those up to it removed.                                      *)
(***************************************************************************)
ScanGain == LET B(sum) == maxGain <= sum IN ScanStep(B)

MovedBetween(m, n) == {order[k] : k \in m .. n}

RevertWith(out, back, unrelated) ==
  /\ pc = "scan"
  /\ i > Len(order)
  /\ secure' = secure \ out
  /\ insecure' = insecure \cup back
  /\ related' = related \ unrelated
  /\ pc' = "done"
  /\ UNCHANGED <<graph, start, candidates, moveGains, order, gains,
                 i, intmdGain, maxGain, idx>>

\* Variants: reverted functions do not come back; nothing is reverted; the
\* related entries of reverted functions are removed too.
RevertRest_Lost == RevertWith(MovedBetween(idx + 1, Len(order)), {}, MovedBetween(1, idx))
RevertRest_Nothing == RevertWith({}, {}, MovedBetween(1, idx))
RevertRest_ForgetsAll ==
  RevertWith(MovedBetween(idx + 1, Len(order)), MovedBetween(idx + 1, Len(order)),
             MovedBetween(1, Len(order)))

RevertRest ==
  LET rest == MovedBetween(idx + 1, Len(order))
  IN  RevertWith(rest, rest, MovedBetween(1, idx))

Next ==
  \/ \E f \in candidates : MoveBest(f)
  \/ AllMoved
  \/ ScanGain
  \/ RevertRest

Spec == Init /\ [][Next]_vars

(***************************************************************************)
(* Properties                                                              *)
(***************************************************************************)

(***************************************************************************)
(* During the pass, with its tentative moves, and after it a function is   *)
(* on exactly one side; sensitive functions are never taken out.           *)
(***************************************************************************)
AlwaysSplit ==
  /\ secure \cup insecure = Functions
  /\ secure \cap insecure = {}
  /\ start.secure \subseteq secure
  /\ secure \ start.secure \subseteq start.candidates

(***************************************************************************)
(* No sum over the edges and the node of f can reach infinity.             *)
(***************************************************************************)
AbsInt(n) == IF n < 0 THEN -n ELSE n

edgeWeights(f) ==
  [other \in Functions |-> inWeights(f)[other] + outWeights(f)[other]]

Heft(f) == SumFunctionOnSet(edgeWeights(f), Functions) + AbsInt(functionCost(f))

Light(f) == Heft(f) < POS_INFINITY

(***************************************************************************)
(* The incremental update is exact for functions whose edges weigh less    *)
(* than infinity: when the next function is chosen, the gain of each such  *)
(* candidate is what getFunctionCosts would give if it were computed from  *)
(* scratch on the partitions as they are now.                              *)
(***************************************************************************)
GainsExact ==
  pc = "move" => \A f \in candidates : Light(f) => updatedGains[f] = initialGain(f)

(***************************************************************************)
(* The comment at m_functionMoveGains: it holds "for each function the     *)
(* gain when it's moved".  Without regard to infinity this is not so: a    *)
(* gain that saturated counts its next updates in full.                    *)
(***************************************************************************)
GainWhenMoved ==
  [][\A f \in candidates :
       order' = Append(order, f) => gains' = Append(gains, initialGain(f))]_vars

(***************************************************************************)
(* What stays moved is a prefix of the move sequence of greatest total     *)
(* gain, as Double adds the gains up; the longest such prefix, and never   *)
(* one of negative total.                                                  *)
(***************************************************************************)
PrefixGain(n) == runningSums(gains)[n]

KeepsBestPrefix ==
  pc = "done" =>
    \E k \in 0 .. Len(order) :
      /\ secure = start.secure \cup MovedBetween(1, k)
      /\ related = start.related \ MovedBetween(1, k)
      /\ \A n \in 0 .. Len(order) :
           /\ PrefixGain(n) <= PrefixGain(k)
           /\ n > k => PrefixGain(n) < PrefixGain(k)

(***************************************************************************)
(* The purpose of the pass: what it leaves costs no more than what it was  *)
(* given, cross-partition calls and node costs taken together.  This needs *)
(* both copies of every edge to weigh the same, which holds when all call  *)
(* counts are equal (normalization then keeps them) and not otherwise; and *)
(* all that the pass adds up to stay below infinity.                       *)
(***************************************************************************)
Symmetric(g) == g.inWeight = g.outWeight

Hefts == [f \in start.candidates |-> Heft(f)]

AllLight == SumFunctionOnSet(Hefts, start.candidates) < POS_INFINITY

CutEdges(S) == {e \in Functions \X Functions : (e[1] \in S) # (e[2] \in S)}

CutCost(S) == SumFunctionOnSet(graph.outWeight, CutEdges(S))
              - SumFunctionOnSet([f \in Functions |-> functionCost(f)], S)

NeverWorse ==
  pc = "done" /\ Symmetric(graph) /\ AllLight => CutCost(secure) <= CutCost(start.secure)

(***************************************************************************)
(* Seen from PartitionOptimizer the whole pass is one step that moves some *)
(* of the candidates (RunKL of ProgramPartitioning): tentative moves are   *)
(* not seen until the pass is done.                                        *)
(***************************************************************************)
Choice == INSTANCE MoveChoice WITH
  moved    <- IF pc = "done" THEN secure \ start.secure ELSE {},
  secure   <- IF pc = "done" THEN secure ELSE start.secure,
  insecure <- IF pc = "done" THEN insecure ELSE start.insecure,
  related  <- IF pc = "done" THEN related ELSE start.related,
  done     <- pc = "done"

ImplementsMoveChoice == Choice!Spec
=============================================================================
