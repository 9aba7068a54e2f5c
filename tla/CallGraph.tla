----------------------------- MODULE CallGraph -----------------------------
(***************************************************************************)
(* The augmented call graph: its construction from the one of LLVM, and    *)
(* the weights WeightAssigningHelper gives its nodes and edges.            *)
(*                                                                         *)
(* An edge has two copies, one in the list of its caller and one in that   *)
(* of its callee.  The places a weight is kept at are <<"node", f>>,       *)
(* <<"out", f, h>> (the copy the caller f has) and <<"in", f, h>> (the     *)
(* copy the callee h has); weight[factor] is defined on the places with    *)
(* that factor.                                                            *)
(*                                                                         *)
(* A program is a record:                                                  *)
(*   calls    its calls in order, [caller, callee, inLoop]; callee is      *)
(*            NoFunction for a call LLVM knows no function for             *)
(*   hasPDG   the functions the PDG has a FunctionPDG for                  *)
(*   size     instructions of a function                                   *)
(*   args, ret   its argument types and its return type                    *)
(* The call sites of the PDG are the calls of the program, as in the call  *)
(* graph of LLVM: assignCallNumWeights looks up one by the other without   *)
(* asking whether it is there.                                             *)
(***************************************************************************)
EXTENDS Numbers, SequencesExt, FiniteSetsExt

CONSTANTS
  Functions,    \* the functions of the module
  NoFunction,   \* no function: a null pointer
  Programs,     \* the programs that may be given
  Splits,       \* the secure partitions when the weights are assigned:
                \*   [functions, related], related a level by function
  Types,        \* the types of the program and what they consist of:
                \*   [kind, elements], elements a sequence of types, of an
                \*   array its type of elements as often as it has elements
  LOOP_COST     \* what a call in a loop counts, 1000

Calls == [caller : Functions, callee : Functions \cup {NoFunction}, inLoop : BOOLEAN]

ASSUME ProgramsAssumption ==
  /\ IsFiniteSet(Functions) /\ NoFunction \notin Functions
  /\ LOOP_COST \in Nat \ {0, 1}
  /\ \A p \in Programs : /\ p.calls \in Seq(Calls)
                         /\ p.hasPDG \subseteq Functions
                         /\ p.size \in [Functions -> Nat]
                         /\ p.args \in [Functions -> Seq(DOMAIN Types)]
                         /\ p.ret \in [Functions -> DOMAIN Types]
  /\ \A s \in Splits : /\ s.functions \subseteq Functions
                       /\ DOMAIN s.related \subseteq Functions
                       /\ \A f \in DOMAIN s.related : s.related[f] \in Nat

Factors == {"SENSITIVE", "SENSITIVE_RELATED", "SIZE", "CALL_NUM",
            "ARG_NUM", "ARG_COMPLEXITY", "RET_COMPLEXITY"}

VARIABLES
  program, split,
  pc,                    \* what runs next
  todo,                  \* create: the nodes of LLVM's graph still to come
  pending,               \*   and the calls of the last one, still to be added
  nodes,                 \* m_functionNodes
  children,              \* m_children of each node
  outEdges, inEdges,     \* the callees and the callers in its edge lists
  weight,                \* the factors of all nodes and edges
  pushed                 \* m_factorWeights: the places to normalize

graph == <<nodes, children, outEdges, inEdges>>
graphVars == <<program, split, pc, todo, pending, graph, weight, pushed>>

Init ==
  /\ program \in Programs
  /\ split \in Splits
  /\ pc = "create"
  /\ todo = Functions \cup {NoFunction}
  /\ pending = {}
  /\ nodes = {}
  /\ children = [f \in Functions |-> {}]
  /\ outEdges = [f \in Functions |-> << >>]
  /\ inEdges = [f \in Functions |-> << >>]
  /\ weight = [x \in Factors |-> << >>]
  /\ pushed = [x \in Factors |-> {}]

(***************************************************************************)
(* Construction                                                            *)
(***************************************************************************)
\* By their places among the calls of the program.
CallsFrom(f) == {k \in DOMAIN program.calls : program.calls[k].caller = f}

(***************************************************************************)
(* A turn of the loop of create.  The node of LLVM's graph that stands for *)
(* the callers outside the module has no function and is passed over; the  *)
(* nodes come in the order of their pointers.                              *)
(***************************************************************************)
VisitNode(n) ==
  /\ pc = "create" /\ pending = {}
  /\ n \in todo
  /\ todo' = todo \ {n}
  /\ IF n = NoFunction
     THEN UNCHANGED <<nodes, pending>>
     ELSE nodes' = nodes \cup {n} /\ pending' = CallsFrom(n)
  /\ UNCHANGED <<program, split, pc, children, outEdges, inEdges, weight, pushed>>

\* Variant: only the caller's list is protected against repeated calls.
Connect_InAlways(f, h) ==
  /\ children' = [children EXCEPT ![f] = @ \cup {h}]
  /\ outEdges' = IF h \in children[f] THEN outEdges
                 ELSE [outEdges EXCEPT ![f] = Append(@, h)]
  /\ inEdges' = [inEdges EXCEPT ![h] = Append(@, f)]

(***************************************************************************)
(* addOutEdge and addInEdge: the first call of a callee makes an edge, a   *)
(* copy of which goes to either end.                                       *)
(***************************************************************************)
Connect(f, h) ==
  IF h \in children[f] THEN UNCHANGED <<children, outEdges, inEdges>>
  ELSE /\ children' = [children EXCEPT ![f] = @ \cup {h}]
       /\ outEdges' = [outEdges EXCEPT ![f] = Append(@, h)]
       /\ inEdges' = [inEdges EXCEPT ![h] = Append(@, f)]

AddNodeConnection(k) ==
  /\ pc = "create" /\ k \in pending
  /\ \A j \in pending : k <= j
  /\ pending' = pending \ {k}
  /\ LET call == program.calls[k]
     IN  IF call.callee = NoFunction THEN UNCHANGED graph
         ELSE /\ nodes' = nodes \cup {call.callee}
              /\ Connect(call.caller, call.callee)
  /\ UNCHANGED <<program, split, pc, todo, weight, pushed>>

FinishGraph ==
  /\ pc = "create" /\ pending = {} /\ todo = {}
  /\ pc' = "weighNodes"
  /\ UNCHANGED <<program, split, todo, pending, graph, weight, pushed>>

(***************************************************************************)
(* Weights                                                                 *)
(***************************************************************************)
NodePlace(f) == <<"node", f>>
InPlaces(h) == {<<"in", f, h>> : f \in ToSet(inEdges[h])}
OutPlaces(f) == {<<"out", f, h>> : h \in ToSet(outEdges[f])}
Caller(place) == place[2]
Callee(place) == place[3]
AllInPlaces == UNION {InPlaces(f) : f \in nodes}
AllOutPlaces == UNION {OutPlaces(f) : f \in nodes}

\* Variant: the level itself is the weight.
relatedValue_Level(level) == level

(***************************************************************************)
(* assignSensitiveRelatedNodeWeights: 1/level and 1/LOOP_COST are integer  *)
(* divisions.                                                              *)
(***************************************************************************)
relatedValue(level) == IF level = 0 THEN 1 \div LOOP_COST ELSE 1 \div level

AssignNodeWeights ==
  /\ pc = "weighNodes"
  /\ LET related == {NodePlace(f) : f \in DOMAIN split.related}
         secure == {NodePlace(f) : f \in split.functions}
         all == {NodePlace(f) : f \in nodes}
     IN  /\ weight' = [weight EXCEPT
              !["SENSITIVE"] = [x \in secure |-> Infinity],
              !["SENSITIVE_RELATED"] =
                 [x \in related |-> Number(relatedValue(split.related[x[2]]))],
              !["SIZE"] = [x \in all |-> Number(program.size[x[2]])]]
         /\ pushed' = [pushed EXCEPT !["SENSITIVE"] = secure,
                                     !["SENSITIVE_RELATED"] = related,
                                     !["SIZE"] = all]
  /\ pc' = "weighCalls"
  /\ UNCHANGED <<program, split, todo, pending, graph>>

\* Variant: a call site sets the number, and the calls before it are lost.
CountCall_Once(call, count) == IF call.inLoop THEN LOOP_COST ELSE 1

(***************************************************************************)
(* collectFunctionCallSiteData, one call site: a call in a loop sets the   *)
(* number of calls, another one adds to it unless it is infinite.          *)
(***************************************************************************)
CountCall(call, count) ==
  IF call.inLoop THEN LOOP_COST
  ELSE IF count = POS_INFINITY THEN count ELSE count + 1

\* By their places among the calls, in whose order they are counted.
callSites(f, h) == {k \in CallsFrom(f) : program.calls[k].callee = h}
callNumber(f, h) ==
  MapThenFoldSet(CountCall, 0, LAMBDA k : program.calls[k], Max, callSites(f, h))

\* Variant: the callers' copies are pushed to be normalized, the others not.
PushedCopies_Out == {e \in AllOutPlaces : Callee(e) \in program.hasPDG}

\* The copies whose call number is among the weights to normalize.
PushedCopies == UNION {InPlaces(h) : h \in nodes \cap program.hasPDG}

AssignCallNumWeights ==
  /\ pc = "weighCalls"
  /\ LET known == {e \in AllInPlaces \cup AllOutPlaces : Callee(e) \in program.hasPDG}
     IN  weight' = [weight EXCEPT !["CALL_NUM"] =
            [e \in known |-> Number(callNumber(Caller(e), Callee(e)))]]
  /\ pushed' = [pushed EXCEPT !["CALL_NUM"] = PushedCopies]
  /\ pc' = "weighArgs"
  /\ UNCHANGED <<program, split, todo, pending, graph>>

SumOf(s) == FoldLeft(+, 0, s)

(***************************************************************************)
(* getTypeComplexity: pointers and functions count nothing, and anything   *)
(* that has no parts, void included, counts 1.                             *)
(***************************************************************************)
typeComplexity[t \in DOMAIN Types] ==
  LET parts == Types[t].elements
  IN  CASE Types[t].kind \in {"struct", "array", "vector"} ->
             SumOf([k \in DOMAIN parts |-> typeComplexity[parts[k]]])
        [] Types[t].kind \in {"pointer", "function"} -> 0
        [] OTHER -> 1

argComplexity(f) ==
  SumOf([k \in DOMAIN program.args[f] |-> typeComplexity[program.args[f][k]]])

AssignArgWeights ==
  /\ pc = "weighArgs"
  /\ weight' = [weight EXCEPT
       !["ARG_NUM"] = [e \in AllInPlaces |-> Number(Len(program.args[Callee(e)]))],
       !["ARG_COMPLEXITY"] = [e \in AllInPlaces |-> Number(argComplexity(Callee(e)))]]
  /\ pushed' = [pushed EXCEPT !["ARG_NUM"] = AllInPlaces,
                              !["ARG_COMPLEXITY"] = AllInPlaces]
  /\ pc' = "weighRet"
  /\ UNCHANGED <<program, split, todo, pending, graph>>

AssignRetValueWeights ==
  /\ pc = "weighRet"
  /\ weight' = [weight EXCEPT !["RET_COMPLEXITY"] =
       [e \in AllInPlaces |-> Number(typeComplexity[program.ret[Callee(e)]])]]
  /\ pushed' = [pushed EXCEPT !["RET_COMPLEXITY"] = AllInPlaces]
  /\ pc' = "normalize"
  /\ UNCHANGED <<program, split, todo, pending, graph>>

(***************************************************************************)
(* normalizeWeights: a factor that is the same everywhere stays as it is.  *)
(***************************************************************************)
normalized(v, min, max) ==
  IF Equal(min, max) THEN min ELSE over(minus(v, min), minus(max, min))

Normalize(x) ==
  /\ pc = "normalize"
  /\ pushed[x] # {}
  /\ LET values == {weight[x][e] : e \in pushed[x]}
         min == CHOOSE v \in values : \A w \in values : AtMost(v, w)
         max == CHOOSE v \in values : \A w \in values : AtMost(w, v)
     IN  weight' = [weight EXCEPT ![x] =
            [e \in DOMAIN @ |-> IF e \in pushed[x] THEN normalized(@[e], min, max)
                                                   ELSE @[e]]]
  /\ pushed' = [pushed EXCEPT ![x] = {}]
  /\ UNCHANGED <<program, split, pc, todo, pending, graph>>

FinishWeights ==
  /\ pc = "normalize"
  /\ \A x \in Factors : pushed[x] = {}
  /\ pc' = "weighed"
  /\ UNCHANGED <<program, split, todo, pending, graph, weight, pushed>>

Next ==
  \/ \E n \in todo : VisitNode(n)
  \/ \E k \in pending : AddNodeConnection(k)
  \/ FinishGraph
  \/ AssignNodeWeights
  \/ AssignCallNumWeights
  \/ AssignArgWeights
  \/ AssignRetValueWeights
  \/ \E x \in Factors : Normalize(x)
  \/ FinishWeights

Spec == Init /\ [][Next]_graphVars

(***************************************************************************)
(* Properties                                                              *)
(***************************************************************************)
NoRepeats(s) == \A j, k \in DOMAIN s : s[j] = s[k] => j = k

(***************************************************************************)
(* An edge has exactly one copy at either end however often it is called,  *)
(* and the graph has every function of the module when the weights are     *)
(* assigned: getFunctionNode does not fail there.                          *)
(***************************************************************************)
EdgesPaired ==
  /\ \A f \in Functions : NoRepeats(outEdges[f]) /\ NoRepeats(inEdges[f])
  /\ \A f, h \in Functions : h \in ToSet(outEdges[f]) <=> f \in ToSet(inEdges[h])
  /\ \A f, h \in Functions : h \in ToSet(outEdges[f]) => {f, h} \subseteq nodes
  /\ pc # "create" => nodes = Functions

(***************************************************************************)
(* Whatever the order of the call sites: a pair without a call in a loop   *)
(* has exactly its number of calls, one with a loop weighs between the     *)
(* cost of a loop and that with all its other calls.                       *)
(***************************************************************************)
Plain(f, h) == Cardinality({k \in callSites(f, h) : ~program.calls[k].inLoop})

CallNumbersBounded ==
  \A e \in DOMAIN weight["CALL_NUM"] :
    LET f == Caller(e)   h == Callee(e)   n == weight["CALL_NUM"][e]
    IN  e[1] = "out" /\ Plain(f, h) < POS_INFINITY =>
          IF Plain(f, h) = Cardinality(callSites(f, h))
          THEN n = Number(Plain(f, h))
          ELSE AtMost(Number(LOOP_COST), n) /\ AtMost(n, Number(LOOP_COST + Plain(f, h)))

(***************************************************************************)
(* Both copies of the call numbers order the calls alike when the weights  *)
(* are done, the callees' ones within [0, 1]; and where every call weighs  *)
(* the same the copies are equal.  Then, and only then, may the gains of   *)
(* KLOptimizationPass count a call at either end.                          *)
(***************************************************************************)
Pairs == {<<Caller(e), Callee(e)>> : e \in DOMAIN weight["CALL_NUM"]}
InCopy(p) == weight["CALL_NUM"][<<"in", p[1], p[2]>>]
OutCopy(p) == weight["CALL_NUM"][<<"out", p[1], p[2]>>]

CopiesCorrespond ==
  pc = "weighed" =>
    /\ \A p, q \in Pairs : Less(InCopy(p), InCopy(q)) <=> Less(OutCopy(p), OutCopy(q))
    /\ \/ \A p \in Pairs : AtMost(Zero, InCopy(p)) /\ AtMost(InCopy(p), Number(1))
       \/ \A p \in Pairs : Equal(InCopy(p), OutCopy(p))
    /\ (\A p, q \in Pairs : Equal(OutCopy(p), OutCopy(q))) =>
         \A p \in Pairs : Equal(InCopy(p), OutCopy(p))

(***************************************************************************)
(* What the integer divisions leave of the levels, however the weights are *)
(* normalized: a related function of level 1 weighs 1, and those of all    *)
(* other levels weigh nothing, the nearest ones, of level 0, included.     *)
(***************************************************************************)
OnlyFirstLevelWeighs ==
  pc = "weighed" =>
    \A f \in DOMAIN split.related :
      Equal(weight["SENSITIVE_RELATED"][NodePlace(f)],
            Number(IF split.related[f] = 1 THEN 1 ELSE 0))
=============================================================================
