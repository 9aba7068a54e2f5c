---------------------------- MODULE WeighedSplit ----------------------------
(***************************************************************************)
(* What is done with the weighed call graph when the split has been made:  *)
(* ILPOptimization moves functions into the enclave, and                   *)
(* PartitionStatistics reports on both sides.  Starts from CallGraph.      *)
(*                                                                         *)
(* CPLEX is an exact solver of the program the code gives it: any best     *)
(* solution, or a failure.  The variables are 0 or 1; the code leaves them *)
(* continuous, and weights that are not negative make this a minimum cut,  *)
(* whose best values are taken at 0 and 1.                                 *)
(*                                                                         *)
(* The statistics write a tree of JSON of three levels; report is the      *)
(* function from <<partition name, entry>> to what is written there.       *)
(***************************************************************************)
EXTENDS CallGraph

CONSTANTS
  Main,          \* the function main
  Declarations   \* the functions without a body

ASSUME NamesAssumption ==
  /\ Main \in Functions \ Declarations
  /\ Declarations \subseteq Functions
  /\ \A p \in Programs : \A k \in DOMAIN p.calls : p.calls[k].caller \notin Declarations
  /\ \A s \in Splits : s.functions \cap Declarations = {}

VARIABLES
  stage,     \* what is done with the weights next
  secure,    \* functions of the secure partition, all others are insecure
  related,   \* functions of m_relatedFunctions
  moved,     \* m_movedFunctions of ILPOptimization
  solved,    \* whether the solver found a solution
  report     \* the JSON tree

splitVars == <<stage, secure, related, moved, solved, report>>
vars == <<graphVars, splitVars>>

SplitInit ==
  /\ Init
  /\ stage = "weigh"
  /\ secure = split.functions
  /\ related = DOMAIN split.related
  /\ moved = {} /\ solved = FALSE
  /\ report = << >>

Weigh == stage = "weigh" /\ Next /\ UNCHANGED splitVars

StartOptimization ==
  /\ stage = "weigh" /\ pc = "weighed"
  /\ stage' = "ilp"
  /\ UNCHANGED <<graphVars, secure, related, moved, solved, report>>

\* The statistics as a pass of their own: the split is final when it is weighed.
StartStatistics ==
  /\ stage = "weigh" /\ pc = "weighed"
  /\ stage' = "reportSecure"
  /\ UNCHANGED <<graphVars, secure, related, moved, solved, report>>

(***************************************************************************)
(* The integer program                                                     *)
(***************************************************************************)
factor(x, place) == IF place \in DOMAIN weight[x] THEN weight[x][place] ELSE Zero

coef(x) == IF x = "SENSITIVE_RELATED" THEN Number(LOOP_COST) ELSE Number(1)

factorWeight(x, place) == safe_mult(factor(x, place), coef(x))

\* Weight::getValue of an edge on the caller's side, where no other factor is.
edgeCost == [e \in AllOutPlaces |-> factorWeight("CALL_NUM", e)]

nodeCost ==
  [f \in nodes |-> safe_difference(factorWeight("SENSITIVE_RELATED", NodePlace(f)),
                                   factorWeight("SIZE", NodePlace(f)))]

Legal(inside) ==
  /\ secure \subseteq inside
  /\ \A f \in nodes \ secure : f \in Declarations \cup {Main} => f \notin inside

\* Variant: only the calls out of the enclave are cut.
Constraints_OneSided(inside, whole) ==
  /\ Legal(inside)
  /\ \A e \in whole : Caller(e) \in inside => Callee(e) \in inside

(***************************************************************************)
(* createConstraints: an edge is whole only if both its ends are inside or *)
(* both are outside.                                                       *)
(***************************************************************************)
Constraints(inside, whole) ==
  /\ Legal(inside)
  /\ \A e \in whole : Callee(e) \in inside => Caller(e) \in inside
  /\ \A e \in whole : Caller(e) \in inside => Callee(e) \in inside

AnyOf(S) == CHOOSE x \in S : TRUE
Total(cost, S) == MapThenFoldSet(plus, Zero, LAMBDA x : cost[x], AnyOf, S)

Objective(solution) ==
  plus(Total(edgeCost, solution.whole), Total(nodeCost, solution.inside))

Solutions == {s \in [inside : SUBSET nodes, whole : SUBSET AllOutPlaces] :
                Constraints(s.inside, s.whole)}

RunIlp ==
  /\ stage = "ilp"
  /\ LET value == [s \in Solutions |-> Objective(s)]
     IN  \/ \E s \in Solutions :
              /\ \A t \in Solutions : AtMost(value[t], value[s])
              /\ moved' = s.inside /\ solved' = TRUE
         \/ UNCHANGED <<moved, solved>>
  /\ stage' = "applyIlp"
  /\ UNCHANGED <<graphVars, secure, related, report>>

ApplyIlp ==
  /\ stage = "applyIlp"
  /\ secure' = secure \cup moved
  /\ related' = related \ moved
  /\ stage' = "reportSecure"
  /\ UNCHANGED <<graphVars, moved, solved, report>>

(***************************************************************************)
(* Statistics                                                              *)
(***************************************************************************)
InInterface(S) == {h \in S \cap program.hasPDG : \E f \in Functions \ S : callSites(f, h) # {}}

(***************************************************************************)
(* The loops that add up numbers: over the elements of a list, with some   *)
(* of them passed over.                                                    *)
(***************************************************************************)
AddUp(numbers, list, skipped) ==
  FoldLeft(LAMBDA sum, x : IF x \in skipped THEN sum ELSE safe_sum(sum, numbers[x]), Zero, list)

EdgesIn(f) == [k \in DOMAIN inEdges[f] |-> <<"in", inEdges[f][k], f>>]
EdgesOut(f) == [k \in DOMAIN outEdges[f] |-> <<"out", f, outEdges[f][k]>>]
Edges(f) == EdgesIn(f) \o EdgesOut(f)

Other(e) == IF e[1] = "in" THEN Caller(e) ELSE Callee(e)

\* Variant: the calls that come in are counted whoever makes them.
Within_Out(f, S) == {e \in ToSet(EdgesOut(f)) : Callee(e) \in S}

\* The edges passed over, whose other end is in the partition too.
Within(f, S) == {e \in ToSet(Edges(f)) : Other(e) \in S}

AllPlaces == AllInPlaces \cup AllOutPlaces
callNum == [e \in AllPlaces |-> factor("CALL_NUM", e)]
argsPassed == [e \in AllPlaces |-> safe_mult(factor("CALL_NUM", e), factor("ARG_NUM", e))]

getCtxSwitchesInFunction(f, S) == AddUp(callNum, Edges(f), Within(f, S))

getArgNumPassedFromFunction(f, S) == AddUp(argsPassed, Edges(f), Within(f, S))

Sized(S) == MapThenSumSet(LAMBDA f : program.size[f], S)

\* m_moduleSize
moduleSize == Sized(Functions \ Declarations)

Percent(n, m) == Frac(100 * n, m)

(***************************************************************************)
(* report(partition): one key does not have the partition's name in it.    *)
(***************************************************************************)
EntryNames ==
  {"partition_functions", "partition%", "security_related_functions", "security_related%",
   "in_interface", "in_interface%", "context_switches", "TCB", "TCB%", "args_passed"}

EntryPlaces(name) ==
  {<<IF x = "in_interface%" THEN "m_partitionName" ELSE name, x>> : x \in EntryNames}

Entries(name, S, R, switches, args) ==
  [place \in EntryPlaces(name) |->
     CASE place[2] = "partition_functions" -> S
       [] place[2] = "partition%" -> Percent(Cardinality(S), Cardinality(Functions))
       [] place[2] = "security_related_functions" -> R
       [] place[2] = "security_related%" -> Percent(Cardinality(R), Cardinality(Functions))
       [] place[2] = "in_interface" -> InInterface(S)
       [] place[2] = "in_interface%" ->
            Percent(Cardinality(InInterface(S)), Cardinality(Functions))
       [] place[2] = "context_switches" -> switches
       [] place[2] = "TCB" -> Sized(S)
       [] place[2] = "TCB%" -> Percent(Sized(S), moduleSize)
       [] place[2] = "args_passed" -> args]

(***************************************************************************)
(* write_entry of the JSON writer: what is written at a place replaces     *)
(* what was there, which lasts until flush writes it all to the file.      *)
(***************************************************************************)
Written(entries) ==
  [place \in DOMAIN entries \cup DOMAIN report |->
     IF place \in DOMAIN entries THEN entries[place] ELSE report[place]]

(***************************************************************************)
(* reportNumOfContextSwitches and repotArgsPassedAccrossPartition add up   *)
(* over the hash set of the partition, in any order.                       *)
(***************************************************************************)
ReportPartition(name, S, R, order) ==
  LET switches == [f \in S |-> getCtxSwitchesInFunction(f, S)]
      args == [f \in S |-> getArgNumPassedFromFunction(f, S)]
  IN  /\ report' = Written(Entries(name, S, R, AddUp(switches, order, {}), AddUp(args, order, {})))
      /\ UNCHANGED <<graphVars, secure, related, moved, solved>>

ReportSecure ==
  /\ stage = "reportSecure"
  /\ \E order \in SetToSeqs(secure) : ReportPartition("secure", secure, related, order)
  /\ stage' = "reportInsecure"

ReportInsecure ==
  /\ stage = "reportInsecure"
  /\ \E order \in SetToSeqs(Functions \ secure) :
       ReportPartition("insecure", Functions \ secure, {}, order)
  /\ stage' = "done"

SplitNext ==
  \/ Weigh
  \/ StartOptimization \/ StartStatistics
  \/ RunIlp \/ ApplyIlp
  \/ ReportSecure \/ ReportInsecure

SplitSpec == SplitInit /\ [][SplitNext]_vars

(***************************************************************************)
(* Properties                                                              *)
(***************************************************************************)
CrossingPlaces(S) ==
  {e \in AllInPlaces : Callee(e) \in S /\ Caller(e) \notin S}
    \cup {e \in AllOutPlaces : Caller(e) \in S /\ Callee(e) \notin S}

SwitchesOf(name) == report[<<name, "context_switches">>]

Reported(name) == <<name, "context_switches">> \in DOMAIN report

(***************************************************************************)
(* The number of context switches reported for a partition is the weight   *)
(* of its copies of all calls from and to the other one, each counted      *)
(* once, in whatever order the hash set gives its functions; where they    *)
(* reach infinity the sum may stop there, or step over it and be exact.    *)
(***************************************************************************)
SwitchesCounted ==
  \A side \in {<<"secure", secure>>, <<"insecure", Functions \ secure>>} :
    Reported(side[1]) =>
      LET exact == Total(callNum, CrossingPlaces(side[2]))
      IN  \/ Equal(SwitchesOf(side[1]), exact)
          \/ AtMost(Infinity, exact) /\ isPosInfinity(SwitchesOf(side[1]))

(***************************************************************************)
(* What a solved program moves is the cheapest enclave there is: no other  *)
(* set with the sensitive functions in it, and neither main nor a function *)
(* without a body beyond them, has a lower weight of calls across its      *)
(* border (in either direction) less the worth of its functions.           *)
(***************************************************************************)
BorderCost(S) ==
  Total(edgeCost, {e \in AllOutPlaces : (Caller(e) \in S) # (Callee(e) \in S)})

IlpMinimumCut ==
  stage = "applyIlp" /\ solved =>
    /\ secure \subseteq moved
    /\ \A S \in {T \in SUBSET Functions : Legal(T)} :
         AtMost(minus(BorderCost(moved), Total(nodeCost, moved)),
                minus(BorderCost(S), Total(nodeCost, S)))
=============================================================================
