--------------------------- MODULE GlobalSetters ---------------------------
(***************************************************************************)
(* PartitionExtractorPass: makes one module of each partition.  A global   *)
(* variable that both partitions reference has a copy in each module, so   *)
(* the pass first instruments the program: after a store to a global it    *)
(* calls a setter function that belongs to the other module and stores the *)
(* same value there.  It then clones the program once per partition and    *)
(* drops what the clone does not use.                                      *)
(*                                                                         *)
(* The last phase is the generated program: stores and setter calls of one *)
(* thread, which enters and leaves the enclave synchronously.              *)
(***************************************************************************)
EXTENDS Integers, Sequences

CONSTANTS
  Functions,   \* functions of the program
  Globals,     \* its global variables
  Nodes,       \* instruction nodes of the PDG
  None,        \* no global, no node
  Programs     \* the programs to consider

(***************************************************************************)
(* A program:                                                              *)
(*   secure     functions of the secure partition; the rest is insecure    *)
(*   globals    the globals the partition of each side was given: those    *)
(*              its functions referenced when the split was computed, which *)
(*              moving functions does not bring up to date, or what a move  *)
(*              of globals made of them; a reference to a global that a     *)
(*              module does not define is taken as a variable of that side  *)
(*   declared   functions without a body                                   *)
(*   calls      <<caller, callee>>                                         *)
(*   order      the functions in the order of the module's list            *)
(*   in         the function of an instruction                             *)
(*   storesTo   the global an instruction writes, None for the others      *)
(*   indirect   stores whose pointer operand is not the global itself but  *)
(*              an address computed from it                                *)
(*   edges      edges of the PDG that are not control edges                *)
(***************************************************************************)
Sides == {"secure", "insecure"}
Other(s) == IF s = "secure" THEN "insecure" ELSE "secure"

OnSide(p, s) == IF s = "secure" THEN p.secure ELSE Functions \ p.secure
SideOf(p, f) == IF f \in p.secure THEN "secure" ELSE "insecure"

IsProgram(p) ==
  /\ p.secure \subseteq Functions
  /\ p.globals \in [Sides -> SUBSET Globals]
  /\ p.declared \subseteq Functions
  /\ p.calls \subseteq (Functions \ p.declared) \X Functions
  /\ p.order \in Seq(Functions)
  /\ \A f \in Functions : \E i \in 1 .. Len(p.order) : p.order[i] = f
  /\ p.in \in [Nodes -> Functions \ p.declared]
  /\ p.storesTo \in [Nodes -> Globals \cup {None}]
  /\ p.indirect \subseteq Nodes
  /\ p.edges \subseteq (Globals \cup Nodes) \X (Globals \cup Nodes)

ASSUME NoneAssumption == None \notin Globals \cup Nodes
ASSUME ProgramsAssumption == \A p \in Programs : IsProgram(p)

VARIABLES
  program,   \* the module under transformation
  phase,     \* where PartitionExtractorPass::runOnModule is
  side,      \* the partition at hand
  todo,      \* its globals still to instrument
  global,    \* the global being instrumented, or None
  worklist,  \* nodes addGlobalSetter has still to visit
  calls,     \* the stores followed by a setter call
  setters,   \* the setters made for stores of a side, in order of creation
  members,   \* the functions of the two partitions
  modules,   \* the extracted modules
  cursor,    \* createModule's iterator over the functions of the clone
  copies,    \* the generated program: last store seen by a side's copy
  pending    \* the store whose setter call is due, or None

instrumenting == <<todo, global, worklist, calls, setters>>
extracting == <<members, modules, cursor>>
executing == <<copies, pending>>
vars == <<program, phase, side, instrumenting, extracting, executing>>

(***************************************************************************)
(* The setter "set_enclave_g" or "set_app_g", named by the side whose      *)
(* stores it forwards.                                                     *)
(***************************************************************************)
Setter(s, g) == <<s, g>>

Elements(seq) == {seq[i] : i \in 1 .. Len(seq)}
SettersFrom(s) == {Setter(s, g) : g \in Elements(setters[s])}

NoModule == [defined |-> {}, functions |-> << >>, globals |-> {}, renamed |-> {}]

Init ==
  /\ program \in Programs
  /\ phase = "setters"
  /\ side = "insecure"
  /\ todo = program.globals["insecure"]
  /\ global = None
  /\ worklist = {}
  /\ calls = {}
  /\ setters = [s \in Sides |-> << >>]
  /\ members = [s \in Sides |-> OnSide(program, s)]
  /\ modules = [s \in Sides |-> NoModule]
  /\ cursor = 1
  /\ copies = [s \in Sides |-> [g \in Globals |-> None]]
  /\ pending = None

(***************************************************************************)
(* GlobalVariableExtractorHelper                                           *)
(***************************************************************************)

\* One turn of instrumentForGlobals; the globals are in a hash set.
InstrumentGlobal(g) ==
  /\ phase = "setters"
  /\ global = None
  /\ g \in todo
  /\ todo' = todo \ {g}
  /\ global' = g
  /\ worklist' = {g}
  /\ UNCHANGED <<program, phase, side, calls, setters, extracting, executing>>

(***************************************************************************)
(* A store gets a setter call when its pointer operand is the global and   *)
(* its function is in the partition.                                       *)
(***************************************************************************)
GetsSetterCall(n) ==
  /\ n \in Nodes \ program.indirect
  /\ program.storesTo[n] = global
  /\ program.in[n] \in members[side]

\* Variant: the search ends at a store.
DataSuccessors_StopsAtStore(n) ==
  {m \in Globals \cup Nodes :
     <<n, m>> \in program.edges /\ (n \in Globals \/ program.storesTo[n] = None)}

DataSuccessors(n) == {m \in Globals \cup Nodes : <<n, m>> \in program.edges}

\* Variant: the node is not taken off the list.
VisitNode_Keeps(n) ==
  /\ phase = "setters"
  /\ n \in worklist
  /\ worklist' = worklist \cup DataSuccessors(n)
  /\ UNCHANGED <<program, phase, side, todo, global, calls, setters, extracting,
                 executing>>

(***************************************************************************)
(* One turn of addGlobalSetter's loop.  There is no set of visited nodes:  *)
(* a node comes back as often as paths lead to it.  The code then repeats  *)
(* the setter call behind a store; calls keeps that there is one.          *)
(***************************************************************************)
VisitNode(n) ==
  /\ phase = "setters"
  /\ n \in worklist
  /\ worklist' = (worklist \ {n}) \cup DataSuccessors(n)
  /\ IF GetsSetterCall(n)
     THEN /\ calls' = calls \cup {n}
          /\ setters' = IF global \in Elements(setters[side]) THEN setters
                        ELSE [setters EXCEPT ![side] = Append(@, global)]
     ELSE UNCHANGED <<calls, setters>>
  /\ UNCHANGED <<program, phase, side, todo, global, extracting, executing>>

FinishGlobal ==
  /\ phase = "setters"
  /\ global # None
  /\ worklist = {}
  /\ global' = None
  /\ UNCHANGED <<program, phase, side, todo, worklist, calls, setters,
                 extracting, executing>>

(***************************************************************************)
(* runOnModule: the setters for the enclave come from the stores of the    *)
(* insecure partition, then those for the application from the secure one. *)
(***************************************************************************)
FinishSetters ==
  /\ phase = "setters"
  /\ global = None
  /\ todo = {}
  /\ side' = "secure"
  /\ IF side = "insecure"
     THEN phase' = phase /\ todo' = program.globals["secure"]
     ELSE phase' = "extract" /\ UNCHANGED todo
  /\ UNCHANGED <<program, global, worklist, calls, setters, extracting, executing>>

(***************************************************************************)
(* PartitionExtractor                                                      *)
(***************************************************************************)

\* The setters follow the program's functions, in order of creation.
AllFunctions ==
  LET Made(s) == [i \in 1 .. Len(setters[s]) |-> Setter(s, setters[s][i])]
  IN  program.order \o Made("insecure") \o Made("secure")

(***************************************************************************)
(* extractPartition: the setters made for this side join its partition;    *)
(* extract() keeps the bodies of the partition's functions, and clones     *)
(* everything else as declarations.  Without any body there is no module.  *)
(***************************************************************************)
NextSide ==
  IF side = "secure" THEN side' = "insecure" /\ phase' = "extract"
  ELSE side' = side /\ phase' = "running"

ExtractPartition ==
  /\ phase = "extract"
  /\ LET joined == members[side] \cup SettersFrom(Other(side))
         bodies == joined \ program.declared
     IN  /\ members' = [members EXCEPT ![side] = joined]
         /\ IF bodies = {}
            THEN NextSide /\ UNCHANGED <<modules, cursor>>
            ELSE /\ modules' = [modules EXCEPT ![side] =
                                  [defined   |-> bodies,
                                   functions |-> AllFunctions,
                                   globals   |-> program.globals[side],
                                   renamed   |-> {}]]
                 /\ phase' = "clean"
                 /\ cursor' = 1
                 /\ UNCHANGED side
  /\ UNCHANGED <<program, instrumenting, executing>>

(***************************************************************************)
(* The functions with a user in a module: call sites are in bodies.        *)
(***************************************************************************)
UsedIn(D) ==
  {f \in Functions : \E c \in D : <<c, f>> \in program.calls} \cup
  {Setter(SideOf(program, program.in[n]), program.storesTo[n]) :
     n \in {m \in calls : program.in[m] \in D}}

WithoutElement(seq, i) == SubSeq(seq, 1, i - 1) \o SubSeq(seq, i + 1, Len(seq))

\* Variant: a declaration goes whether it is used or not.
Droppable_Used(m, f) == f \notin m.defined
Droppable(m, f) == f \notin m.defined \cup UsedIn(m.defined)

(***************************************************************************)
(* One turn of createModule's loop over the clone's functions.  The        *)
(* iterator is advanced before the erasure and once more by the loop, so   *)
(* the function behind an erased one is not looked at; and an iterator     *)
(* that the erasure of the last one left at the end is advanced over it,   *)
(* which in the circular list is the beginning again.                      *)
(***************************************************************************)
CleanFunction ==
  /\ phase = "clean"
  /\ cursor <= Len(modules[side].functions)
  /\ LET m == modules[side]
         last == Len(m.functions)
     IN  IF Droppable(m, m.functions[cursor])
         THEN /\ modules' = [modules EXCEPT ![side].functions =
                               WithoutElement(@, cursor)]
              /\ cursor' = IF cursor = last THEN 1 ELSE cursor + 1
         ELSE cursor' = cursor + 1 /\ UNCHANGED modules
  /\ UNCHANGED <<program, phase, side, instrumenting, members, executing>>

(***************************************************************************)
(* renameInsecureCalls: in the enclave's module the declarations of        *)
(* functions of the insecure partition become "insecure_" and their name,  *)
(* the name of the generated ocall wrapper.                                *)
(***************************************************************************)
Renamed == (Elements(modules["secure"].functions) \ modules["secure"].defined)
             \cap members["insecure"]

FinishModule ==
  /\ phase = "clean"
  /\ cursor > Len(modules[side].functions)
  /\ modules' = IF side = "secure"
                THEN [modules EXCEPT !["secure"].renamed = Renamed]
                ELSE modules
  /\ cursor' = 1
  /\ NextSide
  /\ UNCHANGED <<program, instrumenting, members, executing>>

(***************************************************************************)
(* The generated program                                                   *)
(***************************************************************************)

WriteGlobal(n) ==
  /\ phase = "running"
  /\ pending = None
  /\ program.storesTo[n] # None
  /\ LET s == SideOf(program, program.in[n])
     IN  copies' = [copies EXCEPT ![s][program.storesTo[n]] = n]
  /\ pending' = IF n \in calls THEN n ELSE None
  /\ UNCHANGED <<program, phase, side, instrumenting, extracting>>

\* Variant: the setter runs where the store was.
SetterTarget_Same(s) == s

(***************************************************************************)
(* What addGlobalSetterAfter puts behind a store: load the global again,   *)
(* and call the setter, whose body createGlobalSetterFunction wrote.       *)
(***************************************************************************)
SetterTarget(s) == Other(s)

CallSetter ==
  /\ phase = "running"
  /\ pending # None
  /\ LET s == SideOf(program, program.in[pending])
         g == program.storesTo[pending]
     IN  copies' = [copies EXCEPT ![SetterTarget(s)][g] = copies[s][g]]
  /\ pending' = None
  /\ UNCHANGED <<program, phase, side, instrumenting, extracting>>

Next ==
  \/ \E g \in Globals : InstrumentGlobal(g)
  \/ \E n \in worklist : VisitNode(n)
  \/ FinishGlobal \/ FinishSetters
  \/ ExtractPartition \/ CleanFunction \/ FinishModule
  \/ \E n \in Nodes : WriteGlobal(n)
  \/ CallSetter

Spec == Init /\ [][Next]_vars

(***************************************************************************)
(* The pass is one thread of control that runs to its end.                 *)
(***************************************************************************)
FairSpec == Spec /\ WF_vars(Next)

(***************************************************************************)
(* Properties                                                              *)
(***************************************************************************)
SharedGlobals == program.globals["secure"] \cap program.globals["insecure"]

\* What the data edges lead to from a global.
ReachedFrom(g) ==
  {n \in Nodes : \A S \in SUBSET (Globals \cup Nodes) :
     (g \in S /\ \A e \in program.edges : e[1] \in S => e[2] \in S) => n \in S}

(***************************************************************************)
(* The globals both partitions have, every store to which writes the       *)
(* global itself and is led to by the data edges from it: a store to a     *)
(* part of a global, or one the PDG does not lead to, is not forwarded.    *)
(***************************************************************************)
PlainGlobals ==
  {g \in SharedGlobals : \A n \in Nodes :
     program.storesTo[n] = g => n \notin program.indirect /\ n \in ReachedFrom(g)}

(***************************************************************************)
(* What instrumentForGlobals is for: while no setter call is due, the two  *)
(* copies of a plain global that both modules define hold the same store,  *)
(* on whichever side and in whatever order the stores were made.  A        *)
(* global that only one module defines has no second copy to agree with;   *)
(* the other module refers to one it does not define.                      *)
(***************************************************************************)
CopiesAgree ==
  phase = "running" /\ pending = None =>
    \A g \in PlainGlobals : copies["secure"][g] = copies["insecure"][g]

(***************************************************************************)
(* A setter call is behind a store exactly when the store writes directly  *)
(* one of the globals that getGlobals() returns for the partition of its   *)
(* function, and the data edges lead to it from that global, however many  *)
(* paths and globals lead there.                                           *)
(***************************************************************************)
DirectStores ==
  {n \in Nodes \ program.indirect :
     /\ program.storesTo[n] # None
     /\ program.storesTo[n] \in program.globals[SideOf(program, program.in[n])]
     /\ n \in ReachedFrom(program.storesTo[n])}

StoresForwarded == phase = "extract" => calls = DirectStores

(***************************************************************************)
(* The skipping iterator of createModule never costs a function that is    *)
(* used: everything a body of a module calls is still in that module, and  *)
(* has a body in one of the two modules unless it had none.                *)
(***************************************************************************)
CalleesResolved ==
  phase = "running" =>
    \A s \in Sides : \A f \in UsedIn(modules[s].defined) :
      /\ f \in Elements(modules[s].functions)
      /\ \/ f \in program.declared
         \/ f \in modules["secure"].defined \cup modules["insecure"].defined

(***************************************************************************)
(* Where the data edges have no cycle that a global leads to, the pass     *)
(* comes to its end: two modules, ready to run.                            *)
(***************************************************************************)
Termination == <>(phase = "running")
=============================================================================
