------------------------- MODULE GlobalSettersProofs -------------------------
(***************************************************************************)
(* Proofs about GlobalSetters: for every program and every way of          *)
(* instrumenting it, what a body of an extracted module calls is there; a  *)
(* setter call is behind every direct store reached from its global; and   *)
(* the copies of a global all stores to which are such agree.              *)
(*                                                                         *)
(* The iterator of createModule may skip functions and start over, but     *)
(* what it erases is not used at that moment; and the bodies, which decide *)
(* what is used, do not change any more.                                   *)
(***************************************************************************)
EXTENDS GlobalSetters, SequenceTheorems, TLAPS

Members == Functions \cup (Sides \X Globals)

Modules ==
  [defined : SUBSET Members, functions : Seq(Members),
   globals : SUBSET Globals, renamed : SUBSET Members]

ExtractTypeOK ==
  /\ program \in Programs
  /\ phase \in {"setters", "extract", "clean", "running"}
  /\ side \in Sides
  /\ global \in Globals \cup {None}
  /\ calls \subseteq Nodes
  /\ setters \in [Sides -> Seq(Globals)]
  /\ members \in [Sides -> SUBSET Members]
  /\ modules \in [Sides -> Modules]
  /\ cursor \in Nat \ {0}

(***************************************************************************)
(* A store that is followed by a setter call has a setter, of its side.    *)
(***************************************************************************)
CallsHaveSetters ==
  \A n \in calls :
    /\ program.storesTo[n] \in Globals
    /\ program.storesTo[n] \in Elements(setters[SideOf(program, program.in[n])])

\* The sides the module of which is made, or being cleaned.
Extracted(s) ==
  \/ phase = "running"
  \/ phase = "clean" /\ s = side
  \/ phase \in {"extract", "clean"} /\ s = "secure" /\ side = "insecure"

(***************************************************************************)
(* A partition before its extraction, and its module from then on.         *)
(***************************************************************************)
ModuleOK(s) ==
  IF Extracted(s)
  THEN /\ members[s] = OnSide(program, s) \cup SettersFrom(Other(s))
       /\ modules[s].defined = members[s] \ program.declared
       /\ UsedIn(modules[s].defined) \subseteq Elements(modules[s].functions)
  ELSE members[s] = OnSide(program, s) /\ modules[s].defined = {}

\* Nodes are only waiting while a global is being instrumented.
WorklistOK == global = None => worklist = {}

ExtractInv ==
  ExtractTypeOK /\ CallsHaveSetters /\ WorklistOK /\ \A s \in Sides : ModuleOK(s)

LEMMA ProgramTypes ==
  ASSUME program \in Programs
  PROVE  /\ IsProgram(program)
         /\ \A f \in Functions : f \in OnSide(program, SideOf(program, f))
         /\ \A s \in Sides : \A f \in OnSide(program, s) :
              f \in Functions /\ SideOf(program, f) = s
         /\ \A f : SideOf(program, f) \in Sides
<1>1. IsProgram(program)
  BY ProgramsAssumption
<1>2. QED BY <1>1 DEF IsProgram, OnSide, SideOf, Sides

LEMMA OtherSide == \A s \in Sides : Other(s) \in Sides /\ Other(s) # s /\ Other(Other(s)) = s
BY DEF Sides, Other

LEMMA ElementsOfSeq ==
  ASSUME NEW S, NEW q \in Seq(S)
  PROVE  Elements(q) \subseteq S /\ \A i \in 1 .. Len(q) : q[i] \in Elements(q)
BY DEF Elements

LEMMA ElementsOfAppend ==
  ASSUME NEW S, NEW q \in Seq(S), NEW e \in S
  PROVE  Elements(Append(q, e)) = Elements(q) \cup {e}
<1>1. /\ Len(Append(q, e)) = Len(q) + 1 /\ Len(q) \in Nat
      /\ \A i \in 1 .. Len(q) : Append(q, e)[i] = q[i]
      /\ Append(q, e)[Len(q) + 1] = e
  OBVIOUS
<1>2. \A i : i \in 1 .. Len(q) + 1 <=> i \in 1 .. Len(q) \/ i = Len(q) + 1
  BY <1>1
<1>3. QED BY <1>1, <1>2 DEF Elements

LEMMA ElementsOfConcat ==
  ASSUME NEW S, NEW q \in Seq(S), NEW r \in Seq(S)
  PROVE  Elements(q) \cup Elements(r) \subseteq Elements(q \o r)
<1>1. ASSUME NEW i \in 1 .. Len(q) PROVE q[i] \in Elements(q \o r)
  <2>1. i \in 1 .. Len(q \o r) /\ (q \o r)[i] = q[i]
    OBVIOUS
  <2>2. QED BY <2>1 DEF Elements
<1>2. ASSUME NEW i \in 1 .. Len(r) PROVE r[i] \in Elements(q \o r)
  <2>1. Len(q) + i \in 1 .. Len(q \o r) /\ (q \o r)[Len(q) + i] = r[i]
    OBVIOUS
  <2>2. QED BY <2>1 DEF Elements
<1>3. QED BY <1>1, <1>2 DEF Elements

(***************************************************************************)
(* Erasing one place of a list costs at most the function at that place.   *)
(***************************************************************************)
LEMMA ElementsOfWithout ==
  ASSUME NEW S, NEW q \in Seq(S), NEW i \in 1 .. Len(q)
  PROVE  /\ WithoutElement(q, i) \in Seq(S)
         /\ Elements(q) \ {q[i]} \subseteq Elements(WithoutElement(q, i))
<1> DEFINE a == SubSeq(q, 1, i - 1)
           b == SubSeq(q, i + 1, Len(q))
<1>1. /\ a \in Seq(S) /\ Len(a) = i - 1
      /\ \A k \in 1 .. i - 1 : a[k] = q[k]
  OBVIOUS
<1>2. /\ b \in Seq(S) /\ Len(b) = Len(q) - i
      /\ \A k \in 1 .. Len(q) - i : b[k] = q[i + k]
  OBVIOUS
<1> HIDE DEF a, b
<1>3. WithoutElement(q, i) = a \o b
  BY DEF WithoutElement, a, b
<1>4. ASSUME NEW k \in 1 .. Len(q), k # i
      PROVE  q[k] \in Elements(a) \cup Elements(b)
  <2>1. CASE k < i
    <3>1. k \in 1 .. i - 1
      BY <2>1
    <3>2. QED BY <1>1, <3>1 DEF Elements
  <2>2. CASE k > i
    <3>1. k - i \in 1 .. Len(q) - i /\ i + (k - i) = k
      BY <2>2
    <3>2. QED BY <1>2, <3>1 DEF Elements
  <2>3. QED BY <1>4, <2>1, <2>2
<1>5. a \o b \in Seq(S) /\ Elements(a) \cup Elements(b) \subseteq Elements(a \o b)
  BY <1>1, <1>2, ElementsOfConcat
<1>6. ASSUME NEW e \in Elements(q), e # q[i] PROVE e \in Elements(a \o b)
  <2>1. PICK k \in 1 .. Len(q) : e = q[k]
    BY <1>6 DEF Elements
  <2>2. QED BY <1>4, <1>5, <1>6, <2>1
<1>7. QED BY <1>3, <1>5, <1>6

(***************************************************************************)
(* The bodies of the program and of the setters that are used.             *)
(***************************************************************************)
LEMMA UsedTypes ==
  ASSUME ExtractInv, NEW D, NEW f \in UsedIn(D)
  PROVE  \/ f \in Functions
         \/ \E s \in Sides : f \in SettersFrom(s)
<1>1. CASE f \in Functions
  BY <1>1
<1>2. CASE f \notin Functions
  <2>1. PICK n \in calls : f = Setter(SideOf(program, program.in[n]), program.storesTo[n])
    BY <1>2 DEF UsedIn
  <2>2. SideOf(program, program.in[n]) \in Sides
    BY ProgramTypes DEF ExtractInv, ExtractTypeOK
  <2>3. f \in SettersFrom(SideOf(program, program.in[n]))
    BY <2>1 DEF ExtractInv, CallsHaveSetters, SettersFrom
  <2>4. QED BY <2>2, <2>3
<1>3. QED BY <1>1, <1>2

(***************************************************************************)
(* A clone starts with every function of the program and every setter.     *)
(***************************************************************************)
LEMMA AllFunctionsComplete ==
  ASSUME ExtractInv
  PROVE  /\ AllFunctions \in Seq(Members)
         /\ Functions \subseteq Elements(AllFunctions)
         /\ \A s \in Sides : SettersFrom(s) \subseteq Elements(AllFunctions)
<1> DEFINE Made(s) == [i \in 1 .. Len(setters[s]) |-> Setter(s, setters[s][i])]
<1>1. ASSUME NEW s \in Sides
      PROVE  Made(s) \in Seq(Members) /\ SettersFrom(s) \subseteq Elements(Made(s))
  <2>1. setters[s] \in Seq(Globals)
    BY <1>1 DEF ExtractInv, ExtractTypeOK
  <2>2. \A i \in 1 .. Len(setters[s]) : Setter(s, setters[s][i]) \in Members
    BY <1>1, <2>1 DEF Members, Setter
  <2>3. Made(s) \in Seq(Members)
    BY <2>1, <2>2
  <2>4. Len(Made(s)) = Len(setters[s])
    BY <2>1
  <2>5. QED BY <2>3, <2>4 DEF SettersFrom, Elements
<1> HIDE DEF Made
<1>2. /\ program.order \in Seq(Members) /\ Functions \subseteq Elements(program.order)
  <2>1. /\ program.order \in Seq(Functions)
        /\ \A f \in Functions : \E i \in 1 .. Len(program.order) : program.order[i] = f
    BY ProgramTypes DEF ExtractInv, ExtractTypeOK, IsProgram
  <2>2. program.order \in Seq(Members)
    BY <2>1 DEF Members
  <2>3. QED BY <2>1, <2>2 DEF Elements
<1>3. AllFunctions = program.order \o Made("insecure") \o Made("secure")
  BY DEF AllFunctions, Made
<1>4. Made("insecure") \in Seq(Members) /\ Made("secure") \in Seq(Members)
  BY <1>1 DEF Sides
<1> DEFINE front == program.order \o Made("insecure")
<1>5. /\ front \in Seq(Members)
      /\ Elements(program.order) \cup Elements(Made("insecure")) \subseteq Elements(front)
  BY <1>2, <1>4, ElementsOfConcat
<1>6. /\ AllFunctions = front \o Made("secure")
      /\ AllFunctions \in Seq(Members)
  BY <1>3, <1>4, <1>5
<1> HIDE DEF front
<1>7. Elements(front) \cup Elements(Made("secure")) \subseteq Elements(AllFunctions)
  BY <1>4, <1>5, <1>6, ElementsOfConcat
<1>8. QED BY <1>1, <1>2, <1>5, <1>6, <1>7 DEF Sides

LEMMA ExtractInvInit == Init => ExtractInv
<1> SUFFICES ASSUME Init PROVE ExtractInv
  OBVIOUS
<1>1. IsProgram(program)
  BY ProgramsAssumption DEF Init
<1>2. ExtractTypeOK
  <2>1. \A s \in Sides : OnSide(program, s) \subseteq Members
    BY <1>1 DEF IsProgram, OnSide, Members
  <2>2. NoModule \in Modules /\ << >> \in Seq(Globals)
    BY DEF NoModule, Modules
  <2>3. QED BY <2>1, <2>2 DEF Init, ExtractTypeOK, Sides
<1>3. \A s \in Sides : ModuleOK(s)
  BY DEF Init, ModuleOK, Extracted, NoModule
<1>4. CallsHaveSetters
  BY DEF Init, CallsHaveSetters
<1>5. WorklistOK
  BY DEF Init, WorklistOK
<1>6. QED BY <1>2, <1>3, <1>4, <1>5 DEF ExtractInv

(***************************************************************************)
(* A step of the instrumentation: no module is made yet.                   *)
(***************************************************************************)
LEMMA InstrumentingKeeps ==
  ASSUME ExtractInv, phase = "setters",
         UNCHANGED <<program, members, modules, cursor>>,
         phase' = "setters" \/ (phase' = "extract" /\ side' = "secure")
  PROVE  \A s \in Sides : ModuleOK(s)'
<1>1. \A s \in Sides : ~Extracted(s) /\ ~Extracted(s)'
  BY DEF Extracted, ExtractInv, ExtractTypeOK, Sides
<1>2. QED BY <1>1 DEF ExtractInv, ModuleOK, OnSide

LEMMA VisitNodeKeeps ==
  ASSUME ExtractInv, NEW n, VisitNode(n)
  PROVE  ExtractInv'
<1>1. /\ phase = "setters" /\ phase' = "setters" /\ UNCHANGED <<side, global>>
      /\ UNCHANGED <<program, members, modules, cursor>>
  BY DEF VisitNode, extracting, executing
<1>2. WorklistOK'
  BY <1>1 DEF VisitNode, ExtractInv, WorklistOK
<1>3. \A s \in Sides : ModuleOK(s)'
  BY <1>1, InstrumentingKeeps
<1>4. CASE GetsSetterCall(n)
  <2>1. /\ calls' = calls \cup {n}
        /\ setters' = IF global \in Elements(setters[side]) THEN setters
                      ELSE [setters EXCEPT ![side] = Append(@, global)]
    BY <1>4 DEF VisitNode
  <2>2. n \in Nodes /\ program.storesTo[n] = global /\ program.in[n] \in members[side]
    BY <1>4 DEF GetsSetterCall
  <2>3. /\ side \in Sides /\ members[side] = OnSide(program, side)
    BY <1>1 DEF ExtractInv, ExtractTypeOK, ModuleOK, Extracted
  <2>4. SideOf(program, program.in[n]) = side
    BY <2>2, <2>3, ProgramTypes DEF ExtractInv, ExtractTypeOK
  <2>5. global \in Globals
    BY DEF VisitNode, ExtractInv, ExtractTypeOK, WorklistOK
  <2>6. setters[side] \in Seq(Globals)
    BY <2>3 DEF ExtractInv, ExtractTypeOK
  <2>7. setters' \in [Sides -> Seq(Globals)]
    BY <2>1, <2>3, <2>5, <2>6 DEF ExtractInv, ExtractTypeOK
  <2>8. /\ global \in Elements(setters'[side])
        /\ \A s \in Sides : Elements(setters[s]) \subseteq Elements(setters'[s])
    <3>1. CASE global \in Elements(setters[side])
      BY <2>1, <3>1
    <3>2. CASE global \notin Elements(setters[side])
      <4>1. \A s \in Sides : setters'[s] = IF s = side THEN Append(setters[side], global)
                                                       ELSE setters[s]
        BY <2>1, <2>3, <3>2 DEF ExtractInv, ExtractTypeOK
      <4>2. Elements(Append(setters[side], global)) = Elements(setters[side]) \cup {global}
        BY <2>5, <2>6, ElementsOfAppend
      <4>3. QED BY <2>3, <4>1, <4>2
    <3>3. QED BY <3>1, <3>2
  <2>9. ExtractTypeOK'
    BY <1>1, <2>1, <2>2, <2>7 DEF ExtractInv, ExtractTypeOK
  <2>10. CallsHaveSetters'
    <3> SUFFICES ASSUME NEW m \in calls'
                 PROVE  /\ program.storesTo[m] \in Globals
                        /\ program.storesTo[m] \in
                             Elements(setters'[SideOf(program, program.in[m])])
      BY <1>1 DEF CallsHaveSetters, SideOf, Elements
    <3>1. SideOf(program, program.in[m]) \in Sides
      BY ProgramTypes DEF ExtractInv, ExtractTypeOK
    <3>2. CASE m \in calls
      BY <2>8, <3>1, <3>2 DEF ExtractInv, CallsHaveSetters
    <3>3. CASE m = n
      BY <2>2, <2>4, <2>5, <2>8, <3>3
    <3>4. QED BY <2>1, <3>2, <3>3
  <2>11. QED BY <1>2, <1>3, <2>9, <2>10 DEF ExtractInv
<1>5. CASE ~GetsSetterCall(n)
  <2>1. UNCHANGED <<calls, setters>>
    BY <1>5 DEF VisitNode
  <2>2. ExtractTypeOK' /\ CallsHaveSetters'
    BY <1>1, <2>1 DEF ExtractInv, ExtractTypeOK, CallsHaveSetters, Elements
  <2>3. QED BY <1>2, <1>3, <2>2 DEF ExtractInv
<1>6. QED BY <1>4, <1>5

LEMMA SetterStepsKeep ==
  ASSUME ExtractInv,
         \/ \E g \in Globals : InstrumentGlobal(g)
         \/ FinishGlobal
         \/ FinishSetters
  PROVE  ExtractInv'
<1>1. CASE \E g \in Globals : InstrumentGlobal(g)
  <2>1. /\ phase = "setters" /\ phase' = "setters" /\ UNCHANGED <<side, calls, setters>>
        /\ UNCHANGED <<program, members, modules, cursor>>
        /\ global' \in Globals
    BY <1>1 DEF InstrumentGlobal, extracting, executing
  <2>2. ExtractTypeOK' /\ CallsHaveSetters' /\ WorklistOK'
    BY <2>1, NoneAssumption
    DEF ExtractInv, ExtractTypeOK, CallsHaveSetters, Elements, SideOf, WorklistOK
  <2>3. \A s \in Sides : ModuleOK(s)'
    BY <2>1, InstrumentingKeeps
  <2>4. QED BY <2>2, <2>3 DEF ExtractInv
<1>2. CASE FinishGlobal
  <2>1. /\ phase = "setters" /\ phase' = "setters" /\ UNCHANGED <<side, calls, setters>>
        /\ UNCHANGED <<program, members, modules, cursor>>
        /\ global' = None /\ worklist' = {}
    BY <1>2 DEF FinishGlobal, extracting, executing
  <2>2. ExtractTypeOK' /\ CallsHaveSetters' /\ WorklistOK'
    BY <2>1 DEF ExtractInv, ExtractTypeOK, CallsHaveSetters, Elements, SideOf, WorklistOK
  <2>3. \A s \in Sides : ModuleOK(s)'
    BY <2>1, InstrumentingKeeps
  <2>4. QED BY <2>2, <2>3 DEF ExtractInv
<1>3. CASE FinishSetters
  <2>1. /\ phase = "setters" /\ phase' \in {"setters", "extract"} /\ side' = "secure"
        /\ UNCHANGED <<calls, setters, global, worklist>>
        /\ UNCHANGED <<program, members, modules, cursor>>
    BY <1>3 DEF FinishSetters, extracting, executing
  <2>2. ExtractTypeOK' /\ CallsHaveSetters' /\ WorklistOK'
    BY <2>1
    DEF ExtractInv, ExtractTypeOK, CallsHaveSetters, Elements, SideOf, WorklistOK, Sides
  <2>3. phase' = "setters" \/ (phase' = "extract" /\ side' = "secure")
    BY <2>1
  <2>4. QED BY <2>1, <2>2, <2>3, InstrumentingKeeps DEF ExtractInv
<1>4. QED BY <1>1, <1>2, <1>3

(***************************************************************************)
(* The steps after the instrumentation leave its results alone.            *)
(***************************************************************************)
LEMMA SettersStay ==
  ASSUME CallsHaveSetters, WorklistOK, UNCHANGED <<program, instrumenting>>
  PROVE  /\ CallsHaveSetters' /\ WorklistOK'
         /\ \A s : SettersFrom(s)' = SettersFrom(s)
         /\ \A s : OnSide(program, s)' = OnSide(program, s)
         /\ \A D : UsedIn(D)' = UsedIn(D)
<1>1. UNCHANGED <<program, todo, global, worklist, calls, setters>>
  BY DEF instrumenting
<1>2. QED
  BY <1>1 DEF CallsHaveSetters, WorklistOK, SettersFrom, Elements, SideOf, OnSide, UsedIn

(***************************************************************************)
(* Which modules are made when the next partition's turn comes.            *)
(***************************************************************************)
LEMMA NextSideMakes ==
  ASSUME side \in Sides, phase \in {"extract", "clean"}, NextSide
  PROVE  /\ side' \in Sides /\ phase' \in {"extract", "running"}
         /\ \A s \in Sides : Extracted(s)' <=> Extracted(s) \/ s = side
BY DEF NextSide, Extracted, Sides

LEMMA ExtractPartitionKeeps ==
  ASSUME ExtractInv, ExtractPartition
  PROVE  ExtractInv'
<1> DEFINE joined == members[side] \cup SettersFrom(Other(side))
           bodies == joined \ program.declared
<1>1. /\ phase = "extract" /\ members' = [members EXCEPT ![side] = joined]
      /\ UNCHANGED <<program, instrumenting>>
  BY DEF ExtractPartition
<1>2. UNCHANGED <<global, calls, setters>> /\ side \in Sides /\ Other(side) \in Sides
  BY <1>1, OtherSide DEF instrumenting, ExtractInv, ExtractTypeOK
<1>3. /\ CallsHaveSetters' /\ WorklistOK'
      /\ \A s : SettersFrom(s)' = SettersFrom(s)
      /\ \A s : OnSide(program, s)' = OnSide(program, s)
      /\ \A D : UsedIn(D)' = UsedIn(D)
  BY <1>1, SettersStay DEF ExtractInv
<1>4. ~Extracted(side)
  BY <1>1 DEF Extracted, Sides, ExtractInv, ExtractTypeOK
<1>5. members[side] = OnSide(program, side) /\ modules[side].defined = {}
  BY <1>2, <1>4 DEF ExtractInv, ModuleOK
<1>6. joined \subseteq Members
  <2>1. members[side] \subseteq Members
    BY <1>2 DEF ExtractInv, ExtractTypeOK
  <2>2. setters[Other(side)] \in Seq(Globals)
    BY <1>2 DEF ExtractInv, ExtractTypeOK
  <2>3. SettersFrom(Other(side)) \subseteq Members
    BY <1>2, <2>2, ElementsOfSeq DEF SettersFrom, Setter, Members
  <2>4. QED BY <2>1, <2>3
<1> HIDE DEF joined
<1>7. /\ members' \in [Sides -> SUBSET Members]
      /\ members'[side] = joined
      /\ \A s \in Sides : s # side => members'[s] = members[s]
  BY <1>1, <1>2, <1>6 DEF ExtractInv, ExtractTypeOK
<1>8. joined = OnSide(program, side) \cup SettersFrom(Other(side))
  BY <1>5 DEF joined
<1>9. CASE bodies = {}
  <2>1. NextSide /\ UNCHANGED <<modules, cursor>>
    BY <1>9 DEF ExtractPartition, joined
  <2>2. /\ side' \in Sides /\ phase' \in {"extract", "running"}
        /\ \A s \in Sides : Extracted(s)' <=> Extracted(s) \/ s = side
    BY <1>1, <1>2, <2>1, NextSideMakes
  <2>3. ExtractTypeOK'
    BY <1>1, <1>2, <1>7, <2>1, <2>2 DEF ExtractInv, ExtractTypeOK
  <2>4. ASSUME NEW s \in Sides PROVE ModuleOK(s)'
    <3>1. CASE s = side
      <4>1. modules'[s].defined = {} /\ joined \ program.declared = {}
        BY <1>5, <1>9, <2>1, <3>1
      <4>2. UsedIn({}) = {}
        BY ProgramTypes DEF ExtractInv, ExtractTypeOK, UsedIn, IsProgram
      <4>3. QED BY <1>1, <1>3, <1>7, <1>8, <2>2, <3>1, <4>1, <4>2 DEF ModuleOK
    <3>2. CASE s # side
      BY <1>1, <1>3, <1>7, <2>1, <2>2, <3>2 DEF ExtractInv, ModuleOK
    <3>3. QED BY <3>1, <3>2
  <2>5. QED BY <1>3, <2>3, <2>4 DEF ExtractInv
<1>10. CASE bodies # {}
  <2> DEFINE m == [defined |-> bodies, functions |-> AllFunctions,
                   globals |-> program.globals[side], renamed |-> {}]
  <2>1. /\ modules' = [modules EXCEPT ![side] = m]
        /\ phase' = "clean" /\ cursor' = 1 /\ side' = side
    BY <1>10 DEF ExtractPartition, joined
  <2>2. /\ AllFunctions \in Seq(Members)
        /\ Functions \subseteq Elements(AllFunctions)
        /\ \A s \in Sides : SettersFrom(s) \subseteq Elements(AllFunctions)
    BY AllFunctionsComplete
  <2>3. m \in Modules
    <3>1. program.globals[side] \subseteq Globals
      BY <1>2, ProgramTypes DEF ExtractInv, ExtractTypeOK, IsProgram
    <3>2. QED BY <1>6, <2>2, <3>1 DEF Modules
  <2>4. UsedIn(bodies) \subseteq Elements(AllFunctions)
    BY <2>2, UsedTypes
  <2> HIDE DEF m
  <2>5. /\ modules' \in [Sides -> Modules] /\ modules'[side] = m
        /\ \A s \in Sides : s # side => modules'[s] = modules[s]
    BY <1>2, <2>1, <2>3 DEF ExtractInv, ExtractTypeOK
  <2>6. ExtractTypeOK'
    BY <1>1, <1>2, <1>7, <2>1, <2>5 DEF ExtractInv, ExtractTypeOK
  <2>7. \A s \in Sides : Extracted(s)' <=> Extracted(s) \/ s = side
    BY <1>1, <2>1 DEF Extracted, Sides
  <2>8. ASSUME NEW s \in Sides PROVE ModuleOK(s)'
    <3>1. CASE s = side
      <4>1. m.defined = bodies /\ m.functions = AllFunctions
        BY DEF m
      <4>2. Elements(modules[s].functions)' = Elements(AllFunctions)
        BY <2>5, <3>1, <4>1 DEF Elements
      <4>3. QED
        BY <1>1, <1>3, <1>7, <1>8, <2>4, <2>5, <2>7, <3>1, <4>1, <4>2 DEF ModuleOK
    <3>2. CASE s # side
      BY <1>1, <1>3, <1>7, <2>5, <2>7, <3>2 DEF ExtractInv, ModuleOK, Elements
    <3>3. QED BY <3>1, <3>2
  <2>9. QED BY <1>3, <2>6, <2>8 DEF ExtractInv
<1>11. QED BY <1>9, <1>10

(***************************************************************************)
(* One turn of the cleaning loop, wherever the iterator has got to: what   *)
(* it erases is not used by the module's bodies.                           *)
(***************************************************************************)
LEMMA CleanFunctionKeeps ==
  ASSUME ExtractInv, CleanFunction
  PROVE  ExtractInv'
<1> DEFINE m == modules[side]
<1>1. /\ phase = "clean" /\ cursor <= Len(m.functions)
      /\ UNCHANGED <<program, instrumenting>> /\ UNCHANGED <<phase, side, members>>
  BY DEF CleanFunction
<1>2. /\ CallsHaveSetters' /\ WorklistOK'
      /\ \A s : SettersFrom(s)' = SettersFrom(s)
      /\ \A s : OnSide(program, s)' = OnSide(program, s)
      /\ \A D : UsedIn(D)' = UsedIn(D)
  BY <1>1, SettersStay DEF ExtractInv
<1>3. /\ side \in Sides /\ m \in Modules /\ m.functions \in Seq(Members)
      /\ cursor \in 1 .. Len(m.functions)
      /\ UNCHANGED <<global, calls, setters>>
  BY <1>1 DEF ExtractInv, ExtractTypeOK, Modules, instrumenting
<1>4. UsedIn(m.defined) \subseteq Elements(m.functions)
  BY <1>1, <1>3 DEF ExtractInv, ModuleOK, Extracted
<1>5. \A s \in Sides : Extracted(s)' <=> Extracted(s)
  BY <1>1 DEF Extracted
<1>6. CASE Droppable(m, m.functions[cursor])
  <2> DEFINE rest == WithoutElement(m.functions, cursor)
  <2>1. /\ modules' = [modules EXCEPT ![side].functions = rest]
        /\ cursor' \in {1, cursor + 1}
    BY <1>6 DEF CleanFunction
  <2>2. /\ rest \in Seq(Members)
        /\ Elements(m.functions) \ {m.functions[cursor]} \subseteq Elements(rest)
    BY <1>3, ElementsOfWithout
  <2>3. UsedIn(m.defined) \subseteq Elements(rest)
    BY <1>4, <1>6, <2>2 DEF Droppable
  <2> HIDE DEF rest
  <2>4. /\ modules' \in [Sides -> Modules]
        /\ modules'[side].functions = rest /\ modules'[side].defined = m.defined
        /\ \A s \in Sides : s # side => modules'[s] = modules[s]
    <3>1. [m EXCEPT !.functions = rest] \in Modules
      BY <1>3, <2>2 DEF Modules
    <3>2. modules' = [modules EXCEPT ![side] = [m EXCEPT !.functions = rest]]
      BY <2>1
    <3>3. /\ [m EXCEPT !.functions = rest].functions = rest
          /\ [m EXCEPT !.functions = rest].defined = m.defined
      BY <1>3 DEF Modules
    <3>4. /\ modules' \in [Sides -> Modules]
          /\ modules'[side] = [m EXCEPT !.functions = rest]
          /\ \A s \in Sides : s # side => modules'[s] = modules[s]
      BY <1>3, <3>1, <3>2 DEF ExtractInv, ExtractTypeOK
    <3>5. QED BY <3>3, <3>4
  <2>5. ExtractTypeOK'
    BY <1>1, <1>3, <2>1, <2>4 DEF ExtractInv, ExtractTypeOK
  <2>6. ASSUME NEW s \in Sides PROVE ModuleOK(s)'
    <3>1. CASE s = side
      <4>1. Extracted(side) /\ ModuleOK(side)
        BY <1>1, <1>3 DEF Extracted, ExtractInv
      <4>2. Elements(modules[s].functions)' = Elements(rest)
        BY <2>4, <3>1 DEF Elements
      <4>3. QED BY <1>1, <1>2, <1>5, <2>3, <2>4, <3>1, <4>1, <4>2 DEF ModuleOK
    <3>2. CASE s # side
      <4>1. Elements(modules[s].functions)' = Elements(modules[s].functions)
        BY <2>4, <3>2 DEF Elements
      <4>2. modules'[s].defined = modules[s].defined /\ members'[s] = members[s]
        BY <1>1, <2>4, <3>2
      <4>3. ModuleOK(s)
        BY DEF ExtractInv
      <4>4. QED BY <1>1, <1>2, <1>5, <4>1, <4>2, <4>3 DEF ModuleOK
    <3>3. QED BY <3>1, <3>2
  <2>7. QED BY <1>2, <2>5, <2>6 DEF ExtractInv
<1>7. CASE ~Droppable(m, m.functions[cursor])
  <2>1. cursor' = cursor + 1 /\ UNCHANGED modules
    BY <1>7 DEF CleanFunction
  <2>2. ExtractTypeOK'
    BY <1>1, <1>3, <2>1 DEF ExtractInv, ExtractTypeOK
  <2>3. \A s \in Sides : ModuleOK(s)'
    BY <1>1, <1>2, <1>5, <2>1 DEF ExtractInv, ModuleOK, Elements
  <2>4. QED BY <1>2, <2>2, <2>3 DEF ExtractInv
<1>8. QED BY <1>6, <1>7

LEMMA FinishModuleKeeps ==
  ASSUME ExtractInv, FinishModule
  PROVE  ExtractInv'
<1>1. /\ phase = "clean" /\ NextSide /\ cursor' = 1
      /\ UNCHANGED <<program, instrumenting>> /\ UNCHANGED members
      /\ modules' = IF side = "secure"
                    THEN [modules EXCEPT !["secure"].renamed = Renamed]
                    ELSE modules
  BY DEF FinishModule
<1>2. /\ CallsHaveSetters' /\ WorklistOK'
      /\ \A s : SettersFrom(s)' = SettersFrom(s)
      /\ \A s : OnSide(program, s)' = OnSide(program, s)
      /\ \A D : UsedIn(D)' = UsedIn(D)
  BY <1>1, SettersStay DEF ExtractInv
<1>3. side \in Sides /\ UNCHANGED <<global, calls, setters>>
  BY <1>1 DEF ExtractInv, ExtractTypeOK, instrumenting
<1>4. /\ side' \in Sides /\ phase' \in {"extract", "running"}
      /\ \A s \in Sides : Extracted(s)' <=> Extracted(s) \/ s = side
  BY <1>1, <1>3, NextSideMakes
<1>5. Extracted(side)
  BY <1>1 DEF Extracted
<1>6. /\ modules' \in [Sides -> Modules]
      /\ \A s \in Sides : /\ modules'[s].defined = modules[s].defined
                         /\ modules'[s].functions = modules[s].functions
  <2>1. CASE side = "secure"
    <3> DEFINE m == modules["secure"]
               new == [m EXCEPT !.renamed = Renamed]
    <3>1. "secure" \in Sides /\ modules \in [Sides -> Modules]
          /\ members \in [Sides -> SUBSET Members] /\ "insecure" \in Sides
      BY DEF ExtractInv, ExtractTypeOK, Sides
    <3>2. m \in Modules /\ Renamed \subseteq Members
      BY <3>1 DEF Renamed
    <3>3. /\ new \in Modules /\ new.defined = m.defined /\ new.functions = m.functions
      BY <3>2 DEF Modules
    <3>4. modules' = [modules EXCEPT !["secure"] = new]
      BY <1>1, <2>1
    <3> HIDE DEF new
    <3>5. QED BY <3>1, <3>2, <3>3, <3>4
  <2>2. CASE side # "secure"
    BY <1>1, <2>2 DEF ExtractInv, ExtractTypeOK
  <2>3. QED BY <2>1, <2>2
<1>7. ExtractTypeOK'
  BY <1>1, <1>3, <1>4, <1>6 DEF ExtractInv, ExtractTypeOK
<1>8. \A s \in Sides : ModuleOK(s)'
  BY <1>1, <1>2, <1>4, <1>5, <1>6 DEF ExtractInv, ModuleOK, Elements
<1>9. QED BY <1>2, <1>7, <1>8 DEF ExtractInv

LEMMA ExtractInvStep == ExtractInv /\ [Next]_vars => ExtractInv'
<1> SUFFICES ASSUME ExtractInv, [Next]_vars PROVE ExtractInv'
  OBVIOUS
<1>1. CASE \/ \E g \in Globals : InstrumentGlobal(g)
           \/ FinishGlobal
           \/ FinishSetters
  BY <1>1, SetterStepsKeep
<1>2. ASSUME NEW n \in worklist, VisitNode(n) PROVE ExtractInv'
  BY <1>2, VisitNodeKeeps
<1>3. CASE ExtractPartition
  BY <1>3, ExtractPartitionKeeps
<1>4. CASE CleanFunction
  BY <1>4, CleanFunctionKeeps
<1>5. CASE FinishModule
  BY <1>5, FinishModuleKeeps
<1>6. CASE \/ \E n \in Nodes : WriteGlobal(n)
           \/ CallSetter
           \/ UNCHANGED vars
  <2>1. /\ UNCHANGED <<program, instrumenting>>
        /\ UNCHANGED <<phase, side, members, modules, cursor>>
    BY <1>6 DEF WriteGlobal, CallSetter, vars, extracting
  <2>2. /\ CallsHaveSetters' /\ WorklistOK'
        /\ \A s : SettersFrom(s)' = SettersFrom(s)
        /\ \A s : OnSide(program, s)' = OnSide(program, s)
        /\ \A D : UsedIn(D)' = UsedIn(D)
    BY <2>1, SettersStay DEF ExtractInv
  <2>3. ExtractTypeOK'
    BY <2>1 DEF ExtractInv, ExtractTypeOK, instrumenting
  <2>4. \A s \in Sides : ModuleOK(s)'
    BY <2>1, <2>2 DEF ExtractInv, ModuleOK, Extracted, Elements
  <2>5. QED BY <2>2, <2>3, <2>4 DEF ExtractInv
<1>7. QED BY <1>1, <1>2, <1>3, <1>4, <1>5, <1>6 DEF Next

LEMMA ModulesResolve == ExtractInv => CalleesResolved
<1> SUFFICES ASSUME ExtractInv, phase = "running", NEW s \in Sides,
                    NEW f \in UsedIn(modules[s].defined)
             PROVE  /\ f \in Elements(modules[s].functions)
                    /\ \/ f \in program.declared
                       \/ f \in modules["secure"].defined \cup modules["insecure"].defined
  BY DEF CalleesResolved
<1>1. \A t \in Sides :
        /\ members[t] = OnSide(program, t) \cup SettersFrom(Other(t))
        /\ modules[t].defined = members[t] \ program.declared
        /\ UsedIn(modules[t].defined) \subseteq Elements(modules[t].functions)
  BY DEF ExtractInv, ModuleOK, Extracted
<1>2. \E t \in Sides : f \in members[t]
  <2>1. CASE f \in Functions
    BY <1>1, <2>1, ProgramTypes DEF ExtractInv, ExtractTypeOK
  <2>2. CASE \E t \in Sides : f \in SettersFrom(t)
    BY <1>1, <2>2, OtherSide
  <2>3. QED BY <2>1, <2>2, UsedTypes
<1>3. QED BY <1>1, <1>2 DEF Sides

(***************************************************************************)
(* Whatever the program and the order of its functions, the skipping       *)
(* iterator of createModule never costs a function that is used:           *)
(* everything a body of a module calls, setters included, is in that       *)
(* module, and has a body in one of the two if it ever had one.            *)
(***************************************************************************)
THEOREM CalleesStayResolved == Spec => []CalleesResolved
BY ExtractInvInit, ExtractInvStep, ModulesResolve, PTL DEF Spec

-----------------------------------------------------------------------------
(***************************************************************************)
(* Which stores are followed by a setter call.                             *)
(*                                                                         *)
(* The search keeps no set of what it has seen, so the invariant speaks of *)
(* what is still to come: a direct store has its call already, or its      *)
(* global is still on the list, or it is reached from a node the search    *)
(* has still to visit.                                                     *)
(***************************************************************************)
Closed(S) == \A e \in program.edges : e[1] \in S => e[2] \in S

Reach(x) ==
  {n \in Globals \cup Nodes : \A S \in SUBSET (Globals \cup Nodes) :
     x \in S /\ Closed(S) => n \in S}

InPartition(n) == SideOf(program, program.in[n])

Awaited(n) ==
  /\ phase = "setters"
  /\ \/ side = "insecure" /\ InPartition(n) = "secure"
     \/ /\ InPartition(n) = side
        /\ \/ program.storesTo[n] \in todo
           \/ program.storesTo[n] = global /\ \E w \in worklist : n \in Reach(w)

SearchInv ==
  /\ phase = "setters" => /\ todo \subseteq program.globals[side]
                          /\ global # None => global \in program.globals[side]
  /\ global # None => worklist \subseteq Reach(global)
  /\ calls \subseteq DirectStores
  /\ \A n \in DirectStores : n \in calls \/ Awaited(n)

ForwardInv == ExtractInv /\ SearchInv

(***************************************************************************)
(* Reachability: every node reaches itself and what its successors reach,  *)
(* and nothing else.                                                       *)
(***************************************************************************)
LEMMA ReachStep ==
  ASSUME program \in Programs, NEW x \in Globals \cup Nodes
  PROVE  /\ x \in Reach(x)
         /\ DataSuccessors(x) \subseteq Reach(x)
         /\ \A y : \A m \in DataSuccessors(y) : y \in Reach(x) => m \in Reach(x)
         /\ \A n \in Reach(x) : n = x \/ \E m \in DataSuccessors(x) : n \in Reach(m)
<1>1. x \in Reach(x)
  BY DEF Reach
<1>2. \A y : \A m \in DataSuccessors(y) : y \in Reach(x) => m \in Reach(x)
  <2> SUFFICES ASSUME NEW y, NEW m \in DataSuccessors(y), y \in Reach(x),
                      NEW S \in SUBSET (Globals \cup Nodes), x \in S, Closed(S)
               PROVE  m \in S
    BY DEF Reach, DataSuccessors
  <2>1. y \in S /\ <<y, m>> \in program.edges
    BY DEF Reach, DataSuccessors
  <2>2. QED BY <2>1 DEF Closed
<1>3. ASSUME NEW n \in Reach(x) PROVE n = x \/ \E m \in DataSuccessors(x) : n \in Reach(m)
  <2> DEFINE S == {x} \cup {y \in Globals \cup Nodes :
                              \E m \in DataSuccessors(x) : y \in Reach(m)}
  <2>1. ASSUME NEW e \in program.edges, e[1] \in S PROVE e[2] \in S
    <3>1. /\ program.edges \subseteq (Globals \cup Nodes) \X (Globals \cup Nodes)
      BY ProgramTypes DEF IsProgram
    <3>2. e = <<e[1], e[2]>> /\ e[2] \in Globals \cup Nodes /\ e[2] \in DataSuccessors(e[1])
      BY <3>1 DEF DataSuccessors
    <3>3. CASE e[1] = x
      <4>1. e[2] \in Reach(e[2])
        BY <3>2 DEF Reach
      <4>2. QED BY <3>2, <3>3, <4>1
    <3>4. CASE e[1] # x
      <4>1. PICK m \in DataSuccessors(x) : e[1] \in Reach(m)
        BY <2>1, <3>4
      <4>2. e[2] \in Reach(m)
        <5> SUFFICES ASSUME NEW T \in SUBSET (Globals \cup Nodes), m \in T, Closed(T)
                     PROVE  e[2] \in T
          BY <3>2 DEF Reach
        <5>1. e[1] \in T
          BY <4>1 DEF Reach
        <5>2. QED BY <5>1 DEF Closed
      <4>3. QED BY <3>2, <4>1, <4>2
    <3>5. QED BY <3>3, <3>4
  <2>2. S \in SUBSET (Globals \cup Nodes) /\ x \in S /\ Closed(S)
    BY <2>1 DEF Closed
  <2> HIDE DEF S
  <2>3. n \in S
    BY <2>2 DEF Reach
  <2>4. QED BY <2>3 DEF S
<1>4. QED BY <1>1, <1>2, <1>3

LEMMA ReachedIsReach ==
  ASSUME NEW g \in Globals
  PROVE  ReachedFrom(g) = Reach(g) \cap Nodes
BY DEF ReachedFrom, Reach, Closed

(***************************************************************************)
(* A direct store is in a function of one side and writes one of that      *)
(* side's globals, from which it is reached.                               *)
(***************************************************************************)
LEMMA DirectStoreTypes ==
  ASSUME program \in Programs, NEW n
  PROVE  n \in DirectStores <=>
           /\ n \in Nodes \ program.indirect
           /\ InPartition(n) \in Sides
           /\ program.storesTo[n] \in Globals
           /\ program.storesTo[n] \in program.globals[InPartition(n)]
           /\ n \in Reach(program.storesTo[n])
<1>1. program.storesTo \in [Nodes -> Globals \cup {None}]
  BY ProgramTypes DEF IsProgram
<1>2. \A f : SideOf(program, f) \in Sides
  BY ProgramTypes
<1>3. \A g \in Globals : g # None
  BY NoneAssumption
<1>4. QED BY <1>1, <1>2, <1>3, ReachedIsReach DEF DirectStores, InPartition

LEMMA SearchInvInit == Init => SearchInv
<1> SUFFICES ASSUME Init PROVE SearchInv
  OBVIOUS
<1>1. /\ program \in Programs /\ phase = "setters" /\ side = "insecure"
      /\ todo = program.globals["insecure"] /\ global = None /\ calls = {}
  BY DEF Init
<1>2. \A n \in DirectStores : Awaited(n)
  BY <1>1, DirectStoreTypes DEF Awaited, Sides
<1>3. QED BY <1>1, <1>2 DEF SearchInv

(***************************************************************************)
(* The next global: its own node is where all its stores are reached from. *)
(***************************************************************************)
LEMMA InstrumentGlobalSearches ==
  ASSUME ForwardInv, NEW g \in Globals, InstrumentGlobal(g)
  PROVE  SearchInv'
<1>1. /\ phase = "setters" /\ global = None /\ g \in todo
      /\ todo' = todo \ {g} /\ global' = g /\ worklist' = {g}
      /\ UNCHANGED <<program, phase, side, calls>>
  BY DEF InstrumentGlobal
<1>2. program \in Programs /\ g # None
  BY NoneAssumption DEF ForwardInv, ExtractInv, ExtractTypeOK
<1>3. /\ DirectStores' = DirectStores
      /\ \A x : Reach(x)' = Reach(x)
      /\ \A n : InPartition(n)' = InPartition(n)
      /\ \A s : program.globals[s]' = program.globals[s]
  BY <1>1 DEF DirectStores, ReachedFrom, Reach, Closed, InPartition, SideOf,
              OnSide
<1>4. g \in Reach(g)
  BY <1>2, ReachStep
<1>5. ASSUME NEW n \in DirectStores, n \notin calls PROVE Awaited(n)'
  <2>1. Awaited(n)
    BY <1>5 DEF ForwardInv, SearchInv
  <2>2. program.storesTo[n] # global /\ n \in Reach(program.storesTo[n])
    BY <1>1, <1>2, NoneAssumption, DirectStoreTypes
  <2>3. /\ phase = "setters"
        /\ \/ side = "insecure" /\ InPartition(n) = "secure"
           \/ InPartition(n) = side /\ program.storesTo[n] \in todo
    BY <2>1, <2>2 DEF Awaited
  <2>4. CASE program.storesTo[n] = g
    <3>1. n \in Reach(g)
      BY <2>2, <2>4
    <3>2. QED BY <1>1, <1>3, <2>3, <2>4, <3>1 DEF Awaited
  <2>5. CASE program.storesTo[n] # g
    BY <1>1, <1>3, <2>3, <2>5 DEF Awaited
  <2>6. QED BY <2>4, <2>5
<1>6. QED BY <1>1, <1>2, <1>3, <1>4, <1>5 DEF ForwardInv, SearchInv

(***************************************************************************)
(* A visit: the store visited gets its call, and what was reached from it  *)
(* is reached from one of its successors.                                  *)
(***************************************************************************)
LEMMA VisitNodeSearches ==
  ASSUME ForwardInv, NEW w \in worklist, VisitNode(w)
  PROVE  SearchInv'
<1>1. /\ phase = "setters"
      /\ worklist' = (worklist \ {w}) \cup DataSuccessors(w)
      /\ UNCHANGED <<program, phase, side, todo, global>>
      /\ calls' = IF GetsSetterCall(w) THEN calls \cup {w} ELSE calls
  BY DEF VisitNode
<1>2. /\ program \in Programs /\ side \in Sides
      /\ global \in Globals /\ global # None /\ members[side] = OnSide(program, side)
  <2>1. global # None
    BY DEF ForwardInv, ExtractInv, WorklistOK
  <2>2. ~Extracted(side)
    BY <1>1 DEF Extracted
  <2>3. program \in Programs /\ side \in Sides /\ global \in Globals \cup {None}
    BY DEF ForwardInv, ExtractInv, ExtractTypeOK
  <2>4. members[side] = OnSide(program, side)
    BY <2>2, <2>3 DEF ForwardInv, ExtractInv, ModuleOK
  <2>5. QED BY <2>1, <2>3, <2>4
<1>3. /\ DirectStores' = DirectStores
      /\ \A x : Reach(x)' = Reach(x)
      /\ \A n : InPartition(n)' = InPartition(n)
      /\ \A s : program.globals[s]' = program.globals[s]
  BY <1>1 DEF DirectStores, ReachedFrom, Reach, Closed, InPartition, SideOf,
              OnSide
<1>4. worklist \subseteq Reach(global) /\ w \in Globals \cup Nodes
  BY <1>2 DEF ForwardInv, SearchInv, Reach
<1>5. worklist' \subseteq Reach(global)
  BY <1>1, <1>2, <1>4, ReachStep
<1>6. GetsSetterCall(w) <=>
        /\ w \in Nodes \ program.indirect
        /\ program.storesTo[w] = global
        /\ InPartition(w) = side
  <2>1. ASSUME w \in Nodes
        PROVE  program.in[w] \in OnSide(program, side) <=> InPartition(w) = side
    <3>1. program.in[w] \in Functions
      BY <1>2, <2>1, ProgramTypes DEF IsProgram
    <3>2. QED BY <1>2, <3>1, ProgramTypes DEF InPartition
  <2>2. QED BY <1>2, <2>1 DEF GetsSetterCall
<1>7. GetsSetterCall(w) => w \in DirectStores
  <2>1. global \in program.globals[side]
    BY <1>1, <1>2 DEF ForwardInv, SearchInv
  <2>2. QED BY <1>2, <1>4, <1>6, <2>1, DirectStoreTypes
<1>8. ASSUME NEW n \in DirectStores, n \notin calls' PROVE Awaited(n)'
  <2>1. Awaited(n)
    BY <1>1, <1>8 DEF ForwardInv, SearchInv
  <2>2. CASE InPartition(n) = side /\ program.storesTo[n] = global
    <3>1. CASE program.storesTo[n] \in todo
      BY <1>1, <1>3, <2>2, <3>1 DEF Awaited
    <3>2. CASE program.storesTo[n] \notin todo
      <4>1. side # "insecure" \/ InPartition(n) # "secure"
        BY <2>2
      <4>2. PICK v \in worklist : n \in Reach(v)
        BY <2>1, <3>2, <4>1 DEF Awaited
      <4>3. n # w
        BY <1>1, <1>2, <1>6, <1>8, <2>2, DirectStoreTypes
      <4>4. \E u \in worklist' : n \in Reach(u)
        <5>1. CASE v = w
          BY <1>1, <1>2, <1>4, <4>2, <4>3, <5>1, ReachStep
        <5>2. CASE v # w
          BY <1>1, <4>2, <5>2
        <5>3. QED BY <5>1, <5>2
      <4>5. QED BY <1>1, <1>3, <2>2, <4>4 DEF Awaited
    <3>3. QED BY <3>1, <3>2
  <2>3. CASE ~(InPartition(n) = side /\ program.storesTo[n] = global)
    BY <1>1, <1>3, <2>1, <2>3 DEF Awaited
  <2>4. QED BY <2>2, <2>3
<1>9. QED BY <1>1, <1>2, <1>3, <1>5, <1>7, <1>8 DEF ForwardInv, SearchInv

(***************************************************************************)
(* A search that has nothing left to visit found every store of its        *)
(* global; a side with no global left has all its calls.                   *)
(***************************************************************************)
LEMMA FinishGlobalSearches ==
  ASSUME ForwardInv, FinishGlobal
  PROVE  SearchInv'
<1>1. /\ phase = "setters" /\ worklist = {} /\ global' = None
      /\ UNCHANGED <<program, phase, side, todo, worklist, calls>>
  BY DEF FinishGlobal
<1>2. /\ DirectStores' = DirectStores
      /\ \A x : Reach(x)' = Reach(x)
      /\ \A n : InPartition(n)' = InPartition(n)
      /\ \A s : program.globals[s]' = program.globals[s]
  BY <1>1 DEF DirectStores, ReachedFrom, Reach, Closed, InPartition, SideOf,
              OnSide
<1>3. ASSUME NEW n \in DirectStores, n \notin calls PROVE Awaited(n)'
  <2>1. Awaited(n)
    BY <1>3 DEF ForwardInv, SearchInv
  <2>2. QED BY <1>1, <1>2, <2>1 DEF Awaited
<1>4. QED BY <1>1, <1>2, <1>3 DEF ForwardInv, SearchInv

LEMMA FinishSettersSearches ==
  ASSUME ForwardInv, FinishSetters
  PROVE  SearchInv'
<1>1. /\ phase = "setters" /\ global = None /\ todo = {} /\ side' = "secure"
      /\ IF side = "insecure"
         THEN phase' = phase /\ todo' = program.globals["secure"]
         ELSE phase' = "extract" /\ todo' = todo
      /\ UNCHANGED <<program, global, worklist, calls>>
  BY DEF FinishSetters
<1>2. /\ DirectStores' = DirectStores
      /\ \A x : Reach(x)' = Reach(x)
      /\ \A n : InPartition(n)' = InPartition(n)
      /\ \A s : program.globals[s]' = program.globals[s]
  BY <1>1 DEF DirectStores, ReachedFrom, Reach, Closed, InPartition, SideOf,
              OnSide
<1>3. program \in Programs /\ side \in Sides
  BY DEF ForwardInv, ExtractInv, ExtractTypeOK
<1>4. ASSUME NEW n \in DirectStores, n \notin calls
      PROVE  side = "insecure" /\ InPartition(n) = "secure"
  <2>1. Awaited(n)
    BY <1>4 DEF ForwardInv, SearchInv
  <2>2. program.storesTo[n] # global
    BY <1>1, <1>3, NoneAssumption, DirectStoreTypes
  <2>3. QED BY <1>1, <2>1, <2>2 DEF Awaited
<1>5. ASSUME NEW n \in DirectStores, n \notin calls PROVE Awaited(n)'
  <2>1. side = "insecure" /\ InPartition(n) = "secure"
    BY <1>4, <1>5
  <2>2. program.storesTo[n] \in program.globals["secure"]
    BY <1>3, <2>1, DirectStoreTypes
  <2>3. QED BY <1>1, <1>2, <2>1, <2>2 DEF Awaited
<1>6. phase' = "setters" => todo' \subseteq program.globals[side]'
  BY <1>1, <1>2
<1>7. QED BY <1>1, <1>2, <1>5, <1>6 DEF ForwardInv, SearchInv

(***************************************************************************)
(* The steps after the instrumentation have nothing left to search.        *)
(***************************************************************************)
LEMMA LaterStepsSearch ==
  ASSUME ForwardInv, UNCHANGED <<program, instrumenting>>,
         \/ UNCHANGED <<phase, side>>
         \/ phase # "setters" /\ phase' # "setters"
  PROVE  SearchInv'
<1>1. UNCHANGED <<todo, global, worklist, calls>>
  BY DEF instrumenting
<1>2. /\ DirectStores' = DirectStores
      /\ \A x : Reach(x)' = Reach(x)
      /\ \A n : InPartition(n)' = InPartition(n)
      /\ \A s : program.globals[s]' = program.globals[s]
  BY DEF DirectStores, ReachedFrom, Reach, Closed, InPartition, SideOf,
         OnSide
<1>3. CASE UNCHANGED <<phase, side>>
  <2>1. \A n : Awaited(n)' <=> Awaited(n)
    BY <1>1, <1>2, <1>3 DEF Awaited
  <2>2. QED BY <1>1, <1>2, <1>3, <2>1 DEF ForwardInv, SearchInv
<1>4. CASE phase # "setters" /\ phase' # "setters"
  <2>1. \A n : ~Awaited(n)
    BY <1>4 DEF Awaited
  <2>2. QED BY <1>1, <1>2, <1>4, <2>1 DEF ForwardInv, SearchInv
<1>5. QED BY <1>3, <1>4

LEMMA ForwardInvStep == ForwardInv /\ [Next]_vars => ForwardInv'
<1> SUFFICES ASSUME ForwardInv, [Next]_vars PROVE ForwardInv'
  OBVIOUS
<1>1. SUFFICES SearchInv'
  BY ExtractInvStep DEF ForwardInv
<1>2. ASSUME NEW g \in Globals, InstrumentGlobal(g) PROVE SearchInv'
  BY <1>2, InstrumentGlobalSearches
<1>3. ASSUME NEW n \in worklist, VisitNode(n) PROVE SearchInv'
  BY <1>3, VisitNodeSearches
<1>4. CASE FinishGlobal
  BY <1>4, FinishGlobalSearches
<1>5. CASE FinishSetters
  BY <1>5, FinishSettersSearches
<1>6. CASE ExtractPartition
  <2>1. /\ UNCHANGED <<program, instrumenting>> /\ phase = "extract"
        /\ phase' \in {"extract", "running", "clean"}
    BY <1>6 DEF ExtractPartition, NextSide
  <2>2. QED BY <2>1, LaterStepsSearch
<1>7. CASE CleanFunction
  BY <1>7, LaterStepsSearch DEF CleanFunction
<1>8. CASE FinishModule
  <2>1. /\ UNCHANGED <<program, instrumenting>> /\ phase = "clean"
        /\ phase' \in {"extract", "running"}
    BY <1>8 DEF FinishModule, NextSide
  <2>2. QED BY <2>1, LaterStepsSearch
<1>9. CASE \/ \E n \in Nodes : WriteGlobal(n)
           \/ CallSetter
           \/ UNCHANGED vars
  <2>1. UNCHANGED <<program, instrumenting>> /\ UNCHANGED <<phase, side>>
    BY <1>9 DEF WriteGlobal, CallSetter, vars
  <2>2. QED BY <2>1, LaterStepsSearch
<1>10. QED BY <1>2, <1>3, <1>4, <1>5, <1>6, <1>7, <1>8, <1>9 DEF Next

LEMMA SearchedAll == ForwardInv => (phase # "setters" => calls = DirectStores)
<1> SUFFICES ASSUME ForwardInv, phase # "setters" PROVE calls = DirectStores
  OBVIOUS
<1>1. \A n : ~Awaited(n)
  BY DEF Awaited
<1>2. QED BY <1>1 DEF ForwardInv, SearchInv

LEMMA ForwardInvInit == Init => ForwardInv
BY ExtractInvInit, SearchInvInit DEF ForwardInv

(***************************************************************************)
(* For every program and every order of visits, when the search without a  *)
(* set of visited nodes comes to its end a setter call is behind exactly   *)
(* the direct stores that the data edges lead to from their global.        *)
(***************************************************************************)
THEOREM DirectStoresForwarded == Spec => []StoresForwarded
<1>1. ForwardInv => StoresForwarded
  BY SearchedAll DEF StoresForwarded
<1>2. QED BY <1>1, ForwardInvInit, ForwardInvStep, PTL DEF Spec

-----------------------------------------------------------------------------
(***************************************************************************)
(* The copies of the generated program: those of a shared global are equal *)
(* but for the moment between a store and its setter call.                 *)
(***************************************************************************)
CopyInv ==
  /\ copies \in [Sides -> [Globals -> Nodes \cup {None}]]
  /\ pending \in Nodes \cup {None}
  /\ phase # "running" => pending = None
  /\ \A g \in PlainGlobals :
       \/ copies["secure"][g] = copies["insecure"][g]
       \/ pending # None /\ program.storesTo[pending] = g

AgreeInv == ForwardInv /\ CopyInv

LEMMA PlainGlobalsTypes ==
  ASSUME program \in Programs
  PROVE  /\ PlainGlobals \subseteq Globals
         /\ \A s \in Sides : PlainGlobals \subseteq program.globals[s]
<1>1. program.globals \in [Sides -> SUBSET Globals]
  BY ProgramTypes DEF IsProgram
<1>2. QED BY <1>1 DEF PlainGlobals, SharedGlobals, Sides

LEMMA PlainGlobalsStay ==
  ASSUME UNCHANGED program
  PROVE  PlainGlobals' = PlainGlobals
<1>1. SharedGlobals' = SharedGlobals
  BY DEF SharedGlobals
<1>2. \A g : ReachedFrom(g)' = ReachedFrom(g)
  BY DEF ReachedFrom
<1>3. QED BY <1>1, <1>2 DEF PlainGlobals

LEMMA AgreeInvInit == Init => AgreeInv
<1> SUFFICES ASSUME Init PROVE CopyInv
  BY ForwardInvInit DEF AgreeInv
<1>1. /\ copies = [s \in Sides |-> [g \in Globals |-> None]]
      /\ pending = None /\ phase = "setters"
  BY DEF Init
<1>2. PlainGlobals \subseteq Globals
  BY PlainGlobalsTypes DEF Init
<1>3. QED BY <1>1, <1>2 DEF CopyInv, Sides

(***************************************************************************)
(* A store to a plain global is one of the stores followed by a call.      *)
(***************************************************************************)
LEMMA SharedStoresAreDirect ==
  ASSUME ForwardInv, phase = "running", NEW n \in Nodes,
         program.storesTo[n] \in PlainGlobals
  PROVE  n \in calls
<1>1. program \in Programs
  BY DEF ForwardInv, ExtractInv, ExtractTypeOK
<1>2. calls = DirectStores
  BY SearchedAll
<1> DEFINE g == program.storesTo[n]
<1>3. /\ g \in Globals /\ g # None
      /\ g \in program.globals["secure"] /\ g \in program.globals["insecure"]
      /\ n \in Nodes \ program.indirect
  BY <1>1, PlainGlobalsTypes, NoneAssumption DEF PlainGlobals, Sides
<1>4. InPartition(n) \in Sides
  BY <1>1, ProgramTypes DEF InPartition
<1>5. n \in Reach(g)
  BY <1>3, ReachedIsReach DEF PlainGlobals
<1>6. QED BY <1>1, <1>2, <1>3, <1>4, <1>5, DirectStoreTypes DEF Sides

(***************************************************************************)
(* A store changes one side's copy of one global, and its setter call is   *)
(* then due.                                                               *)
(***************************************************************************)
LEMMA WriteGlobalAgrees ==
  ASSUME AgreeInv, NEW n \in Nodes, WriteGlobal(n)
  PROVE  CopyInv'
<1> DEFINE s == SideOf(program, program.in[n])
           g == program.storesTo[n]
<1>1. /\ phase = "running" /\ pending = None /\ g # None
      /\ copies' = [copies EXCEPT ![s][g] = n]
      /\ pending' = IF n \in calls THEN n ELSE None
      /\ program' = program /\ phase' = phase
  BY DEF WriteGlobal
<1>2. program \in Programs /\ s \in Sides /\ g \in Globals
  <2>1. program \in Programs
    BY DEF AgreeInv, ForwardInv, ExtractInv, ExtractTypeOK
  <2>2. QED BY <1>1, <2>1, ProgramTypes DEF IsProgram
<1>3. /\ copies \in [Sides -> [Globals -> Nodes \cup {None}]]
      /\ \A h \in PlainGlobals : copies["secure"][h] = copies["insecure"][h]
  BY <1>1 DEF AgreeInv, CopyInv
<1> HIDE DEF s
<1>4. /\ copies' \in [Sides -> [Globals -> Nodes \cup {None}]]
      /\ \A h \in Globals : h # g =>
           /\ copies'["secure"][h] = copies["secure"][h]
           /\ copies'["insecure"][h] = copies["insecure"][h]
  BY <1>1, <1>2, <1>3 DEF Sides
<1>5. PlainGlobals' = PlainGlobals /\ PlainGlobals \subseteq Globals
  BY <1>1, <1>2, PlainGlobalsTypes, PlainGlobalsStay
<1>6. g \in PlainGlobals => pending' = n
  BY <1>1, SharedStoresAreDirect DEF AgreeInv
<1>7. n # None
  BY NoneAssumption
<1>8. ASSUME NEW h \in PlainGlobals
      PROVE  \/ copies'["secure"][h] = copies'["insecure"][h]
             \/ pending' # None /\ program'.storesTo[pending'] = h
  <2>1. CASE h = g
    BY <1>1, <1>6, <1>7, <2>1
  <2>2. CASE h # g
    BY <1>3, <1>4, <1>5, <2>2
  <2>3. QED BY <2>1, <2>2
<1>9. pending' \in Nodes \cup {None}
  BY <1>1
<1>10. QED BY <1>1, <1>4, <1>5, <1>8, <1>9 DEF CopyInv

(***************************************************************************)
(* The setter call makes the other side's copy equal again.                *)
(***************************************************************************)
LEMMA CallSetterAgrees ==
  ASSUME AgreeInv, CallSetter
  PROVE  CopyInv'
<1> DEFINE s == SideOf(program, program.in[pending])
           g == program.storesTo[pending]
           t == Other(s)
<1>1. /\ phase = "running" /\ pending # None /\ pending' = None
      /\ copies' = [copies EXCEPT ![t][g] = copies[s][g]]
      /\ program' = program /\ phase' = phase
  BY DEF CallSetter, SetterTarget
<1>2. /\ program \in Programs /\ s \in Sides /\ t \in Sides /\ t # s
      /\ pending \in Nodes
      /\ copies \in [Sides -> [Globals -> Nodes \cup {None}]]
  <2>1. program \in Programs
    BY DEF AgreeInv, ForwardInv, ExtractInv, ExtractTypeOK
  <2>2. QED BY <1>1, <2>1, ProgramTypes, OtherSide DEF AgreeInv, CopyInv
<1>3. g \in Globals \cup {None}
  BY <1>2, ProgramTypes DEF IsProgram
<1> HIDE DEF s, t
<1>4. ASSUME NEW h \in Globals
      PROVE  h # g => /\ copies'["secure"][h] = copies["secure"][h]
                      /\ copies'["insecure"][h] = copies["insecure"][h]
  BY <1>1, <1>2 DEF Sides
<1>5. g \in Globals =>
        /\ copies' \in [Sides -> [Globals -> Nodes \cup {None}]]
        /\ copies'[t][g] = copies[s][g] /\ copies'[s][g] = copies[s][g]
  BY <1>1, <1>2
<1>6. g \notin Globals => copies' = copies
  <2> SUFFICES ASSUME g \notin Globals PROVE copies' = copies
    OBVIOUS
  <2>1. [copies[t] EXCEPT ![g] = copies[s][g]] = copies[t]
    BY <1>2
  <2>2. QED BY <1>1, <1>2, <2>1
<1>7. PlainGlobals' = PlainGlobals /\ PlainGlobals \subseteq Globals
  BY <1>1, <1>2, PlainGlobalsTypes, PlainGlobalsStay
<1>8. ASSUME NEW h \in PlainGlobals
      PROVE  copies'["secure"][h] = copies'["insecure"][h]
  <2>1. CASE h = g
    <3>1. g \in Globals
      BY <1>7, <2>1
    <3>2. copies'[t][g] = copies'[s][g]
      BY <1>5, <3>1
    <3>3. {s, t} = {"secure", "insecure"}
      BY <1>2 DEF Sides
    <3>4. QED BY <2>1, <3>2, <3>3
  <2>2. CASE h # g
    <3>1. copies["secure"][h] = copies["insecure"][h]
      BY <2>2 DEF AgreeInv, CopyInv
    <3>2. QED BY <1>4, <1>7, <2>2, <3>1
  <2>3. QED BY <2>1, <2>2
<1>9. copies' \in [Sides -> [Globals -> Nodes \cup {None}]]
  BY <1>2, <1>5, <1>6
<1>10. QED BY <1>1, <1>7, <1>8, <1>9 DEF CopyInv

LEMMA AgreeInvStep == AgreeInv /\ [Next]_vars => AgreeInv'
<1> SUFFICES ASSUME AgreeInv, [Next]_vars PROVE AgreeInv'
  OBVIOUS
<1>1. SUFFICES CopyInv'
  BY ForwardInvStep DEF AgreeInv
<1>3. ASSUME NEW n \in Nodes, WriteGlobal(n) PROVE CopyInv'
  BY <1>3, WriteGlobalAgrees
<1>4. CASE CallSetter
  BY <1>4, CallSetterAgrees
<1>5. ASSUME UNCHANGED <<program, copies, pending>>, phase = "running" => phase' = "running"
      PROVE  CopyInv'
  <2>1. PlainGlobals' = PlainGlobals
    BY <1>5, PlainGlobalsStay
  <2>2. QED BY <1>5, <2>1 DEF AgreeInv, CopyInv
<1>6. CASE \/ \E g \in Globals : InstrumentGlobal(g)
           \/ \E n \in worklist : VisitNode(n)
           \/ FinishGlobal \/ FinishSetters
           \/ ExtractPartition \/ CleanFunction \/ FinishModule
           \/ UNCHANGED vars
  <2>1. UNCHANGED <<program, copies, pending>> /\ (phase = "running" => phase' = "running")
    BY <1>6 DEF InstrumentGlobal, VisitNode, FinishGlobal, FinishSetters,
                ExtractPartition, CleanFunction, FinishModule, executing, vars
  <2>2. QED BY <1>5, <2>1
<1>7. QED BY <1>3, <1>4, <1>6 DEF Next

(***************************************************************************)
(* Whatever globals the partitions were given, stale or not: the two       *)
(* copies of a global that both have, and that is only stored to directly  *)
(* and where the data edges lead, are equal whenever no setter call is     *)
(* due, after any number of stores made on either side and in any order.   *)
(***************************************************************************)
THEOREM CopiesStayEqual == Spec => []CopiesAgree
<1>1. AgreeInv => CopiesAgree
  BY DEF AgreeInv, CopyInv, CopiesAgree
<1>2. QED BY <1>1, AgreeInvInit, AgreeInvStep, PTL DEF Spec
=============================================================================
