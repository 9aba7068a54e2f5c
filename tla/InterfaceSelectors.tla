------------------------- MODULE InterfaceSelectors -------------------------
(***************************************************************************)
(* From the interface functions of the two partitions to a program that    *)
(* runs: SGXCodeGenerationTool finds the declarations of the functions in  *)
(* the program's sources, SGXCodeGenerator numbers them with selectors.    *)
(* Then the generated driver: its main loads the enclave, the              *)
(* asylo_enclave_init of which registers a handler for each selector and   *)
(* one for Abort, registers the handlers of the application, and goes on   *)
(* to app_main whatever became of all that.                                *)
(*                                                                         *)
(* A source is the sequence of function declarations of a translation      *)
(* unit, each a [name, definition] record.                                 *)
(***************************************************************************)
EXTENDS EnclaveInterface, Integers, Sequences, FiniteSets

CONSTANT Programs     \* sequences of sources

VARIABLES
  program,     \* the sources the tool is run on
  side,        \* whose functions are looked for or numbered, "secure" or "app"
  sources,     \* the sources still to be visited; the first is under way
  wanted,      \* m_functionsNames
  found,       \* m_foundFunctions of each side, by name
  pc,          \* what runs: "find", "select", "init", "register", "main", "crashed"
  selectors,   \* m_ecallSelectors and m_ocallSelectors: name to number
  next,        \* the loop counter of generateInterfaceSelectors, registerOCalls
  entries,     \* handlers registered with the enclave, by number
  exits,       \* handlers registered with the application, by number
  loaded       \* whether client is an enclave

toolVars == <<program, side, sources, wanted, found, selectors>>
vars == <<toolVars, pc, next, entries, exits, loaded>>

Abort == "Abort"
Names == Ecalls \cup Ocalls
Sides == {"secure", "app"}
Interface == [s \in Sides |-> IF s = "secure" THEN Ecalls ELSE Ocalls]

ASSUME NamesAssumption == Abort \notin Names /\ IsFiniteSet(Names)
ASSUME ProgramsAssumption ==
  Programs \subseteq Seq(Seq([name : Names, definition : BOOLEAN]))

EmptyMap == [n \in {} |-> 0]

Init ==
  /\ program \in Programs
  /\ side = "secure"
  /\ sources = program
  /\ wanted = Interface[side]
  /\ found = [s \in Sides |-> << >>]
  /\ pc = "find"
  /\ selectors = [s \in Sides |-> EmptyMap]
  /\ next = 1
  /\ entries = EmptyMap
  /\ exits = EmptyMap
  /\ loaded = FALSE

(***************************************************************************)
(* Looking for the functions of one side, then of the other.  The second   *)
(* run feeds the first finder again, whose result has been copied.         *)
(*                                                                         *)
(* isDefined(): some declaration of the source is the definition.  The     *)
(* part of the source already visited counts too; a definition there has   *)
(* taken the name off the wanted ones, so that only the rest matters.      *)
(***************************************************************************)
Declares(source, name) == \E k \in 1 .. Len(source) : source[k].name = name

DefinedIn(name, source) ==
  \E k \in 1 .. Len(source) : source[k].name = name /\ source[k].definition

WithoutFirst == <<Tail(Head(sources))>> \o Tail(sources)

\* Variant: a source that does not define a function is no place to find it.
Skips_Undefined(decl) == decl.name \notin wanted \/ ~decl.definition

Skips(decl) ==
  \/ decl.name \notin wanted
  \/ DefinedIn(decl.name, Head(sources)) /\ ~decl.definition

Visiting == pc = "find" /\ sources # << >> /\ Head(sources) # << >>

SkipDeclaration ==
  /\ Visiting
  /\ Skips(Head(Head(sources)))
  /\ sources' = WithoutFirst
  /\ UNCHANGED <<program, side, wanted, found, selectors,
                  pc, next, entries, exits, loaded>>

(***************************************************************************)
(* FunctionFinder::run for a declaration that is taken; only a definition  *)
(* ends the search for its name.                                           *)
(***************************************************************************)
FindDeclaration ==
  LET decl == Head(Head(sources))
  IN  /\ Visiting
      /\ ~Skips(decl)
      /\ wanted' = IF decl.definition THEN wanted \ {decl.name} ELSE wanted
      /\ found' = [found EXCEPT ![side] = Append(@, decl.name)]
      /\ sources' = WithoutFirst
      /\ UNCHANGED <<program, side, selectors, pc, next, entries, exits, loaded>>

NextSource ==
  /\ pc = "find"
  /\ sources # << >> /\ Head(sources) = << >>
  /\ sources' = Tail(sources)
  /\ UNCHANGED <<program, side, wanted, found, selectors,
                  pc, next, entries, exits, loaded>>

FinishFinding ==
  /\ pc = "find"
  /\ sources = << >>
  /\ IF side = "secure"
     THEN /\ side' = "app" /\ wanted' = Interface[side'] /\ sources' = program
          /\ UNCHANGED pc
     ELSE side' = "secure" /\ pc' = "select" /\ UNCHANGED <<wanted, sources>>
  /\ UNCHANGED <<program, found, selectors, next, entries, exits, loaded>>

\* Variant: the counter is not advanced.
WithSelector_NoCount(map, name, number) ==
  [n \in DOMAIN map \cup {name} |-> IF n \in DOMAIN map THEN map[n] ELSE 1]

(***************************************************************************)
(* generateInterfaceSelectors: the counter advances for every function of  *)
(* the list, the map keeps the first entry of a name.  A function that was *)
(* found twice also gets its wrappers and handlers twice, and a driver     *)
(* with two definitions of a function is not compiled; the start-up below  *)
(* is that of the generated code all the same.                             *)
(***************************************************************************)
WithSelector(map, name, number) ==
  [n \in DOMAIN map \cup {name} |-> IF n \in DOMAIN map THEN map[n] ELSE number]

SelectFunction ==
  /\ pc = "select"
  /\ next <= Len(found[side])
  /\ selectors' = [selectors EXCEPT ![side] = WithSelector(@, found[side][next], next)]
  /\ next' = next + 1
  /\ UNCHANGED <<program, side, sources, wanted, found, pc, entries, exits, loaded>>

FinishSelecting ==
  /\ pc = "select"
  /\ next > Len(found[side])
  /\ next' = 1
  /\ IF side = "secure" THEN side' = "app" /\ UNCHANGED pc
     ELSE pc' = "init" /\ UNCHANGED side
  /\ UNCHANGED <<program, sources, wanted, found, selectors, entries, exits, loaded>>

\* Variant: the abort selector counts from zero.
AbortSelector_FromZero == Cardinality(DOMAIN selectors["secure"])

AbortSelector == Cardinality(DOMAIN selectors["secure"]) + 1

(***************************************************************************)
(* The generated program starts.                                           *)
(***************************************************************************)
Handlers(table) == {table[s] : s \in DOMAIN table}

Registered(table, number, handler) ==
  [s \in DOMAIN table \cup {number} |-> IF s = number THEN handler ELSE table[s]]

(***************************************************************************)
(* RegisterEntryHandler: a selector already taken is an error, with which  *)
(* asylo_enclave_init returns at once, and LoadEnclave and registerOCalls  *)
(* after it.  main does not look at what registerOCalls returns.           *)
(***************************************************************************)
Register(number, handler) ==
  /\ pc = "init"
  /\ IF number \in DOMAIN entries
     THEN pc' = "main" /\ UNCHANGED <<entries, loaded>>
     ELSE /\ entries' = Registered(entries, number, handler)
          /\ loaded' = (handler = Abort)
          /\ pc' = IF handler = Abort THEN "register" ELSE pc
  /\ UNCHANGED <<toolVars, next, exits>>

(***************************************************************************)
(* The map of selectors is unordered; Abort is registered last.            *)
(***************************************************************************)
RegisterFunction(name) ==
  /\ name \in DOMAIN selectors["secure"] \ Handlers(entries)
  /\ Register(selectors["secure"][name], name)

RegisterAbort ==
  /\ DOMAIN selectors["secure"] \subseteq Handlers(entries)
  /\ Register(AbortSelector, Abort)

\* The enclave cannot be loaded for a reason of its own.
LoadFails ==
  /\ pc = "init" /\ entries = EmptyMap
  /\ pc' = "main"
  /\ UNCHANGED <<toolVars, next, entries, exits, loaded>>

(***************************************************************************)
(* registerOCalls: RegisterExitHandler refuses a selector already taken;   *)
(* its status is overwritten by that of the next one.                      *)
(***************************************************************************)
RegisterOCall ==
  /\ pc = "register"
  /\ next <= Len(found["app"])
  /\ LET name == found["app"][next]
         number == selectors["app"][name]
     IN  exits' = IF number \in DOMAIN exits THEN exits
                  ELSE Registered(exits, number, name)
  /\ next' = next + 1
  /\ UNCHANGED <<toolVars, pc, entries, loaded>>

(***************************************************************************)
(* The generated function ends without its return: it comes back or not.   *)
(***************************************************************************)
FinishRegistering ==
  /\ pc = "register"
  /\ next > Len(found["app"])
  /\ pc' \in {"main", "crashed"}
  /\ UNCHANGED <<toolVars, next, entries, exits, loaded>>

Next ==
  \/ SkipDeclaration \/ FindDeclaration \/ NextSource \/ FinishFinding
  \/ SelectFunction \/ FinishSelecting
  \/ \E name \in Ecalls : RegisterFunction(name)
  \/ RegisterAbort \/ LoadFails
  \/ RegisterOCall \/ FinishRegistering

Spec == Init /\ [][Next]_vars

(***************************************************************************)
(* Properties                                                              *)
(***************************************************************************)
FoundOnce(name) ==
  \A s \in Sides : \A j, k \in 1 .. Len(found[s]) :
    found[s][j] = name /\ found[s][k] = name => j = k

(***************************************************************************)
(* Two functions of a side never share a selector, however often each is   *)
(* found: a call with a function's selector runs that function's handler,  *)
(* in either direction.                                                    *)
(***************************************************************************)
SelectorsDistinct ==
  /\ \A s \in Sides : \A m, n \in DOMAIN selectors[s] :
       selectors[s][m] = selectors[s][n] => m = n
  /\ \A s \in DOMAIN entries :
       entries[s] # Abort => selectors["secure"][entries[s]] = s
  /\ \A s \in DOMAIN exits : selectors["app"][exits[s]] = s

(***************************************************************************)
(* Where app_main has an enclave, every interface function the program     *)
(* declares can be called across the border, in either direction, and      *)
(* nothing but these and Abort: no error on the way has left a part of     *)
(* them behind, though none stops main.                                    *)
(***************************************************************************)
Declared == {n \in Names : \E k \in 1 .. Len(program) : Declares(program[k], n)}

StartedComplete ==
  pc = "main" /\ loaded =>
    /\ Handlers(entries) = (Declared \cap Ecalls) \cup {Abort}
    /\ Handlers(exits) = Declared \cap Ocalls

(***************************************************************************)
(* The enclave finds a selector taken only if a function was found twice:  *)
(* the selector of Abort is free otherwise.  And a function whose          *)
(* definition is in the first source that declares it is found once.       *)
(***************************************************************************)
DefinedFirst(name) ==
  \E k \in 1 .. Len(program) :
    /\ DefinedIn(name, program[k])
    /\ \A j \in 1 .. k - 1 : ~Declares(program[j], name)

StartsWhenFoundOnce ==
  /\ pc = "main" /\ ~loaded /\ entries # EmptyMap => \E n \in Ecalls : ~FoundOnce(n)
  /\ \A n \in Names : DefinedFirst(n) => FoundOnce(n)
=============================================================================
