------------------------- MODULE GeneratedCodeProofs -------------------------
(***************************************************************************)
(* Machine-checked facts about the code SGXCodeGenerator emits, for every  *)
(* interface: how its functions are found, numbered and registered         *)
(* (InterfaceSelectors), and the calls across the border that follow       *)
(* (EnclaveCalls).                                                         *)
(*                                                                         *)
(* A function may be found, and numbered, several times.  Its selector is  *)
(* a place in the list of found functions at which it stands, whatever the *)
(* others get; that one fact keeps the selectors of a side apart.  And it  *)
(* leaves the number after the last one to Abort unless some function      *)
(* takes up two places.                                                    *)
(*                                                                         *)
(* The stack of a call is known at each place of control: what the wrapper *)
(* pushed while the call is on the border, nothing while the function      *)
(* runs, and what the handler pushed when it has returned.                 *)
(***************************************************************************)
EXTENDS InterfaceSelectors, EnclaveCalls, SequenceTheorems, FiniteSetTheorems, TLAPS

SelectorsInv ==
  /\ side \in Sides
  /\ DOMAIN selectors = Sides
  /\ \A s \in Sides : \A n \in DOMAIN selectors[s] : found[s][selectors[s][n]] = n
  /\ pc = "find" => \A s \in Sides : DOMAIN selectors[s] = {}

HandlersInv ==
  /\ pc \in {"find", "select"} => DOMAIN entries = {} /\ DOMAIN exits = {}
  /\ \A s \in DOMAIN entries :
       entries[s] # Abort => selectors["secure"][entries[s]] = s
  /\ \A s \in DOMAIN exits : selectors["app"][exits[s]] = s

NumbersInv == SelectorsInv /\ HandlersInv

LEMMA NumbersInvInit == Init => NumbersInv
BY DEF Init, NumbersInv, SelectorsInv, HandlersInv, Sides, EmptyMap

LEMMA FindKeeps ==
  ASSUME NumbersInv, SkipDeclaration \/ FindDeclaration \/ NextSource \/ FinishFinding
  PROVE  NumbersInv'
<1>1. /\ pc = "find" /\ pc' \in {"find", "select"} /\ selectors' = selectors
      /\ entries' = entries /\ exits' = exits /\ side' \in Sides
  BY DEF SkipDeclaration, FindDeclaration, NextSource, FinishFinding, Visiting,
         NumbersInv, SelectorsInv, Sides
<1>2. QED BY <1>1 DEF NumbersInv, SelectorsInv, HandlersInv

LEMMA SelectFunctionKeeps ==
  ASSUME NumbersInv, SelectFunction
  PROVE  NumbersInv'
<1> DEFINE name == found[side][next]
<1>1. /\ pc = "select" /\ pc' = pc /\ side' = side /\ found' = found
      /\ entries' = entries /\ exits' = exits /\ side \in Sides
      /\ selectors' = [selectors EXCEPT ![side] = WithSelector(@, name, next)]
  BY DEF SelectFunction, NumbersInv, SelectorsInv
<1>2. /\ DOMAIN selectors' = Sides
      /\ selectors'[side] = WithSelector(selectors[side], name, next)
      /\ \A s \in Sides \ {side} : selectors'[s] = selectors[s]
  BY <1>1 DEF NumbersInv, SelectorsInv
<1>3. \A n \in DOMAIN selectors'[side] : found[side][selectors'[side][n]] = n
  BY <1>1, <1>2 DEF WithSelector, NumbersInv, SelectorsInv
<1>4. SelectorsInv'
  BY <1>1, <1>2, <1>3 DEF NumbersInv, SelectorsInv
<1>5. HandlersInv'
  BY <1>1 DEF NumbersInv, HandlersInv
<1>6. QED BY <1>4, <1>5 DEF NumbersInv

LEMMA FinishSelectingKeeps ==
  ASSUME NumbersInv, FinishSelecting
  PROVE  NumbersInv'
BY DEF FinishSelecting, NumbersInv, SelectorsInv, HandlersInv, Sides

LEMMA RegisterKeeps ==
  ASSUME NumbersInv, NEW number, NEW handler, Register(number, handler),
         handler = Abort \/ selectors["secure"][handler] = number
  PROVE  NumbersInv'
<1>1. /\ pc = "init" /\ pc' \in {"init", "main", "register"} /\ side' = side
      /\ found' = found /\ selectors' = selectors /\ exits' = exits
      /\ entries' = entries \/ entries' = Registered(entries, number, handler)
  BY DEF Register, toolVars
<1>2. \A s \in DOMAIN entries' :
        entries'[s] # Abort => selectors["secure"][entries'[s]] = s
  BY <1>1 DEF Registered, NumbersInv, HandlersInv
<1>3. QED BY <1>1, <1>2 DEF NumbersInv, SelectorsInv, HandlersInv

LEMMA RegisterOCallKeeps ==
  ASSUME NumbersInv, RegisterOCall
  PROVE  NumbersInv'
<1>1. /\ pc = "register" /\ pc' = pc /\ side' = side /\ found' = found
      /\ selectors' = selectors /\ entries' = entries
  BY DEF RegisterOCall, toolVars
<1>2. \A s \in DOMAIN exits' : selectors["app"][exits'[s]] = s
  BY DEF RegisterOCall, Registered, NumbersInv, HandlersInv
<1>3. QED BY <1>1, <1>2 DEF NumbersInv, SelectorsInv, HandlersInv

LEMMA NumbersInvStep == NumbersInv /\ [Next]_vars => NumbersInv'
<1> SUFFICES ASSUME NumbersInv, [Next]_vars PROVE NumbersInv'
  OBVIOUS
<1>1. CASE SkipDeclaration \/ FindDeclaration \/ NextSource \/ FinishFinding
  BY <1>1, FindKeeps
<1>2. CASE SelectFunction
  BY <1>2, SelectFunctionKeeps
<1>3. CASE FinishSelecting
  BY <1>3, FinishSelectingKeeps
<1>4. ASSUME NEW name \in Ecalls, RegisterFunction(name) PROVE NumbersInv'
  BY <1>4, RegisterKeeps DEF RegisterFunction
<1>5. CASE RegisterAbort
  BY <1>5, RegisterKeeps DEF RegisterAbort
<1>6. CASE LoadFails \/ FinishRegistering \/ UNCHANGED vars
  BY <1>6 DEF LoadFails, FinishRegistering, vars, toolVars,
              NumbersInv, SelectorsInv, HandlersInv
<1>7. CASE RegisterOCall
  BY <1>7, RegisterOCallKeeps
<1>8. QED BY <1>1, <1>2, <1>3, <1>4, <1>5, <1>6, <1>7 DEF Next

LEMMA NumbersInvDistinct == NumbersInv => SelectorsDistinct
BY DEF NumbersInv, SelectorsInv, HandlersInv, SelectorsDistinct

(***************************************************************************)
(* However often the declarations of a function are found, no two          *)
(* functions of a side share a selector, and every handler is registered   *)
(* for its own (SGXCodeGenerator::generateInterfaceSelectors).             *)
(***************************************************************************)
THEOREM SelectorsStayDistinct == Spec => []SelectorsDistinct
<1>1. Spec => []NumbersInv
  BY NumbersInvInit, NumbersInvStep, PTL DEF Spec
<1>2. QED BY <1>1, NumbersInvDistinct, PTL

(***************************************************************************)
(* Completeness: what is declared is found, what is found is numbered, and *)
(* what is numbered is registered, or the enclave is not there.            *)
(***************************************************************************)
Decl == [name : Names, definition : BOOLEAN]

DeclaredIn(srcs, n) == \E k \in 1 .. Len(srcs) : Declares(srcs[k], n)

\* The functions at the first m places of the list of a side, and at all.
FirstListed(s, m) == {found[s][k] : k \in 1 .. m}
Listed(s) == FirstListed(s, Len(found[s]))

ListsTypeOK ==
  /\ program \in Programs
  /\ sources \in Seq(Seq(Decl))
  /\ found \in [Sides -> Seq(Names)]
  /\ next \in Nat \ {0}
  /\ side \in Sides
  /\ pc \in {"find", "select", "init", "register", "main", "crashed"}

(***************************************************************************)
(* While a side is searched, a function of its interface has been found or *)
(* is declared further on.                                                 *)
(***************************************************************************)
FindingInv ==
  IF pc = "find"
  THEN /\ \A n \in Names : DeclaredIn(sources, n) => n \in Declared
       /\ Interface[side] \ wanted \subseteq Listed(side)
       /\ wanted \subseteq Interface[side]
       /\ Listed(side) \subseteq Interface[side] \cap Declared
       /\ \A n \in Interface[side] \cap Declared :
            n \in Listed(side) \/ DeclaredIn(sources, n)
       /\ side = "app" => Listed("secure") = Interface["secure"] \cap Declared
       /\ side = "secure" => Listed("app") = {}
       /\ next = 1
  ELSE \A s \in Sides : Listed(s) = Interface[s] \cap Declared

NumberingInv ==
  CASE pc = "find" -> TRUE
    [] pc = "select" ->
         /\ next <= Len(found[side]) + 1
         /\ DOMAIN selectors[side] = FirstListed(side, next - 1)
         /\ side = "app" => DOMAIN selectors["secure"] = Listed("secure")
         /\ side = "secure" => DOMAIN selectors["app"] = {}
    [] OTHER -> \A s \in Sides : DOMAIN selectors[s] = Listed(s)

RegisteringInv ==
  /\ pc \in {"find", "select", "init"} => ~loaded
  /\ pc = "init" => /\ next = 1 /\ DOMAIN exits = {}
                    /\ Handlers(entries) \subseteq Listed("secure")
  /\ pc = "register" =>
       /\ Handlers(entries) = Listed("secure") \cup {Abort}
       /\ next <= Len(found["app"]) + 1
       /\ Handlers(exits) = FirstListed("app", next - 1)
  /\ pc = "main" /\ loaded =>
       /\ Handlers(entries) = Listed("secure") \cup {Abort}
       /\ Handlers(exits) = Listed("app")

CompleteInv == ListsTypeOK /\ FindingInv /\ NumberingInv /\ RegisteringInv

LEMMA CompleteInvInit == Init => CompleteInv
<1> SUFFICES ASSUME Init PROVE CompleteInv
  OBVIOUS
<1>1. /\ program \in Programs /\ sources = program /\ pc = "find" /\ next = 1
      /\ found = [s \in Sides |-> << >>] /\ side = "secure" /\ ~loaded
      /\ wanted = Interface["secure"]
  BY DEF Init
<1>2. ListsTypeOK
  <2>1. sources \in Seq(Seq(Decl))
    BY <1>1, ProgramsAssumption DEF Decl
  <2>2. found \in [Sides -> Seq(Names)]
    BY <1>1
  <2>3. QED BY <1>1, <2>1, <2>2 DEF ListsTypeOK, Sides
<1>3. Listed("secure") = {} /\ Listed("app") = {}
  BY <1>1 DEF Listed, FirstListed, Sides
<1>4. FindingInv
  BY <1>1, <1>3 DEF FindingInv, DeclaredIn, Declared
<1>5. NumberingInv /\ RegisteringInv
  BY <1>1 DEF NumberingInv, RegisteringInv
<1>6. QED BY <1>2, <1>4, <1>5 DEF CompleteInv

(***************************************************************************)
(* What is declared in the sources still to be visited.                    *)
(***************************************************************************)
LEMMA FirstAndRest ==
  ASSUME ListsTypeOK, Visiting
  PROVE  /\ WithoutFirst \in Seq(Seq(Decl))
         /\ Head(sources) \in Seq(Decl) /\ Head(Head(sources)) \in Decl
         /\ Len(Head(sources)) \in Nat /\ Head(sources)[1] = Head(Head(sources))
         /\ \A n : DeclaredIn(sources, n) <=>
                     n = Head(Head(sources)).name \/ DeclaredIn(WithoutFirst, n)
         /\ \A k \in 2 .. Len(Head(sources)) :
              DeclaredIn(WithoutFirst, Head(sources)[k].name)
<1> DEFINE src == Head(sources)
           rest == WithoutFirst
<1>1. /\ sources \in Seq(Seq(Decl)) /\ sources # << >>
      /\ src \in Seq(Decl) /\ src # << >> /\ src = sources[1]
      /\ Tail(sources) \in Seq(Seq(Decl)) /\ Tail(src) \in Seq(Decl)
  BY DEF ListsTypeOK, Visiting
<1>2. /\ Head(src) \in Decl /\ Head(src) = src[1]
      /\ Len(Tail(src)) = Len(src) - 1 /\ Len(src) \in Nat /\ Len(src) >= 1
      /\ \A k \in 1 .. Len(src) - 1 : Tail(src)[k] = src[k + 1]
  BY <1>1
<1>3. /\ Len(Tail(sources)) = Len(sources) - 1 /\ Len(sources) \in Nat
      /\ Len(sources) >= 1
      /\ \A k \in 1 .. Len(sources) - 1 : Tail(sources)[k] = sources[k + 1]
  BY <1>1
<1>4. /\ rest \in Seq(Seq(Decl)) /\ Len(rest) = Len(sources)
      /\ rest[1] = Tail(src)
      /\ \A k \in 2 .. Len(sources) : rest[k] = sources[k]
  <2>1. <<Tail(src)>> \in Seq(Seq(Decl)) /\ Len(<<Tail(src)>>) = 1
    BY <1>1
  <2>2. /\ rest \in Seq(Seq(Decl)) /\ Len(rest) = 1 + Len(Tail(sources))
        /\ rest[1] = Tail(src)
        /\ \A k \in 1 .. Len(Tail(sources)) : rest[1 + k] = Tail(sources)[k]
    BY <1>1, <2>1, ConcatProperties DEF WithoutFirst
  <2>3. ASSUME NEW k \in 2 .. Len(sources) PROVE rest[k] = sources[k]
    <3>1. k - 1 \in 1 .. Len(sources) - 1 /\ 1 + (k - 1) = k /\ (k - 1) + 1 = k
      BY <1>3
    <3>2. rest[1 + (k - 1)] = sources[(k - 1) + 1]
      BY <1>3, <2>2, <3>1
    <3>3. QED BY <3>1, <3>2
  <2>4. QED BY <1>3, <2>2, <2>3
<1> HIDE DEF src, rest
<1>5. \A n : Declares(src, n) <=> n = Head(src).name \/ Declares(Tail(src), n)
  <2>1. SUFFICES ASSUME NEW n
                 PROVE  Declares(src, n) <=> n = Head(src).name \/ Declares(Tail(src), n)
    OBVIOUS
  <2>2. ASSUME NEW k \in 1 .. Len(src), src[k].name = n, k # 1
        PROVE  Declares(Tail(src), n)
    <3>1. k - 1 \in 1 .. Len(Tail(src)) /\ Tail(src)[k - 1] = src[(k - 1) + 1]
          /\ (k - 1) + 1 = k
      BY <1>2, <2>2
    <3>2. QED BY <2>2, <3>1 DEF Declares
  <2>3. ASSUME NEW k \in 1 .. Len(Tail(src)), Tail(src)[k].name = n
        PROVE  Declares(src, n)
    <3>1. k + 1 \in 1 .. Len(src) /\ src[k + 1] = Tail(src)[k]
      BY <1>2
    <3>2. QED BY <2>3, <3>1 DEF Declares
  <2>4. n = Head(src).name => Declares(src, n)
    BY <1>2 DEF Declares
  <2>5. Declares(src, n) => n = Head(src).name \/ Declares(Tail(src), n)
    BY <1>2, <2>2 DEF Declares
  <2>6. Declares(Tail(src), n) => Declares(src, n)
    BY <2>3 DEF Declares
  <2>7. QED BY <2>4, <2>5, <2>6
<1>6. \A n : DeclaredIn(sources, n) <=> n = Head(src).name \/ DeclaredIn(rest, n)
  <2>1. SUFFICES ASSUME NEW n
                 PROVE  DeclaredIn(sources, n) <=> n = Head(src).name \/ DeclaredIn(rest, n)
    OBVIOUS
  <2>2. Declares(sources[1], n) <=> n = Head(src).name \/ Declares(rest[1], n)
    BY <1>1, <1>4, <1>5
  <2>3. \A k \in 2 .. Len(sources) : Declares(sources[k], n) <=> Declares(rest[k], n)
    BY <1>4
  <2>4. \A k \in 1 .. Len(sources) : k = 1 \/ k \in 2 .. Len(sources)
    BY <1>3
  <2>5. 1 \in 1 .. Len(sources) /\ 1 \in 1 .. Len(rest)
    BY <1>3, <1>4
  <2>6. QED BY <1>4, <2>2, <2>3, <2>4, <2>5 DEF DeclaredIn
<1>7. ASSUME NEW k \in 2 .. Len(src) PROVE DeclaredIn(rest, src[k].name)
  <2>1. k - 1 \in 1 .. Len(Tail(src)) /\ Tail(src)[k - 1] = src[(k - 1) + 1]
        /\ (k - 1) + 1 = k
    BY <1>2
  <2>2. Declares(rest[1], src[k].name)
    BY <1>4, <2>1 DEF Declares
  <2>3. 1 \in 1 .. Len(rest)
    BY <1>3, <1>4
  <2>4. QED BY <2>2, <2>3 DEF DeclaredIn
<1>8. QED BY <1>1, <1>2, <1>4, <1>6, <1>7 DEF src, rest

(***************************************************************************)
(* A side of the finder, one declaration at a time.                        *)
(***************************************************************************)
LEMMA SkipDeclarationKeeps ==
  ASSUME CompleteInv, SkipDeclaration
  PROVE  CompleteInv'
<1> USE DEF CompleteInv
<1> DEFINE decl == Head(Head(sources))
<1>1. /\ pc = "find" /\ pc' = pc /\ Visiting /\ Skips(decl)
      /\ sources' = WithoutFirst
      /\ UNCHANGED <<program, side, wanted, found, selectors, next, entries, exits, loaded>>
  BY DEF SkipDeclaration, Visiting
<1>2. /\ WithoutFirst \in Seq(Seq(Decl))
      /\ \A n : DeclaredIn(sources, n) <=> n = decl.name \/ DeclaredIn(sources', n)
  BY <1>1, FirstAndRest
<1>3. decl.name \in wanted => DeclaredIn(sources', decl.name)
  <2>1. SUFFICES ASSUME decl.name \in wanted PROVE DeclaredIn(sources', decl.name)
    OBVIOUS
  <2>2. DefinedIn(decl.name, Head(sources)) /\ ~decl.definition
    BY <1>1, <2>1 DEF Skips
  <2>3. PICK k \in 1 .. Len(Head(sources)) :
          Head(sources)[k].name = decl.name /\ Head(sources)[k].definition
    BY <2>2 DEF DefinedIn
  <2>4. Len(Head(sources)) \in Nat /\ Head(sources)[1] = decl
    BY <1>1, FirstAndRest
  <2>5. k \in 2 .. Len(Head(sources))
    BY <2>2, <2>3, <2>4
  <2>6. QED BY <1>1, <2>3, <2>5, FirstAndRest
<1>4. ListsTypeOK'
  BY <1>1, <1>2 DEF ListsTypeOK
<1>5. FindingInv'
  <2>1. \A s \in Sides : Listed(s)' = Listed(s)
    BY <1>1 DEF Listed, FirstListed
  <2>2. Declared' = Declared
    BY <1>1 DEF Declared
  <2>3. side \in Sides /\ Interface[side] \subseteq Names
    BY DEF ListsTypeOK, Sides, Interface, Names
  <2>4. \A n \in Interface[side] \cap Declared :
          n \in Listed(side) \/ DeclaredIn(sources', n)
    BY <1>1, <1>2, <1>3, <2>3 DEF FindingInv
  <2>5. QED BY <1>1, <1>2, <2>1, <2>2, <2>3, <2>4 DEF FindingInv, Sides
<1>6. NumberingInv' /\ RegisteringInv'
  BY <1>1 DEF NumberingInv, RegisteringInv
<1>7. QED BY <1>4, <1>5, <1>6

LEMMA AppendListed ==
  ASSUME NEW S, NEW s \in Seq(S), NEW x \in S
  PROVE  {Append(s, x)[k] : k \in 1 .. Len(Append(s, x))}
           = {s[k] : k \in 1 .. Len(s)} \cup {x}
<1>1. /\ Len(s) \in Nat /\ Len(Append(s, x)) = Len(s) + 1
      /\ Append(s, x)[Len(s) + 1] = x
      /\ \A k \in 1 .. Len(s) : Append(s, x)[k] = s[k]
  OBVIOUS
<1>2. 1 .. Len(s) + 1 = (1 .. Len(s)) \cup {Len(s) + 1}
  BY <1>1
<1>3. QED BY <1>1, <1>2

LEMMA FindDeclarationKeeps ==
  ASSUME CompleteInv, FindDeclaration
  PROVE  CompleteInv'
<1> USE DEF CompleteInv
<1> DEFINE decl == Head(Head(sources))
<1>1. /\ pc = "find" /\ pc' = pc /\ Visiting /\ ~Skips(decl)
      /\ sources' = WithoutFirst
      /\ wanted' = IF decl.definition THEN wanted \ {decl.name} ELSE wanted
      /\ found' = [found EXCEPT ![side] = Append(@, decl.name)]
      /\ UNCHANGED <<program, side, selectors, next, entries, exits, loaded>>
  BY DEF FindDeclaration, Visiting
<1>2. /\ WithoutFirst \in Seq(Seq(Decl)) /\ decl \in Decl
      /\ \A n : DeclaredIn(sources, n) <=> n = decl.name \/ DeclaredIn(sources', n)
  BY <1>1, FirstAndRest
<1>3. decl.name \in Names /\ decl.name \in wanted /\ side \in Sides
  BY <1>1, <1>2 DEF Skips, Decl, ListsTypeOK
<1>4. ListsTypeOK'
  BY <1>1, <1>2, <1>3 DEF ListsTypeOK
<1>5. /\ Listed(side)' = Listed(side) \cup {decl.name}
      /\ \A s \in Sides \ {side} : Listed(s)' = Listed(s)
  <2>1. /\ found[side] \in Seq(Names) /\ found'[side] = Append(found[side], decl.name)
        /\ \A s \in Sides \ {side} : found'[s] = found[s]
    BY <1>1, <1>3 DEF ListsTypeOK
  <2>2. {found'[side][k] : k \in 1 .. Len(found'[side])}
          = {found[side][k] : k \in 1 .. Len(found[side])} \cup {decl.name}
    BY <1>3, <2>1, AppendListed
  <2>3. QED BY <1>1, <2>1, <2>2 DEF Listed, FirstListed
<1>6. FindingInv'
  <2>1. Declared' = Declared /\ Interface[side] \subseteq Names
    BY <1>1, <1>3 DEF Declared, Sides, Interface, Names
  <2>2. decl.name \in Declared /\ decl.name \in Interface[side]
    BY <1>1, <1>2, <1>3 DEF FindingInv
  <2>3. side = "app" => "secure" \in Sides \ {side}
    BY DEF Sides
  <2>4. side = "secure" => "app" \in Sides \ {side}
    BY DEF Sides
  <2>5. QED BY <1>1, <1>2, <1>5, <2>1, <2>2, <2>3, <2>4 DEF FindingInv
<1>7. NumberingInv' /\ RegisteringInv'
  BY <1>1 DEF NumberingInv, RegisteringInv
<1>8. QED BY <1>4, <1>6, <1>7

LEMMA NextSourceKeeps ==
  ASSUME CompleteInv, NextSource
  PROVE  CompleteInv'
<1> USE DEF CompleteInv
<1>1. /\ pc = "find" /\ pc' = pc /\ sources # << >> /\ Head(sources) = << >>
      /\ sources' = Tail(sources)
      /\ UNCHANGED <<program, side, wanted, found, selectors, next, entries, exits, loaded>>
  BY DEF NextSource
<1>2. /\ sources \in Seq(Seq(Decl)) /\ Tail(sources) \in Seq(Seq(Decl))
      /\ Len(Tail(sources)) = Len(sources) - 1 /\ Len(sources) \in Nat
      /\ sources[1] = << >>
      /\ \A k \in 1 .. Len(sources) - 1 : Tail(sources)[k] = sources[k + 1]
  BY <1>1 DEF ListsTypeOK
<1>3. \A n : DeclaredIn(sources, n) <=> DeclaredIn(sources', n)
  <2>1. SUFFICES ASSUME NEW n PROVE DeclaredIn(sources, n) <=> DeclaredIn(sources', n)
    OBVIOUS
  <2>2. ~Declares(sources[1], n)
    BY <1>2 DEF Declares
  <2>3. ASSUME NEW k \in 1 .. Len(sources), Declares(sources[k], n)
        PROVE  DeclaredIn(sources', n)
    <3>1. k # 1
      BY <2>2, <2>3
    <3>2. k - 1 \in 1 .. Len(sources) - 1 /\ (k - 1) + 1 = k
      BY <1>2, <3>1
    <3>3. QED BY <1>1, <1>2, <2>3, <3>2 DEF DeclaredIn
  <2>4. ASSUME NEW k \in 1 .. Len(sources'), Declares(sources'[k], n)
        PROVE  DeclaredIn(sources, n)
    <3>1. k + 1 \in 1 .. Len(sources) /\ sources[k + 1] = sources'[k]
      BY <1>1, <1>2
    <3>2. QED BY <2>4, <3>1 DEF DeclaredIn
  <2>5. QED BY <2>3, <2>4 DEF DeclaredIn
<1>4. ListsTypeOK'
  BY <1>1, <1>2 DEF ListsTypeOK
<1>5. FindingInv'
  <2>1. Listed("secure")' = Listed("secure") /\ Listed("app")' = Listed("app")
        /\ Listed(side)' = Listed(side)
    BY <1>1 DEF Listed, FirstListed
  <2>2. Declared' = Declared
    BY <1>1 DEF Declared
  <2>3. QED BY <1>1, <1>3, <2>1, <2>2 DEF FindingInv
<1>6. NumberingInv' /\ RegisteringInv'
  BY <1>1 DEF NumberingInv, RegisteringInv
<1>7. QED BY <1>4, <1>5, <1>6

LEMMA FinishFindingKeeps ==
  ASSUME NumbersInv, CompleteInv, FinishFinding
  PROVE  CompleteInv'
<1> USE DEF CompleteInv
<1>1. /\ pc = "find" /\ sources = << >>
      /\ UNCHANGED <<program, found, selectors, next, entries, exits, loaded>>
  BY DEF FinishFinding
<1>2. \A s \in Sides : Listed(s)' = Listed(s)
  BY <1>1 DEF Listed, FirstListed
<1>3. Declared' = Declared
  BY <1>1 DEF Declared
<1>4. \A n : ~DeclaredIn(sources, n)
  BY <1>1 DEF DeclaredIn
<1>5. Listed(side) = Interface[side] \cap Declared
  BY <1>1, <1>4 DEF FindingInv
<1>6. CASE side = "secure"
  <2>1. /\ side' = "app" /\ wanted' = Interface["app"] /\ sources' = program /\ pc' = pc
    BY <1>6 DEF FinishFinding
  <2>2. ListsTypeOK'
    <3>1. program \in Seq(Seq(Decl))
      BY ProgramsAssumption DEF ListsTypeOK, Decl
    <3>2. QED BY <1>1, <2>1, <3>1 DEF ListsTypeOK, Sides
  <2>3. FindingInv'
    <3>1. \A n \in Names : DeclaredIn(program, n) <=> n \in Declared
      BY DEF DeclaredIn, Declared
    <3>2. Interface["app"] \subseteq Names
      BY DEF Interface, Sides, Names
    <3>3. Listed("app")' = {} /\ Listed("secure")' = Interface["secure"] \cap Declared
      BY <1>1, <1>2, <1>5, <1>6 DEF FindingInv, Sides
    <3>4. \A n : DeclaredIn(sources', n) <=> DeclaredIn(program, n)
      BY <2>1 DEF DeclaredIn
    <3>5. QED BY <1>1, <1>3, <2>1, <3>1, <3>2, <3>3, <3>4 DEF FindingInv
  <2>4. NumberingInv' /\ RegisteringInv'
    BY <1>1, <2>1 DEF NumberingInv, RegisteringInv
  <2>5. QED BY <2>2, <2>3, <2>4
<1>7. CASE side = "app"
  <2>1. side' = "secure" /\ pc' = "select" /\ sources' = sources
    BY <1>7 DEF FinishFinding
  <2>2. ListsTypeOK'
    BY <1>1, <2>1 DEF ListsTypeOK, Sides
  <2>3. FindingInv'
    BY <1>1, <1>2, <1>3, <1>5, <1>7, <2>1 DEF FindingInv, Sides
  <2>4. NumberingInv'
    <3>1. next = 1
      BY <1>1 DEF FindingInv
    <3>2. DOMAIN selectors["secure"] = {} /\ DOMAIN selectors["app"] = {}
      BY <1>1 DEF NumbersInv, SelectorsInv, Sides
    <3>3. FirstListed("secure", next - 1)' = {}
      BY <1>1, <3>1 DEF FirstListed
    <3>4. Len(found["secure"]) \in Nat
      BY DEF ListsTypeOK, Sides
    <3>5. QED BY <1>1, <2>1, <3>1, <3>2, <3>3, <3>4 DEF NumberingInv
  <2>5. RegisteringInv'
    BY <1>1, <2>1 DEF RegisteringInv
  <2>6. QED BY <2>2, <2>3, <2>4, <2>5
<1>8. QED BY <1>6, <1>7 DEF ListsTypeOK, Sides

(***************************************************************************)
(* One more place of a list is looked at.                                  *)
(***************************************************************************)
LEMMA NextListed ==
  ASSUME ListsTypeOK, NEW s \in Sides, next <= Len(found[s])
  PROVE  /\ FirstListed(s, next) = FirstListed(s, next - 1) \cup {found[s][next]}
         /\ next \in 1 .. Len(found[s]) /\ found[s][next] \in Listed(s)
<1>1. next \in 1 .. Len(found[s]) /\ Len(found[s]) \in Nat
  BY DEF ListsTypeOK
<1>2. 1 .. next = (1 .. next - 1) \cup {next}
  BY <1>1
<1>3. QED BY <1>1, <1>2 DEF FirstListed, Listed

LEMMA SelectFunctionCompletes ==
  ASSUME NumbersInv, CompleteInv, SelectFunction
  PROVE  CompleteInv'
<1> USE DEF CompleteInv
<1> DEFINE name == found[side][next]
<1>1. /\ pc = "select" /\ pc' = pc /\ next <= Len(found[side]) /\ next' = next + 1
      /\ selectors' = [selectors EXCEPT ![side] = WithSelector(@, name, next)]
      /\ UNCHANGED <<program, side, sources, found, entries, exits, loaded>>
  BY DEF SelectFunction
<1>2. side \in Sides /\ next \in Nat
  BY DEF ListsTypeOK
<1>3. /\ DOMAIN selectors'[side] = DOMAIN selectors[side] \cup {name}
      /\ \A s \in Sides \ {side} : selectors'[s] = selectors[s]
  BY <1>1, <1>2 DEF WithSelector, NumbersInv, SelectorsInv
<1>4. ListsTypeOK'
  BY <1>1, <1>2 DEF ListsTypeOK
<1>5. FindingInv'
  <2>1. \A s \in Sides : Listed(s)' = Listed(s)
    BY <1>1 DEF Listed, FirstListed
  <2>2. Declared' = Declared
    BY <1>1 DEF Declared
  <2>3. QED BY <1>1, <2>1, <2>2 DEF FindingInv
<1>6. NumberingInv'
  <2>1. DOMAIN selectors[side] = FirstListed(side, next - 1)
    BY <1>1 DEF NumberingInv
  <2>2. next' - 1 = next /\ next' <= Len(found[side]) + 1
    BY <1>1, <1>2 DEF ListsTypeOK
  <2>3. FirstListed(side, next - 1)' = FirstListed(side, next)
    BY <1>1, <2>2 DEF FirstListed
  <2>4. DOMAIN selectors'[side] = FirstListed(side, next - 1)'
    BY <1>1, <1>2, <1>3, <2>1, <2>3, NextListed
  <2>5. Listed("secure")' = Listed("secure")
    BY <1>1 DEF Listed, FirstListed
  <2>6. /\ side = "app" => selectors'["secure"] = selectors["secure"]
        /\ side = "secure" => selectors'["app"] = selectors["app"]
    BY <1>3 DEF Sides
  <2>7. QED BY <1>1, <2>2, <2>4, <2>5, <2>6 DEF NumberingInv
<1>7. RegisteringInv'
  BY <1>1 DEF RegisteringInv
<1>8. QED BY <1>4, <1>5, <1>6, <1>7

\* Steps after the search leave what has been found and declared alone.
LEMMA FoundStays ==
  ASSUME CompleteInv, pc # "find", pc' \in {"select", "init", "register", "main", "crashed"},
         UNCHANGED <<program, sources, found>>, side' \in Sides, next' \in Nat \ {0}
  PROVE  /\ ListsTypeOK' /\ FindingInv'
         /\ \A s, m : FirstListed(s, m)' = {found[s][k] : k \in 1 .. m'}
         /\ \A s : Listed(s)' = Listed(s)
<1>1. \A s : Listed(s)' = Listed(s)
  BY DEF Listed, FirstListed
<1>2. Declared' = Declared
  BY DEF Declared
<1>3. ListsTypeOK'
  BY DEF CompleteInv, ListsTypeOK
<1>4. FindingInv'
  BY <1>1, <1>2 DEF CompleteInv, FindingInv
<1>5. QED BY <1>1, <1>3, <1>4 DEF FirstListed

LEMMA FinishSelectingCompletes ==
  ASSUME NumbersInv, CompleteInv, FinishSelecting
  PROVE  CompleteInv'
<1> USE DEF CompleteInv
<1>1. /\ pc = "select" /\ next > Len(found[side]) /\ next' = 1
      /\ UNCHANGED <<program, sources, found, selectors, entries, exits, loaded>>
      /\ side \in Sides /\ side' \in Sides /\ pc' \in {"select", "init"}
      /\ side = "secure" => side' = "app" /\ pc' = "select"
      /\ side = "app" => pc' = "init"
  BY DEF FinishSelecting, ListsTypeOK, Sides
<1>2. /\ ListsTypeOK' /\ FindingInv' /\ \A s : Listed(s)' = Listed(s)
  BY <1>1, FoundStays
<1>3. DOMAIN selectors[side] = Listed(side)
  <2>1. next - 1 = Len(found[side])
    BY <1>1 DEF ListsTypeOK, NumberingInv
  <2>2. QED BY <1>1, <2>1 DEF NumberingInv, Listed
<1>4. NumberingInv'
  <2>1. CASE side = "secure"
    <3>1. DOMAIN selectors["app"] = {}
      BY <1>1, <2>1 DEF NumberingInv
    <3>2. FirstListed("app", next - 1)' = {}
      BY <1>1 DEF FirstListed
    <3>3. next' <= Len(found'["app"]) + 1
      BY <1>1, <1>2 DEF ListsTypeOK, Sides
    <3>4. QED BY <1>1, <1>2, <1>3, <2>1, <3>1, <3>2, <3>3 DEF NumberingInv
  <2>2. CASE side = "app"
    BY <1>1, <1>2, <1>3, <2>2 DEF NumberingInv, Sides
  <2>3. QED BY <1>1, <2>1, <2>2 DEF Sides
<1>5. RegisteringInv'
  <2>1. DOMAIN entries = {} /\ DOMAIN exits = {} /\ ~loaded
    BY <1>1 DEF NumbersInv, HandlersInv, RegisteringInv
  <2>2. Handlers(entries)' = {}
    BY <1>1, <2>1 DEF Handlers
  <2>3. QED BY <1>1, <2>1, <2>2 DEF RegisteringInv
<1>6. QED BY <1>2, <1>4, <1>5

LEMMA HandlersOfRegistered ==
  ASSUME NEW table, NEW number, NEW handler, number \notin DOMAIN table
  PROVE  Handlers(Registered(table, number, handler)) = Handlers(table) \cup {handler}
<1> DEFINE new == Registered(table, number, handler)
<1>1. /\ DOMAIN new = DOMAIN table \cup {number} /\ new[number] = handler
      /\ \A s \in DOMAIN table : new[s] = table[s]
  BY DEF Registered
<1> HIDE DEF new
<1>2. Handlers(new) = Handlers(table) \cup {handler}
  BY <1>1 DEF Handlers
<1>3. QED BY <1>2 DEF new

LEMMA RegisterCompletes ==
  ASSUME NumbersInv, CompleteInv, NEW number, NEW handler, Register(number, handler),
         IF handler = Abort THEN DOMAIN selectors["secure"] \subseteq Handlers(entries)
                            ELSE handler \in DOMAIN selectors["secure"]
  PROVE  CompleteInv'
<1> USE DEF CompleteInv
<1>1. /\ pc = "init" /\ pc' \in {"init", "main", "register"}
      /\ UNCHANGED <<program, side, sources, found, selectors, next, exits>>
  BY DEF Register, toolVars
<1>2. /\ next = 1 /\ DOMAIN exits = {} /\ ~loaded
      /\ Handlers(entries) \subseteq Listed("secure")
      /\ \A s \in Sides : DOMAIN selectors[s] = Listed(s)
  BY <1>1 DEF RegisteringInv, NumberingInv
<1>3. /\ ListsTypeOK' /\ FindingInv' /\ \A s : Listed(s)' = Listed(s)
  BY <1>1, <1>2, FoundStays DEF ListsTypeOK
<1>4. NumberingInv'
  BY <1>1, <1>2, <1>3 DEF NumberingInv
<1>5. RegisteringInv'
  <2>1. CASE number \in DOMAIN entries
    <3>1. pc' = "main" /\ ~loaded'
      BY <1>2, <2>1 DEF Register
    <3>2. QED BY <3>1 DEF RegisteringInv
  <2>2. CASE number \notin DOMAIN entries /\ handler = Abort
    <3>1. pc' = "register" /\ entries' = Registered(entries, number, Abort)
      BY <2>2 DEF Register
    <3>2. Handlers(entries)' = Handlers(entries) \cup {Abort}
      BY <2>2, <3>1, HandlersOfRegistered
    <3>3. Handlers(entries) = Listed("secure")
      BY <1>2, <2>2 DEF Sides
    <3>4. Handlers(exits)' = {} /\ FirstListed("app", next - 1)' = {}
      BY <1>1, <1>2 DEF Handlers, FirstListed
    <3>5. next' <= Len(found'["app"]) + 1
      BY <1>1, <1>2 DEF ListsTypeOK, Sides
    <3>6. QED BY <1>3, <3>1, <3>2, <3>3, <3>4, <3>5 DEF RegisteringInv
  <2>3. CASE number \notin DOMAIN entries /\ handler # Abort
    <3>1. pc' = "init" /\ ~loaded' /\ entries' = Registered(entries, number, handler)
      BY <1>1, <2>3 DEF Register
    <3>2. Handlers(entries)' = Handlers(entries) \cup {handler}
      BY <2>3, <3>1, HandlersOfRegistered
    <3>3. handler \in Listed("secure")
      BY <1>2, <2>3 DEF Sides
    <3>4. QED BY <1>1, <1>2, <1>3, <3>1, <3>2, <3>3 DEF RegisteringInv
  <2>4. QED BY <2>1, <2>2, <2>3
<1>6. QED BY <1>3, <1>4, <1>5

(***************************************************************************)
(* RegisterExitHandler refuses a selector only if it is the same function  *)
(* that has it: there is nothing to be lost.                               *)
(***************************************************************************)
LEMMA RegisterOCallCompletes ==
  ASSUME NumbersInv, CompleteInv, RegisterOCall
  PROVE  CompleteInv'
<1> USE DEF CompleteInv
<1> DEFINE name == found["app"][next]
           number == selectors["app"][name]
<1>1. /\ pc = "register" /\ pc' = pc /\ next <= Len(found["app"]) /\ next' = next + 1
      /\ exits' = IF number \in DOMAIN exits THEN exits
                  ELSE Registered(exits, number, name)
      /\ UNCHANGED <<program, side, sources, found, selectors, entries, loaded>>
  BY DEF RegisterOCall, toolVars
<1>2. /\ "app" \in Sides /\ next \in Nat \ {0} /\ next' \in Nat \ {0}
      /\ next' - 1 = next /\ next' <= Len(found["app"]) + 1 /\ side \in Sides
  BY <1>1 DEF ListsTypeOK, Sides
<1>3. /\ ListsTypeOK' /\ FindingInv' /\ \A s : Listed(s)' = Listed(s)
  BY <1>1, <1>2, FoundStays
<1>4. /\ \A s \in Sides : DOMAIN selectors[s] = Listed(s)
      /\ Handlers(entries) = Listed("secure") \cup {Abort}
      /\ Handlers(exits) = FirstListed("app", next - 1)
  BY <1>1 DEF NumberingInv, RegisteringInv
<1>5. NumberingInv'
  BY <1>1, <1>3, <1>4 DEF NumberingInv
<1>6. /\ FirstListed("app", next) = FirstListed("app", next - 1) \cup {name}
      /\ name \in Listed("app")
  BY <1>1, <1>2, NextListed
<1>7. Handlers(exits)' = Handlers(exits) \cup {name}
  <2>1. CASE number \in DOMAIN exits
    <3>1. exits[number] \in Handlers(exits)
      BY <2>1 DEF Handlers
    <3>2. Handlers(exits) \subseteq Listed("app")
      <4>1. next - 1 <= Len(found["app"]) /\ Len(found["app"]) \in Nat
        BY <1>1, <1>2 DEF ListsTypeOK
      <4>2. QED BY <1>2, <1>4, <4>1 DEF FirstListed, Listed
    <3>3. exits[number] \in DOMAIN selectors["app"] /\ name \in DOMAIN selectors["app"]
      BY <1>2, <1>4, <1>6, <3>1, <3>2
    <3>4. selectors["app"][exits[number]] = number
      BY <2>1 DEF NumbersInv, HandlersInv
    <3>5. exits[number] = name
      BY <1>2, <3>3, <3>4 DEF NumbersInv, SelectorsInv
    <3>6. exits' = exits
      BY <1>1, <2>1
    <3>7. QED BY <3>1, <3>5, <3>6
  <2>2. CASE number \notin DOMAIN exits
    BY <1>1, <2>2, HandlersOfRegistered
  <2>3. QED BY <2>1, <2>2
<1>8. RegisteringInv'
  <2>1. FirstListed("app", next - 1)' = FirstListed("app", next)
    BY <1>1, <1>2 DEF FirstListed
  <2>2. Handlers(entries)' = Listed("secure")' \cup {Abort}
    BY <1>1, <1>3, <1>4 DEF Handlers
  <2>3. QED BY <1>1, <1>2, <1>4, <1>6, <1>7, <2>1, <2>2 DEF RegisteringInv
<1>9. QED BY <1>3, <1>5, <1>8

LEMMA FinishRegisteringCompletes ==
  ASSUME CompleteInv, FinishRegistering
  PROVE  CompleteInv'
<1> USE DEF CompleteInv
<1>1. /\ pc = "register" /\ next > Len(found["app"]) /\ pc' \in {"main", "crashed"}
      /\ UNCHANGED <<program, side, sources, found, selectors, next, entries, exits, loaded>>
  BY DEF FinishRegistering, toolVars
<1>2. /\ ListsTypeOK' /\ FindingInv' /\ \A s : Listed(s)' = Listed(s)
  BY <1>1, FoundStays DEF ListsTypeOK
<1>3. NumberingInv'
  BY <1>1, <1>2 DEF NumberingInv
<1>4. next - 1 = Len(found["app"])
  BY <1>1 DEF ListsTypeOK, RegisteringInv, Sides
<1>5. RegisteringInv'
  BY <1>1, <1>2, <1>4 DEF RegisteringInv, Listed, Handlers
<1>6. QED BY <1>2, <1>3, <1>5

LEMMA QuietCompletes ==
  ASSUME CompleteInv, LoadFails \/ UNCHANGED vars
  PROVE  CompleteInv'
<1>1. CASE LoadFails
  <2>1. /\ pc = "init" /\ pc' = "main" /\ ~loaded'
        /\ UNCHANGED <<program, side, sources, found, selectors, next>>
    BY <1>1 DEF LoadFails, toolVars, CompleteInv, RegisteringInv
  <2>2. /\ ListsTypeOK' /\ FindingInv' /\ \A s : Listed(s)' = Listed(s)
    BY <2>1, FoundStays DEF CompleteInv, ListsTypeOK
  <2>3. NumberingInv' /\ RegisteringInv'
    BY <2>1, <2>2 DEF CompleteInv, NumberingInv, RegisteringInv
  <2>4. QED BY <2>2, <2>3 DEF CompleteInv
<1>2. CASE UNCHANGED vars
  <2>1. UNCHANGED <<program, side, sources, wanted, found, selectors,
                    pc, next, entries, exits, loaded>>
    BY <1>2 DEF vars, toolVars
  <2>2. /\ ListsTypeOK' /\ \A s : Listed(s)' = Listed(s)
        /\ \A s, m : FirstListed(s, m)' = FirstListed(s, m)
        /\ Declared' = Declared
        /\ \A n : DeclaredIn(sources, n)' = DeclaredIn(sources, n)
        /\ Handlers(entries)' = Handlers(entries)
        /\ Handlers(exits)' = Handlers(exits)
    BY <2>1 DEF CompleteInv, ListsTypeOK, Listed, FirstListed, Declared, Declares,
                DeclaredIn, Handlers
  <2>3. FindingInv'
    BY <2>1, <2>2 DEF CompleteInv, FindingInv
  <2>4. NumberingInv'
    BY <2>1, <2>2 DEF CompleteInv, NumberingInv, FirstListed
  <2>5. RegisteringInv'
    BY <2>1, <2>2 DEF CompleteInv, RegisteringInv, FirstListed
  <2>6. QED BY <2>2, <2>3, <2>4, <2>5 DEF CompleteInv
<1>3. QED BY <1>1, <1>2

LEMMA CompleteInvStep == NumbersInv /\ CompleteInv /\ [Next]_vars => CompleteInv'
<1> SUFFICES ASSUME NumbersInv, CompleteInv, [Next]_vars PROVE CompleteInv'
  OBVIOUS
<1>1. CASE SkipDeclaration \/ FindDeclaration \/ NextSource \/ FinishFinding
  BY <1>1, SkipDeclarationKeeps, FindDeclarationKeeps, NextSourceKeeps, FinishFindingKeeps
<1>2. CASE SelectFunction \/ FinishSelecting
  BY <1>2, SelectFunctionCompletes, FinishSelectingCompletes
<1>3. ASSUME NEW name \in Ecalls, RegisterFunction(name) PROVE CompleteInv'
  <2>1. name # Abort
    BY NamesAssumption DEF Names
  <2>2. QED BY <1>3, <2>1, RegisterCompletes DEF RegisterFunction
<1>4. CASE RegisterAbort
  BY <1>4, RegisterCompletes DEF RegisterAbort
<1>5. CASE RegisterOCall \/ FinishRegistering
  BY <1>5, RegisterOCallCompletes, FinishRegisteringCompletes
<1>6. CASE LoadFails \/ UNCHANGED vars
  BY <1>6, QuietCompletes
<1>7. QED BY <1>1, <1>2, <1>3, <1>4, <1>5, <1>6 DEF Next

LEMMA CompleteInvStarted == CompleteInv => StartedComplete
<1> SUFFICES ASSUME CompleteInv, pc = "main", loaded
             PROVE  /\ Handlers(entries) = (Declared \cap Ecalls) \cup {Abort}
                    /\ Handlers(exits) = Declared \cap Ocalls
  BY DEF StartedComplete
<1>1. /\ Listed("secure") = Ecalls \cap Declared
      /\ Listed("app") = Ocalls \cap Declared
  BY DEF CompleteInv, FindingInv, Interface, Sides
<1>2. QED BY <1>1 DEF CompleteInv, RegisteringInv

(***************************************************************************)
(* Where the application has an enclave, exactly the declared interface    *)
(* functions, and Abort, can be called across the border, however often    *)
(* and in how many sources each is declared (the generated                 *)
(* asylo_enclave_init, registerOCalls and main).                           *)
(***************************************************************************)
THEOREM StartsComplete == Spec => []StartedComplete
<1>1. Init => NumbersInv /\ CompleteInv
  BY NumbersInvInit, CompleteInvInit
<1>2. NumbersInv /\ CompleteInv /\ [Next]_vars => (NumbersInv /\ CompleteInv)'
  BY NumbersInvStep, CompleteInvStep
<1>3. Spec => [](NumbersInv /\ CompleteInv)
  BY <1>1, <1>2, PTL DEF Spec
<1>4. QED BY <1>3, CompleteInvStarted, PTL

(***************************************************************************)
(* A start that fails.  The sources still to be visited, with the rest of  *)
(* the first, begin with a definition of a wanted name if the program did. *)
(***************************************************************************)
FirstDefines(srcs, n) ==
  \E k \in 1 .. Len(srcs) :
    /\ DefinedIn(n, srcs[k])
    /\ \A j \in 1 .. k - 1 : ~Declares(srcs[j], n)

LEMMA FirstDefinesRest ==
  ASSUME ListsTypeOK, Visiting, NEW n, FirstDefines(sources, n),
         NEW d, d = Head(Head(sources))
  PROVE  /\ d.name = n => DefinedIn(n, Head(sources))
         /\ ~(d.name = n /\ d.definition) => FirstDefines(WithoutFirst, n)
<1> DEFINE src == Head(sources)
           rest == WithoutFirst
<1>1. /\ sources \in Seq(Seq(Decl)) /\ sources # << >>
      /\ src \in Seq(Decl) /\ src # << >> /\ src = sources[1]
      /\ Tail(sources) \in Seq(Seq(Decl)) /\ Tail(src) \in Seq(Decl)
  BY DEF ListsTypeOK, Visiting
<1>2. /\ d = src[1]
      /\ Len(Tail(src)) = Len(src) - 1 /\ Len(src) \in Nat /\ Len(src) >= 1
      /\ \A k \in 1 .. Len(src) - 1 : Tail(src)[k] = src[k + 1]
  BY <1>1
<1>3. /\ Len(sources) \in Nat /\ Len(sources) >= 1 /\ Len(rest) = Len(sources)
      /\ rest[1] = Tail(src)
      /\ \A k \in 2 .. Len(sources) : rest[k] = sources[k]
  <2>1. <<Tail(src)>> \in Seq(Seq(Decl)) /\ Len(<<Tail(src)>>) = 1
    BY <1>1
  <2>2. /\ Len(rest) = 1 + Len(Tail(sources)) /\ rest[1] = Tail(src)
        /\ \A k \in 1 .. Len(Tail(sources)) : rest[1 + k] = Tail(sources)[k]
    BY <1>1, <2>1, ConcatProperties DEF WithoutFirst
  <2>3. /\ Len(Tail(sources)) = Len(sources) - 1 /\ Len(sources) \in Nat
        /\ Len(sources) >= 1
        /\ \A k \in 1 .. Len(sources) - 1 : Tail(sources)[k] = sources[k + 1]
    BY <1>1
  <2>4. ASSUME NEW k \in 2 .. Len(sources) PROVE rest[k] = sources[k]
    <3>1. k - 1 \in 1 .. Len(sources) - 1 /\ 1 + (k - 1) = k /\ (k - 1) + 1 = k
      BY <2>3
    <3>2. rest[1 + (k - 1)] = sources[(k - 1) + 1]
      BY <2>2, <2>3, <3>1
    <3>3. QED BY <3>1, <3>2
  <2>5. QED BY <2>2, <2>3, <2>4
<1>4. PICK k \in 1 .. Len(sources) :
        DefinedIn(n, sources[k]) /\ \A j \in 1 .. k - 1 : ~Declares(sources[j], n)
  BY DEF FirstDefines
<1> HIDE DEF src, rest
<1>5. ASSUME d.name = n PROVE k = 1
  <2>1. Declares(sources[1], n)
    BY <1>1, <1>2, <1>5 DEF Declares
  <2>2. k > 1 => 1 \in 1 .. k - 1
    BY <1>3
  <2>3. QED BY <1>3, <1>4, <2>1, <2>2
<1>6. ASSUME k = 1, ~(d.name = n /\ d.definition) PROVE DefinedIn(n, rest[1])
  <2>1. PICK i \in 1 .. Len(src) : src[i].name = n /\ src[i].definition
    BY <1>1, <1>4, <1>6 DEF DefinedIn
  <2>2. i # 1
    BY <1>2, <1>6, <2>1
  <2> DEFINE h == i - 1
  <2>3. h \in 1 .. Len(src) - 1 /\ h + 1 = i
    BY <1>2, <2>2
  <2> HIDE DEF h
  <2>4. h \in 1 .. Len(rest[1]) /\ rest[1][h] = src[i]
    BY <1>2, <1>3, <2>3
  <2>5. QED BY <2>1, <2>4 DEF DefinedIn
<1>7. ~Declares(src, n) => ~Declares(rest[1], n)
  <2> SUFFICES ASSUME NEW i \in 1 .. Len(rest[1]), rest[1][i].name = n PROVE Declares(src, n)
    BY DEF Declares
  <2> DEFINE h == i + 1
  <2>1. h \in 1 .. Len(src) /\ src[h] = rest[1][i]
    BY <1>2, <1>3
  <2> HIDE DEF h
  <2>2. QED BY <2>1 DEF Declares
<1>8. ASSUME k # 1 PROVE FirstDefines(rest, n)
  <2>1. k \in 2 .. Len(sources) /\ 1 \in 1 .. k - 1
    BY <1>3, <1>8
  <2>2. DefinedIn(n, rest[k]) /\ k \in 1 .. Len(rest)
    BY <1>3, <1>4, <2>1
  <2>3. ASSUME NEW j \in 1 .. k - 1 PROVE ~Declares(rest[j], n)
    <3>1. CASE j = 1
      BY <1>1, <1>4, <1>7, <2>1, <3>1
    <3>2. CASE j # 1
      <4>1. j \in 2 .. Len(sources)
        BY <1>3, <3>2
      <4>2. QED BY <1>3, <1>4, <4>1
    <3>3. QED BY <3>1, <3>2
  <2>4. QED BY <2>2, <2>3 DEF FirstDefines
<1>9. ASSUME k = 1, ~(d.name = n /\ d.definition) PROVE FirstDefines(rest, n)
  <2>1. 1 \in 1 .. Len(rest) /\ 1 .. 1 - 1 = {}
    BY <1>3
  <2>2. QED BY <1>6, <1>9, <2>1 DEF FirstDefines
<1>10. d.name = n => DefinedIn(n, src)
  BY <1>1, <1>4, <1>5
<1>11. QED BY <1>8, <1>9, <1>10 DEF src, rest

(***************************************************************************)
(* A name whose definition comes first is not found before that, and no    *)
(* more wanted afterwards.                                                 *)
(***************************************************************************)
FoundOnceInv ==
  \A n \in Names : DefinedFirst(n) =>
    /\ FoundOnce(n)
    /\ pc = "find" /\ n \in wanted => n \notin Listed(side) /\ FirstDefines(sources, n)

PlacesInv ==
  \A s \in Sides : \A n \in DOMAIN selectors[s] : selectors[s][n] \in 1 .. Len(found[s])

StartInv ==
  /\ FoundOnceInv
  /\ PlacesInv
  /\ pc = "register" => loaded
  /\ pc = "main" /\ ~loaded /\ entries # EmptyMap => \E n \in Ecalls : ~FoundOnce(n)

LEMMA FindDeclarationOnce ==
  ASSUME NumbersInv, CompleteInv, FoundOnceInv, FindDeclaration
  PROVE  FoundOnceInv'
<1> DEFINE d == Head(Head(sources))
<1>1. /\ pc = "find" /\ Visiting /\ ~Skips(d) /\ ListsTypeOK
      /\ wanted' = IF d.definition THEN wanted \ {d.name} ELSE wanted
      /\ found' = [found EXCEPT ![side] = Append(@, d.name)]
      /\ sources' = WithoutFirst /\ UNCHANGED <<program, side, pc>>
  BY DEF FindDeclaration, CompleteInv, Visiting
<1>2. d.name \in wanted /\ (DefinedIn(d.name, Head(sources)) => d.definition)
  BY <1>1 DEF Skips
<1>3. /\ found \in [Sides -> Seq(Names)] /\ side \in Sides /\ d.name \in Names
      /\ wanted \subseteq Names
  <2>1. d \in Decl
    BY <1>1, FirstAndRest
  <2>2. QED BY <1>1, <2>1 DEF ListsTypeOK, Decl, CompleteInv, FindingInv, Interface, Sides, Names
<1> DEFINE l == found[side]
           m == found'[side]
<1>4. /\ l \in Seq(Names) /\ Len(l) \in Nat /\ Len(m) = Len(l) + 1
      /\ m[Len(l) + 1] = d.name /\ \A k \in 1 .. Len(l) : m[k] = l[k]
      /\ \A s \in Sides \ {side} : found'[s] = found[s]
  BY <1>1, <1>3
<1>5. Listed(side)' = Listed(side) \cup {d.name}
  <2>1. 1 .. Len(m) = (1 .. Len(l)) \cup {Len(m)} /\ m[Len(m)] = d.name
    BY <1>4
  <2>2. Listed(side)' = {m[k] : k \in 1 .. Len(m)} /\ Listed(side) = {l[k] : k \in 1 .. Len(l)}
    BY <1>1 DEF Listed, FirstListed
  <2> HIDE DEF m, l, d
  <2>3. QED BY <1>4, <2>1, <2>2
<1> SUFFICES ASSUME NEW n \in Names, DefinedFirst(n)
             PROVE  /\ FoundOnce(n)'
                    /\ n \in wanted' => n \notin Listed(side)' /\ FirstDefines(sources, n)'
  BY <1>1 DEF FoundOnceInv, DefinedFirst
<1>6. /\ FoundOnce(n)
      /\ n \in wanted => n \notin Listed(side) /\ FirstDefines(sources, n)
  BY <1>1 DEF FoundOnceInv
<1>7. CASE n = d.name
  <2>1. n \notin Listed(side) /\ FirstDefines(sources, n)
    BY <1>2, <1>6, <1>7
  <2>2. n \notin wanted'
    BY <1>1, <1>2, <1>7, <2>1, FirstDefinesRest
  <2>3. \A k \in 1 .. Len(l) : l[k] # n
    BY <2>1 DEF Listed, FirstListed
  <2> HIDE DEF m, l, d
  <2>4. \A j, k \in 1 .. Len(m) : m[j] = n /\ m[k] = n => j = k
    BY <1>4, <2>3
  <2>5. QED BY <1>4, <1>6, <2>2, <2>4 DEF FoundOnce, m
<1>8. CASE n # d.name
  <2>1. n \in wanted' => n \notin Listed(side)'
    BY <1>1, <1>5, <1>6, <1>8
  <2>2. n \in wanted' => FirstDefines(WithoutFirst, n)
    BY <1>1, <1>6, <1>8, FirstDefinesRest
  <2>3. FirstDefines(sources, n)' <=> FirstDefines(WithoutFirst, n)
    BY <1>1 DEF FirstDefines
  <2>4. \A j, k \in 1 .. Len(l) : l[j] = n /\ l[k] = n => j = k
    BY <1>3, <1>6 DEF FoundOnce
  <2> HIDE DEF m, l, d
  <2>5. \A j, k \in 1 .. Len(m) : m[j] = n /\ m[k] = n => j = k
    BY <1>4, <1>8, <2>4
  <2>6. FoundOnce(n)'
    BY <1>4, <1>6, <2>5 DEF FoundOnce, m
  <2>7. QED BY <2>1, <2>2, <2>3, <2>6
<1>9. QED BY <1>7, <1>8

\* The other steps of the search.
LEMMA SearchOnce ==
  ASSUME NumbersInv, CompleteInv, FoundOnceInv, SkipDeclaration \/ NextSource \/ FinishFinding
  PROVE  FoundOnceInv'
<1>0. /\ pc = "find" /\ UNCHANGED <<program, found>> /\ ListsTypeOK /\ FindingInv
      /\ \A s \in Sides : Listed(s)' = Listed(s)
      /\ \A n : FoundOnce(n)' = FoundOnce(n) /\ DefinedFirst(n)' = DefinedFirst(n)
  BY DEF SkipDeclaration, NextSource, FinishFinding, Visiting, CompleteInv,
         Listed, FirstListed, FoundOnce, DefinedFirst
<1> SUFFICES ASSUME NEW n \in Names, DefinedFirst(n), pc' = "find", n \in wanted'
             PROVE  n \notin Listed(side)' /\ FirstDefines(sources', n)
  BY <1>0 DEF FoundOnceInv, FirstDefines
<1>1. CASE SkipDeclaration
  <2> DEFINE d == Head(Head(sources))
  <2>1. /\ Visiting /\ Skips(d) /\ sources' = WithoutFirst /\ UNCHANGED <<wanted, side>>
    BY <1>1 DEF SkipDeclaration
  <2>2. n \notin Listed(side) /\ FirstDefines(sources, n)
    BY <1>0, <2>1 DEF FoundOnceInv
  <2>3. ~(d.name = n /\ d.definition)
    BY <2>1 DEF Skips
  <2>4. FirstDefines(WithoutFirst, n)
    BY <1>0, <2>1, <2>2, <2>3, FirstDefinesRest
  <2>5. QED BY <1>0, <2>1, <2>2, <2>4 DEF ListsTypeOK
<1>2. CASE NextSource
  <2>1. /\ sources # << >> /\ Head(sources) = << >> /\ sources' = Tail(sources)
        /\ UNCHANGED <<wanted, side>> /\ sources \in Seq(Seq(Decl))
    BY <1>0, <1>2 DEF NextSource, ListsTypeOK
  <2>2. n \notin Listed(side) /\ FirstDefines(sources, n)
    BY <1>0, <2>1 DEF FoundOnceInv
  <2>3. PICK k \in 1 .. Len(sources) :
          DefinedIn(n, sources[k]) /\ \A j \in 1 .. k - 1 : ~Declares(sources[j], n)
    BY <2>2 DEF FirstDefines
  <2>4. /\ Len(sources) \in Nat /\ sources[1] = << >> /\ Len(Tail(sources)) = Len(sources) - 1
        /\ \A j \in 1 .. Len(sources) - 1 : Tail(sources)[j] = sources[j + 1]
    BY <2>1
  <2>5. k # 1
    BY <2>3, <2>4 DEF DefinedIn
  <2> DEFINE h == k - 1
  <2>6. h \in 1 .. Len(sources) - 1 /\ h + 1 = k
    BY <2>4, <2>5
  <2> HIDE DEF h
  <2>7. h \in 1 .. Len(Tail(sources)) /\ DefinedIn(n, Tail(sources)[h])
    BY <2>3, <2>4, <2>6
  <2>8. ASSUME NEW j \in 1 .. h - 1 PROVE ~Declares(Tail(sources)[j], n)
    <3>1. j + 1 \in 1 .. k - 1 /\ j \in 1 .. Len(sources) - 1
      BY <2>6
    <3>2. QED BY <2>3, <2>4, <3>1
  <2>9. FirstDefines(Tail(sources), n)
    BY <2>7, <2>8 DEF FirstDefines
  <2>10. QED BY <1>0, <2>1, <2>2, <2>9 DEF ListsTypeOK
<1>3. CASE FinishFinding
  <2>1. side = "secure" /\ side' = "app" /\ sources' = program
    BY <1>0, <1>3 DEF FinishFinding
  <2>2. Listed("app")' = {}
    BY <1>0, <2>1 DEF FindingInv, Sides
  <2>3. FirstDefines(program, n)
    BY DEF FirstDefines, DefinedFirst
  <2>4. QED BY <2>1, <2>2, <2>3
<1>4. QED BY <1>1, <1>2, <1>3

\* The numbers given are places in the lists of the functions found.
LEMMA PlacesKept ==
  ASSUME NumbersInv, CompleteInv, PlacesInv, [Next]_vars
  PROVE  PlacesInv'
<1>0. /\ found \in [Sides -> Seq(Names)] /\ \A s \in Sides : Len(found[s]) \in Nat
      /\ side \in Sides /\ next \in Nat \ {0} /\ DOMAIN selectors = Sides
  BY DEF CompleteInv, ListsTypeOK, NumbersInv, SelectorsInv
<1>1. CASE SkipDeclaration \/ FindDeclaration \/ NextSource \/ FinishFinding
  <2>1. pc = "find" /\ selectors' = selectors
    BY <1>1 DEF SkipDeclaration, FindDeclaration, NextSource, FinishFinding, Visiting
  <2>2. \A s \in Sides : DOMAIN selectors'[s] = {}
    BY <2>1 DEF NumbersInv, SelectorsInv
  <2>3. QED BY <2>2 DEF PlacesInv
<1>2. CASE SelectFunction
  <2> DEFINE name == found[side][next]
  <2>1. /\ next \in 1 .. Len(found[side]) /\ found' = found
        /\ selectors' = [selectors EXCEPT ![side] = WithSelector(@, name, next)]
    BY <1>0, <1>2 DEF SelectFunction
  <2>2. /\ selectors'[side] = WithSelector(selectors[side], name, next)
        /\ \A s \in Sides \ {side} : selectors'[s] = selectors[s]
    BY <1>0, <2>1
  <2>3. \A n \in DOMAIN selectors'[side] : selectors'[side][n] \in 1 .. Len(found[side])
    BY <1>0, <2>1, <2>2 DEF WithSelector, PlacesInv
  <2>4. QED BY <2>1, <2>2, <2>3 DEF PlacesInv
<1>3. CASE \/ FinishSelecting \/ LoadFails \/ RegisterOCall \/ FinishRegistering
           \/ RegisterAbort \/ \E name \in Ecalls : RegisterFunction(name)
           \/ UNCHANGED vars
  <2>1. UNCHANGED <<found, selectors>>
    BY <1>3 DEF FinishSelecting, LoadFails, RegisterOCall, FinishRegistering, RegisterAbort,
                RegisterFunction, Register, vars, toolVars
  <2>2. QED BY <2>1 DEF PlacesInv
<1>4. QED BY <1>1, <1>2, <1>3 DEF Next

(***************************************************************************)
(* Abort's number is taken only if fewer functions than places are listed: *)
(* some function stands at two of them.                                    *)
(***************************************************************************)
LEMMA AbortTaken ==
  ASSUME NumbersInv, CompleteInv, PlacesInv, pc = "init", AbortSelector \in DOMAIN entries
  PROVE  \E n \in Ecalls : ~FoundOnce(n)
<1> DEFINE l == found["secure"]
           L == Listed("secure")
           D == 1 .. Len(l)
           h == entries[AbortSelector]
<1>1. /\ "secure" \in Sides /\ l \in Seq(Names) /\ Len(l) \in Nat
      /\ L = Ecalls \cap Declared
      /\ DOMAIN selectors["secure"] = L /\ Handlers(entries) \subseteq L
  BY DEF CompleteInv, ListsTypeOK, FindingInv, NumberingInv, RegisteringInv, Interface, Sides
<1>2. L \subseteq Ecalls /\ IsFiniteSet(L) /\ Cardinality(L) \in Nat
  BY <1>1, NamesAssumption, FS_Subset, FS_CardinalityType DEF Names
<1>3. h \in L /\ h # Abort
  BY <1>1, <1>2, NamesAssumption DEF Handlers, Names
<1>4. selectors["secure"][h] = AbortSelector
  BY <1>3 DEF NumbersInv, HandlersInv
<1>5. AbortSelector \in 1 .. Len(l)
  BY <1>1, <1>3, <1>4 DEF PlacesInv
<1>6. Cardinality(L) < Len(l)
  BY <1>1, <1>2, <1>5 DEF AbortSelector
<1> SUFFICES ASSUME \A n \in Ecalls : FoundOnce(n) PROVE FALSE
  OBVIOUS
<1>7. L = {l[k] : k \in D}
  BY DEF Listed, FirstListed
<1>8. l \in [D -> L]
  BY <1>1, <1>7
<1>9. \A j, k \in D : l[j] = l[k] => j = k
  <2> TAKE j, k \in D
  <2>1. l[j] \in Ecalls
    BY <1>2, <1>8
  <2>2. QED BY <1>1, <2>1 DEF FoundOnce
<1>h. IsFiniteSet(D) /\ Cardinality(D) = Len(l)
  BY <1>1, FS_Interval
<1> HIDE DEF D, L, l
<1>10. l \in Injection(D, L)
  BY <1>8, <1>9 DEF Injection, IsInjective
<1>11. Cardinality(D) <= Cardinality(L)
  BY <1>2, <1>10, FS_Injection
<1>12. Len(l) \in Nat
  BY <1>1
<1>13. QED BY <1>2, <1>6, <1>h, <1>11, <1>12

\* A handler of a function never finds its number taken.
LEMMA FunctionFindsFree ==
  ASSUME NumbersInv, CompleteInv, pc = "init", NEW name \in Ecalls, RegisterFunction(name)
  PROVE  selectors["secure"][name] \notin DOMAIN entries
<1> DEFINE number == selectors["secure"][name]
<1> SUFFICES ASSUME number \in DOMAIN entries PROVE FALSE
  OBVIOUS
<1>1. /\ name \in DOMAIN selectors["secure"] /\ name \notin Handlers(entries)
      /\ "secure" \in Sides
      /\ Handlers(entries) \subseteq Listed("secure")
      /\ DOMAIN selectors["secure"] = Listed("secure") /\ Listed("secure") \subseteq Ecalls
  BY DEF RegisterFunction, CompleteInv, FindingInv, NumberingInv, RegisteringInv, Interface, Sides
<1> DEFINE m == entries[number]
<1>2. m \in Handlers(entries)
  BY DEF Handlers
<1>3. m \in DOMAIN selectors["secure"] /\ m # Abort
  BY <1>1, <1>2, NamesAssumption DEF Names
<1>4. selectors["secure"][m] = number
  BY <1>3 DEF NumbersInv, HandlersInv
<1>5. m = name
  BY <1>1, <1>3, <1>4 DEF NumbersInv, SelectorsInv
<1>6. QED BY <1>1, <1>2, <1>5

LEMMA StartInvStep ==
  ASSUME NumbersInv, CompleteInv, StartInv, [Next]_vars
  PROVE  StartInv'
<1>0. PlacesInv'
  BY PlacesKept DEF StartInv
<1>1. CASE SkipDeclaration \/ FindDeclaration \/ NextSource \/ FinishFinding
  <2>1. FoundOnceInv'
    BY <1>1, FindDeclarationOnce, SearchOnce DEF StartInv
  <2>2. pc' \in {"find", "select"}
    BY <1>1 DEF SkipDeclaration, FindDeclaration, NextSource, FinishFinding, Visiting
  <2>3. QED BY <1>0, <2>1, <2>2 DEF StartInv
<1>2. ASSUME pc # "find", pc' # "find", UNCHANGED <<program, found>>
      PROVE  FoundOnceInv' /\ \A n : FoundOnce(n)' = FoundOnce(n)
  BY <1>2 DEF StartInv, FoundOnceInv, FoundOnce, DefinedFirst
<1>3. CASE SelectFunction \/ FinishSelecting
  <2>1. pc = "select" /\ pc' \in {"select", "init"} /\ UNCHANGED <<program, found>>
    BY <1>3 DEF SelectFunction, FinishSelecting
  <2>2. QED BY <1>0, <1>2, <2>1 DEF StartInv
<1>4. ASSUME NEW name \in Ecalls, RegisterFunction(name) PROVE StartInv'
  <2>1. /\ pc = "init" /\ UNCHANGED <<program, found>>
        /\ Register(selectors["secure"][name], name)
    BY <1>4 DEF RegisterFunction, Register, toolVars
  <2>2. pc' = "init"
    <3>1. name # Abort
      BY NamesAssumption DEF Names
    <3>2. QED BY <1>4, <2>1, <3>1, FunctionFindsFree DEF Register
  <2>3. QED BY <1>0, <1>2, <2>1, <2>2 DEF StartInv
<1>5. CASE RegisterAbort
  <2>1. /\ pc = "init" /\ UNCHANGED <<program, found>> /\ Register(AbortSelector, Abort)
        /\ pc' \in {"main", "register"}
    BY <1>5 DEF RegisterAbort, Register, toolVars
  <2>2. pc' = "register" => loaded'
    BY <2>1 DEF Register
  <2>3. pc' = "main" => \E n \in Ecalls : ~FoundOnce(n)
    <3>1. pc' = "main" => AbortSelector \in DOMAIN entries
      BY <2>1 DEF Register
    <3>2. QED BY <2>1, <3>1, AbortTaken DEF StartInv
  <2>4. QED BY <1>0, <1>2, <2>1, <2>2, <2>3 DEF StartInv
<1>6. CASE LoadFails
  <2>1. /\ pc = "init" /\ pc' = "main" /\ entries' = EmptyMap /\ UNCHANGED <<program, found>>
    BY <1>6 DEF LoadFails, toolVars
  <2>2. EmptyMap' = EmptyMap
    BY DEF EmptyMap
  <2>3. QED BY <1>0, <1>2, <2>1, <2>2 DEF StartInv
<1>7. CASE RegisterOCall \/ FinishRegistering
  <2>1. /\ pc = "register" /\ pc' \in {"register", "main", "crashed"}
        /\ UNCHANGED <<program, found, entries, loaded>>
    BY <1>7 DEF RegisterOCall, FinishRegistering, toolVars
  <2>2. QED BY <1>0, <1>2, <2>1 DEF StartInv
<1>8. CASE UNCHANGED vars
  <2>1. UNCHANGED <<program, side, sources, wanted, found, pc, entries, loaded>>
    BY <1>8 DEF vars, toolVars
  <2>2. /\ \A n : FoundOnce(n)' = FoundOnce(n) /\ DefinedFirst(n)' = DefinedFirst(n)
        /\ Listed(side)' = Listed(side)
        /\ \A n : FirstDefines(sources, n)' = FirstDefines(sources, n)
    BY <2>1 DEF FoundOnce, DefinedFirst, Listed, FirstListed, FirstDefines
  <2>3. FoundOnceInv'
    BY <2>1, <2>2 DEF StartInv, FoundOnceInv
  <2>4. QED BY <1>0, <2>1, <2>2, <2>3 DEF StartInv
<1>9. QED BY <1>1, <1>3, <1>4, <1>5, <1>6, <1>7, <1>8 DEF Next

(***************************************************************************)
(* The enclave of a program starts unless it cannot be loaded at all or    *)
(* some function was found twice, and what is defined in the first source  *)
(* that declares it is found once (FunctionFinder, the handlers            *)
(* asylo_enclave_init registers).                                          *)
(***************************************************************************)
THEOREM StartsUnlessFoundTwice == Spec => []StartsWhenFoundOnce
<1>1. Init => NumbersInv /\ CompleteInv /\ StartInv
  <2> SUFFICES ASSUME Init PROVE StartInv
    BY NumbersInvInit, CompleteInvInit
  <2>1. /\ sources = program /\ pc = "find" /\ side = "secure"
        /\ found = [s \in Sides |-> << >>] /\ selectors = [s \in Sides |-> EmptyMap]
    BY DEF Init
  <2>2. \A n : FoundOnce(n)
    BY <2>1 DEF FoundOnce
  <2>3. Listed(side) = {}
    BY <2>1 DEF Listed, FirstListed, Sides
  <2>4. \A n : DefinedFirst(n) => FirstDefines(sources, n)
    BY <2>1 DEF DefinedFirst, FirstDefines
  <2>5. PlacesInv
    BY <2>1 DEF PlacesInv, EmptyMap
  <2>6. QED BY <2>1, <2>2, <2>3, <2>4, <2>5 DEF StartInv, FoundOnceInv
<1>2. NumbersInv /\ CompleteInv /\ StartInv /\ [Next]_vars
        => (NumbersInv /\ CompleteInv /\ StartInv)'
  BY NumbersInvStep, CompleteInvStep, StartInvStep
<1>3. StartInv => StartsWhenFoundOnce
  BY DEF StartInv, FoundOnceInv, StartsWhenFoundOnce
<1>4. QED BY <1>1, <1>2, <1>3, PTL DEF Spec

-----------------------------------------------------------------------------
(***************************************************************************)
(* Calls, whatever the functions, their signatures, the values and how     *)
(* deep the calls are.                                                     *)
(***************************************************************************)

(***************************************************************************)
(* What pushes and pops do to a sequence.                                  *)
(***************************************************************************)
LEMMA ReverseIsSeq ==
  ASSUME NEW S, NEW s \in Seq(S)
  PROVE  /\ Reverse(s) \in Seq(S) /\ Len(Reverse(s)) = Len(s)
         /\ \A i \in 1 .. Len(s) : Reverse(s)[i] = s[Len(s) - i + 1]
<1>1. \A i \in 1 .. Len(s) : s[Len(s) - i + 1] \in S
  OBVIOUS
<1>2. QED BY <1>1 DEF Reverse

LEMMA PopAll ==
  ASSUME NEW S, NEW s \in Seq(S)
  PROVE  Popped(s, Len(s)) = Reverse(s) /\ AfterPops(s, Len(s)) = << >>
<1>1. SubSeq(Reverse(s), 1, Len(Reverse(s))) = Reverse(s)
  BY ReverseIsSeq, SubSeqFull
<1>2. AfterPops(s, Len(s)) = << >>
  BY SubSeqEmpty DEF AfterPops
<1>3. QED BY <1>1, <1>2, ReverseIsSeq DEF Popped

LEMMA LengthOfBoth ==
  ASSUME NEW S, NEW s \in Seq(S), NEW t \in Seq(S)
  PROVE  Len(s \o t) = Len(s) + Len(t) /\ Len(s) \in Nat /\ Len(t) \in Nat
OBVIOUS

LEMMA PopTop ==
  ASSUME NEW S, NEW s \in Seq(S), NEW t \in Seq(S)
  PROVE  AfterPops(s \o t, Len(t)) = s
<1>1. Len(s \o t) - Len(t) = Len(s)
  OBVIOUS
<1>2. SubSeq(s \o t, 1, Len(s)) = s
  OBVIOUS
<1>3. QED BY <1>1, <1>2 DEF AfterPops

LEMMA PushedAndPopped ==
  ASSUME NEW S, NEW s \in Seq(S)
  PROVE  ParamsOfPops(Popped(s, Len(s))) = s
<1>1. ParamsOfPops(Popped(s, Len(s))) = Reverse(Reverse(s))
  BY PopAll DEF ParamsOfPops
<1>2. /\ Reverse(Reverse(s)) \in Seq(S) /\ Len(Reverse(Reverse(s))) = Len(s)
      /\ \A i \in 1 .. Len(s) : Reverse(Reverse(s))[i] = s[i]
  <2>1. \A i \in 1 .. Len(s) : Len(s) - i + 1 \in 1 .. Len(s) /\ Len(s) - (Len(s) - i + 1) + 1 = i
    OBVIOUS
  <2> DEFINE r == Reverse(s)
  <2>2. /\ r \in Seq(S) /\ Len(r) = Len(s)
        /\ \A i \in 1 .. Len(s) : r[i] = s[Len(s) - i + 1]
    BY ReverseIsSeq
  <2> HIDE DEF r
  <2>3. /\ Reverse(r) \in Seq(S) /\ Len(Reverse(r)) = Len(r)
        /\ \A i \in 1 .. Len(r) : Reverse(r)[i] = r[Len(r) - i + 1]
    BY <2>2, ReverseIsSeq
  <2>4. \A i \in 1 .. Len(s) : Reverse(r)[i] = s[i]
    BY <2>1, <2>2, <2>3
  <2>5. QED BY <2>2, <2>3, <2>4 DEF r
<1>3. QED BY <1>1, <1>2, SeqEqual

(***************************************************************************)
(* A call that has returned: its stack holds what the handler pushed.      *)
(***************************************************************************)
ResultOf(c) == IF c.function \in Void THEN << >> ELSE <<c.returned>>

Frames ==
  [function : Functions, sent : Seq(Vals), stack : Seq(Slots),
   received : Seq(Vals), params : Seq(Vals), returned : Slots,
   at : {"border", "function", "returned"}, ok : BOOLEAN]

FrameOK(c) ==
  /\ c \in Frames
  /\ Len(c.sent) = Arity[c.function]
  /\ c.at = "border" => c.stack = c.sent \o ResultSlot(c.function)
  /\ c.at # "returned" => c.ok
  /\ c.at = "function" => c.stack = << >>
  /\ c.at = "function" \/ (c.at = "returned" /\ c.ok) =>
       c.received = c.sent /\ Len(c.params) = Arity[c.function]
  /\ c.at = "returned" =>
       \/ c.stack = ResultOf(c) \o c.params /\ Len(c.params) = Arity[c.function]
       \/ ~c.ok /\ c.stack = c.sent \o ResultSlot(c.function)

FramesInv == calls \in Seq(Frames) /\ \A k \in 1 .. Len(calls) : FrameOK(calls[k])

LEMMA SlotTypes ==
  /\ Garbage \in Slots /\ Vals \subseteq Slots
  /\ \A v \in Slots : <<v>> \in Seq(Slots) /\ Len(<<v>>) = 1
  /\ \A f : ResultSlot(f) \in Seq(Slots)
<1>1. Garbage \in Slots /\ Vals \subseteq Slots
  BY DEF Slots
<1>2. ASSUME NEW v \in Slots PROVE <<v>> \in Seq(Slots) /\ Len(<<v>>) = 1
  OBVIOUS
<1>3. ASSUME NEW f PROVE ResultSlot(f) \in Seq(Slots)
  <2>1. CASE f \in Void
    BY <2>1 DEF ResultSlot
  <2>2. CASE f \notin Void
    <3>1. ResultSlot(f) = <<Garbage>>
      BY <2>2 DEF ResultSlot
    <3>2. QED BY <1>1, <1>2, <3>1
  <2>3. QED BY <2>1, <2>2
<1>4. QED BY <1>1, <1>2, <1>3

(***************************************************************************)
(* Replacing the innermost call, or leaving it, concerns no other.         *)
(***************************************************************************)
LEMMA SetTopKeeps ==
  ASSUME FramesInv, Depth > 0, NEW frame, FrameOK(frame), SetTop(frame)
  PROVE  FramesInv'
<1>1. Depth \in 1 .. Len(calls) /\ frame \in Frames
  BY DEF Depth, FramesInv, FrameOK
<1>2. calls' = [calls EXCEPT ![Depth] = frame]
  BY DEF SetTop
<1>3. calls' \in Seq(Frames) /\ Len(calls') = Len(calls)
  BY <1>1, <1>2 DEF FramesInv
<1>4. \A k \in 1 .. Len(calls) : calls'[k] = IF k = Depth THEN frame ELSE calls[k]
  BY <1>1, <1>2 DEF FramesInv
<1>5. ASSUME NEW k \in 1 .. Len(calls') PROVE FrameOK(calls'[k])
  <2>1. k \in 1 .. Len(calls) /\ FrameOK(calls[k])
    BY <1>3, <1>5 DEF FramesInv
  <2>2. CASE k = Depth
    BY <1>4, <2>1, <2>2
  <2>3. CASE k # Depth
    BY <1>4, <2>1, <2>3
  <2>4. QED BY <2>2, <2>3
<1>6. QED BY <1>3, <1>5 DEF FramesInv

LEMMA TopIsFrame ==
  ASSUME FramesInv, Depth > 0
  PROVE  Top \in Frames /\ FrameOK(Top)
BY DEF FramesInv, Depth, Top

LEMMA CallKeeps ==
  ASSUME FramesInv, NEW f \in Functions, NEW args \in [1 .. Arity[f] -> Vals], Call(f, args)
  PROVE  FramesInv'
<1> DEFINE new == Frame(f, args, args \o ResultSlot(f))
<1>1. args \in Seq(Vals) /\ Len(args) = Arity[f]
  BY SignatureAssumption DEF Functions
<1>2. ResultSlot(f) \in Seq(Slots) /\ Garbage \in Slots /\ Vals \subseteq Slots
  BY SlotTypes
<1>3. args \o ResultSlot(f) \in Seq(Slots)
  <2>1. args \in Seq(Slots)
    BY <1>1, <1>2
  <2>2. QED BY <2>1, <1>2
<1>4. FrameOK(new)
  <2>1. new \in Frames
    BY <1>1, <1>2, <1>3 DEF Frame, Frames
  <2>2. QED BY <2>1, <1>1 DEF FrameOK, Frame
<1> HIDE DEF new
<1>5. calls' = Append(calls, new)
  BY DEF Call, new
<1>6. calls' \in Seq(Frames) /\ Len(calls') = Len(calls) + 1
  BY <1>4, <1>5 DEF FramesInv, FrameOK
<1>7. ASSUME NEW k \in 1 .. Len(calls') PROVE FrameOK(calls'[k])
  <2>1. CASE k = Len(calls) + 1
    BY <1>4, <1>5, <2>1 DEF FramesInv
  <2>2. CASE k # Len(calls) + 1
    <3>1. k \in 1 .. Len(calls) /\ calls'[k] = calls[k]
      BY <1>5, <1>6, <1>7, <2>2 DEF FramesInv
    <3>2. QED BY <3>1 DEF FramesInv
  <2>3. QED BY <2>1, <2>2
<1>8. QED BY <1>6, <1>7 DEF FramesInv

(***************************************************************************)
(* The handler pops the place of the result, then the parameters: what it  *)
(* has received is what was sent, and the stack is empty.                  *)
(***************************************************************************)
LEMMA HandlerPopsKeeps ==
  ASSUME FramesInv, HandlerPops
  PROVE  FramesInv'
<1> DEFINE f == Top.function
           slot == ResultSlot(f)
           rest == AfterPops(Top.stack, Len(slot))
           params == ParamsOfPops(Popped(rest, Arity[f]))
           new == [Top EXCEPT !.stack = AfterPops(rest, Arity[f]),
                              !.received = params, !.params = params, !.at = "function"]
<1>1. Depth > 0 /\ Top.at = "border" /\ SetTop(new)
  BY DEF HandlerPops, HandlerPopsAfter
<1>2. Top \in Frames /\ FrameOK(Top)
  BY <1>1, TopIsFrame
<1>3. /\ Top.stack = Top.sent \o slot /\ Len(Top.sent) = Arity[f] /\ Top.ok
      /\ Top.sent \in Seq(Vals)
  BY <1>1, <1>2 DEF FrameOK, Frames
<1>4. rest = Top.sent
  <2>1. Top.sent \in Seq(Slots) /\ slot \in Seq(Slots)
    BY <1>3, SlotTypes
  <2>2. QED BY <1>3, <2>1, PopTop
<1>5. AfterPops(rest, Arity[f]) = << >> /\ params = Top.sent
  <2> HIDE DEF rest
  <2>1. AfterPops(Top.sent, Len(Top.sent)) = << >>
    BY <1>3, PopAll
  <2>2. ParamsOfPops(Popped(Top.sent, Len(Top.sent))) = Top.sent
    BY <1>3, PushedAndPopped
  <2>3. QED BY <1>3, <1>4, <2>1, <2>2
<1>6. new = [Top EXCEPT !.stack = << >>, !.received = Top.sent,
                        !.params = Top.sent, !.at = "function"]
  BY <1>5
<1>7. FrameOK(new)
  <2> HIDE DEF new
  <2>1. << >> \in Seq(Slots)
    OBVIOUS
  <2>2. new \in Frames
    BY <1>2, <1>3, <1>6, <2>1 DEF Frames
  <2>3. /\ new.function = f /\ new.sent = Top.sent /\ new.stack = << >> /\ new.ok
        /\ new.received = Top.sent /\ new.params = Top.sent /\ new.at = "function"
    BY <1>2, <1>3, <1>6 DEF Frames
  <2>4. QED BY <1>3, <2>2, <2>3 DEF FrameOK
<1>8. QED BY <1>1, <1>7, SetTopKeeps

LEMMA AssignKeeps ==
  ASSUME FramesInv, NEW i, NEW v \in Vals, Assign(i, v)
  PROVE  FramesInv'
<1> DEFINE params == [Top.params EXCEPT ![i] = v]
           new == [Top EXCEPT !.params = params]
<1>1. Depth > 0 /\ Top.at = "function" /\ i \in 1 .. Len(Top.params) /\ SetTop(new)
  BY DEF Assign
<1>2. Top \in Frames /\ FrameOK(Top)
  BY <1>1, TopIsFrame
<1>3. params \in Seq(Vals) /\ Len(params) = Len(Top.params)
  BY <1>1, <1>2 DEF Frames
<1>4. FrameOK(new)
  <2> HIDE DEF params
  <2>1. new \in Frames
    BY <1>2, <1>3 DEF Frames
  <2>2. /\ new.function = Top.function /\ new.sent = Top.sent /\ new.stack = Top.stack
        /\ new.ok = Top.ok /\ new.received = Top.received /\ new.params = params
        /\ new.at = "function"
    BY <1>1, <1>2 DEF Frames
  <2>3. QED BY <1>1, <1>2, <1>3, <2>1, <2>2 DEF FrameOK
<1>5. QED BY <1>1, <1>4, SetTopKeeps

LEMMA ReturnKeeps ==
  ASSUME FramesInv, NEW v \in Vals, Return(v)
  PROVE  FramesInv'
<1> DEFINE result == IF Top.function \in Void THEN << >> ELSE <<v>>
           pushed == Top.stack \o PushedBack(result, Top.params)
<1>1. PICK ok \in BOOLEAN :
        /\ Depth > 0 /\ Top.at = "function"
        /\ SetTop([Top EXCEPT !.stack = pushed, !.returned = v,
                              !.at = "returned", !.ok = ok])
  BY DEF Return, Status
<1> DEFINE new == [Top EXCEPT !.stack = pushed, !.returned = v,
                              !.at = "returned", !.ok = ok]
<1>2. Top \in Frames /\ FrameOK(Top)
  BY <1>1, TopIsFrame
<1>3. /\ Top.stack = << >> /\ Len(Top.params) = Arity[Top.function]
      /\ Top.params \in Seq(Slots) /\ Top.received = Top.sent
  BY <1>1, <1>2, SlotTypes DEF FrameOK, Frames
<1>4. result \in Seq(Slots)
  <2>1. v \in Slots
    BY SlotTypes
  <2>2. QED BY <2>1, SlotTypes
<1>5. pushed = result \o Top.params /\ pushed \in Seq(Slots)
  <2>1. result \o Top.params \in Seq(Slots)
    BY <1>3, <1>4
  <2>2. QED BY <1>3, <2>1 DEF PushedBack
<1>6. FrameOK(new)
  <2> HIDE DEF pushed
  <2>1. new \in Frames
    BY <1>2, <1>5, SlotTypes DEF Frames
  <2>2. /\ new.function = Top.function /\ new.sent = Top.sent /\ new.stack = pushed
        /\ new.ok = ok /\ new.received = Top.received /\ new.params = Top.params
        /\ new.at = "returned" /\ new.returned = v
    BY <1>2 DEF Frames
  <2>3. ResultOf(new) = result
    BY <2>2 DEF ResultOf
  <2>4. QED BY <1>2, <1>3, <1>5, <2>1, <2>2, <2>3 DEF FrameOK
<1>7. QED BY <1>1, <1>6, SetTopKeeps

LEMMA FailKeeps ==
  ASSUME FramesInv, Fail
  PROVE  FramesInv'
<1> DEFINE new == [Top EXCEPT !.at = "returned", !.ok = FALSE]
<1>1. Depth > 0 /\ Top.at = "border" /\ SetTop(new)
  BY DEF Fail
<1>2. Top \in Frames /\ FrameOK(Top)
  BY <1>1, TopIsFrame
<1>3. FrameOK(new)
  <2>1. new \in Frames
    BY <1>2 DEF Frames
  <2>2. /\ new.function = Top.function /\ new.sent = Top.sent /\ new.stack = Top.stack
        /\ ~new.ok /\ new.at = "returned"
    BY <1>2 DEF Frames
  <2>3. QED BY <1>1, <1>2, <2>1, <2>2 DEF FrameOK
<1>4. QED BY <1>1, <1>3, SetTopKeeps

LEMMA LeaveKeeps ==
  ASSUME FramesInv, Depth > 0, calls' = SubSeq(calls, 1, Depth - 1)
  PROVE  FramesInv'
<1>1. /\ calls' \in Seq(Frames) /\ Len(calls') = Len(calls) - 1
      /\ \A k \in 1 .. Len(calls') : calls'[k] = calls[k]
  <2>1. calls \in Seq(Frames) /\ Len(calls) \in Nat /\ Len(calls) > 0
    BY DEF FramesInv, Depth
  <2>2. calls' = SubSeq(calls, 1, Len(calls) - 1)
    BY DEF Depth
  <2>3. \A k \in 1 .. Len(calls) - 1 : calls[k] \in Frames
    BY <2>1
  <2>4. Len(calls) - 1 \in Int /\ Len(calls) - 1 - 1 + 1 = Len(calls) - 1
    BY <2>1
  <2>5. /\ SubSeq(calls, 1, Len(calls) - 1) \in Seq(Frames)
        /\ Len(SubSeq(calls, 1, Len(calls) - 1)) = Len(calls) - 1
        /\ \A k \in 1 .. Len(calls) - 1 : SubSeq(calls, 1, Len(calls) - 1)[k] = calls[k]
    BY <2>1, <2>3, <2>4
  <2>6. QED BY <2>2, <2>5
<1>2. ASSUME NEW k \in 1 .. Len(calls') PROVE FrameOK(calls'[k])
  <2>1. k \in 1 .. Len(calls) /\ calls'[k] = calls[k]
    BY <1>1, <1>2 DEF FramesInv
  <2>2. QED BY <2>1 DEF FramesInv
<1>3. QED BY <1>1, <1>2 DEF FramesInv

LEMMA FramesInvStep == FramesInv /\ [CallsNext]_callVars => FramesInv'
<1> SUFFICES ASSUME FramesInv, [CallsNext]_callVars PROVE FramesInv'
  OBVIOUS
<1>1. ASSUME NEW f \in Functions, NEW args \in [1 .. Arity[f] -> Vals], Call(f, args)
      PROVE  FramesInv'
  BY <1>1, CallKeeps
<1>2. CASE HandlerPops
  BY <1>2, HandlerPopsKeeps
<1>3. CASE Fail
  BY <1>3, FailKeeps
<1>4. ASSUME NEW v \in Vals, Return(v) PROVE FramesInv'
  BY <1>4, ReturnKeeps
<1>5. ASSUME NEW v \in Vals, NEW i, Assign(i, v) PROVE FramesInv'
  BY <1>5, AssignKeeps
<1>6. CASE EcallWrapperPops
  BY <1>6, LeaveKeeps DEF EcallWrapperPops, Leave
<1>7. CASE OcallWrapperPops
  BY <1>7, LeaveKeeps DEF OcallWrapperPops, Leave
<1>8. CASE UNCHANGED callVars
  BY <1>8 DEF callVars, FramesInv
<1>9. QED BY <1>1, <1>2, <1>3, <1>4, <1>5, <1>6, <1>7, <1>8 DEF CallsNext

(***************************************************************************)
(* Every call under way, however deep, is at a known place of the wrapper  *)
(* or the handler with the stack that belongs to it.                       *)
(***************************************************************************)
THEOREM FramesStayOK == CallsSpec => []FramesInv
<1>1. CallsInit => FramesInv
  BY DEF CallsInit, FramesInv
<1>2. QED BY <1>1, FramesInvStep, PTL DEF CallsSpec

(***************************************************************************)
(* A function receives the arguments it was called with, in their places,  *)
(* whatever its signature and however deep the calls are nested            *)
(* (generateEcallWrapper, generateEnclaveEcall and their counterparts).    *)
(***************************************************************************)
THEOREM ArgumentsAlwaysArrive == CallsSpec => []ArgumentsArrive
<1>1. FramesInv => ArgumentsArrive
  BY DEF FramesInv, FrameOK, ArgumentsArrive, Depth
<1>2. QED BY <1>1, FramesStayOK, PTL

(***************************************************************************)
(* What a wrapper that pops finds: on a call that succeeded, the values of *)
(* the handler, from the top of the stack.                                 *)
(***************************************************************************)
LEMMA WrapperFinds ==
  ASSUME FramesInv, Depth > 0, Top.at = "returned", Top.ok
  PROVE  LET a == Arity[Top.function]
             n == a + Len(ResultSlot(Top.function))
             variables == WrapperVariables(Top)
         IN  /\ a \in Nat /\ Len(Top.sent) = a /\ Len(Top.params) = a
             /\ Len(variables) = n
             /\ Top.function \notin Void => n = a + 1 /\ variables[n] = Top.returned
             /\ \A i \in 1 .. a : variables[i] = Top.params[a - i + 1]
<1> DEFINE a == Arity[Top.function]
           slot == ResultSlot(Top.function)
           r == ResultOf(Top)
<1>1. /\ Top \in Frames /\ Len(Top.sent) = a /\ Len(Top.params) = a
      /\ Top.stack = r \o Top.params
  BY TopIsFrame DEF FrameOK
<1>2. a \in Nat
  BY <1>1, SignatureAssumption DEF Frames, Functions
<1>3. r \in Seq(Slots) /\ Len(r) = Len(slot) /\ Top.params \in Seq(Slots)
  <2>1. Top.returned \in Slots /\ Top.params \in Seq(Slots)
    BY <1>1, SlotTypes DEF Frames
  <2>2. CASE Top.function \in Void
    BY <2>1, <2>2 DEF ResultOf, ResultSlot
  <2>3. CASE Top.function \notin Void
    <3>1. r = <<Top.returned>> /\ slot = <<Garbage>>
      BY <2>3 DEF ResultOf, ResultSlot
    <3>2. QED BY <2>1, <3>1, SlotTypes
  <2>4. QED BY <2>2, <2>3
<1> HIDE DEF slot, r
<1>4. Top.stack \in Seq(Slots) /\ Len(Top.stack) = a + Len(slot)
  BY <1>1, <1>2, <1>3
<1>5. /\ WrapperVariables(Top) = Reverse(Top.stack)
      /\ Len(Reverse(Top.stack)) = Len(Top.stack)
      /\ \A i \in 1 .. Len(Top.stack) :
           Reverse(Top.stack)[i] = Top.stack[Len(Top.stack) - i + 1]
  BY <1>4, PopAll, ReverseIsSeq DEF WrapperVariables, slot
<1>6. ASSUME NEW i \in 1 .. a
      PROVE  WrapperVariables(Top)[i] = Top.params[a - i + 1]
  <2>1. i \in 1 .. Len(Top.stack) /\ Len(Top.stack) - i + 1 = Len(r) + (a - i + 1)
    BY <1>2, <1>3, <1>4
  <2>2. a - i + 1 \in 1 .. Len(Top.params)
    BY <1>1, <1>2
  <2>3. (r \o Top.params)[Len(r) + (a - i + 1)] = Top.params[a - i + 1]
    BY <1>3, <2>2
  <2>4. QED BY <1>1, <1>5, <2>1, <2>3
<1>7. ASSUME Top.function \notin Void
      PROVE  /\ a + Len(slot) = a + 1
             /\ WrapperVariables(Top)[a + Len(slot)] = Top.returned
  <2>1. r = <<Top.returned>> /\ Len(slot) = 1
    BY <1>7 DEF ResultOf, ResultSlot, r, slot
  <2>2. Top.stack[1] = Top.returned
    BY <1>1, <1>3, <2>1
  <2>3. a + 1 \in 1 .. Len(Top.stack) /\ Len(Top.stack) - (a + 1) + 1 = 1
    <3>1. Len(Top.stack) = a + 1
      BY <1>4, <2>1
    <3> HIDE DEF a
    <3>2. QED BY <1>2, <3>1
  <2>4. QED BY <1>5, <2>1, <2>2, <2>3
<1>8. QED BY <1>1, <1>2, <1>4, <1>5, <1>6, <1>7 DEF slot

(***************************************************************************)
(* What a call gives back, when it does.                                   *)
(***************************************************************************)
OutcomeOK ==
  /\ ResultReachesWrapper
  /\ ParametersReversed
  /\ last # NoCall /\ last.function \in Ocalls => last.reported = last.ok

LEMMA LeaveGivesOutcome ==
  ASSUME FramesInv, Depth > 0, Top.at = "returned",
         NEW variables, Top.ok => variables = WrapperVariables(Top),
         NEW reported, Top.function \in Ocalls => reported = Top.ok,
         Leave(Top, variables, reported)
  PROVE  OutcomeOK'
<1>1. /\ last'.function = Top.function /\ last'.sent = Top.sent
      /\ last'.final = Top.params /\ last'.returned = Top.returned
      /\ last'.variables = variables
      /\ last'.ok = Top.ok /\ last'.reported = reported
  BY DEF Leave
<1>2. ASSUME Top.ok, Top.function \notin Void PROVE Last(variables) = Top.returned
  BY <1>2, WrapperFinds DEF Last
<1>3. ASSUME Top.ok, NEW i \in 1 .. Len(Top.sent)
      PROVE  variables[i] = Top.params[Len(Top.sent) - i + 1]
  BY <1>3, WrapperFinds
<1>4. QED BY <1>1, <1>2, <1>3 DEF OutcomeOK, ResultReachesWrapper, ParametersReversed

LEMMA OutcomeStep == FramesInv /\ OutcomeOK /\ [CallsNext]_callVars => OutcomeOK'
<1> SUFFICES ASSUME FramesInv, OutcomeOK, [CallsNext]_callVars PROVE OutcomeOK'
  OBVIOUS
<1>1. CASE last' = NoCall
  BY <1>1 DEF OutcomeOK, ResultReachesWrapper, ParametersReversed, NoCall
<1>2. CASE EcallWrapperPops
  <2>1. Top.function \notin Ocalls
    BY <1>2, InterfaceAssumption DEF EcallWrapperPops
  <2>2. QED BY <1>2, <2>1, LeaveGivesOutcome DEF EcallWrapperPops
<1>3. CASE OcallWrapperPops
  <2> DEFINE variables == IF Top.ok THEN WrapperVariables(Top)
                                    ELSE Top.sent \o ResultSlot(Top.function)
  <2>1. /\ Depth > 0 /\ Top.at = "returned"
        /\ Leave(Top, variables, Top.ok)
    BY <1>3 DEF OcallWrapperPops
  <2>2. Top.ok => variables = WrapperVariables(Top)
    OBVIOUS
  <2> HIDE DEF variables
  <2>3. QED BY <2>1, <2>2, LeaveGivesOutcome
<1>4. CASE UNCHANGED callVars
  BY <1>4 DEF callVars, OutcomeOK, ResultReachesWrapper, ParametersReversed
<1>5. QED
  BY <1>1, <1>2, <1>3, <1>4
  DEF CallsNext, Call, HandlerPops, HandlerPopsAfter, Fail, Return, Assign

(***************************************************************************)
(* What is in the wrappers' variables when a call returns.                 *)
(***************************************************************************)
THEOREM OutcomesStayOK == CallsSpec => []OutcomeOK
<1>1. CallsInit => OutcomeOK
  BY DEF CallsInit, OutcomeOK, ResultReachesWrapper, ParametersReversed
<1>2. QED BY <1>1, FramesStayOK, OutcomeStep, PTL DEF CallsSpec

(***************************************************************************)
(* Whatever the signatures and however deep the calls: after a successful  *)
(* call the wrapper's own returnVal has the result of this very call, for  *)
(* its place is the last that is popped (generateEcallWrapper,             *)
(* generateAppFunctionWrapperInEnclave).  It goes no further: see          *)
(* GivenBack.                                                              *)
(***************************************************************************)
THEOREM ResultsReachWrappers == CallsSpec => []ResultReachesWrapper
BY OutcomesStayOK, PTL DEF OutcomeOK

(***************************************************************************)
(* And the wrapper's parameters have what the function left in the         *)
(* handler's, exactly reversed, for every number of them: handler and      *)
(* wrapper both work in call order on a stack.                             *)
(***************************************************************************)
THEOREM ParametersAlwaysReversed == CallsSpec => []ParametersReversed
BY OutcomesStayOK, PTL DEF OutcomeOK

(***************************************************************************)
(* A wrapper never pops more or less than is on its stack, whether the     *)
(* call succeeded or failed, and a failed ocall is reported to the enclave.*)
(***************************************************************************)
THEOREM StacksStayBalanced == CallsSpec => []StacksBalanced
<1>1. ASSUME NEW c, FrameOK(c), c.at = "returned"
      PROVE  Len(c.stack) = Arity[c.function] + Len(ResultSlot(c.function))
  <2>1. c \in Frames /\ Len(c.sent) = Arity[c.function]
    BY <1>1 DEF FrameOK
  <2>2. /\ c.params \in Seq(Slots) /\ c.sent \in Seq(Slots) /\ c.returned \in Slots
    BY <2>1, SlotTypes DEF Frames
  <2>3. ResultOf(c) \in Seq(Slots) /\ Len(ResultOf(c)) = Len(ResultSlot(c.function))
    <3>1. CASE c.function \in Void
      BY <3>1 DEF ResultOf, ResultSlot
    <3>2. CASE c.function \notin Void
      <4>1. ResultOf(c) = <<c.returned>> /\ ResultSlot(c.function) = <<Garbage>>
        BY <3>2 DEF ResultOf, ResultSlot
      <4>2. QED BY <2>2, <4>1, SlotTypes
    <3>3. QED BY <3>1, <3>2
  <2>4. ResultSlot(c.function) \in Seq(Slots)
    BY SlotTypes
  <2>5. CASE c.stack = ResultOf(c) \o c.params /\ Len(c.params) = Arity[c.function]
    <3>1. /\ Len(ResultOf(c) \o c.params) = Len(ResultOf(c)) + Len(c.params)
          /\ Len(ResultOf(c)) \in Nat /\ Len(c.params) \in Nat
      BY <2>2, <2>3, LengthOfBoth
    <3>2. Len(c.stack) = Len(ResultSlot(c.function)) + Arity[c.function]
      BY <2>3, <2>5, <3>1
    <3>3. QED BY <2>3, <2>5, <3>1, <3>2
  <2>6. CASE c.stack = c.sent \o ResultSlot(c.function)
    BY <2>1, <2>2, <2>4, <2>6, LengthOfBoth
  <2>7. QED BY <1>1, <2>5, <2>6 DEF FrameOK
<1>2. FramesInv /\ OutcomeOK => StacksBalanced
  BY <1>1 DEF FramesInv, OutcomeOK, StacksBalanced, Depth
<1>3. QED BY <1>2, FramesStayOK, OutcomesStayOK, PTL
==============================================================================
