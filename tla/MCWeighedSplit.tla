--------------------------- MODULE MCWeighedSplit ---------------------------
(***************************************************************************)
(* A sensitive function s, main, a helper and a declaration of a library   *)
(* function.  The calls repeat, recurse, come in both orders with a call   *)
(* in a loop, and one of them is indirect; infinity and the cost of a loop *)
(* are scaled down so that sums reach infinity, and step over it.          *)
(***************************************************************************)
EXTENDS WeighedSplit, TLC

CONSTANTS s, main, helper, library, null

MCFunctions == {s, main, helper, library}

Plainly(f, h) == [caller |-> f, callee |-> h, inLoop |-> FALSE]
InLoop(f, h) == [caller |-> f, callee |-> h, inLoop |-> TRUE]

MCTypes ==
  "int"  :> [kind |-> "int", elements |-> << >>] @@
  "text" :> [kind |-> "pointer", elements |-> << >>] @@
  "pair" :> [kind |-> "struct", elements |-> <<"int", "int">>] @@
  "rows" :> [kind |-> "array", elements |-> <<"pair", "pair">>]

MCArgs == s :> <<"rows", "text">> @@ main :> << >> @@ helper :> <<"int">> @@ library :> << >>
MCRet == s :> "pair" @@ main :> "int" @@ helper :> "int" @@ library :> "text"
Sizes == s :> 4 @@ main :> 3 @@ helper :> 2 @@ library :> 0

Program(calls, known) ==
  [calls |-> calls, hasPDG |-> known, size |-> Sizes, args |-> MCArgs, ret |-> MCRet]

CallSequences == {
  << >>,
  <<Plainly(main, s), Plainly(main, helper), Plainly(helper, s), Plainly(main, s)>>,
  <<InLoop(main, s), Plainly(main, s), Plainly(s, helper), Plainly(helper, library)>>,
  <<Plainly(main, s), InLoop(main, s), Plainly(s, null), InLoop(s, library), Plainly(s, s)>>,
  <<InLoop(main, s), Plainly(main, helper), Plainly(main, helper), InLoop(s, helper),
    Plainly(s, library)>>,
  <<InLoop(main, helper), Plainly(main, helper), InLoop(helper, s), Plainly(helper, s),
    Plainly(main, library)>>,
  <<InLoop(main, s), InLoop(helper, s), Plainly(helper, s), InLoop(s, library),
    Plainly(s, library)>>}

MCPrograms ==
  {Program(calls, known) : calls \in CallSequences,
                           known \in {MCFunctions, MCFunctions \ {library}}}

MCSplits ==
  {[functions |-> {s}, related |-> << >>],
   [functions |-> {s}, related |-> helper :> 1 @@ main :> 2],
   [functions |-> {s}, related |-> main :> 0 @@ helper :> 1],
   [functions |-> {s, helper}, related |-> main :> 1]}
=============================================================================
