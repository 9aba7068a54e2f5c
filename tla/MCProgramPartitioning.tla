----------------------- MODULE MCProgramPartitioning -----------------------
(***************************************************************************)
(* Small programs for TLC: main, two functions that may call each other,   *)
(* a fourth one, and a library function without a body; every subset of a  *)
(* set of calls, some of them in loops; two globals.                       *)
(***************************************************************************)
EXTENDS ProgramPartitioning, TLC

CONSTANTS main, a, b, c, ext, g, h

MCFunctions == {main, a, b, c, ext}
MCGlobals == {g, h}

Levels(known) ==
  [f \in MCFunctions |-> IF f \in DOMAIN known THEN known[f] ELSE NotRelated]

None == Levels([f \in {} |-> 0])

Annot(f, arg, ret) == [function |-> f, argRelated |-> arg, retRelated |-> ret]

(***************************************************************************)
(* Annotation sets: one sensitive function; two whose traversals reach     *)
(* common functions at different distances, one of them the other's;       *)
(* a sensitive library function; a sensitive main.                         *)
(***************************************************************************)
AnnotationSets ==
  { {Annot(a, None, None)},
    {Annot(a, Levels(b :> 1 @@ c :> 2), Levels(c :> 1)),
     Annot(b, Levels(a :> 1 @@ c :> 3), Levels(main :> 2))},
    {Annot(a, Levels(b :> 2), None), Annot(c, Levels(b :> 1), None),
     Annot(ext, None, None)},
    {Annot(main, Levels(c :> 1), None)},
    {} }

Prog(calls, loops, uses, annots, pdgs) ==
  [declarations |-> {ext}, hasPDG |-> pdgs, calls |-> calls,
   loopCalls |-> loops, uses |-> uses, annotations |-> annots]

Edges == {<<main, a>>, <<main, b>>, <<a, b>>, <<a, c>>, <<b, a>>, <<a, ext>>}
LoopEdges == {<<a, b>>, <<b, a>>}

MCPrograms ==
  { Prog(calls, loops, {<<a, g>>, <<b, g>>, <<c, h>>}, annots, {main, a, b, c}) :
      calls \in SUBSET Edges, loops \in {{}, LoopEdges}, annots \in AnnotationSets }

MCProgs == {p \in MCPrograms : p.loopCalls \subseteq p.calls}

MCOptNames == {"", "search-based", "local", "function-move", "global-move",
               "function-duplicate", "kl", "ilp", "unknown"}
\* a hands its argument to c, which is the only function that uses h.
MovedCallee ==
  {Prog({<<main, a>>, <<a, b>>, <<a, c>>}, {}, {<<a, g>>, <<b, g>>, <<c, h>>},
        {Annot(a, Levels(c :> 1), None)}, {main, a, b, c})}

\* What this option moves is determined by the annotations.
DocumentedMove == {"search-based"}
=============================================================================
