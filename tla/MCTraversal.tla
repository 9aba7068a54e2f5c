----------------------------- MODULE MCTraversal -----------------------------
(***************************************************************************)
(* The annotated function a hands its pointer argument p to g and stores   *)
(* through it; g calls h and the declaration d.  Every acyclic-or-not      *)
(* choice of the dependence edges between their nodes, as long as no cycle *)
(* consists of argument nodes.  As in the library, the actual argument of  *)
(* a's call has p itself for its value.                                    *)
(***************************************************************************)
EXTENDS Traversal, TLC

CONSTANTS a, g, h, d

MCFunctions == {a, g, h, d}
MCDeclarations == {d}
MCWithPDG == {a, g, h}

\* formal p; a second, non-pointer formal; actual; store; loaded value; return
InA == {"p_a", "k_a", "arg_a", "store_a", "load_a", "ret_a"}
InG == {"p_g", "call_g", "g"}
Others == {"h", "d", "const", "phi"}
MCNodes == InA \cup InG \cup Others

MCKind == [n \in MCNodes |->
  CASE n \in {"p_a", "k_a", "p_g"} -> "formal"
    [] n = "arg_a" -> "actual"
    [] n \in {"g", "h", "d"} -> "function"
    [] n = "const" -> "ignored"
    [] n = "phi" -> "plain"
    [] OTHER -> "instruction"]

MCParent == [n \in MCNodes |->
  CASE n = "g" \/ n \in InG -> g
    [] n = "h" -> h
    [] n = "d" -> d
    [] OTHER -> a]

MCValue == [n \in MCNodes |->
  CASE n = "arg_a" -> "p_a" [] n = "phi" -> "none" [] OTHER -> n]

MCPointer == [n \in MCNodes |-> n \in {"p_a", "arg_a", "p_g"}]

MCStoredValue == [n \in MCNodes |-> IF n = "store_a" THEN "load_a" ELSE "none"]

Candidates ==
  {<<"p_a", "store_a">>, <<"p_a", "arg_a">>, <<"arg_a", "p_g">>, <<"arg_a", "g">>,
   <<"p_g", "call_g">>, <<"call_g", "h">>, <<"call_g", "load_a">>, <<"h", "load_a">>,
   <<"store_a", "arg_a">>, <<"arg_a", "p_a">>, <<"load_a", "ret_a">>}

Always == {<<"p_a", "const">>, <<"call_g", "d">>, <<"call_g", "phi">>}

MCEdgeSets ==
  {E \cup Always : E \in {C \in SUBSET Candidates :
                            ~({<<"p_a", "arg_a">>, <<"arg_a", "p_a">>} \subseteq C)}}

MCAnnotations ==
  {[arguments |-> <<"p_a">>, onReturn |-> TRUE, void |-> FALSE],
   [arguments |-> <<"p_a", "k_a">>, onReturn |-> FALSE, void |-> FALSE],
   [arguments |-> << >>, onReturn |-> TRUE, void |-> TRUE]}

MCReturns == <<"ret_a">>
=============================================================================
