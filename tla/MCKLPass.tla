------------------------------ MODULE MCKLPass ------------------------------
(***************************************************************************)
(* One sensitive function s, main, and three candidates.  Every subset of  *)
(* the calls (b calls itself), a call weighing 1 or 3, with equal weights  *)
(* on both copies or with the weights normalization leaves at the callee;  *)
(* two node cost assignments.  Infinity is small enough for some functions *)
(* to reach it, exactly or beyond, and large enough for others not to.     *)
(***************************************************************************)
EXTENDS KLPass, SequencesExt

CONSTANTS s, main, a, b, c

MCFunctions == {s, main, a, b, c}
Calls == {<<main, a>>, <<a, s>>, <<s, b>>, <<a, b>>, <<b, c>>, <<b, b>>}
LoopCalls == {<<a, s>>, <<b, c>>}

Weigh(C, w(_)) == [e \in MCFunctions \X MCFunctions |-> IF e \in C THEN w(e) ELSE 0]

\* The order of an edge list is that of the calls in the module: one or its reverse.
Listed(S, reversed) == IF reversed THEN Reverse(SetToSeq(S)) ELSE SetToSeq(S)

Graph(C, in(_), out(_), cost, reversed) ==
  [callers |-> [f \in MCFunctions |-> Listed({h \in MCFunctions : <<h, f>> \in C}, reversed)],
   callees |-> [f \in MCFunctions |-> Listed({h \in MCFunctions : <<f, h>> \in C}, reversed)],
   inWeight |-> Weigh(C, in), outWeight |-> Weigh(C, out),
   related |-> cost.related, size |-> cost.size]

One(e) == 1
Heavy(e) == IF e \in LoopCalls THEN 3 ELSE 1
Normalized(e) == IF e \in LoopCalls THEN 1 ELSE 0

Nothing == [f \in MCFunctions |-> 0]

NodeCosts ==
  {[related |-> Nothing, size |-> Nothing],
   [related |-> [Nothing EXCEPT ![b] = 5],
    size |-> [f \in MCFunctions |-> CASE f = a -> 2 [] f = b -> 2 [] OTHER -> 1]]}

MCGraphs ==
  UNION {{Graph(C, One, One, n, r), Graph(C, Heavy, Heavy, n, r),
          Graph(C, Normalized, Heavy, n, r)} :
            C \in SUBSET Calls, n \in NodeCosts, r \in BOOLEAN}

MCStarts ==
  {[secure |-> S, insecure |-> MCFunctions \ S, related |-> R,
    candidates |-> MCFunctions \ (S \cup {main})] :
      S \in {{s}, {s, c}}, R \in {{}, {a, b}}}
=============================================================================
