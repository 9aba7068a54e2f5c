-------------------------- MODULE MCGlobalSetters --------------------------
(***************************************************************************)
(* main is outside, key inside the enclave, helper on either side, and     *)
(* puts is a declaration outside.  All three bodies write the global pos,  *)
(* key writes the global fuel too; several choices of dependence edges     *)
(* lead from the globals to the stores.  The partitions' globals are those *)
(* of the split at hand, or stale ones.                                    *)
(***************************************************************************)
EXTENDS GlobalSetters, TLC

CONSTANTS main, key, helper, puts, pos, fuel, s1, s2, s3, s4, x

MCFunctions == {main, key, helper, puts}
MCGlobals == {pos, fuel}
MCNodes == {s1, s2, s3, s4, x}

MCIn == s1 :> main @@ s2 :> key @@ s3 :> helper @@ s4 :> key @@ x :> key
MCStoresTo == s1 :> pos @@ s2 :> pos @@ s3 :> pos @@ s4 :> fuel @@ x :> None

\* The globals the functions of a side reference: neighbours of their nodes.
Referenced(F, edges) ==
  {g \in MCGlobals : \E n \in MCNodes :
     MCIn[n] \in F /\ (<<g, n>> \in edges \/ <<n, g>> \in edges)}

SplitGlobals(secure, edges) ==
  [s \in Sides |-> Referenced(IF s = "secure" THEN secure ELSE MCFunctions \ secure, edges)]

\* What GlobalsMoveToPartitionOptimization leaves: each side's own globals.
OwnGlobals(globals) == [s \in Sides |-> globals[s] \ globals[Other(s)]]

Program(secure, globals, order, calls_, stores, edges, indirect) ==
  [secure |-> secure, globals |-> globals, declared |-> {puts}, calls |-> calls_,
   order |-> order, in |-> MCIn, storesTo |-> stores, indirect |-> indirect,
   edges |-> edges]

MCOrders == {<<puts, main, helper, key>>, <<key, puts, helper, main>>}

MCCalls ==
  {{<<main, key>>, <<key, helper>>} \cup C :
     C \in SUBSET {<<main, helper>>, <<key, puts>>, <<main, puts>>}}

\* From the global to its stores, directly and through other instructions.
MCEdges ==
  {{<<pos, s1>>, <<pos, s3>>, <<fuel, s4>>} \cup E :
     E \in {F \cup {e} : F \in SUBSET {<<fuel, s3>>, <<s2, s1>>, <<s3, fuel>>},
                         e \in {<<pos, s2>>, <<s3, s2>>}}
           \cup {{<<pos, x>>, <<x, s2>>, <<pos, s2>>}}}

\* <<fuel, s3>> and <<s3, fuel>> together are a cycle.
DirectPrograms ==
  {Program(S, SplitGlobals(S, E), o, C, MCStoresTo, E, {}) :
     S \in {{key}, {key, helper}}, o \in MCOrders, C \in MCCalls,
     E \in {F \in MCEdges : ~({<<fuel, s3>>, <<s3, fuel>>} \subseteq F)}}

MCSimple == {<<pos, s1>>, <<pos, s2>>, <<pos, s3>>, <<fuel, s4>>, <<fuel, s3>>}

\* A body writes a part of a global: the pointer operand is an address in it.
IndirectPrograms ==
  {Program({key}, SplitGlobals({key}, MCSimple), o, C, MCStoresTo, MCSimple, {n}) :
     o \in MCOrders, C \in MCCalls, n \in {s2, s3, s4}}

\* helper joined the enclave after the globals were computed; the enclave
\* wrote pos before, or did not.
MovedHelper(stores, edges) ==
  {Program({key, helper}, SplitGlobals({key}, edges), o, C, stores, edges, {}) :
     o \in MCOrders, C \in MCCalls}

StalePrograms ==
  MovedHelper(MCStoresTo, MCSimple) \cup
  MovedHelper([MCStoresTo EXCEPT ![s2] = fuel],
              {<<pos, s1>>, <<pos, s3>>, <<fuel, s2>>, <<fuel, s4>>})

MovedGlobals ==
  {Program({key}, OwnGlobals(SplitGlobals({key}, MCSimple)), o, C, MCStoresTo, MCSimple, {}) :
     o \in MCOrders, C \in MCCalls}

\* No edge leads to helper's store to pos.
MCUnreached == MCSimple \ {<<pos, s3>>, <<fuel, s3>>}

UnreachedPrograms ==
  {Program({key}, SplitGlobals({key}, MCUnreached), o, C, MCStoresTo, MCUnreached, {}) :
     o \in MCOrders, C \in MCCalls}

MCPrograms ==
  DirectPrograms \cup IndirectPrograms \cup StalePrograms \cup MovedGlobals
    \cup UnreachedPrograms
=============================================================================
