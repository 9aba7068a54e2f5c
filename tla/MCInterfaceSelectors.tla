------------------------ MODULE MCInterfaceSelectors ------------------------
(***************************************************************************)
(* Two functions of the enclave and two of the application; programs of    *)
(* two sources of up to two declarations, at most one of them the          *)
(* definition of a name.                                                   *)
(***************************************************************************)
EXTENDS InterfaceSelectors, TLC

Decls == [name : Names, definition : BOOLEAN]

SeqsUpTo(S, n) == UNION {[1 .. k -> S] : k \in 0 .. n}

DefinedOnce(p) ==
  \A n \in Names :
    Cardinality({e \in UNION {{j} \X DOMAIN p[j] : j \in DOMAIN p} :
                   p[e[1]][e[2]] = [name |-> n, definition |-> TRUE]}) <= 1

MCPrograms == {p \in [1 .. 2 -> SeqsUpTo(Decls, 2)] : DefinedOnce(p)}
=============================================================================
