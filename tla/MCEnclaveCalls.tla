---------------------------- MODULE MCEnclaveCalls ----------------------------
(***************************************************************************)
(* An ecall with two parameters and a result, a void one with one, a void  *)
(* ocall with two parameters and an ocall with one and a result, nested    *)
(* three deep.                                                             *)
(***************************************************************************)
EXTENDS EnclaveCalls, TLC

CONSTANTS move, score, puts, ask

MCArity == (move :> 2) @@ (score :> 1) @@ (puts :> 2) @@ (ask :> 1)
=============================================================================
