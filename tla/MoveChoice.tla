----------------------------- MODULE MoveChoice -----------------------------
(***************************************************************************)
(* What an optimization that moves functions into the secure partition     *)
(* may do, seen from outside: at one instant some of the candidates change *)
(* sides, and the related entries of just these functions go.              *)
(***************************************************************************)
CONSTANTS Functions, Starts

VARIABLES start, moved, secure, insecure, related, done

vars == <<start, moved, secure, insecure, related, done>>

Init ==
  /\ start \in Starts
  /\ secure = start.secure
  /\ insecure = start.insecure
  /\ related = start.related
  /\ moved = {}
  /\ done = FALSE

Move ==
  /\ ~done
  /\ moved' \subseteq start.candidates
  /\ secure' = secure \cup moved'
  /\ insecure' = insecure \ moved'
  /\ related' = related \ moved'
  /\ done' = TRUE
  /\ UNCHANGED start

Spec == Init /\ [][Move]_vars
=============================================================================
