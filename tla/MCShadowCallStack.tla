------------------------- MODULE MCShadowCallStack -------------------------
(***************************************************************************)
(* main, a function and a library function, in up to two threads.          *)
(***************************************************************************)
EXTENDS ShadowCallStack

CONSTANTS main, work, library, external, t1, t2
=============================================================================
