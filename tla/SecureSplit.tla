----------------------------- MODULE SecureSplit -----------------------------
(***************************************************************************)
(* What the partitioning pass promises to the code generators, and no      *)
(* more: an enclave is collected, it only grows while it is being          *)
(* collected, and then one split is published and never changes: every     *)
(* sensitive function is in the enclave, every other function of the       *)
(* module is either in the enclave or in the application, none in both.    *)
(***************************************************************************)
CONSTANTS
  Functions,   \* the functions of the module
  Sensitive    \* the sets of functions a user may have annotated

VARIABLES
  sensitive,   \* the annotated functions
  enclave,     \* the secure side
  app,         \* the insecure side, {} until the split is published
  published

vars == <<sensitive, enclave, app, published>>

Init ==
  /\ sensitive \in Sensitive
  /\ enclave = {}
  /\ app = {}
  /\ published = FALSE

Grow ==
  /\ ~published
  /\ enclave \subseteq enclave'
  /\ enclave' \subseteq Functions
  /\ UNCHANGED <<sensitive, app, published>>

Publish ==
  /\ ~published
  /\ sensitive \subseteq enclave'
  /\ enclave \subseteq enclave'
  /\ enclave' \subseteq Functions
  /\ app' = Functions \ enclave'
  /\ published' = TRUE
  /\ UNCHANGED sensitive

Next == Grow \/ Publish

Spec == Init /\ [][Next]_vars
=============================================================================
