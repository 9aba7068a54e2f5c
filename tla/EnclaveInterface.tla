-------------------------- MODULE EnclaveInterface --------------------------
(***************************************************************************)
(* The interface of the enclave, as the generated code gets it from the    *)
(* two partitions: functions of one are not functions of the other.        *)
(***************************************************************************)
CONSTANTS
  Ecalls,      \* in_interface of the secure partition
  Ocalls       \* and of the insecure one

ASSUME InterfaceAssumption == Ecalls \cap Ocalls = {}
=============================================================================
