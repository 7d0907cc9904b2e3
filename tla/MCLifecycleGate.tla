--------------------------- MODULE MCLifecycleGate ---------------------------
(* Instance of LifecycleGate for TLC. *)
EXTENDS LifecycleGate
=============================================================================
