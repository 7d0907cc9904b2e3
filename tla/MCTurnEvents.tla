----------------------------- MODULE MCTurnEvents -----------------------------
(* Instance of TurnEvents for TLC. *)
EXTENDS TurnEvents
=============================================================================
