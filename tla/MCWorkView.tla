------------------------------ MODULE MCWorkView ------------------------------
(* Small instances of WorkView for TLC. *)
EXTENDS WorkView
=============================================================================
