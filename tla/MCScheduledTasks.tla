-------------------------- MODULE MCScheduledTasks --------------------------
(* Instances of ScheduledTasks for TLC. *)
EXTENDS ScheduledTasks

Never == MaxClock + 1

(* Once; recurring without end; recurring and expiring. *)
MCKinds == {[once |-> TRUE, expires |-> Never], [once |-> FALSE, expires |-> Never],
            [once |-> FALSE, expires |-> 1]}
=============================================================================
