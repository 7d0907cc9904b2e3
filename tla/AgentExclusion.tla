---------------------------- MODULE AgentExclusion ----------------------------
(***************************************************************************)
(* What the lifecycle coordinator promises its callers, without tokens,    *)
(* channels or program counters: executions share an Agent while it is     *)
(* open, a mutation first shuts it, is granted once the last execution has *)
(* left, and reopening ends the mutation.                                  *)
(***************************************************************************)
CONSTANT Procs

VARIABLES executing,  \* processes with an execution lease
          mutating,   \* the process with the exclusive lease, if any
          open        \* new executions are admitted

vars == <<executing, mutating, open>>

Init == executing = {} /\ mutating = {} /\ open = TRUE

Enter(p) ==
  /\ open
  /\ p \notin executing
  /\ executing' = executing \union {p}
  /\ UNCHANGED <<mutating, open>>

Leave(p) ==
  /\ p \in executing
  /\ executing' = executing \ {p}
  /\ UNCHANGED <<mutating, open>>

Shut ==
  /\ open
  /\ open' = FALSE
  /\ UNCHANGED <<executing, mutating>>

Grant(p) ==
  /\ ~open
  /\ executing = {}
  /\ mutating = {}
  /\ mutating' = {p}
  /\ UNCHANGED <<executing, open>>

Reopen ==
  /\ ~open
  /\ open' = TRUE
  /\ mutating' = {}
  /\ UNCHANGED executing

Next ==
  \/ \E p \in Procs : Enter(p) \/ Leave(p) \/ Grant(p)
  \/ Shut
  \/ Reopen

Spec == Init /\ [][Next]_vars
=============================================================================
