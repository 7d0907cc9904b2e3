------------------------------ MODULE MCWorkLease ------------------------------
(* Small instances of WorkLease for TLC. *)
EXTENDS WorkLease, TLC, FiniteSets

Symmetry == Permutations(Stoppers)

(* Status updates are explored with at most two stop calls. *)
StatusOrThreeStops ==
  Cardinality({s \in Stoppers : stopper[s].pc # "idle"}) = 3 =>
    \A l \in Leases : observer[l].sequence = 1
=============================================================================
