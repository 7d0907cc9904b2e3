---------------------------- MODULE RoomTaskProofs ----------------------------
(***************************************************************************)
(* Proofs about RoomTask, for any rooms, workers, tasks, plans and          *)
(* handlers, any number of attempts, failed deliveries and restarts.  First *)
(* the cases of a step (NextStep), then what a step may do to a single task *)
(* and the invariants that speak of single tasks and calls, then those that *)
(* relate tasks and rooms, and the theorems.                                *)
(***************************************************************************)
EXTENDS RoomTask, TLAPS

-----------------------------------------------------------------------------
(* What a step does to subtask c.                                           *)

Becomes(c, status, to, attempt, result, waiting, recovery) ==
  /\ kid'[c].status = status /\ kid'[c].to = to
  /\ kid'[c].attempt = attempt /\ kid'[c].result = result
  /\ kid'[c].waiting = waiting /\ kid'[c].recovery = recovery
  /\ kid'[c].parent = kid[c].parent /\ kid'[c].deps = kid[c].deps

Same(c) ==
  LET k == kid[c] IN
  /\ Becomes(c, k.status, k.to, k.attempt, k.result, k.waiting, k.recovery)
  /\ k.status = "none" => kid'[c] = k

(* Plan and AppendPlan create it. *)
IsPlanned(c) ==
  /\ kid[c] = Unplanned
  /\ kid'[c].parent \in Parents /\ Open(kid'[c].parent) /\ kid'[c].to \in Workers
  /\ kid'[c] = [Unplanned EXCEPT !.status = "pending", !.parent = kid'[c].parent,
                                 !.to = kid'[c].to, !.deps = kid'[c].deps]

(* RequestStop and Report revoke it. *)
IsRevoked(c) ==
  LET k == kid[c] IN
  /\ (k.status \notin Terminal /\ ~running(c)) \/ k.status = "assigned"
  /\ ~k.recovery /\ k.status # "none"
  /\ \/ Becomes(c, "cancelled", k.to, k.attempt, k.result, None, k.recovery)
     \/ /\ root'[k.parent].status \in Terminal
        /\ Becomes(c, "cancelled", k.to, k.attempt, k.result, k.waiting, k.recovery)

IsWaiting(c) ==
  LET k == kid[c] IN
  /\ Open(k.parent) /\ firstParent(k.parent) /\ ~Occupies(c)
  /\ k.status \notin {"none", "completed", "review"}
  /\ \E w \in Workers, d \in Children :
       Becomes(c, "blocked", w, k.attempt, k.result, d, k.recovery)

IsDispatched(c) ==
  LET k == kid[c] IN
  /\ Open(k.parent) /\ firstParent(k.parent) /\ ~Occupies(c) /\ dependenciesReady(c)
  /\ k.status \notin {"none", "completed", "review"}
  /\ root'[k.parent].status = "in_progress"
  /\ \A d \in Children \ {c} : Same(d)
  /\ \E w \in Workers :
       /\ Busy(c, w) = {}
       /\ Becomes(c, "assigned", w, k.attempt + 1, k.result, None, k.recovery)

IsClaimed(c) ==
  LET k == kid[c] IN
  /\ Open(k.parent) /\ ~k.recovery /\ k.status = "assigned"
  /\ Becomes(c, "in_progress", k.to, k.attempt, 0, k.waiting, k.recovery)

IsUpdated(c) ==
  LET k == kid[c] IN
  /\ Unfinished(k.parent) /\ ~k.recovery /\ k.status = "in_progress" /\ k.attempt >= 1
  /\ \E s \in {"review", "failed", "blocked", "cancelled"}, r \in {0, k.attempt} :
       /\ s = "review" => r = k.attempt
       /\ Becomes(c, s, k.to, k.attempt, r, k.waiting, k.recovery)

IsReviewed(c) ==
  LET k == kid[c] IN
  /\ Open(k.parent) /\ ~k.recovery /\ Submitted(c) /\ k.attempt >= 1
  /\ \E s \in {"completed", "blocked"} :
       Becomes(c, s, k.to, k.attempt, k.result, k.waiting, k.recovery)

(* Its worker has stopped, or is archived. *)
IsCancelled(c) ==
  LET k == kid[c] IN
  \/ /\ running(c) /\ Becomes(c, "cancelled", k.to, k.attempt, k.result, k.waiting, k.recovery)
  \/ /\ k.status \notin Terminal \cup {"none"}
     /\ Becomes(c, "cancelled", k.to, k.attempt, k.result, None, FALSE)

(* A restart left its execution uncertain. *)
IsUncertain(c) ==
  LET k == kid[c] IN
  /\ running(c) /\ Unfinished(k.parent)
  /\ Becomes(c, "blocked", k.to, k.attempt, k.result, k.waiting, TRUE)

IsResolved(c) ==
  LET k == kid[c] IN
  /\ k.recovery
  /\ \E s \in {k.status, "cancelled"} :
       Becomes(c, s, k.to, k.attempt, k.result, k.waiting, FALSE)

(* Its worker has left the room. *)
IsBlocked(c) ==
  LET k == kid[c] IN
  /\ k.status \in memberRemovalBlocks
  /\ Becomes(c, "blocked", k.to, k.attempt, k.result, k.waiting, k.recovery)

IsReleased(c) ==
  LET k == kid[c] IN
  /\ k.waiting # None /\ k.status = "blocked" /\ Open(k.parent)
  /\ Becomes(c, "pending", k.to, k.attempt, k.result, None, k.recovery)

Move(c) ==
  \/ Same(c) \/ IsRevoked(c) \/ IsWaiting(c) \/ IsDispatched(c)
  \/ IsClaimed(c) \/ IsUpdated(c) \/ IsReviewed(c) \/ IsCancelled(c) \/ IsUncertain(c)
  \/ IsResolved(c) \/ IsBlocked(c) \/ IsReleased(c)

(* The plan of a parent changes only by valid additions. *)
Addition(plan) ==
  /\ validReferences(plan.items, KidsOf(plan.parent))
  /\ AddChildren(plan.parent, plan.items)
  /\ \A c \in Children : Same(c) \/ IsPlanned(c)

Moves ==
  /\ kid' \in [Children -> Kid]
  /\ (\A c \in Children : Move(c)) \/ \E plan \in Plans : Addition(plan)
-----------------------------------------------------------------------------
LEMMA Unmoved ==
  ASSUME TypeOK, UNCHANGED kid
  PROVE  Moves
BY Zenon DEF TypeOK, Moves, Move, Same, Becomes

(* One subtask changes. *)
LEMMA OneMoves ==
  ASSUME TypeOK, NEW c \in Children, NEW k \in Kid, kid' = [kid EXCEPT ![c] = k],
         Move(c)
  PROVE  Moves
BY ZenonT(30) DEF TypeOK, Moves, Move, Same, Becomes

LEMMA KidTyped ==
  ASSUME TypeOK, NEW c \in Children
  PROVE  /\ kid[c] \in Kid
         /\ Planned(c) => kid[c].parent \in Parents /\ kid[c].to \in Workers
BY Zenon DEF TypeOK, Kid, Planned

LEMMA DispatchMoves ==
  ASSUME TypeOK, NEW h \in Callers, NEW c \in Children, NEW w \in Workers,
         Dispatch(h, c, w)
  PROVE  Moves
<1> DEFINE k == [kid[c] EXCEPT !.to = w, !.status = "assigned", !.attempt = @ + 1,
                               !.waiting = None]
<1> kid[c] \in Kid /\ kid[c].parent \in Parents
  BY Zenon, KidTyped DEF Dispatch, changeKid
<1>1. kid' = [kid EXCEPT ![c] = k]
  BY ZenonT(30) DEF Dispatch, TypeOK
<1>2. k \in Kid
  <2>1. kid[c].attempt + 1 \in Nat
        /\ None \in Children \cup {None} /\ w \in Workers \cup {None} /\ "assigned" \in KidStatus
    BY DEF Kid, KidStatus
  <2> QED BY <2>1, Zenon DEF Kid
<1>3. Becomes(c, "assigned", w, kid[c].attempt + 1, kid[c].result, None, kid[c].recovery)
  BY Zenon, <1>1 DEF Becomes, Kid, TypeOK
<1>4. \A d \in Children \ {c} : Same(d)
  BY Zenon, <1>1 DEF Becomes, Same, TypeOK
<1>5. root'[kid[c].parent].status = "in_progress"
  BY DEF Dispatch, TypeOK, Root
<1>6. IsDispatched(c)
  BY Zenon, <1>3, <1>4, <1>5 DEF IsDispatched, Dispatch, Dispatchable, changeKid, Planned
<1> QED
  BY ZenonT(30), <1>1, <1>2, <1>6, OneMoves DEF Move

LEMMA DispatchWaitsMoves ==
  ASSUME TypeOK, NEW h \in Callers, NEW c \in Children, NEW w \in Workers,
         DispatchWaits(h, c, w)
  PROVE  Moves
<1> kid[c] \in Kid
  BY Zenon, KidTyped
<1>1. PICK d \in Children :
        kid' = [kid EXCEPT ![c].to = w, ![c].status = "blocked", ![c].waiting = d]
  BY ZenonT(30) DEF DispatchWaits, Busy
<1> DEFINE k == [kid[c] EXCEPT !.to = w, !.status = "blocked", !.waiting = d]
<1>2. kid' = [kid EXCEPT ![c] = k]
  BY ZenonT(30), <1>1 DEF TypeOK
<1>3. k \in Kid
  BY ZenonT(30) DEF Kid, KidStatus
<1>4. Becomes(c, "blocked", w, kid[c].attempt, kid[c].result, d, kid[c].recovery)
  BY Zenon, <1>2 DEF Becomes, Kid, TypeOK
<1>5. IsWaiting(c)
  BY Zenon, <1>4 DEF IsWaiting, DispatchWaits, Dispatchable, changeKid, Planned
<1> QED
  BY ZenonT(30), <1>2, <1>3, <1>5, OneMoves DEF Move

LEMMA ClaimMoves ==
  ASSUME TypeOK, NEW c \in Children, NEW w \in Workers, NEW a \in Attempts, Claim(c, w, a)
  PROVE  Moves
<1> DEFINE k == [kid[c] EXCEPT !.status = "in_progress", !.result = 0]
<1> kid[c] \in Kid
  BY Zenon, KidTyped
<1>1. kid' = [kid EXCEPT ![c] = k]
  BY ZenonT(30) DEF Claim, TypeOK
<1>2. k \in Kid
  BY ZenonT(30) DEF Kid, KidStatus
<1>3. IsClaimed(c)
  BY <1>1 DEF IsClaimed, Becomes, Kid, TypeOK, Claim
<1> QED
  BY ZenonT(30), <1>1, <1>2, <1>3, OneMoves DEF Move

LEMMA UpdateMoves ==
  ASSUME TypeOK, NEW h \in Callers, NEW c \in Children, NEW w \in Workers,
         NEW a \in Attempts, NEW s \in Reports, NEW result \in BOOLEAN,
         UpdateExecution(h, c, w, a, s, result)
  PROVE  Moves
<1> DEFINE r == IF result THEN a ELSE 0
           k == [kid[c] EXCEPT !.status = s, !.result = r]
<1> kid[c] \in Kid /\ s \in {"review", "failed", "blocked", "cancelled"}
  BY Zenon, KidTyped, RoomTaskAssumption
<1>1. kid' = [kid EXCEPT ![c] = k]
  BY ZenonT(30) DEF UpdateExecution, TypeOK
<1>2. a = kid[c].attempt /\ a >= 1 /\ a \in Nat
  BY Zenon DEF UpdateExecution, Executes, Kid
<1>3. k \in Kid
  BY ZenonT(30), <1>2 DEF Kid, KidStatus, Terminal
<1>4. Becomes(c, s, kid[c].to, kid[c].attempt, r, kid[c].waiting, kid[c].recovery)
  BY Zenon, <1>1 DEF Becomes, Kid, TypeOK
<1>5. r \in {0, kid[c].attempt} /\ (s = "review" => r = kid[c].attempt)
  BY Zenon, <1>2 DEF UpdateExecution
<1> HIDE DEF r
<1>6. IsUpdated(c)
  BY Zenon, <1>2, <1>4, <1>5 DEF IsUpdated, UpdateExecution
<1> QED
  BY ZenonT(30), <1>1, <1>3, <1>6, OneMoves DEF Move

LEMMA ReviewMoves ==
  ASSUME TypeOK, NEW h \in Callers, NEW c \in Children, NEW a \in Attempts,
         NEW accept \in BOOLEAN, Review(h, c, a, accept)
  PROVE  Moves
<1> DEFINE s == IF accept THEN "completed" ELSE "blocked"
           k == [kid[c] EXCEPT !.status = s]
<1> kid[c] \in Kid
  BY Zenon, KidTyped
<1>1. kid' = [kid EXCEPT ![c] = k]
  BY Zenon DEF Review, TypeOK
<1>2. k \in Kid
  BY Zenon DEF Kid, KidStatus, Terminal
<1>3. IsReviewed(c)
  BY <1>1 DEF IsReviewed, Becomes, Kid, TypeOK, Review
<1> QED
  BY ZenonT(30), <1>1, <1>2, <1>3, OneMoves DEF Move

LEMMA WorkerStoppedMoves ==
  ASSUME TypeOK, NEW h \in Callers, NEW c \in Children, NEW w \in Workers,
         NEW a \in Attempts, WorkerStopped(h, c, w, a)
  PROVE  Moves
<1> DEFINE k == [kid[c] EXCEPT !.status = "cancelled"]
<1> kid[c] \in Kid
  BY Zenon, KidTyped
<1>1. kid' = [kid EXCEPT ![c] = k]
  BY ZenonT(30) DEF WorkerStopped, TypeOK
<1>2. k \in Kid
  BY ZenonT(30) DEF Kid, KidStatus, Terminal
<1>3. IsCancelled(c)
  BY <1>1 DEF IsCancelled, Becomes, Kid, TypeOK, WorkerStopped
<1> QED
  BY ZenonT(30), <1>1, <1>2, <1>3, OneMoves DEF Move

LEMMA ResolveMoves ==
  ASSUME TypeOK, NEW h \in Callers, NEW c \in Children, NEW a \in Attempts,
         ResolveRecovery(h, c, a)
  PROVE  Moves
<1> DEFINE s == IF root[kid[c].parent].status = "stopping" THEN "cancelled" ELSE kid[c].status
           k == [kid[c] EXCEPT !.recovery = FALSE, !.status = s]
<1> kid[c] \in Kid
  BY Zenon, KidTyped
<1>1. kid' = [kid EXCEPT ![c] = k]
  BY ZenonT(30) DEF ResolveRecovery, TypeOK
<1>2. k \in Kid
  BY ZenonT(30) DEF Kid, KidStatus, Terminal
<1>3. IsResolved(c)
  BY <1>1 DEF IsResolved, Becomes, Kid, TypeOK, ResolveRecovery
<1> QED
  BY ZenonT(30), <1>1, <1>2, <1>3, OneMoves DEF Move

(* Every subtask changes in its own way. *)
LEMMA EachMoves ==
  ASSUME kid' = [c \in Children |-> kid'[c]],
         \A c \in Children : kid'[c] \in Kid /\ Move(c)
  PROVE  Moves
BY Zenon DEF Moves

LEMMA AddChildrenMoves ==
  ASSUME TypeOK, NEW plan \in Plans, Open(plan.parent), AddChildren(plan.parent, plan.items),
         validReferences(plan.items, KidsOf(plan.parent))
  PROVE  Moves
<1> DEFINE p == plan.parent
           items == plan.items
<1> p \in Parents
  BY Zenon, RoomTaskAssumption
<1>1. ASSUME NEW c \in Children PROVE kid'[c] \in Kid /\ (Same(c) \/ IsPlanned(c))
  <2> kid[c] \in Kid
    BY Zenon, KidTyped
  <2>1. CASE c \in DOMAIN items
    <3> DEFINE w == items[c].to
               ds == items[c].deps
    <3>1. w \in Workers /\ ds \in SUBSET Children
      BY Zenon, <2>1, RoomTaskAssumption
    <3>2. kid'[c] = [Unplanned EXCEPT !.status = "pending", !.parent = p, !.to = w, !.deps = ds]
      BY <2>1, Zenon DEF AddChildren
    <3>3. kid[c] = Unplanned
      BY ZenonT(30), <2>1 DEF AddChildren, TypeOK
    <3> HIDE DEF w, ds, p
    <3>4. kid'[c] = [status |-> "pending", parent |-> p, to |-> w, deps |-> ds, attempt |-> 0,
                     result |-> 0, waiting |-> None, recovery |-> FALSE]
      BY ZenonT(30), <3>2 DEF Unplanned
    <3>5. kid'[c] \in Kid
      BY <3>1, <3>4 DEF Kid, KidStatus
    <3>6. kid'[c].parent = p /\ kid'[c].to = w /\ kid'[c].deps = ds
      BY <3>4
    <3>7. IsPlanned(c)
      BY Zenon, <3>1, <3>2, <3>3, <3>6 DEF IsPlanned, p
    <3> QED
      BY Zenon, <3>5, <3>7
  <2>2. CASE c \notin DOMAIN items
    BY ZenonT(30), <2>2 DEF AddChildren, Same, Becomes
  <2> QED
    BY Zenon, <2>1, <2>2
<1>2. kid' = [c \in Children |-> kid'[c]]
  BY ZenonT(30) DEF AddChildren
<1> QED
  BY <1>1, <1>2, Zenon DEF Moves, Addition

LEMMA RequestStopMoves ==
  ASSUME TypeOK, NEW h \in Callers, NEW p \in Parents, RequestStop(h, p)
  PROVE  Moves
<1>1. ASSUME NEW c \in Children PROVE kid'[c] \in Kid /\ Move(c)
  <2> kid[c] \in Kid /\ (c \in KidsOf(p) => kid[c].status # "none")
    BY KidTyped, RoomTaskAssumption DEF KidsOf, TypeOK, Unplanned
  <2>1. CASE c \in KidsOf(p) /\ ~KeptByStop(c)
    <3>1. kid'[c] = [kid[c] EXCEPT !.status = "cancelled", !.waiting = None]
      BY <2>1, Zenon DEF RequestStop
    <3>2. kid'[c] \in Kid
      BY ZenonT(30), <3>1 DEF Kid, KidStatus, Terminal
    <3>3. IsRevoked(c)
      BY Zenon, <2>1, <3>1 DEF IsRevoked, KeptByStop, Becomes, Kid, KidStatus, running, DispatchedOrClaimed
    <3> QED
      BY Zenon, <3>2, <3>3 DEF Move
  <2>2. CASE ~(c \in KidsOf(p) /\ ~KeptByStop(c))
    BY <2>2, Zenon DEF RequestStop, Move, Same, Becomes
  <2> QED
    BY Zenon, <2>1, <2>2
<1> QED
  BY ZenonT(30), <1>1, EachMoves DEF RequestStop

LEMMA ReportMoves ==
  ASSUME TypeOK, NEW h \in Callers, NEW p \in Parents, NEW o \in Outcomes, Report(h, p, o)
  PROVE  Moves
<1>0. root'[p].status \in Terminal
  BY RoomTaskAssumption DEF Report, OutcomeStatus, Terminal, TypeOK, Root
<1>1. ASSUME NEW c \in Children PROVE kid'[c] \in Kid /\ Move(c)
  <2> kid[c] \in Kid /\ (c \in KidsOf(p) => kid[c].status # "none" /\ kid[c].parent = p)
    BY KidTyped, RoomTaskAssumption DEF KidsOf, TypeOK, Unplanned
  <2>1. CASE c \in KidsOf(p) /\ kid[c].status \notin Terminal
    <3>1. kid'[c] = [kid[c] EXCEPT !.status = "cancelled"]
      BY <2>1, Zenon DEF Report
    <3>2. kid'[c] \in Kid
      BY Zenon, <3>1 DEF Kid, KidStatus, Terminal
    <3>3. IsRevoked(c)
      BY ZenonT(30), <1>0, <2>1, <3>1
      DEF IsRevoked, Becomes, Kid, KidStatus, Report, NothingOccupied, Occupies, running
    <3> QED
      BY Zenon, <3>2, <3>3 DEF Move
  <2>2. CASE ~(c \in KidsOf(p) /\ kid[c].status \notin Terminal)
    BY <2>2, Zenon DEF Report, Move, Same, Becomes
  <2> QED
    BY Zenon, <2>1, <2>2
<1> QED
  BY Zenon, <1>1, EachMoves DEF Report

LEMMA RecoverMoves ==
  ASSUME TypeOK, Recover
  PROVE  Moves
<1>1. ASSUME NEW c \in Children PROVE kid'[c] \in Kid /\ Move(c)
  <2> kid[c] \in Kid
    BY Zenon, KidTyped
  <2>1. CASE kid'[c] = kid[c]
    BY <2>1, Zenon DEF Move, Same, Becomes
  <2>2. CASE running(c) /\ Unfinished(kid[c].parent) /\ kid'[c] = Uncertain(c)
    <3>1. kid'[c] \in Kid
      BY ZenonT(30), <2>2 DEF Kid, KidStatus, Uncertain
    <3>2. IsUncertain(c)
      BY Zenon, <2>2 DEF IsUncertain, Becomes, Kid, Uncertain
    <3> QED
      BY Zenon, <3>1, <3>2 DEF Move
  <2> QED
    BY <2>1, <2>2, Zenon DEF Recover
<1> QED
  BY Zenon, <1>1, EachMoves DEF Recover

LEMMA CancelMoves ==
  ASSUME TypeOK, NEW w \in Workers, CancelAgentTasks(w)
  PROVE  Moves
<1>1. ASSUME NEW c \in Children PROVE kid'[c] \in Kid /\ Move(c)
  <2> kid[c] \in Kid
    BY Zenon, KidTyped
  <2>1. CASE kid'[c] = kid[c]
    BY <2>1, Zenon DEF Move, Same, Becomes
  <2>2. CASE /\ kid[c].status \notin Terminal \cup {"none"}
             /\ kid'[c] = [kid[c] EXCEPT !.status = "cancelled", !.waiting = None, !.recovery = FALSE]
    <3>1. kid'[c] \in Kid
      BY ZenonT(30), <2>2 DEF Kid, KidStatus, Terminal
    <3>2. IsCancelled(c)
      BY ZenonT(30), <2>2 DEF IsCancelled, Becomes, Kid
    <3> QED
      BY Zenon, <3>1, <3>2 DEF Move
  <2> QED
    BY <2>1, <2>2, Zenon DEF CancelAgentTasks, Planned
<1> QED
  BY ZenonT(30), <1>1, EachMoves DEF CancelAgentTasks

LEMMA MembersChangedMoves ==
  ASSUME TypeOK, NEW h \in Callers, NEW p \in Parents, MembersChanged(h, p)
  PROVE  Moves
<1>1. ASSUME NEW c \in Children PROVE kid'[c] \in Kid /\ Move(c)
  <2> kid[c] \in Kid
    BY Zenon, KidTyped
  <2>1. CASE kid'[c] = kid[c]
    BY <2>1, Zenon DEF Move, Same, Becomes
  <2>2. CASE /\ kid[c].status \in memberRemovalBlocks
             /\ kid'[c] = [kid[c] EXCEPT !.status = "blocked"]
    <3>1. kid'[c] \in Kid
      BY ZenonT(30), <2>2 DEF Kid, KidStatus
    <3>2. IsBlocked(c)
      BY Zenon, <2>2 DEF IsBlocked, Becomes, Kid
    <3> QED
      BY Zenon, <3>1, <3>2 DEF Move
  <2> QED
    BY <2>1, <2>2, Zenon DEF MembersChanged
<1> QED
  BY ZenonT(30), <1>1, EachMoves DEF MembersChanged

LEMMA releaseCapacityMoves ==
  ASSUME TypeOK, NEW h \in Callers, releaseCapacity(h)
  PROVE  Moves
<1>1. ASSUME NEW c \in Children PROVE kid'[c] \in Kid /\ Move(c)
  <2> kid[c] \in Kid
    BY Zenon, KidTyped
  <2>1. CASE c \notin Released
    BY <2>1, Zenon DEF releaseCapacity, Move, Same, Becomes
  <2>2. CASE c \in Released
    <3>0. kid'[c] = [kid[c] EXCEPT !.status = "pending", !.waiting = None]
      BY ZenonT(30), <2>2 DEF releaseCapacity
    <3>1. kid'[c] \in Kid
      BY ZenonT(30), <3>0 DEF Kid, KidStatus
    <3>2. IsReleased(c)
      BY Zenon, <2>2, <3>0 DEF IsReleased, Becomes, Kid, Released
    <3> QED
      BY SMTT(30), <3>1, <3>2 DEF Move
  <2> QED
    BY Zenon, <2>1, <2>2
<1> QED
  BY ZenonT(30), <1>1, EachMoves DEF releaseCapacity

-----------------------------------------------------------------------------
(* What a step does to parent p.                                            *)

Stays(p) ==
  /\ root'[p].status = root[p].status /\ root'[p].older = root[p].older
  /\ root'[p].report = "none" => root[p].report = "none"

Passes(p, status) ==
  /\ root'[p].status = status /\ root'[p].older = root[p].older
  /\ root'[p].report = root[p].report

IsCreated(p) ==
  /\ root[p].status = "none" /\ Available(RoomOf[p])
  /\ root'[p].status = "queued" /\ root'[p].older = ParentsOf(RoomOf[p])
  /\ root'[p].report = root[p].report

IsStarted(p) == firstParent(p) /\ Open(p) /\ Passes(p, "in_progress")

IsResumed(p) == root[p].status = "review" /\ Passes(p, "in_progress")

IsReviewable(p) ==
  /\ Open(p) /\ Passes(p, "review")
  /\ \E c \in KidsOf(p) : kid[c].attempt >= 1

IsStopped(p) ==
  /\ Open(p) /\ Passes(p, "stopping")
  /\ \A c \in Children : kid'[c].parent = kid[c].parent
  /\ \A c \in KidsOf(p) : \/ KeptByStop(c) /\ Same(c)
                          \/ kid'[c].status = "cancelled" /\ kid'[c].waiting = None

IsReported(p) ==
  /\ root[p].status # "none" /\ root[p].report = "none"
  /\ root'[p].status \in Terminal /\ root'[p].older = root[p].older
  /\ root'[p].report # "none"
  /\ \A c \in Children : kid'[c].parent = kid[c].parent
  /\ \A c \in KidsOf(p) : kid'[c].status \in Terminal /\ ~kid'[c].recovery

Turn(p) ==
  \/ Stays(p) \/ IsCreated(p) \/ IsStarted(p) \/ IsResumed(p) \/ IsReviewable(p)
  \/ IsStopped(p) \/ IsReported(p)

Turns == root' \in [Parents -> Root] /\ \A p \in Parents : Turn(p)
-----------------------------------------------------------------------------
LEMMA Unturned ==
  ASSUME TypeOK, UNCHANGED root
  PROVE  Turns
BY Zenon DEF TypeOK, Turns, Turn, Stays

LEMMA OneTurns ==
  ASSUME TypeOK, NEW p \in Parents, NEW k \in Root, root' = [root EXCEPT ![p] = k], Turn(p)
  PROVE  Turns
BY Zenon DEF TypeOK, Turns, Turn, Stays

LEMMA CreateTurns ==
  ASSUME TypeOK, NEW p \in Parents, Create(p)
  PROVE  Turns
<1> DEFINE k == [root[p] EXCEPT !.status = "queued", !.older = ParentsOf(RoomOf[p])]
<1> root[p] \in Root
  BY Zenon DEF TypeOK
<1>1. root' = [root EXCEPT ![p] = k]
  BY ZenonT(30) DEF Create, TypeOK
<1>2. k \in Root
  BY ZenonT(30) DEF Root, RootStatus, ParentsOf
<1>3. IsCreated(p)
  BY <1>1 DEF IsCreated, Create, TypeOK, Root
<1> QED
  BY ZenonT(30), <1>1, <1>2, <1>3, OneTurns DEF Turn

LEMMA PlanTurns ==
  ASSUME TypeOK, NEW h \in Callers, NEW plan \in Plans, NEW auto \in BOOLEAN,
         Plan(h, plan, auto)
  PROVE  Turns
<1> DEFINE p == plan.parent
           s == IF auto /\ firstParent(p) THEN "in_progress" ELSE root[p].status
           k == [root[p] EXCEPT !.status = s]
<1> p \in Parents /\ root[p] \in Root
  BY Zenon, RoomTaskAssumption DEF TypeOK
<1>1. root' = [root EXCEPT ![p] = k]
  BY Zenon DEF Plan, TypeOK
<1>2. k \in Root
  BY Zenon DEF Root, RootStatus
<1>3. Open(p)
  BY Zenon DEF Plan
<1>4. Turn(p)
  <2>1. CASE auto /\ firstParent(p)
    BY Zenon, <1>1, <1>3, <2>1 DEF Turn, IsStarted, Passes, TypeOK, Root
  <2>2. CASE ~(auto /\ firstParent(p))
    BY Zenon, <1>1, <2>2 DEF Turn, Stays, TypeOK, Root
  <2> QED
    BY Zenon, <2>1, <2>2
<1> QED
  BY ZenonT(30), <1>1, <1>2, <1>4, OneTurns

LEMMA AppendPlanTurns ==
  ASSUME TypeOK, NEW h \in Callers, NEW plan \in Plans, AppendPlan(h, plan)
  PROVE  Turns
<1> DEFINE p == plan.parent
           s == IF root[p].status = "review" THEN "in_progress" ELSE root[p].status
           k == [root[p] EXCEPT !.status = s, !.extended = @ \cup {plan.request}]
<1> p \in Parents /\ root[p] \in Root
  BY Zenon, RoomTaskAssumption DEF TypeOK
<1>1. root' = [root EXCEPT ![p] = k]
  BY ZenonT(30) DEF AppendPlan, TypeOK
<1>2. k \in Root
  BY ZenonT(30) DEF Root, RootStatus
<1>3. Turn(p)
  BY Zenon, <1>1 DEF Turn, IsResumed, Passes, Stays, TypeOK, Root
<1> QED
  BY ZenonT(30), <1>1, <1>2, <1>3, OneTurns

LEMMA StartTurns ==
  ASSUME TypeOK, NEW h \in Callers, NEW p \in Parents, Start(h, p)
  PROVE  Turns
<1> DEFINE k == [root[p] EXCEPT !.status = "in_progress"]
<1> root[p] \in Root
  BY Zenon DEF TypeOK
<1>1. root' = [root EXCEPT ![p] = k]
  BY Zenon DEF Start, TypeOK
<1>2. k \in Root
  BY Zenon DEF Root, RootStatus
<1>3. IsStarted(p)
  BY <1>1 DEF IsStarted, Passes, Start, TypeOK, Root, Open, firstParent
<1> QED
  BY ZenonT(30), <1>1, <1>2, <1>3, OneTurns DEF Turn

LEMMA DispatchTurns ==
  ASSUME TypeOK, NEW h \in Callers, NEW c \in Children, NEW w \in Workers, Dispatch(h, c, w)
  PROVE  Turns
<1> DEFINE p == kid[c].parent
           k == [root[p] EXCEPT !.status = "in_progress"]
<1> p \in Parents /\ root[p] \in Root
  BY Zenon, KidTyped DEF TypeOK, Dispatch, changeKid
<1>1. root' = [root EXCEPT ![p] = k]
  BY Zenon DEF Dispatch, TypeOK
<1>2. k \in Root
  BY Zenon DEF Root, RootStatus
<1>3. IsStarted(p)
  BY <1>1 DEF IsStarted, Passes, Dispatch, Dispatchable, TypeOK, Root
<1> QED
  BY ZenonT(30), <1>1, <1>2, <1>3, OneTurns DEF Turn

LEMMA ReviewTurns ==
  ASSUME TypeOK, NEW h \in Callers, NEW c \in Children, NEW a \in Attempts,
         NEW accept \in BOOLEAN, Review(h, c, a, accept)
  PROVE  Turns
<1> DEFINE p == kid[c].parent
           s == IF accept /\ OthersCompleted(c) THEN "review" ELSE root[p].status
           k == [root[p] EXCEPT !.status = s]
<1> p \in Parents /\ root[p] \in Root /\ c \in KidsOf(p) /\ kid[c].attempt >= 1 /\ Open(p)
  BY Zenon, KidTyped DEF TypeOK, Review, changeKid, KidsOf
<1>1. root' = [root EXCEPT ![p] = k]
  BY Zenon DEF Review, TypeOK
<1>2. k \in Root
  BY Zenon DEF Root, RootStatus
<1>3. Turn(p)
  <2>1. CASE accept /\ OthersCompleted(c)
    BY Zenon, <1>1, <2>1 DEF Turn, IsReviewable, Passes, TypeOK, Root
  <2>2. CASE ~(accept /\ OthersCompleted(c))
    BY Zenon, <1>1, <2>2 DEF Turn, Stays, TypeOK, Root
  <2> QED
    BY Zenon, <2>1, <2>2
<1> QED
  BY ZenonT(30), <1>1, <1>2, <1>3, OneTurns

LEMMA RequestStopTurns ==
  ASSUME TypeOK, NEW h \in Callers, NEW p \in Parents, RequestStop(h, p)
  PROVE  Turns
<1> DEFINE k == [root[p] EXCEPT !.status = "stopping", !.woken = TRUE]
<1> root[p] \in Root
  BY Zenon DEF TypeOK
<1>1. root' = [root EXCEPT ![p] = k]
  BY ZenonT(30) DEF RequestStop, TypeOK
<1>2. k \in Root
  BY ZenonT(30) DEF Root, RootStatus
<1>3. ASSUME NEW c \in Children
      PROVE  /\ kid'[c].parent = kid[c].parent
             /\ c \in KidsOf(p) => \/ KeptByStop(c) /\ Same(c)
                                   \/ kid'[c].status = "cancelled" /\ kid'[c].waiting = None
  <2> kid[c] \in Kid
    BY Zenon, KidTyped
  <2>1. CASE c \in KidsOf(p) /\ ~KeptByStop(c)
    <3>1. kid'[c] = [kid[c] EXCEPT !.status = "cancelled", !.waiting = None]
      BY <2>1, Zenon DEF RequestStop
    <3> QED
      BY Zenon, <3>1 DEF Kid
  <2>2. CASE ~(c \in KidsOf(p) /\ ~KeptByStop(c))
    BY <2>2, Zenon DEF RequestStop, Same, Becomes
  <2> QED
    BY Zenon, <2>1, <2>2
<1>4. Open(p) /\ Passes(p, "stopping")
  <2>1. root'[p] = k
    BY Zenon, <1>1 DEF TypeOK
  <2>2. Open(p)
    BY ZenonT(30) DEF RequestStop
  <2> QED
    BY Zenon, <2>1, <2>2 DEF Passes, Root
<1>5. IsStopped(p)
  BY <1>3, <1>4, Zenon DEF IsStopped, KidsOf
<1> QED
  BY ZenonT(30), <1>1, <1>2, <1>5, OneTurns DEF Turn

LEMMA ReportTurns ==
  ASSUME TypeOK, NEW h \in Callers, NEW p \in Parents, NEW o \in Outcomes, Report(h, p, o)
  PROVE  Turns
<1> DEFINE k == [root[p] EXCEPT !.status = OutcomeStatus[o], !.report = "pending"]
<1> root[p] \in Root /\ OutcomeStatus[o] \in Terminal
  BY RoomTaskAssumption DEF TypeOK, OutcomeStatus, Terminal
<1>1. root' = [root EXCEPT ![p] = k]
  BY ZenonT(30) DEF Report, TypeOK
<1>2. k \in Root
  BY ZenonT(30) DEF Root, RootStatus
<1>3. ASSUME NEW c \in Children
      PROVE  /\ kid'[c].parent = kid[c].parent
             /\ c \in KidsOf(p) => kid'[c].status \in Terminal /\ ~kid'[c].recovery
  <2> kid[c] \in Kid /\ (c \in KidsOf(p) => ~kid[c].recovery)
    BY Zenon, KidTyped DEF Report, NothingOccupied, Occupies
  <2>1. CASE c \in KidsOf(p) /\ kid[c].status \notin Terminal
    <3>1. kid'[c] = [kid[c] EXCEPT !.status = "cancelled"]
      BY <2>1, Zenon DEF Report
    <3> QED
      BY Zenon, <2>1, <3>1 DEF Kid, Terminal
  <2>2. CASE ~(c \in KidsOf(p) /\ kid[c].status \notin Terminal)
    BY <2>2, Zenon DEF Report
  <2> QED
    BY Zenon, <2>1, <2>2
<1>4. /\ root'[p].status \in Terminal /\ root'[p].older = root[p].older
      /\ root'[p].report # "none" /\ root[p].status # "none" /\ root[p].report = "none"
  BY <1>1 DEF Report, change, changeState, TypeOK, Root
<1>5. IsReported(p)
  BY <1>3, <1>4, Zenon DEF IsReported, KidsOf
<1> QED
  BY ZenonT(30), <1>1, <1>2, <1>5, OneTurns DEF Turn

LEMMA VisitTurns ==
  ASSUME TypeOK, NEW h \in Callers, NEW p \in Parents, Visit(h, p)
  PROVE  Turns
<1> DEFINE s == IF root[p].report = "pending" THEN "delivered" ELSE root[p].report
           k == [root[p] EXCEPT !.report = s]
<1> root[p] \in Root
  BY Zenon DEF TypeOK
<1>1. root' = [root EXCEPT ![p] = k]
  BY ZenonT(30) DEF Visit, TypeOK
<1>2. k \in Root
  BY ZenonT(30) DEF Root
<1>3. root'[p] = k
  BY Zenon, <1>1 DEF TypeOK
<1> HIDE DEF s
<1>4. k.status = root[p].status /\ k.older = root[p].older /\ k.report = s
  BY Zenon DEF Root
<1>5. s = "none" => root[p].report = "none"
  BY Zenon DEF s, TypeOK, Root
<1>6. Stays(p)
  BY Zenon, <1>3, <1>4, <1>5 DEF Stays
<1> QED
  BY ZenonT(30), <1>1, <1>2, <1>6, OneTurns DEF Turn

LEMMA recordNextTurns ==
  ASSUME TypeOK, NEW h \in Callers, recordNext(h)
  PROVE  Turns
<1>1. ASSUME NEW p \in Parents PROVE root'[p] \in Root /\ Stays(p)
  <2> root[p] \in Root
    BY Zenon DEF TypeOK
  <2>1. CASE root'[p] = root[p]
    BY Zenon, <2>1 DEF Stays
  <2>2. CASE root'[p] = [root[p] EXCEPT !.woken = TRUE]
    BY ZenonT(30), <2>2 DEF Stays, Root
  <2> QED
    BY ZenonT(30), <2>1, <2>2 DEF recordNext
<1> QED
  BY ZenonT(30), <1>1 DEF recordNext, Turns, Turn

-----------------------------------------------------------------------------
(* What a step does to the calls: only BeginRoomDeletion starts a deletion. *)

Located(x) == x.pc \notin {"idle", "lost", "members"} => x.room # None

Calls ==
  /\ call' \in [Callers -> Call]
  /\ \A h \in Callers : Located(call'[h])
  /\ \A h \in Callers : call'[h].pc = "deleting" => call'[h] = call[h]

LEMMA NothingQueued == <<>> \in Seq((SUBSET Rooms) \ {{}})
OBVIOUS

LEMMA UnchangedCalls ==
  ASSUME TypeOK, UNCHANGED call
  PROVE  Calls
BY Zenon DEF TypeOK, Calls, Located

LEMMA OneCalls ==
  ASSUME TypeOK, NEW h \in Callers, NEW x \in Call, x.pc # "deleting", Located(x),
         call' = [call EXCEPT ![h] = x]
  PROVE  Calls
BY Zenon DEF TypeOK, Calls, Located

LEMMA IdleTyped == Idle \in Call /\ Idle.pc = "idle" /\ Located(Idle)
<1>1. <<>> \in Seq((SUBSET Rooms) \ {{}})
  OBVIOUS
<1> QED
  BY Zenon, <1>1 DEF Idle, Call, Located

LEMMA DeliveryTyped ==
  ASSUME NEW r \in Rooms, NEW stack \in Seq((SUBSET Rooms) \ {{}}), NEW then \in SUBSET Parents
  PROVE  /\ [Delivery(r) EXCEPT !.stack = stack, !.then = then] \in Call
         /\ [Delivery(r) EXCEPT !.stack = stack, !.then = then].pc = "send"
         /\ Located([Delivery(r) EXCEPT !.stack = stack, !.then = then])
         /\ [Delivery(r) EXCEPT !.then = then] \in Call
         /\ [Delivery(r) EXCEPT !.then = then].pc = "send"
         /\ Located([Delivery(r) EXCEPT !.then = then])
         /\ Delivery(r) \in Call /\ Delivery(r).pc = "send" /\ Located(Delivery(r))
<1>1. ParentsOf(r) \in SUBSET Parents
  BY Zenon DEF ParentsOf
<1>2. Delivery(r) \in Call /\ Delivery(r).pc = "send" /\ Delivery(r).room = r /\ r # None
  BY ZenonT(30), <1>1, IdleTyped, RoomTaskAssumption DEF Delivery, Call
<1> QED
  BY ZenonT(30), <1>2 DEF Call, Located

LEMMA DeliverCalls ==
  ASSUME TypeOK, NEW h \in Callers, NEW r \in Rooms, Deliver(h, r)
  PROVE  Calls
<1>1. Delivery(r) \in Call /\ Delivery(r).pc = "send" /\ Located(Delivery(r))
  BY ZenonT(30), DeliveryTyped, NothingQueued
<1>2. call' = [call EXCEPT ![h] = Delivery(r)]
  BY Zenon DEF Deliver
<1> QED
  BY ZenonT(30), <1>1, <1>2, OneCalls

LEMMA changeCalls ==
  ASSUME TypeOK, NEW h \in Callers, NEW p \in Parents, change(h, p)
  PROVE  Calls
BY Zenon, DeliverCalls, RoomTaskAssumption DEF change

LEMMA changeKidCalls ==
  ASSUME TypeOK, NEW h \in Callers, NEW c \in Children, changeKid(h, c)
  PROVE  Calls
BY Zenon, changeCalls, KidTyped DEF changeKid

LEMMA ReturnCalls ==
  ASSUME TypeOK, NEW h \in Callers, NEW stack \in Seq((SUBSET Rooms) \ {{}}),
         Return(h, stack)
  PROVE  Calls
<1> DEFINE then == call[h].then
<1>0. then \in SUBSET Parents
  BY Zenon DEF TypeOK, Call
<1>1. CASE stack # <<>>
  <2>1. PICK r \in Head(stack) :
          call' = [call EXCEPT ![h] = [Delivery(r) EXCEPT !.stack = Rest(Head(stack), r, Tail(stack)),
                                                          !.then = call[h].then]]
    BY ZenonT(30), <1>1 DEF Return
  <2> DEFINE rest == Rest(Head(stack), r, Tail(stack))
  <2>2. Head(stack) \in (SUBSET Rooms) \ {{}} /\ Tail(stack) \in Seq((SUBSET Rooms) \ {{}})
    BY <1>1
  <2>3. r \in Rooms
    BY Zenon, <2>1, <2>2
  <2>4. rest \in Seq((SUBSET Rooms) \ {{}})
    <3>1. CASE Head(stack) = {r}
      BY Zenon, <2>2, <3>1 DEF Rest
    <3>2. CASE Head(stack) # {r}
      <4>1. Head(stack) \ {r} \in (SUBSET Rooms) \ {{}}
        BY Zenon, <2>1, <2>2, <3>2
      <4>2. rest = <<Head(stack) \ {r}>> \o Tail(stack)
        BY SMTT(30), <3>2 DEF Rest
      <4> HIDE DEF rest
      <4> QED
        BY <2>2, <4>1, <4>2
    <3> QED
      BY Zenon, <3>1, <3>2
  <2> HIDE DEF rest, then
  <2> DEFINE x == [Delivery(r) EXCEPT !.stack = rest, !.then = then]
  <2>5. x \in Call /\ x.pc = "send" /\ Located(x)
    BY ZenonT(30), <1>0, <2>3, <2>4, DeliveryTyped
  <2>6. call' = [call EXCEPT ![h] = x]
    BY Zenon, <2>1 DEF rest, then
  <2> HIDE DEF x
  <2> QED
    BY ZenonT(30), <2>5, <2>6, OneCalls
<1>2. CASE stack = <<>>
  <2> DEFINE x == IF then = {} THEN Idle ELSE [Idle EXCEPT !.pc = "members", !.then = then]
  <2>1. x \in Call /\ x.pc # "deleting" /\ Located(x)
    BY ZenonT(30), <1>0, IdleTyped DEF Call, Located
  <2>2. call' = [call EXCEPT ![h] = x]
    BY Zenon, <1>2 DEF Return
  <2> HIDE DEF x
  <2> QED
    BY ZenonT(30), <2>1, <2>2, OneCalls
<1> QED
  BY Zenon, <1>1, <1>2

-----------------------------------------------------------------------------
(* Every step, from these parts. *)

Rosters ==
  /\ members' \in [Rooms -> SUBSET Workers]
  /\ closing' \subseteq Rooms /\ deleted' \subseteq Rooms /\ dropped' \subseteq deleted'
  /\ failed' \subseteq Rooms /\ faults' \in Nat

Deletions ==
  \/ Calls /\ UNCHANGED closing /\ deleted' \ dropped' \subseteq deleted \ dropped
  \/ /\ Calls /\ closing' = {} /\ UNCHANGED <<deleted, dropped>>
     /\ \A h \in Callers : call'[h].pc # "deleting"
  \/ /\ call' \in [Callers -> Call] /\ UNCHANGED root
     /\ \A h \in Callers : Located(call'[h])
     /\ \/ \E h \in Callers, r \in Rooms : BeginRoomDeletion(h, r)
        \/ \E h \in Callers, ok \in BOOLEAN : DeleteRoom(h, ok)

Step == Moves /\ Turns /\ Rosters /\ Deletions

LEMMA OrdinaryStep ==
  ASSUME TypeOK, Moves, Turns, Calls, UNCHANGED <<members, closing, deleted, dropped, failed, faults>>
  PROVE  Step
BY Zenon DEF TypeOK, Step, Rosters, Deletions

LEMMA DeliveriesStep ==
  ASSUME TypeOK, NEW h \in Callers, Deliveries(h)
  PROVE  Step
<1> USE DEF roster, faulty
<1>1. ASSUME GiveUp(h) PROVE Step
  <2>1. call' = [call EXCEPT ![h] = Idle] /\ UNCHANGED <<root, kid, members, closing, deleted, dropped, failed, faults>>
    BY Zenon, <1>1 DEF GiveUp
  <2> QED
    BY ZenonT(30), <2>1, IdleTyped, OneCalls, Unmoved, Unturned, OrdinaryStep
<1>2. ASSUME recordNext(h) PROVE Step
  <2> DEFINE next == {p \in ParentsOf(call[h].room) : NeedsWake(p)}
             x == [call[h] EXCEPT !.pc = IF next = {} THEN "release" ELSE "send",
                                  !.left = IF next = {} THEN {} ELSE ParentsOf(call[h].room)]
  <2>1. call' = [call EXCEPT ![h] = x]
    BY ZenonT(30), <1>2 DEF recordNext, TypeOK
  <2>2. ParentsOf(call[h].room) \in SUBSET Parents
    BY SMTT(30) DEF ParentsOf
  <2>3. x \in Call /\ x.pc # "deleting" /\ Located(x)
    BY ZenonT(30), <1>2, <2>2 DEF TypeOK, Call, Located, recordNext
  <2>4. UNCHANGED <<kid, members, closing, deleted, dropped, failed, faults>>
    BY ZenonT(30), <1>2 DEF recordNext
  <2> HIDE DEF x
  <2> QED
    BY ZenonT(30), <1>2, <2>1, <2>3, <2>4, OneCalls, Unmoved, recordNextTurns, OrdinaryStep
<1>3. ASSUME releaseCapacity(h) PROVE Step
  <2> DEFINE rooms == {RoomOf[kid[c].parent] : c \in Released}
             stack == IF rooms = {} THEN call[h].stack ELSE <<rooms>> \o call[h].stack
  <2>1. rooms \subseteq Rooms
    BY KidTyped, RoomTaskAssumption DEF Released, Planned, TypeOK, Unplanned
  <2>2. call[h].stack \in Seq((SUBSET Rooms) \ {{}})
    BY Zenon DEF TypeOK, Call
  <2>3. Return(h, stack)
    BY <1>3, Zenon DEF releaseCapacity
  <2> HIDE DEF rooms
  <2>4. stack \in Seq((SUBSET Rooms) \ {{}})
    <3>1. CASE rooms = {}
      BY Zenon, <2>2, <3>1
    <3>2. CASE rooms # {}
      <4>1. rooms \in (SUBSET Rooms) \ {{}} /\ stack = <<rooms>> \o call[h].stack
        BY SMTT(30), <2>1, <3>2
      <4> HIDE DEF stack
      <4> QED
        BY <2>2, <4>1
    <3> QED
      BY Zenon, <3>1, <3>2
  <2>5. UNCHANGED <<root, members, closing, deleted, dropped, failed, faults>>
    BY ZenonT(30), <1>3 DEF releaseCapacity
  <2> HIDE DEF stack
  <2> QED
    BY Zenon, <1>3, <2>3, <2>4, <2>5, ReturnCalls, releaseCapacityMoves, Unturned, OrdinaryStep
<1>4. ASSUME NEW p \in Parents, Visit(h, p) PROVE Step
  <2> DEFINE x == [call[h] EXCEPT !.left = @ \ {p}]
  <2>1. call' = [call EXCEPT ![h] = x]
    BY Zenon, <1>4 DEF Visit, TypeOK
  <2>2. x \in Call /\ x.pc # "deleting" /\ Located(x)
    BY ZenonT(30), <1>4 DEF TypeOK, Call, Visit, Located
  <2>3. UNCHANGED <<kid, members, closing, deleted, dropped, failed, faults>>
    BY Zenon, <1>4 DEF Visit
  <2> HIDE DEF x
  <2> QED
    BY ZenonT(30), <1>4, <2>1, <2>2, <2>3, OneCalls, Unmoved, VisitTurns, OrdinaryStep
<1>5. ASSUME NEW p \in Parents, MembersChanged(h, p) PROVE Step
  <2> DEFINE x == [Delivery(RoomOf[p]) EXCEPT !.then = call[h].then \ {p}]
  <2>1. call' = [call EXCEPT ![h] = x]
    BY ZenonT(30), <1>5 DEF MembersChanged
  <2>2. call[h].then \ {p} \in SUBSET Parents /\ RoomOf[p] \in Rooms
    BY SMTT(30), RoomTaskAssumption DEF TypeOK, Call
  <2>3. x \in Call /\ x.pc # "deleting" /\ Located(x)
    BY ZenonT(30), <2>2, DeliveryTyped, NothingQueued
  <2>4. UNCHANGED <<root, members, closing, deleted, dropped, failed, faults>>
    BY ZenonT(30), <1>5 DEF MembersChanged
  <2> HIDE DEF x
  <2> QED
    BY ZenonT(30), <1>5, <2>1, <2>3, <2>4, OneCalls, MembersChangedMoves, Unturned, OrdinaryStep
<1>6. ASSUME RemoveRoomMember(h) PROVE Step
  <2> DEFINE open == {p \in ParentsOf(call[h].room) : Unfinished(p)}
             x == IF open = {} THEN Idle ELSE [Idle EXCEPT !.pc = "members", !.then = open]
  <2>1. call' = [call EXCEPT ![h] = x]
    BY Zenon, <1>6 DEF RemoveRoomMember
  <2>2. open \in SUBSET Parents
    BY Zenon DEF ParentsOf
  <2> HIDE DEF open
  <2>3. x \in Call /\ x.pc # "deleting" /\ Located(x)
    BY ZenonT(30), <2>2, IdleTyped DEF Call, Located
  <2>4. UNCHANGED <<root, kid, closing, deleted, dropped, failed, faults>>
    BY Zenon, <1>6 DEF RemoveRoomMember
  <2>5. members' \in [Rooms -> SUBSET Workers]
    BY ZenonT(30), <1>6 DEF RemoveRoomMember, TypeOK
  <2> HIDE DEF x
  <2>6. Moves /\ Turns /\ Calls
    BY ZenonT(30), <2>1, <2>3, <2>4, OneCalls, Unmoved, Unturned
  <2> QED
    BY Zenon, <2>4, <2>5, <2>6 DEF Step, Rosters, Deletions, TypeOK
<1> QED
  BY Zenon, <1>1, <1>2, <1>3, <1>4, <1>5, <1>6 DEF Deliveries

LEMMA ParentalStep ==
  ASSUME TypeOK, NEW h \in Callers, Parental(h)
  PROVE  Step
<1> USE DEF roster, faulty
<1>1. ASSUME NEW plan \in Plans, AppendPlan(h, plan) PROVE Step
  <2>1. /\ change(h, plan.parent) /\ Open(plan.parent)
        /\ AddChildren(plan.parent, plan.items)
        /\ validReferences(plan.items, KidsOf(plan.parent))
        /\ UNCHANGED <<members, closing, deleted, dropped, failed, faults>>
    BY Zenon, <1>1 DEF AppendPlan, validatePlan
  <2>2. plan.parent \in Parents
    BY Zenon, RoomTaskAssumption
  <2> QED
    BY Zenon, <1>1, <2>1, <2>2, changeCalls, AddChildrenMoves, AppendPlanTurns, OrdinaryStep
<1>2. ASSUME NEW plan \in Plans, NEW auto \in BOOLEAN, Plan(h, plan, auto) PROVE Step
  <2>1. /\ change(h, plan.parent) /\ Open(plan.parent)
        /\ AddChildren(plan.parent, plan.items)
        /\ validReferences(plan.items, KidsOf(plan.parent))
        /\ UNCHANGED <<members, closing, deleted, dropped, failed, faults>>
    BY Zenon, <1>2 DEF Plan, validatePlan
  <2>2. plan.parent \in Parents
    BY Zenon, RoomTaskAssumption
  <2> QED
    BY Zenon, <1>2, <2>1, <2>2, changeCalls, AddChildrenMoves, PlanTurns, OrdinaryStep
<1>3. ASSUME NEW p \in Parents, Start(h, p) PROVE Step
  <2>1. change(h, p) /\ UNCHANGED <<kid, members, closing, deleted, dropped, failed, faults>>
    BY Zenon, <1>3 DEF Start
  <2> QED
    BY Zenon, <1>3, <2>1, changeCalls, Unmoved, StartTurns, OrdinaryStep
<1>4. ASSUME NEW p \in Parents, RequestStop(h, p) PROVE Step
  <2>1. change(h, p) /\ UNCHANGED <<members, closing, deleted, dropped, failed, faults>>
    BY ZenonT(30), <1>4 DEF RequestStop
  <2> QED
    BY SMTT(30), <1>4, <2>1, changeCalls, RequestStopMoves, RequestStopTurns, OrdinaryStep
<1>5. ASSUME NEW p \in Parents, NEW o \in Outcomes, Report(h, p, o) PROVE Step
  <2>1. change(h, p) /\ UNCHANGED <<members, closing, deleted, dropped, failed, faults>>
    BY Zenon, <1>5 DEF Report
  <2> QED
    BY Zenon, <1>5, <2>1, changeCalls, ReportMoves, ReportTurns, OrdinaryStep
<1>6. ASSUME NEW p \in Parents, VisitFails(h, p) PROVE Step
  <2>1. /\ call' = [call EXCEPT ![h] = Idle] /\ UNCHANGED <<root, kid, members, closing, deleted, dropped>>
        /\ failed' = failed \cup {call[h].room} /\ faults' = faults + 1
        /\ p \in call[h].left
    BY Zenon, <1>6 DEF VisitFails
  <2>2. call[h].room \in Rooms
    BY ZenonT(30), <1>6 DEF VisitFails, TypeOK, Call
  <2>3. Rosters
    BY <2>1, <2>2 DEF Rosters, TypeOK
  <2>4. Calls
    BY ZenonT(30), <2>1, IdleTyped, OneCalls
  <2> QED
    BY Zenon, <1>6, <2>1, <2>3, <2>4, Unmoved, Unturned DEF Step, Deletions
<1> QED
  BY Zenon, <1>1, <1>2, <1>3, <1>4, <1>5, <1>6 DEF Parental

LEMMA OfSubtaskStep ==
  ASSUME TypeOK, NEW h \in Callers, NEW c \in Children, OfSubtask(h, c)
  PROVE  Step
<1> USE DEF roster, faulty
<1>1. ASSUME NEW w \in Workers, Dispatch(h, c, w) PROVE Step
  <2>1. changeKid(h, c) /\ UNCHANGED <<members, closing, deleted, dropped, failed, faults>>
    BY Zenon, <1>1 DEF Dispatch
  <2> QED
    BY Zenon, <1>1, <2>1, changeKidCalls, DispatchMoves, DispatchTurns, OrdinaryStep
<1>2. ASSUME NEW w \in Workers, DispatchWaits(h, c, w) PROVE Step
  <2>1. changeKid(h, c) /\ UNCHANGED <<root, members, closing, deleted, dropped, failed, faults>>
    BY Zenon, <1>2 DEF DispatchWaits
  <2> QED
    BY Zenon, <1>2, <2>1, changeKidCalls, DispatchWaitsMoves, Unturned, OrdinaryStep
<1>3. ASSUME NEW w \in Workers, NEW a \in Attempts, WorkerStopped(h, c, w, a) PROVE Step
  <2>1. changeKid(h, c) /\ UNCHANGED <<root, members, closing, deleted, dropped, failed, faults>>
    BY Zenon, <1>3 DEF WorkerStopped
  <2> QED
    BY Zenon, <1>3, <2>1, changeKidCalls, WorkerStoppedMoves, Unturned, OrdinaryStep
<1>4. ASSUME NEW w \in Workers, NEW a \in Attempts, NEW s \in Reports, NEW result \in BOOLEAN,
             UpdateExecution(h, c, w, a, s, result)
      PROVE  Step
  <2>1. changeKid(h, c) /\ UNCHANGED <<root, members, closing, deleted, dropped, failed, faults>>
    BY Zenon, <1>4 DEF UpdateExecution
  <2> QED
    BY Zenon, <1>4, <2>1, changeKidCalls, UpdateMoves, Unturned, OrdinaryStep
<1>5. ASSUME NEW a \in Attempts, ResolveRecovery(h, c, a) PROVE Step
  <2>1. changeKid(h, c) /\ UNCHANGED <<root, members, closing, deleted, dropped, failed, faults>>
    BY Zenon, <1>5 DEF ResolveRecovery
  <2> QED
    BY Zenon, <1>5, <2>1, changeKidCalls, ResolveMoves, Unturned, OrdinaryStep
<1>6. ASSUME NEW a \in Attempts, NEW accept \in BOOLEAN, Review(h, c, a, accept) PROVE Step
  <2>1. changeKid(h, c) /\ UNCHANGED <<members, closing, deleted, dropped, failed, faults>>
    BY Zenon, <1>6 DEF Review
  <2> QED
    BY Zenon, <1>6, <2>1, changeKidCalls, ReviewMoves, ReviewTurns, OrdinaryStep
<1> QED
  BY Zenon, <1>1, <1>2, <1>3, <1>4, <1>5, <1>6 DEF OfSubtask

LEMMA OfRoomStep ==
  ASSUME TypeOK, NEW h \in Callers, NEW r \in Rooms, OfRoom(h, r)
  PROVE  Step
<1> USE DEF roster, faulty
<1>1. ASSUME RetryDelivery(h, r) PROVE Step
  <2>1. /\ Deliver(h, r) \/ UNCHANGED call
        /\ failed' = failed \ {r}
        /\ UNCHANGED <<root, kid, members, closing, deleted, dropped, faults>>
    BY Zenon, <1>1 DEF RetryDelivery
  <2>2. Moves /\ Turns /\ Calls
    BY Zenon, <2>1, DeliverCalls, UnchangedCalls, Unmoved, Unturned
  <2> QED
    BY Zenon, <2>1, <2>2 DEF Step, Rosters, Deletions, TypeOK
<1>2. ASSUME BeginRoomDeletion(h, r) PROVE Step
  <2> DEFINE x == [Idle EXCEPT !.pc = "deleting", !.room = r]
  <2>1. /\ call' = [call EXCEPT ![h] = x] /\ closing' = closing \cup {r}
        /\ UNCHANGED <<root, kid, members, deleted, dropped, failed, faults>>
    BY Zenon, <1>2 DEF BeginRoomDeletion
  <2>2. x \in Call /\ Located(x)
    BY ZenonT(30), IdleTyped, RoomTaskAssumption DEF Call, Located
  <2> HIDE DEF x
  <2>3. call' \in [Callers -> Call] /\ \A g \in Callers : Located(call'[g])
    BY Zenon, <2>1, <2>2 DEF TypeOK, Located
  <2>4. Deletions
    BY Zenon, <1>2, <2>1, <2>3 DEF Deletions
  <2>5. Rosters
    BY Zenon, <2>1 DEF Rosters, TypeOK
  <2> QED
    BY Zenon, <2>1, <2>4, <2>5, Unmoved, Unturned DEF Step
<1>3. ASSUME NEW w \in Workers, CheckRemoval(h, r, w) PROVE Step
  <2> DEFINE x == [Idle EXCEPT !.pc = "checked", !.room = r, !.who = w]
  <2>1. /\ call' = [call EXCEPT ![h] = x]
        /\ UNCHANGED <<root, kid, members, closing, deleted, dropped, failed, faults>>
    BY Zenon, <1>3 DEF CheckRemoval
  <2>2. x \in Call /\ x.pc # "deleting" /\ Located(x)
    BY ZenonT(30), IdleTyped, RoomTaskAssumption DEF Call, Located
  <2> HIDE DEF x
  <2> QED
    BY ZenonT(30), <2>1, <2>2, OneCalls, Unmoved, Unturned, OrdinaryStep
<1> QED
  BY Zenon, <1>1, <1>2, <1>3 DEF OfRoom

LEMMA NextStep ==
  ASSUME TypeOK, [Next]_vars
  PROVE  Step
<1> USE DEF roster, faulty
<1>1. ASSUME NEW h \in Callers, NEW ok \in BOOLEAN, DeleteRoom(h, ok) PROVE Step
  <2>1. /\ call' = [call EXCEPT ![h] = Idle] /\ closing' = closing \ {call[h].room}
        /\ deleted' = IF ok THEN deleted \cup {call[h].room} ELSE deleted
        /\ call[h].pc = "deleting"
        /\ UNCHANGED <<root, kid, members, dropped, failed, faults>>
    BY Zenon, <1>1 DEF DeleteRoom
  <2>2. call[h].room \in Rooms
    BY ZenonT(30), <2>1 DEF TypeOK, Call
  <2>3. call' \in [Callers -> Call] /\ \A g \in Callers : Located(call'[g])
    BY Zenon, <2>1, IdleTyped DEF TypeOK, Located
  <2>4. Deletions
    BY Zenon, <1>1, <2>1, <2>3 DEF Deletions
  <2>5. Rosters
    BY Zenon, <2>1, <2>2 DEF Rosters, TypeOK
  <2> QED
    BY Zenon, <2>1, <2>4, <2>5, Unmoved, Unturned DEF Step
<1>2. ASSUME NEW p \in Parents, Create(p) PROVE Step
  <2>1. UNCHANGED <<kid, members, closing, deleted, dropped, call, failed, faults>>
    BY Zenon, <1>2 DEF Create
  <2> QED
    BY Zenon, <1>2, <2>1, UnchangedCalls, Unmoved, CreateTurns, OrdinaryStep
<1>3. ASSUME NEW c \in Children, NEW w \in Workers, NEW a \in Attempts, Claim(c, w, a) PROVE Step
  <2>1. UNCHANGED <<root, members, closing, deleted, dropped, call, failed, faults>>
    BY Zenon, <1>3 DEF Claim
  <2> QED
    BY Zenon, <1>3, <2>1, UnchangedCalls, ClaimMoves, Unturned, OrdinaryStep
<1>4. ASSUME NEW w \in Workers, CancelAgentTasks(w) PROVE Step
  <2>1. UNCHANGED <<root, members, closing, deleted, dropped, call, failed, faults>>
    BY ZenonT(30), <1>4 DEF CancelAgentTasks
  <2> QED
    BY SMTT(30), <1>4, <2>1, UnchangedCalls, CancelMoves, Unturned, OrdinaryStep
<1>5. ASSUME NEW r \in Rooms, NEW w \in Workers, AddMember(r, w) PROVE Step
  <2>1. /\ members' = [members EXCEPT ![r] = @ \cup {w}]
        /\ UNCHANGED <<root, kid, closing, deleted, dropped, call, failed, faults>>
    BY Zenon, <1>5 DEF AddMember
  <2>2. Moves /\ Turns /\ Calls
    BY SMTT(30), <2>1, UnchangedCalls, Unmoved, Unturned
  <2> QED
    BY Zenon, <2>1, <2>2 DEF Step, Rosters, Deletions, TypeOK
<1>6. ASSUME Recover PROVE Step
  <2>1. /\ call' = [h \in Callers |-> IF Delivers(h) THEN [Idle EXCEPT !.pc = "lost"] ELSE Idle]
        /\ closing' = {} /\ faults' = faults + 1
        /\ UNCHANGED <<root, members, deleted, dropped, failed>>
    BY Zenon, <1>6 DEF Recover
  <2>2. Moves /\ Turns
    BY Zenon, <1>6, <2>1, RecoverMoves, Unturned
  <2>3. ASSUME NEW x \in {Idle, [Idle EXCEPT !.pc = "lost"]}
        PROVE  x \in Call /\ x.pc # "deleting" /\ Located(x)
    BY ZenonT(30), <2>3, IdleTyped DEF Call, Located
  <2>4. Calls /\ \A h \in Callers : call'[h].pc # "deleting"
    BY ZenonT(30), <2>1, <2>3 DEF Calls
  <2>5. Rosters
    BY <2>1 DEF Rosters, TypeOK
  <2> QED
    BY Zenon, <2>1, <2>2, <2>4, <2>5 DEF Step, Deletions
<1>8. ASSUME NEW leaver \in Leavers, DeleteUser(leaver[1], leaver[2]) PROVE Step
  <2> DEFINE gone == leaver[2] \ deleted
  <2>1. /\ members' = [r \in Rooms |-> members[r] \ {leaver[1]}]
        /\ deleted' = deleted \cup gone /\ dropped' = dropped \cup gone
        /\ UNCHANGED <<root, kid, closing, call, failed, faults>>
    BY Zenon, <1>8 DEF DeleteUser
  <2>2. gone \subseteq Rooms
    BY RoomTaskAssumption
  <2> HIDE DEF gone
  <2>3. Rosters
    BY Zenon, <2>1, <2>2 DEF Rosters, TypeOK
  <2>4. Deletions
    BY Zenon, <2>1, UnchangedCalls DEF Deletions
  <2> QED
    BY Zenon, <2>1, <2>3, <2>4, Unmoved, Unturned DEF Step
<1>7. CASE UNCHANGED vars
  <2>1. UNCHANGED <<root, kid, members, closing, deleted, dropped, call, failed, faults>>
    BY Zenon, <1>7 DEF vars
  <2> QED
    BY Zenon, <2>1, UnchangedCalls, Unmoved, Unturned, OrdinaryStep
<1> QED
  BY Zenon, <1>1, <1>2, <1>3, <1>4, <1>5, <1>6, <1>7, <1>8, DeliveriesStep, ParentalStep, OfSubtaskStep,
     OfRoomStep DEF Next

-------------------------------------------------------------------------------
(* What a step may do to a single task. *)

LEMMA Changes ==
  ASSUME Moves, NEW c \in Children
  PROVE  Move(c) \/ IsPlanned(c)
BY SMTT(30) DEF Moves, Move, Addition

(* Only a planned task moves, and it keeps its parent and an assignee. *)
LEMMA MovesPlanned ==
  ASSUME TypeOK, NEW c \in Children, Move(c), ~Same(c)
  PROVE  /\ Planned(c) /\ kid'[c].status # "none" /\ kid'[c].to \in Workers
         /\ kid'[c].parent = kid[c].parent /\ kid'[c].deps = kid[c].deps
<1> kid[c] \in Kid /\ (Planned(c) => kid[c].to \in Workers)
  BY Zenon, KidTyped
<1>1. CASE IsRevoked(c)
  BY Zenon, <1>1 DEF IsRevoked, Becomes, Planned
<1>2. CASE IsWaiting(c)
  BY SMTT(30), <1>2 DEF IsWaiting, Becomes, Planned
<1>3. CASE IsDispatched(c)
  BY Zenon, <1>3 DEF IsDispatched, Becomes, Planned
<1>4. CASE IsClaimed(c)
  BY Zenon, <1>4 DEF IsClaimed, Becomes, Planned
<1>5. CASE IsUpdated(c)
  BY Zenon, <1>5 DEF IsUpdated, Becomes, Planned
<1>6. CASE IsReviewed(c)
  BY Zenon, <1>6 DEF IsReviewed, Becomes, Planned, Submitted
<1>7. CASE IsCancelled(c)
  BY Zenon, <1>7 DEF IsCancelled, Becomes, Planned, running, DispatchedOrClaimed, Terminal
<1>8. CASE IsUncertain(c)
  BY SMTT(30), <1>8 DEF IsUncertain, Becomes, Planned, running, DispatchedOrClaimed
<1>9. CASE IsResolved(c)
  BY <1>9 DEF IsResolved, Becomes, Planned, TypeOK, Unplanned
<1>10. CASE IsBlocked(c)
  BY Zenon, <1>10 DEF IsBlocked, Becomes, Planned, memberRemovalBlocks
<1>11. CASE IsReleased(c)
  BY SMTT(30), <1>11 DEF IsReleased, Becomes, Planned
<1> QED
  BY Zenon, <1>1, <1>2, <1>3, <1>4, <1>5, <1>6, <1>7, <1>8, <1>9, <1>10, <1>11 DEF Move

LEMMA TypePreserved ==
  ASSUME TypeOK, Step
  PROVE  TypeOK'
<1>1. root' \in [Parents -> Root] /\ kid' \in [Children -> Kid] /\ Rosters
  BY Zenon DEF Step, Turns, Moves
<1>2. call' \in [Callers -> Call] /\ \A h \in Callers : Located(call'[h])
  BY SMTT(30), IdleTyped DEF Step, Deletions, Calls
<1>3. ASSUME NEW p \in Parents, root[p].status # "none"
      PROVE  root'[p].status # "none"
  BY SMTT(30), <1>3 DEF Step, Turns, Turn, Stays, Passes, IsCreated, IsStarted, IsResumed, IsReviewable,
              IsStopped, IsReported, Terminal
<1>4. ASSUME NEW c \in Children
      PROVE  IF kid'[c].status = "none" THEN kid'[c] = Unplanned
             ELSE kid'[c].parent # None /\ kid'[c].to # None /\ root'[kid'[c].parent].status # "none"
  <2>0. kid[c] \in Kid /\ (Planned(c) => kid[c].parent \in Parents /\ kid[c].to \in Workers)
    BY Zenon, KidTyped
  <2>1. CASE IsPlanned(c)
    <3>1. kid'[c].parent \in Parents /\ root[kid'[c].parent].status # "none"
      BY Zenon, <2>1 DEF IsPlanned, Open, Unfinished
    <3>2. kid'[c].status = "pending"
      BY ZenonT(30), <2>1 DEF IsPlanned, Unplanned
    <3> QED
      BY Zenon, <1>3, <2>1, <3>1, <3>2, RoomTaskAssumption DEF IsPlanned
  <2>2. CASE Same(c)
    BY SMTT(30), <1>3, <2>0, <2>2, RoomTaskAssumption DEF Same, Becomes, TypeOK, Planned
  <2>3. CASE Move(c) /\ ~Same(c)
    <3>1. Planned(c) /\ kid'[c].status # "none" /\ kid'[c].parent = kid[c].parent /\ kid'[c].to \in Workers
      BY SMTT(30), <2>3, MovesPlanned
    <3> QED
      BY Zenon, <1>3, <2>0, <3>1, RoomTaskAssumption DEF TypeOK, Planned
  <2> QED
    BY Zenon, <2>1, <2>2, <2>3, Changes DEF Step
<1> QED
  BY Zenon, <1>1, <1>2, <1>4 DEF TypeOK, Rosters, Located

(* Where the parent of a task that is planned after the step was before. *)
LEMMA ParentBefore ==
  ASSUME TypeOK, Step, NEW c \in Children, Planned(c)'
  PROVE  /\ kid'[c].parent \in Parents
         /\ \/ Planned(c) /\ Move(c) /\ kid[c].parent = kid'[c].parent
            \/ IsPlanned(c) /\ Open(kid'[c].parent)
         /\ root[kid'[c].parent].status # "none"
<1>1. CASE IsPlanned(c)
  BY SMTT(30), <1>1 DEF IsPlanned, Open, Unfinished
<1>2. CASE Move(c)
  <2>1. Planned(c) /\ kid[c].parent = kid'[c].parent
    BY Zenon, <1>2, MovesPlanned DEF Same, Becomes, Planned
  <2> QED
    BY SMTT(30), <1>2, <2>1, KidTyped DEF TypeOK, Planned
<1> QED
  BY Zenon, <1>1, <1>2, Changes DEF Step

(* What a step may do to a task: only Dispatch occupies a worker, waits for *)
(* one or starts an attempt, an acceptance is kept, an attempt is claimed from its own    *)
(* dispatch, and under a parent that is not open nothing starts again.      *)
LEMMA TaskStep ==
  ASSUME TypeOK, Step, NEW c \in Children, kid[c].recovery => kid[c].status = "blocked"
  PROVE  /\ Occupies(c)' => (Occupies(c) /\ kid'[c].to = kid[c].to) \/ IsDispatched(c)
         /\ running(c)' => kid'[c].deps = kid[c].deps /\ (running(c) \/ IsDispatched(c))
         /\ kid[c].status = "completed" => kid'[c].status = "completed"
         /\ kid[c].status \in Terminal /\ ~kid[c].recovery /\ ~Open(kid[c].parent)
              => kid'[c].status \in Terminal /\ ~kid'[c].recovery
         /\ kid'[c].attempt = kid[c].attempt \/ IsDispatched(c) \/ IsPlanned(c)
         /\ Planned(c) /\ ~Open(kid[c].parent) /\ kid[c].waiting = None
              /\ kid[c].status \notin {"pending", "assigned"}
              => kid'[c].status \notin {"pending", "assigned"} /\ kid'[c].waiting = None
         /\ kid'[c].waiting = None \/ kid'[c].waiting = kid[c].waiting \/ IsWaiting(c)
         /\ kid'[c].attempt >= kid[c].attempt
         /\ kid'[c].status = "assigned" =>
              kid[c].status = "assigned" \/ kid'[c].attempt > kid[c].attempt
         /\ kid'[c].status = "in_progress" =>
              /\ kid[c].status \in {"assigned", "in_progress"}
              /\ kid'[c].attempt = kid[c].attempt
<1> kid[c].attempt \in Nat
  BY Zenon, KidTyped DEF Kid
<1>1. CASE Same(c)
  BY SMTT(30), <1>1 DEF Same, Becomes, running, DispatchedOrClaimed, Occupies, Terminal
<1>2. CASE IsRevoked(c)
  BY SMTT(30), <1>2 DEF IsRevoked, Becomes, running, DispatchedOrClaimed, Occupies, Terminal
<1>3. CASE IsWaiting(c)
  BY SMTT(30), <1>3 DEF IsWaiting, Becomes, running, DispatchedOrClaimed, Occupies, Terminal
<1>4. CASE IsDispatched(c)
  BY SMTT(30), <1>4 DEF IsDispatched, Becomes, running, DispatchedOrClaimed, Occupies, Terminal
<1>5. CASE IsClaimed(c)
  BY SMTT(30), <1>5 DEF IsClaimed, Becomes, running, DispatchedOrClaimed, Occupies, Terminal
<1>6. CASE IsUpdated(c)
  BY SMTT(30), <1>6 DEF IsUpdated, Becomes, running, DispatchedOrClaimed, Occupies, Terminal
<1>7. CASE IsReviewed(c)
  BY SMTT(30), <1>7 DEF IsReviewed, Becomes, Submitted, running, DispatchedOrClaimed, Occupies, Terminal
<1>8. CASE IsCancelled(c)
  BY SMTT(30), <1>8 DEF IsCancelled, Becomes, running, DispatchedOrClaimed, Occupies, Terminal
<1>9. CASE IsUncertain(c)
  BY SMTT(30), <1>9 DEF IsUncertain, Becomes, running, DispatchedOrClaimed, Occupies, Terminal
<1>10. CASE IsResolved(c)
  BY SMTT(30), <1>10 DEF IsResolved, Becomes, running, DispatchedOrClaimed, Occupies, Terminal
<1>11. CASE IsBlocked(c)
  BY SMTT(30), <1>11 DEF IsBlocked, Becomes, memberRemovalBlocks, running, DispatchedOrClaimed, Occupies, Terminal
<1>12. CASE IsReleased(c)
  BY SMTT(30), <1>12 DEF IsReleased, Becomes, running, DispatchedOrClaimed, Occupies, Terminal
<1>13. CASE IsPlanned(c)
  <2>1. kid'[c].status = "pending" /\ kid'[c].attempt = 0 /\ ~kid'[c].recovery /\ kid'[c].waiting = None
    BY ZenonT(30), <1>13 DEF IsPlanned, Unplanned
  <2>2. kid[c].status = "none" /\ kid[c].attempt = 0
    BY <1>13 DEF IsPlanned, Unplanned
  <2> QED
    BY <1>13, <2>1, <2>2 DEF Planned, running, DispatchedOrClaimed, Occupies, Terminal
<1> QED
  BY ZenonT(30), <1>1, <1>2, <1>3, <1>4, <1>5, <1>6, <1>7, <1>8, <1>9, <1>10, <1>11, <1>12, <1>13, Changes DEF Step, Move

(***************************************************************************)
(* The strengthening.  Only a blocked task waits for a worker or for its   *)
(* recovery; a result belongs to the attempt that is or was executing; a   *)
(* parent that has ended has filed its report; a parent's elders are in    *)
(* its room; a deletion in progress holds its room, alone; the             *)
(* predecessors of a task are its siblings and form no circle.             *)
(***************************************************************************)
WaitsBlocked ==
  \A c \in Children :
    /\ kid[c].recovery => kid[c].status = "blocked"
    /\ Occupies(c) => kid[c].waiting = None
    /\ Planned(c) /\ Unfinished(kid[c].parent) /\ kid[c].waiting # None => kid[c].status = "blocked"

ResultsOwn ==
  \A c \in Children :
    /\ kid[c].status \in {"review", "completed"} => kid[c].attempt >= 1 /\ kid[c].result = kid[c].attempt
    /\ kid[c].status = "failed" /\ kid[c].result # 0 => kid[c].result = kid[c].attempt

Filed == \A p \in Parents : root[p].status \in Terminal => root[p].report # "none"

Elders ==
  \A q \in Parents : \A p \in root[q].older : RoomOf[p] = RoomOf[q] /\ root[p].status # "none"

ClosersAlone ==
  /\ \A h \in Callers : call[h].pc = "deleting" => call[h].room \in closing
  /\ \A g, h \in Callers :
       call[g].pc = "deleting" /\ call[h].pc = "deleting" /\ call[g].room = call[h].room => g = h

Grounded ==
  /\ \A c \in Children : Planned(c) => kid[c].deps \subseteq KidsOf(kid[c].parent)
  /\ \A p \in Parents : \A S \in (SUBSET KidsOf(p)) \ {{}} : \E c \in S : kid[c].deps \cap S = {}

(* A parent that has ended stays so, and none is unfinished that was not    *)
(* created.                                                                 *)
LEMMA EndedStays ==
  ASSUME TypeOK, Filed, Step, NEW p \in Parents
  PROVE  /\ Filed'
         /\ Unfinished(p)' => Unfinished(p) \/ IsCreated(p)
         /\ root[p].status \in Terminal => Stays(p)
         /\ root[p].status # "none" => root'[p].status # "none"
<1>1. ASSUME NEW q \in Parents
      PROVE  /\ root'[q].status \in Terminal => root'[q].report # "none"
             /\ Unfinished(q)' => Unfinished(q) \/ IsCreated(q)
             /\ root[q].status \in Terminal => Stays(q)
             /\ root[q].status # "none" => root'[q].status # "none"
  BY Zenon DEF Step, Turns, Turn, Stays, Passes, IsCreated, IsStarted, IsResumed, IsReviewable,
         IsStopped, IsReported, Terminal, Filed, Unfinished, Open
<1> QED
  BY Zenon, <1>1 DEF Filed

(* The capacity of the workers. *)
LEMMA OneTaskPreserved ==
  ASSUME TypeOK, WaitsBlocked, OneTaskPerWorker, Step
  PROVE  OneTaskPerWorker'
<1> SUFFICES ASSUME NEW c \in Children, NEW d \in Children, Occupies(c)', Occupies(d)',
                    kid'[c].to = kid'[d].to, c # d
             PROVE  FALSE
  BY Zenon DEF OneTaskPerWorker
<1>1. ASSUME NEW e \in Children, NEW f \in Children, e # f, Occupies(e)', Occupies(f)',
             kid'[e].to = kid'[f].to, IsDispatched(e)
      PROVE  FALSE
  <2>1. Same(f) /\ f \in Children \ {e}
    BY Zenon, <1>1 DEF IsDispatched
  <2>2. PICK w \in Workers : Busy(e, w) = {} /\ kid'[e].to = w
    BY Zenon, <1>1 DEF IsDispatched, Becomes
  <2>3. Occupies(f) /\ kid[f].to = w
    BY Zenon, <1>1, <2>1, <2>2 DEF Same, Becomes, Occupies, running
  <2> QED
    BY Zenon, <2>1, <2>2, <2>3 DEF Busy
<1>2. CASE IsDispatched(c) \/ IsDispatched(d)
  BY Zenon, <1>1, <1>2
<1>3. CASE ~IsDispatched(c) /\ ~IsDispatched(d)
  <2>1. \A x \in Children : Occupies(x)' /\ ~IsDispatched(x) => Occupies(x) /\ kid'[x].to = kid[x].to
    BY Zenon, TaskStep DEF WaitsBlocked
  <2> QED
    BY Zenon, <1>3, <2>1 DEF OneTaskPerWorker
<1> QED
  BY Zenon, <1>2, <1>3

LEMMA WaitsPreserved ==
  ASSUME TypeOK, Filed, WaitsBlocked, Step
  PROVE  WaitsBlocked'
<1> SUFFICES ASSUME NEW c \in Children
             PROVE  /\ kid'[c].recovery => kid'[c].status = "blocked"
                    /\ Occupies(c)' => kid'[c].waiting = None
                    /\ Planned(c)' /\ Unfinished(kid[c].parent)' /\ kid'[c].waiting # None
                         => kid'[c].status = "blocked"
  BY Zenon DEF WaitsBlocked
<1>0. Planned(c) /\ kid'[c].parent = kid[c].parent =>
        /\ kid[c].parent \in Parents
        /\ Unfinished(kid[c].parent)' => Unfinished(kid[c].parent)
  <2> SUFFICES ASSUME Planned(c), kid'[c].parent = kid[c].parent
               PROVE  /\ kid[c].parent \in Parents
                      /\ Unfinished(kid[c].parent)' => Unfinished(kid[c].parent)
    BY Zenon
  <2>1. PICK p \in Parents : p = kid[c].parent /\ root[p].status # "none"
    BY Zenon, KidTyped DEF TypeOK, Planned
  <2>2. Unfinished(p)' => Unfinished(p)
    BY Zenon, <2>1, EndedStays DEF IsCreated
  <2> QED
    BY Zenon, <2>1, <2>2 DEF Unfinished
<1>1. CASE Same(c)
  BY SMTT(30), <1>1, <1>0 DEF Same, Becomes, Occupies, running, DispatchedOrClaimed, WaitsBlocked, Planned
<1>2. CASE IsRevoked(c)
  BY Zenon, <1>2, <1>0 DEF IsRevoked, Becomes, Unfinished, running, DispatchedOrClaimed, Terminal, Occupies, WaitsBlocked, Planned
<1>3. CASE IsWaiting(c)
  BY Zenon, <1>3, <1>0 DEF IsWaiting, Becomes, Occupies, running, DispatchedOrClaimed, WaitsBlocked, Planned
<1>4. CASE IsDispatched(c)
  BY Zenon, <1>4, <1>0 DEF IsDispatched, Becomes, Occupies, running, DispatchedOrClaimed, WaitsBlocked, Planned
<1>5. CASE IsClaimed(c)
  BY Zenon, <1>5, <1>0 DEF IsClaimed, Becomes, Occupies, running, DispatchedOrClaimed, WaitsBlocked, Planned
<1>6. CASE IsUpdated(c)
  BY Zenon, <1>6, <1>0 DEF IsUpdated, Becomes, Occupies, running, DispatchedOrClaimed, WaitsBlocked, Planned
<1>7. CASE IsReviewed(c)
  BY Zenon, <1>7, <1>0 DEF IsReviewed, Becomes, Submitted, Occupies, running, DispatchedOrClaimed, WaitsBlocked, Planned
<1>8. CASE IsCancelled(c)
  BY Zenon, <1>8, <1>0 DEF IsCancelled, Becomes, running, DispatchedOrClaimed, Terminal, Occupies, WaitsBlocked, Planned
<1>9. CASE IsUncertain(c)
  BY Zenon, <1>9, <1>0 DEF IsUncertain, Becomes, running, DispatchedOrClaimed, Occupies, WaitsBlocked, Planned
<1>10. CASE IsResolved(c)
  BY Zenon, <1>10, <1>0 DEF IsResolved, Becomes, Occupies, running, DispatchedOrClaimed, WaitsBlocked, Planned
<1>11. CASE IsBlocked(c)
  BY Zenon, <1>11, <1>0 DEF IsBlocked, Becomes, memberRemovalBlocks, Occupies, running, DispatchedOrClaimed, WaitsBlocked, Planned
<1>12. CASE IsReleased(c)
  BY Zenon, <1>12, <1>0 DEF IsReleased, Becomes, Occupies, running, DispatchedOrClaimed, WaitsBlocked, Planned
<1>13. CASE IsPlanned(c)
  BY ZenonT(30), <1>13, <1>0 DEF IsPlanned, Unplanned, Occupies, running, DispatchedOrClaimed, WaitsBlocked, Planned
<1> QED
  BY SMTT(30), <1>1, <1>2, <1>3, <1>4, <1>5, <1>6, <1>7, <1>8, <1>9, <1>10, <1>11, <1>12, <1>13, Changes DEF Step, Move

LEMMA ResultsPreserved ==
  ASSUME TypeOK, ResultsOwn, Step
  PROVE  ResultsOwn'
<1> SUFFICES ASSUME NEW c \in Children
             PROVE  /\ kid'[c].status \in {"review", "completed"} =>
                         kid'[c].attempt >= 1 /\ kid'[c].result = kid'[c].attempt
                    /\ kid'[c].status = "failed" /\ kid'[c].result # 0 =>
                         kid'[c].result = kid'[c].attempt
  BY Zenon DEF ResultsOwn
<1> kid[c] \in Kid
  BY Zenon, KidTyped
<1>1. CASE Same(c)
  BY Zenon, <1>1 DEF Same, Becomes, ResultsOwn, Kid
<1>2. CASE IsRevoked(c)
  BY Zenon, <1>2 DEF IsRevoked, Becomes, running, DispatchedOrClaimed, Terminal, ResultsOwn, Kid
<1>3. CASE IsWaiting(c)
  BY Zenon, <1>3 DEF IsWaiting, Becomes, Occupies, running, DispatchedOrClaimed, ResultsOwn, Kid
<1>4. CASE IsDispatched(c)
  BY Zenon, <1>4 DEF IsDispatched, Becomes, Occupies, running, DispatchedOrClaimed, ResultsOwn, Kid
<1>5. CASE IsClaimed(c)
  BY Zenon, <1>5 DEF IsClaimed, Becomes, ResultsOwn, Kid
<1>6. CASE IsUpdated(c)
  BY Zenon, <1>6 DEF IsUpdated, Becomes, ResultsOwn, Kid
<1>7. CASE IsReviewed(c)
  BY Zenon, <1>7 DEF IsReviewed, Becomes, Submitted, ResultsOwn, Kid
<1>8. CASE IsCancelled(c)
  BY Zenon, <1>8 DEF IsCancelled, Becomes, running, DispatchedOrClaimed, Terminal, ResultsOwn, Kid
<1>9. CASE IsUncertain(c)
  BY Zenon, <1>9 DEF IsUncertain, Becomes, running, DispatchedOrClaimed, ResultsOwn, Kid
<1>10. CASE IsResolved(c)
  BY <1>10 DEF IsResolved, Becomes, ResultsOwn, Kid, WaitsBlocked
<1>11. CASE IsBlocked(c)
  BY Zenon, <1>11 DEF IsBlocked, Becomes, memberRemovalBlocks, ResultsOwn, Kid
<1>12. CASE IsReleased(c)
  BY Zenon, <1>12 DEF IsReleased, Becomes, ResultsOwn, Kid
<1>13. CASE IsPlanned(c)
  BY ZenonT(30), <1>13 DEF IsPlanned, Unplanned, ResultsOwn, Kid
<1> QED
  BY ZenonT(30), <1>1, <1>2, <1>3, <1>4, <1>5, <1>6, <1>7, <1>8, <1>9, <1>10, <1>11, <1>12, <1>13, Changes DEF Step, Move

LEMMA DependenciesPreserved ==
  ASSUME TypeOK, WaitsBlocked, DependenciesAccepted, Step
  PROVE  DependenciesAccepted'
<1> SUFFICES ASSUME NEW c \in Children, running(c)'
             PROVE  dependenciesReady(c)'
  BY SMTT(30) DEF DependenciesAccepted
<1>1. kid'[c].deps = kid[c].deps /\ dependenciesReady(c)
  BY Zenon, TaskStep DEF DependenciesAccepted, IsDispatched, WaitsBlocked
<1>2. kid[c].deps \subseteq Children
  BY Zenon, KidTyped DEF Kid
<1> QED
  BY Zenon, <1>1, <1>2, TaskStep DEF dependenciesReady, WaitsBlocked

LEMMA EldersPreserved ==
  ASSUME TypeOK, Filed, Elders, Step
  PROVE  Elders'
<1> SUFFICES ASSUME NEW q \in Parents, NEW p \in root'[q].older
             PROVE  RoomOf[p] = RoomOf[q] /\ root'[p].status # "none"
  BY Zenon DEF Elders
<1>1. p \in Parents
  BY Zenon DEF Step, Turns, Root
<1>2. CASE root'[q].older = root[q].older
  BY Zenon, <1>1, <1>2, EndedStays DEF Elders
<1>3. CASE IsCreated(q)
  BY Zenon, <1>1, <1>3, EndedStays DEF IsCreated, ParentsOf
<1> QED
  BY Zenon, <1>2, <1>3 DEF Step, Turns, Turn, Stays, Passes, IsStarted, IsResumed, IsReviewable,
                    IsStopped, IsReported

LEMMA ClosersPreserved ==
  ASSUME TypeOK, ClosersAlone, Step
  PROVE  ClosersAlone'
<1>1. CASE Calls /\ UNCHANGED closing
  BY Zenon, <1>1 DEF Calls, ClosersAlone
<1>2. CASE \A h \in Callers : call'[h].pc # "deleting"
  BY Zenon, <1>2 DEF ClosersAlone
<1>3. ASSUME NEW h \in Callers, NEW r \in Rooms, BeginRoomDeletion(h, r) PROVE ClosersAlone'
  <2>1. /\ call' = [call EXCEPT ![h] = [Idle EXCEPT !.pc = "deleting", !.room = r]]
        /\ closing' = closing \cup {r} /\ r \notin closing
    BY Zenon, <1>3 DEF BeginRoomDeletion, Available
  <2>2. call'[h].room = r /\ \A g \in Callers \ {h} : call'[g] = call[g]
    BY ZenonT(30), <2>1, IdleTyped DEF TypeOK, Call
  <2> QED
    BY <2>1, <2>2 DEF ClosersAlone
<1>4. ASSUME NEW h \in Callers, NEW ok \in BOOLEAN, DeleteRoom(h, ok) PROVE ClosersAlone'
  <2>1. /\ call' = [call EXCEPT ![h] = Idle] /\ closing' = closing \ {call[h].room}
        /\ call[h].pc = "deleting"
    BY Zenon, <1>4 DEF DeleteRoom
  <2>2. call'[h].pc = "idle" /\ \A g \in Callers \ {h} : call'[g] = call[g]
    BY SMTT(30), <2>1, IdleTyped DEF TypeOK
  <2> QED
    BY <2>1, <2>2 DEF ClosersAlone
<1> QED
  BY Zenon, <1>1, <1>2, <1>3, <1>4 DEF Step, Deletions

-------------------------------------------------------------------------------
(* The inductive invariant. *)
IInv ==
  /\ TypeOK /\ WaitsBlocked /\ ResultsOwn /\ Filed /\ Elders /\ ClosersAlone /\ Grounded
  /\ OneTaskPerWorker /\ DependenciesAccepted /\ NoOrphans /\ RoomQueueOrder /\ StopRevokes

LEMMA InitHolds == Init => IInv
<1> SUFFICES ASSUME Init PROVE IInv
  BY Zenon
<1>1. Unasked \in Root
  BY Zenon DEF Unasked, Root, RootStatus
<1>2. Unplanned \in Kid
  BY Zenon DEF Unplanned, Kid, KidStatus
<1>3. /\ \A p \in Parents : root[p] = Unasked
      /\ \A c \in Children : kid[c] = Unplanned
      /\ \A h \in Callers : call[h] = Idle
  BY Zenon DEF Init
<1>4. TypeOK
  BY ZenonT(30), <1>1, <1>2, <1>3, IdleTyped DEF Init, TypeOK, Located, Unplanned
<1>5. \A c \in Children : ~Planned(c) /\ ~Occupies(c) /\ kid[c].parent = None /\ kid[c].waiting = None
                        /\ ~kid[c].recovery /\ kid[c].status = "none"
  BY SMTT(30), <1>3 DEF Unplanned, Planned, Occupies, running, DispatchedOrClaimed
<1>6. ASSUME NEW p \in Parents
      PROVE  KidsOf(p) = {} /\ ~Unfinished(p) /\ root[p].older = {} /\ root[p].status = "none"
  <2>1. root[p].older = {} /\ root[p].status = "none"
    BY <1>3 DEF Unasked
  <2>2. KidsOf(p) = {}
    BY Zenon, <1>5, RoomTaskAssumption DEF KidsOf
  <2> QED
    BY Zenon, <2>1, <2>2 DEF Unfinished
<1>7. WaitsBlocked /\ ResultsOwn /\ OneTaskPerWorker /\ StopRevokes
  BY ZenonT(30), <1>5 DEF WaitsBlocked, ResultsOwn, OneTaskPerWorker, StopRevokes
<1>8. Filed /\ Elders /\ Grounded /\ RoomQueueOrder /\ NoOrphans
  BY SMTT(30), <1>5, <1>6 DEF Filed, Elders, Grounded, RoomQueueOrder, Behind, NoOrphans, Terminal
<1>9. ClosersAlone /\ DependenciesAccepted
  BY Zenon, <1>3, <1>5, IdleTyped DEF ClosersAlone, DependenciesAccepted, Occupies
<1> QED
  BY Zenon, <1>4, <1>7, <1>8, <1>9 DEF IInv

(* Nothing outlives its parent or its room. *)
LEMMA OrphansPreserved ==
  ASSUME TypeOK, Filed, WaitsBlocked, ClosersAlone, NoOrphans, Step
  PROVE  NoOrphans'
<1>1. ASSUME NEW c \in Children, Planned(c)', ~Unfinished(kid[c].parent)'
      PROVE  kid'[c].status \in Terminal /\ ~kid'[c].recovery
  <2>1. PICK p \in Parents : p = kid'[c].parent /\ root'[p].status # "none"
    <3>1. TypeOK'
      BY Zenon, TypePreserved
    <3> QED
      BY <1>1, <3>1 DEF TypeOK, Planned, Kid
  <2>2. root'[p].status \in Terminal
    BY Zenon, <1>1, <2>1 DEF Unfinished
  <2>3. CASE IsReported(p)
    BY ZenonT(30), <2>1, <2>3 DEF IsReported, KidsOf
  <2>4. CASE ~IsReported(p)
    <3>1. root[p].status \in Terminal
      BY Zenon, <2>2, <2>4 DEF Step, Turns, Turn, Stays, Passes, IsCreated, IsStarted, IsResumed,
                        IsReviewable, IsStopped, Terminal
    <3>2. ~IsPlanned(c)
      BY SMTT(30), <2>1, <3>1 DEF IsPlanned, Open, Unfinished
    <3>3. Move(c) /\ (Same(c) \/ (Planned(c) /\ kid[c].parent = p))
      BY Zenon, <2>1, <3>2, Changes, MovesPlanned DEF Step
    <3>4. Planned(c) /\ kid[c].parent = p
      BY Zenon, <1>1, <2>1, <3>3 DEF Same, Becomes, Planned
    <3>5. kid[c].status \in Terminal /\ ~kid[c].recovery
      BY Zenon, <3>1, <3>4 DEF NoOrphans, Unfinished
    <3> QED
      BY SMTT(30), <3>1, <3>4, <3>5, TaskStep DEF Open, Unfinished, WaitsBlocked
  <2> QED
    BY SMTT(30), <2>3, <2>4
<1>2. ASSUME NEW p \in Parents, RoomOf[p] \in closing' \cup (deleted' \ dropped')
      PROVE  ~Unfinished(p)'
  <2>1. CASE deleted' \ dropped' \subseteq deleted \ dropped /\ closing' \subseteq closing
    <3>1. ~Unfinished(p) /\ ~Available(RoomOf[p])
      BY Zenon, <1>2, <2>1 DEF NoOrphans, Available
    <3> QED
      BY Zenon, <3>1, EndedStays DEF IsCreated
  <2>2. ASSUME NEW h \in Callers, NEW r \in Rooms, BeginRoomDeletion(h, r) PROVE ~Unfinished(p)'
    <3>1. UNCHANGED <<root, deleted, dropped>> /\ closing' = closing \cup {r} /\ RoomIsQuiet(r)
      BY Zenon, <2>2 DEF BeginRoomDeletion
    <3> QED
      BY Zenon, <1>2, <3>1 DEF NoOrphans, RoomIsQuiet, ParentsOf, Unfinished
  <2>3. ASSUME NEW h \in Callers, NEW ok \in BOOLEAN, DeleteRoom(h, ok) PROVE ~Unfinished(p)'
    <3>1. /\ UNCHANGED root /\ call[h].pc = "deleting"
          /\ closing' \cup (deleted' \ dropped') \subseteq closing \cup (deleted \ dropped) \cup {call[h].room}
      BY SMTT(30), <2>3 DEF DeleteRoom
    <3> QED
      BY Zenon, <1>2, <3>1 DEF NoOrphans, ClosersAlone, Unfinished
  <2> QED
    BY Zenon, <2>1, <2>2, <2>3 DEF Step, Deletions
<1> QED
  BY Zenon, <1>1, <1>2 DEF NoOrphans

(* The queue of a room: a parent stays behind the elders it had when it was *)
(* created, or catches up with them, and only a first parent is worked on.  *)
LEMMA BehindBefore ==
  ASSUME TypeOK, Filed, Elders, Step, NEW p \in Parents, Behind(p)'
  PROVE  IsCreated(p) \/ (Behind(p) /\ ~firstParent(p))
<1>1. PICK q \in root'[p].older : Unfinished(q)'
  BY Zenon DEF Behind
<1>2. CASE root'[p].older = root[p].older
  <2>1. q \in Parents /\ RoomOf[q] = RoomOf[p] /\ root[q].status # "none"
    BY Zenon, <1>2 DEF Elders, TypeOK, Root
  <2>2. Unfinished(q)
    BY Zenon, <1>1, <2>1, EndedStays DEF IsCreated
  <2> QED
    BY Zenon, <1>2, <2>1, <2>2 DEF Behind, firstParent
<1> QED
  BY Zenon, <1>2 DEF Step, Turns, Turn, Stays, Passes, IsStarted, IsResumed, IsReviewable,
                     IsStopped, IsReported

LEMMA QueuePreserved ==
  ASSUME TypeOK, WaitsBlocked, Filed, Elders, RoomQueueOrder, Step
  PROVE  RoomQueueOrder'
<1> SUFFICES ASSUME NEW p \in Parents, Behind(p)'
             PROVE  /\ root'[p].status \notin {"in_progress", "review"}
                    /\ \A c \in KidsOf(p)' : /\ kid'[c].attempt = 0 /\ ~Occupies(c)'
                                              /\ kid'[c].waiting = None
  BY Zenon DEF RoomQueueOrder
<1>1. ASSUME NEW c \in KidsOf(p)' PROVE c \in Children /\ kid'[c].parent = p /\ Planned(c)'
  <2>1. c \in Children /\ kid'[c].parent = p
    BY Zenon DEF KidsOf
  <2>2. kid'[c].status = "none" => kid'[c] = Unplanned
    BY Zenon, <2>1, TypePreserved DEF TypeOK
  <2>3. Unplanned.parent # p
    BY Zenon, RoomTaskAssumption DEF Unplanned
  <2> QED
    BY Zenon, <2>1, <2>2, <2>3 DEF Planned
<1>2. CASE IsCreated(p)
  <2>1. KidsOf(p)' = {}
    BY Zenon, <1>1, <1>2, ParentBefore DEF IsCreated
  <2> QED
    BY Zenon, <1>2, <2>1 DEF IsCreated
<1>3. CASE Behind(p) /\ ~firstParent(p) /\ ~IsCreated(p)
  <2>1. /\ root[p].status \notin {"in_progress", "review"}
        /\ \A c \in KidsOf(p) : kid[c].attempt = 0 /\ ~Occupies(c) /\ kid[c].waiting = None
    BY Zenon, <1>3 DEF RoomQueueOrder
  <2>2. ~IsReviewable(p)
    BY <2>1 DEF IsReviewable
  <2>3. root'[p].status \notin {"in_progress", "review"}
    BY Zenon, <1>3, <2>1, <2>2 DEF Step, Turns, Turn, Stays, Passes, IsCreated, IsStarted, IsResumed,
                                   IsStopped, IsReported, Terminal
  <2>4. ASSUME NEW c \in KidsOf(p)'
        PROVE  kid'[c].attempt = 0 /\ ~Occupies(c)' /\ kid'[c].waiting = None
    <3>1. c \in Children /\ kid'[c].parent = p /\ Planned(c)'
      BY Zenon, <1>1, <2>4
    <3>2. CASE IsPlanned(c)
      BY ZenonT(30), <3>2 DEF IsPlanned, Unplanned, Occupies, running, DispatchedOrClaimed
    <3>3. CASE ~IsPlanned(c)
      <4>1. kid[c].parent = p /\ c \in KidsOf(p)
        BY Zenon, <3>1, <3>3, ParentBefore DEF KidsOf
      <4>2. ~IsDispatched(c) /\ ~IsWaiting(c)
        BY Zenon, <1>3, <4>1 DEF IsDispatched, IsWaiting
      <4> QED
        BY ZenonT(30), <2>1, <3>1, <3>3, <4>1, <4>2, TaskStep DEF WaitsBlocked
    <3> QED
      BY Zenon, <3>2, <3>3
  <2> QED
    BY Zenon, <2>3, <2>4
<1> QED
  BY Zenon, <1>2, <1>3, BehindBefore

LEMMA StopPreserved ==
  ASSUME TypeOK, WaitsBlocked, StopRevokes, Step
  PROVE  StopRevokes'
<1> SUFFICES ASSUME NEW c \in Children, Planned(c)', root'[kid'[c].parent].status = "stopping"
             PROVE  kid'[c].status \notin {"pending", "assigned"} /\ kid'[c].waiting = None
  BY Zenon DEF StopRevokes
<1>1. PICK p \in Parents : p = kid'[c].parent
  BY Zenon, ParentBefore
<1>2. CASE IsStopped(p)
  <2>1. Planned(c) /\ kid[c].parent = p /\ c \in KidsOf(p)
    <3>1. kid[c].parent = p
      BY Zenon, <1>1, <1>2 DEF IsStopped
    <3>2. kid[c] # Unplanned
      BY SMTT(30), <3>1, RoomTaskAssumption DEF Unplanned
    <3> QED
      BY ZenonT(30), <1>1, <3>1, <3>2, ParentBefore DEF IsPlanned, KidsOf
  <2>2. CASE KeptByStop(c) /\ Same(c)
    <3>1. kid[c].status \notin {"pending", "assigned"} /\ kid[c].waiting = None
      BY SMTT(30), <1>2, <2>1, <2>2 DEF KeptByStop, WaitsBlocked, Occupies, running, DispatchedOrClaimed,
                              Terminal, IsStopped, Open
    <3> QED
      BY SMTT(30), <2>2, <3>1 DEF Same, Becomes
  <2> QED
    BY SMTT(30), <1>2, <2>1, <2>2 DEF IsStopped
<1>3. CASE ~IsStopped(p)
  <2>1. root[p].status = "stopping"
    BY Zenon, <1>1, <1>3 DEF Step, Turns, Turn, Stays, Passes, IsCreated, IsStarted, IsResumed,
                      IsReviewable, IsReported, Terminal
  <2>2. ~Open(p)
    BY Zenon, <2>1 DEF Open
  <2>3. Planned(c) /\ kid[c].parent = p
    BY Zenon, <1>1, <2>2, ParentBefore
  <2> QED
    BY SMTT(30), <2>1, <2>2, <2>3, TaskStep DEF StopRevokes, WaitsBlocked
<1> QED
  BY Zenon, <1>2, <1>3

(* Predecessors are siblings and form no circle: an addition refers to what *)
(* is there and to itself, and what is there does not refer to it.          *)
LEMMA GroundedPreserved ==
  ASSUME TypeOK, Grounded, Step
  PROVE  Grounded'
<1>1. CASE \A c \in Children : Move(c)
  <2>1. \A c \in Children : /\ kid'[c].parent = kid[c].parent /\ kid'[c].deps = kid[c].deps
                            /\ Planned(c)' => Planned(c)
    BY Zenon, <1>1, MovesPlanned DEF Same, Becomes, Planned
  <2>2. \A p \in Parents : KidsOf(p)' = KidsOf(p)
    BY Zenon, <2>1 DEF KidsOf
  <2>3. ASSUME NEW c \in Children, Planned(c)'
        PROVE  kid'[c].deps \subseteq KidsOf(kid[c].parent)'
    BY SMTT(30), <2>1, <2>3 DEF Grounded, KidsOf
  <2>4. ASSUME NEW p \in Parents, NEW S \in (SUBSET KidsOf(p)') \ {{}}
        PROVE  \E c \in S : kid'[c].deps \cap S = {}
    <3>1. S \in (SUBSET KidsOf(p)) \ {{}}
      BY Zenon, <2>2
    <3>2. PICK c \in S : kid[c].deps \cap S = {}
      BY Zenon, <3>1 DEF Grounded
    <3>3. c \in Children
      BY Zenon, <3>1 DEF KidsOf
    <3> QED
      BY Zenon, <2>1, <3>2, <3>3
  <2> QED
    BY SMTT(30), <2>3, <2>4 DEF Grounded
<1>2. ASSUME NEW plan \in Plans, Addition(plan) PROVE Grounded'
  <2> DEFINE N == DOMAIN plan.items
             q == plan.parent
  <2>0. q \in Parents /\ N \subseteq Children
    BY Zenon, RoomTaskAssumption
  <2>1. ASSUME NEW c \in N
        PROVE  /\ kid[c].parent = None /\ kid'[c].parent = q /\ kid'[c].deps = plan.items[c].deps
               /\ plan.items[c].deps \subseteq N \cup KidsOf(q)
    <3>1. kid[c] = Unplanned
      BY ZenonT(30), <1>2, <2>0 DEF Addition, AddChildren, TypeOK
    <3>2. kid'[c] = [Unplanned EXCEPT !.status = "pending", !.parent = q,
                                      !.to = plan.items[c].to, !.deps = plan.items[c].deps]
      BY <1>2, <2>0, Zenon DEF Addition, AddChildren
    <3> QED
      BY SMTT(30), <1>2, <3>1, <3>2 DEF Addition, validReferences, Unplanned
  <2>2. \A c \in Children \ N : kid'[c] = kid[c]
    BY ZenonT(30), <1>2 DEF Addition, AddChildren
  <2>3. /\ \A p \in Parents : KidsOf(p)' = IF p = q THEN KidsOf(p) \cup N ELSE KidsOf(p)
        /\ \A p \in Parents : KidsOf(p) \cap N = {}
    BY <2>0, <2>1, <2>2, RoomTaskAssumption DEF KidsOf
  <2>4. ASSUME NEW c \in Children, Planned(c)'
        PROVE  kid'[c].deps \subseteq KidsOf(kid[c].parent)'
    <3>1. CASE c \in N
      <4>1. kid'[c].deps \subseteq KidsOf(q)'
        BY Zenon, <2>0, <2>1, <2>3, <3>1
      <4> QED
        BY Zenon, <2>1, <3>1, <4>1 DEF KidsOf
    <3>2. CASE c \notin N
      <4>1. PICK p \in Parents : p = kid[c].parent
        BY Zenon, <2>2, <2>4, <3>2, KidTyped DEF Planned
      <4>2. kid[c].deps \subseteq KidsOf(p)
        BY Zenon, <2>2, <2>4, <3>2, <4>1 DEF Grounded, Planned
      <4>3. kid[c].deps \subseteq KidsOf(p)'
        BY Zenon, <2>3, <4>2
      <4> QED
        BY Zenon, <2>2, <3>2, <4>1, <4>3 DEF KidsOf
    <3> QED
      BY SMTT(30), <3>1, <3>2
  <2>5. ASSUME NEW p \in Parents, NEW S \in (SUBSET KidsOf(p)') \ {{}}
        PROVE  \E c \in S : kid'[c].deps \cap S = {}
    <3> DEFINE T == S \cap KidsOf(p)
    <3>1. CASE T # {}
      <4>1. T \in (SUBSET KidsOf(p)) \ {{}}
        BY Zenon, <3>1
      <4>2. PICK c \in T : kid[c].deps \cap T = {}
        BY ZenonT(30), <4>1 DEF Grounded
      <4>3. c \in Children \ N /\ kid[c].parent = p /\ Planned(c)
        BY SMTT(30), <2>3, <4>2, RoomTaskAssumption DEF KidsOf, Planned, TypeOK, Unplanned
      <4>4. kid[c].deps \subseteq KidsOf(p)
        BY Zenon, <4>3 DEF Grounded
      <4> QED
        BY Zenon, <2>2, <4>2, <4>3, <4>4
    <3>2. CASE T = {}
      <4>1. p = q /\ S \in (SUBSET N) \ {{}}
        BY ZenonT(30), <2>3, <3>2
      <4>2. PICK c \in S : plan.items[c].deps \cap S = {}
        BY SMTT(30), <1>2, <4>1 DEF Addition, validReferences
      <4> QED
        BY Zenon, <2>1, <4>1, <4>2
    <3> QED
      BY Zenon, <3>1, <3>2
  <2> QED
    BY Zenon, <2>4, <2>5 DEF Grounded
<1> QED
  BY Zenon, <1>1, <1>2 DEF Step, Moves

-----------------------------------------------------------------------------
(* The theorems.                                                            *)

LEMMA NextPreserves == IInv /\ [Next]_vars => IInv'
<1> SUFFICES ASSUME IInv, [Next]_vars PROVE IInv'
  BY Zenon
<1>1. TypeOK /\ Step
  BY Zenon, NextStep DEF IInv
<1>2. TypeOK' /\ WaitsBlocked' /\ ResultsOwn'
  BY Zenon, <1>1, TypePreserved, WaitsPreserved, ResultsPreserved DEF IInv
<1>3. Elders' /\ ClosersAlone' /\ Grounded'
  BY SMTT(30), <1>1, EldersPreserved, ClosersPreserved, GroundedPreserved DEF IInv
<1>4. Filed'
  BY Zenon, <1>1 DEF IInv, Filed, Step, Turns, Turn, Stays, Passes, IsCreated, IsStarted, IsResumed,
              IsReviewable, IsStopped, IsReported, Terminal
<1>5. OneTaskPerWorker' /\ DependenciesAccepted' /\ NoOrphans'
  BY Zenon, <1>1, OneTaskPreserved, DependenciesPreserved, OrphansPreserved DEF IInv
<1>6. RoomQueueOrder' /\ StopRevokes'
  BY Zenon, <1>1, QueuePreserved, StopPreserved DEF IInv
<1> QED
  BY Zenon, <1>2, <1>3, <1>4, <1>5, <1>6 DEF IInv

LEMMA Invariance == Spec => []IInv
BY InitHolds, NextPreserves, PTL DEF Spec

(* The ledger, the rosters and the calls keep their types.                  *)
THEOREM TypeCorrect == Spec => []TypeOK
<1>1. IInv => TypeOK
  BY Zenon DEF IInv
<1> QED
  BY <1>1, Invariance, PTL

(* Dispatch gives a worker one task over all rooms, for any number of       *)
(* rooms, handlers, restarts, removals and archived agents.                 *)
THEOREM WorkersHaveOneTask == Spec => []OneTaskPerWorker
<1>1. IInv => OneTaskPerWorker
  BY Zenon DEF IInv
<1> QED
  BY <1>1, Invariance, PTL

(* A task runs on accepted work only: Dispatch checks the predecessors and  *)
(* no later operation takes an acceptance back.                             *)
THEOREM RunsOnAcceptedWork == Spec => []DependenciesAccepted
<1>1. IInv => DependenciesAccepted
  BY Zenon DEF IInv
<1> QED
  BY <1>1, Invariance, PTL

(* UpdateExecution and Review take no result but that of the current        *)
(* attempt.                                                                 *)
THEOREM ResultsAreCurrent == Spec => []ResultOfCurrentAttempt
<1>1. IInv => ResultOfCurrentAttempt
  BY Zenon DEF IInv, ResultsOwn, ResultOfCurrentAttempt
<1> QED
  BY <1>1, Invariance, PTL

(* Report and BeginRoomDeletion leave no execution behind a parent that has *)
(* ended or a room that is gone, im.DeleteUser left aside.                  *)
THEOREM NothingIsOrphaned == Spec => []NoOrphans
<1>1. IInv => NoOrphans
  BY Zenon DEF IInv
<1> QED
  BY <1>1, Invariance, PTL

(* firstParent, Start, Dispatch and Review respect the queue of the room,   *)
(* for any number of parents: nothing behind an unfinished one is worked    *)
(* on, dispatched, or waits for a worker.                                   *)
THEOREM QueueIsRespected == Spec => []RoomQueueOrder
<1>1. IInv => RoomQueueOrder
  BY Zenon DEF IInv
<1> QED
  BY <1>1, Invariance, PTL

(* RequestStop revokes what is not yet claimed, and nothing brings it back. *)
THEOREM StopsAreFinal == Spec => []StopRevokes
<1>1. IInv => StopRevokes
  BY SMTT(30) DEF IInv
<1> QED
  BY <1>1, Invariance, PTL

(* No plan blocks itself, however often AppendPlan extends it.              *)
THEOREM PlansNeverBlock == Spec => []SomethingReady
<1>1. IInv => SomethingReady
  <2> SUFFICES ASSUME IInv, NEW p \in Parents
               PROVE  LET rest == {c \in KidsOf(p) : kid[c].status # "completed"}
                      IN  rest # {} => \E c \in rest : dependenciesReady(c)
    BY Zenon DEF SomethingReady
  <2> DEFINE rest == {c \in KidsOf(p) : kid[c].status # "completed"}
  <2>1. SUFFICES ASSUME rest # {} PROVE \E c \in rest : dependenciesReady(c)
    BY Zenon
  <2>2. PICK c \in rest : kid[c].deps \cap rest = {}
    BY ZenonT(30), <2>1 DEF IInv, Grounded
  <2>3. c \in Children /\ kid[c].parent = p /\ Planned(c)
    <3>1. c \in Children /\ kid[c].parent = p
      BY Zenon DEF KidsOf
    <3>2. kid[c].status = "none" => kid[c] = Unplanned
      BY SMTT(30), <3>1 DEF IInv, TypeOK
    <3>3. Unplanned.parent # p
      BY Zenon, RoomTaskAssumption DEF Unplanned
    <3> QED
      BY Zenon, <3>1, <3>2, <3>3 DEF Planned
  <2>4. kid[c].deps \subseteq KidsOf(p)
    BY Zenon, <2>3 DEF IInv, Grounded
  <2> QED
    BY Zenon, <2>2, <2>4 DEF dependenciesReady
<1> QED
  BY <1>1, Invariance, PTL

(* Recover never replays: an attempt is dispatched and claimed at most once *)
(* and none is taken back.                                                  *)
THEOREM ExecutionsAreNotReplayed == Spec => NeverReplayed
<1>1. IInv /\ [Next]_vars =>
        [\A c \in Children :
           /\ kid'[c].attempt >= kid[c].attempt
           /\ kid'[c].status = "assigned" =>
                kid[c].status = "assigned" \/ kid'[c].attempt > kid[c].attempt
           /\ kid'[c].status = "in_progress" =>
                /\ kid[c].status \in {"assigned", "in_progress"}
                /\ kid'[c].attempt = kid[c].attempt]_vars
  BY Zenon, NextStep, TaskStep DEF IInv, WaitsBlocked
<1> QED
  BY <1>1, Invariance, PTL DEF Spec, NeverReplayed
===============================================================================
