------------------------------- MODULE RoomTask -------------------------------
(***************************************************************************)
(* Room tasks (internal/roomtask): the parent tasks of a collaboration     *)
(* room, the worker subtasks the room's Manager plans, dispatches, reviews *)
(* and reports, and the delivery of their events to the room.              *)
(*                                                                         *)
(* Every operation changes the ledger in one critical section of the       *)
(* service's mutex and then, without it, runs RetryDelivery: it sends the  *)
(* room's undelivered events, wakes the Manager for the next parent, and   *)
(* releases subtasks that waited for a worker, possibly of other rooms.    *)
(* A handler is a caller h; call[h] says how far its delivery is.  A       *)
(* request that is refused changes nothing and is not a step.  A repeated  *)
(* request that changes nothing still delivers: it is RetryDelivery.       *)
(*                                                                         *)
(* Tasks are identified by what makes a retry return the same one: a       *)
(* parent by its source message (which belongs to a room), a subtask by    *)
(* the ID its plan allocated.  Texts are left out.                         *)
(*                                                                         *)
(* Only the room's own operations change its tasks here.  The agent task   *)
(* API finds a subtask of a room too and changes it before it answers "not *)
(* found" (Claim and Update of internal/agenttask); a caller that uses it  *)
(* for such a task is outside this model and of what is said below.        *)
(***************************************************************************)
EXTENDS Integers, Sequences

CONSTANTS
  None,         \* no room, no worker, no task
  Rooms, Workers, Parents, Children,
  Callers,      \* request handlers that may be running
  RoomOf,       \* the room of the source message of each parent
  Plans,        \* [parent, items, request]: plans the Managers may submit
  Reports,      \* bound: statuses that workers report
  Outcomes,     \* bound: outcomes that Managers report
  Movable,      \* bound: <<room, worker>> pairs: who may leave and join which room
  Deletable,    \* bound: rooms that may be deleted
  Leavers,      \* bound: users that may be deleted, None for one that is no
                \* worker, each with the rooms that cannot do without the user
  MaxAttempt,   \* bound: dispatches of one subtask
  MaxFailures   \* bound: deliveries that fail and restarts

ASSUME RoomTaskAssumption ==
  /\ RoomOf \in [Parents -> Rooms]
  /\ None \notin Rooms \cup Workers \cup Parents \cup Children
  /\ \A plan \in Plans :
       /\ plan.parent \in Parents
       /\ DOMAIN plan.items \in (SUBSET Children) \ {{}}
       /\ \A c \in DOMAIN plan.items :
            plan.items[c] \in [to : Workers, deps : SUBSET Children]
  /\ Reports \subseteq {"review", "failed", "blocked", "cancelled"}
  /\ Outcomes \subseteq {"succeeded", "issues", "failed", "stopped"}
  /\ Movable \subseteq Rooms \X Workers /\ Deletable \subseteq Rooms
  /\ Leavers \subseteq (Workers \cup {None}) \X SUBSET Rooms
  /\ MaxAttempt \in Nat /\ MaxFailures \in Nat

VARIABLES
  root,      \* parent |-> its task
  kid,       \* subtask |-> its task
  members,   \* room |-> workers in its roster
  closing,   \* closingRooms: rooms being deleted
  deleted,   \* rooms that are gone: their roster is unavailable
  dropped,   \* those of them that went with a deleted user
  call,      \* caller |-> its delivery, or the member removal or deletion it runs
  failed,    \* rooms that a DeliveryError asked somebody to deliver again
  faults     \* deliveries that have failed and restarts so far

vars == <<root, kid, members, closing, deleted, dropped, call, failed, faults>>
roster == <<members, closing, deleted, dropped>>
faulty == <<failed, faults>>

Terminal == {"completed", "failed", "cancelled"}
RootStatus == {"none", "queued", "in_progress", "review", "stopping"} \cup Terminal
KidStatus == {"none", "pending", "assigned", "in_progress", "review", "blocked"} \cup Terminal

(* older are the parents of the room that were there when this one was      *)
(* created, which is what CreatedAt orders.  report is ReportStatus.        *)
(* woken: a feedback event for the parent itself exists.                    *)
Root == [status : RootStatus, older : SUBSET Parents, report : {"none", "pending", "delivered"},
         woken : BOOLEAN, extended : SUBSET {plan.request : plan \in Plans}]

(* result is the attempt whose worker delivered the Result, 0 for none. *)
Kid == [status : KidStatus, parent : Parents \cup {None}, to : Workers \cup {None},
        deps : SUBSET Children, attempt : Nat, result : Nat,
        waiting : Children \cup {None}, recovery : BOOLEAN]

(* left are the parents a delivery has yet to visit, stack the rooms that   *)
(* the releaseCapacity calls in progress have yet to deliver, then the      *)
(* parents that MembersChanged has yet to change.                           *)
Call == [pc : {"idle", "lost", "send", "release", "checked", "members", "deleting"},
         room : Rooms \cup {None}, who : Workers \cup {None}, left : SUBSET Parents,
         stack : Seq((SUBSET Rooms) \ {{}}), then : SUBSET Parents]

Unasked == [status |-> "none", older |-> {}, report |-> "none", woken |-> FALSE,
            extended |-> {}]
Unplanned == [status |-> "none", parent |-> None, to |-> None, deps |-> {}, attempt |-> 0,
              result |-> 0, waiting |-> None, recovery |-> FALSE]
Idle == [pc |-> "idle", room |-> None, who |-> None, left |-> {}, stack |-> <<>>, then |-> {}]

Init ==
  /\ root = [p \in Parents |-> Unasked]
  /\ kid = [c \in Children |-> Unplanned]
  /\ members = [r \in Rooms |-> Workers]
  /\ closing = {} /\ deleted = {} /\ dropped = {}
  /\ call = [h \in Callers |-> Idle]
  /\ failed = {} /\ faults = 0

-----------------------------------------------------------------------------
(* Reading the ledger                                                      *)

Unfinished(p) == root[p].status \notin Terminal \cup {"none"}
Open(p) == Unfinished(p) /\ root[p].status # "stopping"
KidsOf(p) == {c \in Children : kid[c].parent = p}
ParentsOf(r) == {p \in Parents : RoomOf[p] = r /\ root[p].status # "none"}

(* The earliest unfinished parent of its room. *)
firstParent(p) ==
  /\ Unfinished(p)
  /\ \A q \in Parents : RoomOf[q] = RoomOf[p] /\ Unfinished(q) => q \notin root[p].older

DispatchedOrClaimed == {"assigned", "in_progress"}

(* Only Dispatch makes a subtask assigned, and it sets DispatchedAt. *)
running(c) == kid[c].status \in DispatchedOrClaimed

Occupies(c) == running(c) \/ kid[c].recovery

dependenciesReady(c) == \A d \in kid[c].deps : kid[d].status = "completed"

Available(r) == r \notin closing \cup deleted

(* changeState refuses a room being deleted, a missing roster and a missing *)
(* task; what follows runs under s.mu.                                      *)
changeState(p) == root[p].status # "none" /\ Available(RoomOf[p])

(* RetryDelivery of a room lists its parents; what it then sends is read at *)
(* the moment of sending.                                                   *)
Delivery(r) == [Idle EXCEPT !.pc = "send", !.room = r, !.left = ParentsOf(r)]

Deliver(h, r) ==
  /\ call[h].pc = "idle"
  /\ call' = [call EXCEPT ![h] = Delivery(r)]

(* change ends with a delivery. *)
change(h, p) == changeState(p) /\ Deliver(h, RoomOf[p])

-----------------------------------------------------------------------------
(* Parents: Create, Plan, AppendPlan, Start, RequestStop, Report           *)

Create(p) ==
  /\ root[p].status = "none"
  /\ Available(RoomOf[p])
  /\ members[RoomOf[p]] # {}
  /\ root' = [root EXCEPT ![p].status = "queued", ![p].older = ParentsOf(RoomOf[p])]
  /\ UNCHANGED <<kid, roster, call, faulty>>

SomeReference(items, existing) ==
  \A c \in DOMAIN items : items[c].deps \subseteq DOMAIN items \cup existing

(* The depth-first visit of validatePlan: no unknown reference and no cycle *)
(* among the new items, every set of them has one that needs no other of    *)
(* the set.                                                                 *)
validReferences(items, existing) ==
  /\ \A c \in DOMAIN items : items[c].deps \subseteq DOMAIN items \cup existing
  /\ \A S \in (SUBSET DOMAIN items) \ {{}} : \E c \in S : items[c].deps \cap S = {}

validatePlan(p, items) ==
  /\ \A c \in DOMAIN items : items[c].to \in members[RoomOf[p]]
  /\ validReferences(items, KidsOf(p))

(* Allocated IDs are new. *)
AddChildren(p, items) ==
  /\ \A c \in DOMAIN items : kid[c].status = "none"
  /\ kid' = [c \in Children |->
               IF c \in DOMAIN items
                 THEN [Unplanned EXCEPT !.status = "pending", !.parent = p,
                                        !.to = items[c].to, !.deps = items[c].deps]
                 ELSE kid[c]]

Plan(h, plan, autoStart) ==
  LET p == plan.parent IN
  /\ change(h, p)
  /\ Open(p)
  /\ KidsOf(p) = {}
  /\ validatePlan(p, plan.items)
  /\ AddChildren(p, plan.items)
  /\ root' = [root EXCEPT ![p].status =
                IF autoStart /\ firstParent(p) THEN "in_progress" ELSE @]
  /\ UNCHANGED <<roster, faulty>>

AppendPlan(h, plan) ==
  LET p == plan.parent IN
  /\ change(h, p)
  /\ plan.request \notin root[p].extended
  /\ Open(p)
  /\ KidsOf(p) # {}
  /\ validatePlan(p, plan.items)
  /\ AddChildren(p, plan.items)
  /\ root' = [root EXCEPT ![p].status = IF @ = "review" THEN "in_progress" ELSE @,
                          ![p].extended = @ \cup {plan.request}]
  /\ UNCHANGED <<roster, faulty>>

Start(h, p) ==
  /\ change(h, p)
  /\ KidsOf(p) # {}
  /\ firstParent(p)
  /\ root[p].status = "queued"
  /\ root' = [root EXCEPT ![p].status = "in_progress"]
  /\ UNCHANGED <<kid, roster, faulty>>

KeptByStop(c) ==
  kid[c].status = "in_progress" \/ kid[c].recovery \/ kid[c].status \in Terminal

(* Work not yet claimed is revoked; running work waits for its stop. *)
RequestStop(h, p) ==
  /\ change(h, p)
  /\ Open(p)
  /\ root' = [root EXCEPT ![p].status = "stopping", ![p].woken = TRUE]
  /\ kid' = [c \in Children |->
               IF c \in KidsOf(p) /\ ~KeptByStop(c)
                 THEN [kid[c] EXCEPT !.status = "cancelled", !.waiting = None]
                 ELSE kid[c]]
  /\ UNCHANGED <<roster, faulty>>

OutcomeStatus ==
  [succeeded |-> "completed", issues |-> "completed", failed |-> "failed",
   stopped |-> "cancelled"]

NothingOccupied(p) == \A c \in KidsOf(p) : ~Occupies(c)

Report(h, p, outcome) ==
  /\ change(h, p)
  /\ root[p].report = "none"
  /\ root[p].status = "stopping" => outcome = "stopped"
  /\ NothingOccupied(p)
  /\ outcome \in {"succeeded", "issues"} =>
       \A c \in KidsOf(p) : kid[c].status = "completed"
  /\ outcome = "succeeded" => KidsOf(p) # {}
  /\ root' = [root EXCEPT ![p].status = OutcomeStatus[outcome], ![p].report = "pending"]
  /\ kid' = [c \in Children |->
               IF c \in KidsOf(p) /\ kid[c].status \notin Terminal
                 THEN [kid[c] EXCEPT !.status = "cancelled"] ELSE kid[c]]
  /\ UNCHANGED <<roster, faulty>>

-----------------------------------------------------------------------------
(* Subtasks: Dispatch, UpdateExecution, Review, WorkerStopped              *)

Planned(c) == kid[c].status # "none"

changeKid(h, c) == Planned(c) /\ change(h, kid[c].parent)

BusyInRoom(c, w) ==
  {d \in Children \ {c} : /\ kid[d].to = w /\ Occupies(d)
                          /\ kid[d].parent = kid[c].parent}

(* The tasks of every room that keep the worker from this one. *)
Busy(c, w) == {d \in Children \ {c} : kid[d].to = w /\ Occupies(d)}

Dispatchable(c, w) ==
  LET p == kid[c].parent IN
  /\ firstParent(p) /\ Open(p)
  /\ ~Occupies(c)
  /\ w \in members[RoomOf[p]]
  /\ kid[c].status \notin {"completed", "review"}
  /\ dependenciesReady(c)

WaitsBeforeItsTurn(h, c, w) ==
  /\ changeKid(h, c)
  /\ Open(kid[c].parent) /\ ~Occupies(c)
  /\ w \in members[RoomOf[kid[c].parent]]
  /\ kid[c].status \notin {"completed", "review"}
  /\ dependenciesReady(c)
  /\ \E d \in Busy(c, w) :
       kid' = [kid EXCEPT ![c].to = w, ![c].status = "blocked", ![c].waiting = d]
  /\ UNCHANGED <<root, roster, faulty>>

(* A dispatch to a busy worker is saved as a wait for the task it is busy on. *)
DispatchWaits(h, c, w) ==
  /\ changeKid(h, c)
  /\ Dispatchable(c, w)
  /\ \E d \in Busy(c, w) :
       kid' = [kid EXCEPT ![c].to = w, ![c].status = "blocked", ![c].waiting = d]
  /\ UNCHANGED <<root, roster, faulty>>

Dispatch(h, c, w) ==
  /\ changeKid(h, c)
  /\ Dispatchable(c, w)
  /\ Busy(c, w) = {}
  /\ kid[c].attempt < MaxAttempt
  /\ kid' = [kid EXCEPT ![c].to = w, ![c].status = "assigned", ![c].attempt = @ + 1,
                        ![c].waiting = None]
  /\ root' = [root EXCEPT ![kid[c].parent].status = "in_progress"]
  /\ UNCHANGED <<roster, faulty>>

ByAssignee(c, w, attempt) ==
  /\ w \in members[RoomOf[kid[c].parent]]
  /\ w = kid[c].to
  /\ attempt >= 1 /\ attempt <= kid[c].attempt

(* The worker must be in the roster, be the assignee, and name the attempt. *)
Executes(c, w, attempt) ==
  /\ w \in members[RoomOf[kid[c].parent]]
  /\ w = kid[c].to
  /\ attempt >= 1 /\ attempt = kid[c].attempt

(* UpdateExecution to in_progress: it has nothing to deliver. *)
Claim(c, w, attempt) ==
  LET p == kid[c].parent IN
  /\ Planned(c) /\ changeState(p)
  /\ Executes(c, w, attempt)
  /\ Open(p) /\ ~kid[c].recovery
  /\ kid[c].status = "assigned"
  /\ dependenciesReady(c)
  /\ kid' = [kid EXCEPT ![c].status = "in_progress", ![c].result = 0]
  /\ UNCHANGED <<root, roster, call, faulty>>

(* UpdateExecution with a report; "completed" arrives as "review". *)
UpdateExecution(h, c, w, attempt, status, result) ==
  LET p == kid[c].parent IN
  /\ changeKid(h, c)
  /\ Executes(c, w, attempt)
  /\ Unfinished(p) /\ ~kid[c].recovery
  /\ kid[c].status = "in_progress"
  /\ status = "review" => result
  /\ kid' = [kid EXCEPT ![c].status = status, ![c].result = IF result THEN attempt ELSE 0]
  /\ UNCHANGED <<root, roster, faulty>>

Submitted(c) ==
  \/ kid[c].status = "review"
  \/ kid[c].status = "failed" /\ kid[c].result # 0

OthersCompleted(c) == \A d \in KidsOf(kid[c].parent) \ {c} : kid[d].status = "completed"

Review(h, c, attempt, accept) ==
  LET p == kid[c].parent IN
  /\ changeKid(h, c)
  /\ attempt >= 1 /\ attempt = kid[c].attempt
  /\ Open(p) /\ ~kid[c].recovery
  /\ Submitted(c)
  /\ kid' = [kid EXCEPT ![c].status = IF accept THEN "completed" ELSE "blocked"]
  /\ root' = [root EXCEPT ![p].status =
                IF accept /\ OthersCompleted(c) THEN "review" ELSE @]
  /\ UNCHANGED <<roster, faulty>>

WorkerStopped(h, c, w, attempt) ==
  /\ changeKid(h, c)
  /\ kid[c].to = w /\ attempt >= 1 /\ attempt = kid[c].attempt
  /\ running(c)
  /\ kid' = [kid EXCEPT ![c].status = "cancelled"]
  /\ UNCHANGED <<root, roster, faulty>>

-----------------------------------------------------------------------------
(* Restart, recovery and archived agents                                   *)

Replayed(c) == [kid[c] EXCEPT !.status = "assigned"]

Uncertain(c) == [kid[c] EXCEPT !.status = "blocked", !.recovery = TRUE]

Delivers(h) == call[h].pc \in {"send", "release"}

(* The process dies: handlers, closingRooms and answers are lost.  Recover  *)
(* then visits the unfinished parents whose room has a roster.              *)
Recover ==
  /\ faults < MaxFailures
  /\ kid' = [c \in Children |->
               IF /\ running(c) /\ Unfinished(kid[c].parent)
                  /\ RoomOf[kid[c].parent] \notin deleted
                 THEN Uncertain(c) ELSE kid[c]]
  /\ call' = [h \in Callers |-> IF Delivers(h) THEN [Idle EXCEPT !.pc = "lost"] ELSE Idle]
  /\ closing' = {}
  /\ faults' = faults + 1
  /\ UNCHANGED <<root, members, deleted, dropped, failed>>

ResolveRecovery(h, c, attempt) ==
  /\ changeKid(h, c)
  /\ attempt >= 1 /\ attempt = kid[c].attempt
  /\ kid[c].recovery
  /\ kid' = [kid EXCEPT ![c].recovery = FALSE,
                        ![c].status = IF root[kid[c].parent].status = "stopping"
                                        THEN "cancelled" ELSE @]
  /\ UNCHANGED <<root, roster, faulty>>

(* The agent of a worker was archived; nothing is delivered. *)
CancelAgentTasks(w) ==
  /\ kid' = [c \in Children |->
               IF Planned(c) /\ kid[c].to = w /\ kid[c].status \notin Terminal
                 THEN [kid[c] EXCEPT !.status = "cancelled", !.waiting = None,
                                     !.recovery = FALSE]
                 ELSE kid[c]]
  /\ UNCHANGED <<root, roster, call, faulty>>

-----------------------------------------------------------------------------
(* Members and deletion                                                    *)

AddMember(r, w) ==
  /\ <<r, w>> \in Movable /\ r \notin deleted
  /\ members' = [members EXCEPT ![r] = @ \cup {w}]
  /\ UNCHANGED <<root, kid, closing, deleted, dropped, call, faulty>>

(* The handler refuses to remove a worker that is running in the room ... *)
CheckRemoval(h, r, w) ==
  /\ call[h].pc = "idle"
  /\ <<r, w>> \in Movable /\ r \notin deleted /\ w \in members[r]
  /\ \A p \in ParentsOf(r) : \A c \in KidsOf(p) : kid[c].to = w => ~Occupies(c)
  /\ call' = [call EXCEPT ![h] = [Idle EXCEPT !.pc = "checked", !.room = r, !.who = w]]
  /\ UNCHANGED <<root, kid, roster, faulty>>

(* ... and removes it later; MembersChanged lists the unfinished parents. *)
RemoveRoomMember(h) ==
  LET r == call[h].room
      open == {p \in ParentsOf(r) : Unfinished(p)}
  IN  /\ call[h].pc = "checked"
      /\ r \notin deleted
      /\ members' = [members EXCEPT ![r] = @ \ {call[h].who}]
      /\ call' = [call EXCEPT ![h] = IF open = {} THEN Idle
                                     ELSE [Idle EXCEPT !.pc = "members", !.then = open]]
      /\ UNCHANGED <<root, kid, closing, deleted, dropped, faulty>>

memberRemovalBlocks == {"pending", "assigned", "in_progress"}

(* One turn of the loop of MembersChanged, with its own delivery. *)
MembersChanged(h, p) ==
  LET r == RoomOf[p] IN
  /\ call[h].pc = "members" /\ p \in call[h].then
  /\ changeState(p)
  /\ kid' = [c \in Children |->
               IF /\ c \in KidsOf(p) /\ kid[c].status \in memberRemovalBlocks
                  /\ kid[c].to \notin members[r]
                 THEN [kid[c] EXCEPT !.status = "blocked"]
                 ELSE kid[c]]
  /\ call' = [call EXCEPT ![h] = [Delivery(r) EXCEPT !.then = call[h].then \ {p}]]
  /\ UNCHANGED <<root, roster, faulty>>

SubtasksQuiet(r) ==
  \A p \in ParentsOf(r) :
    \A c \in KidsOf(p) : kid[c].status \in Terminal /\ ~kid[c].recovery

RoomIsQuiet(r) ==
  \A p \in ParentsOf(r) :
    /\ root[p].status \in Terminal
    /\ \A c \in KidsOf(p) : kid[c].status \in Terminal /\ ~kid[c].recovery

BeginRoomDeletion(h, r) ==
  /\ call[h].pc = "idle"
  /\ r \in Deletable /\ Available(r)
  /\ RoomIsQuiet(r)
  /\ closing' = closing \cup {r}
  /\ call' = [call EXCEPT ![h] = [Idle EXCEPT !.pc = "deleting", !.room = r]]
  /\ UNCHANGED <<root, kid, members, deleted, dropped, faulty>>

(* DeleteRoom removes the room or fails; the deferred release follows. *)
DeleteRoom(h, ok) ==
  LET r == call[h].room IN
  /\ call[h].pc = "deleting"
  /\ closing' = closing \ {r}
  /\ deleted' = IF ok THEN deleted \cup {r} ELSE deleted
  /\ call' = [call EXCEPT ![h] = Idle]
  /\ UNCHANGED <<root, kid, members, dropped, faulty>>

(* im.DeleteUser takes a user out of every room and asks nobody: the rooms  *)
(* left with fewer than two members, or without their Manager, are gone     *)
(* with their tasks as they are.                                            *)
DeleteUser(user, needing) ==
  LET gone == needing \ deleted IN
  /\ gone = {} => \E r \in Rooms : user \in members[r]
  /\ members' = [r \in Rooms |-> members[r] \ {user}]
  /\ deleted' = deleted \cup gone
  /\ dropped' = dropped \cup gone
  /\ UNCHANGED <<root, kid, closing, call, faulty>>

-----------------------------------------------------------------------------
(* RetryDelivery                                                           *)

RetryDelivery(h, r) ==
  /\ IF r \in deleted THEN r \in failed /\ call[h].pc = "idle" /\ UNCHANGED call ELSE Deliver(h, r)
  /\ failed' = failed \ {r}
  /\ UNCHANGED <<root, kid, roster, faults>>

(* A call that ends in an error drops everything it still had to do: its    *)
(* room is gone, the service restarted, or MembersChanged meets a deletion. *)
Refused(h) ==
  IF call[h].pc = "members" THEN \E p \in call[h].then : ~changeState(p)
  ELSE call[h].pc = "lost" \/ (call[h].pc \in {"send", "checked"} /\ call[h].room \in deleted)

GiveUp(h) ==
  /\ Refused(h)
  /\ call' = [call EXCEPT ![h] = Idle]
  /\ UNCHANGED <<root, kid, roster, faulty>>

(* projection: some event of the parent or its subtasks is sent.  Every     *)
(* delivery sends the plan and the feedback again, until the report is      *)
(* delivered, which the room tells apart by their IDs.                      *)
Sends(p) ==
  \/ KidsOf(p) # {} \/ root[p].report = "pending"
  \/ root[p].woken /\ root[p].report = "none"

(* A delivery visits the parents one at a time, in the order of their last  *)
(* update: any order.  Sending the report, the last event, marks it         *)
(* delivered.                                                               *)
Visit(h, p) ==
  /\ call[h].pc = "send" /\ p \in call[h].left
  /\ RoomOf[p] \notin deleted
  /\ root' = [root EXCEPT ![p].report = IF @ = "pending" THEN "delivered" ELSE @]
  /\ call' = [call EXCEPT ![h].left = @ \ {p}]
  /\ UNCHANGED <<kid, roster, faulty>>

(* A send fails and the call ends. *)
VisitFails(h, p) ==
  /\ call[h].pc = "send" /\ p \in call[h].left
  /\ Sends(p)
  /\ faults < MaxFailures
  /\ call' = [call EXCEPT ![h] = Idle]
  /\ failed' = failed \cup {call[h].room}
  /\ faults' = faults + 1
  /\ UNCHANGED <<root, kid, roster>>

WakesAfterSuccess(p) ==
  /\ firstParent(p)
  /\ root[p].status = "queued" /\ ~root[p].woken
  /\ \E q \in Parents : /\ RoomOf[q] = RoomOf[p] /\ root[q].report = "delivered"
                         /\ root[q].status = "completed"

NeedsWake(p) ==
  /\ firstParent(p)
  /\ root[p].status = "queued" /\ ~root[p].woken
  /\ \E q \in Parents : RoomOf[q] = RoomOf[p] /\ root[q].report = "delivered"

(* Once every event is sent: wake the Manager for the next parent and       *)
(* deliver again, or go on to releaseCapacity.                              *)
recordNext(h) ==
  LET next == {p \in ParentsOf(call[h].room) : NeedsWake(p)} IN
  /\ call[h].pc = "send" /\ call[h].left = {} /\ call[h].room \notin deleted
  /\ root' = [p \in Parents |->
                IF p \in next THEN [root[p] EXCEPT !.woken = TRUE] ELSE root[p]]
  /\ call' = [call EXCEPT ![h].pc = IF next = {} THEN "release" ELSE "send",
                          ![h].left = IF next = {} THEN {} ELSE ParentsOf(call[h].room)]
  /\ UNCHANGED <<kid, roster, faulty>>

(* What a call does when a delivery returns: the next room of an enclosing  *)
(* releaseCapacity, the next parent of MembersChanged, or nothing.          *)
Rest(rooms, r, stack) ==
  IF rooms = {r} THEN stack ELSE <<rooms \ {r}>> \o stack

Return(h, stack) ==
  IF stack # <<>>
    THEN \E r \in Head(stack) :
           call' = [call EXCEPT ![h] =
                      [Delivery(r) EXCEPT !.stack = Rest(Head(stack), r, Tail(stack)),
                                          !.then = call[h].then]]
    ELSE call' = [call EXCEPT ![h] =
                    IF call[h].then = {} THEN Idle
                    ELSE [Idle EXCEPT !.pc = "members", !.then = call[h].then]]

UntilCompleted(c) == kid[kid[c].waiting].status # "completed"

StillWaits(c) == Occupies(kid[c].waiting)

Released ==
  {c \in Children :
     /\ kid[c].waiting # None /\ kid[c].status = "blocked"
     /\ ~StillWaits(c)
     /\ RoomOf[kid[c].parent] \notin deleted
     /\ Open(kid[c].parent)}

(* The Manager must dispatch again; every affected room is delivered. *)
releaseCapacity(h) ==
  LET rooms == {RoomOf[kid[c].parent] : c \in Released} IN
  /\ call[h].pc = "release"
  /\ kid' = [c \in Children |->
               IF c \in Released
                 THEN [kid[c] EXCEPT !.status = "pending", !.waiting = None] ELSE kid[c]]
  /\ Return(h, IF rooms = {} THEN call[h].stack ELSE <<rooms>> \o call[h].stack)
  /\ UNCHANGED <<root, roster, faulty>>

-----------------------------------------------------------------------------
Attempts == 1..MaxAttempt

Deliveries(h) ==
  \/ GiveUp(h) \/ recordNext(h) \/ releaseCapacity(h)
  \/ \E p \in Parents : Visit(h, p) \/ MembersChanged(h, p)
  \/ RemoveRoomMember(h)

Parental(h) ==
  \/ \E plan \in Plans : AppendPlan(h, plan) \/ \E auto \in BOOLEAN : Plan(h, plan, auto)
  \/ \E p \in Parents :
       \/ Start(h, p) \/ RequestStop(h, p) \/ VisitFails(h, p)
       \/ \E outcome \in Outcomes : Report(h, p, outcome)

OfSubtask(h, c) ==
  \/ \E w \in Workers :
       \/ Dispatch(h, c, w) \/ DispatchWaits(h, c, w)
       \/ \E a \in Attempts :
            \/ WorkerStopped(h, c, w, a)
            \/ \E s \in Reports, result \in BOOLEAN :
                 UpdateExecution(h, c, w, a, s, result)
  \/ \E a \in Attempts : ResolveRecovery(h, c, a)
  \/ \E a \in Attempts, accept \in BOOLEAN : Review(h, c, a, accept)

OfRoom(h, r) ==
  \/ RetryDelivery(h, r) \/ BeginRoomDeletion(h, r)
  \/ \E w \in Workers : CheckRemoval(h, r, w)

Next ==
  \/ \E h \in Callers :
       \/ Deliveries(h) \/ Parental(h)
       \/ \E c \in Children : OfSubtask(h, c)
       \/ \E r \in Rooms : OfRoom(h, r)
       \/ \E ok \in BOOLEAN : DeleteRoom(h, ok)
  \/ \E p \in Parents : Create(p)
  \/ \E c \in Children, w \in Workers, a \in Attempts : Claim(c, w, a)
  \/ \E w \in Workers : CancelAgentTasks(w)
  \/ \E r \in Rooms, w \in Workers : AddMember(r, w)
  \/ \E leaver \in Leavers : DeleteUser(leaver[1], leaver[2])
  \/ Recover

Spec == Init /\ [][Next]_vars

(* A handler that runs goes on to its end.  A DeliveryError names the room  *)
(* and asks for "task retry-delivery": somebody does, as often as it takes; *)
(* the number of handlers is a bound of the model, so strong fairness.      *)
Fairness ==
  /\ \A h \in Callers : WF_vars(Deliveries(h)) /\ WF_vars(\E ok \in BOOLEAN : DeleteRoom(h, ok))
  /\ \A r \in Rooms : SF_vars(r \in failed /\ \E h \in Callers : RetryDelivery(h, r))

FairSpec == Spec /\ Fairness

-----------------------------------------------------------------------------
(* Properties                                                              *)

(* The ledger, the rosters and the calls keep their types: a task that was  *)
(* planned has a parent and an assignee, and a call in a room names it.     *)
TypeOK ==
  /\ root \in [Parents -> Root]
  /\ kid \in [Children -> Kid]
  /\ members \in [Rooms -> SUBSET Workers]
  /\ closing \subseteq Rooms /\ deleted \subseteq Rooms /\ dropped \subseteq deleted
  /\ call \in [Callers -> Call]
  /\ \A h \in Callers : call[h].pc \notin {"idle", "lost", "members"} => call[h].room # None
  /\ failed \subseteq Rooms /\ faults \in Nat
  /\ \A c \in Children :
       IF kid[c].status = "none" THEN kid[c] = Unplanned
       ELSE kid[c].parent # None /\ kid[c].to # None
            /\ root[kid[c].parent].status # "none"

(* The capacity of a worker is one (Dispatch): over all rooms, whatever is  *)
(* dispatched, reassigned, stopped, recovered or cancelled in between, no   *)
(* worker has two tasks that run or whose execution is still to be verified *)
(* after a restart.                                                         *)
OneTaskPerWorker ==
  \A c, d \in Children :
    Occupies(c) /\ Occupies(d) /\ kid[c].to = kid[d].to => c = d

(* A task runs only on accepted work (Dispatch, UpdateExecution): while it  *)
(* is dispatched or executed every predecessor stays completed; no later    *)
(* review, recovery, stop or reassignment takes an acceptance back.         *)
DependenciesAccepted ==
  \A c \in Children : running(c) => dependenciesReady(c)

(* The result under review or accepted is of the task's current attempt     *)
(* (UpdateExecution, Review): the late report of a worker whose task was    *)
(* dispatched again is never taken for it.                                  *)
ResultOfCurrentAttempt ==
  \A c \in Children :
    kid[c].status \in {"review", "completed"} =>
      kid[c].attempt >= 1 /\ kid[c].result = kid[c].attempt

(* "No persisted execution can become an orphan or retain global worker     *)
(* capacity" (BeginRoomDeletion): under a parent that has ended every       *)
(* subtask has ended and holds no worker, and every parent of a room that   *)
(* is being deleted, or was deleted, has ended, also after a restart in the *)
(* middle of it.  The rooms that im.DeleteUser takes away are excepted:     *)
(* nobody asks BeginRoomDeletion, and their work is orphaned.               *)
NoOrphans ==
  /\ \A c \in Children :
       Planned(c) /\ ~Unfinished(kid[c].parent) =>
         kid[c].status \in Terminal /\ ~kid[c].recovery
  /\ \A p \in Parents : RoomOf[p] \in closing \cup (deleted \ dropped) => ~Unfinished(p)

Behind(p) == \E q \in root[p].older : Unfinished(q)

(* The earliest unfinished parent holds the room (firstParent): a parent    *)
(* behind it is not worked on, and its subtasks were never dispatched,      *)
(* hold no worker and do not wait for one.                                  *)
RoomQueueOrder ==
  \A p \in Parents : Behind(p) =>
    /\ root[p].status \notin {"in_progress", "review"}
    /\ \A c \in KidsOf(p) : kid[c].attempt = 0 /\ ~Occupies(c) /\ kid[c].waiting = None

(* "RequestStop revokes work not yet claimed": under a stopping parent no   *)
(* task is left that a worker could claim or that a freed worker would      *)
(* bring back, whatever releases, removals and restarts follow.             *)
StopRevokes ==
  \A c \in Children :
    Planned(c) /\ root[kid[c].parent].status = "stopping" =>
      kid[c].status \notin {"pending", "assigned"} /\ kid[c].waiting = None

(* A plan never blocks itself (validatePlan, AppendPlan): as long as some   *)
(* subtask of a parent is not accepted, one of them has all its             *)
(* predecessors accepted, after any number of extensions.                   *)
SomethingReady ==
  \A p \in Parents :
    LET rest == {c \in KidsOf(p) : kid[c].status # "completed"} IN
    rest # {} => \E c \in rest : dependenciesReady(c)

(* Recover "never replays an uncertain execution": an attempt is dispatched *)
(* once and claimed once.  A task returns to assigned only with a new       *)
(* attempt, becomes in_progress only from assigned, and no attempt is ever  *)
(* taken back.  (Service.Claim of the agent tasks, called for a subtask of  *)
(* a room, would break it; see the head of this module.)                    *)
NeverReplayed ==
  [][\A c \in Children :
       /\ kid'[c].attempt >= kid[c].attempt
       /\ kid'[c].status = "assigned" =>
            kid[c].status = "assigned" \/ kid'[c].attempt > kid[c].attempt
       /\ kid'[c].status = "in_progress" =>
            /\ kid[c].status \in {"assigned", "in_progress"}
            /\ kid'[c].attempt = kid[c].attempt]_vars

(* A task of a room that is there waits for a worker that was let go. *)
Starved(c) ==
  /\ kid[c].waiting # None /\ kid[c].status = "blocked"
  /\ ~Occupies(kid[c].waiting)
  /\ RoomOf[kid[c].parent] \notin deleted

(* A delivery is under way or somebody was asked to repeat it. *)
Delivering == failed # {} \/ \E h \in Callers : Delivers(h)

(* A delivery ends for good: the service restarted or the room is gone. *)
BrokenOff ==
  \/ failed \cap deleted # {}
  \/ \E h \in Callers : call[h].pc = "lost" \/ (call[h].pc = "send" /\ call[h].room \in deleted)

(* "Worker capacity released" (releaseCapacity): a task that waits for a    *)
(* worker is returned to its Manager once the task it waits for, of any     *)
(* room, has let the worker go and a delivery is under way in any room,     *)
(* even if that delivery fails first or other handlers deliver at the same  *)
(* time.  Nothing repeats a delivery that a restart or the loss of its room *)
(* has ended, and archiving an agent delivers nothing: then the task waits  *)
(* for the next delivery.                                                   *)
WaitersReleased ==
  \A c \in Children : Starved(c) /\ Delivering ~> ~Starved(c) \/ BrokenOff

(* recordNext is "replay-safe, including recovery after a saved report was  *)
(* delivered": the parent that is next, while the report of another is      *)
(* still to be delivered and the room has a delivery, wakes the Manager,    *)
(* that is, the event for it is saved, however that delivery fails.  Again  *)
(* nothing repeats a delivery that was broken off.                          *)
NextParentWoken ==
  \A p \in Parents :
    /\ firstParent(p) /\ root[p].status = "queued"
    /\ \E q \in Parents : RoomOf[p] = RoomOf[q] /\ root[q].report = "pending"
    /\ RoomOf[p] \in failed \/ \E h \in Callers : call[h].pc = "send" /\ call[h].room = RoomOf[p]
    ~> root[p].woken \/ root[p].status # "queued" \/ BrokenOff
===============================================================================
