------------------------------ MODULE WorkLease ------------------------------
(***************************************************************************)
(* Participant work leases: the Registry of internal/worklease, the turn   *)
(* that holds a lease (Adapter.startWork of channel/csgclaw/execution),    *)
(* the users who ask to stop it and the janitor that expires it.  All      *)
(* leases are of one participant in one room, the case in which they share *)
(* the controller map and the subject index.                               *)
(*                                                                         *)
(* Every Registry method changes the maps under one mutex and publishes    *)
(* its update after it has unlocked, so an update waits with its caller,   *)
(* who does nothing else meanwhile, and different callers publish in any   *)
(* order.                                                                  *)
(* Every method also reads the wall clock before it locks: the time it     *)
(* uses may be up to MaxLag behind.                                        *)
(***************************************************************************)
EXTENDS Integers

CONSTANTS
  None,          \* no lease, no update
  Leases,        \* lease IDs; each belongs to one turn
  Stoppers,      \* calls of work:stop
  TTL,           \* DefaultTTLSeconds
  TombstoneTTL,  \* how long an ended lease refuses renewal
  MaxLag,        \* bound: how stale a clock reading may be at the lock
  MaxStall,      \* bound: longest gap between two validated renewals
  MaxDelay,      \* bound: how late a PUT of an ended turn may arrive
  MaxStatus,     \* bound: status updates of one turn
  MaxClock       \* bound: the run's horizon

ASSUME WorkLeaseAssumption ==
  /\ {TTL, TombstoneTTL} \subseteq Nat \ {0}
  /\ {MaxLag, MaxStall, MaxDelay, MaxStatus, MaxClock} \subseteq Nat
  /\ MaxDelay + MaxLag <= TombstoneTTL
  /\ MaxStall + MaxLag < TTL + TombstoneTTL

VARIABLES
  clock,
  activeByKey,      \* lease |-> activeLease or None
  tombstones,       \* lease |-> rejectUntil, Absent when there is none
  activeBySubject,  \* the subject index: active lease IDs of the room
  controllers,      \* turns registered with the TurnControlDispatcher
  turn,             \* the goroutine of Adapter.Run between startWork and finish
  renewer,          \* the renewWorkLease goroutine
  observer,         \* observeEvent: last status sequence taken, report pending
  stopper,          \* RequestStop calls
  outbox,           \* caller |-> the update it has yet to publish, or None
  recorded          \* leases whose "Conversation interrupted" message exists

vars == <<clock, activeByKey, tombstones, activeBySubject, controllers, turn,
          renewer, observer, stopper, outbox, recorded>>

Absent == -1

Turn(l) == <<"turn", l>>
Renewer(l) == <<"renew", l>>
Observer(l) == <<"observe", l>>
Remote(l) == <<"remote", l>>
Stopper(s) == <<"stop", s>>
Janitor(l) == <<"janitor", l>>
Callers == ({"turn", "renew", "observe", "remote", "janitor"} \X Leases) \cup ({"stop"} \X Stoppers)

StopStates == {"none", "requested", "failed", "timed_out", "stopped"}

ActiveLease == [revision : Nat \ {0}, expiresAt : Nat, statusSequence : Nat,
                stopRequestedAt : Nat, stopState : StopStates]

ParticipantWorkUpdate ==
  [lease : Leases, revision : Nat \ {0}, state : {"working", "idle"},
   expiresAt : Nat, stopState : StopStates]

TurnPhases == {"new", "start", "status", "running", "ended", "finished", "joining", "recording", "done"}
TurnResults == {"none", "completed", "canceled"}
TurnState ==
  [pc : TurnPhases, finished : BOOLEAN, stopping : BOOLEAN, canceled : BOOLEAN, late : BOOLEAN,
   result : TurnResults, ended : Nat \cup {Absent}]

StopperPhases == {"idle", "dispatch", "call", "cancel", "failing", "done"}
StopperCauses == {"none", "failed", "timed_out"}
StopperState == [pc : StopperPhases, lease : Leases \cup {None}, at : Nat, cause : StopperCauses]

ASSUME NoneApart == None \notin Leases \cup ActiveLease \cup ParticipantWorkUpdate

Init ==
  /\ clock = 0
  /\ activeByKey = [l \in Leases |-> None]
  /\ tombstones = [l \in Leases |-> Absent]
  /\ activeBySubject = {}
  /\ controllers = {}
  /\ turn = [l \in Leases |-> [pc |-> "new", finished |-> FALSE, stopping |-> FALSE,
                               canceled |-> FALSE, result |-> "none", ended |-> Absent,
                               late |-> FALSE]]
  /\ renewer = [l \in Leases |-> [pc |-> "off", last |-> 0]]
  /\ observer = [l \in Leases |-> [sequence |-> 1, pending |-> FALSE]]
  /\ stopper = [s \in Stoppers |-> [pc |-> "idle", lease |-> None, at |-> 0, cause |-> "none"]]
  /\ outbox = [c \in Callers |-> None]
  /\ recorded = {}

-----------------------------------------------------------------------------
(* Registry                                                                *)

Active(l) == activeByKey[l] # None
Closed(l) == tombstones[l] # Absent
Idle(c) == outbox[c] = None

(* r.now() is read before r.mu is taken. *)
Now == {t \in 0..clock : clock - t <= MaxLag}

updateFor(l, lease, state) ==
  [lease |-> l, revision |-> lease.revision, state |-> state,
   expiresAt |-> lease.expiresAt, stopState |-> lease.stopState]

(* The update is sent by r.publish once r.mu is released. *)
Enqueue(c, l, lease, state) ==
  outbox' = [outbox EXCEPT ![c] = updateFor(l, lease, state)]

Keep(l, lease) == activeByKey' = [activeByKey EXCEPT ![l] = lease]

NewLease(t) == [revision |-> 1, expiresAt |-> t + TTL, statusSequence |-> 0,
                stopRequestedAt |-> 0, stopState |-> "none"]

RenewedWithoutRevision(l, t) ==
  [activeByKey[l] EXCEPT !.expiresAt = t + TTL]

Renewed(l, t) ==
  [activeByKey[l] EXCEPT !.revision = @ + 1, !.expiresAt = t + TTL]

(* A tombstone refuses the lease with ErrClosed. *)
Refuses(l) == Closed(l)

(* StartOrRenew past its tombstone check. *)
StartOrRenew(c, l, t) ==
  LET lease == IF Active(l) THEN Renewed(l, t) ELSE NewLease(t)
  IN  /\ ~Refuses(l)
      /\ Keep(l, lease)
      /\ activeBySubject' = activeBySubject \cup {l}
      /\ Enqueue(c, l, lease, "working")
      /\ UNCHANGED tombstones

(* UpdateStatus: refused when the lease is not active, echoed when a stop is *)
(* requested, ignored when the sequence is not new.                          *)
Reportable(l, sequence) ==
  /\ Active(l)
  /\ activeByKey[l].stopState # "requested"
  /\ sequence > activeByKey[l].statusSequence

UpdateStatus(c, l, sequence) ==
  LET lease == [activeByKey[l] EXCEPT !.statusSequence = sequence, !.revision = @ + 1]
  IN  IF Reportable(l, sequence)
      THEN Keep(l, lease) /\ Enqueue(c, l, lease, "working")
      ELSE UNCHANGED <<activeByKey, outbox>>

(* The time until which an ended lease refuses renewal. *)
TombstoneUntil(l, t) == t + TombstoneTTL

(* removeSubjectLocked for leases that end. *)
WithoutSubjects(ls) == activeBySubject \ ls

ForgetsTombstone(l, t) == Absent

FinishTombstone(l, t) == TombstoneUntil(l, t)

FinalState(l, outcome) ==
  CASE outcome = "stopped" -> "stopped"
    [] outcome = "stop_timed_out" -> "timed_out"
    [] OTHER -> "none"

(* Finish for an active lease, for a lease that is gone, and refused: an     *)
(* outcome other than released needs a stop request.                         *)
FinishActive(c, l, t, outcome) ==
  LET lease == [activeByKey[l] EXCEPT !.revision = @ + 1, !.stopState = FinalState(l, outcome)]
  IN  /\ Keep(l, None)
      /\ activeBySubject' = WithoutSubjects({l})
      /\ tombstones' = [tombstones EXCEPT ![l] = FinishTombstone(l, t)]
      /\ Enqueue(c, l, lease, "idle")

FinishGone(l, t) ==
  /\ tombstones' = [tombstones EXCEPT ![l] = IF @ > t + TombstoneTTL THEN @ ELSE t + TombstoneTTL]
  /\ UNCHANGED <<activeByKey, activeBySubject, outbox>>

FinishConflicts(l, outcome) ==
  Active(l) /\ outcome # "released" /\ activeByKey[l].stopRequestedAt = 0

-----------------------------------------------------------------------------
(* The turn: Adapter.startWork and the function it returns                 *)

(* The controller is registered before the lease exists. *)
RegisterTurnController(l) ==
  /\ turn[l].pc = "new"
  /\ turn' = [turn EXCEPT ![l].pc = "start"]
  /\ controllers' = controllers \cup {l}
  /\ UNCHANGED <<clock, activeByKey, tombstones, activeBySubject, renewer, observer,
                 stopper, outbox, recorded>>

(* The first StartOrRenew; a validation error is only logged, the status     *)
(* report and the renewals go on.                                            *)
StartWork(l, t) ==
  /\ turn[l].pc = "start" /\ clock + TTL <= MaxClock
  /\ turn' = [turn EXCEPT ![l].pc = "status"]
  /\ \/ StartOrRenew(Turn(l), l, t)
     \/ UNCHANGED <<activeByKey, tombstones, activeBySubject, outbox>>
  /\ renewer' = [renewer EXCEPT ![l].last = clock]
  /\ UNCHANGED <<clock, controllers, observer, stopper, recorded>>

(* The initial status (sequence 1) carries the stop capability; then the     *)
(* renewal goroutine starts.                                                 *)
InitialStatus(l) ==
  /\ turn[l].pc = "status" /\ Idle(Turn(l))
  /\ turn' = [turn EXCEPT ![l].pc = "running"]
  /\ UpdateStatus(Turn(l), l, 1)
  /\ renewer' = [renewer EXCEPT ![l].pc = "waiting"]
  /\ UNCHANGED <<clock, tombstones, activeBySubject, controllers, observer, stopper, recorded>>

(* turnCtx is canceled by StopTurn and by finish; renewCtx is its child. *)
RenewCanceled(l) == turn[l].canceled \/ turn[l].pc \notin {"running", "ended", "finished"}

(* One tick of renewWorkLease, a unit of time or more after the last:        *)
(* ErrClosed ends it, another error does not.                                *)
Renew(l, t) ==
  /\ renewer[l].pc = "waiting" /\ Idle(Renewer(l))
  /\ clock > renewer[l].last /\ clock + TTL <= MaxClock
  /\ IF Refuses(l)
     THEN /\ renewer' = [renewer EXCEPT ![l].pc = "done"]
          /\ UNCHANGED <<activeByKey, tombstones, activeBySubject, outbox>>
     ELSE /\ renewer' = [renewer EXCEPT ![l].last = clock]
          /\ StartOrRenew(Renewer(l), l, t)
  /\ UNCHANGED <<clock, controllers, turn, observer, stopper, recorded>>

RenewerExits(l) ==
  /\ renewer[l].pc = "waiting" /\ Idle(Renewer(l)) /\ RenewCanceled(l)
  /\ renewer' = [renewer EXCEPT ![l].pc = "done"]
  /\ UNCHANGED <<clock, activeByKey, tombstones, activeBySubject, controllers, turn,
                 observer, stopper, outbox, recorded>>

(* observeEvent takes the next sequence under its mutex unless the turn has  *)
(* finished, and reports after unlocking.                                    *)
ObserveEvent(l) ==
  /\ turn[l].pc \in {"running", "ended"}
  /\ ~observer[l].pending /\ observer[l].sequence <= MaxStatus /\ Idle(Observer(l))
  /\ observer' = [observer EXCEPT ![l] = [sequence |-> @.sequence + 1, pending |-> TRUE]]
  /\ UNCHANGED <<clock, activeByKey, tombstones, activeBySubject, controllers, turn,
                 renewer, stopper, outbox, recorded>>

ReportStatus(l) ==
  /\ observer[l].pending
  /\ observer' = [observer EXCEPT ![l].pending = FALSE]
  /\ UpdateStatus(Observer(l), l, observer[l].sequence)
  /\ UNCHANGED <<clock, tombstones, activeBySubject, controllers, turn, renewer, stopper, recorded>>

(* The Engine returns a result: canceled only if the context was. *)
RunReturns(l) ==
  /\ turn[l].pc = "running" /\ Idle(Turn(l))
  /\ \E result \in {"completed", "canceled"} :
       /\ result = "canceled" => turn[l].canceled
       /\ turn' = [turn EXCEPT ![l] = [@ EXCEPT !.pc = "ended", !.result = result]]
  /\ UNCHANGED <<clock, activeByKey, tombstones, activeBySubject, controllers, renewer,
                 observer, stopper, outbox, recorded>>

(* active.finish(): from here on StopTurn reports ErrTurnNotFound. *)
FinishTurn(l) ==
  /\ turn[l].pc = "ended"
  /\ turn' = [turn EXCEPT ![l] = [@ EXCEPT !.pc = "finished", !.finished = TRUE]]
  /\ UNCHANGED <<clock, activeByKey, tombstones, activeBySubject, controllers, renewer,
                 observer, stopper, outbox, recorded>>

Unregister(l) ==
  /\ turn[l].pc = "finished"
  /\ turn' = [turn EXCEPT ![l] = [@ EXCEPT !.pc = "joining", !.canceled = TRUE]]
  /\ controllers' = controllers \ {l}
  /\ UNCHANGED <<clock, activeByKey, tombstones, activeBySubject, renewer, observer,
                 stopper, outbox, recorded>>

(* <-renewDone *)
Joined(l) == renewer[l].pc = "done"

Outcome(l) ==
  IF ~turn[l].stopping THEN "released"
  ELSE IF turn[l].result = "canceled" THEN "stopped" ELSE "stop_timed_out"

(* Only a lease that ends as stopped leaves a message. *)
Records(l) == Active(l) /\ Outcome(l) = "stopped" /\ ~FinishConflicts(l, Outcome(l))

Finish(l, t) ==
  /\ turn[l].pc = "joining" /\ Joined(l)
  /\ turn' = [turn EXCEPT ![l] = [@ EXCEPT !.ended = clock, !.pc = IF Records(l) THEN "recording" ELSE "done"]]
  /\ IF FinishConflicts(l, Outcome(l))
     THEN UNCHANGED <<activeByKey, tombstones, activeBySubject, outbox>>
     ELSE IF Active(l) THEN FinishActive(Turn(l), l, t, Outcome(l))
     ELSE FinishGone(l, t)
  /\ UNCHANGED <<clock, controllers, renewer, observer, stopper, recorded>>

(* recordParticipantTurnStopped, after the update is published. *)
RecordStopped(l) ==
  /\ turn[l].pc = "recording" /\ Idle(Turn(l))
  /\ turn' = [turn EXCEPT ![l].pc = "done"]
  /\ recorded' = recorded \cup {l}
  /\ UNCHANGED <<clock, activeByKey, tombstones, activeBySubject, controllers, renewer,
                 observer, stopper, outbox>>

(* A PUT of a runtime outside the process that is still under way when its   *)
(* turn has ended.                                                           *)
LatePut(l, t) ==
  /\ turn[l].pc = "done" /\ ~turn[l].late /\ Idle(Remote(l))
  /\ clock - turn[l].ended < MaxDelay
  /\ turn' = [turn EXCEPT ![l].late = TRUE]
  /\ IF Refuses(l) THEN UNCHANGED <<activeByKey, tombstones, activeBySubject, outbox>>
     ELSE StartOrRenew(Remote(l), l, t)
  /\ UNCHANGED <<clock, controllers, renewer, observer, stopper, recorded>>

-----------------------------------------------------------------------------
(* Stop requests                                                           *)

NeedsRequest(l) ==
  activeByKey[l].stopRequestedAt = 0 \/ activeByKey[l].stopState \in {"failed", "timed_out"}

(* A new request, also after one that failed. *)
Requested(lease) ==
  [lease EXCEPT !.revision = @ + 1, !.stopRequestedAt = lease.revision + 1,
                !.stopState = "requested"]

(* RequestStop: the lease must be active and advertise turn_stop, which the  *)
(* first status does.  The instant of the request is represented by the      *)
(* revision it creates: the clock is taken never to give two requests of one *)
(* lease the same instant.  A duplicate joins the request that is pending.   *)
RequestStop(s, l) ==
  LET lease == Requested(activeByKey[l])
  IN  /\ stopper[s].pc = "idle" /\ Active(l) /\ activeByKey[l].statusSequence > 0
      /\ IF NeedsRequest(l)
         THEN Keep(l, lease) /\ Enqueue(Stopper(s), l, lease, "working")
         ELSE UNCHANGED <<activeByKey, outbox>>
      /\ stopper' = [stopper EXCEPT ![s] = [pc |-> "dispatch", lease |-> l, cause |-> "none",
                       at |-> activeByKey'[l].stopRequestedAt]]
      /\ UNCHANGED <<clock, tombstones, activeBySubject, controllers, turn, renewer, observer, recorded>>

(* ControlBus.StopTurn: delivered to a subscriber, refused for want of one,  *)
(* or the request's context ended first.                                     *)
BusAnswers == {<<"done", "none">>, <<"failing", "failed">>, <<"failing", "timed_out">>}

(* TurnControlDispatcher.StopTurn copies the controllers of the participant; *)
(* with none registered it falls back to the control bus.                    *)
Dispatch(s) ==
  /\ stopper[s].pc = "dispatch" /\ Idle(Stopper(s))
  /\ \E answer \in IF stopper[s].lease \in controllers THEN {<<"call", "none">>}
                   ELSE IF controllers # {} THEN {<<"failing", "failed">>} ELSE BusAnswers :
       stopper' = [stopper EXCEPT ![s] = [@ EXCEPT !.pc = answer[1], !.cause = answer[2]]]
  /\ UNCHANGED <<clock, activeByKey, tombstones, activeBySubject, controllers, turn, renewer,
                 observer, outbox, recorded>>

(* activeWorkTurn.StopTurn answers ErrTurnNotFound once the turn finished. *)
Stoppable(l) == ~turn[l].finished

StopTurn(s) ==
  LET l == stopper[s].lease
  IN  /\ stopper[s].pc = "call"
      /\ IF Stoppable(l)
         THEN /\ turn' = [turn EXCEPT ![l] = [@ EXCEPT !.stopping = TRUE, !.canceled = TRUE]]
              /\ stopper' = [stopper EXCEPT ![s].pc = "cancel"]
         ELSE /\ stopper' = [stopper EXCEPT ![s] = [@ EXCEPT !.pc = "failing", !.cause = "failed"]]
              /\ UNCHANGED turn
      /\ UNCHANGED <<clock, activeByKey, tombstones, activeBySubject, controllers, renewer,
                     observer, outbox, recorded>>

(* Engine Cancel: nil when the turn is not active in the Engine (not yet     *)
(* admitted, or over).                                                       *)
CancelReturns(s) ==
  /\ stopper[s].pc = "cancel"
  /\ stopper' = [stopper EXCEPT ![s].pc = "done"]
  /\ UNCHANGED <<clock, activeByKey, tombstones, activeBySubject, controllers, turn, renewer,
                 observer, outbox, recorded>>

(* The request's context ends before the controller is called or before the  *)
(* Engine turn is over.                                                      *)
StopTimesOut(s) ==
  /\ stopper[s].pc \in {"call", "cancel"}
  /\ stopper' = [stopper EXCEPT ![s] = [@ EXCEPT !.pc = "failing", !.cause = "timed_out"]]
  /\ UNCHANGED <<clock, activeByKey, tombstones, activeBySubject, controllers, turn, renewer,
                 observer, outbox, recorded>>

AnyRequest(s, l) == Active(l)

PointerCompared(s, l) == Active(l) /\ stopper[s].at = 0

(* A failure concerns the lease only while its own request is the latest. *)
OwnRequest(s, l) == Active(l) /\ activeByKey[l].stopRequestedAt = stopper[s].at

recordTurnControlFailure(s) ==
  LET l == stopper[s].lease
      lease == [activeByKey[l] EXCEPT !.revision = @ + 1, !.stopState = stopper[s].cause]
  IN  /\ stopper[s].pc = "failing"
      /\ stopper' = [stopper EXCEPT ![s].pc = "done"]
      /\ IF OwnRequest(s, l)
         THEN Keep(l, lease) /\ Enqueue(Stopper(s), l, lease, "working")
         ELSE UNCHANGED <<activeByKey, outbox>>
      /\ UNCHANGED <<clock, tombstones, activeBySubject, controllers, turn, renewer, observer, recorded>>

-----------------------------------------------------------------------------
(* Janitor, publication, time                                              *)

Expired(t) == {l \in Leases : Active(l) /\ activeByKey[l].expiresAt <= t}

(* The update of a lease that a Sweep expires.  The map's iteration chooses  *)
(* the order in which they are published: each has an outbox of its own.     *)
ExpiredUpdate(l) == updateFor(l, [activeByKey[l] EXCEPT !.revision = @ + 1], "idle")

Purged(l, t) == tombstones[l] # Absent /\ tombstones[l] <= t

Sweep(t) ==
  LET gone == Expired(t)
  IN  /\ \A l \in Leases : Idle(Janitor(l))
      /\ gone # {} \/ \E l \in Leases : Purged(l, t)
      /\ activeByKey' = [l \in Leases |-> IF l \in gone THEN None ELSE activeByKey[l]]
      /\ activeBySubject' = WithoutSubjects(gone)
      /\ tombstones' = [l \in Leases |-> IF l \in gone THEN TombstoneUntil(l, t)
                                         ELSE IF Purged(l, t) THEN Absent ELSE tombstones[l]]
      /\ outbox' = [c \in Callers |-> IF c[1] = "janitor" /\ c[2] \in gone THEN ExpiredUpdate(c[2])
                                      ELSE outbox[c]]
      /\ UNCHANGED <<clock, controllers, turn, renewer, observer, stopper, recorded>>

(* r.publish of the update of one caller. *)
Publish(c) ==
  /\ ~Idle(c)
  /\ outbox' = [outbox EXCEPT ![c] = None]
  /\ UNCHANGED <<clock, activeByKey, tombstones, activeBySubject, controllers, turn, renewer,
                 observer, stopper, recorded>>

Renewing(l) == turn[l].pc = "status" \/ renewer[l].pc = "waiting"

(* Time passes, but up to the horizon not past the next validated renewal. *)
Tick ==
  /\ clock < MaxClock
  /\ \A l \in Leases : Renewing(l) /\ clock + TTL <= MaxClock
                         => clock < renewer[l].last + MaxStall
  /\ clock' = clock + 1
  /\ UNCHANGED <<activeByKey, tombstones, activeBySubject, controllers, turn, renewer, observer,
                 stopper, outbox, recorded>>

TurnStep(l) ==
  \/ RegisterTurnController(l)
  \/ \E t \in Now : StartWork(l, t)
  \/ InitialStatus(l)
  \/ RunReturns(l)
  \/ FinishTurn(l)
  \/ Unregister(l)
  \/ \E t \in Now : Finish(l, t)
  \/ RecordStopped(l)

RenewerStep(l) == RenewerExits(l) \/ \E t \in Now : Renew(l, t)

ObserverStep(l) == ObserveEvent(l) \/ ReportStatus(l)

StopperStep(s) ==
  \/ \E l \in Leases : RequestStop(s, l)
  \/ Dispatch(s)
  \/ StopTurn(s)
  \/ CancelReturns(s)
  \/ StopTimesOut(s)
  \/ recordTurnControlFailure(s)

(* Every step that is not a publication. *)
RegistryStep ==
  \/ \E l \in Leases : TurnStep(l) \/ RenewerStep(l) \/ ObserverStep(l)
  \/ \E l \in Leases : \E t \in Now : LatePut(l, t)
  \/ \E s \in Stoppers : StopperStep(s)
  \/ \E t \in Now : Sweep(t)
  \/ Tick

Next == RegistryStep \/ \E c \in Callers : Publish(c)

Spec == Init /\ [][Next]_vars

-----------------------------------------------------------------------------
(* Properties                                                              *)

(* Type correctness of the registry's maps and of its callers. *)
TypeOK ==
  /\ clock \in 0..MaxClock
  /\ activeByKey \in [Leases -> ActiveLease \cup {None}]
  /\ tombstones \in [Leases -> Nat \cup {Absent}]
  /\ activeBySubject \subseteq Leases
  /\ controllers \subseteq Leases
  /\ turn \in [Leases -> TurnState]
  /\ renewer \in [Leases -> [pc : {"off", "waiting", "done"}, last : Nat]]
  /\ observer \in [Leases -> [sequence : Nat, pending : BOOLEAN]]
  /\ stopper \in [Stoppers -> StopperState]
  /\ outbox \in [Callers -> ParticipantWorkUpdate \cup {None}]
  /\ recorded \subseteq Leases

(* Once a turn has finished its lease it is never shown as working again:    *)
(* the renewal goroutine was joined first, and a late PUT meets the          *)
(* tombstone.                                                                *)
EndedStaysEnded ==
  \A l \in Leases : turn[l].ended # Absent => ~Active(l)

(* A lease shows "stop requested" only while somebody is acting on it: a     *)
(* stop call of that very request is under way, or the turn has accepted it  *)
(* or is finishing.                                                          *)
StopOwned ==
  \A l \in Leases : Active(l) /\ activeByKey[l].stopState = "requested" =>
    \/ turn[l].stopping \/ turn[l].finished
    \/ \E s \in Stoppers : /\ stopper[s].pc \in {"dispatch", "call", "cancel", "failing"}
                           /\ stopper[s].lease = l
                           /\ stopper[s].at = activeByKey[l].stopRequestedAt

(* A stop shown as failed or timed out is the failure of the latest request: *)
(* the late failure of an earlier one never masks a newer request.           *)
FailureIsOwn ==
  \A l \in Leases : Active(l) /\ activeByKey[l].stopState \in {"failed", "timed_out"} =>
    \E s \in Stoppers : /\ stopper[s].pc = "done" /\ stopper[s].lease = l
                        /\ stopper[s].at = activeByKey[l].stopRequestedAt
                        /\ stopper[s].cause = activeByKey[l].stopState

Updates == {outbox[c] : c \in Callers} \ {None}

(* No two updates of a lease carry one revision and none is newer than the   *)
(* lease itself: the order in which concurrent callers publish can be        *)
(* recovered from the revision alone.                                        *)
RevisionsIdentify ==
  /\ \A u, v \in Updates : u.lease = v.lease /\ u.revision = v.revision => u = v
  /\ \A u \in Updates : Active(u.lease) => u.revision <= activeByKey[u.lease].revision
=============================================================================
