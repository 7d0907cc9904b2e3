---------------------------- MODULE WorkLeaseProofs ----------------------------
(***************************************************************************)
(* Proofs about WorkLease and WorkView, for any number of leases and stop  *)
(* calls, any clock readings as stale as MaxLag, and any TTLs that satisfy *)
(* the assumptions of the two modules.                                     *)
(***************************************************************************)
EXTENDS WorkView, TLAPS

-----------------------------------------------------------------------------
(* The strengthening for the registry.                                     *)

(* Where the turn is tells what its goroutines and its controller do. *)
Phases ==
  \A l \in Leases :
    /\ turn[l].pc \in {"new", "start"} => renewer[l].pc = "off" /\ ~Active(l) /\ ~Closed(l)
    /\ turn[l].pc = "status" => renewer[l].pc = "off"
    /\ turn[l].pc \in {"recording", "done"} <=> turn[l].ended # Absent
    /\ turn[l].ended # Absent => renewer[l].pc = "done"
    /\ turn[l].finished <=> turn[l].pc \in {"finished", "joining", "recording", "done"}
    /\ l \in controllers <=> turn[l].pc \in {"start", "status", "running", "ended", "finished"}

(* A lease whose turn renews it does not outlive its renewals unnoticed: it  *)
(* expires no earlier than TTL after the last one, and once it has expired   *)
(* the tombstone stands until after the next.                                *)
Renewals ==
  \A l \in Leases : Renewing(l) =>
    /\ clock <= renewer[l].last + MaxStall \/ clock + TTL > MaxClock
    /\ Active(l) => activeByKey[l].expiresAt + MaxLag >= renewer[l].last + TTL
    /\ Closed(l) => tombstones[l] > renewer[l].last + MaxStall

(* An ended lease is refused for as long as a PUT of it may be under way. *)
Refused ==
  \A l \in Leases :
    /\ Active(l) => ~Closed(l)
    /\ turn[l].ended # Absent =>
         /\ ~Active(l)
         /\ IF Closed(l) THEN tombstones[l] >= turn[l].ended + MaxDelay
            ELSE clock >= turn[l].ended + MaxDelay

(* A lease that StartOrRenew would create rather than renew. *)
Startable(l) ==
  /\ ~Active(l) /\ ~Closed(l)
  /\ turn[l].pc \in {"new", "start"} \/ (Renewing(l) /\ clock + TTL <= MaxClock)

(* It has never existed: nobody has seen or stopped it. *)
Created ==
  \A l \in Leases : Startable(l) =>
    /\ ~turn[l].stopping
    /\ \A s \in Stoppers : stopper[s].lease # l
    /\ \A c \in Callers : outbox[c] # None => outbox[c].lease # l

(* A stop call knows its lease, and the lease its latest request. *)
Requests ==
  /\ \A s \in Stoppers :
       /\ stopper[s].pc # "idle" => stopper[s].lease \in Leases
       /\ stopper[s].pc = "cancel" => turn[stopper[s].lease].stopping
       /\ stopper[s].pc = "failing" => stopper[s].cause # "none"
  /\ \A l \in Leases : Active(l) =>
       /\ turn[l].stopping => activeByKey[l].stopRequestedAt # 0
       /\ \A s \in Stoppers : stopper[s].lease = l => activeByKey[l].stopRequestedAt # 0

(* Different callers hold updates of different revisions, none newer than    *)
(* the lease.                                                                *)
Revisions ==
  /\ \A c, d \in Callers :
       c # d /\ outbox[c] # None /\ outbox[d] # None /\ outbox[c].lease = outbox[d].lease
         => outbox[c].revision # outbox[d].revision
  /\ \A c \in Callers : outbox[c] # None /\ Active(outbox[c].lease)
         => outbox[c].revision <= activeByKey[outbox[c].lease].revision

(* A caller that is about to enqueue has published what it held. *)
Slots ==
  /\ \A l \in Leases :
       /\ turn[l].pc \in {"new", "start", "ended", "finished", "joining"} => Idle(Turn(l))
       /\ observer[l].pending => Idle(Observer(l))
  /\ \A s \in Stoppers :
       stopper[s].pc \in {"idle", "call", "cancel", "failing"} => Idle(Stopper(s))

IInv ==
  /\ TypeOK /\ Slots /\ Phases /\ Renewals /\ Refused /\ Created /\ Requests /\ Revisions
  /\ StopOwned /\ FailureIsOwn

-----------------------------------------------------------------------------
(* The strengthening for the view.                                         *)

ViewTypeOK ==
  /\ stream \in Seq(ParticipantWorkUpdate)
  /\ view \in [Leases -> [kind : {"unknown", "active", "closed"}, revision : Nat, until : Nat,
                          stopState : StopStates]]
  /\ lost \subseteq Leases
  /\ crashed \in BOOLEAN

(* The updates that have been enqueued and have not reached the reducer. *)
Flight == Updates \cup {stream[i] : i \in DOMAIN stream}

(* Each is in one place. *)
Once ==
  /\ \A c, d \in Callers : c # d /\ outbox[c] # None => outbox[c] # outbox[d]
  /\ \A i, j \in DOMAIN stream : i # j => stream[i] # stream[j]
  /\ \A c \in Callers, i \in DOMAIN stream : outbox[c] # stream[i]

(* Revisions identify them, and none of them has been applied. *)
Distinct ==
  /\ \A u, v \in Flight : u.lease = v.lease /\ u.revision = v.revision => u = v
  /\ \A u \in Flight : u.revision # view[u.lease].revision

(* Nothing is newer than the lease. *)
Bounded ==
  \A l \in Leases :
    /\ Startable(l) => view[l] = Unknown /\ \A u \in Flight : u.lease # l
    /\ Active(l) => /\ view[l].revision <= activeByKey[l].revision
                    /\ \A u \in Flight : u.lease = l => u.revision <= activeByKey[l].revision

(* No update promises work for longer than TTL from now. *)
InTime ==
  /\ \A u \in Flight : u.state = "working" => u.expiresAt <= clock + TTL
  /\ \A l \in Leases : Active(l) => activeByKey[l].expiresAt <= clock + TTL

(* The newest update of an active lease is under way or has been applied. *)
Shown(l) ==
  LET u == updateFor(l, activeByKey[l], "working")
  IN  u \in Flight \/ activeByKey[l].expiresAt <= clock \/ view[l] = openLease(u)

(* u is older than the update that closed the lease, or would not open it. *)
Stale(u) ==
  u.state = "working" =>
    \/ u.expiresAt <= clock
    \/ /\ view[u.lease].kind = "closed" /\ u.revision < view[u.lease].revision
       /\ u.expiresAt <= view[u.lease].until

(* u is newer than all other updates of its lease. *)
Newest(u) ==
  /\ view[u.lease].revision < u.revision
  /\ \A v \in Flight : v.lease = u.lease => v.revision < u.revision \/ v = u

(* The last update of a lease that is gone is under way, or the lease is     *)
(* shown no more and no update can bring it back.                            *)
Gone(l) ==
  \/ \E u \in Flight : u.lease = l /\ u.state = "idle" /\ Newest(u)
  \/ view[l].kind # "active" /\ \A u \in Flight : u.lease = l => Stale(u)

Faithful == \A l \in Leases \ lost : IF Active(l) THEN Shown(l) ELSE Gone(l)

VInv ==
  /\ ViewTypeOK
  /\ clock \in Nat
  /\ IF crashed THEN lost = Leases
     ELSE IInv /\ Once /\ Distinct /\ Bounded /\ InTime /\ Faithful

-----------------------------------------------------------------------------
(* Facts about the model's operators.                                      *)

LEMMA Constants ==
  /\ TTL \in Nat /\ TombstoneTTL \in Nat /\ MaxLag \in Nat /\ MaxStall \in Nat /\ MaxDelay \in Nat
  /\ MaxStatus \in Nat /\ MaxClock \in Nat
  /\ MaxDelay + MaxLag <= TombstoneTTL /\ MaxStall + MaxLag < TTL + TombstoneTTL
  BY Zenon, WorkLeaseAssumption

(* Every goroutine of a turn, every stop call and the janitor may publish. *)
LEMMA CallersAre ==
  ASSUME NEW l \in Leases
  PROVE  {Turn(l), Renewer(l), Observer(l), Remote(l), Janitor(l)} \subseteq Callers
  BY DEF Callers, Turn, Renewer, Observer, Remote, Janitor

LEMMA StoppersCall ==
  ASSUME NEW s \in Stoppers
  PROVE  Stopper(s) \in Callers
  BY Zenon DEF Callers, Stopper

LEMMA NowIs ==
  ASSUME clock \in Nat, NEW t \in Now
  PROVE  t \in Nat /\ t <= clock /\ clock <= t + MaxLag
  BY Constants DEF Now

LEMMA UpdateIs ==
  ASSUME NEW l \in Leases, NEW lease \in ActiveLease, NEW state \in {"working", "idle"}
  PROVE  LET u == updateFor(l, lease, state)
         IN  /\ u \in ParticipantWorkUpdate /\ u # None
             /\ u.lease = l /\ u.revision = lease.revision /\ u.state = state
             /\ u.expiresAt = lease.expiresAt /\ u.stopState = lease.stopState
  BY NoneApart DEF updateFor, ActiveLease, ParticipantWorkUpdate

(* A lease with some of its fields replaced. *)
LEMMA LeaseWith ==
  ASSUME NEW a \in ActiveLease
  PROVE  /\ a.revision \in Nat /\ a.revision + 1 \in Nat
         /\ \A e \in Nat : [a EXCEPT !.revision = @ + 1, !.expiresAt = e] \in ActiveLease
         /\ \A n \in Nat : [a EXCEPT !.statusSequence = n, !.revision = @ + 1] \in ActiveLease
         /\ \A q \in Nat, w \in StopStates :
              [a EXCEPT !.revision = @ + 1, !.stopRequestedAt = q, !.stopState = w] \in ActiveLease
         /\ \A w \in StopStates : [a EXCEPT !.revision = @ + 1, !.stopState = w] \in ActiveLease
         /\ [a EXCEPT !.revision = @ + 1] \in ActiveLease
<1>1. a.revision + 1 \in Nat \ {0} /\ a.revision \in Nat
  BY DEF ActiveLease
<1>2. \A e \in Nat : [a EXCEPT !.revision = @ + 1, !.expiresAt = e] \in ActiveLease
  BY ZenonT(30), <1>1 DEF ActiveLease
<1>3. \A n \in Nat : [a EXCEPT !.statusSequence = n, !.revision = @ + 1] \in ActiveLease
  BY ZenonT(30), <1>1 DEF ActiveLease
<1>4. \A q \in Nat, w \in StopStates :
        [a EXCEPT !.revision = @ + 1, !.stopRequestedAt = q, !.stopState = w] \in ActiveLease
  BY ZenonT(30), <1>1 DEF ActiveLease
<1>5. \A w \in StopStates : [a EXCEPT !.revision = @ + 1, !.stopState = w] \in ActiveLease
  BY ZenonT(30), <1>1 DEF ActiveLease
<1>6. [a EXCEPT !.revision = @ + 1] \in ActiveLease
  BY Zenon, <1>1 DEF ActiveLease
<1> QED
  BY ZenonT(30), <1>1, <1>2, <1>3, <1>4, <1>5, <1>6

(* The same for the states of a turn and of a stop call. *)
LEMMA TurnWith ==
  ASSUME NEW r \in TurnState, NEW p \in TurnPhases
  PROVE  /\ [r EXCEPT !.pc = p] \in TurnState
         /\ [r EXCEPT !.pc = p, !.finished = TRUE] \in TurnState
         /\ [r EXCEPT !.pc = p, !.canceled = TRUE] \in TurnState
         /\ [r EXCEPT !.late = TRUE] \in TurnState
         /\ [r EXCEPT !.stopping = TRUE, !.canceled = TRUE] \in TurnState
         /\ \A x \in TurnResults : [r EXCEPT !.pc = p, !.result = x] \in TurnState
         /\ \A n \in Nat : [r EXCEPT !.ended = n, !.pc = p] \in TurnState
  BY Zenon DEF TurnState

LEMMA StopperWith ==
  ASSUME NEW r \in StopperState, NEW p \in StopperPhases
  PROVE  /\ [r EXCEPT !.pc = p] \in StopperState
         /\ \A x \in StopperCauses : [r EXCEPT !.pc = p, !.cause = x] \in StopperState
  BY ZenonT(30) DEF StopperState

(* The fields of well-typed callers. *)
LEMMA Fields ==
  ASSUME TypeOK
  PROVE  /\ clock \in Nat
         /\ \A l \in Leases : /\ turn[l] \in TurnState /\ turn[l].ended \in Nat \cup {-1}
                              /\ renewer[l].last \in Nat /\ observer[l].sequence \in Nat
                              /\ tombstones[l] \in Nat \cup {-1}
                              /\ Active(l) => activeByKey[l] \in ActiveLease
         /\ \A s \in Stoppers : /\ stopper[s] \in StopperState /\ stopper[s].at \in Nat
                                /\ stopper[s].cause \in {"none", "failed", "timed_out"}
         /\ \A c \in Callers : outbox[c] # None => outbox[c] \in ParticipantWorkUpdate
<1>1. clock \in Nat /\ \A l \in Leases : tombstones[l] \in Nat \cup {-1}
  BY Constants DEF TypeOK, Absent
<1>2. \A l \in Leases : turn[l] \in TurnState
  BY Zenon DEF TypeOK
<1>3. \A l \in Leases : turn[l].ended \in Nat \cup {-1}
  BY Zenon, <1>2 DEF TurnState, Absent
<1>4. \A l \in Leases : renewer[l].last \in Nat
  BY Zenon DEF TypeOK
<1>5. \A l \in Leases : observer[l].sequence \in Nat
  BY Zenon DEF TypeOK
<1>6. \A l \in Leases : Active(l) => activeByKey[l] \in ActiveLease
  BY Zenon DEF TypeOK, Active
<1>7. \A s \in Stoppers : stopper[s] \in StopperState
  BY Zenon DEF TypeOK
<1>8. \A s \in Stoppers : stopper[s].at \in Nat /\ stopper[s].cause \in {"none", "failed", "timed_out"}
  BY Zenon, <1>7 DEF StopperState, StopperCauses
<1>9. \A c \in Callers : outbox[c] # None => outbox[c] \in ParticipantWorkUpdate
  BY Zenon DEF TypeOK
<1> QED BY Zenon, <1>1, <1>2, <1>3, <1>4, <1>5, <1>6, <1>7, <1>8, <1>9

(* What StartOrRenew keeps: the lease renewed, or a new one. *)
Started(l, t) == IF Active(l) THEN Renewed(l, t) ELSE NewLease(t)

LEMMA StartedIs ==
  ASSUME TypeOK, NEW l \in Leases, NEW t \in Now
  PROVE  /\ Started(l, t) \in ActiveLease
         /\ Started(l, t).expiresAt = t + TTL
         /\ Active(l) => /\ Started(l, t).revision = activeByKey[l].revision + 1
                         /\ Started(l, t).stopRequestedAt = activeByKey[l].stopRequestedAt
                         /\ Started(l, t).stopState = activeByKey[l].stopState
         /\ ~Active(l) => /\ Started(l, t).revision = 1
                          /\ Started(l, t).stopRequestedAt = 0
                          /\ Started(l, t).stopState = "none"
<1>1. clock \in Nat
  BY Constants DEF TypeOK
<1>2. t \in Nat /\ t + TTL \in Nat
  BY <1>1, NowIs, Constants
<1>3. CASE Active(l)
  <2>1. activeByKey[l] \in ActiveLease
    BY Zenon, <1>3 DEF TypeOK, Active
  <2> QED BY Zenon, <1>2, <1>3, <2>1, LeaseWith DEF Started, Renewed, ActiveLease
<1>4. CASE ~Active(l)
  BY <1>2, <1>4 DEF Started, NewLease, ActiveLease, StopStates
<1> QED BY Zenon, <1>3, <1>4

LEMMA StartOrRenewIs ==
  ASSUME NEW l \in Leases, NEW t, NEW c, StartOrRenew(c, l, t)
  PROVE  /\ ~Closed(l) /\ Keep(l, Started(l, t)) /\ Enqueue(c, l, Started(l, t), "working")
         /\ activeBySubject' = activeBySubject \cup {l} /\ UNCHANGED tombstones
  BY Zenon DEF StartOrRenew, Started, Refuses

-----------------------------------------------------------------------------
(* What a step does to the leases and to the updates: nothing, one lease     *)
(* moves on to its next revision (or to its first) with the update that says *)
(* so, or leases expire.                                                     *)
Move(c, l, lease, state) ==
  /\ Idle(c) /\ UNCHANGED clock
  /\ Keep(l, IF state = "working" THEN lease ELSE None)
  /\ Enqueue(c, l, lease, state)
  /\ IF Active(l)
     THEN /\ lease.revision = activeByKey[l].revision + 1
          /\ lease.expiresAt <= clock + TTL \/ lease.expiresAt = activeByKey[l].expiresAt
     ELSE /\ Startable(l) /\ state = "working"
          /\ lease.revision = 1 /\ lease.expiresAt <= clock + TTL

Moves ==
  \/ UNCHANGED <<activeByKey, outbox>>
  \/ \E c \in Callers, l \in Leases, lease \in ActiveLease, state \in {"working", "idle"} :
       Move(c, l, lease, state)
  \/ \E t \in Now : Sweep(t)

LEMMA StartMoves ==
  ASSUME TypeOK, NEW c \in Callers, NEW l \in Leases, NEW t \in Now,
         Idle(c), UNCHANGED clock, StartOrRenew(c, l, t), Active(l) \/ Startable(l)
  PROVE  Moves
<1>1. t + TTL <= clock + TTL
  BY NowIs, Constants DEF TypeOK
<1> QED
  BY Zenon, <1>1, StartedIs, StartOrRenewIs DEF Moves, Move

LEMMA StatusMoves ==
  ASSUME TypeOK, NEW c \in Callers, NEW l \in Leases, NEW n \in Nat,
         Idle(c), UNCHANGED clock, UpdateStatus(c, l, n)
  PROVE  Moves
<1> DEFINE lease == [activeByKey[l] EXCEPT !.statusSequence = n, !.revision = @ + 1]
<1>1. CASE Reportable(l, n)
  <2>1. Active(l) /\ activeByKey[l] \in ActiveLease
    BY Zenon, <1>1 DEF Reportable, Active, TypeOK
  <2>2. /\ lease \in ActiveLease /\ lease.revision = activeByKey[l].revision + 1
        /\ lease.expiresAt = activeByKey[l].expiresAt
    BY Zenon, <2>1, LeaseWith DEF ActiveLease
  <2> QED
    BY ZenonT(30), <1>1, <2>1, <2>2 DEF Moves, Move, UpdateStatus
<1> QED
  BY Zenon, <1>1 DEF Moves, UpdateStatus

LEMMA StopMoves ==
  ASSUME TypeOK, NEW s \in Stoppers, NEW l \in Leases, NEW w \in StopStates, NEW q \in Nat,
         Idle(Stopper(s)), UNCHANGED clock, Active(l),
         NEW lease, lease \in {[activeByKey[l] EXCEPT !.revision = @ + 1, !.stopRequestedAt = q, !.stopState = w],
                    [activeByKey[l] EXCEPT !.revision = @ + 1, !.stopState = w]},
         Keep(l, lease), Enqueue(Stopper(s), l, lease, "working")
  PROVE  Moves
<1>1. activeByKey[l] \in ActiveLease
  BY Zenon DEF Active, TypeOK
<1>2. /\ lease \in ActiveLease /\ lease.revision = activeByKey[l].revision + 1
      /\ lease.expiresAt = activeByKey[l].expiresAt
  BY ZenonT(30), <1>1, LeaseWith DEF ActiveLease
<1> QED
  BY Zenon, <1>2, StoppersCall DEF Moves, Move

(* Every step but a publication moves the leases in one of these ways. *)
LEMMA StepMoves ==
  ASSUME TypeOK, Slots, Phases, Refused, Requests, RegistryStep \/ UNCHANGED vars
  PROVE  Moves
<1>1. \A l \in Leases, t \in Now : StartWork(l, t) => Moves
  BY Zenon, StartMoves, CallersAre DEF StartWork, Slots, Phases, Startable, Moves
<1>2. \A l \in Leases : InitialStatus(l) => Moves
  BY Zenon, StatusMoves, CallersAre DEF InitialStatus
<1>3. \A l \in Leases, t \in Now : Renew(l, t) => Moves
  BY Zenon, StartMoves, CallersAre DEF Renew, Renewing, Refuses, Startable, Moves
<1>4. \A l \in Leases : ReportStatus(l) => Moves
  BY Zenon, Fields, StatusMoves, CallersAre DEF ReportStatus, Slots
<1>5. \A l \in Leases, t \in Now : LatePut(l, t) => Moves
  BY Fields, Constants DEF LatePut, Phases, Refused, Refuses, Moves, Absent
<1>6. \A l \in Leases, t \in Now : Finish(l, t) => Moves
  <2>1. SUFFICES ASSUME NEW l \in Leases, NEW t \in Now, Finish(l, t), Active(l), FinishActive(Turn(l), l, t, Outcome(l))
                 PROVE  Moves
    BY ZenonT(30) DEF Finish, FinishGone, Moves
  <2> DEFINE lease == [activeByKey[l] EXCEPT !.revision = @ + 1, !.stopState = FinalState(l, Outcome(l))]
  <2>2. activeByKey[l] \in ActiveLease /\ FinalState(l, Outcome(l)) \in StopStates
    BY Zenon, <2>1 DEF TypeOK, Active, FinalState, StopStates
  <2>3. /\ lease \in ActiveLease /\ lease.revision = activeByKey[l].revision + 1
        /\ lease.expiresAt = activeByKey[l].expiresAt
    BY Zenon, <2>2, LeaseWith DEF ActiveLease
  <2>4. Idle(Turn(l)) /\ UNCHANGED clock /\ Turn(l) \in Callers
    BY Zenon, <2>1, CallersAre DEF Finish, Slots
  <2>5. Keep(l, None) /\ Enqueue(Turn(l), l, lease, "idle")
    BY SMTT(30), <2>1 DEF FinishActive
  <2> QED BY ZenonT(30), <2>1, <2>3, <2>4, <2>5 DEF Moves, Move
<1>7. \A s \in Stoppers, l \in Leases : RequestStop(s, l) => Moves
  <2>1. \A l \in Leases : Active(l) => activeByKey[l].revision + 1 \in Nat /\ activeByKey[l].revision \in Nat
    BY ZenonT(30), LeaseWith DEF TypeOK, Active
  <2>2. "requested" \in StopStates
    BY SMTT(30) DEF StopStates
  <2> QED BY ZenonT(30), <2>1, <2>2, StopMoves DEF RequestStop, Requested, Slots, Moves
<1>8. \A s \in Stoppers : recordTurnControlFailure(s) => Moves
  <2>1. \A s \in Stoppers : stopper[s].cause \in StopStates
    BY Zenon, Fields DEF StopStates
  <2> QED BY ZenonT(30), <2>1, StopMoves DEF recordTurnControlFailure, Slots, Requests, OwnRequest, Moves
<1> QED
  BY ZenonT(30), <1>1, <1>2, <1>3, <1>4, <1>5, <1>6, <1>7, <1>8
  DEF RegistryStep, TurnStep, RenewerStep, ObserverStep, StopperStep, Moves, vars,
      RegisterTurnController, RenewerExits, ObserveEvent, RunReturns, FinishTurn, Unregister, RecordStopped,
      Dispatch, StopTurn, CancelReturns, StopTimesOut, Tick

-----------------------------------------------------------------------------
(* The registry's invariant is inductive.                                  *)

(* Which steps write which variables. *)
LEMMA Writers ==
  ASSUME [Next]_vars
  PROVE  /\ UNCHANGED clock \/ Tick
         /\ UNCHANGED tombstones \/ (\E l \in Leases, t \in Now : Finish(l, t)) \/ (\E t \in Now : Sweep(t))
         /\ \/ UNCHANGED activeBySubject
            \/ \E l \in Leases, t \in Now : StartWork(l, t) \/ Renew(l, t) \/ Finish(l, t) \/ LatePut(l, t)
            \/ \E t \in Now : Sweep(t)
         /\ UNCHANGED controllers \/ \E l \in Leases : RegisterTurnController(l) \/ Unregister(l)
         /\ \/ UNCHANGED turn
            \/ \E l \in Leases : \/ RegisterTurnController(l) \/ InitialStatus(l) \/ RunReturns(l)
                                 \/ FinishTurn(l) \/ Unregister(l) \/ RecordStopped(l)
            \/ \E l \in Leases, t \in Now : StartWork(l, t) \/ Finish(l, t) \/ LatePut(l, t)
            \/ \E s \in Stoppers : StopTurn(s)
         /\ \/ UNCHANGED renewer
            \/ \E l \in Leases : InitialStatus(l) \/ RenewerExits(l)
            \/ \E l \in Leases, t \in Now : StartWork(l, t) \/ Renew(l, t)
         /\ UNCHANGED observer \/ \E l \in Leases : ObserveEvent(l) \/ ReportStatus(l)
         /\ UNCHANGED stopper \/ \E s \in Stoppers : StopperStep(s)
         /\ UNCHANGED recorded \/ \E l \in Leases : RecordStopped(l)
<1>1. UNCHANGED clock \/ Tick
  BY ZenonT(30) DEF Next, RegistryStep, TurnStep, RenewerStep, ObserverStep, StopperStep, vars,
     RegisterTurnController, StartWork, InitialStatus, Renew, RenewerExits, ObserveEvent,
     ReportStatus, RunReturns, FinishTurn, Unregister, Finish, RecordStopped, LatePut, RequestStop,
     Dispatch, StopTurn, CancelReturns, StopTimesOut, recordTurnControlFailure, Sweep, Publish
<1>2. UNCHANGED tombstones \/ (\E l \in Leases, t \in Now : Finish(l, t)) \/ (\E t \in Now : Sweep(t))
  BY ZenonT(30) DEF Next, RegistryStep, TurnStep, RenewerStep, ObserverStep, StopperStep, vars,
     RegisterTurnController, StartWork, InitialStatus, Renew, RenewerExits, ObserveEvent,
     ReportStatus, RunReturns, FinishTurn, Unregister, RecordStopped, LatePut, RequestStop,
     Dispatch, StopTurn, CancelReturns, StopTimesOut, recordTurnControlFailure, Publish, Tick,
     StartOrRenew
<1>3. \/ UNCHANGED activeBySubject
      \/ \E l \in Leases, t \in Now : StartWork(l, t) \/ Renew(l, t) \/ Finish(l, t) \/ LatePut(l, t)
      \/ \E t \in Now : Sweep(t)
  BY ZenonT(30) DEF Next, RegistryStep, TurnStep, RenewerStep, ObserverStep, StopperStep, vars,
     RegisterTurnController, InitialStatus, RenewerExits, ObserveEvent, ReportStatus, RunReturns,
     FinishTurn, Unregister, RecordStopped, RequestStop, Dispatch, StopTurn, CancelReturns,
     StopTimesOut, recordTurnControlFailure, Publish, Tick
<1>4. UNCHANGED controllers \/ \E l \in Leases : RegisterTurnController(l) \/ Unregister(l)
  BY ZenonT(30) DEF Next, RegistryStep, TurnStep, RenewerStep, ObserverStep, StopperStep, vars, StartWork,
     InitialStatus, Renew, RenewerExits, ObserveEvent, ReportStatus, RunReturns, FinishTurn, Finish,
     RecordStopped, LatePut, RequestStop, Dispatch, StopTurn, CancelReturns, StopTimesOut,
     recordTurnControlFailure, Sweep, Publish, Tick
<1>5. \/ UNCHANGED turn
      \/ \E l \in Leases : \/ RegisterTurnController(l) \/ InitialStatus(l) \/ RunReturns(l)
                           \/ FinishTurn(l) \/ Unregister(l) \/ RecordStopped(l)
      \/ \E l \in Leases, t \in Now : StartWork(l, t) \/ Finish(l, t) \/ LatePut(l, t)
      \/ \E s \in Stoppers : StopTurn(s)
  BY ZenonT(30) DEF Next, RegistryStep, TurnStep, RenewerStep, ObserverStep, StopperStep, vars, Renew,
     RenewerExits, ObserveEvent, ReportStatus, RequestStop, Dispatch, CancelReturns, StopTimesOut,
     recordTurnControlFailure, Sweep, Publish, Tick
<1>6. \/ UNCHANGED renewer
      \/ \E l \in Leases : InitialStatus(l) \/ RenewerExits(l)
      \/ \E l \in Leases, t \in Now : StartWork(l, t) \/ Renew(l, t)
  BY ZenonT(30) DEF Next, RegistryStep, TurnStep, RenewerStep, ObserverStep, StopperStep, vars,
     RegisterTurnController, ObserveEvent, ReportStatus, RunReturns, FinishTurn, Unregister, Finish,
     RecordStopped, LatePut, RequestStop, Dispatch, StopTurn, CancelReturns, StopTimesOut,
     recordTurnControlFailure, Sweep, Publish, Tick
<1>7. UNCHANGED observer \/ \E l \in Leases : ObserveEvent(l) \/ ReportStatus(l)
  BY ZenonT(30) DEF Next, RegistryStep, TurnStep, RenewerStep, ObserverStep, StopperStep, vars,
     RegisterTurnController, StartWork, InitialStatus, Renew, RenewerExits, RunReturns, FinishTurn,
     Unregister, Finish, RecordStopped, LatePut, RequestStop, Dispatch, StopTurn, CancelReturns,
     StopTimesOut, recordTurnControlFailure, Sweep, Publish, Tick
<1>8. UNCHANGED stopper \/ \E s \in Stoppers : StopperStep(s)
  BY ZenonT(30) DEF Next, RegistryStep, TurnStep, RenewerStep, ObserverStep, vars, RegisterTurnController,
     StartWork, InitialStatus, Renew, RenewerExits, ObserveEvent, ReportStatus, RunReturns,
     FinishTurn, Unregister, Finish, RecordStopped, LatePut, Sweep, Publish, Tick
<1>9. UNCHANGED recorded \/ \E l \in Leases : RecordStopped(l)
  BY ZenonT(30) DEF Next, RegistryStep, TurnStep, RenewerStep, ObserverStep, StopperStep, vars,
     RegisterTurnController, StartWork, InitialStatus, Renew, RenewerExits, ObserveEvent,
     ReportStatus, RunReturns, FinishTurn, Unregister, Finish, LatePut, RequestStop, Dispatch,
     StopTurn, CancelReturns, StopTimesOut, recordTurnControlFailure, Sweep, Publish, Tick
<1> QED
  BY SMTT(30), <1>1, <1>2, <1>3, <1>4, <1>5, <1>6, <1>7, <1>8, <1>9

(* Dispatch ends in one of four ways; it needs no controller to end for good. *)
Answers == {<<"call", "none">>} \cup BusAnswers

LEMMA DispatchAnswers ==
  ASSUME NEW s \in Stoppers, Dispatch(s)
  PROVE  \E answer \in Answers :
           /\ stopper' = [stopper EXCEPT ![s] = [@ EXCEPT !.pc = answer[1], !.cause = answer[2]]]
           /\ answer[1] = "done" => controllers = {}
<1>1. PICK answer \in Answers :
        /\ stopper' = [stopper EXCEPT ![s] = [@ EXCEPT !.pc = answer[1], !.cause = answer[2]]]
        /\ controllers # {} => answer \in {<<"call", "none">>, <<"failing", "failed">>}
  BY ZenonT(30) DEF Dispatch, Answers, BusAnswers
<1>2. controllers # {} => answer[1] # "done"
  BY <1>1
<1> QED BY Zenon, <1>1, <1>2

LEMMA TypePreserved ==
  ASSUME TypeOK, Requests, Moves \/ \E c \in Callers : Publish(c), [Next]_vars
  PROVE  TypeOK'
<1> DEFINE Renewers == [Leases -> [pc : {"off", "waiting", "done"}, last : Nat]]
<1> DEFINE Observers == [Leases -> [sequence : Nat, pending : BOOLEAN]]
<1> DEFINE Turns == [Leases -> TurnState]
<1> DEFINE Stops == [Stoppers -> StopperState]
<1> DEFINE Observed == [sequence : Nat, pending : BOOLEAN]
<1> HIDE DEF Renewers, Observers, Observed, Turns, Stops
<1>1. clock' \in 0..MaxClock /\ clock \in Nat
  BY Writers, Constants DEF TypeOK, Tick
<1> DEFINE RegistryTyped == /\ activeByKey' \in [Leases -> ActiveLease \cup {None}]
                            /\ outbox' \in [Callers -> ParticipantWorkUpdate \cup {None}]
<1>2. RegistryTyped
  <2>1. CASE UNCHANGED <<activeByKey, outbox>>
    BY Zenon, <2>1 DEF TypeOK
  <2>2. ASSUME NEW c \in Callers, NEW l \in Leases, NEW lease \in ActiveLease,
               NEW state \in {"working", "idle"}, Move(c, l, lease, state)
        PROVE  RegistryTyped
    BY Zenon, <2>2, UpdateIs DEF TypeOK, Move, Keep, Enqueue
  <2>3. ASSUME NEW t \in Now, Sweep(t)
        PROVE  RegistryTyped
    <3>1. \A l \in Expired(t) : ExpiredUpdate(l) \in ParticipantWorkUpdate
      <4>1. \A l \in Expired(t) : l \in Leases /\ activeByKey[l] \in ActiveLease
        BY Zenon DEF Expired, Active, TypeOK
      <4> QED BY ZenonT(30), <4>1, LeaseWith, UpdateIs DEF ExpiredUpdate
    <3> QED BY SMTT(30), <2>3, <3>1 DEF Sweep, TypeOK
  <2>4. ASSUME NEW c \in Callers, Publish(c)
        PROVE  RegistryTyped
    BY Zenon, <2>4 DEF Publish, TypeOK
  <2> QED BY Zenon, <2>1, <2>2, <2>3, <2>4 DEF Moves
<1>3. tombstones' \in [Leases -> Nat \cup {Absent}]
  <2>1. \A t \in Now : t + TombstoneTTL \in Nat
    BY <1>1, NowIs, Constants
  <2>2. \A l \in Leases, t \in Now : Finish(l, t) => tombstones' \in [Leases -> Nat \cup {Absent}]
    BY SMTT(30), <2>1 DEF TypeOK, Finish, FinishActive, FinishGone, FinishTombstone, TombstoneUntil
  <2>3. \A t \in Now : Sweep(t) => tombstones' \in [Leases -> Nat \cup {Absent}]
    BY <2>1 DEF TypeOK, Sweep, TombstoneUntil
  <2> QED BY Zenon, <2>2, <2>3, Writers DEF TypeOK
<1>4. activeBySubject' \subseteq Leases
  <2>1. \A l \in Leases, t \in Now : StartWork(l, t) \/ Renew(l, t) \/ LatePut(l, t) => activeBySubject' \subseteq Leases
    BY DEF TypeOK, StartWork, Renew, LatePut, StartOrRenew
  <2>2. \A l \in Leases, t \in Now : Finish(l, t) => activeBySubject' \subseteq Leases
    BY ZenonT(30) DEF TypeOK, Finish, FinishActive, FinishGone, WithoutSubjects
  <2>3. \A t \in Now : Sweep(t) => activeBySubject' \subseteq Leases
    BY Zenon DEF TypeOK, Sweep, WithoutSubjects
  <2> QED BY Zenon, <2>1, <2>2, <2>3, Writers DEF TypeOK
<1>5. controllers' \subseteq Leases /\ recorded' \subseteq Leases
  <2>1. controllers' \subseteq Leases
    BY ZenonT(30), Writers DEF TypeOK, RegisterTurnController, Unregister
  <2>2. recorded' \subseteq Leases
    BY ZenonT(30), Writers DEF TypeOK, RecordStopped
  <2> QED BY SMTT(30), <2>1, <2>2
<1>6. renewer' \in Renewers
  <2>0. renewer \in Renewers
    BY Zenon DEF TypeOK, Renewers
  <2>1. \A l \in Leases : /\ [renewer EXCEPT ![l].pc = "waiting"] \in Renewers
                          /\ [renewer EXCEPT ![l].pc = "done"] \in Renewers
                          /\ [renewer EXCEPT ![l].last = clock] \in Renewers
    BY Constants DEF TypeOK, Renewers
  <2>2. \A l \in Leases : InitialStatus(l) \/ RenewerExits(l)
          => renewer' \in Renewers
    BY Zenon, <2>1 DEF InitialStatus, RenewerExits
  <2>3. \A l \in Leases, t \in Now : StartWork(l, t) \/ Renew(l, t)
          => renewer' \in Renewers
    BY Zenon, <2>1 DEF StartWork, Renew
  <2> QED BY Zenon, <2>2, <2>3, <2>0, Writers
<1>7. observer' \in Observers
  <2>0. observer \in Observers
    BY Zenon DEF TypeOK, Observers
  <2>1. \A l \in Leases : [observer EXCEPT ![l].pending = FALSE] \in Observers
    BY Zenon DEF TypeOK, Observers
  <2>2. \A l \in Leases : observer[l].sequence + 1 \in Nat
    BY DEF TypeOK
  <2>3. \A l \in Leases : [sequence |-> observer[l].sequence + 1, pending |-> TRUE] \in Observed
    BY Zenon, <2>2 DEF Observed
  <2>4. \A l \in Leases, r \in Observed : [observer EXCEPT ![l] = r] \in Observers
    BY Zenon DEF TypeOK, Observers, Observed
  <2>5. \A l \in Leases : ObserveEvent(l) => observer' \in Observers
    BY Zenon, <2>3, <2>4 DEF ObserveEvent
  <2>6. \A l \in Leases : ReportStatus(l) => observer' \in Observers
    BY Zenon, <2>1 DEF ReportStatus
  <2> QED BY Zenon, <2>5, <2>6, <2>0, Writers
<1>8. turn' \in Turns
  <2>0. turn \in Turns
    BY Zenon DEF TypeOK, Turns
  <2>1. \A l \in Leases, p \in TurnPhases :
          /\ [turn[l] EXCEPT !.pc = p] \in TurnState
          /\ [turn[l] EXCEPT !.pc = p, !.finished = TRUE] \in TurnState
          /\ [turn[l] EXCEPT !.pc = p, !.canceled = TRUE] \in TurnState
          /\ [turn[l] EXCEPT !.late = TRUE] \in TurnState
          /\ [turn[l] EXCEPT !.stopping = TRUE, !.canceled = TRUE] \in TurnState
          /\ \A x \in TurnResults : [turn[l] EXCEPT !.pc = p, !.result = x] \in TurnState
          /\ \A n \in Nat : [turn[l] EXCEPT !.ended = n, !.pc = p] \in TurnState
    <3>1. \A l \in Leases : turn[l] \in TurnState
      BY Zenon DEF TypeOK
    <3> QED BY Zenon, TurnWith, <3>1
  <2>2. /\ "start" \in TurnPhases /\ "status" \in TurnPhases /\ "running" \in TurnPhases /\ "ended" \in TurnPhases
        /\ "finished" \in TurnPhases /\ "joining" \in TurnPhases /\ "recording" \in TurnPhases /\ "done" \in TurnPhases
        /\ "completed" \in TurnResults /\ "canceled" \in TurnResults
    BY Zenon DEF TurnPhases, TurnResults
  <2>3. \A l \in Leases :
          /\ [turn EXCEPT ![l].pc = "start"] \in Turns
          /\ [turn EXCEPT ![l].pc = "status"] \in Turns
          /\ [turn EXCEPT ![l].pc = "running"] \in Turns
          /\ [turn EXCEPT ![l].pc = "done"] \in Turns
          /\ [turn EXCEPT ![l].late = TRUE] \in Turns
    BY Zenon, <2>1, <2>2 DEF TypeOK, Turns
  <2>4. \A l \in Leases :
          RegisterTurnController(l) \/ InitialStatus(l) \/ RecordStopped(l) => turn' \in Turns
    BY Zenon, <2>3 DEF RegisterTurnController, InitialStatus, RecordStopped
  <2>5. \A l \in Leases, t \in Now : StartWork(l, t) \/ LatePut(l, t) => turn' \in Turns
    BY Zenon, <2>3 DEF StartWork, LatePut
  <2>6. \A l \in Leases : FinishTurn(l) \/ Unregister(l) => turn' \in Turns
    <3>1. \A l \in Leases :
          /\ [turn EXCEPT ![l] = [@ EXCEPT !.pc = "finished", !.finished = TRUE]] \in Turns
          /\ [turn EXCEPT ![l] = [@ EXCEPT !.pc = "joining", !.canceled = TRUE]] \in Turns
      BY Zenon, <2>1, <2>2 DEF TypeOK, Turns
    <3> QED BY Zenon, <3>1 DEF FinishTurn, Unregister
  <2>7. \A l \in Leases : RunReturns(l) => turn' \in Turns
    <3>1. \A l \in Leases :
          /\ [turn EXCEPT ![l] = [@ EXCEPT !.pc = "ended", !.result = "completed"]] \in Turns
          /\ [turn EXCEPT ![l] = [@ EXCEPT !.pc = "ended", !.result = "canceled"]] \in Turns
      BY Zenon, <2>1, <2>2 DEF TypeOK, Turns
    <3> QED BY Zenon, <3>1 DEF RunReturns
  <2>8. \A l \in Leases, t \in Now : Finish(l, t) => turn' \in Turns
    <3>1. clock \in Nat
      BY Zenon, <1>1, Constants DEF TypeOK
    <3>2. \A l \in Leases : 
          /\ [turn EXCEPT ![l] = [@ EXCEPT !.ended = clock, !.pc = "recording"]] \in Turns
          /\ [turn EXCEPT ![l] = [@ EXCEPT !.ended = clock, !.pc = "done"]] \in Turns
      BY Zenon, <2>1, <2>2, <3>1 DEF TypeOK, Turns
    <3>3. \A l \in Leases, t \in Now : Finish(l, t) =>
            \/ turn' = [turn EXCEPT ![l] = [@ EXCEPT !.ended = clock, !.pc = "recording"]]
            \/ turn' = [turn EXCEPT ![l] = [@ EXCEPT !.ended = clock, !.pc = "done"]]
      BY Zenon DEF Finish
    <3> QED BY Zenon, <3>2, <3>3
  <2>9. \A s \in Stoppers : StopTurn(s) => turn' \in Turns
    <3>1. \A s \in Stoppers : StopTurn(s) => stopper[s].lease \in Leases
      BY Zenon DEF StopTurn, Requests
    <3>2. \A l \in Leases : [turn EXCEPT ![l] = [@ EXCEPT !.stopping = TRUE, !.canceled = TRUE]] \in Turns
      BY Zenon, <2>1, <2>2 DEF TypeOK, Turns
    <3> QED BY ZenonT(30), <3>1, <3>2, <2>0 DEF StopTurn
  <2>10. \/ UNCHANGED turn
         \/ \E l \in Leases : \/ RegisterTurnController(l) \/ InitialStatus(l) \/ RunReturns(l)
                              \/ FinishTurn(l) \/ Unregister(l) \/ RecordStopped(l)
         \/ \E l \in Leases, t \in Now : StartWork(l, t) \/ Finish(l, t) \/ LatePut(l, t)
         \/ \E s \in Stoppers : StopTurn(s)
    BY Zenon, Writers
  <2> QED
    BY Zenon, <2>4, <2>5, <2>6, <2>7, <2>8, <2>9, <2>10, <2>0
<1>9. stopper' \in Stops
  <2>0. stopper \in Stops
    BY Zenon DEF TypeOK, Stops
  <2>1. \A s \in Stoppers, p \in StopperPhases :
          /\ [stopper[s] EXCEPT !.pc = p] \in StopperState
          /\ \A x \in StopperCauses : [stopper[s] EXCEPT !.pc = p, !.cause = x] \in StopperState
    <3>1. \A s \in Stoppers : stopper[s] \in StopperState
      BY Zenon DEF TypeOK
    <3> QED BY Zenon, StopperWith, <3>1
  <2>2. /\ "dispatch" \in StopperPhases /\ "call" \in StopperPhases /\ "cancel" \in StopperPhases
        /\ "failing" \in StopperPhases /\ "done" \in StopperPhases
        /\ "none" \in StopperCauses /\ "failed" \in StopperCauses /\ "timed_out" \in StopperCauses
    BY Zenon DEF StopperPhases, StopperCauses
  <2>3. \A s \in Stoppers :
          /\ [stopper EXCEPT ![s].pc = "cancel"] \in Stops
          /\ [stopper EXCEPT ![s].pc = "done"] \in Stops
          /\ [stopper EXCEPT ![s] = [@ EXCEPT !.pc = "failing", !.cause = "failed"]] \in Stops
          /\ [stopper EXCEPT ![s] = [@ EXCEPT !.pc = "failing", !.cause = "timed_out"]] \in Stops
    BY Zenon, <2>1, <2>2 DEF TypeOK, Stops
  <2>4. \A s \in Stoppers, l \in Leases : RequestStop(s, l) => stopper' \in Stops
    <3>1. \A s \in Stoppers, l \in Leases : RequestStop(s, l) => activeByKey'[l] # None
      <4>1. \A l \in Leases : Active(l) => Requested(activeByKey[l]) \in ActiveLease
        BY ZenonT(30), LeaseWith DEF TypeOK, Active, Requested, StopStates
      <4> QED BY SMTT(30), <4>1, NoneApart DEF RequestStop, Active, Keep, TypeOK
    <3>2. \A s \in Stoppers, l \in Leases : RequestStop(s, l) => activeByKey'[l].stopRequestedAt \in Nat
      BY Zenon, <3>1, <1>2 DEF ActiveLease
    <3>3. \A l \in Leases, n \in Nat : [pc |-> "dispatch", lease |-> l, cause |-> "none", at |-> n] \in StopperState
      BY Zenon, <2>2 DEF StopperState
    <3>4. \A s \in Stoppers, r \in StopperState : [stopper EXCEPT ![s] = r] \in Stops
      BY Zenon DEF TypeOK, Stops
    <3>5. SUFFICES ASSUME NEW s \in Stoppers, NEW l \in Leases, RequestStop(s, l) PROVE stopper' \in Stops
      BY Zenon
    <3>6. [pc |-> "dispatch", lease |-> l, cause |-> "none", at |-> activeByKey'[l].stopRequestedAt] \in StopperState
      BY Zenon, <3>2, <3>3, <3>5
    <3> QED BY Zenon, <3>4, <3>5, <3>6 DEF RequestStop
  <2>5. \A s \in Stoppers : Dispatch(s) => stopper' \in Stops
    <3>1. \A s \in Stoppers, p \in StopperPhases, e \in StopperCauses :
            [stopper[s] EXCEPT !.pc = p, !.cause = e] \in StopperState
      BY Zenon, <2>1
    <3>2. \A s \in Stoppers, r \in StopperState : [stopper EXCEPT ![s] = r] \in Stops
      BY Zenon DEF TypeOK, Stops
    <3>3. SUFFICES ASSUME NEW s \in Stoppers, NEW answer \in Answers,
                          stopper' = [stopper EXCEPT ![s] = [@ EXCEPT !.pc = answer[1], !.cause = answer[2]]]
                   PROVE  stopper' \in Stops
      BY Zenon, DispatchAnswers
    <3>4. answer[1] \in StopperPhases /\ answer[2] \in StopperCauses
      BY DEF Answers, BusAnswers, StopperPhases, StopperCauses
    <3> QED BY Zenon, <3>1, <3>2, <3>3, <3>4
  <2>6. \A s \in Stoppers : StopTurn(s) \/ CancelReturns(s) => stopper' \in Stops
    BY Zenon, <2>3 DEF StopTurn, CancelReturns
  <2>7. \A s \in Stoppers : StopTimesOut(s) \/ recordTurnControlFailure(s) => stopper' \in Stops
    BY Zenon, <2>3 DEF StopTimesOut, recordTurnControlFailure
  <2> QED BY Zenon, <2>4, <2>5, <2>6, <2>7, <2>0, Writers DEF StopperStep
<1> QED
  BY Zenon, <1>1, <1>2, <1>3, <1>4, <1>5, <1>6, <1>7, <1>8, <1>9 DEF TypeOK, Renewers, Observers, Turns, Stops

(* What a step does to the turn of a lease. *)
Held(l) == turn'[l].pc = turn[l].pc /\ turn'[l].finished = turn[l].finished /\ turn'[l].ended = turn[l].ended

TurnEffect(l) ==
  \/ turn'[l] = turn[l]
  \/ Held(l) /\ turn'[l].stopping = turn[l].stopping
  \/ Held(l) /\ \E s \in Stoppers : StopTurn(s) /\ stopper[s].lease = l /\ ~turn[l].finished
  \/ /\ turn'[l].stopping = turn[l].stopping /\ turn'[l].finished = turn[l].finished /\ turn'[l].ended = turn[l].ended
     /\ \/ RegisterTurnController(l) /\ turn'[l].pc = "start"
        \/ (\E t \in Now : StartWork(l, t)) /\ turn'[l].pc = "status"
        \/ InitialStatus(l) /\ turn'[l].pc = "running"
        \/ RunReturns(l) /\ turn'[l].pc = "ended"
        \/ Unregister(l) /\ turn'[l].pc = "joining"
        \/ RecordStopped(l) /\ turn'[l].pc = "done"
  \/ /\ FinishTurn(l) /\ turn'[l].pc = "finished" /\ turn'[l].finished
     /\ turn'[l].ended = turn[l].ended /\ turn'[l].stopping = turn[l].stopping
  \/ /\ \E t \in Now : Finish(l, t)
     /\ turn'[l].pc \in {"recording", "done"} /\ turn'[l].ended = clock
     /\ turn'[l].finished = turn[l].finished /\ turn'[l].stopping = turn[l].stopping

(* Where each action of the turn takes it, and that it touches no other. *)
Moved(k, p) ==
  /\ \A l \in Leases \ {k} : turn'[l] = turn[l]
  /\ turn'[k].pc = p /\ turn'[k].finished = turn[k].finished
  /\ turn'[k].ended = turn[k].ended /\ turn'[k].stopping = turn[k].stopping

LEMMA TurnActions ==
  ASSUME TypeOK, NEW k \in Leases
  PROVE  /\ RegisterTurnController(k) => Moved(k, "start")
         /\ \A t \in Now : StartWork(k, t) => Moved(k, "status")
         /\ InitialStatus(k) => Moved(k, "running")
         /\ RunReturns(k) => Moved(k, "ended")
         /\ Unregister(k) => Moved(k, "joining")
         /\ RecordStopped(k) => Moved(k, "done")
         /\ FinishTurn(k) =>
              /\ \A l \in Leases \ {k} : turn'[l] = turn[l]
              /\ turn'[k].pc = "finished" /\ turn'[k].finished
              /\ turn'[k].ended = turn[k].ended /\ turn'[k].stopping = turn[k].stopping
         /\ \A t \in Now : Finish(k, t) =>
              /\ \A l \in Leases \ {k} : turn'[l] = turn[l]
              /\ turn'[k].pc \in {"recording", "done"} /\ turn'[k].ended = clock
              /\ turn'[k].finished = turn[k].finished /\ turn'[k].stopping = turn[k].stopping
<1>1. turn[k] \in TurnState /\ DOMAIN turn = Leases
  BY Zenon, Fields DEF TypeOK
<1>2. RegisterTurnController(k) => Moved(k, "start")
  BY ZenonT(30), <1>1 DEF RegisterTurnController, TurnState, Moved
<1>3. \A t \in Now : StartWork(k, t) => Moved(k, "status")
  BY <1>1 DEF StartWork, TurnState, Moved
<1>4. InitialStatus(k) => Moved(k, "running")
  BY <1>1 DEF InitialStatus, TurnState, Moved
<1>5. RunReturns(k) => Moved(k, "ended")
  BY Zenon, <1>1 DEF RunReturns, TurnState, Moved
<1>6. Unregister(k) => Moved(k, "joining")
  BY <1>1 DEF Unregister, TurnState, Moved
<1>7. RecordStopped(k) => Moved(k, "done")
  BY ZenonT(30), <1>1 DEF RecordStopped, TurnState, Moved
<1>8. FinishTurn(k) =>
        /\ \A l \in Leases \ {k} : turn'[l] = turn[l]
        /\ turn'[k].pc = "finished" /\ turn'[k].finished
        /\ turn'[k].ended = turn[k].ended /\ turn'[k].stopping = turn[k].stopping
  BY <1>1 DEF FinishTurn, TurnState
<1>9. \A t \in Now : Finish(k, t) =>
        /\ \A l \in Leases \ {k} : turn'[l] = turn[l]
        /\ turn'[k].pc \in {"recording", "done"} /\ turn'[k].ended = clock
        /\ turn'[k].finished = turn[k].finished /\ turn'[k].stopping = turn[k].stopping
  BY <1>1 DEF Finish, TurnState
<1> QED BY Zenon, <1>2, <1>3, <1>4, <1>5, <1>6, <1>7, <1>8, <1>9

LEMMA TurnEffects ==
  ASSUME TypeOK, Requests, [Next]_vars, NEW l \in Leases
  PROVE  TurnEffect(l)
<1>1. \A k \in Leases : turn[k] \in TurnState
  BY Zenon, Fields
<1>2. DOMAIN turn = Leases
  BY Zenon DEF TypeOK
<1>3. \A k \in Leases, t \in Now : LatePut(k, t) => TurnEffect(l)
  BY SMTT(30), <1>1, <1>2 DEF LatePut, TurnEffect, TurnState, Held
<1>4. \A s \in Stoppers : StopTurn(s) => TurnEffect(l)
  <2>1. \A s \in Stoppers : StopTurn(s) => stopper[s].lease \in Leases
    BY Zenon DEF StopTurn, Requests
  <2>2. \A s \in Stoppers : StopTurn(s) =>
          UNCHANGED turn \/ (/\ turn' = [turn EXCEPT ![stopper[s].lease] = [@ EXCEPT !.stopping = TRUE, !.canceled = TRUE]]
                             /\ ~turn[stopper[s].lease].finished)
    BY Zenon DEF StopTurn, Stoppable
  <2>3. \A k \in Leases : turn' = [turn EXCEPT ![k] = [@ EXCEPT !.stopping = TRUE, !.canceled = TRUE]]
          => (l # k => turn'[l] = turn[l]) /\ Held(k)
    BY <1>1, <1>2 DEF TurnState, Held
  <2> QED BY ZenonT(30), <2>1, <2>2, <2>3 DEF TurnEffect
<1>5. \A k \in Leases : RegisterTurnController(k) \/ InitialStatus(k) \/ RunReturns(k) => TurnEffect(l)
  BY Zenon, TurnActions DEF TurnEffect, Moved
<1>6. \A k \in Leases : Unregister(k) \/ RecordStopped(k) \/ FinishTurn(k) => TurnEffect(l)
  BY ZenonT(30), TurnActions DEF TurnEffect, Moved
<1>7. \A k \in Leases, t \in Now : StartWork(k, t) \/ Finish(k, t) => TurnEffect(l)
  BY Zenon, TurnActions DEF TurnEffect, Moved
<1>8. UNCHANGED turn => TurnEffect(l)
  BY Zenon DEF TurnEffect
<1> QED
  BY Zenon, <1>3, <1>4, <1>5, <1>6, <1>7, <1>8, Writers

(* What a step does to the renewals of a lease. *)
RenewerEffect(l) ==
  \/ renewer'[l] = renewer[l]
  \/ InitialStatus(l) /\ renewer'[l].pc = "waiting" /\ renewer'[l].last = renewer[l].last
  \/ RenewerExits(l) /\ renewer'[l].pc = "done" /\ renewer'[l].last = renewer[l].last
  \/ \E t \in Now :
       \/ StartWork(l, t) /\ renewer'[l].pc = renewer[l].pc /\ renewer'[l].last = clock
       \/ /\ Renew(l, t) /\ Closed(l)
          /\ renewer'[l].pc = "done" /\ renewer'[l].last = renewer[l].last
       \/ /\ Renew(l, t) /\ ~Closed(l)
          /\ renewer'[l].pc = renewer[l].pc /\ renewer'[l].last = clock

LEMMA RenewerEffects ==
  ASSUME TypeOK, [Next]_vars, NEW l \in Leases
  PROVE  RenewerEffect(l)
<1>1. renewer \in [Leases -> [pc : {"off", "waiting", "done"}, last : Nat]]
  BY Zenon DEF TypeOK
<1> DEFINE Renews(k, p, n) == (l # k => renewer'[l] = renewer[l]) /\ renewer'[k].pc = p /\ renewer'[k].last = n
<1>2. \A k \in Leases : InitialStatus(k) => Renews(k, "waiting", renewer[k].last)
  BY ZenonT(30), <1>1 DEF InitialStatus
<1>3. \A k \in Leases : RenewerExits(k) => Renews(k, "done", renewer[k].last)
  BY <1>1 DEF RenewerExits
<1>4. \A k \in Leases, t \in Now : StartWork(k, t) => Renews(k, renewer[k].pc, clock)
  BY ZenonT(30), <1>1 DEF StartWork
<1>5. \A k \in Leases, t \in Now : Renew(k, t) =>
        IF Closed(k) THEN Renews(k, "done", renewer[k].last) ELSE Renews(k, renewer[k].pc, clock)
  BY <1>1 DEF Renew, Refuses
<1> HIDE DEF Renews
<1>6. \A k \in Leases : InitialStatus(k) \/ RenewerExits(k) => RenewerEffect(l)
  BY Zenon, <1>2, <1>3 DEF RenewerEffect, Renews
<1>7. \A k \in Leases, t \in Now : StartWork(k, t) \/ Renew(k, t) => RenewerEffect(l)
  BY Zenon, <1>4, <1>5 DEF RenewerEffect, Renews
<1>8. UNCHANGED renewer => RenewerEffect(l)
  BY Zenon DEF RenewerEffect
<1> QED
  BY Zenon, <1>6, <1>7, <1>8, Writers

(* What a step does to the tombstone of a lease. *)
TombstoneEffect(l) ==
  \/ tombstones'[l] = tombstones[l]
  \/ \E t \in Now :
       \/ Finish(l, t) /\ ~FinishConflicts(l, Outcome(l)) /\ tombstones'[l] \in Nat /\ tombstones'[l] >= t + TombstoneTTL
       \/ Sweep(t) /\ l \in Expired(t) /\ tombstones'[l] = t + TombstoneTTL
       \/ Sweep(t) /\ l \notin Expired(t) /\ Purged(l, t) /\ tombstones'[l] = Absent

LEMMA TombstoneEffects ==
  ASSUME TypeOK, [Next]_vars, NEW l \in Leases
  PROVE  TombstoneEffect(l)
<1>1. tombstones \in [Leases -> Nat \cup {-1}]
  BY Zenon DEF TypeOK, Absent
<1>2. \A k \in Leases, t \in Now : Finish(k, t) =>
        /\ l # k => tombstones'[l] = tombstones[l]
        /\ IF FinishConflicts(k, Outcome(k)) THEN UNCHANGED tombstones
           ELSE tombstones'[k] \in Nat /\ tombstones'[k] >= t + TombstoneTTL
  <2>1. \A k \in Leases, t \in Now : Finish(k, t) =>
          IF FinishConflicts(k, Outcome(k)) THEN UNCHANGED tombstones
          ELSE \/ tombstones' = [tombstones EXCEPT ![k] = t + TombstoneTTL]
               \/ tombstones' = [tombstones EXCEPT ![k] = IF @ > t + TombstoneTTL THEN @ ELSE t + TombstoneTTL]
    BY Zenon DEF Finish, FinishActive, FinishGone, FinishTombstone, TombstoneUntil
  <2>2. \A t \in Now : t \in Nat /\ t + TombstoneTTL \in Nat
    BY NowIs, Constants, Fields
  <2> QED BY <1>1, <2>1, <2>2, Constants
<1>3. \A t \in Now : Sweep(t) =>
        tombstones'[l] = IF l \in Expired(t) THEN t + TombstoneTTL
                         ELSE IF Purged(l, t) THEN Absent ELSE tombstones[l]
  BY Zenon DEF Sweep, TombstoneUntil
<1>4. \A k \in Leases, t \in Now : Finish(k, t) => TombstoneEffect(l)
  BY Zenon, <1>2 DEF TombstoneEffect
<1>5. \A t \in Now : Sweep(t) => TombstoneEffect(l)
  BY Zenon, <1>3 DEF TombstoneEffect
<1>6. UNCHANGED tombstones => TombstoneEffect(l)
  BY Zenon DEF TombstoneEffect
<1> QED
  BY Zenon, <1>4, <1>5, <1>6, Writers

(* What a step does to the record of a lease. *)
LeaseEffect(l) ==
  \/ ~Active(l)' /\ \E t \in Now : Finish(l, t) \/ (Sweep(t) /\ l \in Expired(t))
  \/ activeByKey'[l] = activeByKey[l]
  \/ Active(l)' /\ \E t \in Now :
       /\ StartWork(l, t) \/ Renew(l, t) \/ LatePut(l, t)
       /\ ~Closed(l) /\ UNCHANGED <<clock, tombstones>> /\ activeByKey'[l] = Started(l, t)
  \/ /\ InitialStatus(l) \/ ReportStatus(l)
     /\ Active(l) /\ Active(l)' /\ activeByKey[l].stopState # "requested"
     /\ \A f \in {"expiresAt", "stopRequestedAt", "stopState"} : activeByKey'[l][f] = activeByKey[l][f]
  \/ \E s \in Stoppers :
       /\ RequestStop(s, l) /\ Active(l) /\ Active(l)'
       /\ activeByKey'[l] = Requested(activeByKey[l])
  \/ \E s \in Stoppers :
       /\ recordTurnControlFailure(s) /\ stopper[s].lease = l /\ OwnRequest(s, l) /\ Active(l)'
       /\ \A f \in {"expiresAt", "stopRequestedAt"} : activeByKey'[l][f] = activeByKey[l][f]
       /\ activeByKey'[l].stopState = stopper[s].cause

LEMMA LeaseEffects ==
  ASSUME TypeOK, Requests, [Next]_vars, NEW l \in Leases
  PROVE  LeaseEffect(l)
<1>1. activeByKey \in [Leases -> ActiveLease \cup {None}]
  BY Zenon DEF TypeOK
<1> DEFINE Alone(k) == l # k => activeByKey'[l] = activeByKey[l]
<1>2. \A k \in Leases, c \in Callers, t \in Now : StartOrRenew(c, k, t) =>
        Alone(k) /\ ~Closed(k) /\ activeByKey'[k] = Started(k, t) /\ Active(k)' /\ UNCHANGED tombstones
  <2>1. \A k \in Leases, t \in Now : Started(k, t) # None
    BY Zenon, StartedIs, NoneApart
  <2> QED BY <1>1, <2>1, StartOrRenewIs DEF Keep, Active
<1>3. \A k \in Leases, c \in Callers, n \in Nat : UpdateStatus(c, k, n) =>
        /\ Alone(k)
        /\ \/ activeByKey'[k] = activeByKey[k]
           \/ /\ Active(k) /\ Active(k)' /\ activeByKey[k].stopState # "requested"
              /\ \A f \in {"expiresAt", "stopRequestedAt", "stopState"} : activeByKey'[k][f] = activeByKey[k][f]
  <2>1. \A k \in Leases, n \in Nat :
          Active(k) => [activeByKey[k] EXCEPT !.statusSequence = n, !.revision = @ + 1] \in ActiveLease \ {None}
    <3>1. \A k \in Leases, n \in Nat :
            Active(k) => [activeByKey[k] EXCEPT !.statusSequence = n, !.revision = @ + 1] \in ActiveLease
      BY Zenon, Fields, LeaseWith
    <3> QED BY Zenon, <3>1, NoneApart
  <2>2. \A k \in Leases, n \in Nat :
          LET a == [activeByKey[k] EXCEPT !.statusSequence = n, !.revision = @ + 1]
          IN  Active(k) => \A f \in {"expiresAt", "stopRequestedAt", "stopState"} : a[f] = activeByKey[k][f]
    BY ZenonT(30), Fields DEF ActiveLease
  <2>3. \A k \in Leases, a \in ActiveLease : Keep(k, a) => Alone(k) /\ activeByKey'[k] = a
    BY Zenon, <1>1 DEF Keep
  <2>4. SUFFICES ASSUME NEW k \in Leases, NEW c \in Callers, NEW n \in Nat, UpdateStatus(c, k, n), Reportable(k, n)
                 PROVE  /\ Alone(k) /\ Active(k) /\ Active(k)' /\ activeByKey[k].stopState # "requested"
                        /\ \A f \in {"expiresAt", "stopRequestedAt", "stopState"} : activeByKey'[k][f] = activeByKey[k][f]
    BY ZenonT(30) DEF UpdateStatus
  <2> DEFINE a == [activeByKey[k] EXCEPT !.statusSequence = n, !.revision = @ + 1]
  <2>5. Active(k) /\ activeByKey[k].stopState # "requested" /\ Keep(k, a)
    BY Zenon, <2>4 DEF UpdateStatus, Reportable
  <2>6. a \in ActiveLease \ {None} /\ \A f \in {"expiresAt", "stopRequestedAt", "stopState"} : a[f] = activeByKey[k][f]
    BY Zenon, <2>1, <2>2, <2>5
  <2> HIDE DEF a
  <2> QED BY Zenon, <2>3, <2>5, <2>6 DEF Active
<1>4. \A k \in Leases, t \in Now : StartWork(k, t) => LeaseEffect(l)
  <2>1. \A k \in Leases, t \in Now : StartWork(k, t) =>
          UNCHANGED clock /\ (UNCHANGED activeByKey \/ StartOrRenew(Turn(k), k, t))
    BY Zenon DEF StartWork
  <2> QED BY Zenon, <1>2, <2>1, CallersAre DEF LeaseEffect
<1>5. \A k \in Leases, t \in Now : Renew(k, t) => LeaseEffect(l)
  <2>1. \A k \in Leases, t \in Now : Renew(k, t) =>
          UNCHANGED clock /\ (UNCHANGED activeByKey \/ StartOrRenew(Renewer(k), k, t))
    BY Zenon DEF Renew
  <2> QED BY ZenonT(30), <1>2, <2>1, CallersAre DEF LeaseEffect
<1>6. \A k \in Leases, t \in Now : LatePut(k, t) => LeaseEffect(l)
  <2>1. \A k \in Leases, t \in Now : LatePut(k, t) =>
          UNCHANGED clock /\ (UNCHANGED activeByKey \/ StartOrRenew(Remote(k), k, t))
    BY Zenon DEF LatePut
  <2> QED BY <1>2, <2>1, CallersAre DEF LeaseEffect
<1>7. \A k \in Leases : InitialStatus(k) => LeaseEffect(l)
  <2>1. \A k \in Leases : InitialStatus(k) => UpdateStatus(Turn(k), k, 1)
    BY Zenon DEF InitialStatus
  <2> QED BY Zenon, <1>3, <2>1, CallersAre DEF LeaseEffect
<1>8. \A k \in Leases : ReportStatus(k) => LeaseEffect(l)
  <2>1. \A k \in Leases : ReportStatus(k) => UpdateStatus(Observer(k), k, observer[k].sequence)
    BY Zenon DEF ReportStatus
  <2> QED BY Zenon, <1>3, <2>1, CallersAre, Fields DEF LeaseEffect
<1>9. \A k \in Leases, t \in Now : Finish(k, t) => LeaseEffect(l)
  <2>1. \A k \in Leases, t \in Now : Finish(k, t) => UNCHANGED activeByKey \/ Keep(k, None)
    BY Zenon DEF Finish, FinishActive, FinishGone
  <2> QED BY Zenon, <1>1, <2>1 DEF Keep, LeaseEffect, Active
<1>10. \A k \in Leases, s \in Stoppers : RequestStop(s, k) => LeaseEffect(l)
  <2>1. \A k \in Leases, s \in Stoppers : RequestStop(s, k) =>
          Active(k) /\ Alone(k) /\ (UNCHANGED activeByKey \/ activeByKey'[k] = Requested(activeByKey[k]))
    BY Zenon, <1>1 DEF RequestStop, Keep
  <2>2. \A k \in Leases : Active(k) => Requested(activeByKey[k]) # None
    <3>1. \A k \in Leases : Active(k) => activeByKey[k].revision + 1 \in Nat
      BY ZenonT(30), Fields, LeaseWith
    <3>2. "requested" \in StopStates
      BY Zenon DEF StopStates
    <3>3. \A k \in Leases : Active(k) => Requested(activeByKey[k]) \in ActiveLease
      BY Zenon, Fields, LeaseWith, <3>1, <3>2 DEF Requested
    <3> QED BY Zenon, <3>3, NoneApart
  <2> QED BY Zenon, <2>1, <2>2 DEF LeaseEffect, Active
<1>11. \A s \in Stoppers : recordTurnControlFailure(s) => LeaseEffect(l)
  <2>1. \A s \in Stoppers : recordTurnControlFailure(s) => stopper[s].lease \in Leases
    BY Zenon DEF recordTurnControlFailure, Requests
  <2>2. \A s \in Stoppers, k \in Leases : recordTurnControlFailure(s) /\ stopper[s].lease = k =>
          UNCHANGED activeByKey \/ (/\ OwnRequest(s, k) /\ Active(k)
                                    /\ Keep(k, [activeByKey[k] EXCEPT !.revision = @ + 1, !.stopState = stopper[s].cause]))
    BY Zenon DEF recordTurnControlFailure, OwnRequest
  <2>3. \A k \in Leases, x \in StopperCauses : Active(k) /\ Keep(k, [activeByKey[k] EXCEPT !.revision = @ + 1, !.stopState = x]) =>
          /\ Alone(k) /\ activeByKey'[k].stopState = x /\ Active(k)'
          /\ \A f \in {"expiresAt", "stopRequestedAt"} : activeByKey'[k][f] = activeByKey[k][f]
    <3>1. \A k \in Leases, x \in StopperCauses :
            Active(k) => [activeByKey[k] EXCEPT !.revision = @ + 1, !.stopState = x] # None
      <4>1. StopperCauses \subseteq StopStates
        BY Zenon DEF StopStates, StopperCauses
      <4>2. \A k \in Leases, x \in StopperCauses :
              Active(k) => [activeByKey[k] EXCEPT !.revision = @ + 1, !.stopState = x] \in ActiveLease
        BY Zenon, <4>1, Fields, LeaseWith
      <4> QED BY Zenon, <4>2, NoneApart
    <3> QED BY ZenonT(30), <1>1, <3>1 DEF Keep, Active, ActiveLease
  <2> QED BY ZenonT(30), <2>1, <2>2, <2>3, Fields DEF LeaseEffect, StopperCauses
<1>12. \A t \in Now : Sweep(t) => LeaseEffect(l)
  <2>1. \A t \in Now : Sweep(t) => activeByKey'[l] = IF l \in Expired(t) THEN None ELSE activeByKey[l]
    BY Zenon DEF Sweep
  <2> QED BY Zenon, <2>1 DEF LeaseEffect, Active
<1>13. UNCHANGED activeByKey => LeaseEffect(l)
  BY Zenon DEF LeaseEffect
<1>14. \/ UNCHANGED activeByKey
       \/ \E k \in Leases, t \in Now : StartWork(k, t) \/ Renew(k, t) \/ LatePut(k, t) \/ Finish(k, t)
       \/ \E k \in Leases : InitialStatus(k) \/ ReportStatus(k)
       \/ \E k \in Leases, s \in Stoppers : RequestStop(s, k)
       \/ \E s \in Stoppers : recordTurnControlFailure(s)
       \/ \E t \in Now : Sweep(t)
  BY ZenonT(30) DEF Next, RegistryStep, TurnStep, RenewerStep, ObserverStep, StopperStep, vars,
     RegisterTurnController, RenewerExits, ObserveEvent, RunReturns, FinishTurn, Unregister,
     RecordStopped, Dispatch, StopTurn, CancelReturns, StopTimesOut, Publish, Tick
<1> QED
  BY Zenon, <1>4, <1>5, <1>6, <1>7, <1>8, <1>9, <1>10, <1>11, <1>12, <1>13, <1>14

LEMMA PhasesPreserved ==
  ASSUME TypeOK, Requests, Phases, [Next]_vars
  PROVE  Phases'
<1> SUFFICES ASSUME NEW l \in Leases
             PROVE  /\ turn'[l].pc \in {"new", "start"} => renewer'[l].pc = "off" /\ ~Active(l)' /\ ~Closed(l)'
                    /\ turn'[l].pc = "status" => renewer'[l].pc = "off"
                    /\ turn'[l].pc \in {"recording", "done"} <=> turn'[l].ended # Absent
                    /\ turn'[l].ended # Absent => renewer'[l].pc = "done"
                    /\ turn'[l].finished <=> turn'[l].pc \in {"finished", "joining", "recording", "done"}
                    /\ l \in controllers' <=> turn'[l].pc \in {"start", "status", "running", "ended", "finished"}
  BY Zenon DEF Phases, Active, Closed
<1>1. TurnEffect(l) /\ RenewerEffect(l) /\ TombstoneEffect(l) /\ LeaseEffect(l)
  BY Zenon, TurnEffects, RenewerEffects, TombstoneEffects, LeaseEffects
<1>2. /\ turn[l].pc \in {"new", "start"} => renewer[l].pc = "off" /\ ~Active(l) /\ ~Closed(l)
      /\ turn[l].pc = "status" => renewer[l].pc = "off"
      /\ turn[l].pc \in {"recording", "done"} <=> turn[l].ended # Absent
      /\ turn[l].ended # Absent => renewer[l].pc = "done"
      /\ turn[l].finished <=> turn[l].pc \in {"finished", "joining", "recording", "done"}
      /\ l \in controllers <=> turn[l].pc \in {"start", "status", "running", "ended", "finished"}
  BY Zenon DEF Phases
<1>3. turn'[l].pc \in {"new", "start"} => turn[l].pc \in {"new", "start"} /\ ~\E t \in Now : StartWork(l, t)
  BY ZenonT(30), <1>1, TurnActions DEF TurnEffect, Held, Moved, RegisterTurnController, FinishTurn
<1>4. turn'[l].pc \in {"new", "start"} => renewer'[l].pc = "off"
  BY Zenon, <1>1, <1>2, <1>3 DEF RenewerEffect, InitialStatus, RenewerExits, Renew
<1>5. turn'[l].pc \in {"new", "start"} => ~Active(l)'
  BY Zenon, <1>1, <1>2, <1>3 DEF LeaseEffect, Renew, LatePut, Active, OwnRequest
<1>6. turn'[l].pc \in {"new", "start"} => ~Closed(l)'
  BY Zenon, <1>1, <1>2, <1>3 DEF TombstoneEffect, Finish, Expired, Closed, Purged
<1>7. turn'[l].pc = "status" => renewer'[l].pc = "off"
  <2>1. turn'[l].pc = "status" => turn[l].pc \in {"start", "status"} /\ ~InitialStatus(l)
    BY ZenonT(30), <1>1, TurnActions DEF TurnEffect, Held, Moved, StartWork
  <2> QED BY Zenon, <1>1, <1>2, <2>1 DEF RenewerEffect, RenewerExits, Renew
<1>8. turn'[l].pc \in {"recording", "done"} <=> turn'[l].ended # Absent
  BY <1>1, <1>2, Fields DEF TurnEffect, Held, RegisterTurnController, StartWork, InitialStatus, RunReturns,
     Unregister, RecordStopped, FinishTurn, Absent
<1>9. turn'[l].ended # Absent => renewer'[l].pc = "done"
  <2>1. turn'[l].ended # Absent => turn[l].ended # Absent \/ \E t \in Now : Finish(l, t)
    BY Zenon, <1>1 DEF TurnEffect, Held
  <2>2. turn'[l].ended # Absent => renewer[l].pc = "done" /\ turn[l].pc \in {"joining", "recording", "done"}
    BY Zenon, <1>2, <2>1 DEF Finish, Joined
  <2> QED BY Zenon, <1>1, <2>2 DEF RenewerEffect, InitialStatus, RenewerExits, Renew, StartWork
<1>10. turn'[l].finished <=> turn'[l].pc \in {"finished", "joining", "recording", "done"}
  BY ZenonT(30), <1>1, <1>2 DEF TurnEffect, Held, RegisterTurnController, StartWork, InitialStatus, RunReturns,
     Unregister, RecordStopped, FinishTurn, Finish
<1>11. l \in controllers' <=> turn'[l].pc \in {"start", "status", "running", "ended", "finished"}
  <2>1. \/ l \in controllers' <=> l \in controllers
        \/ RegisterTurnController(l) /\ l \in controllers'
        \/ Unregister(l) /\ l \notin controllers'
    BY ZenonT(30), Writers DEF RegisterTurnController, Unregister
  <2>2. RegisterTurnController(l) => l \in controllers' /\ turn'[l].pc = "start"
    BY ZenonT(30), TurnActions DEF Moved, RegisterTurnController
  <2>3. Unregister(l) => l \notin controllers' /\ turn'[l].pc = "joining"
    BY ZenonT(30), TurnActions DEF Moved, Unregister
  <2> QED BY SMTT(30), <1>1, <1>2, <2>1, <2>2, <2>3 DEF TurnEffect, Held, StartWork, InitialStatus, RunReturns,
             RecordStopped, FinishTurn, Finish
<1> QED
  BY Zenon, <1>4, <1>5, <1>6, <1>7, <1>8, <1>9, <1>10, <1>11

LEMMA RefusedPreserved ==
  ASSUME TypeOK, Requests, Phases, Refused, [Next]_vars
  PROVE  Refused'
<1> SUFFICES ASSUME NEW l \in Leases
             PROVE  /\ Active(l)' => ~Closed(l)'
                    /\ turn'[l].ended # Absent =>
                         /\ ~Active(l)'
                         /\ IF Closed(l)' THEN tombstones'[l] >= turn'[l].ended + MaxDelay
                            ELSE clock' >= turn'[l].ended + MaxDelay
  BY Zenon DEF Refused, Active, Closed
<1>1. TurnEffect(l) /\ RenewerEffect(l) /\ TombstoneEffect(l) /\ LeaseEffect(l)
  BY Zenon, TurnEffects, RenewerEffects, TombstoneEffects, LeaseEffects
<1>2. /\ Active(l) => ~Closed(l)
      /\ turn[l].ended # Absent =>
           /\ ~Active(l)
           /\ IF Closed(l) THEN tombstones[l] >= turn[l].ended + MaxDelay
              ELSE clock >= turn[l].ended + MaxDelay
      /\ turn[l].pc \in {"recording", "done"} <=> turn[l].ended # Absent
      /\ turn[l].ended # Absent => renewer[l].pc = "done"
  BY Zenon DEF Refused, Phases
<1>3. clock \in Nat /\ clock' \in Nat /\ clock <= clock'
  BY Fields, Writers DEF Tick
<1>4. \A t \in Now : t \in Nat /\ t <= clock /\ clock <= t + MaxLag
  BY Zenon, NowIs, Fields
<1>5. \A t \in Now : Finish(l, t) => ~FinishConflicts(l, Outcome(l))
  BY Zenon DEF FinishConflicts, Outcome, Requests
<1>6. \A t \in Now : Finish(l, t) \/ (Sweep(t) /\ l \in Expired(t)) => ~Active(l)'
  <2>1. \A t \in Now : Finish(l, t) => ~Active(l)'
    BY Zenon, <1>5 DEF Finish, FinishActive, FinishGone, Keep, Active, TypeOK
  <2>2. \A t \in Now : Sweep(t) /\ l \in Expired(t) => ~Active(l)'
    BY Zenon DEF Sweep, Active
  <2> QED BY Zenon, <2>1, <2>2
<1>7. Active(l)' => Active(l) \/ ~Closed(l)
  BY Zenon, <1>1 DEF LeaseEffect, Active, OwnRequest
<1>8. Active(l)' => ~Closed(l)'
  BY Zenon, <1>1, <1>2, <1>6, <1>7 DEF TombstoneEffect, Closed
<1>9. CASE turn[l].ended # Absent
  <2>1. turn'[l].ended = turn[l].ended /\ turn[l].ended \in Nat
    BY ZenonT(30), <1>1, <1>2, <1>9, Fields DEF TurnEffect, Held, Finish, Absent
  <2>2. ~Active(l)'
    BY <1>1, <1>2, <1>3, <1>9, Fields, Constants DEF LeaseEffect, Active, OwnRequest, StartWork, Renew, LatePut, Absent
  <2>3. IF Closed(l)' THEN tombstones'[l] >= turn'[l].ended + MaxDelay
        ELSE clock' >= turn'[l].ended + MaxDelay
    BY <1>1, <1>2, <1>3, <1>4, <1>9, <2>1, Fields, Constants DEF TombstoneEffect, Closed, Finish, Expired, Purged, Absent
  <2> QED BY Zenon, <1>8, <2>2, <2>3
<1>10. CASE turn[l].ended = Absent /\ turn'[l].ended # Absent
  <2>1. PICK t \in Now : Finish(l, t)
    BY SMTT(30), <1>1, <1>10 DEF TurnEffect, Held
  <2>2. turn'[l].ended = clock /\ UNCHANGED clock
    BY ZenonT(30), <2>1, TurnActions DEF Finish
  <2>3. tombstones'[l] \in Nat /\ tombstones'[l] >= t + TombstoneTTL
    BY <1>5, <2>1, Fields, <1>4, Constants
    DEF Finish, FinishActive, FinishGone, FinishTombstone, TombstoneUntil, TypeOK, Absent
  <2>4. tombstones'[l] >= turn'[l].ended + MaxDelay /\ Closed(l)'
    BY <1>3, <1>4, <2>2, <2>3, Constants DEF Closed, Absent
  <2> QED BY ZenonT(30), <1>6, <1>8, <2>1, <2>4
<1> QED
  BY Zenon, <1>8, <1>9, <1>10

LEMMA RenewalsPreserved ==
  ASSUME TypeOK, Requests, Phases, Renewals, [Next]_vars
  PROVE  Renewals'
<1> SUFFICES ASSUME NEW l \in Leases, Renewing(l)'
             PROVE  /\ clock' <= renewer'[l].last + MaxStall \/ clock' + TTL > MaxClock
                    /\ Active(l)' => activeByKey'[l].expiresAt + MaxLag >= renewer'[l].last + TTL
                    /\ Closed(l)' => tombstones'[l] > renewer'[l].last + MaxStall
  BY Zenon DEF Renewals, Active, Closed, Renewing
<1>1. TurnEffect(l) /\ RenewerEffect(l) /\ TombstoneEffect(l) /\ LeaseEffect(l)
  BY Zenon, TurnEffects, RenewerEffects, TombstoneEffects, LeaseEffects
<1>2. /\ turn[l].pc \in {"new", "start"} => renewer[l].pc = "off" /\ ~Active(l) /\ ~Closed(l)
      /\ turn[l].pc \in {"recording", "done"} => renewer[l].pc = "done"
      /\ Renewing(l) =>
           /\ clock <= renewer[l].last + MaxStall \/ clock + TTL > MaxClock
           /\ Active(l) => activeByKey[l].expiresAt + MaxLag >= renewer[l].last + TTL
           /\ Closed(l) => tombstones[l] > renewer[l].last + MaxStall
  BY ZenonT(30) DEF Renewals, Phases
<1>3. clock \in Nat /\ clock' \in Nat /\ renewer[l].last \in Nat /\ tombstones[l] \in Nat \cup {-1}
  BY Fields, Writers DEF Tick
<1>4. \A t \in Now : t \in Nat /\ t <= clock /\ clock <= t + MaxLag
  BY Zenon, NowIs, Fields
<1>5. Active(l) => activeByKey[l].expiresAt \in Nat
  BY Zenon, Fields DEF ActiveLease
<1>6. \A t \in Now : Started(l, t).expiresAt = t + TTL
  BY Zenon, StartedIs
<1>7. \A t \in Now : ~Finish(l, t)
  <2>1. \A t \in Now : Finish(l, t) => renewer[l].pc = "done" /\ UNCHANGED renewer /\ turn'[l].pc # "status"
    BY ZenonT(30), TurnActions DEF Finish, Joined
  <2> QED BY SMTT(30), <2>1 DEF Renewing
<1>8. CASE \E t \in Now : StartWork(l, t) \/ (Renew(l, t) /\ ~Closed(l))
  <2>1. PICK t \in Now : StartWork(l, t) \/ (Renew(l, t) /\ ~Closed(l))
    BY Zenon, <1>8
  <2>2. UNCHANGED clock /\ renewer'[l].last = clock /\ ~Closed(l)
    <3>1. renewer \in [Leases -> [pc : {"off", "waiting", "done"}, last : Nat]]
      BY Zenon DEF TypeOK
    <3> QED BY Zenon, <1>2, <2>1, <3>1 DEF StartWork, Renew, Refuses
  <2>3. ~Closed(l)'
    BY Zenon, <2>1, <2>2 DEF StartWork, Renew, Refuses, StartOrRenew, Closed
  <2>4. Active(l)' => activeByKey'[l].expiresAt + MaxLag >= clock + TTL
    <3>1. Active(l)' => activeByKey'[l] = Started(l, t)
      BY Zenon, <1>2, <2>1, <2>2 DEF StartWork, Renew, Refuses, StartOrRenew, Started, Keep, Active, TypeOK
    <3> QED BY <3>1, <1>3, <1>4, <1>6, Constants
  <2> QED BY <1>3, <2>2, <2>3, <2>4, Constants
<1>9. CASE ~\E t \in Now : StartWork(l, t) \/ (Renew(l, t) /\ ~Closed(l))
  <2>1. renewer'[l].last = renewer[l].last /\ Renewing(l)
    BY Zenon, <1>1, <1>9 DEF RenewerEffect, TurnEffect, Held, Renewing, InitialStatus, RenewerExits
  <2>2. clock' <= renewer[l].last + MaxStall \/ clock' + TTL > MaxClock
    <3>1. UNCHANGED clock \/ (clock' = clock + 1 /\ (clock + TTL <= MaxClock => clock < renewer[l].last + MaxStall))
      BY Zenon, <2>1, Writers DEF Tick
    <3>2. clock <= renewer[l].last + MaxStall \/ clock + TTL > MaxClock
      BY Zenon, <1>2, <2>1
    <3>3. clock \in Nat /\ renewer[l].last \in Nat /\ TTL \in Nat /\ MaxStall \in Nat /\ MaxClock \in Nat
      BY Zenon, <1>3, Constants
    <3>4. CASE clock' = clock + 1 /\ (clock + TTL <= MaxClock => clock < renewer[l].last + MaxStall)
      BY SMTT(30), <3>3, <3>4
    <3> QED BY Zenon, <3>1, <3>2, <3>4
  <2>3. Active(l)' => activeByKey'[l].expiresAt + MaxLag >= renewer[l].last + TTL
    <3>1. ~\E t \in Now : LatePut(l, t)
      BY ZenonT(30), <1>2, <2>1 DEF LatePut, Renewing
    <3>2. Active(l)' => Active(l) /\ activeByKey'[l].expiresAt = activeByKey[l].expiresAt
      BY ZenonT(30), <1>1, <1>9, <3>1, Fields, LeaseWith DEF LeaseEffect, Active, OwnRequest, Requested, ActiveLease
    <3> QED BY Zenon, <1>2, <2>1, <3>2
  <2>4. Closed(l)' => tombstones'[l] > renewer[l].last + MaxStall
    BY <1>1, <1>2, <1>3, <1>4, <1>5, <1>7, <2>1, Constants DEF TombstoneEffect, Closed, Expired
  <2> QED BY Zenon, <2>1, <2>2, <2>3, <2>4
<1> QED
  BY Zenon, <1>8, <1>9

(* A lease never becomes startable again: a renewing one whose tombstone is  *)
(* purged is past the horizon of its renewals.                               *)
LEMMA StartableEnds ==
  ASSUME TypeOK, Requests, Phases, Renewals, Refused, [Next]_vars, NEW l \in Leases, Startable(l)'
  PROVE  Startable(l)
<1>1. TurnEffect(l) /\ RenewerEffect(l) /\ TombstoneEffect(l) /\ LeaseEffect(l)
  BY Zenon, TurnEffects, RenewerEffects, TombstoneEffects, LeaseEffects
<1>2. /\ turn[l].pc \in {"new", "start"} => ~Active(l) /\ ~Closed(l)
      /\ Active(l) => ~Closed(l)
      /\ Renewing(l) =>
           /\ clock <= renewer[l].last + MaxStall \/ clock + TTL > MaxClock
           /\ Closed(l) => tombstones[l] > renewer[l].last + MaxStall
  BY ZenonT(30) DEF Renewals, Phases, Refused
<1>3. clock \in Nat /\ clock' \in Nat /\ clock <= clock' /\ renewer[l].last \in Nat /\ tombstones[l] \in Nat \cup {-1}
  BY Fields, Writers DEF Tick
<1>4. ~Active(l)' /\ ~Closed(l)'
  BY Zenon DEF Startable, Active, Closed
<1>5. turn'[l].pc \in {"new", "start"} \/ (Renewing(l)' /\ clock' + TTL <= MaxClock)
  BY Zenon DEF Startable, Renewing
<1>6. ~\E t \in Now : Finish(l, t)
  <2>1. \A t \in Now : Finish(l, t) =>
          renewer[l].pc = "done" /\ UNCHANGED renewer /\ turn'[l].pc \in {"recording", "done"}
    BY ZenonT(30), TurnActions DEF Finish, Joined
  <2> QED BY SMTT(30), <1>5, <2>1 DEF Renewing
<1>7. turn[l].pc \in {"new", "start"} \/ (Renewing(l) /\ clock + TTL <= MaxClock)
  <2>1. turn[l].pc \in {"new", "start"} \/ Renewing(l)
    BY Zenon, <1>1, <1>5, <1>6 DEF TurnEffect, Held, RenewerEffect, Renewing, RegisterTurnController, StartWork, FinishTurn,
       InitialStatus, RunReturns, Unregister, RecordStopped, RenewerExits, Renew
  <2>2. turn'[l].pc \in {"new", "start"} => turn[l].pc \in {"new", "start"}
    BY Zenon, <1>1 DEF TurnEffect, Held, RegisterTurnController, FinishTurn
  <2> QED BY SMTT(30), <1>3, <1>5, <2>1, <2>2, Constants
<1>8. ~Active(l)
  <2>1. Active(l) => tombstones'[l] \in Nat /\ Closed(l)'
    <3>1. Active(l) => \E t \in Now : Sweep(t) /\ l \in Expired(t)
      BY Zenon, <1>1, <1>4, <1>6 DEF LeaseEffect, Active
    <3>2. \A t \in Now : Sweep(t) /\ l \in Expired(t) => tombstones'[l] = t + TombstoneTTL
      BY Zenon DEF Sweep, TombstoneUntil
    <3> QED BY <3>1, <3>2, <1>3, NowIs, Constants DEF Closed, Absent
  <2> QED BY Zenon, <1>4, <2>1
<1>9. ~Closed(l)
  <2>1. SUFFICES ASSUME Closed(l) PROVE FALSE
    BY Zenon
  <2>2. PICK t \in Now : Purged(l, t)
    BY Zenon, <1>1, <1>4, <1>6, <2>1, <1>8 DEF TombstoneEffect, Closed, Expired, Active
  <2>3. tombstones[l] <= clock
    BY <1>3, <2>2, NowIs, Constants DEF Purged, Absent
  <2> QED BY <1>2, <1>3, <1>7, <2>1, <2>3, Constants
<1> QED
  BY Zenon, <1>7, <1>8, <1>9 DEF Startable

(* What a step does to a stop call. *)
StopperEffect(s) ==
  \/ stopper'[s] = stopper[s]
  \/ \E l \in Leases :
       /\ RequestStop(s, l) /\ stopper'[s].pc = "dispatch" /\ stopper'[s].lease = l
       /\ stopper'[s].at = activeByKey'[l].stopRequestedAt
  \/ /\ stopper'[s].lease = stopper[s].lease /\ stopper'[s].at = stopper[s].at
     /\ \/ Dispatch(s) /\ stopper'[s].pc = "call"
        \/ Dispatch(s) /\ stopper'[s].pc = "failing" /\ stopper'[s].cause \in {"failed", "timed_out"}
        \/ Dispatch(s) /\ stopper'[s].pc = "done" /\ controllers = {}
        \/ StopTurn(s) /\ stopper'[s].pc = "cancel" /\ turn'[stopper[s].lease].stopping
        \/ StopTurn(s) /\ stopper'[s].pc = "failing" /\ stopper'[s].cause = "failed"
        \/ CancelReturns(s) /\ stopper'[s].pc = "done"
        \/ StopTimesOut(s) /\ stopper'[s].pc = "failing" /\ stopper'[s].cause = "timed_out"
        \/ /\ recordTurnControlFailure(s) /\ stopper'[s].pc = "done" /\ stopper'[s].cause = stopper[s].cause
           /\ OwnRequest(s, stopper[s].lease) => activeByKey'[stopper[s].lease].stopState = stopper[s].cause

LEMMA AcceptsStop ==
  ASSUME TypeOK, Requests, NEW s \in Stoppers, StopTurn(s), Stoppable(stopper[s].lease)
  PROVE  turn'[stopper[s].lease].stopping
<1>1. stopper[s].lease \in Leases /\ turn[stopper[s].lease] \in TurnState /\ DOMAIN turn = Leases
  BY Zenon, Fields DEF StopTurn, Requests, TypeOK
<1> QED BY ZenonT(30), <1>1 DEF StopTurn, TurnState

LEMMA StopperEffects ==
  ASSUME TypeOK, Requests, [Next]_vars, NEW s \in Stoppers
  PROVE  StopperEffect(s)
<1>1. stopper[s] \in StopperState /\ DOMAIN stopper = Stoppers
  BY SMTT(30), Fields DEF TypeOK
<1>2. \A r \in Stoppers : r # s /\ StopperStep(r) => stopper'[s] = stopper[s]
  BY ZenonT(30), <1>1 DEF StopperStep, RequestStop, Dispatch, StopTurn, CancelReturns, StopTimesOut, recordTurnControlFailure
<1>3. \A l \in Leases : RequestStop(s, l) => StopperEffect(s)
  <2>1. \A l \in Leases : RequestStop(s, l) =>
          /\ stopper'[s].pc = "dispatch" /\ stopper'[s].lease = l
          /\ stopper'[s].at = activeByKey'[l].stopRequestedAt
    BY <1>1 DEF RequestStop
  <2> QED BY Zenon, <2>1 DEF StopperEffect
<1> DEFINE Same == stopper'[s].lease = stopper[s].lease /\ stopper'[s].at = stopper[s].at
<1>4. Dispatch(s) => StopperEffect(s)
  <2>1. Dispatch(s) =>
          /\ Same
          /\ \/ stopper'[s].pc = "call"
             \/ stopper'[s].pc = "failing" /\ stopper'[s].cause \in {"failed", "timed_out"}
             \/ stopper'[s].pc = "done" /\ controllers = {}
    <3> HAVE Dispatch(s)
    <3>2. PICK answer \in Answers :
            /\ stopper' = [stopper EXCEPT ![s] = [@ EXCEPT !.pc = answer[1], !.cause = answer[2]]]
            /\ answer[1] = "done" => controllers = {}
      BY Zenon, DispatchAnswers
    <3>3. Same /\ stopper'[s].pc = answer[1] /\ stopper'[s].cause = answer[2]
      BY <1>1, <3>2 DEF StopperState
    <3>4. \/ answer[1] = "call" \/ answer[1] = "done"
          \/ answer[1] = "failing" /\ answer[2] \in {"failed", "timed_out"}
      BY DEF Answers, BusAnswers
    <3> QED BY Zenon, <3>2, <3>3, <3>4
  <2> QED BY Zenon, <2>1 DEF StopperEffect
<1>5. StopTurn(s) => StopperEffect(s)
  <2>2. StopTurn(s) /\ Stoppable(stopper[s].lease) => turn'[stopper[s].lease].stopping
    BY Zenon, AcceptsStop
  <2>3. StopTurn(s) => /\ Same
                       /\ IF Stoppable(stopper[s].lease) THEN stopper'[s].pc = "cancel"
                          ELSE stopper'[s].pc = "failing" /\ stopper'[s].cause = "failed"
    BY ZenonT(30), <1>1 DEF StopTurn, StopperState
  <2> QED BY Zenon, <2>2, <2>3 DEF StopperEffect
<1>6. CancelReturns(s) => StopperEffect(s)
  <2>1. CancelReturns(s) => Same /\ stopper'[s].pc = "done"
    BY Zenon, <1>1 DEF CancelReturns, StopperState
  <2> QED BY Zenon, <2>1 DEF StopperEffect
<1>7. StopTimesOut(s) => StopperEffect(s)
  <2>1. StopTimesOut(s) => Same /\ stopper'[s].pc = "failing" /\ stopper'[s].cause = "timed_out"
    BY ZenonT(30), <1>1 DEF StopTimesOut, StopperState
  <2> QED BY Zenon, <2>1 DEF StopperEffect
<1>8. recordTurnControlFailure(s) => StopperEffect(s)
  <2>1. recordTurnControlFailure(s) => Same /\ stopper'[s].pc = "done" /\ stopper'[s].cause = stopper[s].cause
    BY Zenon, <1>1 DEF recordTurnControlFailure, StopperState
  <2>2. recordTurnControlFailure(s) => stopper[s].lease \in Leases
    BY Zenon DEF recordTurnControlFailure, Requests
  <2>3. recordTurnControlFailure(s) /\ OwnRequest(s, stopper[s].lease) =>
          activeByKey'[stopper[s].lease].stopState = stopper[s].cause
    <3>1. \A k \in Leases : recordTurnControlFailure(s) /\ stopper[s].lease = k /\ OwnRequest(s, k) =>
            Keep(k, [activeByKey[k] EXCEPT !.revision = @ + 1, !.stopState = stopper[s].cause]) /\ Active(k)
      BY Zenon DEF recordTurnControlFailure, OwnRequest
    <3>2. SUFFICES ASSUME NEW k \in Leases, recordTurnControlFailure(s), stopper[s].lease = k, OwnRequest(s, k)
                   PROVE  activeByKey'[k].stopState = stopper[s].cause
      BY Zenon, <2>2
    <3> DEFINE a == [activeByKey[k] EXCEPT !.revision = @ + 1, !.stopState = stopper[s].cause]
    <3>3. Keep(k, a) /\ Active(k)
      BY ZenonT(30), <3>1, <3>2
    <3>4. a.stopState = stopper[s].cause
      BY Zenon, <3>3, Fields DEF ActiveLease
    <3> HIDE DEF a
    <3> QED BY Zenon, <3>3, <3>4 DEF Keep, TypeOK
  <2> QED BY Zenon, <2>1, <2>3 DEF StopperEffect
<1>9. UNCHANGED stopper => StopperEffect(s)
  BY Zenon DEF StopperEffect
<1>10. \A r \in Stoppers : StopperStep(r) => StopperEffect(s)
  <2>1. StopperStep(s) => StopperEffect(s)
    BY Zenon, <1>3, <1>4, <1>5, <1>6, <1>7, <1>8 DEF StopperStep
  <2> QED BY Zenon, <1>2, <2>1 DEF StopperEffect
<1> QED
  BY Zenon, <1>9, <1>10, Writers

(* Who writes an outbox. *)
OutboxEffect(c) ==
  \/ outbox'[c] = outbox[c]
  \/ outbox'[c] = None
  \/ \E l \in Leases :
       \/ c = Turn(l) /\ InitialStatus(l)
       \/ c = Observer(l) /\ ReportStatus(l)
       \/ \E s \in Stoppers : c = Stopper(s) /\ RequestStop(s, l)
       \/ \E t \in Now : \/ c = Turn(l) /\ (StartWork(l, t) \/ Finish(l, t))
                         \/ c = Renewer(l) /\ Renew(l, t)
                         \/ c = Remote(l) /\ LatePut(l, t)
                         \/ c = Janitor(l) /\ Sweep(t) /\ l \in Expired(t)
  \/ \E s \in Stoppers : c = Stopper(s) /\ recordTurnControlFailure(s)

LEMMA OutboxEffects ==
  ASSUME TypeOK, [Next]_vars, NEW c \in Callers
  PROVE  OutboxEffect(c)
<1>1. DOMAIN outbox = Callers
  BY Zenon DEF TypeOK
<1>2. \A k \in Leases, t \in Now : StartWork(k, t) \/ Renew(k, t) \/ LatePut(k, t) => OutboxEffect(c)
  <2>1. \A k \in Leases, t \in Now : StartWork(k, t) => c = Turn(k) \/ outbox'[c] = outbox[c]
    BY Zenon, <1>1 DEF StartWork, StartOrRenew, Enqueue
  <2>2. \A k \in Leases, t \in Now : Renew(k, t) => c = Renewer(k) \/ outbox'[c] = outbox[c]
    BY Zenon, <1>1 DEF Renew, StartOrRenew, Enqueue
  <2>3. \A k \in Leases, t \in Now : LatePut(k, t) => c = Remote(k) \/ outbox'[c] = outbox[c]
    BY Zenon, <1>1 DEF LatePut, StartOrRenew, Enqueue
  <2> QED BY Zenon, <2>1, <2>2, <2>3 DEF OutboxEffect
<1>3. \A k \in Leases : InitialStatus(k) \/ ReportStatus(k) => OutboxEffect(c)
  <2>1. \A k \in Leases : InitialStatus(k) => c = Turn(k) \/ outbox'[c] = outbox[c]
    BY Zenon, <1>1 DEF InitialStatus, UpdateStatus, Enqueue
  <2>2. \A k \in Leases : ReportStatus(k) => c = Observer(k) \/ outbox'[c] = outbox[c]
    BY Zenon, <1>1 DEF ReportStatus, UpdateStatus, Enqueue
  <2> QED BY Zenon, <2>1, <2>2 DEF OutboxEffect
<1>4. \A k \in Leases, t \in Now : Finish(k, t) => OutboxEffect(c)
  <2>1. \A k \in Leases, t \in Now : Finish(k, t) => c = Turn(k) \/ outbox'[c] = outbox[c]
    BY Zenon, <1>1 DEF Finish, FinishActive, FinishGone, Enqueue
  <2> QED BY Zenon, <2>1 DEF OutboxEffect
<1>5. \A s \in Stoppers : recordTurnControlFailure(s) => OutboxEffect(c)
  <2>1. \A s \in Stoppers : recordTurnControlFailure(s) => c = Stopper(s) \/ outbox'[c] = outbox[c]
    BY Zenon, <1>1 DEF recordTurnControlFailure, Enqueue
  <2> QED BY Zenon, <2>1 DEF OutboxEffect
<1>6. \A s \in Stoppers, k \in Leases : RequestStop(s, k) => OutboxEffect(c)
  <2>1. \A s \in Stoppers, k \in Leases : RequestStop(s, k) => c = Stopper(s) \/ outbox'[c] = outbox[c]
    BY Zenon, <1>1 DEF RequestStop, Enqueue
  <2> QED BY Zenon, <2>1 DEF OutboxEffect
<1>7. \A t \in Now : Sweep(t) => OutboxEffect(c)
  <2>1. \A t \in Now : Sweep(t) => (c[1] = "janitor" /\ c[2] \in Expired(t)) \/ outbox'[c] = outbox[c]
    BY Zenon DEF Sweep
  <2>2. c[1] = "janitor" => c[2] \in Leases /\ c = Janitor(c[2])
    BY DEF Callers, Janitor
  <2> QED BY Zenon, <2>1, <2>2 DEF OutboxEffect
<1>8. \A d \in Callers : Publish(d) => OutboxEffect(c)
  BY Zenon, <1>1 DEF Publish, OutboxEffect
<1>9. UNCHANGED outbox => OutboxEffect(c)
  BY SMTT(30) DEF OutboxEffect
<1>10. \/ UNCHANGED outbox
       \/ \E k \in Leases, t \in Now : StartWork(k, t) \/ Renew(k, t) \/ LatePut(k, t) \/ Finish(k, t)
       \/ \E k \in Leases : InitialStatus(k) \/ ReportStatus(k)
       \/ \E k \in Leases, s \in Stoppers : RequestStop(s, k)
       \/ \E s \in Stoppers : recordTurnControlFailure(s)
       \/ \E t \in Now : Sweep(t)
       \/ \E d \in Callers : Publish(d)
  BY ZenonT(30) DEF Next, RegistryStep, TurnStep, RenewerStep, ObserverStep, StopperStep, vars,
     RegisterTurnController, RenewerExits, ObserveEvent, RunReturns, FinishTurn, Unregister,
     RecordStopped, Dispatch, StopTurn, CancelReturns, StopTimesOut, Tick
<1> QED
  BY Zenon, <1>2, <1>3, <1>4, <1>5, <1>6, <1>7, <1>8, <1>9, <1>10

(* StartOrRenew creates a lease only if it was startable. *)
LEMMA StartsStartable ==
  ASSUME TypeOK, Phases, Refused, NEW l \in Leases, NEW t \in Now, ~Active(l), ~Closed(l),
         StartWork(l, t) \/ Renew(l, t) \/ LatePut(l, t)
  PROVE  Startable(l)
<1>1. turn[l].pc \in {"recording", "done"} => clock >= turn[l].ended + MaxDelay /\ turn[l].ended \in Nat
  BY Zenon, Fields DEF Phases, Refused, Absent
<1>2. ~LatePut(l, t)
  BY <1>1, Fields, Constants DEF LatePut
<1> QED
  BY Zenon, <1>2 DEF StartWork, Renew, Startable, Renewing

LEMMA CreatedPreserved ==
  ASSUME TypeOK, Slots, Requests, Phases, Renewals, Refused, Created, [Next]_vars
  PROVE  Created'
<1> SUFFICES ASSUME NEW l \in Leases, Startable(l)'
             PROVE  /\ ~turn'[l].stopping
                    /\ \A s \in Stoppers : stopper'[s].lease # l
                    /\ \A c \in Callers : outbox'[c] # None => outbox'[c].lease # l
  BY Zenon DEF Created
<1>1. Startable(l) /\ ~Active(l) /\ ~Active(l)'
  BY Zenon, StartableEnds DEF Startable, Active
<1>2. /\ ~turn[l].stopping
      /\ \A s \in Stoppers : stopper[s].lease # l
      /\ \A c \in Callers : outbox[c] # None => outbox[c].lease # l
  BY Zenon, <1>1 DEF Created
<1>3. ~turn'[l].stopping
  BY ZenonT(30), <1>2, TurnEffects DEF TurnEffect
<1>4. \A s \in Stoppers : stopper'[s].lease # l
  BY SMTT(30), <1>1, <1>2, StopperEffects DEF StopperEffect, RequestStop
<1>5. \A c \in Callers : outbox'[c] # None => outbox'[c].lease # l
  <2>1. Moves \/ \E c \in Callers : Publish(c)
    BY Zenon, StepMoves DEF Next
  <2>2. \A c \in Callers, k \in Leases, lease \in ActiveLease, state \in {"working", "idle"} :
          Move(c, k, lease, state) => k # l
    BY <1>1, NoneApart DEF Move, Keep, TypeOK, Active
  <2>3. \A c, d \in Callers, k \in Leases, lease \in ActiveLease, state \in {"working", "idle"} :
          Move(c, k, lease, state) => outbox'[d] = outbox[d] \/ outbox'[d].lease = k
    BY DEF Move, Enqueue, updateFor, TypeOK
  <2>4. \A t \in Now, d \in Callers : Sweep(t) =>
          outbox'[d] = outbox[d] \/ (outbox'[d].lease \in Expired(t))
    BY DEF Sweep, ExpiredUpdate, updateFor
  <2>5. \A c, d \in Callers : Publish(c) => outbox'[d] = outbox[d] \/ outbox'[d] = None
    BY Zenon DEF Publish, TypeOK
  <2> QED BY <1>1, <1>2, <2>1, <2>2, <2>3, <2>4, <2>5 DEF Moves, Expired
<1> QED
  BY Zenon, <1>3, <1>4, <1>5

LEMMA RequestsPreserved ==
  ASSUME TypeOK, Phases, Refused, Created, Requests, [Next]_vars
  PROVE  Requests'
<1>1. \A l \in Leases : turn[l].stopping => turn'[l].stopping
  <2>1. \A l \in Leases, s \in Stoppers : StopTurn(s) /\ stopper[s].lease = l /\ ~turn[l].finished => turn'[l].stopping
    BY Zenon, AcceptsStop DEF Stoppable
  <2> QED BY Zenon, <2>1, TurnEffects DEF TurnEffect
<1>2. ASSUME NEW s \in Stoppers
      PROVE  /\ stopper'[s].pc # "idle" => stopper'[s].lease \in Leases
             /\ stopper'[s].pc = "cancel" => turn'[stopper'[s].lease].stopping
             /\ stopper'[s].pc = "failing" => stopper'[s].cause # "none"
  <2>1. StopperEffect(s)
    BY Zenon, StopperEffects
  <2>2. /\ stopper[s].pc # "idle" => stopper[s].lease \in Leases
        /\ stopper[s].pc = "cancel" => turn[stopper[s].lease].stopping
        /\ stopper[s].pc = "failing" => stopper[s].cause # "none"
    BY SMTT(30) DEF Requests
  <2>3. stopper'[s].pc # "idle" => stopper'[s].lease \in Leases
    BY ZenonT(30), <2>1, <2>2 DEF StopperEffect, Dispatch, StopTurn, CancelReturns, StopTimesOut, recordTurnControlFailure
  <2>4. stopper'[s].pc = "cancel" => turn'[stopper'[s].lease].stopping
    BY Zenon, <1>1, <2>1, <2>2 DEF StopperEffect
  <2>5. stopper'[s].pc = "failing" => stopper'[s].cause # "none"
    BY Zenon, <2>1, <2>2 DEF StopperEffect
  <2> QED BY Zenon, <2>3, <2>4, <2>5
<1>3. ASSUME NEW l \in Leases, Active(l)'
      PROVE  /\ turn'[l].stopping => activeByKey'[l].stopRequestedAt # 0
             /\ \A s \in Stoppers : stopper'[s].lease = l => activeByKey'[l].stopRequestedAt # 0
  <2>1. LeaseEffect(l)
    BY Zenon, LeaseEffects
  <2>2. \A s \in Stoppers : stopper'[s].lease = l => stopper[s].lease = l \/ RequestStop(s, l)
    BY Zenon, StopperEffects DEF StopperEffect
  <2>3. turn'[l].stopping => turn[l].stopping \/ \E s \in Stoppers : stopper[s].lease = l
    BY Zenon, TurnEffects DEF TurnEffect
  <2>4. \A s \in Stoppers : RequestStop(s, l) => activeByKey'[l].stopRequestedAt # 0
    <3>1. Active(l) => /\ Requested(activeByKey[l]).stopRequestedAt = activeByKey[l].revision + 1
                       /\ activeByKey[l].revision \in Nat
      BY Zenon, Fields DEF Requested, ActiveLease
    <3>2. \A s \in Stoppers : RequestStop(s, l) =>
            /\ Active(l)
            /\ \/ activeByKey'[l] = Requested(activeByKey[l])
               \/ activeByKey'[l] = activeByKey[l] /\ activeByKey[l].stopRequestedAt # 0
      BY Zenon DEF RequestStop, NeedsRequest, Keep, TypeOK
    <3> QED BY <3>1, <3>2
  <2>5. CASE \E s \in Stoppers : RequestStop(s, l)
    BY Zenon, <2>4, <2>5
  <2>6. CASE ~\E s \in Stoppers : RequestStop(s, l)
    <3>1. CASE Active(l)
      <4>1. activeByKey'[l].stopRequestedAt = activeByKey[l].stopRequestedAt
        BY Zenon, <1>3, <2>1, <2>6, <3>1, StartedIs DEF LeaseEffect
      <4> QED BY Zenon, <2>2, <2>3, <2>6, <3>1, <4>1 DEF Requests
    <3>2. CASE ~Active(l)
      <4>1. Startable(l)
        BY Zenon, <1>3, <2>1, <2>6, <3>2, StartsStartable DEF LeaseEffect, Active, OwnRequest
      <4> QED BY Zenon, <2>2, <2>3, <2>6, <4>1 DEF Created
    <3> QED BY Zenon, <3>1, <3>2
  <2> QED BY Zenon, <2>5, <2>6
<1> QED
  BY Zenon, <1>2, <1>3 DEF Requests, Active

LEMMA SlotsPreserved ==
  ASSUME TypeOK, Slots, Requests, [Next]_vars
  PROVE  Slots'
<1>1. ASSUME NEW l \in Leases, turn'[l].pc \in {"new", "start", "ended", "finished", "joining"}
      PROVE  Idle(Turn(l))'
  <2>1. Idle(Turn(l))
    BY ZenonT(30), <1>1, TurnEffects DEF Slots, TurnEffect, Held, RegisterTurnController, RunReturns, Unregister, FinishTurn
  <2>2. ~InitialStatus(l) /\ ~\E t \in Now : StartWork(l, t) \/ Finish(l, t)
    BY Zenon, <1>1, TurnActions DEF Moved
  <2>3. OutboxEffect(Turn(l))
    BY Zenon, OutboxEffects, CallersAre
  <2> QED BY SMTT(30), <2>1, <2>2, <2>3 DEF OutboxEffect, Idle, Turn, Renewer, Observer, Remote, Janitor, Stopper
<1>2. ASSUME NEW l \in Leases, observer'[l].pending
      PROVE  Idle(Observer(l))'
  <2>1. observer \in [Leases -> [sequence : Nat, pending : BOOLEAN]]
    BY Zenon DEF TypeOK
  <2>2. ~ReportStatus(l)
    BY Zenon, <1>2, <2>1 DEF ReportStatus
  <2>3. Idle(Observer(l))
    <3>1. \A k \in Leases : k # l /\ (ObserveEvent(k) \/ ReportStatus(k)) => observer'[l] = observer[l]
      BY Zenon, <2>1 DEF ObserveEvent, ReportStatus
    <3>2. ObserveEvent(l) => Idle(Observer(l))
      BY Zenon DEF ObserveEvent
    <3>3. observer'[l] = observer[l] => Idle(Observer(l))
      BY Zenon, <1>2 DEF Slots
    <3> QED BY Zenon, <2>2, <3>1, <3>2, <3>3, Writers
  <2>4. OutboxEffect(Observer(l))
    BY Zenon, OutboxEffects, CallersAre
  <2> QED BY Zenon, <2>2, <2>3, <2>4 DEF OutboxEffect, Idle, Turn, Renewer, Observer, Remote, Janitor, Stopper
<1>3. ASSUME NEW s \in Stoppers, stopper'[s].pc \in {"idle", "call", "cancel", "failing"}
      PROVE  Idle(Stopper(s))'
  <2>1. StopperEffect(s)
    BY SMTT(30), StopperEffects
  <2>2. Idle(Stopper(s))
    BY ZenonT(30), <1>3, <2>1 DEF Slots, StopperEffect, Dispatch, StopTurn, StopTimesOut
  <2>3. ~recordTurnControlFailure(s) /\ ~\E l \in Leases : RequestStop(s, l)
    <3>1. stopper[s] \in StopperState /\ DOMAIN stopper = Stoppers
      BY Zenon, Fields DEF TypeOK
    <3> QED BY <1>3, <3>1 DEF recordTurnControlFailure, RequestStop, StopperState
  <2>4. OutboxEffect(Stopper(s))
    BY Zenon, OutboxEffects, StoppersCall
  <2> QED BY Zenon, <2>2, <2>3, <2>4 DEF OutboxEffect, Idle, Turn, Renewer, Observer, Remote, Janitor, Stopper
<1> QED
  BY Zenon, <1>1, <1>2, <1>3 DEF Slots, Idle

LEMMA StopOwnedPreserved ==
  ASSUME TypeOK, Phases, Requests, StopOwned, [Next]_vars
  PROVE  StopOwned'
<1> SUFFICES ASSUME NEW l \in Leases, Active(l)', activeByKey'[l].stopState = "requested"
             PROVE  \/ turn'[l].stopping \/ turn'[l].finished
                    \/ \E s \in Stoppers : /\ stopper'[s].pc \in {"dispatch", "call", "cancel", "failing"}
                                           /\ stopper'[s].lease = l
                                           /\ stopper'[s].at = activeByKey'[l].stopRequestedAt
  BY Zenon DEF StopOwned, Active
<1>1. LeaseEffect(l)
  BY Zenon, LeaseEffects
<1>2. turn[l].stopping \/ turn[l].finished => turn'[l].stopping \/ turn'[l].finished
  BY Zenon, TurnEffects, AcceptsStop DEF TurnEffect, Held, Stoppable
<1>3. CASE \E s \in Stoppers : RequestStop(s, l) /\ activeByKey'[l] = Requested(activeByKey[l])
  <2>1. PICK s \in Stoppers : RequestStop(s, l)
    BY Zenon, <1>3
  <2>2. /\ stopper'[s].pc = "dispatch" /\ stopper'[s].lease = l
        /\ stopper'[s].at = activeByKey'[l].stopRequestedAt
    BY ZenonT(30), <2>1 DEF RequestStop, TypeOK
  <2> QED BY Zenon, <2>2
<1>4. CASE ~\E s \in Stoppers : RequestStop(s, l) /\ activeByKey'[l] = Requested(activeByKey[l])
  <2>1. /\ Active(l) /\ activeByKey[l].stopState = "requested"
        /\ activeByKey'[l].stopRequestedAt = activeByKey[l].stopRequestedAt
    BY ZenonT(30), <1>1, <1>4, StartedIs, Fields DEF LeaseEffect, Active, OwnRequest, Requests, recordTurnControlFailure
  <2>2. SUFFICES ASSUME NEW s \in Stoppers, stopper[s].pc \in {"dispatch", "call", "cancel", "failing"},
                        stopper[s].lease = l, stopper[s].at = activeByKey[l].stopRequestedAt
                 PROVE  \/ turn'[l].stopping \/ turn'[l].finished
                        \/ /\ stopper'[s].pc \in {"dispatch", "call", "cancel", "failing"}
                           /\ stopper'[s].lease = l /\ stopper'[s].at = stopper[s].at
    BY Zenon, <1>2, <2>1 DEF StopOwned
  <2>3. StopperEffect(s)
    BY Zenon, StopperEffects
  <2>4. controllers = {} => turn[l].finished
    BY Zenon, <2>1, Fields DEF Phases, TurnState, TurnPhases
  <2>5. stopper[s].pc = "cancel" => turn[l].stopping
    BY Zenon, <2>2 DEF Requests
  <2>6. OwnRequest(s, l) /\ (stopper[s].pc = "failing" => stopper[s].cause # "requested")
    BY Zenon, <2>1, <2>2, Fields DEF OwnRequest
  <2> QED BY SMTT(30), <1>2, <2>2, <2>3, <2>4, <2>5, <2>6 DEF StopperEffect, RequestStop, CancelReturns, recordTurnControlFailure
<1> QED
  BY Zenon, <1>3, <1>4

LEMMA FailureIsOwnPreserved ==
  ASSUME TypeOK, Requests, FailureIsOwn, [Next]_vars
  PROVE  FailureIsOwn'
<1> SUFFICES ASSUME NEW l \in Leases, Active(l)', activeByKey'[l].stopState \in {"failed", "timed_out"}
             PROVE  \E s \in Stoppers : /\ stopper'[s].pc = "done" /\ stopper'[s].lease = l
                                        /\ stopper'[s].at = activeByKey'[l].stopRequestedAt
                                        /\ stopper'[s].cause = activeByKey'[l].stopState
  BY Zenon DEF FailureIsOwn, Active
<1>1. LeaseEffect(l)
  BY Zenon, LeaseEffects
<1>2. CASE \E s \in Stoppers : /\ recordTurnControlFailure(s) /\ stopper[s].lease = l /\ OwnRequest(s, l)
                               /\ activeByKey'[l].stopRequestedAt = activeByKey[l].stopRequestedAt
                               /\ activeByKey'[l].stopState = stopper[s].cause
  <2>1. PICK s \in Stoppers : /\ recordTurnControlFailure(s) /\ stopper[s].lease = l /\ OwnRequest(s, l)
                              /\ activeByKey'[l].stopRequestedAt = activeByKey[l].stopRequestedAt
                              /\ activeByKey'[l].stopState = stopper[s].cause
    BY Zenon, <1>2
  <2>2. /\ stopper'[s].pc = "done" /\ stopper'[s].lease = stopper[s].lease
        /\ stopper'[s].at = stopper[s].at /\ stopper'[s].cause = stopper[s].cause
    <3>1. stopper[s] \in StopperState /\ DOMAIN stopper = Stoppers
      BY Zenon, Fields DEF TypeOK
    <3> QED BY Zenon, <2>1, <3>1 DEF recordTurnControlFailure, StopperState
  <2> QED BY Zenon, <2>1, <2>2 DEF OwnRequest
<1>3. CASE /\ Active(l) /\ activeByKey'[l].stopState = activeByKey[l].stopState
           /\ activeByKey'[l].stopRequestedAt = activeByKey[l].stopRequestedAt
  <2>1. PICK s \in Stoppers : /\ stopper[s].pc = "done" /\ stopper[s].lease = l
                              /\ stopper[s].at = activeByKey[l].stopRequestedAt
                              /\ stopper[s].cause = activeByKey[l].stopState
    BY SMTT(30), <1>3 DEF FailureIsOwn
  <2>2. stopper'[s] = stopper[s]
    BY ZenonT(30), <2>1, StopperEffects DEF StopperEffect, RequestStop, Dispatch, StopTurn, CancelReturns, StopTimesOut,
       recordTurnControlFailure
  <2> QED BY Zenon, <1>3, <2>1, <2>2
<1>4. Active(l) => Requested(activeByKey[l]).stopState = "requested"
  BY Zenon, Fields DEF Requested, ActiveLease
<1> QED
  BY Zenon, <1>1, <1>2, <1>3, <1>4, StartedIs DEF LeaseEffect, Active

LEMMA RevisionsPreserved ==
  ASSUME TypeOK, Created, Revisions, Moves \/ \E c \in Callers : Publish(c)
  PROVE  Revisions'
<1>1. \A c \in Callers : outbox[c] # None => outbox[c].revision \in Nat /\ outbox[c].lease \in Leases
  BY SMTT(30), Fields DEF ParticipantWorkUpdate
<1>2. \A l \in Leases : Active(l) => activeByKey[l].revision \in Nat
  BY ZenonT(30), Fields, LeaseWith
<1>3. ASSUME NEW k \in Callers, NEW l \in Leases, NEW lease \in ActiveLease, NEW state \in {"working", "idle"},
             Move(k, l, lease, state)
      PROVE  Revisions'
  <2>1. /\ outbox'[k] # None /\ outbox'[k].lease = l /\ outbox'[k].revision = lease.revision
        /\ \A c \in Callers \ {k} : outbox'[c] = outbox[c]
        /\ \A m \in Leases \ {l} : activeByKey'[m] = activeByKey[m]
        /\ Active(l)' => activeByKey'[l] = lease
    <3>1. updateFor(l, lease, state) # None
      BY SMTT(30), NoneApart, UpdateIs
    <3> QED BY ZenonT(30), <1>3, <3>1 DEF Move, Keep, Enqueue, updateFor, TypeOK, Active
  <2>2. lease.revision \in Nat
    BY ZenonT(30), LeaseWith
  <2>3. \A c \in Callers : outbox[c] # None /\ outbox[c].lease = l => outbox[c].revision < lease.revision
    BY SMTT(30), <1>1, <1>2, <1>3, <2>2 DEF Move, Created, Revisions
  <2>4. ASSUME NEW c \in Callers, NEW d \in Callers, c # d, outbox'[c] # None, outbox'[d] # None,
               outbox'[c].lease = outbox'[d].lease
        PROVE  outbox'[c].revision # outbox'[d].revision
    BY <1>1, <2>1, <2>2, <2>3, <2>4 DEF Revisions
  <2>5. ASSUME NEW c \in Callers, outbox'[c] # None, activeByKey'[outbox'[c].lease] # None
        PROVE  outbox'[c].revision <= activeByKey'[outbox'[c].lease].revision
    <3>1. CASE c = k
      BY <2>1, <2>2, <2>5, <3>1 DEF Active
    <3>2. CASE c # k /\ outbox[c].lease = l
      BY SMTT(30), <1>1, <2>1, <2>2, <2>3, <2>5, <3>2 DEF Active
    <3>3. CASE c # k /\ outbox[c].lease # l
      BY <1>1, <2>1, <2>5, <3>3 DEF Revisions, Active
    <3> QED BY ZenonT(30), <3>1, <3>2, <3>3
  <2> QED BY Zenon, <2>4, <2>5 DEF Revisions, Active
<1>4. ASSUME NEW t \in Now, Sweep(t)
      PROVE  Revisions'
  <2>1. \A c \in Callers :
          \/ outbox'[c] = outbox[c] /\ ~\E l \in Expired(t) : c = Janitor(l)
          \/ \E l \in Expired(t) : /\ c = Janitor(l) /\ outbox'[c].lease = l
                                   /\ outbox'[c].revision = activeByKey[l].revision + 1
    <3>1. \A l \in Leases : Active(l) => [activeByKey[l] EXCEPT !.revision = @ + 1].revision = activeByKey[l].revision + 1
      BY Zenon, Fields DEF ActiveLease
    <3>2. \A l \in Expired(t) : /\ ExpiredUpdate(l).lease = l
                                /\ ExpiredUpdate(l).revision = activeByKey[l].revision + 1
      BY Zenon, <3>1 DEF ExpiredUpdate, updateFor, Expired
    <3>3. \A c \in Callers : c[1] = "janitor" => c = Janitor(c[2])
      BY DEF Callers, Janitor
    <3>4. \A l \in Leases : Janitor(l)[1] = "janitor" /\ Janitor(l)[2] = l
      BY Zenon DEF Janitor
    <3>5. \A c \in Callers : outbox'[c] = IF c[1] = "janitor" /\ c[2] \in Expired(t) THEN ExpiredUpdate(c[2]) ELSE outbox[c]
      BY Zenon, <1>4 DEF Sweep
    <3> QED BY <3>2, <3>3, <3>4, <3>5 DEF Expired
  <2>2. \A l \in Leases : activeByKey'[l] = IF l \in Expired(t) THEN None ELSE activeByKey[l]
    BY Zenon, <1>4 DEF Sweep
  <2>3. \A l \in Expired(t) : l \in Leases /\ Active(l)
    BY ZenonT(30) DEF Expired
  <2>4. ASSUME NEW c \in Callers, NEW d \in Callers, c # d, outbox'[c] # None, outbox'[d] # None,
               outbox'[c].lease = outbox'[d].lease
        PROVE  outbox'[c].revision # outbox'[d].revision
    BY <1>1, <1>2, <2>1, <2>3, <2>4 DEF Revisions
  <2>5. ASSUME NEW c \in Callers, outbox'[c] # None, activeByKey'[outbox'[c].lease] # None
        PROVE  outbox'[c].revision <= activeByKey'[outbox'[c].lease].revision
    <3>1. outbox'[c] = outbox[c]
      BY Zenon, <2>1, <2>2, <2>3, <2>5 DEF Active
    <3> QED BY Zenon, <1>1, <2>2, <2>5, <3>1 DEF Revisions, Active
  <2> QED BY ZenonT(30), <2>4, <2>5 DEF Revisions, Active
<1>5. ASSUME NEW k \in Callers, Publish(k)
      PROVE  Revisions'
  BY ZenonT(30), <1>5 DEF Publish, Revisions, TypeOK, Active
<1>6. UNCHANGED <<activeByKey, outbox>> => Revisions'
  BY Zenon DEF Revisions, Active
<1> QED
  BY ZenonT(30), <1>3, <1>4, <1>5, <1>6 DEF Moves

LEMMA InitHolds == Init => IInv
<1> SUFFICES ASSUME Init PROVE IInv
  BY Zenon
<1>1. TypeOK
  <2>1. [pc |-> "new", finished |-> FALSE, stopping |-> FALSE, canceled |-> FALSE, result |-> "none",
         ended |-> Absent, late |-> FALSE] \in TurnState
    BY Zenon DEF TurnState, TurnPhases, TurnResults
  <2>2. turn \in [Leases -> TurnState]
    BY Zenon, <2>1 DEF Init
  <2>3. stopper \in [Stoppers -> StopperState]
    BY Zenon DEF Init, StopperState, StopperPhases, StopperCauses
  <2>4. observer \in [Leases -> [sequence : Nat, pending : BOOLEAN]]
    BY Zenon DEF Init
  <2>5. renewer \in [Leases -> [pc : {"off", "waiting", "done"}, last : Nat]]
    BY ZenonT(30) DEF Init
  <2>6. /\ clock \in 0..MaxClock /\ activeByKey \in [Leases -> ActiveLease \cup {None}]
        /\ tombstones \in [Leases -> Nat \cup {Absent}] /\ activeBySubject \subseteq Leases
        /\ controllers \subseteq Leases /\ outbox \in [Callers -> ParticipantWorkUpdate \cup {None}]
        /\ recorded \subseteq Leases
    BY Constants DEF Init
  <2> QED BY Zenon, <2>2, <2>3, <2>4, <2>5, <2>6 DEF TypeOK
<1>2. \A l \in Leases : /\ ~Active(l) /\ ~Closed(l) /\ Idle(Turn(l)) /\ Idle(Observer(l)) /\ ~Renewing(l)
                        /\ turn[l].pc = "new" /\ turn[l].ended = Absent /\ ~turn[l].finished /\ ~turn[l].stopping
                        /\ renewer[l].pc = "off" /\ l \notin controllers
  BY Zenon, CallersAre DEF Init, Active, Closed, Idle, Renewing
<1>3. \A s \in Stoppers : stopper[s].pc = "idle" /\ stopper[s].lease = None /\ Idle(Stopper(s))
  BY Zenon, StoppersCall DEF Init, Idle
<1>4. \A c \in Callers : outbox[c] = None
  BY Zenon DEF Init
<1>5. Phases /\ Renewals /\ Refused /\ StopOwned /\ FailureIsOwn
  BY Zenon, <1>2 DEF Phases, Renewals, Refused, StopOwned, FailureIsOwn
<1>6. Created /\ Requests /\ Revisions /\ Slots
  BY Zenon, <1>2, <1>3, <1>4, NoneApart DEF Created, Requests, Revisions, Slots
<1> QED
  BY Zenon, <1>1, <1>5, <1>6 DEF IInv

LEMMA StepHolds == IInv /\ [Next]_vars => IInv'
<1> SUFFICES ASSUME IInv, [Next]_vars PROVE IInv'
  BY Zenon
<1> USE DEF IInv
<1>1. Moves \/ \E c \in Callers : Publish(c)
  BY Zenon, StepMoves DEF Next
<1>2. TypeOK' /\ Slots' /\ Phases'
  BY Zenon, <1>1, TypePreserved, SlotsPreserved, PhasesPreserved
<1>3. Renewals' /\ Refused' /\ Created'
  BY Zenon, RenewalsPreserved, RefusedPreserved, CreatedPreserved
<1>4. Requests' /\ Revisions'
  BY Zenon, <1>1, RequestsPreserved, RevisionsPreserved
<1>5. StopOwned' /\ FailureIsOwn'
  BY Zenon, StopOwnedPreserved, FailureIsOwnPreserved
<1> QED
  BY Zenon, <1>2, <1>3, <1>4, <1>5

(* The registry's invariant holds in every reachable state. *)
THEOREM Invariance == Spec => []IInv
  BY InitHolds, StepHolds, PTL DEF Spec

(* The registry's maps stay well typed and every caller keeps to its         *)
(* protocol.                                                                 *)
THEOREM TypeSafety == Spec => []TypeOK
  BY Invariance, PTL DEF IInv

(* A lease whose turn has finished it is never active again, whatever        *)
(* renewals and late PUTs were under way: Registry.StartOrRenew meets the    *)
(* tombstone that Registry.Finish left.                                      *)
THEOREM EndedLeasesStayEnded == Spec => []EndedStaysEnded
<1>1. IInv => EndedStaysEnded
  BY Zenon DEF IInv, Refused, EndedStaysEnded
<1> QED
  BY <1>1, Invariance, PTL

(* "stop requested" is never left behind by all the calls that could answer  *)
(* it (Registry.RequestStop, TurnControlDispatcher.StopTurn).                *)
THEOREM RequestedStopsAreOwned == Spec => []StopOwned
  BY Invariance, PTL DEF IInv

(* recordTurnControlFailure only ever reports the failure of the request     *)
(* that is the latest.                                                       *)
THEOREM FailuresAreOwn == Spec => []FailureIsOwn
  BY Invariance, PTL DEF IInv

(* The revision orders the updates of a lease, whoever publishes them first. *)
THEOREM RevisionsIdentifyUpdates == Spec => []RevisionsIdentify
<1>1. IInv => RevisionsIdentify
  BY Zenon DEF IInv, Revisions, RevisionsIdentify, Updates
<1> QED
  BY <1>1, Invariance, PTL

-----------------------------------------------------------------------------
(* The view.                                                               *)

LEMMA FlightIs ==
  ASSUME TypeOK, ViewTypeOK
  PROVE  /\ \A u \in Flight : /\ u \in ParticipantWorkUpdate /\ u # None /\ u.lease \in Leases
                              /\ u.revision \in Nat /\ u.revision > 0 /\ u.expiresAt \in Nat
         /\ \A l \in Leases : view[l].revision \in Nat /\ view[l].until \in Nat
         /\ \A c \in Callers : outbox[c] # None => outbox[c] \in Flight
         /\ \A i \in DOMAIN stream : stream[i] \in Flight
         /\ \A u \in Flight : (\E c \in Callers : outbox[c] = u) \/ (\E i \in DOMAIN stream : stream[i] = u)
<1>1. \A c \in Callers : outbox[c] # None => outbox[c] \in Flight
  BY Zenon DEF Flight, Updates
<1>2. \A i \in DOMAIN stream : stream[i] \in Flight
  BY Zenon DEF Flight
<1>3. \A u \in Flight : (\E c \in Callers : outbox[c] = u /\ u # None) \/ (\E i \in DOMAIN stream : stream[i] = u)
  BY Zenon DEF Flight, Updates
<1>4. \A i \in DOMAIN stream : stream[i] \in ParticipantWorkUpdate
  BY DEF ViewTypeOK
<1>5. \A u \in Flight : u \in ParticipantWorkUpdate
  BY Zenon, <1>3, <1>4, Fields
<1>6. \A u \in Flight : /\ u # None /\ u.lease \in Leases
                        /\ u.revision \in Nat /\ u.revision > 0 /\ u.expiresAt \in Nat
  BY <1>5, NoneApart DEF ParticipantWorkUpdate
<1>7. \A l \in Leases : view[l].revision \in Nat /\ view[l].until \in Nat
  BY Zenon DEF ViewTypeOK
<1> QED
  BY Zenon, <1>1, <1>2, <1>3, <1>5, <1>6, <1>7

(* A step of the server adds the updates it enqueues. *)
LEMMA MoveFlight ==
  ASSUME TypeOK, UNCHANGED stream,
         NEW c \in Callers, NEW l \in Leases, NEW lease \in ActiveLease, NEW state \in {"working", "idle"},
         Move(c, l, lease, state)
  PROVE  Flight' = Flight \cup {updateFor(l, lease, state)}
<1> DEFINE u == updateFor(l, lease, state)
<1>1. u # None
  BY Zenon, UpdateIs
<1>2. outbox' = [outbox EXCEPT ![c] = u] /\ outbox[c] = None /\ DOMAIN outbox = Callers
  BY Zenon DEF Move, Enqueue, Idle, TypeOK
<1> HIDE DEF u
<1>3. Updates' = Updates \cup {u}
  BY Zenon, <1>1, <1>2 DEF Updates
<1> QED
  BY Zenon, <1>3 DEF Flight, u

LEMMA SweepFlight ==
  ASSUME TypeOK, UNCHANGED stream, NEW t \in Now, Sweep(t)
  PROVE  /\ Flight' = Flight \cup {ExpiredUpdate(l) : l \in Expired(t)}
         /\ \A l \in Expired(t) : /\ ExpiredUpdate(l).lease = l /\ ExpiredUpdate(l).state = "idle"
                                  /\ ExpiredUpdate(l).revision = activeByKey[l].revision + 1
                                  /\ ExpiredUpdate(l) # None
<1>1. \A l \in Expired(t) : /\ ExpiredUpdate(l).lease = l /\ ExpiredUpdate(l).state = "idle"
                            /\ ExpiredUpdate(l).revision = activeByKey[l].revision + 1
                            /\ ExpiredUpdate(l) # None
  <2>1. \A l \in Expired(t) : l \in Leases /\ activeByKey[l] \in ActiveLease
    BY Zenon, Fields DEF Expired
  <2>2. \A l \in Expired(t) : /\ [activeByKey[l] EXCEPT !.revision = @ + 1] \in ActiveLease
                              /\ [activeByKey[l] EXCEPT !.revision = @ + 1].revision = activeByKey[l].revision + 1
    BY Zenon, <2>1, LeaseWith DEF ActiveLease
  <2>3. SUFFICES ASSUME NEW l \in Expired(t)
                  PROVE  /\ ExpiredUpdate(l).lease = l /\ ExpiredUpdate(l).state = "idle"
                         /\ ExpiredUpdate(l).revision = activeByKey[l].revision + 1
                         /\ ExpiredUpdate(l) # None
    BY Zenon
  <2> DEFINE a == [activeByKey[l] EXCEPT !.revision = @ + 1]
  <2>4. l \in Leases /\ a \in ActiveLease /\ a.revision = activeByKey[l].revision + 1
    BY Zenon, <2>1, <2>2
  <2>5. ExpiredUpdate(l) = updateFor(l, a, "idle")
    BY Zenon DEF ExpiredUpdate
  <2> HIDE DEF a
  <2> QED BY <2>4, <2>5, UpdateIs
<1>2. \A c \in Callers : outbox'[c] = IF c[1] = "janitor" /\ c[2] \in Expired(t) THEN ExpiredUpdate(c[2]) ELSE outbox[c]
  BY Zenon DEF Sweep
<1>3. \A c \in Callers : c[1] = "janitor" => c = Janitor(c[2]) /\ c[2] \in Leases
  BY DEF Callers, Janitor
<1>4. \A l \in Leases : Janitor(l)[1] = "janitor" /\ Janitor(l)[2] = l /\ Janitor(l) \in Callers /\ outbox[Janitor(l)] = None
  BY Zenon, CallersAre DEF Janitor, Sweep, Idle
<1>5. Updates' = Updates \cup {ExpiredUpdate(l) : l \in Expired(t)}
  <2>1. \A u : u \in Updates' => u \in Updates \cup {ExpiredUpdate(l) : l \in Expired(t)}
    BY Zenon, <1>2 DEF Updates
  <2>2. \A u \in Updates : u \in Updates'
    BY SMTT(30), <1>2, <1>3, <1>4 DEF Updates
  <2>3. \A l \in Expired(t) : ExpiredUpdate(l) \in Updates'
    BY <1>1, <1>2, <1>4 DEF Updates, Expired
  <2> QED BY Zenon, <2>1, <2>2, <2>3
<1> QED
  BY ZenonT(30), <1>1, <1>5 DEF Flight

(* Publishing loses nothing but what it says is lost, and so does a          *)
(* reconnect.                                                                *)
Loses ==
  /\ Flight' \subseteq Flight /\ lost \subseteq lost'
  /\ \A v \in Flight : v.lease \notin lost' => v \in Flight'

LEMMA PublishFlight ==
  ASSUME TypeOK, ViewTypeOK, NEW c \in Callers, PublishToStream(c)
  PROVE  Loses
<1> DEFINE u == outbox[c]
<1>1. u # None /\ u \in ParticipantWorkUpdate /\ u \in Flight
  BY Zenon, Fields, FlightIs DEF PublishToStream, Publish, Idle
<1>2. outbox' = [outbox EXCEPT ![c] = None] /\ DOMAIN outbox = Callers
  BY Zenon DEF PublishToStream, Publish, TypeOK
<1>3. Updates' \subseteq Updates /\ Updates \subseteq Updates' \cup {u}
  BY Zenon, <1>2 DEF Updates
<1>4. CASE HasRoom
  <2>1. stream' = Append(stream, u) /\ lost' = lost /\ stream \in Seq(ParticipantWorkUpdate)
    BY ZenonT(30), <1>4 DEF PublishToStream, Deliver, ViewTypeOK
  <2>2. {stream'[i] : i \in DOMAIN stream'} = {stream[i] : i \in DOMAIN stream} \cup {u}
    BY <1>1, <2>1
  <2> QED BY Zenon, <1>1, <1>3, <2>1, <2>2 DEF Loses, Flight
<1>5. CASE ~HasRoom
  <2>1. stream' = stream /\ lost' = lost \cup {u.lease}
    BY Zenon, <1>5 DEF PublishToStream, Deliver
  <2> QED BY Zenon, <1>1, <1>3, <2>1 DEF Loses, Flight
<1> QED
  BY Zenon, <1>4, <1>5

LEMMA ReconnectFlight ==
  ASSUME Reconnect
  PROVE  Loses
<1>1. Updates' = Updates
  BY Zenon DEF Reconnect, vars, Updates
<1>2. stream' = <<>> /\ lost' = lost \cup {stream[i].lease : i \in DOMAIN stream}
  BY Zenon DEF Reconnect
<1> QED
  BY <1>1, <1>2 DEF Loses, Flight

(* The reducer takes the oldest update of the stream. *)
LEMMA ApplyFlight ==
  ASSUME TypeOK, ViewTypeOK, Once, applyWorkEvent
  PROVE  Head(stream) \in Flight /\ Flight' = Flight \ {Head(stream)}
<1>1. stream \in Seq(ParticipantWorkUpdate) /\ stream # <<>> /\ stream' = Tail(stream)
  BY Zenon DEF applyWorkEvent, ViewTypeOK
<1>2. Head(stream) = stream[1] /\ 1 \in DOMAIN stream
  BY <1>1
<1>3. {stream'[i] : i \in DOMAIN stream'} = {stream[i] : i \in DOMAIN stream \ {1}}
  <2>1. DOMAIN stream' = 1..(Len(stream) - 1) /\ \A i \in DOMAIN stream' : stream'[i] = stream[i + 1]
    BY <1>1
  <2>2. DOMAIN stream = 1..Len(stream) /\ Len(stream) \in Nat
    BY <1>1
  <2>3. \A i \in DOMAIN stream \ {1} : i - 1 \in DOMAIN stream' /\ stream'[i - 1] = stream[i]
    BY <2>1, <2>2
  <2>4. \A i \in DOMAIN stream' : i + 1 \in DOMAIN stream \ {1}
    BY <2>1, <2>2
  <2> QED BY <2>1, <2>3, <2>4
<1>4. Updates' = Updates
  BY Zenon DEF applyWorkEvent, vars, Updates
<1>5. stream[1] \notin Updates /\ \A i \in DOMAIN stream \ {1} : stream[i] # stream[1]
  BY Zenon, <1>2 DEF Once, Updates
<1> QED
  BY Zenon, <1>2, <1>3, <1>4, <1>5 DEF Flight

(* u tells what the step did to its lease, and is newer than whatever was    *)
(* told of it before.                                                        *)
Tells(u) ==
  /\ u.lease \in Leases /\ u.revision \in Nat /\ u.revision > view[u.lease].revision
  /\ \A v \in Flight : v.lease = u.lease => v.revision < u.revision
  /\ u.state = "working" => u.expiresAt <= clock + TTL
  /\ activeByKey'[u.lease] # None => u = updateFor(u.lease, activeByKey'[u.lease], "working")
  /\ activeByKey'[u.lease] = None => u.state = "idle" /\ ~Startable(u.lease)

Announces(news) ==
  /\ Flight' = Flight \cup news
  /\ \A u \in news : Tells(u)
  /\ \A u, v \in news : u.lease = v.lease => u = v
  /\ \A l \in Leases : activeByKey'[l] = activeByKey[l] \/ \E u \in news : u.lease = l

LEMMA MoveAnnounces ==
  ASSUME TypeOK, ViewTypeOK, Bounded, InTime, UNCHANGED stream,
         NEW c \in Callers, NEW l \in Leases, NEW lease \in ActiveLease, NEW state \in {"working", "idle"},
         Move(c, l, lease, state)
  PROVE  Announces({updateFor(l, lease, state)})
<1> DEFINE u == updateFor(l, lease, state)
<1>1. /\ u.lease = l /\ u.revision = lease.revision /\ u.state = state /\ u.expiresAt = lease.expiresAt
      /\ u = updateFor(l, lease, state)
  BY UpdateIs
<1>2. Flight' = Flight \cup {u}
  BY ZenonT(30), MoveFlight
<1>3. /\ Idle(c) /\ UNCHANGED clock
      /\ activeByKey' = [activeByKey EXCEPT ![l] = IF state = "working" THEN lease ELSE None]
      /\ DOMAIN activeByKey = Leases
  BY Zenon DEF Move, Keep, TypeOK
<1>4. IF Active(l)
      THEN /\ lease.revision = activeByKey[l].revision + 1
           /\ lease.expiresAt <= clock + TTL \/ lease.expiresAt = activeByKey[l].expiresAt
      ELSE /\ Startable(l) /\ state = "working"
           /\ lease.revision = 1 /\ lease.expiresAt <= clock + TTL
  BY SMTT(30) DEF Move
<1>5. lease.revision \in Nat /\ lease # None
  BY ZenonT(30), LeaseWith, NoneApart
<1>6. Active(l) => activeByKey[l].revision \in Nat /\ ~Startable(l)
  BY ZenonT(30), Fields, LeaseWith DEF Startable
<1> HIDE DEF u
<1>7. u.revision > view[l].revision /\ \A v \in Flight : v.lease = l => v.revision < u.revision
  <2>1. CASE Active(l)
    BY SMTT(30), <1>1, <1>4, <1>5, <1>6, <2>1, FlightIs DEF Bounded
  <2>2. CASE ~Active(l)
    BY <1>1, <1>4, <1>5, <2>2, FlightIs DEF Bounded, Unknown
  <2> QED BY ZenonT(30), <2>1, <2>2
<1>8. u.expiresAt <= clock + TTL
  BY Zenon, <1>1, <1>4 DEF InTime
<1>9. Tells(u)
  <2>1. activeByKey'[l] # None => state = "working" /\ activeByKey'[l] = lease
    BY Zenon, <1>3
  <2>2. activeByKey'[l] = None => state = "idle"
    BY Zenon, <1>3, <1>5
  <2>3. state = "idle" => ~Startable(l)
    BY Zenon, <1>4, <1>6
  <2> QED BY Zenon, <1>1, <1>5, <1>7, <1>8, <2>1, <2>2, <2>3 DEF Tells
<1>10. \A m \in Leases : m # l => activeByKey'[m] = activeByKey[m]
  BY Zenon, <1>3
<1>11. Announces({u})
  BY ZenonT(30), <1>1, <1>2, <1>9, <1>10 DEF Announces
<1> QED
  BY ZenonT(30), <1>1, <1>11

LEMMA SweepAnnounces ==
  ASSUME TypeOK, ViewTypeOK, Bounded, UNCHANGED stream, NEW t \in Now, Sweep(t)
  PROVE  Announces({ExpiredUpdate(l) : l \in Expired(t)})
<1> DEFINE news == {ExpiredUpdate(l) : l \in Expired(t)}
<1>1. /\ Flight' = Flight \cup news
      /\ \A l \in Expired(t) : /\ ExpiredUpdate(l).lease = l /\ ExpiredUpdate(l).state = "idle"
                               /\ ExpiredUpdate(l).revision = activeByKey[l].revision + 1
  BY ZenonT(30), SweepFlight
<1>2. \A l \in Leases : activeByKey'[l] = IF l \in Expired(t) THEN None ELSE activeByKey[l]
  BY SMTT(30) DEF Sweep
<1>3. \A l \in Expired(t) : l \in Leases /\ Active(l) /\ ~Startable(l) /\ activeByKey[l].revision \in Nat
  BY ZenonT(30), Fields, LeaseWith DEF Expired, Startable
<1>4. ASSUME NEW l \in Expired(t)
      PROVE  Tells(ExpiredUpdate(l))
  <2>1. \A v \in Flight : v.lease = l => v.revision < activeByKey[l].revision + 1
    BY SMTT(30), <1>3, FlightIs DEF Bounded
  <2>2. view[l].revision < activeByKey[l].revision + 1
    BY <1>3, FlightIs DEF Bounded
  <2> QED BY SMTT(30), <1>1, <1>2, <1>3, <2>1, <2>2 DEF Tells
<1>5. \A u, v \in news : u.lease = v.lease => u = v
  BY Zenon, <1>1
<1>6. \A l \in Leases : activeByKey'[l] = activeByKey[l] \/ \E u \in news : u.lease = l
  BY Zenon, <1>1, <1>2
<1> QED
  BY <1>1, <1>4, <1>5, <1>6 DEF Announces

LEMMA ServerAnnounces ==
  ASSUME TypeOK, ViewTypeOK, Bounded, InTime, UNCHANGED stream, Moves
  PROVE  \E news : Announces(news)
<1>1. UNCHANGED <<activeByKey, outbox>> => Announces({})
  BY Zenon DEF Announces, Flight, Updates
<1> QED
  BY ZenonT(30), <1>1, MoveAnnounces, SweepAnnounces DEF Moves

LEMMA AnnouncedOnce ==
  ASSUME TypeOK, ViewTypeOK, Once, Bounded, InTime, UNCHANGED stream, Moves
  PROVE  Once'
<1>1. ASSUME NEW c \in Callers, NEW l \in Leases, NEW lease \in ActiveLease, NEW state \in {"working", "idle"},
             Move(c, l, lease, state)
      PROVE  Once'
  <2> DEFINE u == updateFor(l, lease, state)
  <2>1. Tells(u)
    BY ZenonT(30), <1>1, MoveAnnounces DEF Announces
  <2>2. u \notin Flight
    BY <2>1, FlightIs DEF Tells
  <2>3. outbox' = [outbox EXCEPT ![c] = u] /\ outbox[c] = None /\ DOMAIN outbox = Callers
    BY Zenon, <1>1 DEF Move, Enqueue, Idle, TypeOK
  <2> HIDE DEF u
  <2>4. (\A d \in Callers : outbox[d] # u \/ outbox[d] = None) /\ \A i \in DOMAIN stream : stream[i] # u
    BY Zenon, <2>2, FlightIs
  <2>5. u # None
    BY Zenon, UpdateIs DEF u
  <2> QED BY <2>3, <2>4, <2>5 DEF Once
<1>2. ASSUME NEW t \in Now, Sweep(t)
      PROVE  Once'
  <2>1. \A l \in Expired(t) : /\ Tells(ExpiredUpdate(l)) /\ ExpiredUpdate(l).lease = l
                              /\ ExpiredUpdate(l) # None
    BY SMTT(30), <1>2, SweepAnnounces, SweepFlight DEF Announces
  <2>2. \A l \in Expired(t) : ExpiredUpdate(l) \notin Flight
    BY <2>1, FlightIs DEF Tells
  <2>3. \A c \in Callers : outbox'[c] = IF c[1] = "janitor" /\ c[2] \in Expired(t) THEN ExpiredUpdate(c[2]) ELSE outbox[c]
    BY Zenon, <1>2 DEF Sweep
  <2>4. \A c \in Callers : c[1] = "janitor" => c = Janitor(c[2])
    BY DEF Callers, Janitor
  <2>5. \A c \in Callers, i \in DOMAIN stream : outbox'[c] # stream[i]
    BY SMTT(30), <2>2, <2>3, FlightIs DEF Once
  <2>6. \A c, d \in Callers : c # d /\ outbox'[c] # None => outbox'[c] # outbox'[d]
    BY <2>1, <2>2, <2>3, <2>4, FlightIs DEF Once
  <2> QED BY ZenonT(30), <2>5, <2>6 DEF Once
<1>3. UNCHANGED <<activeByKey, outbox>> => Once'
  BY Zenon DEF Once
<1> QED
  BY ZenonT(30), <1>1, <1>2, <1>3 DEF Moves

(* What a step of the server leaves true of the updates under way. *)
LEMMA AnnouncedHolds ==
  ASSUME TypeOK, ViewTypeOK, TypeOK', Distinct, Bounded, InTime, Faithful, UNCHANGED viewVars,
         clock <= clock', \A l \in Leases : Startable(l)' => Startable(l),
         NEW news, Announces(news)
  PROVE  Distinct' /\ Bounded' /\ InTime' /\ Faithful'
<1>1. /\ Flight' = Flight \cup news
      /\ \A u, v \in news : u.lease = v.lease => u = v
      /\ \A l \in Leases : activeByKey'[l] = activeByKey[l] \/ \E u \in news : u.lease = l
      /\ view' = view /\ lost' = lost
  BY Zenon DEF Announces, viewVars
<1>2. ASSUME NEW u \in news
      PROVE  /\ u.lease \in Leases /\ u.revision \in Nat /\ u.revision > view[u.lease].revision
             /\ \A v \in Flight : v.lease = u.lease => v.revision < u.revision
             /\ u.state = "working" => u.expiresAt <= clock + TTL
             /\ activeByKey'[u.lease] # None => /\ u = updateFor(u.lease, activeByKey'[u.lease], "working")
                                                /\ u.revision = activeByKey'[u.lease].revision
                                                /\ u.expiresAt = activeByKey'[u.lease].expiresAt
                                                /\ u.state = "working"
             /\ activeByKey'[u.lease] = None => u.state = "idle" /\ ~Startable(u.lease)
  <2>1. Tells(u)
    BY Zenon DEF Announces
  <2>2. activeByKey'[u.lease] # None => activeByKey'[u.lease] \in ActiveLease
    BY ZenonT(30), <2>1 DEF Tells, TypeOK
  <2>3. activeByKey'[u.lease] # None => /\ u.revision = activeByKey'[u.lease].revision
                                        /\ u.expiresAt = activeByKey'[u.lease].expiresAt
                                        /\ u.state = "working"
    <3>1. activeByKey'[u.lease] # None => u = updateFor(u.lease, activeByKey'[u.lease], "working")
      BY Zenon, <2>1 DEF Tells
    <3> QED BY <2>1, <2>2, <3>1, UpdateIs DEF Tells
  <2> QED BY Zenon, <2>1, <2>3 DEF Tells
<1>3. /\ \A u \in Flight : u.lease \in Leases /\ u.revision \in Nat /\ u.expiresAt \in Nat
      /\ \A l \in Leases : view[l].revision \in Nat /\ view[l].until \in Nat
  BY Zenon, FlightIs
<1>4. clock \in Nat /\ clock' \in Nat /\ TTL \in Nat
  BY Constants DEF TypeOK
<1>5. \A l \in Leases : activeByKey'[l] # None => activeByKey'[l].revision \in Nat /\ activeByKey'[l].expiresAt \in Nat
  BY Zenon DEF TypeOK, ActiveLease
<1>6. Distinct'
  <2>1. \A u, v \in Flight' : u.lease = v.lease /\ u.revision = v.revision => u = v
    BY SMTT(30), <1>1, <1>2, <1>3 DEF Distinct
  <2>2. \A u \in Flight' : u.revision # view'[u.lease].revision
    BY <1>1, <1>2, <1>3 DEF Distinct
  <2> QED BY ZenonT(30), <2>1, <2>2 DEF Distinct
<1>7. Bounded'
  <2> SUFFICES ASSUME NEW l \in Leases
               PROVE  /\ Startable(l)' => view'[l] = Unknown /\ \A u \in Flight' : u.lease # l
                      /\ activeByKey'[l] # None =>
                           /\ view'[l].revision <= activeByKey'[l].revision
                           /\ \A u \in Flight' : u.lease = l => u.revision <= activeByKey'[l].revision
    BY Zenon DEF Bounded, Active, Unknown
  <2>1. Startable(l)' => Startable(l) /\ activeByKey'[l] = None
    BY Zenon DEF Startable, Active
  <2>2. Startable(l)' => view'[l] = Unknown /\ \A u \in Flight' : u.lease # l
    BY ZenonT(30), <1>1, <1>2, <2>1 DEF Bounded
  <2>3. ASSUME NEW w \in news, w.lease = l, activeByKey'[l] # None
        PROVE  /\ view'[l].revision <= activeByKey'[l].revision
               /\ \A u \in Flight' : u.lease = l => u.revision <= activeByKey'[l].revision
    BY <1>1, <1>2, <1>3, <1>5, <2>3
  <2>4. ASSUME \A w \in news : w.lease # l, activeByKey'[l] # None
        PROVE  /\ view'[l].revision <= activeByKey'[l].revision
               /\ \A u \in Flight' : u.lease = l => u.revision <= activeByKey'[l].revision
    BY Zenon, <1>1, <2>4 DEF Bounded, Active
  <2> QED BY Zenon, <2>2, <2>3, <2>4
<1>8. InTime'
  <2>1. \A u \in Flight' : u.state = "working" => u.expiresAt <= clock + TTL
    BY Zenon, <1>1, <1>2 DEF InTime
  <2>2. \A u \in Flight' : u.state = "working" => u.expiresAt <= clock' + TTL
    <3>1. \A u \in Flight' : u.state = "working" => u.expiresAt \in Nat
      <4>1. \A u \in news : u.state = "working" => u.expiresAt \in Nat
        BY Zenon, <1>2, <1>5
      <4> QED BY Zenon, <1>1, <1>3, <4>1
    <3> QED BY <1>4, <2>1, <3>1
  <2>3. \A l \in Leases : activeByKey'[l] # None => activeByKey'[l].expiresAt <= clock' + TTL
    <3>1. \A l \in Leases : activeByKey'[l] # None => activeByKey'[l].expiresAt <= clock + TTL
      BY <1>1, <1>2 DEF InTime, Active
    <3> QED BY SMTT(30), <1>4, <1>5, <3>1
  <2> QED BY Zenon, <2>2, <2>3 DEF InTime, Active
<1>9. Faithful'
  <2> SUFFICES ASSUME NEW l \in Leases \ lost
               PROVE  IF activeByKey'[l] # None THEN Shown(l)' ELSE Gone(l)'
    BY Zenon, <1>1 DEF Faithful, Active
  <2>1. ASSUME NEW w \in news, w.lease = l
        PROVE  IF activeByKey'[l] # None THEN Shown(l)' ELSE Gone(l)'
    <3>1. activeByKey'[l] # None => Shown(l)'
      BY Zenon, <1>1, <1>2, <2>1 DEF Shown
    <3>2. ASSUME activeByKey'[l] = None
          PROVE  Gone(l)'
      <4>1. w \in Flight' /\ w.state = "idle" /\ view'[w.lease].revision < w.revision
        BY Zenon, <1>1, <1>2, <1>3, <2>1, <3>2
      <4>2. \A v \in Flight' : v.lease = w.lease => v.revision < w.revision \/ v = w
        BY Zenon, <1>1, <1>2
      <4>3. Newest(w)'
        BY Zenon, <4>1, <4>2 DEF Newest
      <4> QED BY Zenon, <2>1, <4>1, <4>3 DEF Gone
    <3> QED BY Zenon, <3>1, <3>2
  <2>2. ASSUME \A w \in news : w.lease # l
        PROVE  IF activeByKey'[l] # None THEN Shown(l)' ELSE Gone(l)'
    <3>1. activeByKey'[l] = activeByKey[l]
      BY Zenon, <1>1, <2>2
    <3>2. ASSUME Active(l)
          PROVE  Shown(l)'
      <4>1. Shown(l)
        BY Zenon, <3>2 DEF Faithful
      <4>2. activeByKey[l].expiresAt <= clock => activeByKey[l].expiresAt <= clock'
        BY <1>4, <1>5, <3>1, <3>2 DEF Active
      <4> QED BY Zenon, <1>1, <3>1, <4>1, <4>2 DEF Shown, updateFor, openLease
    <3>3. ASSUME ~Active(l)
          PROVE  Gone(l)'
      <4>1. Gone(l)
        BY Zenon, <3>3 DEF Faithful
      <4>2. \A v \in Flight' : v.lease = l => v \in Flight
        BY Zenon, <1>1, <2>2
      <4>3. ASSUME NEW u \in Flight, u.lease = l, u.state = "idle", Newest(u)
            PROVE  Gone(l)'
        BY Zenon, <1>1, <4>2, <4>3 DEF Gone, Newest
      <4>4. ASSUME view[l].kind # "active", \A u \in Flight : u.lease = l => Stale(u)
            PROVE  Gone(l)'
        <5>1. \A u \in Flight : u.expiresAt <= clock => u.expiresAt <= clock'
          BY <1>3, <1>4
        <5> QED BY ZenonT(30), <1>1, <4>2, <4>4, <5>1 DEF Gone, Stale
      <4> QED BY Zenon, <4>1, <4>3, <4>4 DEF Gone
    <3> QED BY Zenon, <3>1, <3>2, <3>3 DEF Active
  <2> QED BY Zenon, <2>1, <2>2
<1> QED
  BY Zenon, <1>6, <1>7, <1>8, <1>9

(* Updates that leave the stream or the bus, with their leases marked lost. *)
LEMMA LostHolds ==
  ASSUME Distinct, Bounded, InTime, Faithful, Loses,
         UNCHANGED <<activeByKey, tombstones, turn, renewer, clock, view>>
  PROVE  Distinct' /\ Bounded' /\ InTime' /\ Faithful'
<1>1. /\ Flight' \subseteq Flight /\ lost \subseteq lost'
      /\ \A v \in Flight : v.lease \notin lost' => v \in Flight'
  BY Zenon DEF Loses
<1>2. \A l \in Leases : /\ activeByKey'[l] = activeByKey[l]
                        /\ (Startable(l)' <=> Startable(l)) /\ (Active(l)' <=> Active(l))
  BY Zenon DEF Startable, Active, Closed, Renewing
<1>3. Distinct'
  BY Zenon, <1>1 DEF Distinct
<1>4. Bounded'
  BY Zenon, <1>1, <1>2 DEF Bounded
<1>5. InTime'
  BY Zenon, <1>1, <1>2 DEF InTime
<1>6. ASSUME NEW l \in Leases \ lost'
      PROVE  IF Active(l) THEN Shown(l)' ELSE Gone(l)'
  <2>1. l \notin lost /\ (IF Active(l) THEN Shown(l) ELSE Gone(l))
    BY Zenon, <1>1, <1>6 DEF Faithful
  <2>2. \A v \in Flight : v.lease = l => v \in Flight'
    BY Zenon, <1>1, <1>6
  <2>3. ASSUME Active(l)
        PROVE  Shown(l)'
    <3>1. updateFor(l, activeByKey[l], "working").lease = l
      BY Zenon DEF updateFor
    <3> QED BY Zenon, <2>1, <2>2, <2>3, <3>1 DEF Shown, updateFor, openLease
  <2>4. ASSUME ~Active(l)
        PROVE  Gone(l)'
    <3>1. \A u \in Flight : (Stale(u) => Stale(u)') /\ (Newest(u) => Newest(u)')
      BY Zenon, <1>1 DEF Stale, Newest
    <3> QED BY Zenon, <1>1, <2>1, <2>2, <2>4, <3>1 DEF Gone
  <2> QED BY Zenon, <2>3, <2>4
<1>7. Faithful'
  BY Zenon, <1>2, <1>6 DEF Faithful
<1> QED
  BY Zenon, <1>3, <1>4, <1>5, <1>7

(* What the reducer makes of the oldest update. *)
LEMMA AppliedIs ==
  ASSUME ViewTypeOK, TypeOK, Once, applyWorkEvent,
         NEW u, u = Head(stream)
  PROVE  /\ u \in Flight /\ Flight' = Flight \ {u}
         /\ \A l \in Leases : l # u.lease => view'[l] = view[l]
         /\ ~NewerRevision(u) => view' = view
         /\ NewerRevision(u) => /\ view'[u.lease] = IF ShowsWorking(u) THEN openLease(u) ELSE closeLease(u.revision)
                                /\ view'[u.lease].revision = u.revision
<1>1. u \in Flight /\ Flight' = Flight \ {u} /\ u.lease \in Leases
  BY Zenon, ApplyFlight, FlightIs
<1>2. DOMAIN view = Leases
  BY Zenon DEF ViewTypeOK
<1>3. view' = IF ~NewerRevision(u) THEN view
              ELSE [view EXCEPT ![u.lease] = IF ShowsWorking(u) THEN openLease(u) ELSE closeLease(u.revision)]
  BY Zenon DEF applyWorkEvent
<1>4. openLease(u).revision = u.revision /\ closeLease(u.revision).revision = u.revision
  BY Zenon DEF openLease, closeLease
<1> QED
  BY Zenon, <1>1, <1>2, <1>3, <1>4

LEMMA AppliedHolds ==
  ASSUME TypeOK, ViewTypeOK, Once, Distinct, Bounded, InTime, Faithful, applyWorkEvent
  PROVE  Distinct' /\ Bounded' /\ InTime' /\ Faithful'
<1> DEFINE u == Head(stream)
<1>1. /\ u \in Flight /\ Flight' = Flight \ {u}
      /\ \A l \in Leases : l # u.lease => view'[l] = view[l]
      /\ ~NewerRevision(u) => view' = view
      /\ NewerRevision(u) => /\ view'[u.lease] = IF ShowsWorking(u) THEN openLease(u) ELSE closeLease(u.revision)
                             /\ view'[u.lease].revision = u.revision
  BY Zenon, AppliedIs
<1> HIDE DEF u
<1>2. /\ UNCHANGED <<activeByKey, clock, lost>>
      /\ \A l \in Leases : (Startable(l)' <=> Startable(l)) /\ (Active(l)' <=> Active(l))
  BY Zenon DEF applyWorkEvent, vars, Startable, Active, Closed, Renewing
<1>3. /\ \A v \in Flight : v.lease \in Leases /\ v.revision \in Nat /\ v.expiresAt \in Nat
      /\ \A l \in Leases : view[l].revision \in Nat /\ view[l].until \in Nat
  BY ZenonT(30), FlightIs
<1>4. Distinct'
  BY <1>1, <1>3 DEF Distinct
<1>5. Bounded'
  <2>1. \A l \in Leases : Startable(l) => u.lease # l /\ view'[l] = Unknown
    BY Zenon, <1>1 DEF Bounded
  <2>2. \A l \in Leases : Active(l) => view'[l].revision <= activeByKey[l].revision
    BY Zenon, <1>1, <1>3 DEF Bounded
  <2> QED BY Zenon, <1>1, <1>2, <2>1, <2>2 DEF Bounded
<1>6. InTime'
  BY ZenonT(30), <1>1, <1>2 DEF InTime
<1>7. clock \in Nat /\ TTL \in Nat /\ ClosedRetention \in Nat /\ TTL <= ClosedRetention
  BY SMTT(30), Constants, WorkViewAssumption DEF TypeOK
<1>8. ASSUME NEW l \in Leases \ lost, Active(l)
      PROVE  Shown(l)'
  <2> DEFINE n == updateFor(l, activeByKey[l], "working")
  <2>1. /\ n.lease = l /\ n.revision = activeByKey[l].revision /\ n.state = "working"
        /\ n.expiresAt = activeByKey[l].expiresAt /\ activeByKey[l].revision \in Nat
    BY ZenonT(30), <1>8, Fields, LeaseWith, UpdateIs
  <2>2. SUFFICES n \in Flight' \/ activeByKey[l].expiresAt <= clock \/ view'[l] = openLease(n)
    BY Zenon, <1>2 DEF Shown, updateFor, openLease
  <2>3. n \in Flight \/ activeByKey[l].expiresAt <= clock \/ view[l] = openLease(n)
    BY Zenon, <1>8 DEF Faithful, Shown
  <2>4. openLease(n).revision = n.revision
    BY Zenon DEF openLease
  <2> HIDE DEF n
  <2>5. CASE n = u
    <3>1. NewerRevision(u)
      BY <1>1, <1>3, <1>8, <2>1, <2>5 DEF NewerRevision, Bounded, Distinct
    <3>2. ShowsWorking(u) \/ activeByKey[l].expiresAt <= clock
      BY <1>1, <1>3, <1>7, <2>1, <2>5 DEF ShowsWorking
    <3> QED BY Zenon, <1>1, <2>1, <2>5, <3>1, <3>2
  <2>6. CASE n # u /\ view[l] = openLease(n)
    <3>1. u.lease = l => ~NewerRevision(u)
      BY <1>1, <1>3, <1>8, <2>1, <2>4, <2>6 DEF NewerRevision, Bounded
    <3> QED BY ZenonT(30), <1>1, <2>6, <3>1
  <2> QED BY SMTT(30), <1>1, <2>3, <2>5, <2>6
<1>9. ASSUME NEW l \in Leases \ lost, ~Active(l)
      PROVE  Gone(l)'
  <2>1. Gone(l)
    BY ZenonT(30), <1>9 DEF Faithful
  <2>2. /\ closeLease(u.revision).kind = "closed" /\ closeLease(u.revision).until = clock + ClosedRetention
        /\ \A v \in Flight : v.state = "working" => v.expiresAt <= clock + ClosedRetention
    BY <1>3, <1>7 DEF closeLease, InTime
  <2>3. ASSUME NEW w \in Flight, w.lease = l, w.state = "idle", Newest(w), w # u
        PROVE  Gone(l)'
    <3>1. w \in Flight' /\ view'[l].revision < w.revision
      BY Zenon, <1>1, <1>3, <2>3 DEF Newest
    <3> QED BY Zenon, <1>1, <2>3, <3>1 DEF Gone, Newest
  <2>4. ASSUME u.lease = l, NewerRevision(u), ~ShowsWorking(u),
               \A v \in Flight : v.lease = l /\ v # u => v.revision < u.revision \/ Stale(v)
        PROVE  Gone(l)'
    <3>1. view'[l].kind = "closed" /\ view'[l].revision = u.revision /\ view'[l].until = clock + ClosedRetention
      BY Zenon, <1>1, <2>2, <2>4
    <3>2. ASSUME NEW v \in Flight', v.lease = l, v.state = "working"
          PROVE  v.expiresAt <= clock \/ (v.revision < u.revision /\ v.expiresAt <= view'[l].until)
      <4>1. v \in Flight /\ v # u /\ v.expiresAt <= clock + ClosedRetention
        BY ZenonT(30), <1>1, <2>2, <3>2
      <4>2. Stale(v) => v.expiresAt <= clock \/ v.revision < u.revision
        BY <1>1, <1>3, <2>4, <3>2, <4>1 DEF Stale, NewerRevision
      <4> QED BY Zenon, <2>4, <3>1, <3>2, <4>1, <4>2
    <3>3. \A v \in Flight' : v.lease = l => Stale(v)'
      BY Zenon, <1>2, <3>1, <3>2 DEF Stale
    <3> QED BY Zenon, <3>1, <3>3 DEF Gone
  <2>5. ASSUME u.lease = l, u.state = "idle", Newest(u)
        PROVE  Gone(l)'
    <3>1. NewerRevision(u) /\ ~ShowsWorking(u)
      BY Zenon, <1>3, <2>5 DEF Newest, NewerRevision, ShowsWorking
    <3> QED BY Zenon, <2>4, <2>5, <3>1 DEF Newest
  <2>6. ASSUME view[l].kind # "active", \A v \in Flight : v.lease = l => Stale(v)
        PROVE  Gone(l)'
    <3>1. CASE u.lease = l /\ NewerRevision(u)
      <4>1. ~ShowsWorking(u)
        BY <1>1, <1>3, <1>7, <2>6, <3>1 DEF ShowsWorking, NewerRevision, Stale
      <4> QED BY ZenonT(30), <2>4, <2>6, <3>1, <4>1
    <3>2. CASE ~(u.lease = l /\ NewerRevision(u))
      <4>1. view'[l] = view[l]
        BY Zenon, <1>1, <3>2
      <4> QED BY ZenonT(30), <1>1, <1>2, <2>6, <4>1 DEF Gone, Stale
    <3> QED BY Zenon, <3>1, <3>2
  <2> QED BY Zenon, <2>1, <2>3, <2>5, <2>6 DEF Gone
<1>10. Faithful'
  BY Zenon, <1>2, <1>8, <1>9 DEF Faithful
<1> QED
  BY Zenon, <1>4, <1>5, <1>6, <1>10

(* What the reducer's timer does. *)
LEMMA ClockedHolds ==
  ASSUME TypeOK, ViewTypeOK, Distinct, Bounded, InTime, Faithful, applyClock
  PROVE  Distinct' /\ Bounded' /\ InTime' /\ Faithful'
<1>1. /\ UNCHANGED <<activeByKey, clock, lost>> /\ Flight' = Flight
      /\ \A l \in Leases : (Startable(l)' <=> Startable(l)) /\ (Active(l)' <=> Active(l))
  BY Zenon DEF applyClock, vars, Startable, Active, Closed, Renewing, Flight, Updates
<1>2. \A l \in Leases : view'[l] = IF ~Overdue(l) THEN view[l]
                                   ELSE IF view[l].kind = "active" THEN closeLease(view[l].revision) ELSE Unknown
  BY Zenon DEF applyClock
<1>3. /\ \A v \in Flight : v.lease \in Leases /\ v.revision \in Nat /\ v.revision > 0 /\ v.expiresAt \in Nat
      /\ \A l \in Leases : view[l].revision \in Nat /\ view[l].until \in Nat
  BY ZenonT(30), FlightIs
<1>4. \A l \in Leases : /\ view'[l].revision = view[l].revision \/ view'[l].revision = 0
                        /\ view'[l].revision <= view[l].revision
                        /\ view[l] = Unknown => view'[l] = Unknown
                        /\ view[l].kind # "active" => view'[l].kind # "active"
  <2>1. \A l \in Leases : /\ closeLease(view[l].revision).revision = view[l].revision
                          /\ closeLease(view[l].revision).kind = "closed"
    BY Zenon DEF closeLease
  <2>2. Unknown.revision = 0 /\ Unknown.kind = "unknown"
    BY Zenon DEF Unknown
  <2>3. \A l \in Leases : view[l] = Unknown => ~Overdue(l)
    BY Zenon, <2>2 DEF Overdue
  <2> QED BY <1>2, <1>3, <2>1, <2>2, <2>3
<1>5. Distinct'
  BY <1>1, <1>3, <1>4 DEF Distinct
<1>6. \A l \in Leases : view'[l].revision \in Nat
  BY <1>3, <1>4
<1>7. Bounded'
  <2>1. \A l \in Leases : Active(l) => view'[l].revision <= activeByKey[l].revision
    <3>1. \A l \in Leases : Active(l) => activeByKey[l].revision \in Nat
      BY ZenonT(30), Fields, LeaseWith
    <3> QED BY SMTT(30), <1>3, <1>4, <1>6, <3>1 DEF Bounded
  <2> QED BY ZenonT(30), <1>1, <1>4, <2>1 DEF Bounded
<1>8. InTime'
  BY Zenon, <1>1 DEF InTime
<1>9. ASSUME NEW l \in Leases \ lost, Active(l)
      PROVE  Shown(l)'
  <2> DEFINE n == updateFor(l, activeByKey[l], "working")
  <2>1. n \in Flight \/ activeByKey[l].expiresAt <= clock \/ view[l] = openLease(n)
    BY Zenon, <1>9 DEF Faithful, Shown
  <2>2. openLease(n).until = activeByKey[l].expiresAt
    BY Zenon DEF openLease, updateFor
  <2>3. SUFFICES n \in Flight' \/ activeByKey[l].expiresAt <= clock \/ view'[l] = openLease(n)
    BY Zenon, <1>1 DEF Shown, updateFor, openLease
  <2> HIDE DEF n
  <2> QED BY Zenon, <1>1, <1>2, <2>1, <2>2 DEF Overdue
<1>10. ASSUME NEW l \in Leases \ lost, ~Active(l)
       PROVE  Gone(l)'
  <2>1. Gone(l)
    BY Zenon, <1>10 DEF Faithful
  <2>2. ASSUME NEW u \in Flight, u.lease = l, u.state = "idle", Newest(u)
        PROVE  Gone(l)'
    <3>1. view'[l].revision < u.revision
      BY Zenon, <1>3, <1>4, <1>6, <2>2 DEF Newest
    <3> QED BY Zenon, <1>1, <2>2, <3>1 DEF Gone, Newest
  <2>3. ASSUME view[l].kind # "active", \A u \in Flight : u.lease = l => Stale(u)
        PROVE  Gone(l)'
    <3>1. ASSUME NEW u \in Flight, u.lease = l
          PROVE  Stale(u)'
      <4>1. Stale(u)
        BY Zenon, <2>3, <3>1
      <4>2. Overdue(l) /\ view[l].kind = "closed" /\ u.expiresAt <= view[l].until => u.expiresAt <= clock
        <5>1. clock \in Nat
          BY DEF TypeOK
        <5> QED BY <1>3, <5>1 DEF Overdue
      <4>3. ~Overdue(l) => view'[l] = view[l]
        BY Zenon, <1>2
      <4> QED BY Zenon, <1>1, <3>1, <4>1, <4>2, <4>3 DEF Stale
    <3> QED BY Zenon, <1>1, <1>4, <2>3, <3>1 DEF Gone
  <2> QED BY Zenon, <2>1, <2>2, <2>3 DEF Gone
<1>11. Faithful'
  BY Zenon, <1>1, <1>9, <1>10 DEF Faithful
<1> QED
  BY Zenon, <1>5, <1>7, <1>8, <1>11

LEMMA ViewTypePreserved ==
  ASSUME ViewTypeOK, clock \in Nat, ~crashed => TypeOK, ViewNext
  PROVE  ViewTypeOK'
<1> DEFINE Entries == [kind : {"unknown", "active", "closed"}, revision : Nat, until : Nat, stopState : StopStates]
<1>1. /\ stream \in Seq(ParticipantWorkUpdate) /\ view \in [Leases -> Entries]
      /\ lost \subseteq Leases /\ crashed \in BOOLEAN
  BY Zenon DEF ViewTypeOK
<1>2. \A u \in ParticipantWorkUpdate : u.lease \in Leases /\ u.revision \in Nat
  BY Zenon DEF ParticipantWorkUpdate
<1>3. /\ Unknown \in Entries
      /\ \A r \in Nat : closeLease(r) \in Entries
      /\ \A u \in ParticipantWorkUpdate : openLease(u) \in Entries
  <2>1. "none" \in StopStates /\ ClosedRetention \in Nat
    BY Zenon, WorkViewAssumption DEF StopStates
  <2> QED BY <2>1 DEF Unknown, closeLease, openLease, ParticipantWorkUpdate
<1>4. \A l \in Leases : view[l] \in Entries /\ view[l].revision \in Nat
  BY Zenon, <1>1
<1> HIDE DEF Entries
<1>5. SUFFICES /\ stream' \in Seq(ParticipantWorkUpdate) /\ view' \in [Leases -> Entries]
               /\ lost' \subseteq Leases /\ crashed' \in BOOLEAN
  BY Zenon DEF ViewTypeOK, Entries
<1>6. CASE ServerStep \/ BrowserTick
  BY Zenon, <1>1, <1>6 DEF ServerStep, BrowserTick, viewVars
<1>7. ASSUME NEW c \in Callers, PublishToStream(c)
      PROVE  /\ stream' \in Seq(ParticipantWorkUpdate) /\ view' \in [Leases -> Entries]
             /\ lost' \subseteq Leases /\ crashed' \in BOOLEAN
  <2>1. outbox[c] \in ParticipantWorkUpdate
    BY Zenon, <1>7, Fields DEF PublishToStream, Publish, Idle
  <2>2. /\ view' = view /\ crashed' = crashed
        /\ \/ stream' = Append(stream, outbox[c]) /\ lost' = lost
           \/ stream' = stream /\ lost' = lost \cup {outbox[c].lease}
    BY Zenon, <1>7 DEF PublishToStream, Deliver
  <2>3. stream' \in Seq(ParticipantWorkUpdate)
    BY <1>1, <2>1, <2>2
  <2>4. lost' \subseteq Leases
    BY SMTT(30), <1>1, <1>2, <2>1, <2>2
  <2> QED BY Zenon, <1>1, <2>2, <2>3, <2>4
<1>8. CASE Reconnect
  BY <1>1, <1>2, <1>8 DEF Reconnect
<1>9. CASE applyWorkEvent
  <2>1. Head(stream) \in ParticipantWorkUpdate /\ stream' \in Seq(ParticipantWorkUpdate)
    BY <1>1, <1>9 DEF applyWorkEvent
  <2>2. view' \in [Leases -> Entries]
    BY Zenon, <1>1, <1>2, <1>3, <1>9, <2>1 DEF applyWorkEvent
  <2> QED BY Zenon, <1>1, <1>9, <2>1, <2>2 DEF applyWorkEvent
<1>10. CASE applyClock
  <2>1. view' \in [Leases -> Entries]
    BY Zenon, <1>3, <1>4, <1>10 DEF applyClock
  <2> QED BY Zenon, <1>1, <1>10, <2>1 DEF applyClock
<1>11. CASE Crash
  BY <1>1, <1>11 DEF Crash
<1> QED
  BY Zenon, <1>6, <1>7, <1>8, <1>9, <1>10, <1>11 DEF ViewNext

LEMMA StreamOnce ==
  ASSUME TypeOK, ViewTypeOK, Once,
         (\E c \in Callers : PublishToStream(c)) \/ Reconnect \/ applyWorkEvent
  PROVE  Once'
<1>1. stream \in Seq(ParticipantWorkUpdate)
  BY Zenon DEF ViewTypeOK
<1>2. ASSUME NEW c \in Callers, PublishToStream(c)
      PROVE  Once'
  <2>1. outbox[c] # None /\ outbox[c] \in ParticipantWorkUpdate
    BY Zenon, <1>2, Fields DEF PublishToStream, Publish, Idle
  <2>2. outbox' = [outbox EXCEPT ![c] = None] /\ DOMAIN outbox = Callers
    BY Zenon, <1>2 DEF PublishToStream, Publish, TypeOK
  <2>3. \A i \in DOMAIN stream : stream[i] # None
    BY <1>1, NoneApart
  <2>4. CASE stream' = stream
    BY ZenonT(30), <2>2, <2>3, <2>4 DEF Once
  <2>5. CASE stream' = Append(stream, outbox[c])
    <3>1. \A i \in DOMAIN stream' : \/ i \in DOMAIN stream /\ stream'[i] = stream[i]
                                    \/ i \notin DOMAIN stream /\ i = Len(stream) + 1 /\ stream'[i] = outbox[c]
      BY <1>1, <2>1, <2>5
    <3>2. \A d \in Callers : outbox'[d] = IF d = c THEN None ELSE outbox[d]
      BY Zenon, <2>2
    <3>3. \A i, j \in DOMAIN stream' : i # j => stream'[i] # stream'[j]
      BY ZenonT(30), <3>1 DEF Once
    <3>4. \A d \in Callers, i \in DOMAIN stream' : outbox'[d] # stream'[i]
      BY <2>1, <2>3, <3>1, <3>2 DEF Once
    <3>5. \A d, e \in Callers : d # e /\ outbox'[d] # None => outbox'[d] # outbox'[e]
      BY Zenon, <3>2 DEF Once
    <3> QED BY Zenon, <3>3, <3>4, <3>5 DEF Once
  <2> QED BY Zenon, <1>2, <2>4, <2>5 DEF PublishToStream, Deliver
<1>3. CASE Reconnect
  <2>1. outbox' = outbox /\ stream' = <<>>
    BY Zenon, <1>3 DEF Reconnect, vars
  <2>2. DOMAIN stream' = {}
    BY SMTT(30), <2>1
  <2> QED BY Zenon, <2>1, <2>2 DEF Once
<1>4. CASE applyWorkEvent
  <2>1. outbox' = outbox /\ stream' = Tail(stream) /\ stream # <<>>
    BY Zenon, <1>4 DEF applyWorkEvent, vars
  <2>2. \A i \in DOMAIN stream' : i \in Nat /\ i + 1 \in DOMAIN stream /\ stream'[i] = stream[i + 1]
    BY <1>1, <2>1
  <2> QED BY <2>1, <2>2 DEF Once
<1> QED
  BY Zenon, <1>2, <1>3, <1>4

(* Every step of the composition keeps the registry's invariant. *)
LEMMA RegistryHolds ==
  ASSUME IInv, ~crashed, ViewNext
  PROVE  [Next]_vars /\ IInv'
<1>1. [Next]_vars
  <2>1. ServerStep => Next
    BY Zenon DEF ServerStep, Next
  <2>2. \A c \in Callers : PublishToStream(c) => Next
    BY Zenon DEF PublishToStream, Next
  <2>3. Reconnect \/ applyWorkEvent \/ applyClock \/ Crash => UNCHANGED vars
    BY Zenon DEF Reconnect, applyWorkEvent, applyClock, Crash
  <2> QED BY Zenon, <2>1, <2>2, <2>3 DEF ViewNext, BrowserTick
<1> QED
  BY Zenon, <1>1, StepHolds

LEMMA ViewInitHolds == ViewInit => VInv
<1> SUFFICES ASSUME ViewInit PROVE VInv
  BY Zenon
<1>1. IInv /\ Init /\ stream = <<>> /\ view = [l \in Leases |-> Unknown] /\ lost = {} /\ crashed = FALSE
  BY Zenon, InitHolds DEF ViewInit
<1>2. TypeOK
  BY Zenon, <1>1 DEF IInv
<1>3. \A l \in Leases : activeByKey[l] = None
  BY Zenon, <1>1 DEF Init
<1>4. \A c \in Callers : outbox[c] = None
  BY Zenon, <1>1 DEF Init
<1>5. Flight = {} /\ DOMAIN stream = {}
  BY <1>1, <1>4 DEF Flight, Updates
<1>6. ViewTypeOK
  <2>1. Unknown \in [kind : {"unknown", "active", "closed"}, revision : Nat, until : Nat, stopState : StopStates]
    <3>1. "none" \in StopStates
      BY Zenon DEF StopStates
    <3> QED BY Zenon, <3>1 DEF Unknown
  <2>2. stream \in Seq(ParticipantWorkUpdate) /\ lost \subseteq Leases /\ crashed \in BOOLEAN
    <3>1. stream \in Seq(ParticipantWorkUpdate)
      BY <1>1
    <3>2. lost \subseteq Leases /\ crashed \in BOOLEAN
      BY Zenon, <1>1
    <3> QED BY Zenon, <3>1, <3>2
  <2> DEFINE Entries == [kind : {"unknown", "active", "closed"}, revision : Nat, until : Nat, stopState : StopStates]
  <2>3. Unknown \in Entries
    BY Zenon, <2>1
  <2> HIDE DEF Entries
  <2>4. view \in [Leases -> Entries]
    BY Zenon, <1>1, <2>3
  <2> QED BY Zenon, <2>2, <2>4 DEF ViewTypeOK, Entries
<1>7. clock \in Nat
  BY <1>2 DEF TypeOK
<1>8. Once /\ Distinct /\ InTime
  BY Zenon, <1>3, <1>4, <1>5 DEF Once, Distinct, InTime, Active
<1>9. Bounded
  BY Zenon, <1>1, <1>3, <1>5 DEF Bounded, Active
<1>10. Faithful
  BY Zenon, <1>1, <1>3, <1>5 DEF Faithful, Active, Gone, Unknown
<1> QED
  BY ZenonT(30), <1>1, <1>6, <1>7, <1>8, <1>9, <1>10 DEF VInv

LEMMA ViewStepHolds == VInv /\ [ViewNext]_allVars => VInv'
<1> SUFFICES ASSUME VInv, [ViewNext]_allVars PROVE VInv'
  BY Zenon
<1>1. ViewTypeOK /\ clock \in Nat /\ (~crashed => IInv /\ TypeOK)
  BY Zenon DEF VInv, IInv
<1>2. CASE UNCHANGED allVars
  <2>1. UNCHANGED vars /\ UNCHANGED viewVars
    BY Zenon, <1>2 DEF allVars
  <2>2. ViewTypeOK' /\ clock' \in Nat /\ crashed' = crashed /\ lost' = lost
    BY Zenon, <1>1, <2>1 DEF ViewTypeOK, vars, viewVars
  <2>3. ASSUME ~crashed
        PROVE  IInv' /\ Once' /\ Distinct' /\ Bounded' /\ InTime' /\ Faithful'
    <3>1. IInv /\ Once /\ Distinct /\ Bounded /\ InTime /\ Faithful /\ TypeOK
      BY Zenon, <2>3 DEF VInv, IInv
    <3>2. IInv'
      BY Zenon, <2>1, <3>1, StepHolds
    <3>3. Loses /\ Once'
      BY Zenon, <2>1, <3>1 DEF vars, viewVars, Loses, Flight, Updates, Once
    <3>4. UNCHANGED <<activeByKey, tombstones, turn, renewer, clock, view>>
      BY Zenon, <2>1 DEF vars, viewVars
    <3> QED BY Zenon, <3>1, <3>2, <3>3, <3>4, LostHolds
  <2> QED BY Zenon, <2>2, <2>3 DEF VInv
<1>3. CASE ViewNext /\ crashed
  <2>1. ViewTypeOK'
    BY Zenon, <1>1, <1>3, ViewTypePreserved
  <2>2. clock' \in Nat /\ crashed' /\ lost' = Leases
    <3>1. lost = Leases /\ lost' \subseteq Leases
      BY Zenon, <1>3, <2>1 DEF VInv, ViewTypeOK
    <3>2. Reconnect \/ applyWorkEvent \/ applyClock => lost \subseteq lost' /\ UNCHANGED <<crashed, clock>>
      BY Zenon DEF Reconnect, applyWorkEvent, applyClock, vars
    <3>3. BrowserTick => lost' = lost /\ crashed' = crashed /\ clock' = clock + 1
      BY Zenon DEF BrowserTick, viewVars
    <3>4. Reconnect \/ applyWorkEvent \/ applyClock \/ BrowserTick
      BY Zenon, <1>3 DEF ViewNext, ServerStep, PublishToStream, Crash
    <3>5. crashed'
      BY Zenon, <1>3, <3>2, <3>3, <3>4
    <3>6. lost \subseteq lost' /\ clock' \in Nat
      BY <1>1, <3>2, <3>3, <3>4
    <3> QED BY Zenon, <3>1, <3>5, <3>6
  <2> QED BY Zenon, <2>1, <2>2 DEF VInv
<1>4. CASE ViewNext /\ ~crashed
  <2>1. IInv /\ Once /\ Distinct /\ Bounded /\ InTime /\ Faithful /\ TypeOK
    BY Zenon, <1>4 DEF VInv, IInv
  <2>2. [Next]_vars /\ IInv' /\ TypeOK'
    BY ZenonT(30), <1>4, <2>1, RegistryHolds DEF IInv
  <2>3. ViewTypeOK' /\ clock' \in Nat
    BY SMTT(30), <1>1, <1>4, <2>2, ViewTypePreserved DEF TypeOK
  <2>4. CASE Crash
    BY ZenonT(30), <2>3, <2>4 DEF Crash, VInv
  <2>5. SUFFICES ASSUME ~Crash
                 PROVE  crashed' = crashed /\ Once' /\ Distinct' /\ Bounded' /\ InTime' /\ Faithful'
    BY <1>4, <2>2, <2>3, <2>4 DEF VInv
  <2>6. CASE ServerStep
    <3>1. RegistryStep /\ UNCHANGED viewVars /\ stream' = stream /\ crashed' = crashed
      BY Zenon, <2>6 DEF ServerStep, viewVars
    <3>2. Moves
      BY ZenonT(30), <2>1, <3>1, StepMoves DEF IInv
    <3>3. clock <= clock'
      BY <2>1, <2>2, Writers DEF Tick, TypeOK
    <3>4. \A l \in Leases : Startable(l)' => Startable(l)
      BY Zenon, <2>1, <2>2, StartableEnds DEF IInv
    <3>5. \E news : Announces(news)
      BY Zenon, <1>1, <2>1, <3>1, <3>2, ServerAnnounces
    <3>6. Distinct' /\ Bounded' /\ InTime' /\ Faithful'
      BY ZenonT(30), <1>1, <2>1, <2>2, <3>1, <3>3, <3>4, <3>5, AnnouncedHolds
    <3> QED BY ZenonT(30), <1>1, <2>1, <3>1, <3>2, <3>6, AnnouncedOnce
  <2>7. CASE (\E c \in Callers : PublishToStream(c)) \/ Reconnect
    <3>1. Loses
      BY Zenon, <1>1, <2>1, <2>7, PublishFlight, ReconnectFlight
    <3>2. UNCHANGED <<activeByKey, tombstones, turn, renewer, clock, view, crashed>>
      BY Zenon, <2>7 DEF PublishToStream, Publish, Reconnect, vars
    <3> QED BY Zenon, <1>1, <2>1, <2>7, <3>1, <3>2, LostHolds, StreamOnce
  <2>8. CASE applyWorkEvent
    <3>1. crashed' = crashed
      BY Zenon, <2>8 DEF applyWorkEvent
    <3> QED BY Zenon, <1>1, <2>1, <2>8, <3>1, AppliedHolds, StreamOnce
  <2>9. CASE applyClock
    <3>1. crashed' = crashed /\ stream' = stream /\ outbox' = outbox
      BY Zenon, <2>9 DEF applyClock, vars
    <3>2. Once'
      BY Zenon, <2>1, <3>1 DEF Once
    <3> QED BY Zenon, <1>1, <2>1, <2>9, <3>1, <3>2, ClockedHolds
  <2> QED BY ZenonT(30), <1>4, <2>5, <2>6, <2>7, <2>8, <2>9 DEF ViewNext, BrowserTick
<1> QED
  BY Zenon, <1>2, <1>3, <1>4

(* The invariant of the registry, the updates under way and the reducer      *)
(* holds in every reachable state of the composition.                        *)
THEOREM ViewInvariance == ViewSpec => []VInv
  BY ViewInitHolds, ViewStepHolds, PTL DEF ViewSpec

(* Whatever the order in which Bus.Publish is called and applyWorkEvent and  *)
(* applyClock run, the Web shows of a lease what the registry holds once all *)
(* its updates have arrived, and a closed lease that the reducer has         *)
(* forgotten is not reopened.                                                *)
THEOREM ViewShowsRegistry == ViewSpec => []ViewAgrees
<1>1. VInv => ViewAgrees
  <2> SUFFICES ASSUME VInv, NEW l \in Leases, ~Pending(l), l \notin lost
               PROVE  /\ Active(l) /\ activeByKey[l].expiresAt > clock =>
                           /\ view[l].kind = "active"
                           /\ view[l].revision = activeByKey[l].revision
                           /\ view[l].stopState = activeByKey[l].stopState
                      /\ turn[l].ended # Absent => view[l].kind # "active"
    BY Zenon DEF ViewAgrees
  <2>1. TypeOK /\ Refused /\ Faithful
    BY Zenon DEF VInv, IInv
  <2>2. \A u \in Flight : u.lease # l
    BY ZenonT(30) DEF Pending, Flight
  <2>3. ASSUME Active(l), activeByKey[l].expiresAt > clock
        PROVE  /\ view[l].kind = "active"
               /\ view[l].revision = activeByKey[l].revision
               /\ view[l].stopState = activeByKey[l].stopState
    <3>1. activeByKey[l].expiresAt \in Nat /\ clock \in Nat
      BY ZenonT(30), <2>1, <2>3, Fields DEF ActiveLease, TypeOK
    <3>2. updateFor(l, activeByKey[l], "working").lease = l
      BY ZenonT(30) DEF updateFor
    <3>3. view[l] = openLease(updateFor(l, activeByKey[l], "working"))
      BY <2>1, <2>2, <2>3, <3>1, <3>2 DEF Faithful, Shown
    <3> QED BY <3>3 DEF openLease, updateFor
  <2>4. ASSUME turn[l].ended # Absent
        PROVE  view[l].kind # "active"
    BY Zenon, <2>1, <2>2, <2>4 DEF Refused, Faithful, Gone
  <2> QED BY Zenon, <2>3, <2>4
<1> QED
  BY <1>1, ViewInvariance, PTL
=============================================================================
