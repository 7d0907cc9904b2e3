------------------------------- MODULE WorkView -------------------------------
(***************************************************************************)
(* What the Web shows of the work leases: WorkLease composed with the      *)
(* event bus (worklease.Bus and the SSE stream) and the reducer of         *)
(* participantWorkState.ts.  The bus drops an update when the subscriber's *)
(* channel is full; a stream that breaks loses what it held, and nothing   *)
(* is replayed after a reconnect.  The reducer keeps, per lease, the       *)
(* newest revision it has applied and forgets a closed lease after a       *)
(* retention time.  When the server process dies its registry is gone.     *)
(***************************************************************************)
EXTENDS WorkLease, Sequences

CONSTANTS
  Capacity,        \* of a subscriber's channel
  ClosedRetention  \* PARTICIPANT_WORK_CLOSED_RETENTION_MS

(* The retention (70 s) is longer than any lease (MaxTTLSeconds is 60). *)
ASSUME WorkViewAssumption == Capacity \in Nat /\ ClosedRetention \in Nat /\ TTL <= ClosedRetention

VARIABLES
  stream,   \* updates between the bus and the reducer, oldest first
  view,     \* the reducer's state: activeByRoom and closedByLease
  lost,     \* leases an update of which never reached the reducer
  crashed   \* the server process has died

viewVars == <<stream, view, lost, crashed>>
allVars == <<vars, viewVars>>

Unknown == [kind |-> "unknown", revision |-> 0, until |-> 0, stopState |-> "none"]

ViewInit == Init /\ stream = <<>> /\ view = [l \in Leases |-> Unknown] /\ lost = {} /\ crashed = FALSE

-----------------------------------------------------------------------------
HasRoom == Len(stream) < Capacity

(* Bus.Publish: a send that never blocks. *)
Deliver(u) ==
  IF HasRoom
  THEN stream' = Append(stream, u) /\ UNCHANGED lost
  ELSE lost' = lost \cup {u.lease} /\ UNCHANGED stream

PublishToStream(c) ==
  /\ ~crashed
  /\ Publish(c)
  /\ Deliver(outbox[c])
  /\ UNCHANGED <<view, crashed>>

(* The SSE connection breaks and is opened again. *)
Reconnect ==
  /\ stream # <<>>
  /\ lost' = lost \cup {stream[i].lease : i \in DOMAIN stream}
  /\ stream' = <<>>
  /\ UNCHANGED <<vars, view, crashed>>

closeLease(revision) ==
  [kind |-> "closed", revision |-> revision, until |-> clock + ClosedRetention, stopState |-> "none"]

openLease(u) ==
  [kind |-> "active", revision |-> u.revision, until |-> u.expiresAt, stopState |-> u.stopState]

(* Events at or below the last revision are ignored. *)
NewerRevision(u) == u.revision > view[u.lease].revision

ExpiryIgnored(u) == u.state = "working"

(* A working event whose expires_at has passed closes the lease. *)
ShowsWorking(u) == u.state = "working" /\ u.expiresAt > clock

(* applyWorkEvent *)
applyWorkEvent ==
  LET u == Head(stream)
  IN  /\ stream # <<>>
      /\ stream' = Tail(stream)
      /\ view' = IF ~NewerRevision(u) THEN view
                 ELSE [view EXCEPT ![u.lease] = IF ShowsWorking(u) THEN openLease(u)
                                                ELSE closeLease(u.revision)]
      /\ UNCHANGED <<vars, lost, crashed>>

OverdueClosed(l) == view[l].kind = "closed" /\ view[l].until <= clock

Overdue(l) == view[l].kind # "unknown" /\ view[l].until <= clock

(* applyClock, run by the timer set for nextParticipantWorkDeadline: active  *)
(* leases past expires_at close, closed ones past forgetAt are forgotten.    *)
applyClock ==
  /\ \E l \in Leases : Overdue(l)
  /\ view' = [l \in Leases |->
       IF ~Overdue(l) THEN view[l]
       ELSE IF view[l].kind = "active" THEN closeLease(view[l].revision) ELSE Unknown]
  /\ UNCHANGED <<vars, stream, lost, crashed>>

(* The server process dies: its memory and the open streams are gone. *)
Crash ==
  /\ ~crashed
  /\ crashed' = TRUE
  /\ lost' = Leases
  /\ stream' = <<>>
  /\ UNCHANGED <<vars, view>>

ServerStep == ~crashed /\ RegistryStep /\ UNCHANGED viewVars

(* Time goes on for the browser after the server died. *)
BrowserTick ==
  /\ crashed /\ clock < MaxClock
  /\ clock' = clock + 1
  /\ UNCHANGED <<activeByKey, tombstones, activeBySubject, controllers, turn, renewer, observer,
                 stopper, outbox, recorded, viewVars>>

ViewNext ==
  \/ ServerStep
  \/ \E c \in Callers : PublishToStream(c)
  \/ Reconnect
  \/ applyWorkEvent
  \/ applyClock
  \/ Crash
  \/ BrowserTick

ViewSpec == ViewInit /\ [][ViewNext]_allVars

(* Timers fire, streams drain, time passes, the goroutines of a running      *)
(* server go on, and Cancel waits no longer than its context.  A turn may    *)
(* run for ever unless its context is canceled.                              *)
Alive == ~crashed /\ UNCHANGED viewVars

ViewFairness ==
  /\ WF_allVars(applyWorkEvent) /\ WF_allVars(applyClock)
  /\ WF_allVars(BrowserTick)
  /\ WF_allVars(Alive /\ Tick)
  /\ \A c \in Callers : WF_allVars(PublishToStream(c))
  /\ \A l \in Leases :
       /\ WF_allVars(/\ Alive /\ TurnStep(l) /\ turn[l].pc # "new"
                     /\ turn[l].pc = "running" => turn[l].canceled)
       /\ WF_allVars(Alive /\ RenewerExits(l))
       /\ WF_allVars(Alive /\ ReportStatus(l))
  /\ \A s \in Stoppers : WF_allVars(Alive /\ StopperStep(s) /\ stopper[s].pc # "idle")

ViewFairSpec == ViewSpec /\ ViewFairness

-----------------------------------------------------------------------------
Pending(l) ==
  \/ \E u \in Updates : u.lease = l
  \/ \E i \in DOMAIN stream : stream[i].lease = l

(* When every update of a lease has reached the reducer, in whatever order   *)
(* the callers published them, the Web shows what the registry holds: the    *)
(* newest revision with its stop state while the lease is active and not     *)
(* past its expiry, and nothing once it has ended.  A reducer that has       *)
(* already forgotten the closed lease is not fooled by a late update.        *)
ViewAgrees ==
  \A l \in Leases : ~Pending(l) /\ l \notin lost =>
    /\ Active(l) /\ activeByKey[l].expiresAt > clock =>
         /\ view[l].kind = "active"
         /\ view[l].revision = activeByKey[l].revision
         /\ view[l].stopState = activeByKey[l].stopState
    /\ turn[l].ended # Absent => view[l].kind # "active"

(* Nobody is shown as working for ever: whatever updates are lost, and even  *)
(* if the server dies, the Web stops showing a turn that ended.              *)
ViewClears ==
  \A l \in Leases : (crashed \/ turn[l].pc = "done") ~> [](view[l].kind # "active")

(* While the server lives, a requested stop does not stay "requested" for    *)
(* ever: the lease ends or the request is marked failed or timed out.        *)
StopAnswered ==
  \A l \in Leases :
    (Active(l) /\ activeByKey[l].stopState = "requested")
      ~> crashed \/ ~(Active(l) /\ activeByKey[l].stopState = "requested")
=============================================================================
