------------------------------ MODULE TurnEvents ------------------------------
(***************************************************************************)
(* The event stream of one turn: how it is numbered, recorded for replay   *)
(* and handed to the caller's sink (src/internal/agentengine/engine.go),   *)
(* with the media tasks that report through it (image_generation.go,       *)
(* video_generation.go).                                                   *)
(*                                                                         *)
(* Emitters are the goroutine of the runtime, one goroutine per media task *)
(* (a background video outlives its turn; an image tool call does when the *)
(* turn is cancelled) and the callback of the detached question.           *)
(* recordAndEmit holds turn.emitMu while it calls the sink and e.mu only   *)
(* while it records; emitDetached takes e.mu only.  The sink may fail.     *)
(***************************************************************************)
EXTENDS Naturals, Sequences

CONSTANTS Images, Videos,  \* the media tasks the turn may start
          Questions,       \* {"detached"}, or {} when the turn asks nothing
          MaxOutputs,      \* bound: outputs of the runtime
          MaxProgress,     \* bound: progress events of a video
          MaxAttempts,     \* deliveries of a finished video (3)
          None

ASSUME Bounds == /\ MaxOutputs \in Nat /\ MaxProgress \in Nat
                 /\ MaxAttempts \in Nat \ {0}
ASSUME EmittersApart == /\ Images \intersect Videos = {}
                        /\ Questions \subseteq {"detached"}
                        /\ {"runtime", "detached"} \intersect
                             (Images \union Videos) = {}
                        /\ None \notin Images \union Videos \union
                             {"runtime", "detached"}

Media == Images \union Videos
Ordered == Media \union {"runtime"}
Emitters == Ordered \union Questions

VARIABLES turn,            \* "running", "succeeded", "asked", "completed"
          sequence,        \* turn.sequence
          events,          \* turn.events
          cached,          \* whether e.completed has the turn
          completedEvents, \* its completedTurn.events
          emitMu,          \* the holder of turn.emitMu, or None
          inFlight,        \* what an emitter is handing to the sink
          delivered,       \* what the sink has received
          phase,           \* where a media task is
          tries,           \* its deliveries or progress events so far
          detached         \* the detached question

vars == <<turn, sequence, events, cached, completedEvents, emitMu, inFlight,
          delivered, phase, tries, detached>>

States == {"output", "generating", "completed", "failed", "delivery_failed",
           "resolved"}
Terminal == {"completed", "failed", "delivery_failed"}
Event == [seq : Nat \ {0}, by : Emitters, state : States]
ASSUME NoneIsNoEvent == None \notin Event

(* What a media task reports in each of its phases. *)
Reports == [announce |-> "generating", working |-> "generating",
            reportFailed |-> "failed", deliver |-> "completed",
            reportUndelivered |-> "delivery_failed"]
Phases == DOMAIN Reports \union {"none", "refused", "ended"}

Init ==
  /\ turn = "running"
  /\ sequence = 0
  /\ events = <<>>
  /\ cached = FALSE
  /\ completedEvents = <<>>
  /\ emitMu = None
  /\ inFlight = [e \in Emitters |-> None]
  /\ delivered = <<>>
  /\ phase = [m \in Media |-> "none"]
  /\ tries = [m \in Media \union {"runtime"} |-> 0]
  /\ detached = "none"

-----------------------------------------------------------------------------
(* recordAndEmit, in two steps: what happens under e.mu, and the sink. *)

EmitUnlocked(e) == TRUE

MayEmit(e) == emitMu = None

Record(e, state) ==
  LET event == [seq |-> sequence + 1, by |-> e, state |-> state]
  IN /\ inFlight[e] = None
     /\ MayEmit(e)
     /\ emitMu' = e
     /\ sequence' = sequence + 1
     /\ events' = Append(events, event)
     /\ inFlight' = [inFlight EXCEPT ![e] = event]
     /\ UNCHANGED <<cached, completedEvents, delivered>>

ReleasesEmitMu(e, ok) == emitMu = e

(* The sink takes the event (ok) or fails. *)
Emit(e, ok) ==
  /\ inFlight[e] # None
  /\ delivered' = IF ok THEN Append(delivered, inFlight[e]) ELSE delivered
  /\ inFlight' = [inFlight EXCEPT ![e] = None]
  /\ emitMu' = IF ReleasesEmitMu(e, ok) THEN None ELSE emitMu
  /\ UNCHANGED <<turn, sequence, events, cached, completedEvents>>

-----------------------------------------------------------------------------
(* The turn. *)

RuntimeEmits ==
  /\ turn = "running" /\ tries["runtime"] < MaxOutputs
  /\ Record("runtime", "output")
  /\ tries' = [tries EXCEPT !["runtime"] = @ + 1]
  /\ UNCHANGED <<turn, phase, detached>>

RuntimeEmitted(ok) ==
  /\ Emit("runtime", ok)
  /\ UNCHANGED <<phase, tries, detached>>

RuntimeSucceeds ==
  /\ turn = "running" /\ inFlight["runtime"] = None
  /\ turn' = "succeeded"
  /\ UNCHANGED <<sequence, events, cached, completedEvents, emitMu, inFlight,
                 delivered, phase, tries, detached>>

(* CreateDetached: the question is open before the turn is complete. *)
CreateDetached ==
  /\ turn = "succeeded" /\ Questions # {}
  /\ turn' = "asked"
  /\ detached' = "open"
  /\ UNCHANGED <<sequence, events, cached, completedEvents, emitMu, inFlight,
                 delivered, phase, tries>>

(* complete: a dispatched turn enters the replay cache with the events      *)
(* recorded so far; one that failed before dispatch does not.               *)
Complete(dispatched) ==
  /\ IF dispatched THEN turn \in {"running", "succeeded", "asked"}
                   ELSE turn = "running"
  /\ inFlight["runtime"] = None
  /\ turn' = "completed"
  /\ cached' = dispatched
  /\ completedEvents' = IF dispatched THEN events ELSE <<>>
  /\ UNCHANGED <<sequence, events, emitMu, inFlight, delivered, phase, tries,
                 detached>>

(* Another turn's completion evicts this one. *)
Evict ==
  /\ cached
  /\ cached' = FALSE
  /\ completedEvents' = <<>>
  /\ UNCHANGED <<turn, sequence, events, emitMu, inFlight, delivered, phase,
                 tries, detached>>

NextSequence == sequence + 1

(* emitDetached, when the question is answered, expires or is interrupted:  *)
(* the event is recorded in the cache entry, if there is one.               *)
EmitDetached ==
  LET event == [seq |-> NextSequence, by |-> "detached", state |-> "resolved"]
  IN /\ detached = "open"
     /\ detached' = "emitting"
     /\ sequence' = NextSequence
     /\ completedEvents' = IF cached THEN Append(completedEvents, event)
                                     ELSE completedEvents
     /\ inFlight' = [inFlight EXCEPT !["detached"] = event]
     /\ UNCHANGED <<turn, events, cached, emitMu, delivered, phase, tries>>

DetachedEmitted(ok) ==
  /\ detached = "emitting"
  /\ Emit("detached", ok)
  /\ detached' = "closed"
  /\ UNCHANGED <<phase, tries>>

-----------------------------------------------------------------------------
(* A media task. *)

StartMedia(m) ==
  /\ turn = "running" /\ phase[m] = "none"
  /\ phase' = [phase EXCEPT ![m] = "announce"]
  /\ UNCHANGED <<turn, sequence, events, cached, completedEvents, emitMu,
                 inFlight, delivered, tries, detached>>

(* Only the progress callback of a video reports while the task is working. *)
MediaEmits(m) ==
  /\ phase[m] \in DOMAIN Reports
  /\ phase[m] = "working" => m \in Videos /\ tries[m] < MaxProgress
  /\ Record(m, Reports[phase[m]])
  /\ tries' = [tries EXCEPT ![m] = @ + 1]
  /\ UNCHANGED <<turn, phase, detached>>

FileLostSilently(m) == "ended"

(* The model answers: an error, a result that is stored, or a result that   *)
(* cannot be stored, which a video reports and an image does not.           *)
FileLost(m) == IF m \in Videos THEN "reportUndelivered" ELSE "ended"

Generated(m) ==
  /\ phase[m] = "working" /\ inFlight[m] = None
  /\ \E outcome \in {"reportFailed", "deliver", FileLost(m)} :
       phase' = [phase EXCEPT ![m] = outcome]
  /\ tries' = [tries EXCEPT ![m] = 0]
  /\ UNCHANGED <<turn, sequence, events, cached, completedEvents, emitMu,
                 inFlight, delivered, detached>>

RetriesAlways(m, ok) == tries[m] < MaxAttempts

(* A finished video is offered to the sink MaxAttempts times, an image once. *)
DeliverAgain(m, ok) == ~ok /\ m \in Videos /\ tries[m] < MaxAttempts

AfterReport(m, ok) ==
  CASE phase[m] = "announce" -> IF ok THEN "working" ELSE "refused"
    [] phase[m] = "working" -> "working"
    [] phase[m] = "deliver" ->
         IF DeliverAgain(m, ok) THEN "deliver"
           ELSE IF ok THEN "ended" ELSE "reportUndelivered"
    [] OTHER -> "ended"

MediaEmitted(m, ok) ==
  /\ Emit(m, ok)
  /\ phase' = [phase EXCEPT ![m] = AfterReport(m, ok)]
  /\ tries' = IF phase[m] = "announce" THEN [tries EXCEPT ![m] = 0] ELSE tries
  /\ UNCHANGED detached

Next ==
  \/ RuntimeEmits \/ RuntimeSucceeds \/ CreateDetached \/ Evict
  \/ EmitDetached
  \/ \E ok \in BOOLEAN : \/ RuntimeEmitted(ok) \/ DetachedEmitted(ok)
                         \/ Complete(ok)
  \/ \E m \in Media : \/ StartMedia(m) \/ MediaEmits(m) \/ Generated(m)
                      \/ \E ok \in BOOLEAN : MediaEmitted(m, ok)

Spec == Init /\ [][Next]_vars

-----------------------------------------------------------------------------
(* Every variable has its type. *)
TypeOK ==
  /\ turn \in {"running", "succeeded", "asked", "completed"}
  /\ sequence \in Nat
  /\ events \in Seq(Event)
  /\ cached \in BOOLEAN
  /\ completedEvents \in Seq(Event)
  /\ emitMu \in Ordered \union {None}
  /\ inFlight \in [Emitters -> Event \union {None}]
  /\ delivered \in Seq(Event)
  /\ phase \in [Media -> Phases]
  /\ tries \in [Ordered -> Nat]
  /\ detached \in {"none", "open", "emitting", "closed"}

(* emitMu keeps the sink's order equal to the recorded order for everything *)
(* that goes through recordAndEmit: the runtime, images and videos.         *)
EmittedInOrder ==
  \A i, j \in DOMAIN delivered :
    i < j /\ delivered[i].by # "detached" /\ delivered[j].by # "detached"
      => delivered[i].seq < delivered[j].seq

(* The sink is told one outcome of a media task: a delivery is repeated or  *)
(* reported as failed only when the sink did not take it, so a card that    *)
(* shows a finished image or video never changes to a failure.              *)
OneOutcome ==
  \A m \in Media : \A i, j \in DOMAIN delivered :
    /\ delivered[i].by = m /\ delivered[i].state \in Terminal
    /\ delivered[j].by = m /\ delivered[j].state \in Terminal
    => i = j

(* The latest recorded event of a media task. *)
LatestOf(m, i) ==
  /\ i \in DOMAIN events /\ events[i].by = m
  /\ \A j \in DOMAIN events : j > i => events[j].by # m

(* A video whose start the sink accepted ends with a terminal state in the  *)
(* record, whichever of the model, the file store and the sink failed       *)
(* ("otherwise ... the UI remains stuck at its previous state").            *)
VideoReported ==
  \A m \in Videos : phase[m] = "ended" =>
    \E i \in DOMAIN events : LatestOf(m, i) /\ events[i].state \in Terminal
=============================================================================
