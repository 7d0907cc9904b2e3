------------------------ MODULE InteractionCoordinator ------------------------
(***************************************************************************)
(* Questions and permission requests of one conversation:                  *)
(* src/internal/agentengine/interactionstate/coordinator.go, with the      *)
(* engine's turns as its callers (engine.go).                              *)
(*                                                                         *)
(* A native interaction belongs to a request the runtime is blocked on; a  *)
(* detached one is a question left behind by a turn that succeeded, whose  *)
(* answer may be carried by a turn of its own (ContinueDetached).  A       *)
(* responder is one call of Resolve; it holds c.mu for its first and its   *)
(* last step and calls out without it in between.  Turns of a conversation *)
(* exclude each other (ConversationEngine), so one turn at a time is       *)
(* modelled: of a user, or of a responder that continues its answer.       *)
(***************************************************************************)
EXTENDS Naturals, FiniteSets

CONSTANTS Native, Detached, \* the interactions of either kind
          Responders,       \* concurrent calls of Resolve
          MaxTurns,         \* bound: turns of the conversation
          None

ASSUME KindsApart == Native \intersect Detached = {}
ASSUME NoneApart == None \notin Responders /\ "user" \notin Responders
ASSUME TurnBound == MaxTurns \in Nat

Interactions == Native \union Detached

VARIABLES state,      \* "absent", "pending", "terminal", "pruned"
          status,     \* the status in the payload
          resolving,  \* record.resolving
          continuing, \* record.continuing
          born,       \* record.turnID
          due,        \* whether the deadline has passed
          timer,      \* whether the expiry timer is armed
          native,     \* the runtime's own request
          pc,         \* where a responder is
          target,     \* its interaction
          continues,  \* whether its resolution continues a detached answer
          cancelled,  \* whether its resolveCtx is cancelled
          failed,     \* its err # nil
          delivered,  \* its delivered
          outcome,    \* what Resolve returned
          turn,       \* the turn in the conversation
          turnID,     \* the number of turns so far
          dispatched, \* history: responders whose turn the runtime accepted
          notified,   \* history: terminal notifications of a record
          invalidated \* history: interactions ended by Invalidate

record == <<state, status, resolving, continuing, timer>>
responder == <<pc, target, continues, cancelled, failed, delivered, outcome>>
vars == <<record, born, due, native, responder, turn, turnID, dispatched,
          notified, invalidated>>

Idle == [by |-> None, phase |-> "idle", preserve |-> FALSE, accepted |-> FALSE]

InFlight == {"before", "check", "deliver", "continue", "inTurn", "finish"}

Init ==
  /\ state = [i \in Interactions |-> "absent"]
  /\ status = [i \in Interactions |-> "pending"]
  /\ resolving = [i \in Interactions |-> FALSE]
  /\ continuing = [i \in Interactions |-> FALSE]
  /\ born = [i \in Interactions |-> 0]
  /\ due = [i \in Interactions |-> FALSE]
  /\ timer = [i \in Interactions |-> FALSE]
  /\ native = [i \in Native |-> "none"]
  /\ pc = [r \in Responders |-> "idle"]
  /\ target \in [Responders -> Interactions]
  /\ continues \in [Responders -> BOOLEAN]
  /\ cancelled = [r \in Responders |-> FALSE]
  /\ failed = [r \in Responders |-> FALSE]
  /\ delivered = [r \in Responders |-> FALSE]
  /\ outcome = [r \in Responders |-> "none"]
  /\ turn = Idle
  /\ turnID = 0
  /\ dispatched = {}
  /\ notified = [i \in Interactions |-> 0]
  /\ invalidated = {}

-----------------------------------------------------------------------------
(* Records. *)

Pending(i) == state[i] = "pending"

(* finishLocked, interruptLocked and the notification, for a set of records. *)
(* A question of a session client has no notify: for it, notified counts     *)
(* the calls of the function that would notify.                              *)
Finish(set, how) ==
  /\ state' = [i \in Interactions |-> IF i \in set THEN "terminal"
                                                   ELSE state[i]]
  /\ status' = [i \in Interactions |-> IF i \in set THEN how ELSE status[i]]
  /\ timer' = [i \in Interactions |-> timer[i] /\ i \notin set]
  /\ notified' = [i \in Interactions |-> IF i \in set \intersect Detached
                                           THEN notified[i] + 1
                                           ELSE notified[i]]

(* Their reserved responses are cancelled. *)
CancelResponses(set) ==
  cancelled' = [r \in Responders |->
                  cancelled[r] \/ (target[r] \in set /\ pc[r] \in InFlight)]

Interrupt(set, how) == Finish(set, how) /\ CancelResponses(set)

Goto(r, there) == pc' = [pc EXCEPT ![r] = there]

Return(r, what) ==
  /\ Goto(r, "returned")
  /\ outcome' = [outcome EXCEPT ![r] = what]

-----------------------------------------------------------------------------
(* Resolve, up to the calls it makes without the lock. *)

MayReserve(i) == Pending(i) /\ ~resolving[i] /\ ~due[i]

Reserve(r) ==
  /\ pc[r] = "idle" /\ MayReserve(target[r])
  /\ resolving' = [resolving EXCEPT ![target[r]] = TRUE]
  /\ continuing' = [continuing EXCEPT ![target[r]] =
                      target[r] \in Detached /\ continues[r]]
  /\ Goto(r, "before")
  /\ UNCHANGED <<state, status, timer, born, due, native, target, continues,
                 cancelled, failed, delivered, outcome, turn, turnID,
                 dispatched, notified>>

(* Not found, already resolved, gone, expired or invalid answers. *)
Refuse(r) ==
  /\ pc[r] = "idle" /\ state[target[r]] # "absent"
  /\ Return(r, "refused")
  /\ UNCHANGED <<record, born, due, native, target, continues, cancelled,
                 failed, delivered, turn, turnID, dispatched, notified>>

(* The transcript callback, with resolveCtx. *)
BeforeResolve(r, ok) ==
  /\ pc[r] = "before"
  /\ Goto(r, "check")
  /\ failed' = [failed EXCEPT ![r] = ~ok]
  /\ UNCHANGED <<record, born, due, native, target, continues, cancelled,
                 delivered, outcome, turn, turnID, dispatched, notified>>

CheckInterrupted(r) ==
  LET stop == failed[r] \/ ~Pending(target[r]) \/ cancelled[r]
  IN /\ pc[r] = "check"
     /\ failed' = [failed EXCEPT ![r] = stop]
     /\ Goto(r, CASE stop -> "finish"
                  [] ~stop /\ target[r] \in Native -> "deliver"
                  [] ~stop /\ continuing[target[r]] -> "continue"
                  [] OTHER -> "finish")
     /\ UNCHANGED <<record, born, due, native, target, continues, cancelled,
                    delivered, outcome, turn, turnID, dispatched, notified>>

(* The runtime's Resolve: its broker answers a request once, and may refuse *)
(* the answer or give up while the request is open.                         *)
ResolveNative(r) ==
  LET i == target[r]
  IN /\ pc[r] = "deliver"
     /\ \E released \in {FALSE, native[i] = "open"} :
          /\ native' = IF released THEN [native EXCEPT ![i] = "answered"]
                                   ELSE native
          /\ failed' = [failed EXCEPT ![r] = ~released]
     /\ Goto(r, "finish")
     /\ UNCHANGED <<record, born, due, target, continues, cancelled, delivered,
                    outcome, turn, turnID, dispatched, notified>>

(* The continuation gives up waiting for admission. *)
ContinueFails(r) ==
  /\ pc[r] = "continue"
  /\ failed' = [failed EXCEPT ![r] = TRUE]
  /\ Goto(r, "finish")
  /\ UNCHANGED <<record, born, due, native, target, continues, cancelled,
                 delivered, outcome, turn, turnID, dispatched, notified>>

(* The client goes away. *)
CallerCancels(r) ==
  /\ pc[r] \in InFlight /\ ~cancelled[r]
  /\ cancelled' = [cancelled EXCEPT ![r] = TRUE]
  /\ UNCHANGED <<record, born, due, native, pc, target, continues, failed,
                 delivered, outcome, turn, turnID, dispatched, notified>>

-----------------------------------------------------------------------------
(* Resolve's last step. *)

ForgetsDelivery(r) == Pending(target[r]) /\ ~failed[r] /\ ~cancelled[r]

Resolves(r) ==
  /\ Pending(target[r])
  /\ ~failed[r]
  /\ delivered[r] \/ ~cancelled[r]

NoRecheck(r) == FALSE

(* "Resolve rechecks the deadline if dispatch fails." *)
ExpiresNow(r) == continuing[target[r]] /\ due[target[r]]

ReleaseReservation(r) ==
  /\ resolving' = [resolving EXCEPT ![target[r]] = FALSE]
  /\ continuing' = [continuing EXCEPT ![target[r]] = FALSE]

FinishResolve(r) ==
  LET i == target[r]
  IN /\ pc[r] = "finish"
     /\ ReleaseReservation(r)
     /\ CASE Resolves(r) -> Finish({i}, "answered") /\ Return(r, "ok")
          [] ~Resolves(r) /\ ~Pending(i) ->
               /\ Return(r, "gone")
               /\ UNCHANGED <<state, status, timer, notified>>
          [] ~Resolves(r) /\ Pending(i) /\ ExpiresNow(r) ->
               /\ Goto(r, "expire") /\ UNCHANGED outcome
               /\ UNCHANGED <<state, status, timer, notified>>
          [] OTHER ->
               /\ Return(r, "error")
               /\ UNCHANGED <<state, status, timer, notified>>
     /\ UNCHANGED <<born, due, native, target, continues, cancelled, failed,
                    delivered, turn, turnID, dispatched>>

ExpireTwice(i) == state[i] # "absent" /\ ~continuing[i]

(* expire leaves terminal records and answers on their way alone. *)
MayExpire(i) == Pending(i) /\ ~continuing[i]

Expire(i) ==
  IF MayExpire(i) THEN Interrupt({i}, "expired")
                  ELSE UNCHANGED <<state, status, notified, cancelled>>

ExpireAfterFailure(r) ==
  /\ pc[r] = "expire"
  /\ Expire(target[r])
  /\ IF MayExpire(target[r]) THEN TRUE ELSE UNCHANGED timer
  /\ Return(r, "error")
  /\ UNCHANGED <<resolving, continuing, born, due, native, target, continues,
                 failed, delivered, turn, turnID, dispatched>>

-----------------------------------------------------------------------------
(* Time and the runtime's events. *)

DeadlinePasses(i) ==
  /\ i \in Detached /\ Pending(i) /\ ~due[i]
  /\ due' = [due EXCEPT ![i] = TRUE]
  /\ UNCHANGED <<record, born, native, responder, turn, turnID, dispatched,
                 notified>>

TimerFires(i) ==
  /\ timer[i] /\ due[i]
  /\ Expire(i)
  /\ timer' = [timer EXCEPT ![i] = FALSE]
  /\ UNCHANGED <<resolving, continuing, born, due, native, pc, target,
                 continues, failed, delivered, outcome, turn, turnID,
                 dispatched>>

Observed == [answered |-> "answered", cancelled |-> "interrupted"]

FinishesOnObserve(i) == ~resolving[i]

ObservesTerminal(i) == state[i] # "absent"

Observable(i) == Pending(i)

(* The runtime reports how its request ended. *)
Observe(i) ==
  /\ turn.phase = "running" /\ i \in Native /\ native[i] \in DOMAIN Observed
  /\ Observable(i)
  /\ IF FinishesOnObserve(i)
       THEN Finish({i}, Observed[native[i]])
       ELSE /\ status' = [status EXCEPT ![i] = Observed[native[i]]]
            /\ UNCHANGED <<state, timer, notified>>
  /\ UNCHANGED <<resolving, continuing, born, due, native, responder, turn,
                 turnID, dispatched>>

(* pruneLocked, terminalRetention after the record ended. *)
Prune(i) ==
  /\ state[i] = "terminal"
  /\ state' = [state EXCEPT ![i] = "pruned"]
  /\ UNCHANGED <<status, resolving, continuing, timer, born, due, native,
                 responder, turn, turnID, dispatched, notified>>

-----------------------------------------------------------------------------
(* Turns. *)

AdmitTurn(by, preserve) ==
  /\ turn.phase = "idle" /\ turnID < MaxTurns
  /\ turn' = [by |-> by, phase |-> "admitted", preserve |-> preserve,
              accepted |-> FALSE]
  /\ turnID' = turnID + 1

UserTurn(preserve) ==
  /\ AdmitTurn("user", preserve)
  /\ UNCHANGED <<record, born, due, native, responder, dispatched, notified>>

ContinueDetached(r) ==
  /\ pc[r] = "continue" /\ ~cancelled[r]
  /\ AdmitTurn(r, FALSE)
  /\ Goto(r, "inTurn")
  /\ UNCHANGED <<record, born, due, native, target, continues, cancelled,
                 failed, delivered, outcome, dispatched, notified>>

(* BeginTurn of a turn that responds to an interaction. *)
Reserved(r) == Pending(target[r]) /\ continuing[target[r]]

BeginContinuation(r) ==
  /\ turn.by = r /\ turn.phase = "admitted"
  /\ IF Reserved(r)
       THEN turn' = [turn EXCEPT !.phase = "running"] /\ UNCHANGED <<pc, failed>>
       ELSE /\ turn' = Idle
            /\ failed' = [failed EXCEPT ![r] = TRUE]
            /\ Goto(r, "finish")
  /\ UNCHANGED <<record, born, due, native, target, continues, cancelled,
                 delivered, outcome, turnID, dispatched, notified>>

OvertakesAnswer == \E i \in Interactions : Pending(i) /\ turn.preserve

(* BeginTurn refuses a turn that must not disturb pending forms, and any    *)
(* turn while an answer is being continued.                                 *)
BeginRefused ==
  \E i \in Interactions : Pending(i) /\ (turn.preserve \/ continuing[i])

SupersedesNone == {}

Superseded == {i \in Detached : Pending(i)}

BeginUserTurn ==
  /\ turn.by = "user" /\ turn.phase = "admitted"
  /\ IF BeginRefused
       THEN turn' = Idle
            /\ UNCHANGED <<state, status, timer, cancelled, notified>>
       ELSE /\ turn' = [turn EXCEPT !.phase = "running"]
            /\ Interrupt(Superseded, "interrupted")
  /\ UNCHANGED <<resolving, continuing, born, due, native, pc, target,
                 continues, failed, delivered, outcome, turnID, dispatched>>

RuntimeAccepts ==
  /\ turn.phase = "running" /\ ~turn.accepted
  /\ turn' = [turn EXCEPT !.accepted = TRUE]
  /\ dispatched' = dispatched \union ({turn.by} \ {"user"})
  /\ UNCHANGED <<record, born, due, native, responder, turnID, notified>>

(* The runtime asks; Register keeps the first record of an ID. *)
Register(i) ==
  /\ turn.accepted /\ i \in Native /\ state[i] = "absent"
  /\ state' = [state EXCEPT ![i] = "pending"]
  /\ born' = [born EXCEPT ![i] = turnID]
  /\ native' = [native EXCEPT ![i] = "open"]
  /\ UNCHANGED <<status, resolving, continuing, timer, due, responder, turn,
                 turnID, dispatched, notified>>

(* A broker gives up a request of its own accord (timeout, cancelled turn). *)
NativeGivesUp(i) ==
  /\ i \in Native /\ native[i] = "open"
  /\ native' = [native EXCEPT ![i] = "cancelled"]
  /\ UNCHANGED <<record, born, due, responder, turn, turnID, dispatched,
                 notified>>

(* A turn's Run returns to its responder. *)
TurnReturns(success) ==
  /\ turn' = Idle
  /\ IF turn.by = "user"
       THEN UNCHANGED <<pc, failed, delivered>>
       ELSE /\ delivered' = [delivered EXCEPT ![turn.by] =
                               success \/ turn.accepted]
            /\ failed' = [failed EXCEPT ![turn.by] = ~delivered'[turn.by]]
            /\ Goto(turn.by, "finish")

OfTurn(i) == Pending(i) /\ born[i] = turnID

(* "successful completion must allow that reserved response to finish" *)
Abandoned(i) == OfTurn(i) /\ ~(resolving[i] /\ i \in Native)

(* CompleteTurn, then CreateDetached when the output asks a question: the   *)
(* records of this turn that nobody answers end, the new one opens.         *)
TurnSucceeds(asked) ==
  /\ turn.accepted
  /\ \A i \in asked : i \in Detached /\ state[i] = "absent"
  /\ LET gone == {i \in Interactions : Abandoned(i)}
     IN /\ state' = [i \in Interactions |->
                       CASE i \in gone -> "terminal"
                         [] i \in asked -> "pending"
                         [] OTHER -> state[i]]
        /\ status' = [i \in Interactions |-> IF i \in gone THEN "interrupted"
                                                           ELSE status[i]]
        /\ CancelResponses(gone)
  /\ timer' = [i \in Interactions |-> timer[i] \/ i \in asked]
  /\ born' = [i \in Interactions |-> IF i \in asked THEN turnID ELSE born[i]]
  /\ native' = [i \in Native |-> IF native[i] = "open" THEN "cancelled"
                                                       ELSE native[i]]
  /\ TurnReturns(TRUE)
  /\ UNCHANGED <<resolving, continuing, due, target, continues, outcome,
                 turnID, dispatched, notified>>

TurnFails ==
  /\ turn.phase = "running"
  /\ Interrupt({i \in Interactions : OfTurn(i)}, "interrupted")
  /\ native' = [i \in Native |-> IF native[i] = "open" THEN "cancelled"
                                                       ELSE native[i]]
  /\ TurnReturns(FALSE)
  /\ UNCHANGED <<resolving, continuing, born, due, target, continues, outcome,
                 turnID, dispatched>>

(* Cancel of the turn that asked (k), or the Agent's lifecycle (k = 0):     *)
(* detached only.  Reset, between turns: everything.                        *)
Invalidate(all, k) ==
  LET set == {i \in Interactions : /\ Pending(i)
                                   /\ all \/ i \in Detached
                                   /\ k = 0 \/ born[i] = k}
  IN /\ all => turn.phase = "idle" /\ k = 0
     /\ set # {}
     /\ Interrupt(set, "interrupted")
     /\ invalidated' = invalidated \union set
     /\ UNCHANGED <<resolving, continuing, born, due, native, pc, target,
                    continues, failed, delivered, outcome, turn, turnID,
                    dispatched>>

Respond(r) ==
  \/ Reserve(r) \/ Refuse(r)
  \/ \E ok \in BOOLEAN : BeforeResolve(r, ok)
  \/ CheckInterrupted(r) \/ ResolveNative(r) \/ ContinueFails(r)
  \/ ContinueDetached(r) \/ BeginContinuation(r)
  \/ FinishResolve(r) \/ ExpireAfterFailure(r)

EndTurn ==
  \/ TurnFails
  \/ \E asked \in {{}} \union {{i} : i \in Detached} : TurnSucceeds(asked)

Step ==
  \/ \E r \in Responders : Respond(r) \/ CallerCancels(r)
  \/ \E i \in Interactions :
       DeadlinePasses(i) \/ TimerFires(i) \/ Observe(i) \/ Prune(i)
         \/ Register(i) \/ NativeGivesUp(i)
  \/ \E preserve \in BOOLEAN : UserTurn(preserve)
  \/ BeginUserTurn \/ RuntimeAccepts \/ EndTurn

Next ==
  \/ Step /\ UNCHANGED invalidated
  \/ \E all \in BOOLEAN, k \in 0..MaxTurns : Invalidate(all, k)

Spec == Init /\ [][Next]_vars

-----------------------------------------------------------------------------
(* Every variable has its type. *)
TypeOK ==
  /\ state \in [Interactions -> {"absent", "pending", "terminal", "pruned"}]
  /\ status \in [Interactions -> {"pending", "answered", "interrupted",
                                  "expired"}]
  /\ resolving \in [Interactions -> BOOLEAN]
  /\ continuing \in [Interactions -> BOOLEAN]
  /\ born \in [Interactions -> 0..MaxTurns]
  /\ due \in [Interactions -> BOOLEAN]
  /\ timer \in [Interactions -> BOOLEAN]
  /\ native \in [Native -> {"none", "open", "answered", "cancelled"}]
  /\ pc \in [Responders -> InFlight \union {"idle", "expire", "returned"}]
  /\ target \in [Responders -> Interactions]
  /\ continues \in [Responders -> BOOLEAN]
  /\ cancelled \in [Responders -> BOOLEAN]
  /\ failed \in [Responders -> BOOLEAN]
  /\ delivered \in [Responders -> BOOLEAN]
  /\ outcome \in [Responders -> {"none", "ok", "refused", "gone", "error"}]
  /\ turn \in [by : Responders \union {"user", None},
               phase : {"idle", "admitted", "running"},
               preserve : BOOLEAN, accepted : BOOLEAN]
  /\ turnID \in 0..MaxTurns
  /\ dispatched \subseteq Responders
  /\ notified \in [Interactions -> Nat]
  /\ invalidated \subseteq Interactions

InFlightOn(i) == {r \in Responders : target[r] = i /\ pc[r] \in InFlight}

(* What Resolve tells its caller is true: after success the answer reached  *)
(* the runtime (or, for a question without continuation, is recorded) and   *)
(* no other response succeeds; after an error, which invites a retry, the   *)
(* runtime has not accepted a continuation of this response.                *)
AcknowledgedTruly ==
  \A r \in Responders :
    /\ outcome[r] = "ok" =>
         /\ status[target[r]] = "answered"
         /\ target[r] \in Native => native[target[r]] = "answered"
         /\ target[r] \in Detached /\ continues[r] => r \in dispatched
         /\ \A q \in Responders :
              outcome[q] = "ok" /\ target[q] = target[r] => q = r
    /\ outcome[r] = "error" => r \notin dispatched

(* The projection of a question is updated once: its record notifies when   *)
(* it ends by answer, expiry or interruption, and never again.              *)
NotifiedOnce ==
  \A i \in Detached :
    notified[i] = IF state[i] \in {"terminal", "pruned"} THEN 1 ELSE 0

(* "BeginTurn orders a new turn against acceptance of detached answers":    *)
(* while a turn of a user runs, no question of an earlier turn is open; a   *)
(* continuation the runtime has not accepted yet either still owns its      *)
(* question or has been told to stop.                                       *)
TurnsOrderAnswers ==
  /\ turn.phase = "running" /\ turn.by = "user" =>
       \A i \in Detached : ~Pending(i)
  /\ turn.phase = "running" /\ turn.by \in Responders =>
       \/ Pending(target[turn.by]) /\ continuing[target[turn.by]]
       \/ cancelled[turn.by]

(* "A responder owns the next turn until its runtime acknowledges dispatch  *)
(* or fails to start": an answer that is being continued is lost only to an *)
(* explicit invalidation (Cancel, Reset, the Agent's lifecycle), never to   *)
(* its deadline or to another turn.                                         *)
AnswersNotLost ==
  \A r \in Responders :
    outcome[r] = "gone" /\ continues[r] /\ target[r] \in Detached
      => target[r] \in invalidated

(* A terminal record stays terminal with the same status until it is        *)
(* pruned, although timers, responders, events and turns that saw it        *)
(* pending are still running.                                               *)
TerminalIsFinal ==
  [][\A i \in Interactions :
       state[i] \in {"terminal", "pruned"} =>
         /\ state'[i] \in {"terminal", "pruned"}
         /\ status'[i] = status[i]]_vars

(* A question whose deadline passed will be ended: its timer has yet to     *)
(* fire, an answer is being continued, or the response whose continuation   *)
(* failed is about to expire it.  The timer fires once and skips a question *)
(* that is being continued, so Resolve has to recheck the deadline.         *)
DeadlineHolds ==
  \A i \in Detached : due[i] /\ Pending(i) =>
    \/ timer[i] \/ continuing[i]
    \/ \E r \in Responders : target[r] = i /\ pc[r] = "expire"

(* "CompleteTurn abandons unanswered native requests after successful       *)
(* execution": between turns, with no response on its way, no native        *)
(* request is pending.  The code breaks it: a reserved response that fails  *)
(* after its turn completed leaves the record pending for good.             *)
NativeEndsWithTurn ==
  turn.phase = "idle" =>
    \A i \in Native : Pending(i) => InFlightOn(i) # {}
=============================================================================
