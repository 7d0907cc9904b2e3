--------------------- MODULE InteractionCoordinatorProofs ---------------------
(***************************************************************************)
(* Proofs about InteractionCoordinator, for any number of interactions,    *)
(* concurrent responders and turns.                                        *)
(***************************************************************************)
EXTENDS InteractionCoordinator, TLAPS

(***************************************************************************)
(* The strengthening.  A responder past its first step holds the           *)
(* reservation of its record, alone.                                       *)
(***************************************************************************)
Owns ==
  \A r \in Responders : pc[r] \in InFlight =>
    /\ resolving[target[r]]
    /\ continuing[target[r]] <=> target[r] \in Detached /\ continues[r]

Alone ==
  \A r, q \in Responders :
    pc[r] \in InFlight /\ pc[q] \in InFlight /\ target[r] = target[q] => r = q

(* Where a responder is tells how it answers. *)
Answers ==
  \A r \in Responders :
    /\ pc[r] # "idle" => state[target[r]] # "absent"
    /\ pc[r] = "deliver" => target[r] \in Native
    /\ pc[r] \in {"continue", "inTurn"} => target[r] \in Detached /\ continues[r]
    /\ outcome[r] # "none" => pc[r] = "returned"

(* The turn of a responder is the one it waits for. *)
TurnOwner ==
  /\ turn.phase = "idle" => turn = Idle
  /\ turn.accepted => turn.phase = "running"
  /\ turn.phase # "idle" => turn.by \in Responders \union {"user"}
  /\ \A r \in Responders : pc[r] = "inTurn" <=> turn.phase # "idle" /\ turn.by = r

(* A dispatched responder has not failed. *)
Dispatched ==
  /\ turn.accepted /\ turn.by \in Responders => turn.by \in dispatched
  /\ \A r \in dispatched :
       /\ pc[r] \in {"inTurn", "finish", "returned"}
       /\ pc[r] = "inTurn" => turn.accepted
       /\ pc[r] = "finish" => delivered[r] /\ ~failed[r]

(* A response about to succeed has reached the runtime. *)
Reached ==
  \A r \in Responders : pc[r] = "finish" /\ ~failed[r] =>
    /\ target[r] \in Native => native[target[r]] = "answered"
    /\ target[r] \in Detached /\ continues[r] => r \in dispatched

(* A question is older than the turn under way. *)
AskedBefore ==
  /\ \A i \in Interactions : born[i] <= turnID
  /\ turn.phase # "idle" => \A i \in Detached : Pending(i) => born[i] < turnID

(* The answer of a responder ends its record. *)
Ended == \A r \in Responders : outcome[r] = "ok" => state[target[r]] \in {"terminal", "pruned"}

(* An answer being continued keeps its question until it is invalidated. *)
Kept ==
  \A r \in Responders : pc[r] \in InFlight /\ target[r] \in Detached /\ continues[r] =>
    Pending(target[r]) \/ target[r] \in invalidated

Armed == \A i \in Detached : Pending(i) /\ ~due[i] => timer[i]

IInv ==
  /\ TypeOK /\ Owns /\ Alone /\ Answers /\ TurnOwner /\ Dispatched /\ Reached /\ AskedBefore
  /\ Ended /\ Kept /\ Armed
  /\ AcknowledgedTruly /\ NotifiedOnce /\ TurnsOrderAnswers /\ AnswersNotLost /\ DeadlineHolds
-----------------------------------------------------------------------------
(* The turn is a record of its type. *)
TurnRecord == [by : Responders \union {"user", None}, phase : {"idle", "admitted", "running"},
               preserve : BOOLEAN, accepted : BOOLEAN]

LEMMA TurnRecords ==
  /\ Idle \in TurnRecord
  /\ \A t \in TurnRecord : /\ [t EXCEPT !.phase = "running"] \in TurnRecord
                           /\ [t EXCEPT !.accepted = TRUE] \in TurnRecord
  /\ \A by \in Responders \union {"user"} : \A p \in BOOLEAN :
       [by |-> by, phase |-> "admitted", preserve |-> p, accepted |-> FALSE] \in TurnRecord
BY ZenonT(30) DEF TurnRecord, Idle

RecordsTyped ==
  /\ state \in [Interactions -> {"absent", "pending", "terminal", "pruned"}]
  /\ status \in [Interactions -> {"pending", "answered", "interrupted", "expired"}]
  /\ resolving \in [Interactions -> BOOLEAN] /\ continuing \in [Interactions -> BOOLEAN]
  /\ due \in [Interactions -> BOOLEAN] /\ timer \in [Interactions -> BOOLEAN]
  /\ notified \in [Interactions -> Nat] /\ invalidated \subseteq Interactions

RuntimeTyped ==
  /\ born \in [Interactions -> 0..MaxTurns]
  /\ native \in [Native -> {"none", "open", "answered", "cancelled"}]

RespondersTyped ==
  /\ pc \in [Responders -> InFlight \union {"idle", "expire", "returned"}]
  /\ cancelled \in [Responders -> BOOLEAN]
  /\ failed \in [Responders -> BOOLEAN] /\ delivered \in [Responders -> BOOLEAN]
  /\ outcome \in [Responders -> {"none", "ok", "refused", "gone", "error"}]

(* What a step does to a record that has ended. *)
Final ==
  \A i \in Interactions : state[i] \in {"terminal", "pruned"} =>
    state'[i] \in {"terminal", "pruned"} /\ status'[i] = status[i]

LEMMA RecordsPreserved ==
  ASSUME IInv, [Next]_vars
  PROVE  RecordsTyped'
<1>1. UNCHANGED <<state, status, resolving, continuing, due, timer, notified, invalidated>> => RecordsTyped'
  BY DEF IInv, RecordsTyped, TypeOK
<1>2. \A r \in Responders : Reserve(r) /\ UNCHANGED invalidated => RecordsTyped'
  BY DEF IInv, TypeOK, RecordsTyped, Reserve
<1>3. \A r \in Responders : FinishResolve(r) /\ UNCHANGED invalidated => RecordsTyped'
  BY DEF IInv, TypeOK, RecordsTyped, Interactions, FinishResolve, ReleaseReservation, Resolves, Finish
<1>4. \A r \in Responders : ExpireAfterFailure(r) /\ UNCHANGED invalidated => RecordsTyped'
  BY DEF IInv, TypeOK, RecordsTyped, ExpireAfterFailure, Expire, MayExpire, Interrupt, Finish
<1>5. \A i \in Interactions : DeadlinePasses(i) /\ UNCHANGED invalidated => RecordsTyped'
  BY DEF IInv, TypeOK, RecordsTyped, DeadlinePasses, record
<1>6. \A i \in Interactions : TimerFires(i) /\ UNCHANGED invalidated => RecordsTyped'
  BY DEF IInv, TypeOK, RecordsTyped, TimerFires, Expire, Interrupt, Finish
<1>7. \A i \in Interactions : Observe(i) /\ UNCHANGED invalidated => RecordsTyped'
  BY SMTT(30) DEF IInv, TypeOK, RecordsTyped, Observe, FinishesOnObserve, Observed, Finish
<1>8. \A i \in Interactions : Prune(i) /\ UNCHANGED invalidated => RecordsTyped'
  BY DEF IInv, TypeOK, RecordsTyped, Prune
<1>9. \A i \in Interactions : Register(i) /\ UNCHANGED invalidated => RecordsTyped'
  BY DEF IInv, TypeOK, RecordsTyped, Register
<1>10. BeginUserTurn /\ UNCHANGED invalidated => RecordsTyped'
  BY DEF IInv, TypeOK, RecordsTyped, BeginUserTurn, BeginRefused, Superseded, Interrupt, Finish
<1>11. TurnFails /\ UNCHANGED invalidated => RecordsTyped'
  BY DEF IInv, TypeOK, RecordsTyped, TurnFails, Interrupt, Finish
<1>12. \A asked \in SUBSET Detached : TurnSucceeds(asked) /\ UNCHANGED invalidated => RecordsTyped'
  BY DEF IInv, TypeOK, RecordsTyped, TurnSucceeds
<1>13. \A all \in BOOLEAN, k \in 0..MaxTurns : Invalidate(all, k) => RecordsTyped'
  BY DEF IInv, TypeOK, RecordsTyped, Invalidate, Interrupt, Finish
<1> QED
  BY ZenonT(40), <1>1, <1>2, <1>3, <1>4, <1>5, <1>6, <1>7, <1>8, <1>9, <1>10, <1>11, <1>12,
     <1>13 DEF Next, Step, Respond, EndTurn, vars, record, Refuse, BeforeResolve, CheckInterrupted,
     ResolveNative, ContinueFails, ContinueDetached, BeginContinuation, CallerCancels, NativeGivesUp, UserTurn, RuntimeAccepts, AdmitTurn

LEMMA RuntimePreserved ==
  ASSUME IInv, [Next]_vars
  PROVE  RuntimeTyped'
<1>1. UNCHANGED <<born, native>> => RuntimeTyped'
  BY DEF IInv, RuntimeTyped, TypeOK
<1>2. ASSUME NEW r \in Responders, ResolveNative(r) PROVE RuntimeTyped'
  <2>1. /\ native' = native \/ native' = [native EXCEPT ![target[r]] = "answered"]
        /\ born' = born
    BY Zenon, <1>2 DEF ResolveNative
  <2> QED
    BY SMTT(30), <2>1 DEF IInv, TypeOK, RuntimeTyped
<1>3. \A i \in Interactions : Register(i) => RuntimeTyped'
  BY DEF IInv, TypeOK, RuntimeTyped, Register
<1>4. \A i \in Interactions : NativeGivesUp(i) => RuntimeTyped'
  BY DEF IInv, TypeOK, RuntimeTyped, NativeGivesUp
<1>5. TurnFails => RuntimeTyped'
  BY DEF IInv, TypeOK, RuntimeTyped, TurnFails
<1>6. \A asked \in SUBSET Detached : TurnSucceeds(asked) => RuntimeTyped'
  BY DEF IInv, TypeOK, RuntimeTyped, TurnSucceeds
<1> QED
  BY ZenonT(30), <1>1, <1>2, <1>3, <1>4, <1>5, <1>6 DEF Next, Step, Respond, EndTurn, vars, Reserve,
     Refuse, BeforeResolve, CheckInterrupted, ContinueFails, ContinueDetached, BeginContinuation,
     FinishResolve, ExpireAfterFailure, CallerCancels, DeadlinePasses, TimerFires, Observe, Prune, UserTurn, BeginUserTurn, RuntimeAccepts, Invalidate, AdmitTurn

LEMMA RespondersPreserved ==
  ASSUME IInv, [Next]_vars
  PROVE  RespondersTyped'
<1>1. UNCHANGED <<pc, cancelled, failed, delivered, outcome>> => RespondersTyped'
  BY DEF IInv, RespondersTyped, TypeOK
<1>2. \A r \in Responders : Reserve(r) => RespondersTyped'
  BY DEF IInv, TypeOK, RespondersTyped, InFlight, Reserve, Goto
<1>3. \A r \in Responders : Refuse(r) => RespondersTyped'
  BY DEF IInv, TypeOK, RespondersTyped, Refuse, Return, Goto
<1>4. \A r \in Responders, ok \in BOOLEAN : BeforeResolve(r, ok) => RespondersTyped'
  BY DEF IInv, TypeOK, RespondersTyped, InFlight, BeforeResolve, Goto
<1>5. \A r \in Responders : CheckInterrupted(r) => RespondersTyped'
  BY DEF IInv, TypeOK, RespondersTyped, InFlight, CheckInterrupted, Goto
<1>6. \A r \in Responders : ResolveNative(r) => RespondersTyped'
  BY DEF IInv, TypeOK, RespondersTyped, InFlight, ResolveNative, Goto
<1>7. \A r \in Responders : ContinueFails(r) => RespondersTyped'
  BY DEF IInv, TypeOK, RespondersTyped, InFlight, ContinueFails, Goto
<1>8. \A r \in Responders : ContinueDetached(r) => RespondersTyped'
  BY DEF IInv, TypeOK, RespondersTyped, InFlight, ContinueDetached, Goto
<1>9. ASSUME NEW r \in Responders, BeginContinuation(r) PROVE RespondersTyped'
  <2>1. \/ pc' = pc /\ failed' = failed
        \/ pc' = [pc EXCEPT ![r] = "finish"] /\ failed' = [failed EXCEPT ![r] = TRUE]
    BY Zenon, <1>9 DEF BeginContinuation, Goto
  <2> QED
    BY ZenonT(30), <1>9, <2>1 DEF BeginContinuation, IInv, TypeOK, RespondersTyped, InFlight
<1>10. \A r \in Responders : FinishResolve(r) => RespondersTyped'
  BY SMTT(30) DEF IInv, TypeOK, RespondersTyped, TurnOwner, InFlight, Interactions, FinishResolve, ReleaseReservation, Resolves, Pending, ExpiresNow, Finish, Return, Goto
<1>11. ASSUME NEW r \in Responders, ExpireAfterFailure(r) PROVE RespondersTyped'
  <2>1. \/ cancelled' = [q \in Responders |-> cancelled[q] \/ (target[q] \in {target[r]} /\ pc[q] \in InFlight)]
        \/ cancelled' = cancelled
    BY Zenon, <1>11 DEF ExpireAfterFailure, Expire, Interrupt, CancelResponses
  <2>2. cancelled' \in [Responders -> BOOLEAN]
    <3>1. cancelled \in [Responders -> BOOLEAN]
      BY Zenon DEF IInv, TypeOK
    <3> QED
      BY ZenonT(30), <2>1, <3>1
  <2> QED
    BY ZenonT(30), <1>11, <2>2 DEF ExpireAfterFailure, Return, Goto, IInv, TypeOK, RespondersTyped
<1>12. \A r \in Responders : CallerCancels(r) => RespondersTyped'
  BY DEF IInv, TypeOK, RespondersTyped, CallerCancels
<1>13. \A i \in Interactions : TimerFires(i) => RespondersTyped'
  BY SMTT(30) DEF IInv, TypeOK, RespondersTyped, TurnOwner, InFlight, Interactions, TimerFires, Expire, MayExpire, Pending, Interrupt, Finish, CancelResponses
<1>14. ASSUME BeginUserTurn PROVE RespondersTyped'
  <2>1. \/ cancelled' = [q \in Responders |-> cancelled[q] \/ (target[q] \in Superseded /\ pc[q] \in InFlight)]
        \/ cancelled' = cancelled
    BY Zenon, <1>14 DEF BeginUserTurn, Interrupt, CancelResponses
  <2>2. cancelled' \in [Responders -> BOOLEAN]
    <3>1. cancelled \in [Responders -> BOOLEAN]
      BY Zenon DEF IInv, TypeOK
    <3> QED
      BY ZenonT(30), <2>1, <3>1
  <2> QED
    BY Zenon, <1>14, <2>2 DEF BeginUserTurn, IInv, TypeOK, RespondersTyped
<1>15. ASSUME TurnFails PROVE RespondersTyped'
  <2>1. cancelled' \in [Responders -> BOOLEAN] /\ outcome' = outcome
    BY Zenon, <1>15 DEF TurnFails, Interrupt, CancelResponses
  <2>2. CASE turn.by = "user"
    BY <1>15, <2>1, <2>2 DEF TurnFails, TurnReturns, IInv, TypeOK, RespondersTyped
  <2>3. CASE turn.by # "user"
    <3>1. /\ delivered' = [delivered EXCEPT ![turn.by] = FALSE \/ turn.accepted]
          /\ failed' = [failed EXCEPT ![turn.by] = ~delivered'[turn.by]]
          /\ pc' = [pc EXCEPT ![turn.by] = "finish"]
      BY Zenon, <1>15, <2>3 DEF TurnFails, TurnReturns, Goto
    <3>2. turn.accepted \in BOOLEAN /\ (~delivered'[turn.by]) \in BOOLEAN
      BY Zenon DEF IInv, TypeOK
    <3> QED
      BY ZenonT(30), <2>1, <3>1 DEF IInv, TypeOK, RespondersTyped, InFlight
  <2> QED
    BY Zenon, <2>2, <2>3
<1>16. ASSUME NEW asked \in SUBSET Detached, TurnSucceeds(asked) PROVE RespondersTyped'
  <2>1. cancelled' \in [Responders -> BOOLEAN] /\ outcome' = outcome
    BY ZenonT(30), <1>16 DEF TurnSucceeds, CancelResponses
  <2>2. CASE turn.by = "user"
    <3>1. UNCHANGED <<pc, failed, delivered>>
      BY Zenon, <1>16, <2>2 DEF TurnSucceeds, TurnReturns
    <3> QED
      BY Zenon, <2>1, <3>1 DEF IInv, TypeOK, RespondersTyped
  <2>3. CASE turn.by # "user"
    <3>1. /\ delivered' = [delivered EXCEPT ![turn.by] = TRUE \/ turn.accepted]
          /\ failed' = [failed EXCEPT ![turn.by] = ~delivered'[turn.by]]
          /\ pc' = [pc EXCEPT ![turn.by] = "finish"]
      BY Zenon, <1>16, <2>3 DEF TurnSucceeds, TurnReturns, Goto
    <3> QED
      BY ZenonT(30), <2>1, <3>1 DEF IInv, TypeOK, RespondersTyped, InFlight
  <2> QED
    BY Zenon, <2>2, <2>3
<1>17. \A all \in BOOLEAN, k \in 0..MaxTurns : Invalidate(all, k) => RespondersTyped'
  BY DEF IInv, TypeOK, RespondersTyped, Invalidate, Interrupt, CancelResponses
<1> QED
  BY ZenonT(30), <1>1, <1>2, <1>3, <1>4, <1>5, <1>6, <1>7, <1>8, <1>9, <1>10, <1>11, <1>12, <1>13,
     <1>14, <1>15, <1>16, <1>17 DEF Next, Step, Respond, EndTurn, vars, responder, DeadlinePasses,
     Observe, Prune, Register, NativeGivesUp, UserTurn, RuntimeAccepts

(* The steps of a response on its way: only where it is, and whether it   *)
(* failed, change.                                                         *)
Moves(r) ==
  /\ pc[r] \in {"before", "check", "deliver", "continue"}
  /\ pc'[r] \in {"check", "deliver", "continue", "finish"}
  /\ pc'[r] = "deliver" => target[r] \in Native
  /\ pc'[r] = "continue" => continuing[target[r]]
  /\ \A q \in Responders \ {r} : pc'[q] = pc[q] /\ failed'[q] = failed[q]
  /\ UNCHANGED <<record, born, due, target, continues, cancelled, delivered, outcome, turn, turnID,
                 dispatched, notified>>

LEMMA MoveSteps ==
  ASSUME TypeOK, NEW r \in Responders,
         \/ \E ok \in BOOLEAN : BeforeResolve(r, ok)
         \/ CheckInterrupted(r) \/ ResolveNative(r) \/ ContinueFails(r)
  PROVE  Moves(r)
<1>1. DOMAIN pc = Responders /\ DOMAIN failed = Responders
  BY Zenon DEF TypeOK
<1>2. ASSUME NEW ok \in BOOLEAN, BeforeResolve(r, ok) PROVE Moves(r)
  BY Zenon, <1>1, <1>2 DEF Moves, BeforeResolve, Goto
<1>3. CASE CheckInterrupted(r)
  BY SMTT(30), <1>1, <1>3 DEF Moves, CheckInterrupted, Goto
<1>4. CASE ResolveNative(r)
  BY Zenon, <1>1, <1>4 DEF Moves, ResolveNative, Goto
<1>5. CASE ContinueFails(r)
  BY Zenon, <1>1, <1>5 DEF Moves, ContinueFails, Goto
<1> QED
  BY Zenon, <1>2, <1>3, <1>4, <1>5

LEMMA OwnsPreserved ==
  ASSUME IInv, [Next]_vars
  PROVE  Owns'
<1>1. UNCHANGED <<pc, resolving, continuing, target, continues>> => Owns'
  BY Zenon DEF IInv, Owns
<1>2. \A r \in Responders : Reserve(r) => Owns'
  BY DEF IInv, TypeOK, Owns, Reserve, MayReserve, Goto
<1>3. \A r \in Responders : Refuse(r) => Owns'
  BY DEF IInv, TypeOK, Owns, InFlight, Refuse, Return, Goto, record
<1>4. \A r \in Responders : Moves(r) => Owns'
  BY SMTT(30) DEF IInv, TypeOK, Owns, InFlight, Moves, record
<1>5. \A r \in Responders : ContinueDetached(r) => Owns'
  BY DEF IInv, TypeOK, Owns, InFlight, ContinueDetached, Goto, record
<1>6. \A r \in Responders : BeginContinuation(r) => Owns'
  BY SMTT(30) DEF IInv, TypeOK, Owns, TurnOwner, Interactions, BeginContinuation, Goto, record
<1>7. \A r \in Responders : FinishResolve(r) => Owns'
  BY DEF IInv, TypeOK, Owns, Alone, InFlight, FinishResolve, ReleaseReservation, Return, Goto
<1>8. \A r \in Responders : ExpireAfterFailure(r) => Owns'
  BY DEF IInv, TypeOK, Owns, InFlight, ExpireAfterFailure, Return, Goto
<1>9. TurnFails => Owns'
  BY DEF IInv, TypeOK, Owns, TurnOwner, InFlight, TurnFails, TurnReturns, Goto
<1>10. \A asked \in SUBSET Detached : TurnSucceeds(asked) => Owns'
  BY DEF IInv, TypeOK, Owns, TurnOwner, InFlight, TurnSucceeds, TurnReturns, Goto
<1> QED
  BY ZenonT(30), MoveSteps, <1>1, <1>2, <1>3, <1>4, <1>5, <1>6, <1>7, <1>8, <1>9,
     <1>10 DEF IInv, Next, Step, Respond, EndTurn, vars, record, responder, CallerCancels, DeadlinePasses,
     TimerFires, Observe, Prune, Register, NativeGivesUp, UserTurn, BeginUserTurn, RuntimeAccepts, Invalidate

LEMMA AlonePreserved ==
  ASSUME IInv, [Next]_vars
  PROVE  Alone'
<1>1. UNCHANGED <<pc, target>> => Alone'
  BY Zenon DEF IInv, Alone
<1>2. \A r \in Responders : Reserve(r) => Alone'
  BY DEF IInv, TypeOK, Owns, Alone, Reserve, MayReserve, Goto
<1>3. \A r \in Responders : Refuse(r) => Alone'
  BY DEF IInv, TypeOK, Alone, InFlight, Refuse, Return, Goto
<1>4. \A r \in Responders : Moves(r) => Alone'
  BY SMTT(30) DEF IInv, TypeOK, Alone, InFlight, Moves, record
<1>5. \A r \in Responders : ContinueDetached(r) => Alone'
  BY DEF IInv, TypeOK, Alone, InFlight, ContinueDetached, Goto
<1>6. \A r \in Responders : BeginContinuation(r) => Alone'
  BY DEF IInv, TypeOK, Owns, Alone, TurnOwner, InFlight, Interactions, BeginContinuation, Reserved, Pending, Goto, record, Idle
<1>7. \A r \in Responders : FinishResolve(r) => Alone'
  BY DEF IInv, TypeOK, Alone, TurnOwner, InFlight, FinishResolve, Finish, Return, Goto
<1>8. \A r \in Responders : ExpireAfterFailure(r) => Alone'
  BY DEF IInv, TypeOK, Alone, InFlight, ExpireAfterFailure, Return, Goto
<1>9. TurnFails => Alone'
  BY DEF IInv, TypeOK, Alone, TurnOwner, InFlight, TurnFails, TurnReturns, Goto
<1>10. \A asked \in SUBSET Detached : TurnSucceeds(asked) => Alone'
  BY DEF IInv, TypeOK, Alone, TurnOwner, InFlight, TurnSucceeds, TurnReturns, Goto
<1> QED
  BY ZenonT(30), MoveSteps, <1>1, <1>2, <1>3, <1>4, <1>5, <1>6, <1>7, <1>8, <1>9,
     <1>10 DEF IInv, Next, Step, Respond, EndTurn, vars, responder, CallerCancels, DeadlinePasses,
     TimerFires, Observe, Prune, Register, NativeGivesUp, UserTurn, BeginUserTurn, RuntimeAccepts, Invalidate

LEMMA AnswersPreserved ==
  ASSUME IInv, [Next]_vars
  PROVE  Answers'
<1>1. UNCHANGED <<pc, state, target, continues, outcome>> => Answers'
  BY Zenon DEF IInv, Answers
<1>2. \A r \in Responders : Reserve(r) => Answers'
  BY DEF IInv, TypeOK, Answers, Reserve, MayReserve, Pending, Goto
<1>3. \A r \in Responders : Refuse(r) => Answers'
  BY SMTT(30) DEF IInv, TypeOK, Answers, Refuse, Return, Goto, record
<1>4. \A r \in Responders : Moves(r) => Answers'
  BY SMTT(30) DEF IInv, TypeOK, Owns, Answers, InFlight, Moves, record
<1>5. \A r \in Responders : ContinueDetached(r) => Answers'
  BY DEF IInv, TypeOK, Answers, ContinueDetached, Goto, record
<1>6. \A r \in Responders : BeginContinuation(r) => Answers'
  BY DEF IInv, TypeOK, Answers, TurnOwner, BeginContinuation, Goto, record
<1>7. \A r \in Responders : FinishResolve(r) => Answers'
  BY DEF IInv, TypeOK, Answers, FinishResolve, Finish, Return, Goto
<1>8. \A r \in Responders : ExpireAfterFailure(r) => Answers'
  BY DEF IInv, TypeOK, Answers, ExpireAfterFailure, Expire, Interrupt, Finish, Return, Goto
<1>9. \A i \in Interactions : TimerFires(i) => Answers'
  BY DEF IInv, TypeOK, Answers, TimerFires, Expire, Interrupt, Finish
<1>10. \A i \in Interactions : Observe(i) => Answers'
  BY SMTT(30) DEF IInv, TypeOK, Answers, Observe, Finish, responder
<1>11. \A i \in Interactions : Prune(i) => Answers'
  BY DEF IInv, TypeOK, Answers, Prune, responder
<1>12. \A i \in Interactions : Register(i) => Answers'
  BY DEF IInv, TypeOK, Answers, Register, responder
<1>13. BeginUserTurn => Answers'
  BY DEF IInv, TypeOK, Answers, BeginUserTurn, Interrupt, Finish
<1>14. TurnFails => Answers'
  BY DEF IInv, TypeOK, Answers, TurnOwner, TurnFails, Interrupt, Finish, TurnReturns, Goto
<1>15. \A asked \in SUBSET Detached : TurnSucceeds(asked) => Answers'
  BY DEF IInv, TypeOK, Answers, TurnOwner, TurnSucceeds, TurnReturns, Goto
<1>16. \A all \in BOOLEAN, k \in 0..MaxTurns : Invalidate(all, k) => Answers'
  BY DEF IInv, TypeOK, Answers, Invalidate, Interrupt, Finish
<1> QED
  BY ZenonT(40), MoveSteps, <1>1, <1>2, <1>3, <1>4, <1>5, <1>6, <1>7, <1>8, <1>9, <1>10, <1>11,
     <1>12, <1>13, <1>14, <1>15, <1>16 DEF IInv, Next, Step, Respond, EndTurn, vars, record, responder,
     CallerCancels, DeadlinePasses, NativeGivesUp, UserTurn, RuntimeAccepts

LEMMA TurnOwnerPreserved ==
  ASSUME IInv, [Next]_vars
  PROVE  TurnOwner'
<1>1. UNCHANGED <<turn, pc>> => TurnOwner'
  BY Zenon DEF IInv, TurnOwner
<1>2. \A r \in Responders : Reserve(r) => TurnOwner'
  BY SMTT(30) DEF IInv, TypeOK, TurnOwner, Reserve, Goto
<1>3. \A r \in Responders : Refuse(r) => TurnOwner'
  BY DEF IInv, TypeOK, TurnOwner, Refuse, Return, Goto
<1>4. \A r \in Responders : Moves(r) => TurnOwner'
  BY SMTT(30) DEF IInv, TypeOK, TurnOwner, Moves, record
<1>5. \A r \in Responders : ContinueDetached(r) => TurnOwner'
  BY DEF IInv, TypeOK, TurnOwner, ContinueDetached, AdmitTurn, Goto
<1>6. \A r \in Responders : BeginContinuation(r) => TurnOwner'
  BY SMTT(30) DEF IInv, TypeOK, TurnOwner, Idle, BeginContinuation, Goto
<1>7. \A r \in Responders : FinishResolve(r) => TurnOwner'
  BY DEF IInv, TypeOK, TurnOwner, FinishResolve, Return, Goto
<1>8. \A r \in Responders : ExpireAfterFailure(r) => TurnOwner'
  BY DEF IInv, TypeOK, TurnOwner, ExpireAfterFailure, Return, Goto
<1>9. \A p \in BOOLEAN : UserTurn(p) => TurnOwner'
  BY NoneApart DEF IInv, TypeOK, TurnOwner, UserTurn, AdmitTurn, responder
<1>10. BeginUserTurn => TurnOwner'
  BY NoneApart DEF IInv, TypeOK, TurnOwner, Idle, BeginUserTurn
<1>11. RuntimeAccepts => TurnOwner'
  BY DEF IInv, TypeOK, TurnOwner, RuntimeAccepts, responder
<1>12. TurnFails => TurnOwner'
  BY NoneApart DEF IInv, TypeOK, TurnOwner, Idle, TurnFails, TurnReturns, Goto
<1>13. \A asked \in SUBSET Detached : TurnSucceeds(asked) => TurnOwner'
  BY NoneApart DEF IInv, TypeOK, TurnOwner, Idle, TurnSucceeds, TurnReturns, Goto
<1> QED
  BY ZenonT(30), MoveSteps, <1>1, <1>2, <1>3, <1>4, <1>5, <1>6, <1>7, <1>8, <1>9, <1>10,
     <1>11, <1>12, <1>13 DEF IInv, Next, Step, Respond, EndTurn, vars, responder, CallerCancels,
     DeadlinePasses, TimerFires, Observe, Prune, Register, NativeGivesUp, Invalidate

LEMMA DispatchedPreserved ==
  ASSUME IInv, [Next]_vars
  PROVE  Dispatched'
<1>1. UNCHANGED <<turn, dispatched, pc, delivered, failed>> => Dispatched'
  BY SMTT(30) DEF IInv, TypeOK, Dispatched
<1>2. \A r \in Responders : Reserve(r) => Dispatched'
  BY DEF IInv, TypeOK, Dispatched, Reserve, Goto
<1>3. \A r \in Responders : Refuse(r) => Dispatched'
  BY DEF IInv, TypeOK, Dispatched, Refuse, Return, Goto
<1>4. \A r \in Responders : Moves(r) => Dispatched'
  BY SMTT(30) DEF IInv, TypeOK, TurnOwner, Dispatched, Moves, record
<1>5. \A r \in Responders : ContinueDetached(r) => Dispatched'
  BY DEF IInv, TypeOK, TurnOwner, Dispatched, ContinueDetached, AdmitTurn, Goto
<1>6. \A r \in Responders : BeginContinuation(r) => Dispatched'
  BY DEF IInv, TypeOK, TurnOwner, Dispatched, Idle, BeginContinuation, Pending, Goto
<1>7. \A r \in Responders : FinishResolve(r) => Dispatched'
  BY DEF IInv, TypeOK, Dispatched, FinishResolve, Resolves, Return, Goto
<1>8. \A r \in Responders : ExpireAfterFailure(r) => Dispatched'
  BY DEF IInv, TypeOK, Dispatched, ExpireAfterFailure, Return, Goto
<1>9. \A p \in BOOLEAN : UserTurn(p) => Dispatched'
  BY DEF IInv, TypeOK, TurnOwner, Dispatched, UserTurn, AdmitTurn, responder
<1>10. BeginUserTurn => Dispatched'
  BY DEF IInv, TypeOK, TurnOwner, Dispatched, Idle, BeginUserTurn
<1>11. RuntimeAccepts => Dispatched'
  BY NoneApart DEF IInv, TypeOK, TurnOwner, Dispatched, RuntimeAccepts, responder
<1>12. ASSUME TurnFails PROVE Dispatched'
  <2>1. turn.phase = "running" /\ turn' = Idle /\ dispatched' = dispatched
    BY ZenonT(30), <1>12 DEF TurnFails, TurnReturns
  <2>2. CASE turn.by = "user"
    BY <1>12, <2>2, NoneApart DEF TurnFails, TurnReturns, IInv, TypeOK, TurnOwner, Dispatched, Idle
  <2>3. CASE turn.by # "user"
    <3>1. /\ turn.by \in Responders
          /\ delivered' = [delivered EXCEPT ![turn.by] = FALSE \/ turn.accepted]
          /\ failed' = [failed EXCEPT ![turn.by] = ~delivered'[turn.by]]
          /\ pc' = [pc EXCEPT ![turn.by] = "finish"]
      BY Zenon, <1>12, <2>3 DEF TurnFails, TurnReturns, Goto, IInv, TurnOwner
    <3>2. /\ turn.accepted => delivered'[turn.by] /\ ~failed'[turn.by]
          /\ pc'[turn.by] = "finish"
      BY ZenonT(30), <3>1 DEF IInv, TypeOK
    <3>3. \A r \in Responders : r # turn.by =>
            pc'[r] = pc[r] /\ delivered'[r] = delivered[r] /\ failed'[r] = failed[r] /\ pc[r] # "inTurn"
      BY <3>1 DEF IInv, TurnOwner
    <3>4. turn.by \in dispatched => turn.accepted
      BY Zenon, <2>1, <3>1 DEF IInv, TurnOwner, Dispatched
    <3> QED
      BY SMTT(30), <2>1, <3>2, <3>3, <3>4 DEF IInv, TypeOK, Dispatched, Idle
  <2> QED
    BY Zenon, <2>2, <2>3
<1>13. ASSUME NEW asked \in SUBSET Detached, TurnSucceeds(asked) PROVE Dispatched'
  <2>1. turn.phase = "running" /\ turn' = Idle /\ dispatched' = dispatched
    BY Zenon, <1>13 DEF TurnSucceeds, TurnReturns, IInv, TurnOwner
  <2>2. CASE turn.by = "user"
    BY <1>13, <2>2, NoneApart DEF TurnSucceeds, TurnReturns, IInv, TypeOK, TurnOwner, Dispatched, Idle
  <2>3. CASE turn.by # "user"
    <3>1. /\ turn.by \in Responders
          /\ delivered' = [delivered EXCEPT ![turn.by] = TRUE \/ turn.accepted]
          /\ failed' = [failed EXCEPT ![turn.by] = ~delivered'[turn.by]]
          /\ pc' = [pc EXCEPT ![turn.by] = "finish"]
      BY Zenon, <1>13, <2>3 DEF TurnSucceeds, TurnReturns, Goto, IInv, TurnOwner
    <3>2. /\ turn.accepted => delivered'[turn.by] /\ ~failed'[turn.by]
          /\ pc'[turn.by] = "finish"
      BY ZenonT(30), <3>1 DEF IInv, TypeOK
    <3>3. \A r \in Responders : r # turn.by =>
            pc'[r] = pc[r] /\ delivered'[r] = delivered[r] /\ failed'[r] = failed[r] /\ pc[r] # "inTurn"
      BY <3>1 DEF IInv, TurnOwner
    <3>4. turn.by \in dispatched => turn.accepted
      BY Zenon, <2>1, <3>1 DEF IInv, TurnOwner, Dispatched
    <3> QED
      BY <2>1, <3>2, <3>3, <3>4 DEF IInv, TypeOK, Dispatched, Idle
  <2> QED
    BY Zenon, <2>2, <2>3
<1> QED
  BY ZenonT(30), MoveSteps, <1>1, <1>2, <1>3, <1>4, <1>5, <1>6, <1>7, <1>8, <1>9, <1>10,
     <1>11, <1>12, <1>13 DEF IInv, Next, Step, Respond, EndTurn, vars, responder, CallerCancels,
     DeadlinePasses, TimerFires, Observe, Prune, Register, NativeGivesUp, Invalidate

LEMMA ReachedPreserved ==
  ASSUME IInv, [Next]_vars
  PROVE  Reached'
<1>1. UNCHANGED <<pc, failed, target, native, continues, dispatched>> => Reached'
  BY Zenon DEF IInv, Reached
<1>2. \A r \in Responders : Reserve(r) => Reached'
  BY SMTT(30) DEF IInv, TypeOK, Reached, Reserve, Goto
<1>3. \A r \in Responders : Refuse(r) => Reached'
  BY DEF IInv, TypeOK, Reached, Refuse, Return, Goto
<1>4. \A r \in Responders, ok \in BOOLEAN : BeforeResolve(r, ok) => Reached'
  BY DEF IInv, TypeOK, Reached, BeforeResolve, Goto
<1>5. \A r \in Responders : CheckInterrupted(r) => Reached'
  BY DEF IInv, TypeOK, Reached, Owns, CheckInterrupted, Goto
<1>6. \A r \in Responders : ResolveNative(r) => Reached'
  BY SMTT(30), KindsApart DEF IInv, TypeOK, Reached, Owns, Answers, ResolveNative, Goto
<1>7. \A r \in Responders : ContinueFails(r) => Reached'
  BY DEF IInv, TypeOK, Reached, Answers, ContinueFails, Goto
<1>8. \A r \in Responders : ContinueDetached(r) => Reached'
  BY DEF IInv, TypeOK, Reached, ContinueDetached, Goto
<1>9. \A r \in Responders : BeginContinuation(r) => Reached'
  BY DEF IInv, TypeOK, Reached, BeginContinuation, Goto
<1>10. \A r \in Responders : FinishResolve(r) => Reached'
  BY DEF IInv, TypeOK, Reached, FinishResolve, Return, Goto
<1>11. \A r \in Responders : ExpireAfterFailure(r) => Reached'
  BY DEF IInv, TypeOK, Reached, ExpireAfterFailure, Return, Goto
<1>12. \A i \in Interactions : Register(i) => Reached'
  BY SMTT(30) DEF IInv, TypeOK, Reached, Answers, Register, responder
<1>13. \A i \in Interactions : NativeGivesUp(i) => Reached'
  BY DEF IInv, TypeOK, Reached, NativeGivesUp, responder
<1>14. RuntimeAccepts => Reached'
  BY SMTT(30) DEF IInv, TypeOK, Reached, RuntimeAccepts, responder
<1>15. TurnFails => Reached'
  BY KindsApart DEF IInv, TypeOK, TurnOwner, Dispatched, Reached, Answers, TurnFails, TurnReturns, Goto
<1>16. \A asked \in SUBSET Detached : TurnSucceeds(asked) => Reached'
  BY SMTT(30), KindsApart DEF IInv, TypeOK, TurnOwner, Dispatched, Reached, Answers, TurnSucceeds, TurnReturns, Goto
<1> QED
  BY ZenonT(30), <1>1, <1>2, <1>3, <1>4, <1>5, <1>6, <1>7, <1>8, <1>9, <1>10, <1>11, <1>12, <1>13,
     <1>14, <1>15, <1>16 DEF Next, Step, Respond, EndTurn, vars, responder, CallerCancels,
     DeadlinePasses, TimerFires, Observe, Prune, UserTurn, BeginUserTurn, Invalidate

LEMMA AskedPreserved ==
  ASSUME IInv, [Next]_vars
  PROVE  AskedBefore'
<1>1. UNCHANGED <<turn, turnID, state, born>> => AskedBefore'
  BY Zenon DEF IInv, AskedBefore, Pending
<1>2. \A r \in Responders : ContinueDetached(r) => AskedBefore'
  BY DEF IInv, TypeOK, AskedBefore, Interactions, ContinueDetached, AdmitTurn
<1>3. \A r \in Responders : BeginContinuation(r) => AskedBefore'
  BY Zenon DEF IInv, AskedBefore, Pending, BeginContinuation, record
<1>4. \A r \in Responders : FinishResolve(r) => AskedBefore'
  BY DEF IInv, TypeOK, AskedBefore, Interactions, Pending, FinishResolve, Finish
<1>5. \A r \in Responders : ExpireAfterFailure(r) => AskedBefore'
  BY DEF IInv, TypeOK, AskedBefore, Interactions, Pending, ExpireAfterFailure, Expire, Interrupt, Finish
<1>6. \A i \in Interactions : TimerFires(i) => AskedBefore'
  BY DEF IInv, TypeOK, AskedBefore, Interactions, Pending, TimerFires, Expire, Interrupt, Finish
<1>7. \A i \in Interactions : Observe(i) => AskedBefore'
  BY DEF IInv, TypeOK, AskedBefore, Interactions, Pending, Observe, Finish
<1>8. \A i \in Interactions : Prune(i) => AskedBefore'
  BY DEF IInv, TypeOK, AskedBefore, Pending, Prune
<1>9. \A i \in Interactions : Register(i) => AskedBefore'
  BY KindsApart DEF IInv, TypeOK, AskedBefore, Pending, Register
<1>10. \A p \in BOOLEAN : UserTurn(p) => AskedBefore'
  BY DEF IInv, TypeOK, AskedBefore, Interactions, UserTurn, AdmitTurn
<1>11. BeginUserTurn => AskedBefore'
  BY Zenon DEF IInv, AskedBefore, Interactions, Pending, BeginUserTurn, Interrupt, Finish
<1>12. RuntimeAccepts => AskedBefore'
  BY Zenon DEF IInv, AskedBefore, Pending, RuntimeAccepts, record
<1>13. TurnFails => AskedBefore'
  BY DEF IInv, TypeOK, AskedBefore, Idle, TurnFails, TurnReturns
<1>14. \A asked \in SUBSET Detached : TurnSucceeds(asked) => AskedBefore'
  BY SMTT(30) DEF IInv, TypeOK, AskedBefore, Idle, TurnSucceeds, TurnReturns
<1>15. \A all \in BOOLEAN, k \in 0..MaxTurns : Invalidate(all, k) => AskedBefore'
  BY SMTT(30) DEF IInv, TypeOK, AskedBefore, Interactions, Pending, Invalidate, Interrupt, Finish
<1> QED
  BY ZenonT(40), <1>1, <1>2, <1>3, <1>4, <1>5, <1>6, <1>7, <1>8, <1>9, <1>10, <1>11, <1>12, <1>13, <1>14,
     <1>15 DEF Next, Step, Respond, EndTurn, vars, record, Reserve, Refuse, BeforeResolve,
     CheckInterrupted, ResolveNative, ContinueFails, CallerCancels, DeadlinePasses, NativeGivesUp

LEMMA EndedPreserved ==
  ASSUME IInv, [Next]_vars
  PROVE  Ended'
<1>1. UNCHANGED <<outcome, state, target>> => Ended'
  BY Zenon DEF IInv, Ended
<1>2. \A r \in Responders : Refuse(r) => Ended'
  BY DEF IInv, TypeOK, Ended, Refuse, Return, record
<1>3. \A r \in Responders : FinishResolve(r) => Ended'
  BY SMTT(30) DEF IInv, TypeOK, Ended, FinishResolve, Finish, Return
<1>4. \A r \in Responders : ExpireAfterFailure(r) => Ended'
  BY DEF IInv, TypeOK, Ended, ExpireAfterFailure, Expire, Interrupt, Finish, Return
<1>5. \A i \in Interactions : TimerFires(i) => Ended'
  BY SMTT(30) DEF IInv, TypeOK, Ended, TimerFires, Expire, Interrupt, Finish
<1>6. \A i \in Interactions : Observe(i) => Ended'
  BY DEF IInv, TypeOK, Ended, Observe, Finish, responder
<1>7. \A i \in Interactions : Prune(i) => Ended'
  BY DEF IInv, TypeOK, Ended, Prune, responder
<1>8. \A i \in Interactions : Register(i) => Ended'
  BY DEF IInv, TypeOK, Ended, Register, responder
<1>9. BeginUserTurn => Ended'
  BY DEF IInv, TypeOK, Ended, BeginUserTurn, Interrupt, Finish
<1>10. TurnFails => Ended'
  BY DEF IInv, TypeOK, Ended, TurnFails, Interrupt, Finish
<1>11. \A asked \in SUBSET Detached : TurnSucceeds(asked) => Ended'
  BY DEF IInv, TypeOK, Ended, TurnSucceeds
<1>12. \A all \in BOOLEAN, k \in 0..MaxTurns : Invalidate(all, k) => Ended'
  BY DEF IInv, TypeOK, Ended, Invalidate, Interrupt, Finish
<1> QED
  BY ZenonT(40), <1>1, <1>2, <1>3, <1>4, <1>5, <1>6, <1>7, <1>8, <1>9, <1>10, <1>11, <1>12 DEF Next,
     Step, Respond, EndTurn, vars, record, responder, Reserve, BeforeResolve, CheckInterrupted,
     ResolveNative, ContinueFails, ContinueDetached, BeginContinuation, CallerCancels, DeadlinePasses, NativeGivesUp, UserTurn, RuntimeAccepts, AdmitTurn

LEMMA KeptPreserved ==
  ASSUME IInv, [Next]_vars
  PROVE  Kept'
<1>1. UNCHANGED <<pc, target, continues, state, invalidated>> => Kept'
  BY ZenonT(30) DEF IInv, Kept, Pending
<1>2. \A r \in Responders : Reserve(r) /\ UNCHANGED invalidated => Kept'
  BY DEF IInv, TypeOK, Kept, Pending, Reserve, MayReserve, Goto
<1>3. \A r \in Responders : Refuse(r) /\ UNCHANGED invalidated => Kept'
  BY DEF IInv, TypeOK, Kept, InFlight, Pending, Refuse, Return, Goto, record
<1>4. \A r \in Responders, ok \in BOOLEAN : BeforeResolve(r, ok) /\ UNCHANGED invalidated => Kept'
  BY DEF IInv, TypeOK, Kept, InFlight, Pending, BeforeResolve, Goto, record
<1>5. \A r \in Responders : CheckInterrupted(r) /\ UNCHANGED invalidated => Kept'
  BY DEF IInv, TypeOK, Kept, InFlight, Pending, CheckInterrupted, Goto, record
<1>6. \A r \in Responders : ResolveNative(r) /\ UNCHANGED invalidated => Kept'
  BY SMTT(30) DEF IInv, TypeOK, Kept, InFlight, Pending, ResolveNative, Goto, record
<1>7. \A r \in Responders : ContinueFails(r) /\ UNCHANGED invalidated => Kept'
  BY DEF IInv, TypeOK, Kept, InFlight, Pending, ContinueFails, Goto, record
<1>8. \A r \in Responders : ContinueDetached(r) /\ UNCHANGED invalidated => Kept'
  BY DEF IInv, TypeOK, Kept, InFlight, Pending, ContinueDetached, Goto, record
<1>9. \A r \in Responders : BeginContinuation(r) /\ UNCHANGED invalidated => Kept'
  BY SMTT(30) DEF IInv, TypeOK, Kept, TurnOwner, Pending, BeginContinuation, Goto, record
<1>10. \A r \in Responders : FinishResolve(r) /\ UNCHANGED invalidated => Kept'
  BY SMTT(30) DEF IInv, TypeOK, Kept, Alone, InFlight, Pending, FinishResolve, ExpiresNow, Finish, Return, Goto
<1>11. \A r \in Responders : ExpireAfterFailure(r) /\ UNCHANGED invalidated => Kept'
  BY SMTT(30) DEF IInv, TypeOK, Kept, Owns, InFlight, Interactions, Pending, ExpireAfterFailure, Expire, MayExpire, Interrupt, Finish, Return, Goto
<1>12. \A i \in Interactions : TimerFires(i) /\ UNCHANGED invalidated => Kept'
  BY SMTT(30) DEF IInv, TypeOK, Kept, Owns, Interactions, Pending, TimerFires, Expire, MayExpire, Interrupt, Finish
<1>13. \A i \in Interactions : Observe(i) /\ UNCHANGED invalidated => Kept'
  BY SMTT(30), KindsApart DEF IInv, TypeOK, Kept, Interactions, Pending, Observe, Finish, responder
<1>14. \A i \in Interactions : Prune(i) /\ UNCHANGED invalidated => Kept'
  BY DEF IInv, TypeOK, Kept, Pending, Prune, responder
<1>15. \A i \in Interactions : Register(i) /\ UNCHANGED invalidated => Kept'
  BY DEF IInv, TypeOK, Kept, Pending, Register, responder
<1>16. BeginUserTurn /\ UNCHANGED invalidated => Kept'
  BY SMTT(30) DEF IInv, TypeOK, Kept, Owns, Interactions, Pending, BeginUserTurn, BeginRefused
<1>17. TurnFails /\ UNCHANGED invalidated => Kept'
  BY DEF IInv, TypeOK, Kept, AskedBefore, TurnOwner, InFlight, Pending, TurnFails, OfTurn, Interrupt, Finish, TurnReturns, Goto
<1>18. \A asked \in SUBSET Detached : TurnSucceeds(asked) /\ UNCHANGED invalidated => Kept'
  BY SMTT(30), KindsApart DEF IInv, TypeOK, Kept, AskedBefore, TurnOwner, Pending, TurnSucceeds, Abandoned, OfTurn, CancelResponses, TurnReturns, Goto, Idle
<1>19. \A all \in BOOLEAN, k \in 0..MaxTurns : Invalidate(all, k) => Kept'
  BY DEF IInv, TypeOK, Kept, Interactions, Pending, Invalidate, Interrupt, Finish
<1> QED
  BY ZenonT(40), <1>1, <1>2, <1>3, <1>4, <1>5, <1>6, <1>7, <1>8, <1>9, <1>10, <1>11, <1>12, <1>13, <1>14,
     <1>15, <1>16, <1>17, <1>18, <1>19 DEF Next, Step, Respond, EndTurn, vars, record, responder,
     CallerCancels, DeadlinePasses, NativeGivesUp, UserTurn, RuntimeAccepts

LEMMA ArmedPreserved ==
  ASSUME IInv, [Next]_vars
  PROVE  Armed'
<1>1. UNCHANGED <<state, due, timer>> => Armed'
  BY Zenon DEF IInv, Armed, Pending
<1>2. \A r \in Responders : FinishResolve(r) => Armed'
  BY SMTT(30) DEF IInv, TypeOK, Armed, Interactions, Pending, FinishResolve, Finish
<1>3. \A r \in Responders : ExpireAfterFailure(r) => Armed'
  BY SMTT(30) DEF IInv, TypeOK, Armed, Interactions, Pending, ExpireAfterFailure, Expire, Interrupt, Finish
<1>4. \A i \in Interactions : DeadlinePasses(i) => Armed'
  BY SMTT(60) DEF IInv, TypeOK, Armed, Pending, DeadlinePasses, record
<1>5. \A i \in Interactions : TimerFires(i) => Armed'
  BY DEF IInv, TypeOK, Armed, Interactions, Pending, TimerFires, Expire, Interrupt, Finish
<1>6. \A i \in Interactions : Observe(i) => Armed'
  BY DEF IInv, TypeOK, Armed, Interactions, Pending, Observe, Finish
<1>7. \A i \in Interactions : Prune(i) => Armed'
  BY SMTT(60) DEF IInv, TypeOK, Armed, Pending, Prune
<1>8. \A i \in Interactions : Register(i) => Armed'
  BY KindsApart DEF IInv, TypeOK, Armed, Pending, Register
<1>9. BeginUserTurn => Armed'
  BY DEF IInv, TypeOK, Armed, Interactions, Pending, BeginUserTurn, Superseded, Interrupt, Finish
<1>10. TurnFails => Armed'
  BY DEF IInv, TypeOK, Armed, Interactions, Pending, TurnFails, Interrupt, Finish
<1>11. \A asked \in SUBSET Detached : TurnSucceeds(asked) => Armed'
  BY DEF IInv, TypeOK, Armed, Interactions, Pending, TurnSucceeds
<1>12. \A all \in BOOLEAN, k \in 0..MaxTurns : Invalidate(all, k) => Armed'
  BY SMTT(30) DEF IInv, TypeOK, Armed, Interactions, Pending, Invalidate, Interrupt, Finish
<1> QED
  BY ZenonT(30), <1>1, <1>2, <1>3, <1>4, <1>5, <1>6, <1>7, <1>8, <1>9, <1>10, <1>11, <1>12 DEF Next,
     Step, Respond, EndTurn, vars, record, Reserve, Refuse, BeforeResolve, CheckInterrupted,
     ResolveNative, ContinueFails, ContinueDetached, BeginContinuation, CallerCancels, NativeGivesUp, UserTurn, RuntimeAccepts

LEMMA AcknowledgedPreserved ==
  ASSUME IInv, [Next]_vars
  PROVE  AcknowledgedTruly'
<1>1. UNCHANGED <<outcome, status, native, target, continues, dispatched>> => AcknowledgedTruly'
  BY ZenonT(30) DEF IInv, AcknowledgedTruly
<1>2. \A r \in Responders : Refuse(r) => AcknowledgedTruly'
  BY SMTT(30) DEF IInv, TypeOK, AcknowledgedTruly, Refuse, Return, record
<1>3. \A r \in Responders : ResolveNative(r) => AcknowledgedTruly'
  BY DEF IInv, TypeOK, AcknowledgedTruly, ResolveNative, record
<1>4. \A r \in Responders : FinishResolve(r) => AcknowledgedTruly'
  BY SMTT(30) DEF IInv, TypeOK, AcknowledgedTruly, Ended, Reached, Dispatched, FinishResolve, Resolves, Pending, Finish, Return
<1>5. \A r \in Responders : ExpireAfterFailure(r) => AcknowledgedTruly'
  BY SMTT(30) DEF IInv, TypeOK, AcknowledgedTruly, Ended, Dispatched, ExpireAfterFailure, Expire, MayExpire, Pending, Interrupt, Finish, Return
<1>6. \A i \in Interactions : TimerFires(i) => AcknowledgedTruly'
  BY SMTT(30) DEF IInv, TypeOK, AcknowledgedTruly, Ended, TimerFires, Expire, MayExpire, Pending, Interrupt, Finish
<1>7. \A i \in Interactions : Observe(i) => AcknowledgedTruly'
  BY SMTT(30) DEF IInv, TypeOK, AcknowledgedTruly, Observe, Observed, Finish, responder
<1>8. \A i \in Interactions : Register(i) => AcknowledgedTruly'
  BY SMTT(60) DEF IInv, TypeOK, AcknowledgedTruly, Answers, Register, responder
<1>9. \A i \in Interactions : NativeGivesUp(i) => AcknowledgedTruly'
  BY SMTT(60) DEF IInv, TypeOK, AcknowledgedTruly, NativeGivesUp, record, responder
<1>10. BeginUserTurn => AcknowledgedTruly'
  BY DEF IInv, TypeOK, AcknowledgedTruly, Ended, BeginUserTurn, Superseded, Pending, Interrupt, Finish
<1>11. RuntimeAccepts => AcknowledgedTruly'
  BY DEF IInv, TypeOK, AcknowledgedTruly, Answers, TurnOwner, RuntimeAccepts, record, responder
<1>12. TurnFails => AcknowledgedTruly'
  BY DEF IInv, TypeOK, AcknowledgedTruly, Ended, Answers, TurnFails, OfTurn, Pending, Interrupt, Finish
<1>13. \A asked \in SUBSET Detached : TurnSucceeds(asked) => AcknowledgedTruly'
  BY SMTT(30) DEF IInv, TypeOK, AcknowledgedTruly, Ended, Reached, Answers, Dispatched, TurnOwner, Interactions, TurnSucceeds, Abandoned, OfTurn, Pending, CancelResponses, TurnReturns, Goto, Idle
<1>14. \A all \in BOOLEAN, k \in 0..MaxTurns : Invalidate(all, k) => AcknowledgedTruly'
  BY SMTT(30) DEF IInv, TypeOK, AcknowledgedTruly, Ended, Invalidate, Pending, Interrupt, Finish
<1> QED
  BY ZenonT(40), <1>1, <1>2, <1>3, <1>4, <1>5, <1>6, <1>7, <1>8, <1>9, <1>10, <1>11, <1>12, <1>13,
     <1>14 DEF Next, Step, Respond, EndTurn, vars, record, responder, Reserve, BeforeResolve,
     CheckInterrupted, ContinueFails, ContinueDetached, BeginContinuation, CallerCancels, DeadlinePasses, Prune, UserTurn, AdmitTurn

LEMMA NotifiedPreserved ==
  ASSUME IInv, [Next]_vars
  PROVE  NotifiedOnce'
<1>1. UNCHANGED <<notified, state>> => NotifiedOnce'
  BY Zenon DEF IInv, NotifiedOnce
<1>2. \A r \in Responders : FinishResolve(r) => NotifiedOnce'
  BY DEF IInv, TypeOK, NotifiedOnce, Interactions, FinishResolve, Resolves, Pending, Finish
<1>3. \A r \in Responders : ExpireAfterFailure(r) => NotifiedOnce'
  BY DEF IInv, TypeOK, NotifiedOnce, Interactions, ExpireAfterFailure, Expire, MayExpire, Pending, Interrupt, Finish
<1>4. \A i \in Interactions : TimerFires(i) => NotifiedOnce'
  BY DEF IInv, TypeOK, NotifiedOnce, Interactions, TimerFires, Expire, MayExpire, Pending, Interrupt, Finish
<1>5. \A i \in Interactions : Observe(i) => NotifiedOnce'
  BY SMTT(30), KindsApart DEF IInv, TypeOK, NotifiedOnce, Interactions, Observe, Finish
<1>6. \A i \in Interactions : Prune(i) => NotifiedOnce'
  BY DEF IInv, TypeOK, NotifiedOnce, Prune
<1>7. \A i \in Interactions : Register(i) => NotifiedOnce'
  BY DEF IInv, TypeOK, NotifiedOnce, Register
<1>8. BeginUserTurn => NotifiedOnce'
  BY SMTT(30) DEF IInv, TypeOK, NotifiedOnce, Interactions, BeginUserTurn, Superseded, Pending, Interrupt, Finish
<1>9. TurnFails => NotifiedOnce'
  BY DEF IInv, TypeOK, NotifiedOnce, Interactions, TurnFails, OfTurn, Pending, Interrupt, Finish
<1>10. \A asked \in SUBSET Detached : TurnSucceeds(asked) => NotifiedOnce'
  BY SMTT(30) DEF IInv, TypeOK, NotifiedOnce, AskedBefore, TurnOwner, Interactions, TurnSucceeds, Abandoned, OfTurn
<1>11. \A all \in BOOLEAN, k \in 0..MaxTurns : Invalidate(all, k) => NotifiedOnce'
  BY SMTT(30) DEF IInv, TypeOK, NotifiedOnce, Interactions, Invalidate, Pending, Interrupt, Finish
<1> QED
  BY ZenonT(40), <1>1, <1>2, <1>3, <1>4, <1>5, <1>6, <1>7, <1>8, <1>9, <1>10, <1>11 DEF Next, Step,
     Respond, EndTurn, vars, record, Reserve, Refuse, BeforeResolve, CheckInterrupted, ResolveNative,
     ContinueFails, ContinueDetached, BeginContinuation, CallerCancels, DeadlinePasses, NativeGivesUp, UserTurn, RuntimeAccepts, AdmitTurn

LEMMA OrderPreserved ==
  ASSUME IInv, [Next]_vars
  PROVE  TurnsOrderAnswers'
<1>1. UNCHANGED <<turn, state, continuing, cancelled, target>> => TurnsOrderAnswers'
  BY ZenonT(30) DEF IInv, TurnsOrderAnswers, Pending
<1>2. \A r \in Responders : Reserve(r) => TurnsOrderAnswers'
  BY SMTT(30) DEF IInv, TypeOK, TurnsOrderAnswers, Owns, TurnOwner, InFlight, Pending, Reserve, MayReserve
<1>3. \A r \in Responders : ContinueDetached(r) => TurnsOrderAnswers'
  BY DEF IInv, TypeOK, TurnsOrderAnswers, ContinueDetached, AdmitTurn
<1>4. \A r \in Responders : BeginContinuation(r) => TurnsOrderAnswers'
  BY NoneApart DEF IInv, TypeOK, TurnsOrderAnswers, Idle, Pending, BeginContinuation, Reserved, record
<1>5. \A r \in Responders : FinishResolve(r) => TurnsOrderAnswers'
  BY SMTT(30) DEF IInv, TypeOK, TurnsOrderAnswers, Owns, Alone, TurnOwner, InFlight, Interactions, Pending, FinishResolve, ReleaseReservation, Finish
<1>6. \A r \in Responders : ExpireAfterFailure(r) => TurnsOrderAnswers'
  BY SMTT(30) DEF IInv, TypeOK, TurnsOrderAnswers, Interactions, Pending, ExpireAfterFailure, Expire, MayExpire, Interrupt, Finish, CancelResponses
<1>7. \A r \in Responders : CallerCancels(r) => TurnsOrderAnswers'
  BY SMTT(30) DEF IInv, TypeOK, TurnsOrderAnswers, Pending, CallerCancels, record
<1>8. \A i \in Interactions : TimerFires(i) => TurnsOrderAnswers'
  BY SMTT(30) DEF IInv, TypeOK, TurnsOrderAnswers, Interactions, Pending, TimerFires, Expire, MayExpire, Interrupt, Finish, CancelResponses
<1>9. \A i \in Interactions : Observe(i) => TurnsOrderAnswers'
  BY SMTT(30), KindsApart DEF IInv, TypeOK, TurnsOrderAnswers, Owns, TurnOwner, InFlight, Interactions, Pending, Observe, Finish, responder
<1>10. \A i \in Interactions : Prune(i) => TurnsOrderAnswers'
  BY SMTT(30) DEF IInv, TypeOK, TurnsOrderAnswers, Pending, Prune, responder
<1>11. \A i \in Interactions : Register(i) => TurnsOrderAnswers'
  BY SMTT(30), KindsApart DEF IInv, TypeOK, TurnsOrderAnswers, Pending, Register, responder
<1>12. \A p \in BOOLEAN : UserTurn(p) => TurnsOrderAnswers'
  BY DEF IInv, TypeOK, TurnsOrderAnswers, UserTurn, AdmitTurn
<1>13. BeginUserTurn => TurnsOrderAnswers'
  BY SMTT(30), NoneApart DEF IInv, TypeOK, TurnsOrderAnswers, InFlight, Interactions, Idle, Pending, BeginUserTurn, Superseded, Interrupt, Finish
<1>14. RuntimeAccepts => TurnsOrderAnswers'
  BY DEF IInv, TypeOK, TurnsOrderAnswers, Pending, RuntimeAccepts, record, responder
<1>15. TurnFails => TurnsOrderAnswers'
  BY DEF IInv, TypeOK, TurnsOrderAnswers, Idle, TurnFails, TurnReturns
<1>16. \A asked \in SUBSET Detached : TurnSucceeds(asked) => TurnsOrderAnswers'
  BY SMTT(30) DEF IInv, TypeOK, TurnsOrderAnswers, Idle, TurnSucceeds, TurnReturns
<1>17. \A all \in BOOLEAN, k \in 0..MaxTurns : Invalidate(all, k) => TurnsOrderAnswers'
  BY DEF IInv, TypeOK, TurnsOrderAnswers, TurnOwner, InFlight, Pending, Invalidate, Interrupt, Finish, CancelResponses
<1> QED
  BY ZenonT(40), <1>1, <1>2, <1>3, <1>4, <1>5, <1>6, <1>7, <1>8, <1>9, <1>10, <1>11, <1>12, <1>13, <1>14,
     <1>15, <1>16, <1>17 DEF Next, Step, Respond, EndTurn, vars, record, responder, Refuse,
     BeforeResolve, CheckInterrupted, ResolveNative, ContinueFails, DeadlinePasses, NativeGivesUp

LEMMA LostPreserved ==
  ASSUME IInv, [Next]_vars
  PROVE  AnswersNotLost'
<1>1. UNCHANGED <<outcome, continues, target, invalidated>> => AnswersNotLost'
  BY SMTT(30) DEF IInv, TypeOK, AnswersNotLost
<1>2. \A r \in Responders : Refuse(r) /\ UNCHANGED invalidated => AnswersNotLost'
  BY DEF IInv, TypeOK, AnswersNotLost, Refuse, Return
<1>3. \A r \in Responders : FinishResolve(r) /\ UNCHANGED invalidated => AnswersNotLost'
  BY SMTT(30) DEF IInv, TypeOK, AnswersNotLost, Kept, FinishResolve, Return
<1>4. \A r \in Responders : ExpireAfterFailure(r) /\ UNCHANGED invalidated => AnswersNotLost'
  BY SMTT(60) DEF IInv, TypeOK, AnswersNotLost, ExpireAfterFailure, Return
<1>5. \A all \in BOOLEAN, k \in 0..MaxTurns : Invalidate(all, k) => AnswersNotLost'
  BY ZenonT(30) DEF IInv, AnswersNotLost, Invalidate
<1> QED
  BY ZenonT(30), <1>1, <1>2, <1>3, <1>4, <1>5 DEF Next, Step, Respond, EndTurn, vars, responder,
     Reserve, BeforeResolve, CheckInterrupted, ResolveNative, ContinueFails, ContinueDetached,
     BeginContinuation, CallerCancels, DeadlinePasses, TimerFires, Observe, Prune, Register, NativeGivesUp, UserTurn, BeginUserTurn, RuntimeAccepts, TurnFails, TurnSucceeds

LEMMA FinalStep ==
  ASSUME IInv, [Next]_vars
  PROVE  Final
<1>1. UNCHANGED <<state, status>> => Final
  BY Zenon DEF Final
<1>2. \A r \in Responders : FinishResolve(r) => Final
  BY SMTT(30) DEF IInv, TypeOK, Final, FinishResolve, Resolves, Pending, Finish
<1>3. \A r \in Responders : ExpireAfterFailure(r) => Final
  BY SMTT(30) DEF IInv, TypeOK, Final, ExpireAfterFailure, Expire, MayExpire, Pending, Interrupt, Finish
<1>4. \A i \in Interactions : TimerFires(i) => Final
  BY SMTT(30) DEF IInv, TypeOK, Final, TimerFires, Expire, MayExpire, Pending, Interrupt, Finish
<1>5. \A i \in Interactions : Observe(i) => Final
  BY SMTT(30) DEF IInv, TypeOK, Final, Observe, Observable, Pending, Finish
<1>6. \A i \in Interactions : Prune(i) => Final
  BY SMTT(60) DEF IInv, TypeOK, Final, Prune
<1>7. \A i \in Interactions : Register(i) => Final
  BY DEF IInv, TypeOK, Final, Register
<1>8. BeginUserTurn => Final
  BY DEF IInv, TypeOK, Final, BeginUserTurn, Superseded, Pending, Interrupt, Finish
<1>9. TurnFails => Final
  BY DEF IInv, TypeOK, Final, TurnFails, OfTurn, Pending, Interrupt, Finish
<1>10. \A asked \in SUBSET Detached : TurnSucceeds(asked) => Final
  BY ZenonT(30) DEF Final, TurnSucceeds, Abandoned, OfTurn, Pending
<1>11. \A all \in BOOLEAN, k \in 0..MaxTurns : Invalidate(all, k) => Final
  BY DEF IInv, TypeOK, Final, Invalidate, Pending, Interrupt, Finish
<1> QED
  BY ZenonT(40), <1>1, <1>2, <1>3, <1>4, <1>5, <1>6, <1>7, <1>8, <1>9, <1>10, <1>11 DEF Next, Step,
     Respond, EndTurn, vars, record, Reserve, Refuse, BeforeResolve, CheckInterrupted, ResolveNative,
     ContinueFails, ContinueDetached, BeginContinuation, CallerCancels, DeadlinePasses, NativeGivesUp, UserTurn, RuntimeAccepts, AdmitTurn

LEMMA DeadlinePreserved ==
  ASSUME IInv, [Next]_vars
  PROVE  DeadlineHolds'
<1>1. UNCHANGED <<due, state, timer, continuing, target, pc>> => DeadlineHolds'
  BY SMTT(30) DEF IInv, TypeOK, DeadlineHolds, Pending
<1>2. \A r \in Responders : Reserve(r) => DeadlineHolds'
  BY SMTT(30) DEF IInv, TypeOK, DeadlineHolds, Pending, Reserve, MayReserve, Goto
<1>3. \A r \in Responders : Refuse(r) => DeadlineHolds'
  BY SMTT(30) DEF IInv, TypeOK, DeadlineHolds, Pending, Refuse, Return, Goto, record
<1>4. \A r \in Responders : Moves(r) => DeadlineHolds'
  BY SMTT(30) DEF IInv, TypeOK, DeadlineHolds, Pending, Moves, record
<1>5. \A r \in Responders : ContinueDetached(r) => DeadlineHolds'
  BY DEF IInv, TypeOK, DeadlineHolds, Pending, ContinueDetached, Goto, record
<1>6. \A r \in Responders : BeginContinuation(r) => DeadlineHolds'
  BY DEF IInv, TypeOK, DeadlineHolds, Pending, TurnOwner, BeginContinuation, Goto, record
<1>7. \A r \in Responders : FinishResolve(r) => DeadlineHolds'
  BY SMTT(30) DEF IInv, TypeOK, DeadlineHolds, Interactions, Pending, FinishResolve, ReleaseReservation, ExpiresNow, Finish, Return, Goto
<1>8. \A r \in Responders : ExpireAfterFailure(r) => DeadlineHolds'
  BY SMTT(30) DEF IInv, TypeOK, DeadlineHolds, Interactions, Pending, ExpireAfterFailure, Expire, MayExpire, Interrupt, Finish, Return, Goto
<1>9. \A i \in Interactions : DeadlinePasses(i) => DeadlineHolds'
  BY SMTT(60) DEF IInv, TypeOK, DeadlineHolds, Armed, Pending, DeadlinePasses, record, responder
<1>10. \A i \in Interactions : TimerFires(i) => DeadlineHolds'
  BY DEF IInv, TypeOK, DeadlineHolds, Interactions, Pending, TimerFires, Expire, MayExpire, Interrupt, Finish
<1>11. \A i \in Interactions : Observe(i) => DeadlineHolds'
  BY SMTT(30) DEF IInv, TypeOK, DeadlineHolds, Interactions, Pending, Observe, Finish, responder
<1>12. \A i \in Interactions : Prune(i) => DeadlineHolds'
  BY SMTT(60) DEF IInv, TypeOK, DeadlineHolds, Pending, Prune, responder
<1>13. \A i \in Interactions : Register(i) => DeadlineHolds'
  BY KindsApart DEF IInv, TypeOK, DeadlineHolds, Pending, Register, responder
<1>14. BeginUserTurn => DeadlineHolds'
  BY DEF IInv, TypeOK, DeadlineHolds, Interactions, Pending, BeginUserTurn, Superseded, Interrupt, Finish
<1>15. TurnFails => DeadlineHolds'
  BY DEF IInv, TypeOK, DeadlineHolds, Interactions, Pending, TurnOwner, TurnFails, Interrupt, Finish, TurnReturns, Goto
<1>16. \A asked \in SUBSET Detached : TurnSucceeds(asked) => DeadlineHolds'
  BY DEF IInv, TypeOK, DeadlineHolds, Interactions, Pending, TurnOwner, TurnSucceeds, TurnReturns, Goto
<1>17. \A all \in BOOLEAN, k \in 0..MaxTurns : Invalidate(all, k) => DeadlineHolds'
  BY DEF IInv, TypeOK, DeadlineHolds, Interactions, Pending, Invalidate, Interrupt, Finish
<1> QED
  BY ZenonT(40), MoveSteps, <1>1, <1>2, <1>3, <1>4, <1>5, <1>6, <1>7, <1>8, <1>9, <1>10, <1>11,
     <1>12, <1>13, <1>14, <1>15, <1>16, <1>17 DEF IInv, Next, Step, Respond, EndTurn, vars, record,
     responder, CallerCancels, NativeGivesUp, UserTurn, RuntimeAccepts

-----------------------------------------------------------------------------
LEMMA TypePreserved ==
  ASSUME IInv, [Next]_vars
  PROVE  TypeOK'
<1>1. turn' \in TurnRecord /\ turnID' \in 0..MaxTurns
  <2>1. turn \in TurnRecord /\ turnID \in 0..MaxTurns
    BY Zenon DEF IInv, TypeOK, TurnRecord
  <2>2. \/ UNCHANGED <<turn, turnID>>
        \/ turnID' = turnID /\ turn' \in {Idle, [turn EXCEPT !.phase = "running"], [turn EXCEPT !.accepted = TRUE]}
        \/ \E by \in Responders \union {"user"}, p \in BOOLEAN : AdmitTurn(by, p)
    BY ZenonT(30) DEF Next, Step, Respond, EndTurn, vars, record, responder, Reserve, Refuse, BeforeResolve,
           CheckInterrupted, ResolveNative, ContinueFails, ContinueDetached, BeginContinuation,
           FinishResolve, ExpireAfterFailure, CallerCancels, DeadlinePasses, TimerFires, Observe, Prune,
           Register, NativeGivesUp, UserTurn, BeginUserTurn, RuntimeAccepts, TurnFails, TurnSucceeds,
           TurnReturns, Invalidate
  <2>3. ASSUME NEW by \in Responders \union {"user"}, NEW p \in BOOLEAN, AdmitTurn(by, p)
        PROVE  turn' \in TurnRecord /\ turnID' \in 0..MaxTurns
    <3>1. turn' \in TurnRecord
      BY Zenon, <2>3, TurnRecords DEF AdmitTurn
    <3>2. turnID' \in 0..MaxTurns
      BY <2>1, <2>3, TurnBound DEF AdmitTurn
    <3> QED
      BY Zenon, <3>1, <3>2
  <2> QED
    BY ZenonT(30), <2>1, <2>2, <2>3, TurnRecords
<1>2. dispatched' \subseteq Responders
  <2>1. dispatched \subseteq Responders
    BY Zenon DEF IInv, TypeOK
  <2>2. CASE RuntimeAccepts
    BY Zenon, <2>1, <2>2 DEF RuntimeAccepts, IInv, TurnOwner
  <2>3. CASE ~RuntimeAccepts
    <3>1. dispatched' = dispatched
      BY ZenonT(30), <2>3 DEF Next, Step, Respond, EndTurn, vars, Reserve, Refuse, BeforeResolve,
         CheckInterrupted, ResolveNative, ContinueFails, ContinueDetached, BeginContinuation,
         FinishResolve, ExpireAfterFailure, CallerCancels, DeadlinePasses, TimerFires, Observe, Prune,
         Register, NativeGivesUp, UserTurn, BeginUserTurn, TurnFails, TurnSucceeds, Invalidate
    <3> QED
      BY Zenon, <2>1, <3>1
  <2> QED
    BY Zenon, <2>2, <2>3
<1>3. target' \in [Responders -> Interactions] /\ continues' \in [Responders -> BOOLEAN]
  <2>1. UNCHANGED <<target, continues>>
    BY ZenonT(30) DEF Next, Step, Respond, EndTurn, vars, responder, Reserve, Refuse, BeforeResolve,
       CheckInterrupted, ResolveNative, ContinueFails, ContinueDetached, BeginContinuation,
       FinishResolve, ExpireAfterFailure, CallerCancels, DeadlinePasses, TimerFires, Observe, Prune,
       Register, NativeGivesUp, UserTurn, BeginUserTurn, RuntimeAccepts, TurnFails, TurnSucceeds, Invalidate
  <2> QED
    BY Zenon, <2>1 DEF IInv, TypeOK
<1> QED
  BY Zenon, <1>1, <1>2, <1>3, RecordsPreserved, RuntimePreserved, RespondersPreserved DEF TypeOK, TurnRecord,
     RecordsTyped, RuntimeTyped, RespondersTyped

LEMMA InitHolds == Init => IInv
<1> SUFFICES ASSUME Init PROVE IInv
  BY Zenon
<1>1. TypeOK
  BY SMTT(30), TurnRecords, TurnBound DEF Init, TypeOK, TurnRecord
<1>2. Owns /\ Alone /\ Answers /\ Kept
  BY SMTT(30) DEF IInv, TypeOK, Init, Owns, Alone, Answers, Kept, InFlight
<1>3. TurnOwner /\ Dispatched /\ Reached /\ Ended
  BY Zenon DEF Init, TurnOwner, Idle, Dispatched, Reached, Ended
<1>4. AskedBefore /\ Armed /\ NotifiedOnce
  BY SMTT(30) DEF IInv, TypeOK, Init, AskedBefore, Armed, NotifiedOnce, Pending, Interactions
<1>5. AcknowledgedTruly /\ TurnsOrderAnswers /\ AnswersNotLost /\ DeadlineHolds
  BY SMTT(30) DEF IInv, TypeOK, Init, AcknowledgedTruly, TurnsOrderAnswers, Idle, AnswersNotLost, DeadlineHolds
<1> QED
  BY Zenon, <1>1, <1>2, <1>3, <1>4, <1>5 DEF IInv

LEMMA NextPreserves == IInv /\ [Next]_vars => IInv'
BY Zenon, TypePreserved, OwnsPreserved, AlonePreserved, AnswersPreserved, TurnOwnerPreserved,
   DispatchedPreserved, ReachedPreserved, AskedPreserved, EndedPreserved, KeptPreserved,
   ArmedPreserved, AcknowledgedPreserved, NotifiedPreserved, OrderPreserved, LostPreserved,
   DeadlinePreserved DEF IInv

LEMMA Invariance == Spec => []IInv
BY InitHolds, NextPreserves, PTL DEF Spec

(* The coordinator's records, its responders and the turn keep their types. *)
THEOREM TypeCorrect == Spec => []TypeOK
<1>1. IInv => TypeOK
  BY Zenon DEF IInv
<1> QED
  BY <1>1, Invariance, PTL

(* What Resolve tells its caller is true, for any number of responders that *)
(* race with each other, with turns, deadlines and invalidation.            *)
THEOREM ResolveTellsTheTruth == Spec => []AcknowledgedTruly
<1>1. IInv => AcknowledgedTruly
  BY Zenon DEF IInv
<1> QED
  BY <1>1, Invariance, PTL

(* The record of a question notifies exactly once.                          *)
THEOREM NotifiesOnce == Spec => []NotifiedOnce
<1>1. IInv => NotifiedOnce
  BY Zenon DEF IInv
<1> QED
  BY <1>1, Invariance, PTL

(* BeginTurn orders turns against detached answers.                         *)
THEOREM BeginTurnOrders == Spec => []TurnsOrderAnswers
<1>1. IInv => TurnsOrderAnswers
  BY Zenon DEF IInv
<1> QED
  BY <1>1, Invariance, PTL

(* An answer being continued is lost to an invalidation only.               *)
THEOREM ContinuedAnswersKept == Spec => []AnswersNotLost
<1>1. IInv => AnswersNotLost
  BY Zenon DEF IInv
<1> QED
  BY <1>1, Invariance, PTL

(* A question whose deadline has passed is about to end.                    *)
THEOREM DeadlinesHold == Spec => []DeadlineHolds
<1>1. IInv => DeadlineHolds
  BY Zenon DEF IInv
<1> QED
  BY <1>1, Invariance, PTL

(* A record that has ended stays so with its status, whatever saw it        *)
(* pending.                                                                 *)
THEOREM TerminalRecordsStay == Spec => TerminalIsFinal
<1>1. IInv /\ [Next]_vars =>
        [\A i \in Interactions :
           state[i] \in {"terminal", "pruned"} =>
             /\ state'[i] \in {"terminal", "pruned"}
             /\ status'[i] = status[i]]_vars
  BY Zenon, FinalStep DEF Final
<1> QED
  BY <1>1, Invariance, PTL DEF Spec, TerminalIsFinal
===============================================================================
