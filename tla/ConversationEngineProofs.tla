----------------------- MODULE ConversationEngineProofs -----------------------
(***************************************************************************)
(* Proofs about ConversationEngine, for any sets of calls, conversations,  *)
(* turn IDs and requests and any size of the replay cache.                 *)
(***************************************************************************)
EXTENDS ConversationEngine, SequenceTheorems, TLAPS

(***************************************************************************)
(* The strengthening.  Slots are keyed by the conversation of the call     *)
(* that fills them; only a returned call has closed its done channel; who  *)
(* holds a control sees no turn but the one it waits for, and none after   *)
(* it; a turn that runs or is about to replace another is not cached; and  *)
(* an execution is accounted for by an eviction, by the cache, or by the   *)
(* turn that is still running.                                             *)
(***************************************************************************)
SlotsKeyed ==
  \A k \in Keys :
    /\ active[k] # None => Key(active[k]) = k
    /\ controls[k] # None => Key(controls[k]) = k

DoneReturned == \A c \in done : pc[c] = "returned"

ControlSees ==
  \A c \in Calls :
    /\ pc[c] \in {"superseding", "resetWait"}
         => waiting[c] \in Calls /\ active[Key(c)] \in {None, waiting[c]}
    /\ pc[c] \in {"resetReady", "resetting"} => active[Key(c)] = None
    /\ pc[c] = "superseding" => ~ActiveSameID(c)

TurnIsNew ==
  \A c \in Calls :
    pc[c] \in InTurn \union {"superseding"} => completed[Turn(c)] = None

AcceptedEntered ==
  \A c \in accepted : pc[c] \in {"running", "returned"} /\ ~Media(c)

(* A runtime call is executing turn t. *)
Executing(t) ==
  \E c \in Calls : pc[c] = "running" /\ c \in accepted /\ Turn(c) = t

Kept(t) == IF completed[t] = None THEN 0 ELSE 1

ExecutionsCounted ==
  \A t \in Turns :
    /\ executed[t] <= evicted[t] + Kept(t) + 1
    /\ ~Executing(t) => executed[t] <= evicted[t] + Kept(t)

Exclusive ==
  /\ TypeOK
  /\ OneActiveTurn
  /\ ControlHasOwner
  /\ SlotsKeyed
  /\ DoneReturned
  /\ ControlSees

IInv ==
  /\ Exclusive
  /\ TurnIsNew
  /\ AcceptedEntered
  /\ ExecutionsCounted

-----------------------------------------------------------------------------

(* Every request names a conversation and a turn. *)
LEMMA RequestTyped ==
  ASSUME TypeOK, NEW c \in Calls
  PROVE  /\ Key(c) \in Keys /\ Turn(c) \in Turns
         /\ req[c].mode \in Modes
<1>1. req \in [Calls -> [op : {"run", "cancel", "reset"}, key : Keys, id : TurnIDs,
                          body : Bodies, mode : Modes]]
  BY Zenon, WorkloadsTyped DEF TypeOK
<1>2. req[c] \in [op : {"run", "cancel", "reset"}, key : Keys, id : TurnIDs,
                  body : Bodies, mode : Modes]
  BY Zenon, <1>1
<1> QED
  BY Zenon, <1>2 DEF Key, Turn, Turns

(* What a call may be answered with is a result. *)
LEMMA ResultTyped ==
  /\ \A c \in Calls, s \in {"succeeded", "failed", "canceled", "busy", "invalid"},
        b \in BOOLEAN : [status |-> s, dispatched |-> b, run |-> c] \in Results
  /\ \A r \in Results : [r EXCEPT !.status = "failed"] \in Results
BY Zenon DEF Results

LEMMA InitIInv == Init => IInv
<1> SUFFICES ASSUME Init PROVE IInv
  BY Zenon
<1> USE DEF Init
<1>1. TypeOK
  <2>1. result \in [Calls -> Results]
    BY Zenon DEF Results
  <2>2. completedOrder \in Seq(Turns)
    OBVIOUS
  <2>3. pc \in [Calls -> Where]
    BY Zenon DEF Where
  <2> QED
    BY Zenon, <2>1, <2>2, <2>3 DEF TypeOK
<1>2. \A c \in Calls : Key(c) \in Keys /\ Turn(c) \in Turns
  BY Zenon, <1>1, RequestTyped
<1>3. OneActiveTurn /\ ControlHasOwner
  BY Zenon, <1>2, NoneIsNoCall DEF OneActiveTurn, ControlHasOwner, InTurn, InControl
<1>4. SlotsKeyed /\ DoneReturned /\ ControlSees /\ TurnIsNew /\ AcceptedEntered
  BY Zenon DEF SlotsKeyed, DoneReturned, ControlSees, TurnIsNew, AcceptedEntered, InTurn
<1>5. ExecutionsCounted
  BY DEF ExecutionsCounted, Kept
<1> QED
  BY Zenon, <1>1, <1>3, <1>4, <1>5 DEF IInv, Exclusive

-----------------------------------------------------------------------------
(***************************************************************************)
(* Three shapes cover most steps.  A quiet step moves a call that is in    *)
(* neither a turn nor a control to another such place and leaves the       *)
(* engine's maps alone.                                                    *)
(***************************************************************************)
Neutral == Where \ (InTurn \union InControl)

Quiet(c) ==
  /\ pc[c] \in Neutral /\ pc[c] # "returned"
  /\ \E there \in Neutral : pc' = [pc EXCEPT ![c] = there]
  /\ waiting' \in [Calls -> Calls \union {None}]
  /\ \A d \in Calls \ {c} : waiting'[d] = waiting[d]
  /\ result' \in [Calls -> Results]
  /\ cancelled' \subseteq Calls
  /\ UNCHANGED <<req, engineVars, history>>

(* A replayed result is a result. *)
LEMMA ReplayTyped ==
  ASSUME TypeOK, NEW c \in Calls, NEW d \in Calls, ReplayEvents(c, d)
  PROVE  pc' = [pc EXCEPT ![c] = "returned"] /\ result' \in [Calls -> Results]
<1>1. result[d] \in Results
  BY Zenon DEF TypeOK
<1>2. PICK delivered \in BOOLEAN :
        Returns(c, IF delivered THEN result[d]
                                ELSE [result[d] EXCEPT !.status = "failed"])
  BY Zenon DEF ReplayEvents
<1> QED
  BY Zenon, <1>1, <1>2, ResultTyped DEF Returns, Goto, TypeOK

(* Looking up a known turn: its answer, a refusal, or a wait for it. *)
LEMMA KnownTurnQuiet ==
  ASSUME TypeOK, NEW c \in Calls, KnownTurn(c), UseKnownTurn(c)
  PROVE  /\ \E there \in {"returned", "await"} : pc' = [pc EXCEPT ![c] = there]
         /\ waiting' \in [Calls -> Calls \union {None}]
         /\ \A d \in Calls \ {c} : waiting'[d] = waiting[d]
         /\ result' \in [Calls -> Results]
<1> DEFINE d == IF Completed(c) THEN completed[Turn(c)] ELSE active[Key(c)]
<1>1. d \in Calls
  BY Zenon, RequestTyped DEF KnownTurn, Completed, ActiveSameID, TypeOK
<1>2. CASE ~SameTurnRequest(c, d)
  <2>1. Ends(c, "invalid") /\ UNCHANGED waiting
    BY Zenon, <1>2 DEF UseKnownTurn
  <2> QED
    BY ZenonT(30), <2>1, ResultTyped DEF Ends, Returns, Goto, TypeOK
<1>3. CASE SameTurnRequest(c, d) /\ Completed(c)
  <2>1. ReplayEvents(c, d) /\ UNCHANGED waiting
    BY Zenon, <1>3 DEF UseKnownTurn
  <2> QED
    BY Zenon, <1>1, <2>1, ReplayTyped DEF TypeOK
<1>4. CASE SameTurnRequest(c, d) /\ ~Completed(c)
  <2>1. WaitsFor(c, "await", d) /\ UNCHANGED result
    BY SMTT(30), <1>4 DEF UseKnownTurn
  <2> QED
    BY Zenon, <2>1, <1>1 DEF WaitsFor, Goto, TypeOK
<1> QED
  BY Zenon, <1>2, <1>3, <1>4

(* Every step of a call outside turns and controls is quiet. *)
LEMMA QuietSteps ==
  ASSUME TypeOK, NEW c \in Calls,
         \/ PreflightTurn(c) \/ ResolveInputFiles(c) \/ RefuseRequest(c)
         \/ AwaitActiveTurn(c) \/ AdmitKnown(c) \/ AdmitReject(c)
         \/ AdmitWait(c) \/ AdmitAgain(c) \/ WaitExpires(c)
         \/ Cancel(c) \/ CancelDone(c)
  PROVE  Quiet(c)
<1> USE DEF Quiet, Neutral, Where, InTurn, InControl
<1>0. Key(c) \in Keys /\ Turn(c) \in Turns
  BY Zenon, RequestTyped
<1>1. CASE PreflightTurn(c)
  <2>1. CASE KnownTurn(c)
    BY ZenonT(30), <1>1, <2>1, KnownTurnQuiet DEF PreflightTurn, TypeOK
  <2>2. CASE ~KnownTurn(c)
    BY Zenon, <1>1, <2>2 DEF PreflightTurn, Goto, TypeOK
  <2> QED
    BY Zenon, <2>1, <2>2
<1>2. CASE ResolveInputFiles(c)
  BY ZenonT(30), <1>2 DEF ResolveInputFiles, Goto, TypeOK
<1>3. CASE RefuseRequest(c)
  BY ZenonT(30), <1>3, ResultTyped DEF RefuseRequest, Ends, Returns, Goto, TypeOK
<1>4. CASE AwaitActiveTurn(c)
  <2>1. waiting[c] \in Calls
    BY Zenon, <1>4 DEF AwaitActiveTurn, TypeOK
  <2> QED
    BY Zenon, <1>4, <2>1, ReplayTyped DEF AwaitActiveTurn, TypeOK
<1>5. CASE AdmitKnown(c)
  BY ZenonT(30), <1>5, KnownTurnQuiet DEF AdmitKnown, TypeOK
<1>6. CASE AdmitReject(c)
  BY ZenonT(30), <1>6, ResultTyped DEF AdmitReject, Ends, Returns, Goto, TypeOK
<1>7. CASE AdmitWait(c)
  BY ZenonT(30), <1>0, <1>7 DEF AdmitWait, WaitsFor, Goto, TypeOK
<1>8. CASE AdmitAgain(c)
  BY ZenonT(30), <1>8 DEF AdmitAgain, WaitOver, Goto, TypeOK
<1>9. CASE WaitExpires(c)
  BY ZenonT(30), <1>9, ResultTyped DEF WaitExpires, Ends, Returns, Goto, TypeOK
<1>10. CASE Cancel(c)
  <2>1. CASE ActiveSameID(c)
    <3>1. /\ pc' = [pc EXCEPT ![c] = "cancelWait"] /\ active[Key(c)] \in Calls
          /\ waiting' = [waiting EXCEPT ![c] = active[Key(c)]]
          /\ cancelled' = cancelled \union {active[Key(c)]}
          /\ UNCHANGED <<req, result, engineVars, history>>
      BY Zenon, <1>0, <1>10, <2>1 DEF Cancel, ActiveSameID, CancelActive, WaitsFor, Goto, TypeOK
    <3>2. /\ pc[c] = "idle" /\ waiting' \in [Calls -> Calls \union {None}]
          /\ \A d \in Calls \ {c} : waiting'[d] = waiting[d]
          /\ cancelled' \subseteq Calls
      BY Zenon, <1>10, <3>1 DEF Cancel, TypeOK
    <3> QED
      BY ZenonT(30), <3>1, <3>2 DEF TypeOK
  <2>2. CASE ~ActiveSameID(c)
    BY ZenonT(30), <1>10, <2>2, ResultTyped DEF Cancel, Ends, Returns, Goto, TypeOK
  <2> QED
    BY Zenon, <2>1, <2>2
<1>11. CASE CancelDone(c)
  BY ZenonT(30), <1>11, ResultTyped DEF CancelDone, Ends, Returns, Goto, TypeOK
<1> QED
  BY Zenon, <1>1, <1>2, <1>3, <1>4, <1>5, <1>6, <1>7, <1>8, <1>9, <1>10, <1>11

(* A quiet step keeps the invariant: it neither enters nor leaves a slot. *)
LEMMA QuietPreserves ==
  ASSUME IInv, NEW c \in Calls, Quiet(c)
  PROVE  IInv'
<1> USE DEF IInv, Exclusive
<1> PICK there \in Neutral : pc' = [pc EXCEPT ![c] = there]
  BY ZenonT(30) DEF Quiet
<1>1. /\ \A d \in Calls : d # c => pc'[d] = pc[d] /\ waiting'[d] = waiting[d]
      /\ pc[c] \notin InTurn \union InControl /\ pc'[c] \notin InTurn \union InControl
      /\ pc[c] # "returned"
      /\ UNCHANGED <<req, active, controls, completed, completedOrder, done,
                     released, accepted, executed, evicted>>
  BY Zenon DEF Quiet, Neutral, TypeOK, engineVars, history
<1>2. \A d \in Calls : Key(d)' = Key(d) /\ Turn(d)' = Turn(d) /\ Media(d)' = Media(d)
  BY Zenon, <1>1 DEF Key, Turn, Media
<1>3. TypeOK'
  BY ZenonT(30), <1>1 DEF Quiet, Neutral, TypeOK
<1>4. OneActiveTurn' /\ ControlHasOwner'
  BY ZenonT(30), <1>1, <1>2 DEF OneActiveTurn, ControlHasOwner
<1>5. SlotsKeyed'
  BY <1>1, <1>2, NoneIsNoCall DEF SlotsKeyed, TypeOK
<1>6. DoneReturned'
  BY SMTT(30), <1>1 DEF DoneReturned, TypeOK
<1>7. ControlSees'
  BY <1>1, <1>2 DEF ControlSees, ActiveSameID, InControl, TypeOK, Key, Turn
<1>8. TurnIsNew' /\ AcceptedEntered'
  BY SMTT(30), <1>1, <1>2 DEF TurnIsNew, AcceptedEntered, InTurn, InControl, TypeOK
<1>9. ExecutionsCounted'
  <2>1. \A t \in Turns : Executing(t)' <=> Executing(t)
    BY Zenon, <1>1, <1>2 DEF Executing, InTurn
  <2> QED
    BY SMTT(30), <1>1, <2>1 DEF ExecutionsCounted, Kept
<1> QED
  BY Zenon, <1>3, <1>4, <1>5, <1>6, <1>7, <1>8, <1>9

-----------------------------------------------------------------------------
(* Completion. *)

(* A dispatched turn enters the cache; at most one turn leaves it. *)
LEMMA CacheShape ==
  ASSUME TypeOK, NEW c \in Calls, CacheDispatched(c)
  PROVE  /\ completedOrder' \in Seq(Turns)
         /\ \/ /\ completed' = [completed EXCEPT ![Turn(c)] = c]
               /\ evicted' = evicted
            \/ \E oldest \in Turns :
                 /\ completed' = [[completed EXCEPT ![Turn(c)] = c]
                                    EXCEPT ![oldest] = None]
                 /\ evicted' = [evicted EXCEPT ![oldest] = @ + 1]
<1> DEFINE order == Append(completedOrder, Turn(c))
<1>1. Turn(c) \in Turns /\ completedOrder \in Seq(Turns)
  BY Zenon, RequestTyped DEF TypeOK
<1>2. order \in Seq(Turns) /\ order # <<>>
  BY ZenonT(30), <1>1, AppendProperties
<1>4. Head(order) \in Turns /\ Tail(order) \in Seq(Turns)
  BY <1>2
<1>5. CASE EvictionDue(order)
  BY ZenonT(30), <1>4, <1>5 DEF CacheDispatched
<1>6. CASE ~EvictionDue(order)
  BY Zenon, <1>2, <1>6 DEF CacheDispatched
<1> QED
  BY Zenon, <1>5, <1>6

(* complete frees the conversation and wakes its waiters. *)
LEMMA CompleteKeepsExclusive ==
  ASSUME Exclusive, NEW c \in Calls, pc[c] \in InTurn,
         NEW status \in {"succeeded", "failed", "canceled"},
         NEW dispatched \in BOOLEAN,
         Complete(c, status, dispatched), executed' \in [Turns -> Nat]
  PROVE  Exclusive'
<1> USE DEF Exclusive
<1>0. Key(c) \in Keys /\ Turn(c) \in Turns /\ active[Key(c)] = c
  BY Zenon, RequestTyped DEF OneActiveTurn
<1>1. /\ pc' = [pc EXCEPT ![c] = "returned"]
      /\ active' = [active EXCEPT ![Key(c)] = None]
      /\ done' = done \union {c}
      /\ UNCHANGED <<req, controls, released, waiting, accepted>>
  BY Zenon, <1>0 DEF Complete, Returns, Goto, FreedConversation, ClosedDone
<1>2. \A d \in Calls : Key(d)' = Key(d) /\ Turn(d)' = Turn(d)
  BY Zenon, <1>1 DEF Key, Turn
<1>3. TypeOK'
  <2>1. result' \in [Calls -> Results]
    BY Zenon, ResultTyped DEF Complete, Returns, TypeOK
  <2>2. /\ completed' \in [Turns -> Calls \union {None}]
        /\ completedOrder' \in Seq(Turns)
        /\ evicted' \in [Turns -> Nat]
    <3>1. CASE dispatched
      <4>1. CacheDispatched(c)
        BY Zenon, <3>1 DEF Complete
      <4>2. CASE completed' = [completed EXCEPT ![Turn(c)] = c] /\ evicted' = evicted
        BY Zenon, <1>0, <4>1, <4>2, CacheShape DEF TypeOK
      <4>3. ASSUME NEW oldest \in Turns,
                   completed' = [[completed EXCEPT ![Turn(c)] = c]
                                    EXCEPT ![oldest] = None],
                   evicted' = [evicted EXCEPT ![oldest] = @ + 1]
            PROVE  /\ completed' \in [Turns -> Calls \union {None}]
                   /\ evicted' \in [Turns -> Nat]
        <5>1. [completed EXCEPT ![Turn(c)] = c] \in [Turns -> Calls \union {None}]
          BY Zenon, <1>0 DEF TypeOK
        <5>2. completed' \in [Turns -> Calls \union {None}]
          BY Zenon, <4>3, <5>1
        <5>3. evicted' \in [Turns -> Nat]
          BY <4>3 DEF TypeOK
        <5> QED
          BY Zenon, <5>2, <5>3
      <4> QED
        BY Zenon, <4>1, <4>2, <4>3, CacheShape
    <3>2. CASE ~dispatched
      BY Zenon, <3>2 DEF Complete, TypeOK
    <3> QED
      BY Zenon, <3>1, <3>2
  <2>3. pc' \in [Calls -> Where] /\ active' \in [Keys -> Calls \union {None}]
    BY ZenonT(30), <1>1 DEF TypeOK, Where
  <2>4. cancelled' \subseteq Calls
    BY Zenon DEF Complete, TypeOK
  <2> QED
    BY Zenon, <1>1, <2>1, <2>2, <2>3, <2>4 DEF TypeOK
<1>4. OneActiveTurn'
  BY ZenonT(30), <1>0, <1>1, <1>2, RequestTyped, NoneIsNoCall DEF OneActiveTurn, InTurn, TypeOK
<1>5. ControlHasOwner'
  BY Zenon, <1>1, <1>2 DEF ControlHasOwner, InTurn, InControl, TypeOK
<1>6. SlotsKeyed'
  BY Zenon, <1>1, <1>2 DEF SlotsKeyed, TypeOK
<1>7. DoneReturned'
  BY Zenon, <1>1 DEF DoneReturned, TypeOK
<1>8. ControlSees'
  BY ZenonT(30), <1>0, <1>1, <1>2, RequestTyped DEF ControlSees, ActiveSameID, InTurn, TypeOK, Key, Turn
<1> QED
  BY Zenon, <1>3, <1>4, <1>5, <1>6, <1>7, <1>8

(* The accounting of executions: the engine's replay cache takes over from *)
(* the running turn.                                                       *)
LEMMA CompleteKeepsCounts ==
  ASSUME IInv, NEW c \in Calls, pc[c] \in InTurn, c \in accepted => pc[c] = "running",
         NEW status \in {"succeeded", "failed", "canceled"},
         NEW dispatched \in BOOLEAN,
         Complete(c, status, dispatched),
         \/ (dispatched <=> c \in accepted) /\ executed' = executed
         \/ /\ dispatched /\ c \notin accepted
            /\ executed' = [executed EXCEPT ![Turn(c)] = @ + 1]
  PROVE  IInv'
<1> USE DEF IInv
<1>0. /\ Key(c) \in Keys /\ Turn(c) \in Turns /\ active[Key(c)] = c
      /\ completed[Turn(c)] = None
  BY Zenon, RequestTyped DEF Exclusive, OneActiveTurn, TurnIsNew
<1>1. Exclusive'
  <2>1. executed' \in [Turns -> Nat]
    <3>1. CASE executed' = executed
      BY Zenon, <3>1 DEF Exclusive, TypeOK
    <3>2. CASE executed' = [executed EXCEPT ![Turn(c)] = @ + 1]
      BY <1>0, <3>2 DEF Exclusive, TypeOK
    <3> QED
      BY Zenon, <3>1, <3>2
  <2> QED
    BY Zenon, <2>1, CompleteKeepsExclusive
<1>2. /\ pc' = [pc EXCEPT ![c] = "returned"]
      /\ UNCHANGED <<req, accepted>>
  BY Zenon DEF Complete, Returns, Goto
<1>3. \A d \in Calls : Turn(d)' = Turn(d) /\ Key(d)' = Key(d) /\ Media(d)' = Media(d)
  BY Zenon, <1>2 DEF Turn, Key, Media
<1>4. \A d \in Calls : pc[d] \in InTurn /\ Key(d) = Key(c) => d = c
  BY Zenon, <1>0 DEF Exclusive, OneActiveTurn
<1>5. \A d \in Calls : pc'[d] \in InTurn \union {"superseding"} => Turn(d) # Turn(c)
  <2> SUFFICES ASSUME NEW d \in Calls, pc'[d] \in InTurn \union {"superseding"},
                      Turn(d) = Turn(c)
               PROVE  FALSE
    BY Zenon
  <2>1. d # c /\ pc[d] = pc'[d] /\ Key(d) = Key(c)
    BY Zenon, <1>2 DEF Exclusive, TypeOK, InTurn, Turn, Key
  <2>2. pc[d] = "superseding"
    BY Zenon, <1>4, <2>1
  <2>3. ActiveSameID(d)
    BY Zenon, <1>0, <2>1, NoneIsNoCall DEF ActiveSameID
  <2> QED
    BY Zenon, <2>2, <2>3 DEF Exclusive, ControlSees
<1>6. \A t \in Turns :
        /\ t # Turn(c) => completed'[t] \in {completed[t], None}
        /\ evicted'[t] + Kept(t)' >= evicted[t]
             + (IF t = Turn(c) /\ dispatched THEN 1 ELSE Kept(t))
  <2> SUFFICES ASSUME NEW t \in Turns
               PROVE  /\ t # Turn(c) => completed'[t] \in {completed[t], None}
                      /\ evicted'[t] + Kept(t)' >= evicted[t]
                           + (IF t = Turn(c) /\ dispatched THEN 1 ELSE Kept(t))
    BY Zenon
  <2>0. evicted[t] \in Nat /\ evicted \in [Turns -> Nat]
        /\ completed \in [Turns -> Calls \union {None}]
    BY Zenon DEF Exclusive, TypeOK
  <2>1. CASE dispatched
    <3>1. CacheDispatched(c) /\ TypeOK
      BY Zenon, <2>1 DEF Complete, Exclusive
    <3>2. CASE completed' = [completed EXCEPT ![Turn(c)] = c] /\ evicted' = evicted
      BY <1>0, <2>0, <2>1, <3>2, NoneIsNoCall DEF Kept
    <3>3. ASSUME NEW oldest \in Turns,
                 completed' = [[completed EXCEPT ![Turn(c)] = c]
                                    EXCEPT ![oldest] = None],
                 evicted' = [evicted EXCEPT ![oldest] = @ + 1]
          PROVE  /\ t # Turn(c) => completed'[t] \in {completed[t], None}
                 /\ evicted'[t] + Kept(t)' >= evicted[t]
                           + (IF t = Turn(c) /\ dispatched THEN 1 ELSE Kept(t))
      BY <1>0, <2>0, <2>1, <3>3, NoneIsNoCall DEF Kept
    <3> QED
      BY Zenon, <3>1, <3>2, <3>3, CacheShape
  <2>2. CASE ~dispatched
    BY SMTT(30), <2>0, <2>2 DEF Complete, Kept
  <2> QED
    BY Zenon, <2>1, <2>2
<1>7. TurnIsNew'
  BY <1>0, <1>2, <1>3, <1>5, <1>6, RequestTyped DEF TurnIsNew, Exclusive, TypeOK, InTurn
<1>8. AcceptedEntered'
  BY Zenon, <1>2, <1>3 DEF AcceptedEntered, Exclusive, TypeOK
<1>9. \A t \in Turns : t # Turn(c) => (Executing(t)' <=> Executing(t))
  BY Zenon, <1>2, <1>3 DEF Executing, Exclusive, TypeOK
<1>10. Executing(Turn(c)) <=> c \in accepted
  BY Zenon, <1>4 DEF Executing, InTurn, Turn, Key
<1>11. ExecutionsCounted'
  <2> SUFFICES ASSUME NEW t \in Turns
               PROVE  /\ executed'[t] <= evicted'[t] + Kept(t)' + 1
                      /\ ~Executing(t)' => executed'[t] <= evicted'[t] + Kept(t)'
    BY Zenon DEF ExecutionsCounted
  <2>1. /\ executed[t] \in Nat /\ evicted[t] \in Nat /\ Kept(t) \in {0, 1}
        /\ executed'[t] \in Nat /\ evicted'[t] \in Nat /\ Kept(t)' \in {0, 1}
    BY Zenon, <1>1 DEF Exclusive, TypeOK, Kept
  <2>2. CASE t = Turn(c)
    <3>1. executed'[t] <= evicted[t] + (IF dispatched THEN 1 ELSE 0)
      BY <1>0, <1>10, <2>1, <2>2 DEF ExecutionsCounted, Kept, Exclusive, TypeOK
    <3>2. evicted'[t] + Kept(t)' >= evicted[t] + (IF dispatched THEN 1 ELSE 0)
      BY Zenon, <1>0, <1>6, <2>1, <2>2 DEF Kept
    <3> QED
      BY SMTT(30), <2>1, <3>1, <3>2
  <2>3. CASE t # Turn(c)
    <3>1. executed'[t] = executed[t]
      BY Zenon, <1>0, <2>3 DEF Exclusive, TypeOK
    <3>2. evicted'[t] + Kept(t)' >= evicted[t] + Kept(t)
      BY Zenon, <1>6, <2>3
    <3> QED
      BY <1>9, <2>1, <2>3, <3>1, <3>2 DEF ExecutionsCounted
  <2> QED
    BY Zenon, <2>2, <2>3
<1> QED
  BY Zenon, <1>1, <1>7, <1>8, <1>11

-----------------------------------------------------------------------------
(* Turns: entering, the runtime, leaving. *)

LEMMA PrepareFailsStep ==
  ASSUME IInv, NEW c \in Calls, PrepareFails(c)
  PROVE  IInv'
<1>1. pc[c] = "admitted" /\ c \notin accepted
  BY Zenon DEF PrepareFails, IInv, AcceptedEntered
<1>2. Complete(c, "failed", FALSE) /\ executed' = executed
  BY ZenonT(30) DEF PrepareFails
<1> QED
  BY ZenonT(30), <1>1, <1>2, CompleteKeepsCounts DEF InTurn

LEMMA RuntimeReturnsStep ==
  ASSUME IInv, NEW c \in Calls, RuntimeReturns(c)
  PROVE  IInv'
<1>1. pc[c] = "running" /\ executed' = executed
  BY Zenon DEF RuntimeReturns
<1>2. PICK status \in {"succeeded", "failed", "canceled"} :
        Complete(c, status, c \in accepted)
  BY Zenon DEF RuntimeReturns, Dispatched
<1>3. (c \in accepted) \in BOOLEAN
  OBVIOUS
<1> QED
  BY ZenonT(30), <1>1, <1>2, <1>3, CompleteKeepsCounts DEF InTurn

LEMMA GenerateMediaStep ==
  ASSUME IInv, NEW c \in Calls, GenerateMedia(c)
  PROVE  IInv'
<1>1. pc[c] = "running" /\ c \notin accepted
  BY Zenon DEF GenerateMedia, IInv, AcceptedEntered
<1>2. CASE Complete(c, "succeeded", TRUE) /\ executed' = [executed EXCEPT ![Turn(c)] = @ + 1]
  BY ZenonT(30), <1>1, <1>2, CompleteKeepsCounts DEF InTurn
<1>3. CASE Complete(c, "failed", FALSE) /\ executed' = executed
  BY ZenonT(30), <1>1, <1>3, CompleteKeepsCounts DEF InTurn
<1> QED
  BY ZenonT(30), <1>2, <1>3 DEF GenerateMedia

(* A step inside a turn that leaves the engine's maps alone. *)
LEMMA InsideTurnStep ==
  ASSUME IInv, NEW c \in Calls, EnterRuntime(c) \/ ContextEnds(c)
  PROVE  IInv'
<1> USE DEF IInv, Exclusive
<1>1. /\ pc[c] \in InTurn
      /\ pc' = pc \/ (pc[c] = "admitted" /\ pc' = [pc EXCEPT ![c] = "running"])
      /\ cancelled' \subseteq Calls
  BY Zenon DEF EnterRuntime, ContextEnds, Goto, InTurn, TypeOK
<1>0. UNCHANGED <<req, active, controls, completed, completedOrder, done,
                  released, waiting, result, accepted, executed, evicted>>
  BY Zenon DEF EnterRuntime, ContextEnds, engineVars, history
<1>2. \A d \in Calls : Key(d)' = Key(d) /\ Turn(d)' = Turn(d) /\ Media(d)' = Media(d)
  BY Zenon, <1>0 DEF Key, Turn, Media
<1>3. \A d \in Calls :
        \/ pc'[d] = pc[d]
        \/ pc[d] = "admitted" /\ pc'[d] = "running" /\ d \notin accepted
  <2>1. pc[c] = "admitted" => c \notin accepted
    BY Zenon DEF AcceptedEntered
  <2>2. pc \in [Calls -> Where]
    BY Zenon DEF TypeOK
  <2> QED
    BY Zenon, <1>1, <2>1, <2>2
<1>4. TypeOK'
  BY SMTT(30), <1>0, <1>1 DEF TypeOK, Where, InTurn
<1>5. OneActiveTurn' /\ SlotsKeyed'
  BY SMTT(30), <1>0, <1>2, <1>3, NoneIsNoCall DEF OneActiveTurn, SlotsKeyed, TypeOK, InTurn
<1>6. ControlHasOwner'
  BY ZenonT(30), <1>0, <1>2, <1>3 DEF ControlHasOwner, InTurn, InControl
<1>7. DoneReturned'
  BY Zenon, <1>0, <1>3 DEF DoneReturned, TypeOK, InTurn
<1>8. ControlSees'
  BY ZenonT(30), <1>0, <1>2, <1>3 DEF ControlSees, ActiveSameID, Key, Turn, InTurn
<1>9. TurnIsNew' /\ AcceptedEntered'
  BY SMTT(30), <1>0, <1>2, <1>3 DEF TurnIsNew, AcceptedEntered, InTurn, TypeOK
<1>10. ExecutionsCounted'
  <2>1. \A t \in Turns : Executing(t)' <=> Executing(t)
    BY ZenonT(30), <1>0, <1>2, <1>3 DEF Executing, InTurn, TypeOK
  <2> QED
    BY ZenonT(30), <1>0, <2>1 DEF ExecutionsCounted, Kept
<1> QED
  BY Zenon, <1>4, <1>5, <1>6, <1>7, <1>8, <1>9, <1>10

(* The prompt is taken: the only turn of the conversation starts to count. *)
LEMMA RuntimeAcceptsStep ==
  ASSUME IInv, NEW c \in Calls, RuntimeAccepts(c)
  PROVE  IInv'
<1> USE DEF IInv, Exclusive
<1>1. /\ pc[c] = "running" /\ ~Media(c) /\ c \notin accepted
      /\ accepted' = accepted \union {c}
      /\ executed' = [executed EXCEPT ![Turn(c)] = @ + 1]
      /\ UNCHANGED <<req, pc, active, controls, completed, completedOrder, done,
                     released, cancelled, waiting, result, evicted>>
  BY Zenon DEF RuntimeAccepts, engineVars
<1>2. \A d \in Calls : Key(d)' = Key(d) /\ Turn(d)' = Turn(d) /\ Media(d)' = Media(d)
  BY Zenon, <1>1 DEF Key, Turn, Media
<1>3. Turn(c) \in Turns
  BY Zenon, RequestTyped
<1>4. TypeOK'
  <2>1. executed' \in [Turns -> Nat]
    BY SMTT(30), <1>1, <1>3 DEF TypeOK
  <2> QED
    BY Zenon, <1>1, <2>1 DEF TypeOK
<1>5. OneActiveTurn' /\ ControlHasOwner' /\ DoneReturned'
  BY Zenon, <1>1, <1>2 DEF OneActiveTurn, ControlHasOwner, DoneReturned
<1>6. SlotsKeyed'
  BY SMTT(30), <1>1, <1>2, NoneIsNoCall DEF SlotsKeyed, TypeOK
<1>7. ControlSees' /\ TurnIsNew'
  BY ZenonT(30), <1>1, <1>2 DEF ControlSees, TurnIsNew, ActiveSameID, Key, Turn
<1>8. AcceptedEntered'
  BY SMTT(30), <1>1, <1>2 DEF AcceptedEntered, TypeOK
<1>9. ~Executing(Turn(c))
  BY Zenon, <1>1 DEF Executing, OneActiveTurn, InTurn, Turn, Key
<1>10. \A t \in Turns : Executing(t)' <=> (Executing(t) \/ t = Turn(c))
  BY SMTT(30), <1>1, <1>2 DEF Executing
<1>11. ExecutionsCounted'
  <2> SUFFICES ASSUME NEW t \in Turns
               PROVE  /\ executed'[t] <= evicted'[t] + Kept(t)' + 1
                      /\ ~Executing(t)' => executed'[t] <= evicted'[t] + Kept(t)'
    BY Zenon DEF ExecutionsCounted
  <2>1. /\ executed[t] \in Nat /\ evicted[t] \in Nat /\ Kept(t) \in {0, 1}
        /\ evicted'[t] = evicted[t] /\ Kept(t)' = Kept(t)
        /\ executed'[t] = IF t = Turn(c) THEN executed[t] + 1 ELSE executed[t]
    BY Zenon, <1>1, <1>3 DEF TypeOK, Kept
  <2> QED
    BY <1>9, <1>10, <2>1 DEF ExecutionsCounted
<1> QED
  BY Zenon, <1>4, <1>5, <1>6, <1>7, <1>8, <1>11

-----------------------------------------------------------------------------
(* Admission and control. *)

(* Facts that a step that neither runs nor completes turns leaves alone. *)
LEMMA CountsUntouched ==
  ASSUME IInv, NEW c \in Calls, NEW there \in Where,
         pc' = [pc EXCEPT ![c] = there],
         pc[c] # "running", pc[c] # "returned", there # "running",
         UNCHANGED <<req, completed, accepted, executed, evicted>>
  PROVE  AcceptedEntered' /\ ExecutionsCounted'
<1> USE DEF IInv, Exclusive
<1>1. \A d \in Calls : Turn(d)' = Turn(d) /\ Media(d)' = Media(d)
  BY Zenon DEF Turn, Media
<1>2. c \notin accepted /\ accepted \subseteq Calls /\ pc \in [Calls -> Where]
  BY Zenon DEF AcceptedEntered, TypeOK
<1>3. AcceptedEntered'
  BY Zenon, <1>1, <1>2 DEF AcceptedEntered
<1>4. \A t \in Turns : Executing(t)' <=> Executing(t)
  BY Zenon, <1>1, <1>2 DEF Executing
<1> QED
  BY Zenon, <1>3, <1>4 DEF ExecutionsCounted, Kept

LEMMA AdmitFreeStep ==
  ASSUME IInv, NEW c \in Calls, AdmitFree(c)
  PROVE  IInv'
<1> USE DEF IInv, Exclusive
<1>0. Key(c) \in Keys
  BY Zenon, RequestTyped
<1>1. /\ pc[c] = "admit" /\ pc' = [pc EXCEPT ![c] = "admitted"]
      /\ active[Key(c)] = None /\ controls[Key(c)] = None
      /\ active' = [active EXCEPT ![Key(c)] = c]
      /\ completed[Turn(c)] = None
  BY Zenon DEF AdmitFree, Goto, ConversationFree, KnownTurn, Completed
<1>2. UNCHANGED <<req, controls, completed, completedOrder, done, released,
                  cancelled, waiting, result, accepted, executed, evicted>>
  BY Zenon DEF AdmitFree, history
<1>3. \A d \in Calls : Key(d)' = Key(d) /\ Turn(d)' = Turn(d)
  BY Zenon, <1>2 DEF Key, Turn
<1>4. TypeOK'
  BY Zenon, <1>0, <1>1, <1>2 DEF TypeOK, Where, InTurn
<1>5. OneActiveTurn'
  BY <1>0, <1>1, <1>3, RequestTyped, NoneIsNoCall DEF OneActiveTurn, InTurn, TypeOK
<1>6. ControlHasOwner'
  BY Zenon, <1>1, <1>2, <1>3 DEF ControlHasOwner, InControl, TypeOK
<1>7. SlotsKeyed'
  BY <1>0, <1>1, <1>2, <1>3, NoneIsNoCall DEF SlotsKeyed, TypeOK
<1>8. DoneReturned'
  BY SMTT(30), <1>1, <1>2 DEF DoneReturned, TypeOK
<1>9. \A d \in Calls : Key(d) = Key(c) => pc[d] \notin InControl
  BY SMTT(30), <1>1, NoneIsNoCall DEF ControlHasOwner
<1>10. ControlSees'
  BY ZenonT(30), <1>0, <1>1, <1>2, <1>3, <1>9, RequestTyped
  DEF ControlSees, ActiveSameID, InControl, TypeOK, Key, Turn
<1>11. TurnIsNew'
  BY Zenon, <1>1, <1>2, <1>3 DEF TurnIsNew, InTurn, TypeOK
<1>12. AcceptedEntered' /\ ExecutionsCounted'
  BY ZenonT(30), <1>1, <1>2, CountsUntouched DEF Where, InTurn
<1> QED
  BY Zenon, <1>4, <1>5, <1>6, <1>7, <1>8, <1>10, <1>11, <1>12

(* Installing a control, by a superseding Run or by Reset. *)
LEMMA ControlInstalled ==
  ASSUME IInv, NEW c \in Calls, NEW there \in {"superseding", "resetWait", "resetReady"},
         pc[c] \in {"idle", "admit"}, pc' = [pc EXCEPT ![c] = there],
         controls[Key(c)] = None,
         controls' = [controls EXCEPT ![Key(c)] = c],
         waiting' = [waiting EXCEPT ![c] = active[Key(c)]],
         there = "resetReady" <=> active[Key(c)] = None,
         there = "superseding" => completed[Turn(c)] = None /\ ~ActiveSameID(c),
         cancelled' \subseteq Calls, result' = result,
         UNCHANGED <<req, active, completed, completedOrder, done, released,
                     accepted, executed, evicted>>
  PROVE  IInv'
<1> USE DEF IInv, Exclusive
<1>0. Key(c) \in Keys
  BY SMTT(30), RequestTyped
<1>1. \A d \in Calls : Key(d)' = Key(d) /\ Turn(d)' = Turn(d)
  BY Zenon DEF Key, Turn
<1>2. TypeOK'
  BY Zenon, <1>0 DEF TypeOK, Where, InControl
<1>3. OneActiveTurn'
  BY SMTT(30), <1>1 DEF OneActiveTurn, InTurn, TypeOK
<1>4. ControlHasOwner'
  BY SMTT(30), <1>0, <1>1, RequestTyped, NoneIsNoCall DEF ControlHasOwner, InControl, TypeOK
<1>5. SlotsKeyed'
  BY Zenon, <1>0, <1>1, NoneIsNoCall DEF SlotsKeyed, TypeOK
<1>6. DoneReturned'
  BY SMTT(30) DEF DoneReturned, TypeOK
<1>7. ControlSees'
  <2> SUFFICES ASSUME NEW d \in Calls
               PROVE  /\ pc'[d] \in {"superseding", "resetWait"}
                           => waiting'[d] \in Calls /\ active[Key(d)] \in {None, waiting'[d]}
                      /\ pc'[d] \in {"resetReady", "resetting"} => active[Key(d)] = None
                      /\ pc'[d] = "superseding" => ~ActiveSameID(d)
    BY ZenonT(30), <1>1 DEF ControlSees, ActiveSameID, Key, Turn
  <2>1. CASE d = c
    BY SMTT(30), <1>0, <2>1 DEF TypeOK
  <2>2. CASE d # c
    BY Zenon, <2>2 DEF ControlSees, TypeOK
  <2> QED
    BY SMTT(30), <2>1, <2>2
<1>8. TurnIsNew'
  BY SMTT(30), <1>1 DEF TurnIsNew, InTurn, TypeOK
<1>9. AcceptedEntered' /\ ExecutionsCounted'
  BY ZenonT(30), CountsUntouched DEF Where, InControl
<1> QED
  BY SMTT(30), <1>2, <1>3, <1>4, <1>5, <1>6, <1>7, <1>8, <1>9

LEMMA AdmitSupersedeStep ==
  ASSUME IInv, NEW c \in Calls, AdmitSupersede(c)
  PROVE  IInv'
<1>1. Key(c) \in Keys /\ active[Key(c)] \in Calls \union {None}
      /\ cancelled \subseteq Calls
  BY SMTT(30), RequestTyped DEF IInv, Exclusive, TypeOK
<1>2. active[Key(c)] # None /\ controls[Key(c)] = None
  BY ZenonT(30) DEF AdmitSupersede, ConversationFree
<1>3. cancelled' \subseteq Calls
  BY ZenonT(30), <1>1, <1>2 DEF AdmitSupersede, CancelActive
<1> QED
  BY ZenonT(30), <1>2, <1>3, ControlInstalled
  DEF AdmitSupersede, WaitsFor, Goto, KnownTurn, Completed, history

LEMMA ResetBeginsStep ==
  ASSUME IInv, NEW c \in Calls, ResetBegins(c)
  PROVE  IInv'
<1>1. Key(c) \in Keys /\ active[Key(c)] \in Calls \union {None}
      /\ cancelled \subseteq Calls
  BY Zenon, RequestTyped DEF IInv, Exclusive, TypeOK
<1>2. CASE controls[Key(c)] # None
  <2>1. Quiet(c)
    BY ZenonT(30), <1>2, ResultTyped
    DEF ResetBegins, Ends, Returns, Goto, Quiet, Neutral, Where, InTurn, InControl,
        IInv, Exclusive, TypeOK, engineVars
  <2> QED
    BY Zenon, <2>1, QuietPreserves
<1>3. CASE controls[Key(c)] = None
  <2>1. cancelled' \subseteq Calls
    BY ZenonT(30), <1>1, <1>3 DEF ResetBegins, CancelActive
  <2> QED
    BY ZenonT(30), <1>3, <2>1, ControlInstalled DEF ResetBegins, WaitsFor, Goto, history
<1> QED
  BY Zenon, <1>2, <1>3

(* Giving a control back and returning. *)
LEMMA ControlEnded ==
  ASSUME IInv, NEW c \in Calls, SupersedeExpires(c) \/ ResetReturns(c)
  PROVE  IInv'
<1> USE DEF IInv, Exclusive
<1>0. Key(c) \in Keys /\ pc[c] \in InControl /\ controls[Key(c)] = c
  BY Zenon, RequestTyped DEF SupersedeExpires, ResetReturns, InControl, ControlHasOwner
<1>1. /\ pc' = [pc EXCEPT ![c] = "returned"]
      /\ controls' = [controls EXCEPT ![Key(c)] = None]
      /\ released' = released \union {c}
  BY Zenon, <1>0 DEF SupersedeExpires, ResetReturns, EndControl, Ends, Returns, Goto
<1>2. UNCHANGED <<req, active, completed, completedOrder, done, cancelled,
                  waiting, accepted, executed, evicted>>
  BY Zenon DEF SupersedeExpires, ResetReturns, history
<1>3. result' \in [Calls -> Results]
  BY ZenonT(30), ResultTyped DEF SupersedeExpires, ResetReturns, Ends, Returns, TypeOK
<1>4. \A d \in Calls : Key(d)' = Key(d) /\ Turn(d)' = Turn(d)
  BY Zenon, <1>2 DEF Key, Turn
<1>5. TypeOK'
  BY ZenonT(30), <1>0, <1>1, <1>2, <1>3 DEF TypeOK, Where
<1>6. OneActiveTurn'
  BY SMTT(30), <1>0, <1>1, <1>2, <1>4 DEF OneActiveTurn, InTurn, InControl, TypeOK
<1>7. ControlHasOwner'
  BY SMTT(30), <1>0, <1>1, <1>4, RequestTyped, NoneIsNoCall DEF ControlHasOwner, InControl, TypeOK
<1>8. SlotsKeyed'
  BY Zenon, <1>0, <1>1, <1>2, <1>4 DEF SlotsKeyed, TypeOK
<1>9. DoneReturned'
  BY SMTT(30), <1>1, <1>2 DEF DoneReturned, TypeOK
<1>10. ControlSees'
  BY Zenon, <1>1, <1>2, <1>4 DEF ControlSees, ActiveSameID, TypeOK, Key, Turn
<1>11. TurnIsNew'
  BY Zenon, <1>1, <1>2, <1>4 DEF TurnIsNew, InTurn, TypeOK
<1>12. AcceptedEntered' /\ ExecutionsCounted'
  BY ZenonT(30), <1>0, <1>1, <1>2, CountsUntouched DEF Where, InControl
<1> QED
  BY SMTT(30), <1>5, <1>6, <1>7, <1>8, <1>9, <1>10, <1>11, <1>12

(* Who holds a control and sees its turn done sees an empty slot. *)
LEMMA DoneMeansFree ==
  ASSUME IInv, NEW c \in Calls, pc[c] \in {"superseding", "resetWait"},
         waiting[c] \in done
  PROVE  active[Key(c)] = None
<1>1. waiting[c] \in Calls /\ active[Key(c)] \in {None, waiting[c]}
  BY SMTT(30) DEF IInv, Exclusive, ControlSees
<1>2. pc[waiting[c]] = "returned"
  BY Zenon DEF IInv, Exclusive, DoneReturned
<1>3. active[Key(waiting[c])] # waiting[c]
  BY Zenon, <1>1, <1>2 DEF IInv, Exclusive, OneActiveTurn, InTurn
<1>4. active[Key(c)] = waiting[c] => Key(waiting[c]) = Key(c)
  BY SMTT(30), <1>1, RequestTyped, NoneIsNoCall DEF IInv, Exclusive, SlotsKeyed
<1> QED
  BY SMTT(30), <1>1, <1>3, <1>4

(* promoteControl never finds that admission changed: the supersede turns  *)
(* into the turn in one step.                                              *)
LEMMA PromoteControlStep ==
  ASSUME IInv, NEW c \in Calls, PromoteControl(c)
  PROVE  IInv'
<1> USE DEF IInv, Exclusive
<1>0. /\ Key(c) \in Keys /\ pc[c] = "superseding" /\ controls[Key(c)] = c
      /\ active[Key(c)] = None
  BY SMTT(30), RequestTyped, DoneMeansFree DEF PromoteControl, InControl, ControlHasOwner
<1>1. /\ pc' = [pc EXCEPT ![c] = "admitted"]
      /\ active' = [active EXCEPT ![Key(c)] = c]
      /\ controls' = [controls EXCEPT ![Key(c)] = None]
      /\ released' = released \union {c}
      /\ result' = result
  BY Zenon, <1>0 DEF PromoteControl, EndControl, Goto
<1>2. UNCHANGED <<req, completed, completedOrder, done, cancelled, waiting,
                  accepted, executed, evicted>>
  BY Zenon DEF PromoteControl, history
<1>3. \A d \in Calls : Key(d)' = Key(d) /\ Turn(d)' = Turn(d)
  BY Zenon, <1>2 DEF Key, Turn
<1>4. TypeOK'
  BY SMTT(30), <1>0, <1>1, <1>2 DEF TypeOK, Where, InTurn
<1>5. OneActiveTurn'
  BY SMTT(30), <1>0, <1>1, <1>3, RequestTyped, NoneIsNoCall DEF OneActiveTurn, InTurn, TypeOK
<1>6. ControlHasOwner'
  BY SMTT(30), <1>0, <1>1, <1>3, RequestTyped, NoneIsNoCall DEF ControlHasOwner, InControl, TypeOK
<1>7. SlotsKeyed'
  BY ZenonT(30), <1>0, <1>1, <1>3, NoneIsNoCall DEF SlotsKeyed, TypeOK
<1>8. DoneReturned'
  BY Zenon, <1>0, <1>1, <1>2 DEF DoneReturned, TypeOK
<1>9. \A d \in Calls : Key(d) = Key(c) /\ d # c => pc[d] \notin InControl
  BY SMTT(30), <1>0 DEF ControlHasOwner
<1>10. ControlSees'
  <2>1. \A d \in Calls : Key(d) \in Keys
    BY Zenon, RequestTyped
  <2>2. DOMAIN active = Keys /\ DOMAIN pc = Calls
    BY Zenon DEF TypeOK
  <2>3. \A d \in Calls : Key(d) # Key(c) => active'[Key(d)] = active[Key(d)] /\ (ActiveSameID(d)' <=> ActiveSameID(d))
    BY ZenonT(30), <1>1, <1>2, <2>1, <2>2 DEF ActiveSameID, Key, Turn
  <2>4. pc'[c] = "admitted" /\ \A d \in Calls \ {c} : pc'[d] = pc[d]
    BY Zenon, <1>1, <2>2
  <2>5. \A d \in Calls : pc[d] \in {"superseding", "resetWait", "resetReady", "resetting"} => pc[d] \in InControl
    BY Zenon DEF InControl
  <2>6. \A d \in Calls : pc'[d] \in {"superseding", "resetWait", "resetReady", "resetting"} => Key(d) # Key(c) /\ pc'[d] = pc[d]
    BY ZenonT(30), <1>9, <2>4, <2>5
  <2> QED
    BY SMTT(30), <1>2, <1>3, <2>3, <2>6 DEF ControlSees
<1>11. TurnIsNew'
  BY Zenon, <1>0, <1>1, <1>2, <1>3 DEF TurnIsNew, InTurn, TypeOK
<1>12. AcceptedEntered' /\ ExecutionsCounted'
  BY ZenonT(30), <1>0, <1>1, <1>2, CountsUntouched DEF Where, InTurn
<1> QED
  BY Zenon, <1>4, <1>5, <1>6, <1>7, <1>8, <1>10, <1>11, <1>12

(* Reset moves on once its turn is done, then enters the runtime. *)
LEMMA ResetMoves ==
  ASSUME IInv, NEW c \in Calls, ResetWaited(c) \/ ResetEntersRuntime(c)
  PROVE  IInv'
<1> USE DEF IInv, Exclusive
<1>1. PICK there \in {"resetReady", "resetting"} :
        pc' = [pc EXCEPT ![c] = there]
  BY SMTT(30) DEF ResetWaited, ResetEntersRuntime, Goto
<1>2. pc[c] \in {"resetWait", "resetReady"} /\ active[Key(c)] = None
  BY Zenon, DoneMeansFree DEF ResetWaited, ResetEntersRuntime, ResetTurnIsDone, ControlSees
<1>3. UNCHANGED <<req, active, controls, completed, completedOrder, done, released,
                  cancelled, waiting, result, accepted, executed, evicted>>
  BY Zenon DEF ResetWaited, ResetEntersRuntime, engineVars, history
<1>4. \A d \in Calls : Key(d)' = Key(d) /\ Turn(d)' = Turn(d)
  BY SMTT(30), <1>3 DEF Key, Turn
<1>5. TypeOK'
  BY SMTT(30), <1>1, <1>3 DEF TypeOK, Where, InControl
<1>6. OneActiveTurn' /\ ControlHasOwner'
  <2>1. \A d \in Calls : pc'[d] \in InTurn <=> pc[d] \in InTurn
    BY Zenon, <1>1, <1>2 DEF InTurn, TypeOK
  <2>2. \A d \in Calls : pc'[d] \in InControl <=> pc[d] \in InControl
    BY Zenon, <1>1, <1>2 DEF InControl, TypeOK
  <2> QED
    BY ZenonT(30), <2>1, <2>2, <1>3, <1>4 DEF OneActiveTurn, ControlHasOwner
<1>7. SlotsKeyed'
  BY <1>3, <1>4, NoneIsNoCall DEF SlotsKeyed, TypeOK
<1>8. DoneReturned'
  BY SMTT(30), <1>1, <1>2, <1>3 DEF DoneReturned, TypeOK
<1>9. ControlSees'
  BY SMTT(30), <1>1, <1>2, <1>3, <1>4 DEF ControlSees, ActiveSameID, TypeOK, Key, Turn
<1>10. TurnIsNew'
  BY Zenon, <1>1, <1>3, <1>4 DEF TurnIsNew, InTurn, TypeOK
<1>11. AcceptedEntered' /\ ExecutionsCounted'
  BY ZenonT(30), <1>1, <1>2, <1>3, CountsUntouched DEF Where, InControl
<1> QED
  BY Zenon, <1>5, <1>6, <1>7, <1>8, <1>9, <1>10, <1>11

-----------------------------------------------------------------------------

LEMMA NextIInv == IInv /\ [Next]_vars => IInv'
<1> SUFFICES ASSUME IInv, [Next]_vars PROVE IInv'
  BY Zenon
<1>1. CASE UNCHANGED vars
  BY ZenonT(30), <1>1 DEF vars, engineVars, history, IInv, Exclusive, TypeOK, OneActiveTurn,
     ControlHasOwner, SlotsKeyed, DoneReturned, ControlSees, ActiveSameID, TurnIsNew,
     AcceptedEntered, ExecutionsCounted, Executing, Kept, Key, Turn, Media
<1>2. ASSUME NEW c \in Calls, Step(c) PROVE IInv'
  <2>1. TypeOK
    BY Zenon DEF IInv, Exclusive
  <2>2. CASE \/ PreflightTurn(c) \/ ResolveInputFiles(c) \/ RefuseRequest(c)
             \/ AwaitActiveTurn(c) \/ AdmitKnown(c) \/ AdmitReject(c)
             \/ AdmitWait(c) \/ AdmitAgain(c) \/ WaitExpires(c)
             \/ Cancel(c) \/ CancelDone(c)
    BY Zenon, <2>1, <2>2, QuietSteps, QuietPreserves
  <2>3. CASE PrepareFails(c) \/ RuntimeReturns(c) \/ GenerateMedia(c)
    BY Zenon, <2>3, PrepareFailsStep, RuntimeReturnsStep, GenerateMediaStep
  <2>4. CASE EnterRuntime(c) \/ ContextEnds(c) \/ RuntimeAccepts(c)
    BY Zenon, <2>4, InsideTurnStep, RuntimeAcceptsStep
  <2>5. CASE AdmitFree(c) \/ AdmitSupersede(c) \/ PromoteControl(c) \/ SupersedeExpires(c)
    BY Zenon, <2>5, AdmitFreeStep, AdmitSupersedeStep, PromoteControlStep, ControlEnded
  <2>6. CASE \/ ResetBegins(c) \/ ResetWaited(c) \/ ResetEntersRuntime(c)
             \/ ResetReturns(c)
    BY Zenon, <2>6, ResetBeginsStep, ResetMoves, ControlEnded
  <2> QED
    BY Zenon, <1>2, <2>2, <2>3, <2>4, <2>5, <2>6 DEF Step
<1> QED
  BY Zenon, <1>1, <1>2 DEF Next

(* The inductive invariant of the conversation engine. *)
THEOREM EngineInvariant == Spec => []IInv
BY InitIInv, NextIInv, PTL DEF Spec

(* At most one turn of a conversation is between admission and completion, *)
(* for any number of concurrent Run, Cancel and Reset calls.               *)
THEOREM OneTurnAtATime == Spec => []OneActiveTurn
<1>1. IInv => OneActiveTurn
  BY Zenon DEF IInv, Exclusive
<1> QED
  BY <1>1, EngineInvariant, PTL

(* A supersede or Reset never leaves its control behind. *)
THEOREM ControlsAreOwned == Spec => []ControlHasOwner
<1>1. IInv => ControlHasOwner
  BY SMTT(30) DEF IInv, Exclusive
<1> QED
  BY <1>1, EngineInvariant, PTL

(* Reset works on the native conversation while no turn of it runs. *)
THEOREM ResetIsExclusive == Spec => []ResetExcludesTurns
<1>1. IInv => ResetExcludesTurns
  BY SMTT(30), NoneIsNoCall DEF IInv, Exclusive, ResetExcludesTurns, ControlSees, OneActiveTurn
<1> QED
  BY <1>1, EngineInvariant, PTL

(* A turn is executed again only after it was evicted from the cache. *)
THEOREM ExecutedOnce == Spec => []NeverExecutedTwice
<1>1. IInv => NeverExecutedTwice
  <2> SUFFICES ASSUME IInv, NEW t \in Turns
               PROVE  executed[t] <= 1 + evicted[t]
    BY Zenon DEF NeverExecutedTwice
  <2>1. executed[t] \in Nat /\ evicted[t] \in Nat
    BY Zenon DEF IInv, Exclusive, TypeOK
  <2>2. Executing(t) => completed[t] = None
    BY Zenon DEF Executing, IInv, TurnIsNew, InTurn
  <2> QED
    BY SMTT(30), <2>1, <2>2 DEF IInv, ExecutionsCounted, Kept
<1> QED
  BY <1>1, EngineInvariant, PTL

-----------------------------------------------------------------------------
(***************************************************************************)
(* Answers.  A call that has not returned, or that ran its turn, holds its *)
(* own result; a call that joined a running turn waits for one with its    *)
(* turn ID and body; and what the cache holds for a turn is a call that    *)
(* ran it to the end.                                                      *)
(***************************************************************************)
OwnResults == \A c \in Calls : pc[c] # "returned" \/ c \in done => result[c].run = c

Joined ==
  \A c \in Calls : pc[c] = "await" =>
    /\ waiting[c] \in Calls
    /\ Turn(waiting[c]) = Turn(c) /\ req[waiting[c]].body = req[c].body

Cached ==
  \A t \in Turns : completed[t] # None => Turn(completed[t]) = t /\ completed[t] \in done

Answers == OwnResults /\ Joined /\ Cached /\ AnsweredWithOwnTurn

(* c returns what d holds. *)
Repeats(c, d) ==
  result'[c].run = result[d].run /\ result'[c].dispatched = result[d].dispatched

(* What a step of c does to the results, the cache and the waiting calls. *)
Keeps(c) ==
  /\ pc[c] # "returned" /\ req' = req
  /\ \A x \in Calls \ {c} : pc'[x] = pc[x] /\ result'[x] = result[x] /\ waiting'[x] = waiting[x]

Caches(c) ==
  /\ done' = done \/ (done' = done \union {c} /\ pc'[c] = "returned" /\ result'[c].run = c)
  /\ \A t \in Turns : \/ completed'[t] = None \/ completed'[t] = completed[t]
                      \/ t = Turn(c) /\ completed'[t] = c /\ c \in done'

Resumes(c) ==
  /\ pc'[c] # "returned" => result'[c] = result[c]
  /\ pc'[c] = "await" => /\ ActiveSameID(c) /\ waiting'[c] = active[Key(c)]
                         /\ SameTurnRequest(c, active[Key(c)])
  /\ pc'[c] = "returned" =>
       \/ result'[c].run = c
       \/ /\ Completed(c) /\ SameTurnRequest(c, completed[Turn(c)])
          /\ Repeats(c, completed[Turn(c)])
       \/ pc[c] = "await" /\ waiting[c] \in done /\ Repeats(c, waiting[c])

AnswerEffect(c) == Keeps(c) /\ Caches(c) /\ Resumes(c)

LEMMA ReplayRepeats ==
  ASSUME TypeOK, NEW c \in Calls, NEW d \in Calls, ReplayEvents(c, d)
  PROVE  /\ pc'[c] = "returned" /\ Repeats(c, d)
         /\ \A x \in Calls \ {c} : pc'[x] = pc[x] /\ result'[x] = result[x]
<1>1. result[d] \in Results /\ DOMAIN result = Calls /\ DOMAIN pc = Calls
  BY Zenon DEF TypeOK
<1>2. /\ [result[d] EXCEPT !.status = "failed"].run = result[d].run
      /\ [result[d] EXCEPT !.status = "failed"].dispatched = result[d].dispatched
  BY <1>1 DEF Results
<1> QED
  BY Zenon, <1>1, <1>2 DEF ReplayEvents, Returns, Goto, Repeats

LEMMA EndsOwn ==
  ASSUME TypeOK, NEW c \in Calls, NEW s, Ends(c, s)
  PROVE  /\ pc'[c] = "returned" /\ result'[c].run = c
         /\ \A x \in Calls \ {c} : pc'[x] = pc[x] /\ result'[x] = result[x]
<1>1. DOMAIN result = Calls /\ DOMAIN pc = Calls
  BY Zenon DEF TypeOK
<1> QED
  BY SMTT(30), <1>1 DEF Ends, Returns, Goto

LEMMA Goes ==
  ASSUME TypeOK, NEW c \in Calls, NEW there
  PROVE  /\ Goto(c, there) => pc'[c] = there /\ \A x \in Calls \ {c} : pc'[x] = pc[x]
         /\ \A d : WaitsFor(c, there, d) =>
              /\ pc'[c] = there /\ waiting'[c] = d
              /\ \A x \in Calls \ {c} : pc'[x] = pc[x] /\ waiting'[x] = waiting[x]
<1>1. DOMAIN waiting = Calls /\ DOMAIN pc = Calls
  BY Zenon DEF TypeOK
<1> QED
  BY Zenon, <1>1 DEF WaitsFor, Goto

LEMMA KnownTurnAnswers ==
  ASSUME TypeOK, NEW c \in Calls, KnownTurn(c), UseKnownTurn(c), pc[c] # "returned",
         UNCHANGED <<req, engineVars>>
  PROVE  AnswerEffect(c)
<1> DEFINE d == IF Completed(c) THEN completed[Turn(c)] ELSE active[Key(c)]
<1>1. d \in Calls
  BY Zenon, RequestTyped DEF KnownTurn, Completed, ActiveSameID, TypeOK
<1>2. done' = done /\ completed' = completed
  BY Zenon DEF engineVars
<1>3. CASE ~SameTurnRequest(c, d)
  <2>1. Ends(c, "invalid") /\ UNCHANGED waiting
    BY Zenon, <1>3 DEF UseKnownTurn
  <2> QED
    BY Zenon, <1>2, <2>1, EndsOwn DEF AnswerEffect, Keeps, Caches, Resumes
<1>4. CASE SameTurnRequest(c, d) /\ Completed(c)
  <2>1. ReplayEvents(c, d) /\ UNCHANGED waiting
    BY Zenon, <1>4 DEF UseKnownTurn
  <2>2. d = completed[Turn(c)]
    BY Zenon, <1>4
  <2> HIDE DEF d
  <2> QED
    BY Zenon, <1>1, <1>2, <1>4, <2>1, <2>2, ReplayRepeats DEF AnswerEffect, Keeps, Caches, Resumes
<1>5. CASE SameTurnRequest(c, d) /\ ~Completed(c)
  <2>1. WaitsFor(c, "await", d) /\ UNCHANGED result
    BY SMTT(30), <1>5 DEF UseKnownTurn
  <2>2. d = active[Key(c)] /\ ActiveSameID(c)
    BY Zenon, <1>5 DEF KnownTurn
  <2>3. SameTurnRequest(c, active[Key(c)])
    BY Zenon, <1>5, <2>2
  <2> HIDE DEF d
  <2>4. /\ pc'[c] = "await" /\ waiting'[c] = d
        /\ \A x \in Calls \ {c} : pc'[x] = pc[x] /\ waiting'[x] = waiting[x]
    BY Zenon, <2>1, Goes
  <2>5. waiting'[c] = active[Key(c)]
    BY Zenon, <2>2, <2>4
  <2> QED
    BY Zenon, <1>2, <2>1, <2>2, <2>3, <2>4, <2>5 DEF AnswerEffect, Keeps, Caches, Resumes
<1> QED
  BY Zenon, <1>3, <1>4, <1>5

(* A call moves on without an answer. *)
LEMMA MoveAnswers ==
  ASSUME TypeOK, NEW c \in Calls, NEW there \in Where \ {"await", "returned"}, NEW d,
         pc[c] # "returned", UNCHANGED <<req, completed, done, result>>,
         \/ Goto(c, there) /\ UNCHANGED waiting
         \/ WaitsFor(c, there, d)
  PROVE  AnswerEffect(c)
<1>1. there # "await" /\ there # "returned"
  BY Zenon
<1>2. /\ pc'[c] = there
      /\ \A x \in Calls \ {c} : pc'[x] = pc[x] /\ waiting'[x] = waiting[x]
  BY Zenon, Goes
<1> QED
  BY Zenon, <1>1, <1>2 DEF AnswerEffect, Keeps, Caches, Resumes

(* A call ends with an error, or as a Cancel or Reset, without a turn. *)
LEMMA EndAnswers ==
  ASSUME TypeOK, NEW c \in Calls, NEW s, Ends(c, s), pc[c] # "returned",
         UNCHANGED <<req, completed, done, waiting>>
  PROVE  AnswerEffect(c)
BY Zenon, EndsOwn DEF AnswerEffect, Keeps, Caches, Resumes

(* A call completes its turn. *)
LEMMA CompleteAnswers ==
  ASSUME TypeOK, NEW c \in Calls, NEW s, NEW dispatched, Complete(c, s, dispatched),
         pc[c] # "returned"
  PROVE  AnswerEffect(c)
<1>1. /\ pc'[c] = "returned" /\ result'[c].run = c
      /\ \A x \in Calls \ {c} : pc'[x] = pc[x] /\ result'[x] = result[x]
  <2>1. DOMAIN result = Calls /\ DOMAIN pc = Calls
    BY Zenon DEF TypeOK
  <2> QED
    BY SMTT(30), <2>1 DEF Complete, Returns, Goto
<1>2. done' = done \union {c} /\ req' = req /\ waiting' = waiting
  BY Zenon DEF Complete, ClosedDone
<1>3. \A t \in Turns : \/ completed'[t] = None \/ completed'[t] = completed[t]
                       \/ t = Turn(c) /\ completed'[t] = c
  <2>1. DOMAIN completed = Turns
    BY Zenon DEF TypeOK
  <2>2. CASE CacheDispatched(c)
    BY ZenonT(30), <2>1, <2>2, CacheShape
  <2>3. CASE completed' = completed
    BY Zenon, <2>3
  <2> QED
    BY Zenon, <2>2, <2>3 DEF Complete
<1> QED
  BY Zenon, <1>1, <1>2, <1>3 DEF AnswerEffect, Keeps, Caches, Resumes

LEMMA AdmissionAnswers ==
  ASSUME TypeOK, NEW c \in Calls,
         \/ PreflightTurn(c) \/ ResolveInputFiles(c) \/ RefuseRequest(c)
         \/ AwaitActiveTurn(c)
         \/ AdmitKnown(c) \/ AdmitFree(c) \/ AdmitReject(c) \/ AdmitWait(c)
         \/ AdmitSupersede(c) \/ AdmitAgain(c) \/ WaitExpires(c)
         \/ SupersedeExpires(c) \/ PromoteControl(c)
  PROVE  AnswerEffect(c)
<1> USE DEF engineVars, Where, InTurn, InControl
<1>1. CASE PreflightTurn(c)
  <2>1. CASE KnownTurn(c)
    BY Zenon, <1>1, <2>1, KnownTurnAnswers DEF PreflightTurn
  <2>2. CASE ~KnownTurn(c)
    BY Zenon, <1>1, <2>2, MoveAnswers DEF PreflightTurn
  <2> QED
    BY Zenon, <2>1, <2>2
<1>2. CASE ResolveInputFiles(c)
  BY Zenon, <1>2, MoveAnswers DEF ResolveInputFiles
<1>3. CASE RefuseRequest(c)
  BY Zenon, <1>3, EndAnswers DEF RefuseRequest
<1>4. CASE AwaitActiveTurn(c)
  <2>1. waiting[c] \in Calls
    BY Zenon, <1>4 DEF AwaitActiveTurn, TypeOK
  <2> QED
    BY Zenon, <1>4, <2>1, ReplayRepeats DEF AwaitActiveTurn, AnswerEffect, Keeps, Caches, Resumes
<1>5. CASE AdmitKnown(c)
  BY Zenon, <1>5, KnownTurnAnswers DEF AdmitKnown
<1>6. CASE AdmitFree(c)
  BY Zenon, <1>6, MoveAnswers DEF AdmitFree
<1>7. CASE AdmitReject(c)
  BY Zenon, <1>7, EndAnswers DEF AdmitReject
<1>8. CASE AdmitWait(c)
  BY Zenon, <1>8, MoveAnswers DEF AdmitWait
<1>9. CASE AdmitSupersede(c)
  BY Zenon, <1>9, MoveAnswers DEF AdmitSupersede
<1>10. CASE AdmitAgain(c)
  BY Zenon, <1>10, MoveAnswers DEF AdmitAgain, WaitOver
<1>11. CASE WaitExpires(c)
  BY Zenon, <1>11, EndAnswers DEF WaitExpires
<1>12. CASE SupersedeExpires(c)
  BY Zenon, <1>12, EndAnswers DEF SupersedeExpires
<1>13. CASE PromoteControl(c)
  BY Zenon, <1>13, EndAnswers, MoveAnswers DEF PromoteControl
<1> QED
  BY Zenon, <1>1, <1>2, <1>3, <1>4, <1>5, <1>6, <1>7, <1>8, <1>9, <1>10, <1>11, <1>12, <1>13

LEMMA TurnAnswers ==
  ASSUME TypeOK, NEW c \in Calls,
         \/ PrepareFails(c) \/ EnterRuntime(c) \/ RuntimeAccepts(c)
         \/ RuntimeReturns(c) \/ GenerateMedia(c) \/ ContextEnds(c)
         \/ Cancel(c) \/ CancelDone(c)
         \/ ResetBegins(c) \/ ResetWaited(c) \/ ResetEntersRuntime(c)
         \/ ResetReturns(c)
  PROVE  AnswerEffect(c)
<1> USE DEF engineVars, Where, InTurn, InControl
<1>1. CASE PrepareFails(c)
  BY Zenon, <1>1, CompleteAnswers DEF PrepareFails
<1>2. CASE EnterRuntime(c)
  BY Zenon, <1>2, MoveAnswers DEF EnterRuntime
<1>3. CASE RuntimeAccepts(c) \/ ContextEnds(c)
  <2>1. pc[c] \in InTurn /\ UNCHANGED <<req, pc, engineVars, waiting, result>>
    BY Zenon, <1>3 DEF RuntimeAccepts, ContextEnds
  <2> QED
    BY Zenon, <2>1 DEF AnswerEffect, Keeps, Caches, Resumes
<1>4. CASE RuntimeReturns(c)
  BY Zenon, <1>4, CompleteAnswers DEF RuntimeReturns
<1>5. CASE GenerateMedia(c)
  BY Zenon, <1>5, CompleteAnswers DEF GenerateMedia
<1>6. CASE Cancel(c)
  BY Zenon, <1>6, EndAnswers, MoveAnswers DEF Cancel
<1>7. CASE CancelDone(c)
  BY Zenon, <1>7, EndAnswers DEF CancelDone
<1>8. CASE ResetBegins(c)
  BY Zenon, <1>8, EndAnswers, MoveAnswers DEF ResetBegins
<1>9. CASE ResetWaited(c)
  BY Zenon, <1>9, MoveAnswers DEF ResetWaited
<1>10. CASE ResetEntersRuntime(c)
  BY Zenon, <1>10, MoveAnswers DEF ResetEntersRuntime
<1>11. CASE ResetReturns(c)
  BY Zenon, <1>11, EndAnswers DEF ResetReturns
<1> QED
  BY Zenon, <1>1, <1>2, <1>3, <1>4, <1>5, <1>6, <1>7, <1>8, <1>9, <1>10, <1>11

(* Whoever holds the result of a finished turn keeps it, so every answer   *)
(* stays the answer of its own turn.                                       *)
LEMMA AnswersHold ==
  ASSUME TypeOK, DoneReturned, Answers, NEW c \in Calls, AnswerEffect(c)
  PROVE  Answers'
<1>1. /\ done \subseteq Calls /\ c \notin done
      /\ \A d \in done : result'[d] = result[d] /\ d \in done' /\ result[d].run = d
  BY Zenon DEF TypeOK, DoneReturned, AnswerEffect, Keeps, Caches, Answers, OwnResults
<1>2. req' = req
  BY Zenon DEF AnswerEffect, Keeps
<1>3. OwnResults'
  <2> SUFFICES ASSUME NEW x \in Calls, pc'[x] # "returned" \/ x \in done'
               PROVE  result'[x].run = x
    BY Zenon DEF OwnResults
  <2>1. CASE x # c
    <3>1. pc'[x] = pc[x] /\ result'[x] = result[x] /\ (x \in done' => x \in done)
      BY Zenon, <2>1 DEF AnswerEffect, Keeps, Caches
    <3> QED
      BY Zenon, <3>1 DEF Answers, OwnResults
  <2>2. CASE x = c /\ pc'[c] # "returned"
    BY Zenon, <2>2 DEF AnswerEffect, Keeps, Resumes, Answers, OwnResults
  <2>3. CASE x = c /\ c \in done'
    BY Zenon, <1>1, <2>3 DEF AnswerEffect, Caches
  <2> QED
    BY Zenon, <2>1, <2>2, <2>3
<1>4. Joined'
  <2> SUFFICES ASSUME NEW x \in Calls, pc'[x] = "await"
               PROVE  /\ waiting'[x] \in Calls
                      /\ Turn(waiting[x])' = Turn(x)' /\ req'[waiting'[x]].body = req'[x].body
    BY Zenon DEF Joined, Turn
  <2>1. /\ waiting'[x] \in Calls
        /\ Turn(waiting'[x]) = Turn(x) /\ req[waiting'[x]].body = req[x].body
    <3>1. CASE x = c
      <4>1. active[Key(c)] \in Calls
        BY Zenon, <3>1, RequestTyped DEF AnswerEffect, Resumes, ActiveSameID, TypeOK
      <4> QED
        BY Zenon, <3>1, <4>1 DEF AnswerEffect, Resumes, ActiveSameID, SameTurnRequest
    <3>2. CASE x # c
      BY Zenon, <3>2 DEF AnswerEffect, Keeps, Answers, Joined
    <3> QED
      BY Zenon, <3>1, <3>2
  <2> QED
    BY Zenon, <1>2, <2>1 DEF Turn
<1>5. Cached'
  <2> SUFFICES ASSUME NEW t \in Turns, completed'[t] # None
               PROVE  Turn(completed[t])' = t /\ completed'[t] \in done'
    BY Zenon DEF Cached, Turn, Turns
  <2>1. Turn(completed'[t]) = t /\ completed'[t] \in done' /\ completed'[t] \in Calls
    BY Zenon, <1>1 DEF AnswerEffect, Caches, Answers, Cached
  <2> QED
    BY Zenon, <1>2, <2>1 DEF Turn
<1>6. AnsweredWithOwnTurn'
  <2> SUFFICES ASSUME NEW x \in Calls, result'[x].run # x
               PROVE  /\ Turn(result[x].run)' = Turn(x)'
                      /\ req'[result'[x].run].body = req'[x].body
                      /\ result'[x].run \in done'
                      /\ result'[x].dispatched = result'[result'[x].run].dispatched
    BY Zenon DEF AnsweredWithOwnTurn, Turn
  <2>1. \E d \in done : /\ result'[x].run = d /\ Turn(d) = Turn(x) /\ req[d].body = req[x].body
                        /\ result'[x].dispatched = result[d].dispatched
    <3>1. CASE x # c
      <4>1. result'[x] = result[x]
        BY Zenon, <3>1 DEF AnswerEffect, Keeps
      <4> QED
        BY Zenon, <4>1 DEF Answers, AnsweredWithOwnTurn
    <3>2. CASE x = c
      <4>1. pc'[c] = "returned"
        BY Zenon, <3>2 DEF AnswerEffect, Keeps, Resumes, Answers, OwnResults
      <4>2. CASE /\ Completed(c) /\ SameTurnRequest(c, completed[Turn(c)])
                 /\ Repeats(c, completed[Turn(c)])
        <5>1. Turn(completed[Turn(c)]) = Turn(c) /\ completed[Turn(c)] \in done
          BY Zenon, <4>2, RequestTyped DEF Completed, Answers, Cached, TypeOK
        <5> QED
          BY Zenon, <1>1, <3>2, <4>2, <5>1 DEF Repeats, SameTurnRequest
      <4>3. CASE pc[c] = "await" /\ waiting[c] \in done /\ Repeats(c, waiting[c])
        <5>1. Turn(waiting[c]) = Turn(c) /\ req[waiting[c]].body = req[c].body
          BY Zenon, <4>3 DEF Answers, Joined
        <5> QED
          BY Zenon, <1>1, <3>2, <4>3, <5>1 DEF Repeats
      <4> QED
        BY Zenon, <3>2, <4>1, <4>2, <4>3 DEF AnswerEffect, Resumes
    <3> QED
      BY Zenon, <3>1, <3>2
  <2>2. PICK d \in done : /\ result'[x].run = d /\ Turn(d) = Turn(x) /\ req[d].body = req[x].body
                          /\ result'[x].dispatched = result[d].dispatched
    BY Zenon, <2>1
  <2> QED
    BY Zenon, <1>1, <1>2, <2>2 DEF Turn
<1> QED
  BY Zenon, <1>3, <1>4, <1>5, <1>6 DEF Answers

(* A call that is answered with the result of another call asked for the   *)
(* same turn with the same body, the turn was over by then, and the answer *)
(* says truthfully whether the prompt was dispatched (awaitActiveTurn and  *)
(* replayEvents), however calls, cancels, resets and evictions interleave. *)
THEOREM AnsweredTruthfully == Spec => []AnsweredWithOwnTurn
<1>1. Init => Answers
  <2> SUFFICES ASSUME Init PROVE Answers
    OBVIOUS
  <2>1. /\ \A c \in Calls : pc[c] = "idle" /\ result[c].run = c
        /\ \A t \in Turns : completed[t] = None
    BY SMTT(30) DEF Init
  <2> QED
    BY Zenon, <2>1 DEF Answers, OwnResults, Joined, Cached, AnsweredWithOwnTurn
<1>2. IInv /\ Answers /\ [Next]_vars => Answers'
  <2> SUFFICES ASSUME IInv, Answers, [Next]_vars PROVE Answers'
    OBVIOUS
  <2>1. CASE UNCHANGED vars
    BY Zenon, <2>1 DEF vars, engineVars, Answers, OwnResults, Joined, Cached, AnsweredWithOwnTurn,
                       Turn, Turns
  <2>2. CASE Next
    <3>1. PICK c \in Calls : Step(c)
      BY Zenon, <2>2 DEF Next
    <3>2. TypeOK /\ DoneReturned
      BY Zenon DEF IInv, Exclusive
    <3>3. AnswerEffect(c)
      BY Zenon, <3>1, <3>2, AdmissionAnswers, TurnAnswers DEF Step
    <3> QED
      BY Zenon, <3>2, <3>3, AnswersHold
  <2> QED
    BY Zenon, <2>1, <2>2
<1>3. Answers => AnsweredWithOwnTurn
  BY Zenon DEF Answers
<1> QED
  BY <1>1, <1>2, <1>3, EngineInvariant, PTL DEF Spec

=============================================================================
