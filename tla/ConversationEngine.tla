-------------------------- MODULE ConversationEngine --------------------------
(***************************************************************************)
(* Turn admission, control and replay of one Agent's conversations:        *)
(* src/internal/agentengine/engine.go.                                     *)
(*                                                                         *)
(* A call is one goroutine inside Run, Cancel or Reset; its request is     *)
(* fixed.  The activeTurn a Run installs and the conversationControl a     *)
(* superseding Run or a Reset installs are named by the call that made     *)
(* them, so e.active[k] and e.controls[k] are a call or None, and the done *)
(* channel of either is closed when the call is in "done" or "released".   *)
(* Every step below is one critical section of e.mu, or code that touches  *)
(* no shared state of the engine.                                          *)
(*                                                                         *)
(* A request body stands for everything sameTurnRequest compares; bodies   *)
(* in MediaBodies ask for an image or a video, which the engine generates  *)
(* itself.  The replay cache holds MaxCompleted turns (1024 in the code).  *)
(***************************************************************************)
EXTENDS Naturals, Sequences, FiniteSets

CONSTANTS Calls, Keys, TurnIDs, Bodies, MediaBodies, Workloads, MaxCompleted,
          None

Modes == {"reject", "wait", "supersede"}

ASSUME NoneIsNoCall == None \notin Calls
ASSUME WorkloadsTyped ==
         Workloads \subseteq
           [Calls -> [op : {"run", "cancel", "reset"}, key : Keys,
                      id : TurnIDs, body : Bodies, mode : Modes]]
ASSUME CacheHoldsTurns == MaxCompleted \in Nat \ {0}

VARIABLES req,            \* the request of every call
          pc,             \* where a call is
          active,         \* e.active: the turn of a conversation, or None
          controls,       \* e.controls: its supersede or Reset, or None
          completed,      \* e.completed: the call that ran a turn, or None
          completedOrder, \* e.completedOrder
          done,           \* calls whose turn.done is closed
          released,       \* calls whose control.done is closed
          cancelled,      \* calls whose turn context is cancelled
          waiting,        \* the call whose channel a call waits for
          result,         \* what a call returned
          accepted,       \* calls whose prompt the runtime accepted
          executed,       \* history: executions of a turn
          evicted         \* history: evictions of a turn

engineVars == <<active, controls, completed, completedOrder, done, released>>
history == <<accepted, executed, evicted>>
vars == <<req, pc, engineVars, cancelled, waiting, result, history>>

Turns == Keys \X TurnIDs
Key(c) == req[c].key
Turn(c) == <<req[c].key, req[c].id>>
Media(c) == req[c].body \in MediaBodies

(***************************************************************************)
(* "resolve": input files;  "admit": top of admit's loop;  "waitTurn" and  *)
(* "waitControl": its selects;  "superseding": owns the control, waits for *)
(* the old turn;  "await": joined a running turn with the same ID;         *)
(* "admitted": turn installed, runtime not entered;  "running": in the     *)
(* runtime or the media generator;  "resetWait", "resetReady",             *)
(* "resetting": Reset before, after its wait, and in the runtime's Reset;  *)
(* "cancelWait": Cancel waiting for the turn it cancelled.                 *)
(***************************************************************************)
InTurn == {"admitted", "running"}
InControl == {"superseding", "resetWait", "resetReady", "resetting"}
Where == InTurn \union InControl
           \union {"idle", "resolve", "admit", "waitTurn", "waitControl",
                   "await", "cancelWait", "returned"}

Results == [status : {"none", "succeeded", "failed", "canceled", "busy",
                      "invalid"},
            dispatched : BOOLEAN, run : Calls]

Init ==
  /\ req \in Workloads
  /\ pc = [c \in Calls |-> "idle"]
  /\ active = [k \in Keys |-> None]
  /\ controls = [k \in Keys |-> None]
  /\ completed = [t \in Turns |-> None]
  /\ completedOrder = <<>>
  /\ done = {}
  /\ released = {}
  /\ cancelled = {}
  /\ waiting = [c \in Calls |-> None]
  /\ result = [c \in Calls |-> [status |-> "none", dispatched |-> FALSE,
                                run |-> c]]
  /\ accepted = {}
  /\ executed = [t \in Turns |-> 0]
  /\ evicted = [t \in Turns |-> 0]

-----------------------------------------------------------------------------
(* Returning, waiting, cancelling. *)

Goto(c, there) == pc' = [pc EXCEPT ![c] = there]

Returns(c, r) ==
  /\ Goto(c, "returned")
  /\ result' = [result EXCEPT ![c] = r]

Ends(c, status) ==
  Returns(c, [status |-> status, dispatched |-> FALSE, run |-> c])

WaitsFor(c, there, d) ==
  /\ Goto(c, there)
  /\ waiting' = [waiting EXCEPT ![c] = d]

LetsItRun(k) == UNCHANGED cancelled

(* Cancelling the context of a conversation's active turn, if any. *)
CancelActive(k) ==
  cancelled' = IF active[k] = None THEN cancelled
                                   ELSE cancelled \union {active[k]}

(* endControl: deletes and closes the control it owns. *)
EndControlForgotten(c) == UNCHANGED <<controls, released>>

EndControl(c) ==
  IF controls[Key(c)] = c
    THEN /\ controls' = [controls EXCEPT ![Key(c)] = None]
         /\ released' = released \union {c}
    ELSE UNCHANGED <<controls, released>>

-----------------------------------------------------------------------------
(* Looking a turn up in the replay cache and among the active turns. *)

AnyRequestMatches(c, d) == TRUE

SameTurnRequest(c, d) == req[c].body = req[d].body

ActiveSameID(c) ==
  active[Key(c)] # None /\ Turn(active[Key(c)]) = Turn(c)

Completed(c) == completed[Turn(c)] # None

KnownTurn(c) == Completed(c) \/ ActiveSameID(c)

(* replayEvents: the caller gets the recorded result; when the sink fails   *)
(* the result is a failure that keeps the Dispatched flag.                  *)
ReplayEvents(c, d) ==
  \E delivered \in BOOLEAN :
    Returns(c, IF delivered THEN result[d]
                            ELSE [result[d] EXCEPT !.status = "failed"])

UseKnownTurn(c) ==
  LET d == IF Completed(c) THEN completed[Turn(c)] ELSE active[Key(c)]
  IN CASE ~SameTurnRequest(c, d) -> Ends(c, "invalid") /\ UNCHANGED waiting
       [] SameTurnRequest(c, d) /\ Completed(c) ->
            ReplayEvents(c, d) /\ UNCHANGED waiting
       [] OTHER -> WaitsFor(c, "await", d) /\ UNCHANGED result

-----------------------------------------------------------------------------
(* Run, up to admission. *)

PreflightTurn(c) ==
  /\ pc[c] = "idle" /\ req[c].op = "run"
  /\ IF KnownTurn(c) THEN UseKnownTurn(c)
                     ELSE Goto(c, "resolve") /\ UNCHANGED <<waiting, result>>
  /\ UNCHANGED <<req, engineVars, cancelled, history>>

ResolveInputFiles(c) ==
  /\ pc[c] = "resolve"
  /\ Goto(c, "admit")
  /\ UNCHANGED <<req, engineVars, cancelled, waiting, result, history>>

(* An invalid request, an archived Agent or a missing input file. *)
RefuseRequest(c) ==
  /\ pc[c] \in {"idle", "resolve"} /\ req[c].op = "run"
  /\ Ends(c, "failed")
  /\ UNCHANGED <<req, engineVars, cancelled, waiting, history>>

(* awaitActiveTurn: the turn's own result, whatever it is. *)
AwaitActiveTurn(c) ==
  /\ pc[c] = "await" /\ waiting[c] \in done
  /\ ReplayEvents(c, waiting[c])
  /\ UNCHANGED <<req, engineVars, cancelled, waiting, history>>

-----------------------------------------------------------------------------
(* admit. *)

ActiveIgnored(c) == controls[Key(c)] = None

ConversationFree(c) == controls[Key(c)] = None /\ active[Key(c)] = None

AdmitKnown(c) ==
  /\ pc[c] = "admit"
  /\ KnownTurn(c)
  /\ UseKnownTurn(c)
  /\ UNCHANGED <<req, engineVars, cancelled, history>>

AdmitFree(c) ==
  /\ pc[c] = "admit"
  /\ ~KnownTurn(c)
  /\ ConversationFree(c)
  /\ active' = [active EXCEPT ![Key(c)] = c]
  /\ Goto(c, "admitted")
  /\ UNCHANGED <<req, controls, completed, completedOrder, done, released,
                 cancelled, waiting, result, history>>

AdmitReject(c) ==
  /\ pc[c] = "admit"
  /\ ~KnownTurn(c)
  /\ ~ConversationFree(c)
  /\ req[c].mode = "reject"
  /\ Ends(c, "busy")
  /\ UNCHANGED <<req, engineVars, cancelled, waiting, history>>

(* AdmissionWait waits for the control if there is one, else for the turn;  *)
(* AdmissionSupersede waits for a control it does not own.                  *)
AdmitWait(c) ==
  /\ pc[c] = "admit"
  /\ ~KnownTurn(c)
  /\ ~ConversationFree(c)
  /\ \/ /\ req[c].mode \in {"wait", "supersede"}
        /\ controls[Key(c)] # None
        /\ WaitsFor(c, "waitControl", controls[Key(c)])
     \/ /\ req[c].mode = "wait"
        /\ controls[Key(c)] = None
        /\ WaitsFor(c, "waitTurn", active[Key(c)])
  /\ UNCHANGED <<req, engineVars, cancelled, result, history>>

AdmitSupersede(c) ==
  /\ pc[c] = "admit"
  /\ ~KnownTurn(c)
  /\ ~ConversationFree(c)
  /\ req[c].mode = "supersede"
  /\ controls[Key(c)] = None
  /\ controls' = [controls EXCEPT ![Key(c)] = c]
  /\ CancelActive(Key(c))
  /\ WaitsFor(c, "superseding", active[Key(c)])
  /\ UNCHANGED <<req, active, completed, completedOrder, done, released,
                 result, history>>

WaitOver(c) ==
  \/ pc[c] = "waitTurn" /\ waiting[c] \in done
  \/ pc[c] = "waitControl" /\ waiting[c] \in released

AdmitAgain(c) ==
  /\ WaitOver(c)
  /\ Goto(c, "admit")
  /\ UNCHANGED <<req, engineVars, cancelled, waiting, result, history>>

(* waitForCompletion loses to the caller's context. *)
WaitExpires(c) ==
  /\ pc[c] \in {"waitTurn", "waitControl", "await", "cancelWait"}
  /\ Ends(c, "canceled")
  /\ UNCHANGED <<req, engineVars, cancelled, waiting, history>>

SupersedeExpires(c) ==
  /\ pc[c] = "superseding"
  /\ EndControl(c)
  /\ Ends(c, "canceled")
  /\ UNCHANGED <<req, active, completed, completedOrder, done, cancelled,
                 waiting, history>>

PromoteControl(c) ==
  /\ pc[c] = "superseding"
  /\ waiting[c] \in done
  /\ IF controls[Key(c)] # c \/ active[Key(c)] # None
       THEN /\ Ends(c, "busy")
            /\ UNCHANGED <<active, controls, released>>
       ELSE /\ active' = [active EXCEPT ![Key(c)] = c]
            /\ EndControl(c)
            /\ Goto(c, "admitted")
            /\ UNCHANGED result
  /\ UNCHANGED <<req, completed, completedOrder, done, cancelled, waiting,
                 history>>

-----------------------------------------------------------------------------
(* complete: the result is recorded, the conversation freed, a dispatched   *)
(* turn cached (evicting the oldest beyond the limit), and done closed.     *)

FreedConversation(c) ==
  IF active[Key(c)] = c THEN [active EXCEPT ![Key(c)] = None] ELSE active

EvictionDue(order) == Len(order) > MaxCompleted

CacheDispatched(c) ==
  LET order == Append(completedOrder, Turn(c))
      oldest == Head(order)
      cached == [completed EXCEPT ![Turn(c)] = c]
  IN IF EvictionDue(order)
       THEN /\ completedOrder' = Tail(order)
            /\ completed' = [cached EXCEPT ![oldest] = None]
            /\ evicted' = [evicted EXCEPT ![oldest] = @ + 1]
       ELSE /\ completedOrder' = order
            /\ completed' = cached
            /\ UNCHANGED evicted

ClosesOnlyDispatched(c, dispatched) ==
  IF dispatched THEN done \union {c} ELSE done

ClosedDone(c, dispatched) == done \union {c}

Complete(c, status, dispatched) ==
  /\ Returns(c, [status |-> status, dispatched |-> dispatched, run |-> c])
  /\ active' = FreedConversation(c)
  /\ IF dispatched THEN CacheDispatched(c)
                   ELSE UNCHANGED <<completed, completedOrder, evicted>>
  /\ done' = ClosedDone(c, dispatched)
  /\ cancelled' = cancelled \union {c}
  /\ UNCHANGED <<req, controls, released, waiting, accepted>>

-----------------------------------------------------------------------------
(* Run, after admission. *)

(* No lease, an archived Agent, BeginTurn's refusal or an unavailable       *)
(* runtime: the turn completes without having been dispatched.              *)
PrepareFails(c) ==
  /\ pc[c] = "admitted"
  /\ Complete(c, "failed", FALSE)
  /\ UNCHANGED executed

EnterRuntime(c) ==
  /\ pc[c] = "admitted"
  /\ Goto(c, "running")
  /\ UNCHANGED <<req, engineVars, cancelled, waiting, result, history>>

(* The adapter's callback: the native runtime has taken the prompt. *)
RuntimeAccepts(c) ==
  /\ pc[c] = "running" /\ ~Media(c) /\ c \notin accepted
  /\ accepted' = accepted \union {c}
  /\ executed' = [executed EXCEPT ![Turn(c)] = @ + 1]
  /\ UNCHANGED <<req, pc, engineVars, cancelled, waiting, result, evicted>>

ForgetsDispatch(c, status) == status = "succeeded" /\ c \in accepted

(* TurnResult.Dispatched of the Codex and DSH adapters: the prompt was      *)
(* accepted, whatever became of the turn.                                   *)
Dispatched(c, status) == c \in accepted

(* The adapter returns.  Failing to register an output file or to create a  *)
(* detached interaction turns a success into a dispatched failure.          *)
RuntimeReturns(c) ==
  /\ pc[c] = "running" /\ ~Media(c)
  /\ \E status \in {"succeeded", "failed", "canceled"} :
       /\ status = "succeeded" => c \in accepted
       /\ status = "canceled" => c \in cancelled
       /\ Complete(c, status, Dispatched(c, status))
  /\ UNCHANGED executed

(* generateImage and generateVideo: a success is cached, a failure is not   *)
(* and may be tried again.                                                  *)
GenerateMedia(c) ==
  /\ pc[c] = "running" /\ Media(c)
  /\ \E ok \in BOOLEAN :
       /\ Complete(c, IF ok THEN "succeeded" ELSE "failed", ok)
       /\ executed' = IF ok THEN [executed EXCEPT ![Turn(c)] = @ + 1]
                            ELSE executed

(* The turn's context derives from the first caller's; interruptAgent       *)
(* cancels it when the Agent is archived.                                   *)
ContextEnds(c) ==
  /\ pc[c] \in InTurn /\ c \notin cancelled
  /\ cancelled' = cancelled \union {c}
  /\ UNCHANGED <<req, pc, engineVars, waiting, result, history>>

-----------------------------------------------------------------------------
(* Cancel and Reset. *)

Cancel(c) ==
  /\ pc[c] = "idle" /\ req[c].op = "cancel"
  /\ IF ActiveSameID(c)
       THEN /\ CancelActive(Key(c))
            /\ WaitsFor(c, "cancelWait", active[Key(c)])
            /\ UNCHANGED result
       ELSE /\ Ends(c, "succeeded")
            /\ UNCHANGED <<cancelled, waiting>>
  /\ UNCHANGED <<req, engineVars, history>>

CancelDone(c) ==
  /\ pc[c] = "cancelWait" /\ waiting[c] \in done
  /\ Ends(c, "succeeded")
  /\ UNCHANGED <<req, engineVars, cancelled, waiting, history>>

ResetBegins(c) ==
  /\ pc[c] = "idle" /\ req[c].op = "reset"
  /\ IF controls[Key(c)] # None
       THEN /\ Ends(c, "busy")
            /\ UNCHANGED <<controls, cancelled, waiting>>
       ELSE /\ controls' = [controls EXCEPT ![Key(c)] = c]
            /\ CancelActive(Key(c))
            /\ WaitsFor(c, IF active[Key(c)] = None THEN "resetReady"
                                                    ELSE "resetWait",
                        active[Key(c)])
            /\ UNCHANGED result
  /\ UNCHANGED <<req, active, completed, completedOrder, done, released,
                 history>>

ResetAtOnce(c) == TRUE

ResetTurnIsDone(c) == waiting[c] \in done

ResetWaited(c) ==
  /\ pc[c] = "resetWait"
  /\ ResetTurnIsDone(c)
  /\ Goto(c, "resetReady")
  /\ UNCHANGED <<req, engineVars, cancelled, waiting, result, history>>

ResetEntersRuntime(c) ==
  /\ pc[c] = "resetReady"
  /\ Goto(c, "resetting")
  /\ UNCHANGED <<req, engineVars, cancelled, waiting, result, history>>

(* The context expired, the runtime is unavailable, or its Reset returned;  *)
(* endControl is deferred, so it runs on every path.                        *)
ResetReturns(c) ==
  /\ pc[c] \in {"resetWait", "resetReady", "resetting"}
  /\ EndControl(c)
  /\ Ends(c, IF pc[c] = "resetting" THEN "succeeded" ELSE "failed")
  /\ UNCHANGED <<req, active, completed, completedOrder, done, cancelled,
                 waiting, history>>

-----------------------------------------------------------------------------

Step(c) ==
  \/ PreflightTurn(c) \/ ResolveInputFiles(c) \/ RefuseRequest(c)
  \/ AwaitActiveTurn(c)
  \/ AdmitKnown(c) \/ AdmitFree(c) \/ AdmitReject(c) \/ AdmitWait(c)
  \/ AdmitSupersede(c) \/ AdmitAgain(c) \/ WaitExpires(c)
  \/ SupersedeExpires(c) \/ PromoteControl(c)
  \/ PrepareFails(c) \/ EnterRuntime(c) \/ RuntimeAccepts(c)
  \/ RuntimeReturns(c) \/ GenerateMedia(c) \/ ContextEnds(c)
  \/ Cancel(c) \/ CancelDone(c)
  \/ ResetBegins(c) \/ ResetWaited(c) \/ ResetEntersRuntime(c)
  \/ ResetReturns(c)

Next == \E c \in Calls : Step(c)

Spec == Init /\ [][Next]_vars

(***************************************************************************)
(* Goroutines are scheduled fairly; a caller is never forced to give up;   *)
(* the runtime returns once the turn's context is cancelled (the Codex     *)
(* adapter cancels and joins the prompt, the DSH adapter stops the process *)
(* after a timeout), but an uncancelled turn may run for ever; the         *)
(* runtime's Reset returns.                                                *)
(***************************************************************************)
Scheduled(c) ==
  \/ PreflightTurn(c) \/ ResolveInputFiles(c) \/ AwaitActiveTurn(c)
  \/ AdmitKnown(c) \/ AdmitFree(c) \/ AdmitReject(c) \/ AdmitWait(c)
  \/ AdmitSupersede(c) \/ AdmitAgain(c) \/ PromoteControl(c)
  \/ PrepareFails(c) \/ EnterRuntime(c) \/ GenerateMedia(c)
  \/ (c \in cancelled /\ RuntimeReturns(c))
  \/ Cancel(c) \/ CancelDone(c)
  \/ ResetBegins(c) \/ ResetWaited(c) \/ ResetEntersRuntime(c)
  \/ (pc[c] = "resetting" /\ ResetReturns(c))

FairSpec == Spec /\ \A c \in Calls : WF_vars(Scheduled(c))

-----------------------------------------------------------------------------
(* Types of the engine's maps and of the state of its calls. *)
TypeOK ==
  /\ req \in Workloads
  /\ pc \in [Calls -> Where]
  /\ active \in [Keys -> Calls \union {None}]
  /\ controls \in [Keys -> Calls \union {None}]
  /\ completed \in [Turns -> Calls \union {None}]
  /\ completedOrder \in Seq(Turns)
  /\ done \subseteq Calls /\ released \subseteq Calls
  /\ cancelled \subseteq Calls /\ accepted \subseteq Calls
  /\ waiting \in [Calls -> Calls \union {None}]
  /\ result \in [Calls -> Results]
  /\ executed \in [Turns -> Nat] /\ evicted \in [Turns -> Nat]

(* Run "admits one active Turn per Agent/key": whatever mixture of reject,  *)
(* wait and supersede admissions, cancels and resets, two calls are never   *)
(* between admission and completion in one conversation, and the turn in    *)
(* e.active is the one that is there.                                       *)
OneActiveTurn ==
  \A c \in Calls : pc[c] \in InTurn <=> active[Key(c)] = c

(* A control (supersede or Reset) stands exactly while the call that        *)
(* installed it needs it: no path of admit or Reset, errors and expired     *)
(* contexts included, leaves the conversation blocked behind it.            *)
ControlHasOwner ==
  \A c \in Calls : pc[c] \in InControl <=> controls[Key(c)] = c

(* "Reset excludes new admission for that conversation, cancels and waits   *)
(* for active execution, then resets its native mapping": while Reset is in *)
(* the runtime no turn of the conversation is, and none is admitted.        *)
ResetExcludesTurns ==
  \A c, d \in Calls :
    pc[c] \in {"resetReady", "resetting"} /\ Key(d) = Key(c)
      => pc[d] \notin InTurn

(* "A repeated Turn ID ... replays the same completed result rather than    *)
(* executing twice", as long as the turn was not evicted from the cache:    *)
(* every execution beyond the first is preceded by an eviction of its own.  *)
NeverExecutedTwice ==
  \A t \in Turns : executed[t] <= 1 + evicted[t]

(* "A repeated Turn ID must have the same request": a call that is answered *)
(* with the result of another call asked for the same turn with the same    *)
(* body; the turn was over when it was answered, and the caller learns      *)
(* truthfully whether the prompt was dispatched.                            *)
AnsweredWithOwnTurn ==
  \A c \in Calls :
    LET d == result[c].run IN
    d # c => /\ Turn(d) = Turn(c) /\ req[d].body = req[c].body
             /\ d \in done
             /\ result[c].dispatched = result[d].dispatched

(* Every supersede and every Reset ends, and with it the exclusion of new   *)
(* turns, even if the turn it waits for would have run for ever.            *)
ControlsEnd ==
  \A c \in Calls : pc[c] \in InControl ~> pc[c] \notin InControl

(* A superseding Run is not starved: it gets its turn, joins an equal one   *)
(* or returns, whatever runs in the conversation.                           *)
SupersedeGetsIn ==
  \A c \in Calls :
    pc[c] = "admit" /\ req[c].mode = "supersede"
      ~> pc[c] \in InTurn \union {"await", "returned"}

=============================================================================
