---------------------------- MODULE LifecycleGate ----------------------------
(***************************************************************************)
(* The per-Agent lifecycle gate of                                         *)
(* src/internal/agentengine/lifecycle/coordinator.go.  Executions (Turns)  *)
(* share the gate; a mutation (start, stop, reload, configuration change,  *)
(* archive) excludes them: it takes the token, closes admission, asks the  *)
(* running executions to stop, waits for them to drain, and reopens the    *)
(* gate when it is done or gives up.                                       *)
(*                                                                         *)
(* Gates of different Agents share no state, and every caller in the       *)
(* repository nests mutations of one Agent only, so the module models the  *)
(* gate of one Agent.  A process is a goroutine: it may run executions,    *)
(* mutations, mutations nested in a mutation (the reentrant context) and   *)
(* even a mutation while it still holds its own execution lease.           *)
(*                                                                         *)
(* The drained channel is replaced by each first execution, so its         *)
(* identity matters: channels are numbered, "drained" is the number of the *)
(* current one and "closedChans" the set of those already closed.          *)
(***************************************************************************)
EXTENDS Naturals, FiniteSets

CONSTANTS Procs,     \* goroutines that use the Agent
          MaxDepth,  \* bound on nested mutations of one goroutine
          MaxChan    \* bound on the number of drained channels created

ASSUME ProcsFinite == IsFiniteSet(Procs)
ASSUME MaxDepthNat == MaxDepth \in Nat
ASSUME MaxChanNat == MaxChan \in Nat

VARIABLES token,       \* the token is in the channel gate.token
          closed,      \* gate.closed
          active,      \* gate.active
          drained,     \* gate.drained: the number of the current channel
          closedChans, \* the channels that were closed
          leases,      \* processes that hold an execution lease
          cancelled,   \* lease holders whose execution was interrupted
          pc,          \* where a process is inside MutationInterrupt
          captured,    \* the local variable drained of MutationInterrupt
          depth        \* nesting of the mutation contexts a process holds

gateVars == <<token, closed, active, drained, closedChans>>
vars == <<token, closed, active, drained, closedChans, leases, cancelled,
          pc, captured, depth>>

(***************************************************************************)
(* "run": ordinary code of the caller;  "await": the select on the token;  *)
(* "taken": token received;  "closing": admission closed;  "draining": the *)
(* select on the captured channel;  "reopened": the release closure has    *)
(* reopened admission and has yet to put the token back.                   *)
(***************************************************************************)
Where == {"run", "await", "taken", "closing", "draining", "reopened"}

Init ==
  /\ token = TRUE
  /\ closed = FALSE
  /\ active = 0
  /\ drained = 0
  /\ closedChans = {0}
  /\ leases = {}
  /\ cancelled = {}
  /\ pc = [p \in Procs |-> "run"]
  /\ captured = [p \in Procs |-> 0]
  /\ depth = [p \in Procs |-> 0]

-----------------------------------------------------------------------------
(* Execution: admission of a shared lease, and its release. *)

AdmissionOpen == ~closed

FirstLeaseChannel == IF active = 0 THEN drained + 1 ELSE drained

Execution(p) ==
  /\ pc[p] = "run"
  /\ p \notin leases
  /\ AdmissionOpen
  /\ drained < MaxChan \/ active > 0
  /\ drained' = FirstLeaseChannel
  /\ active' = active + 1
  /\ leases' = leases \union {p}
  /\ UNCHANGED <<token, closed, closedChans, cancelled, pc, captured, depth>>

(* once.Do: a lease is given back once. *)
ReleaseOnce(p) == p \in leases

ReleaseExecution(p) ==
  /\ pc[p] = "run"
  /\ ReleaseOnce(p)
  /\ active' = active - 1
  /\ closedChans' = IF active - 1 = 0 THEN closedChans \union {drained}
                                      ELSE closedChans
  /\ leases' = leases \ {p}
  /\ cancelled' = cancelled \ {p}
  /\ UNCHANGED <<token, closed, drained, pc, captured, depth>>

-----------------------------------------------------------------------------
(* MutationInterrupt, step by step. *)

Goto(p, there) == pc' = [pc EXCEPT ![p] = there]

RequestMutation(p) ==
  /\ pc[p] = "run"
  /\ depth[p] = 0
  /\ Goto(p, "await")
  /\ UNCHANGED <<gateVars, leases, cancelled, captured, depth>>

(* The context already holds this mutation: nothing to acquire, and the     *)
(* returned release does nothing.                                           *)
NestedMutation(p) ==
  /\ pc[p] = "run"
  /\ depth[p] \in 1 .. MaxDepth - 1
  /\ depth' = [depth EXCEPT ![p] = @ + 1]
  /\ UNCHANGED <<gateVars, leases, cancelled, pc, captured>>

ReleaseNested(p) ==
  /\ pc[p] = "run"
  /\ depth[p] > 1
  /\ depth' = [depth EXCEPT ![p] = @ - 1]
  /\ UNCHANGED <<gateVars, leases, cancelled, pc, captured>>

TakeToken(p) ==
  /\ pc[p] = "await"
  /\ token
  /\ token' = FALSE
  /\ Goto(p, "taken")
  /\ UNCHANGED <<closed, active, drained, closedChans, leases, cancelled,
                 captured, depth>>

CancelWait(p) ==
  /\ pc[p] = "await"
  /\ Goto(p, "run")
  /\ UNCHANGED <<gateVars, leases, cancelled, captured, depth>>

CloseAdmission(p) ==
  /\ pc[p] = "taken"
  /\ closed' = TRUE
  /\ captured' = [captured EXCEPT ![p] = drained]
  /\ Goto(p, "closing")
  /\ UNCHANGED <<token, active, drained, closedChans, leases, cancelled, depth>>

(* interrupt() cancels every running execution; a mutation without an      *)
(* interrupt callback cancels none.                                        *)
Interrupt(p) ==
  /\ pc[p] = "closing"
  /\ cancelled' \in {cancelled, leases}
  /\ Goto(p, "draining")
  /\ UNCHANGED <<gateVars, leases, captured, depth>>

DrainSignalIgnored(p) == TRUE

DrainSignal(p) == captured[p] \in closedChans

Drained(p) ==
  /\ pc[p] = "draining"
  /\ DrainSignal(p)
  /\ depth' = [depth EXCEPT ![p] = 1]
  /\ Goto(p, "run")
  /\ UNCHANGED <<gateVars, leases, cancelled, captured>>

NoTimer(p) == captured[p] \in closedChans

(* The timer and the caller's context end the wait at any time. *)
WaitEnds(p) == TRUE

(* The drain timeout, or the caller's cancellation, wins the select; it may *)
(* win even when the channel has just been closed.  release() then reopens. *)
DrainTimeout(p) ==
  /\ pc[p] = "draining"
  /\ WaitEnds(p)
  /\ closed' = FALSE
  /\ Goto(p, "reopened")
  /\ UNCHANGED <<token, active, drained, closedChans, leases, cancelled,
                 captured, depth>>

ReleaseKeepsClosed == closed

ReopenedAdmission == FALSE

ReleaseMutation(p) ==
  /\ pc[p] = "run"
  /\ depth[p] = 1
  /\ closed' = ReopenedAdmission
  /\ depth' = [depth EXCEPT ![p] = 0]
  /\ Goto(p, "reopened")
  /\ UNCHANGED <<token, active, drained, closedChans, leases, cancelled,
                 captured>>

ReturnToken(p) ==
  /\ pc[p] = "reopened"
  /\ token' = TRUE
  /\ Goto(p, "run")
  /\ UNCHANGED <<closed, active, drained, closedChans, leases, cancelled,
                 captured, depth>>

-----------------------------------------------------------------------------
Next ==
  \E p \in Procs :
    \/ Execution(p)
    \/ ReleaseExecution(p)
    \/ RequestMutation(p)
    \/ NestedMutation(p)
    \/ ReleaseNested(p)
    \/ TakeToken(p)
    \/ CancelWait(p)
    \/ CloseAdmission(p)
    \/ Interrupt(p)
    \/ Drained(p)
    \/ DrainTimeout(p)
    \/ ReleaseMutation(p)
    \/ ReturnToken(p)

Spec == Init /\ [][Next]_vars

(***************************************************************************)
(* A goroutine inside MutationInterrupt keeps running; the drain is        *)
(* bounded by a timer (two minutes unless configured); Mutate releases in  *)
(* a defer after its function returned, so a mutation nests only finitely  *)
(* often and is then released, hence strong fairness for ReleaseMutation;  *)
(* goroutines waiting to receive from a channel are queued first in, first *)
(* out, hence strong fairness for TakeToken.  Nothing is assumed about     *)
(* executions: a Turn may run for ever.                                    *)
(***************************************************************************)
Fairness ==
  \A p \in Procs :
    /\ SF_vars(TakeToken(p))
    /\ WF_vars(CloseAdmission(p))
    /\ WF_vars(Interrupt(p))
    /\ WF_vars(DrainTimeout(p))
    /\ WF_vars(ReleaseNested(p))
    /\ SF_vars(ReleaseMutation(p))
    /\ WF_vars(ReturnToken(p))

FairSpec == Spec /\ Fairness

-----------------------------------------------------------------------------
(* Holders of the exclusive lease, and processes that own the token. *)
Holding(p) == depth[p] > 0
OwnsToken(p) == Holding(p) \/ pc[p] \in {"taken", "closing", "draining", "reopened"}
ClosedBy(p) == Holding(p) \/ pc[p] \in {"closing", "draining"}

(* Type invariant of the gate and of the local state of its callers. *)
TypeOK ==
  /\ token \in BOOLEAN
  /\ closed \in BOOLEAN
  /\ active \in Nat
  /\ drained \in Nat
  /\ closedChans \in SUBSET Nat
  /\ leases \in SUBSET Procs
  /\ cancelled \in SUBSET leases
  /\ pc \in [Procs -> Where]
  /\ captured \in [Procs -> Nat]
  /\ depth \in [Procs -> Nat]

(***************************************************************************)
(* The purpose of the gate: while a mutation is granted, no execution, not *)
(* even one of the mutating goroutine, holds a lease, and no other         *)
(* mutation is granted (Mutation returns an "exclusive lease").            *)
(***************************************************************************)
Exclusion ==
  \A p \in Procs : Holding(p) =>
    /\ leases = {}
    /\ \A q \in Procs : Holding(q) => q = p

(***************************************************************************)
(* Execution's release closes the drained channel when the last lease      *)
(* goes.  Closing a closed channel panics, and a mutation that captured a  *)
(* channel nobody closes waits in vain: the current channel is closed      *)
(* exactly when no lease is held, and active counts the leases.            *)
(***************************************************************************)
DrainedMeansIdle ==
  /\ active = Cardinality(leases)
  /\ drained \in closedChans <=> leases = {}

(***************************************************************************)
(* The admission flag is closed exactly while some mutation drains or      *)
(* holds, and the token is out exactly while some process owns it: no path *)
(* out of MutationInterrupt leaves the Agent closed for ever.              *)
(***************************************************************************)
FlagsMatchOwner ==
  /\ closed <=> \E p \in Procs : ClosedBy(p)
  /\ token <=> ~ \E p \in Procs : OwnsToken(p)

(***************************************************************************)
(* "New execution fails while a mutation is draining, preventing           *)
(* starvation": while admission stays closed the set of leases only        *)
(* shrinks.                                                                *)
(***************************************************************************)
NoAdmissionWhileClosed == [][closed => leases' \subseteq leases]_vars

(* Admission never stays closed: every drain ends and every granted         *)
(* mutation is released, whatever the executions do.                        *)
AdmissionReopens == closed ~> ~closed

-----------------------------------------------------------------------------
Abstract == INSTANCE AgentExclusion
              WITH executing <- leases,
                   mutating <- {p \in Procs : Holding(p)},
                   open <- ~closed

(***************************************************************************)
(* The token, the channel and the two-step release implement the readers / *)
(* writer discipline of AgentExclusion.                                    *)
(***************************************************************************)
ImplementsExclusion == Abstract!Spec
=============================================================================
