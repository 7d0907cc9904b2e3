------------------------ MODULE ScheduledTasksProofs ------------------------
(***************************************************************************)
(* Proofs about ScheduledTasks, for any sets of schedules and callers and  *)
(* any number of edits, failures and crashes.                              *)
(***************************************************************************)
EXTENDS ScheduledTasks, SequenceTheorems, TLAPS

(* Between the reservation of its run and the release of its schedule. *)
InCall == {"identity", "root", "deliver", "record", "release"}

(***************************************************************************)
(* The strengthening.  Only the latest run of a schedule may have a task   *)
(* that is active, not revived; a trigger between reservation and release holds its        *)
(* schedule in inFlight, alone, and its run is the latest.                 *)
(***************************************************************************)
LatestActive ==
  \A i, j \in DOMAIN runs :
    runs[i].schedule = runs[j].schedule /\ generated[i] = "active" => j <= i

CallHolds ==
  \A p \in Processes : proc[p].pc \in InCall =>
    /\ proc[p].schedule \in inFlight
    /\ proc[p].run \in DOMAIN runs
    /\ runs[proc[p].run].schedule = proc[p].schedule
    /\ \A j \in DOMAIN runs : runs[j].schedule = proc[p].schedule => j <= proc[p].run

CallAlone ==
  \A p, q \in Processes :
    proc[p].pc \in InCall /\ proc[q].pc \in InCall /\ proc[p].schedule = proc[q].schedule => p = q

HasSchedule ==
  \A p \in Processes : proc[p].pc \notin {"idle", "creating"} => proc[p].schedule \in Schedules

Held == HasSchedule /\ LatestActive /\ CallHolds /\ CallAlone

IInv == TypeOK /\ Held
-----------------------------------------------------------------------------
LEMMA IdleType == Idle \in Trigger
BY ScheduledTasksAssumption DEF Idle, Trigger

LEMMA AttemptType ==
  ASSUME TypeOK, NEW ok \in BOOLEAN, Attempt(ok)
  PROVE  failures' \in 0..MaxFailures
BY ScheduledTasksAssumption DEF TypeOK, Attempt

LEMMA EditType ==
  ASSUME TypeOK, Edit
  PROVE  edits' \in 0..MaxEdits
BY ScheduledTasksAssumption DEF TypeOK, Edit

(* A schedule moved to its next slot. *)
LEMMA AdvancedType ==
  ASSUME NEW item \in Item, NEW now \in 0..MaxClock
  PROVE  Advanced(item, now) \in Item
<1>1. nextRunAt(item, now) \in 0..MaxClock + 1
  BY ScheduledTasksAssumption DEF nextRunAt, Item, Zero
<1> QED
  BY ZenonT(30), <1>1 DEF Advanced, Item, expired

LEMMA ExistsType ==
  ASSUME TypeOK, NEW s \in Schedules, Exists(s)
  PROVE  tasks[s] \in Item
BY DEF TypeOK, Exists

LEMMA TypeInit == Init => TypeOK
<1> SUFFICES ASSUME Init PROVE TypeOK
  OBVIOUS
<1>1. proc \in [Processes -> Trigger]
  BY IdleType DEF Init
<1>2. runs \in Seq([schedule : Schedules, status : {"triggered", "failed"}])
  BY DEF Init
<1>3. generated \in Seq(TaskStatus) /\ Len(generated) = Len(runs)
  BY DEF Init
<1>4. tasks \in [Schedules -> {None, Deleted} \union Item]
  BY DEF Init
<1> QED
  <2>1. 1 \in 1..MaxClock /\ 0 \in 0..MaxEdits /\ 0 \in 0..MaxFailures
    BY ScheduledTasksAssumption
  <2> QED BY ZenonT(30), <1>1, <1>2, <1>3, <1>4, <2>1 DEF Init, TypeOK

LEMMA TypeUsers ==
  ASSUME TypeOK, NEW s \in Schedules,
         \/ \E p \in Callers : CreateChecked(p) \/ Create(p, s) \/ RunNow(p, s)
         \/ Update(s) \/ Delete(s)
  PROVE  TypeOK'
<1>1. ASSUME NEW p \in Callers, CreateChecked(p) PROVE TypeOK'
  BY ZenonT(30), <1>1, EditType DEF CreateChecked, TypeOK, Trigger, agentVars, Processes
<1>2. ASSUME NEW p \in Callers, Create(p, s) PROVE TypeOK'
  <2>1. PICK kind \in Kinds, enabled \in BOOLEAN, first \in 1..MaxClock :
          tasks' = [tasks EXCEPT ![s] = [once |-> kind.once, expires |-> kind.expires,
                                         enabled |-> enabled, next |-> first]]
    BY ZenonT(30), <1>2 DEF Create
  <2>2. tasks' \in [Schedules -> {None, Deleted} \union Item]
    BY <2>1, ScheduledTasksAssumption DEF TypeOK, Item
  <2> QED BY <1>2, <2>2, IdleType DEF Create, TypeOK, agentVars, Processes
<1>3. ASSUME NEW p \in Callers, RunNow(p, s) PROVE TypeOK'
  <2>0. Due(s) \in BOOLEAN
    BY DEF Due
  <2>1. [Idle EXCEPT !.pc = "check", !.schedule = s, !.advance = Due(s)] \in Trigger
    BY ZenonT(30), IdleType, <2>0 DEF Trigger
  <2> QED BY <1>3, <2>1, EditType DEF RunNow, TypeOK, agentVars, Processes
<1>4. CASE Update(s)
  <2>1. PICK kind \in Kinds, enabled \in BOOLEAN, next \in {tasks[s].next} \union 1..MaxClock :
          tasks' = [tasks EXCEPT ![s] = [once |-> kind.once, expires |-> kind.expires,
                                         enabled |-> enabled, next |-> next]]
    BY ZenonT(30), <1>4 DEF Update
  <2>2. tasks[s] \in Item
    BY ZenonT(30), <1>4, ExistsType DEF Update
  <2>0. next \in 0..MaxClock + 1
    BY <2>2, ScheduledTasksAssumption DEF Item
  <2>3. [once |-> kind.once, expires |-> kind.expires, enabled |-> enabled, next |-> next] \in Item
    BY <2>0, ScheduledTasksAssumption DEF Item
  <2>4. tasks' \in [Schedules -> {None, Deleted} \union Item]
    BY <2>1, <2>3 DEF TypeOK
  <2> QED BY ZenonT(30), <1>4, <2>4, EditType DEF Update, TypeOK, agentVars, schedulerVars
<1>5. CASE Delete(s)
  BY <1>5, EditType DEF Delete, TypeOK, agentVars, schedulerVars
<1> QED BY <1>1, <1>2, <1>3, <1>4, <1>5

(* A trigger moves on. *)
LEMMA ToType ==
  ASSUME TypeOK, NEW p \in Processes, NEW failed \in BOOLEAN,
         NEW there \in {"root", "deliver", "record", "release"}, To(p, there, failed)
  PROVE  proc' \in [Processes -> Trigger]
<1>1. proc[p] \in Trigger
  BY DEF TypeOK
<1>2. [proc[p] EXCEPT !.pc = there, !.failed = failed] \in Trigger
  BY ZenonT(30), <1>1 DEF Trigger
<1>3. proc' = [proc EXCEPT ![p] = [proc[p] EXCEPT !.pc = there, !.failed = failed]]
  BY ZenonT(30) DEF To, TypeOK
<1> QED BY <1>2, <1>3 DEF TypeOK

LEMMA TypeStep ==
  ASSUME TypeOK, HasSchedule, CallHolds, NEW p \in Processes, Step(p)
  PROVE  TypeOK'
<1>0. /\ proc[p] \in Trigger
      /\ proc[p].pc \in InCall => proc[p].run \in 1..Len(generated)
  BY DEF TypeOK, CallHolds
<1>1. CASE Check(p)
  <2>1. clock \in 0..MaxClock
    BY ScheduledTasksAssumption DEF TypeOK
  <2>2. [proc[p] EXCEPT !.pc = "reserve", !.now = clock] \in Trigger
    BY ZenonT(30), <1>0, <2>1 DEF Trigger
  <2>3. proc' \in [Processes -> Trigger]
    <3>1. CASE archived
      BY <1>1, <3>1, IdleType DEF Check, Return, TypeOK
    <3>2. CASE ~archived
      <4>1. proc' = [proc EXCEPT ![p] = [proc[p] EXCEPT !.pc = "reserve", !.now = clock]]
        BY ZenonT(30), <1>1, <3>2 DEF Check, TypeOK
      <4> QED BY <4>1, <2>2 DEF TypeOK
    <3> QED BY <3>1, <3>2
  <2> QED BY <1>1, <2>3 DEF Check, TypeOK, agentVars
<1>2. CASE Reserve(p)
  <2> DEFINE s == proc[p].schedule
             new == [schedule |-> s, status |-> "triggered"]
  <2>1. new \in [schedule : Schedules, status : {"triggered", "failed"}]
    BY <1>2 DEF Reserve, HasSchedule
  <2>2. /\ Append(runs, new) \in Seq([schedule : Schedules, status : {"triggered", "failed"}])
        /\ Len(Append(runs, new)) = Len(runs) + 1
        /\ Append(generated, "none") \in Seq(TaskStatus)
        /\ Len(Append(generated, "none")) = Len(generated) + 1
        /\ Len(runs) + 1 \in Nat
    BY <2>1, AppendProperties, LenProperties DEF TypeOK, TaskStatus
  <2>3. PICK ok \in BOOLEAN :
          IF Occupied(s)
          THEN ok /\ Return(p) /\ UNCHANGED <<runs, generated, inFlight, failures>>
          ELSE /\ Attempt(ok)
               /\ IF ok
                  THEN /\ runs' = Append(runs, new)
                       /\ generated' = Append(generated, "none")
                       /\ inFlight' = inFlight \union {s}
                       /\ proc' = [proc EXCEPT ![p].pc = "identity", ![p].run = Len(runs) + 1]
                  ELSE Return(p) /\ UNCHANGED <<runs, generated, inFlight>>
    BY <1>2 DEF Reserve
  <2>4. failures' \in 0..MaxFailures
    BY <2>3, AttemptType DEF TypeOK
  <2>5. proc' \in [Processes -> Trigger]
    <3> DEFINE reserved == [proc[p] EXCEPT !.pc = "identity", !.run = Len(runs) + 1]
    <3>1. reserved \in Trigger
      BY ZenonT(30), <1>0, <2>2 DEF Trigger
    <3>2. [proc EXCEPT ![p].pc = "identity", ![p].run = Len(runs) + 1] = [proc EXCEPT ![p] = reserved]
      BY ZenonT(30) DEF TypeOK
    <3>3. proc' \in {[proc EXCEPT ![p] = Idle], [proc EXCEPT ![p] = reserved]}
      BY <2>3, <3>2 DEF Return
    <3> HIDE DEF reserved
    <3> QED BY <3>1, <3>3, IdleType DEF TypeOK
  <2>6. /\ runs' \in Seq([schedule : Schedules, status : {"triggered", "failed"}])
        /\ generated' \in Seq(TaskStatus) /\ Len(generated') = Len(runs')
    BY ZenonT(30), <2>2, <2>3 DEF TypeOK
  <2>7. inFlight' \subseteq Schedules
    BY <2>3, <1>2 DEF TypeOK, Reserve, HasSchedule
  <2> HIDE DEF s, new
  <2> QED BY <1>2, <2>4, <2>5, <2>6, <2>7 DEF Reserve, TypeOK, agentVars
<1>3. CASE AgentIdentity(p)
  BY ZenonT(30), <1>3, ToType DEF AgentIdentity, TypeOK, agentVars
<1>4. CASE CreateRoot(p)
  <2>1. proc[p].run \in 1..Len(generated)
    BY <1>0, <1>4 DEF CreateRoot, InCall
  <2>2. /\ [generated EXCEPT ![proc[p].run] = "active"] \in Seq(TaskStatus)
        /\ Len([generated EXCEPT ![proc[p].run] = "active"]) = Len(generated)
    BY <2>1, ExceptSeq DEF TypeOK, TaskStatus
  <2>3. PICK ok \in BOOLEAN :
          /\ Attempt(ok)
          /\ IF ok THEN /\ generated' = [generated EXCEPT ![proc[p].run] = "active"]
                        /\ To(p, "deliver", FALSE)
             ELSE To(p, "record", TRUE) /\ UNCHANGED generated
    BY ZenonT(30), <1>4 DEF CreateRoot
  <2>4. proc' \in [Processes -> Trigger] /\ failures' \in 0..MaxFailures
    BY ZenonT(30), <2>3, ToType, AttemptType
  <2> QED BY ZenonT(30), <1>4, <2>2, <2>3, <2>4 DEF CreateRoot, TypeOK, agentVars
<1>5. CASE DeliverEvent(p)
  <2>1. proc[p].run \in 1..Len(generated)
    BY <1>0, <1>5 DEF DeliverEvent, InCall
  <2>2. /\ [generated EXCEPT ![proc[p].run] = "ended"] \in Seq(TaskStatus)
        /\ Len([generated EXCEPT ![proc[p].run] = "ended"]) = Len(generated)
    BY <2>1, ExceptSeq DEF TypeOK, TaskStatus
  <2>3. PICK ok \in BOOLEAN, marked \in BOOLEAN :
          /\ Attempt(ok)
          /\ To(p, "record", ~ok)
          /\ generated' = IF ~ok /\ marked THEN [generated EXCEPT ![proc[p].run] = "ended"]
                          ELSE generated
    BY <1>5 DEF DeliverEvent
  <2>4. proc' \in [Processes -> Trigger] /\ failures' \in 0..MaxFailures
    BY ZenonT(30), <2>3, ToType, AttemptType
  <2> QED BY ZenonT(30), <1>5, <2>2, <2>3, <2>4 DEF DeliverEvent, TypeOK, agentVars
<1>6. CASE Record(p)
  <2>1. proc[p].run \in 1..Len(runs)
    BY <1>0, <1>6 DEF Record, InCall, TypeOK
  <2>2. [runs[proc[p].run] EXCEPT !.status = "failed"]
          \in [schedule : Schedules, status : {"triggered", "failed"}]
    <3>1. runs[proc[p].run] \in [schedule : Schedules, status : {"triggered", "failed"}]
      BY ZenonT(30), <2>1, ElementOfSeq DEF TypeOK
    <3> QED BY <3>1
  <2>3. /\ [runs EXCEPT ![proc[p].run].status = "failed"]
             \in Seq([schedule : Schedules, status : {"triggered", "failed"}])
        /\ Len([runs EXCEPT ![proc[p].run].status = "failed"]) = Len(runs)
    BY <2>1, <2>2, ExceptSeq DEF TypeOK
  <2>4. Recorded(p) \in [Schedules -> {None, Deleted} \union Item]
    BY SMTT(30), <1>0, <1>6, AdvancedType, ExistsType DEF Recorded, Record, HasSchedule, TypeOK, Trigger
  <2>5. PICK ok \in BOOLEAN :
          IF p = Ticker /\ proc[p].failed /\ hasActiveRunLocked(proc[p].schedule)
          THEN ok /\ UNCHANGED <<tasks, runs, failures>>
          ELSE /\ Attempt(ok)
               /\ IF ok
                  THEN /\ tasks' = Recorded(p)
                       /\ runs' = IF proc[p].failed
                                  THEN [runs EXCEPT ![proc[p].run].status = "failed"] ELSE runs
                  ELSE UNCHANGED <<tasks, runs>>
    BY <1>6 DEF Record
  <2>6. proc' \in [Processes -> Trigger]
    BY ZenonT(30), <1>6, ToType DEF Record
  <2>7. failures' \in 0..MaxFailures
    BY <2>5, AttemptType DEF TypeOK
  <2> QED BY ZenonT(30), <1>6, <2>3, <2>4, <2>5, <2>6, <2>7 DEF Record, TypeOK, agentVars
<1>7. CASE Release(p)
  BY <1>7, IdleType DEF Release, Released, Return, TypeOK, agentVars
<1> QED BY <1>1, <1>2, <1>3, <1>4, <1>5, <1>6, <1>7 DEF Step

(* The ticker, the agent, archiving, time and crashes. *)
LEMMA TypeRest ==
  ASSUME TypeOK,
         \/ TriggerDue \/ \E s \in Schedules : TriggerNext(s)
         \/ \E i \in DOMAIN generated : finishTask(i)
         \/ \E to \in BOOLEAN : SetArchived(to)
         \/ DisableAgent \/ CancelAgentTasks \/ Tick \/ Crash
  PROVE  TypeOK'
<1>0. Disabled \in [Schedules -> {None, Deleted} \union Item]
  <2> SUFFICES ASSUME NEW s \in Schedules, Exists(s)
               PROVE  [tasks[s] EXCEPT !.enabled = FALSE] \in Item
    BY DEF Disabled, TypeOK
  <2>1. tasks[s] \in Item
    BY ExistsType
  <2> QED BY ZenonT(30), <2>1 DEF Item
<1>1. CASE TriggerDue
  BY <1>1 DEF TriggerDue, TypeOK, agentVars
<1>2. ASSUME NEW s \in Schedules, TriggerNext(s) PROVE TypeOK'
  <2>1. [Idle EXCEPT !.pc = "check", !.schedule = s, !.advance = TRUE] \in Trigger
    BY ZenonT(30), IdleType DEF Trigger
  <2> QED BY ZenonT(30), <1>2, <2>1 DEF TriggerNext, TypeOK, agentVars, Processes
<1>3. ASSUME NEW i \in DOMAIN generated, finishTask(i) PROVE TypeOK'
  <2>1. PICK ok \in BOOLEAN :
          /\ Attempt(ok)
          /\ generated' = [generated EXCEPT ![i] = IF ok THEN "ended" ELSE "unsaved"]
    BY ZenonT(30), <1>3 DEF finishTask
  <2>2. generated' \in Seq(TaskStatus) /\ Len(generated') = Len(generated)
    BY SMTT(30), <1>3, <2>1, ExceptSeq DEF TypeOK, TaskStatus
  <2>3. failures' \in 0..MaxFailures
    BY <2>1, AttemptType
  <2> QED BY <1>3, <2>2, <2>3 DEF finishTask, TypeOK, agentVars
<1>4. ASSUME NEW to \in BOOLEAN, SetArchived(to) PROVE TypeOK'
  BY <1>4, EditType DEF SetArchived, TypeOK, schedulerVars
<1>5. CASE DisableAgent
  <2>1. PICK ok \in BOOLEAN : Attempt(ok) /\ tasks' = IF ok THEN Disabled ELSE tasks
    BY <1>5 DEF DisableAgent
  <2>2. failures' \in 0..MaxFailures
    BY <2>1, AttemptType
  <2> QED BY <1>0, <1>5, <2>1, <2>2 DEF DisableAgent, TypeOK, schedulerVars
<1>6. CASE CancelAgentTasks
  <2>1. PICK ok \in BOOLEAN, cancelled \in SUBSET DOMAIN generated :
          /\ Attempt(ok)
          /\ generated' = [i \in DOMAIN generated |->
                             IF i \in cancelled THEN "ended" ELSE generated[i]]
    BY <1>6 DEF CancelAgentTasks
  <2> DEFINE new == [i \in DOMAIN generated |-> IF i \in cancelled THEN "ended" ELSE generated[i]]
  <2>a. generated \in Seq(TaskStatus) /\ "ended" \in TaskStatus
    BY DEF TypeOK, TaskStatus
  <2>b. DOMAIN generated = 1..Len(generated) /\ Len(generated) \in Nat
    BY <2>a
  <2>c. \A i \in DOMAIN generated : generated[i] \in TaskStatus
    BY <2>a
  <2>d. new \in [1..Len(generated) -> TaskStatus]
    BY Zenon, <2>a, <2>b, <2>c
  <2>2. generated' \in Seq(TaskStatus) /\ Len(generated') = Len(generated)
    <3>1. generated' = new
      BY Zenon, <2>1
    <3> HIDE DEF new
    <3> QED BY <2>b, <2>d, <3>1
  <2>3. failures' \in 0..MaxFailures
    BY <2>1, AttemptType
  <2> HIDE DEF new
  <2> QED BY <1>6, <2>2, <2>3 DEF CancelAgentTasks, TypeOK
<1>7. CASE Tick
  BY <1>7, ScheduledTasksAssumption DEF Tick, TypeOK, schedulerVars, agentVars
<1>8. CASE Crash
  <2>1. failures' \in 0..MaxFailures
    BY ZenonT(30), <1>8, AttemptType DEF Crash
  <2>2. proc' \in [Processes -> Trigger]
    BY <1>8, IdleType DEF Crash
  <2>3. generated' \in Seq(TaskStatus) /\ Len(generated') = Len(generated)
    <3>1. generated' = [i \in DOMAIN generated |->
                          IF generated[i] = "unsaved" THEN "revived" ELSE generated[i]]
      BY ZenonT(30), <1>8 DEF Crash
    <3>2. \A i \in DOMAIN generated : generated[i] \in TaskStatus
      BY DEF TypeOK
    <3>3. \A i \in DOMAIN generated : generated'[i] \in TaskStatus
      BY <3>1, <3>2 DEF TaskStatus
    <3>4. generated' \in [1..Len(generated) -> TaskStatus] /\ Len(generated) \in Nat
      BY <3>1, <3>3 DEF TypeOK
    <3> QED BY <3>4
  <2>4. tasks' \in [Schedules -> {None, Deleted} \union Item]
    BY <1>0, <1>8 DEF Crash, TypeOK
  <2> QED BY <1>8, <2>1, <2>2, <2>3, <2>4 DEF Crash, TypeOK
<1> QED BY <1>1, <1>2, <1>3, <1>4, <1>5, <1>6, <1>7, <1>8

-----------------------------------------------------------------------------
(* What a step that reserves no run and starts no task may do: end tasks,   *)
(* change the status of runs, move triggers on or drop them.                *)
Moves(p) ==
  /\ proc'[p].pc \notin {"idle", "creating"} => proc'[p].schedule \in Schedules
  /\ proc'[p].pc \in InCall =>
       /\ proc[p].pc \in InCall
       /\ proc'[p].schedule = proc[p].schedule /\ proc'[p].run = proc[p].run
       /\ proc[p].schedule \in inFlight'

Quiet ==
  /\ DOMAIN runs' = DOMAIN runs
  /\ \A i \in DOMAIN runs : runs'[i].schedule = runs[i].schedule
  /\ \A i \in DOMAIN runs : generated'[i] = "active" => generated[i] = "active"
  /\ \A p \in Processes : Moves(p)

LEMMA QuietKeeps ==
  ASSUME Held, Quiet
  PROVE  Held'
<1>1. HasSchedule'
  BY DEF Quiet, Moves, HasSchedule
<1>2. LatestActive'
  BY DEF Held, LatestActive, Quiet
<1>3. CallHolds'
  BY DEF Held, CallHolds, Quiet, Moves
<1>4. CallAlone'
  BY DEF Held, CallAlone, Quiet, Moves
<1> QED BY <1>1, <1>2, <1>3, <1>4 DEF Held

(* The trigger p moves from one pc to another, the others stay. *)
LEMMA ToMoves ==
  ASSUME TypeOK, Held, NEW p \in Processes, NEW there, NEW failed,
         To(p, there, failed), proc[p].pc \in InCall, UNCHANGED inFlight
  PROVE  \A q \in Processes : Moves(q)
<1> SUFFICES ASSUME NEW q \in Processes PROVE Moves(q)
  OBVIOUS
<1>1. CASE q = p
  <2>1. proc'[p].schedule = proc[p].schedule /\ proc'[p].run = proc[p].run
    BY DEF To, TypeOK, Trigger
  <2> QED BY <1>1, <2>1 DEF Moves, Held, HasSchedule, CallHolds, InCall
<1>2. CASE q # p
  BY <1>2 DEF To, TypeOK, Moves, Held, HasSchedule, CallHolds
<1> QED BY <1>1, <1>2

LEMMA StayMoves ==
  ASSUME Held, UNCHANGED <<proc, inFlight>>
  PROVE  \A q \in Processes : Moves(q)
BY DEF Held, HasSchedule, CallHolds, Moves

(* The trigger p is replaced by one that is not between reservation and     *)
(* release.                                                                 *)
LEMMA SetMoves ==
  ASSUME TypeOK, Held, NEW p \in Processes, NEW trigger,
         proc' = [proc EXCEPT ![p] = trigger], trigger.pc \notin InCall,
         trigger.pc \in {"idle", "creating"} \/ trigger.schedule \in Schedules,
         UNCHANGED inFlight
  PROVE  \A q \in Processes : Moves(q)
<1> SUFFICES ASSUME NEW q \in Processes PROVE Moves(q)
  OBVIOUS
<1> QED BY DEF TypeOK, Moves, Held, HasSchedule, CallHolds

LEMMA HeldReserve ==
  ASSUME TypeOK, Held, NEW p \in Processes, Reserve(p)
  PROVE  Held'
<1> DEFINE s == proc[p].schedule
           new == [schedule |-> s, status |-> "triggered"]
           n == Len(runs) + 1
<1>0. s \in Schedules /\ p \in Processes /\ proc[p].pc = "reserve"
  BY DEF Reserve, Held, HasSchedule
<1>1. CASE UNCHANGED <<runs, generated, inFlight>> /\ Return(p)
  <2>1. \A q \in Processes : Moves(q)
    BY ZenonT(30), <1>1, SetMoves DEF Return, Idle, InCall
  <2> QED BY <1>1, <2>1, QuietKeeps DEF Quiet
<1>2. CASE /\ ~Occupied(s)
           /\ runs' = Append(runs, new)
           /\ generated' = Append(generated, "none")
           /\ inFlight' = inFlight \union {s}
           /\ proc' = [proc EXCEPT ![p].pc = "identity", ![p].run = n]
  <2>1. /\ DOMAIN runs = 1..Len(runs) /\ DOMAIN generated = 1..Len(runs) /\ Len(runs) \in Nat
        /\ DOMAIN runs' = 1..n /\ DOMAIN generated' = 1..n
        /\ \A i \in 1..Len(runs) : runs'[i] = runs[i] /\ generated'[i] = generated[i]
        /\ runs'[n].schedule = s /\ generated'[n] = "none"
    BY <1>0, <1>2, AppendProperties, LenProperties DEF TypeOK
  <2>2. \A i \in 1..Len(runs) : runs[i].schedule = s => generated[i] # "active"
    BY <1>2, <2>1 DEF Occupied, hasActiveRunLocked, Running, RunsOf, Held, LatestActive
  <2>3. /\ proc'[p].pc = "identity" /\ proc'[p].run = n /\ proc'[p].schedule = s
        /\ \A q \in Processes \ {p} : proc'[q] = proc[q]
    BY <1>2 DEF TypeOK, Trigger
  <2>4. \A q \in Processes : proc[q].pc \in InCall => proc[q].schedule # s
    BY <1>2 DEF Occupied, Held, CallHolds
  <2>0. inFlight' = inFlight \union {s} /\ n = Len(runs) + 1 /\ n \in 1..n
    BY <1>2, <2>1
  <2> HIDE DEF s, new, n
  <2>5. HasSchedule'
    BY <1>0, <2>3 DEF Held, HasSchedule
  <2>6. LatestActive'
    <3> SUFFICES ASSUME NEW i \in 1..n, NEW j \in 1..n,
                        runs'[i].schedule = runs'[j].schedule, generated'[i] = "active"
                 PROVE  j <= i
      BY <2>1 DEF LatestActive
    <3>1. i \in 1..Len(runs)
      BY <2>1 DEF n
    <3>2. j \in 1..Len(runs)
      BY <2>1, <2>2, <3>1 DEF n
    <3> QED BY <2>1, <3>1, <3>2 DEF Held, LatestActive
  <2>7. CallHolds'
    <3> SUFFICES ASSUME NEW q \in Processes, proc'[q].pc \in InCall
                 PROVE  /\ proc'[q].schedule \in inFlight'
                        /\ proc'[q].run \in 1..n
                        /\ runs'[proc'[q].run].schedule = proc'[q].schedule
                        /\ \A j \in 1..n : runs'[j].schedule = proc'[q].schedule
                                          => j <= proc'[q].run
      BY <2>1 DEF CallHolds
    <3>1. CASE q = p
      BY <2>0, <2>1, <2>3, <3>1
    <3>2. CASE q # p
      <4>1. proc'[q] = proc[q]
        BY <2>3, <3>2
      <4>2. /\ proc[q].schedule \in inFlight /\ proc[q].schedule # s
            /\ proc[q].run \in 1..Len(runs)
            /\ runs[proc[q].run].schedule = proc[q].schedule
            /\ \A j \in 1..Len(runs) : runs[j].schedule = proc[q].schedule => j <= proc[q].run
        BY <2>1, <2>4, <4>1 DEF Held, CallHolds
      <4>3. \A j \in 1..n : runs'[j].schedule = proc[q].schedule => j <= proc[q].run
        BY <2>0, <2>1, <4>2
      <4> QED BY <2>0, <2>1, <4>1, <4>2, <4>3
    <3> QED BY <3>1, <3>2
  <2>8. CallAlone'
    BY <2>3, <2>4 DEF Held, CallAlone
  <2> QED BY <2>5, <2>6, <2>7, <2>8 DEF Held
<1> HIDE DEF n, new
<1> QED BY <1>1, <1>2 DEF Reserve, n, new

LEMMA HeldCreateRoot ==
  ASSUME TypeOK, Held, NEW p \in Processes, CreateRoot(p)
  PROVE  Held'
<1> DEFINE n == proc[p].run
<1>0. proc[p].pc \in InCall
  BY DEF CreateRoot, InCall
<1>1. /\ DOMAIN generated = DOMAIN runs /\ n \in DOMAIN runs
      /\ \A j \in DOMAIN runs : runs[j].schedule = runs[n].schedule => j <= n
  BY <1>0 DEF TypeOK, Held, CallHolds
<1>2. \A q \in Processes : Moves(q)
  BY ZenonT(30), <1>0, ToMoves DEF CreateRoot
<1>3. CASE UNCHANGED generated
  BY <1>2, <1>3, QuietKeeps DEF Quiet, CreateRoot
<1>4. CASE generated' = [generated EXCEPT ![n] = "active"]
  <2>1. LatestActive'
    BY <1>1, <1>4 DEF CreateRoot, Held, LatestActive
  <2>2. HasSchedule' /\ CallHolds' /\ CallAlone'
    BY <1>2 DEF CreateRoot, Moves, Held, HasSchedule, CallHolds, CallAlone
  <2> QED BY <2>1, <2>2 DEF Held
<1> QED BY ZenonT(30), <1>3, <1>4 DEF CreateRoot

LEMMA HeldStep ==
  ASSUME TypeOK, Held, NEW p \in Processes, Step(p)
  PROVE  Held'
<1>0. proc[p] \in Trigger
  BY DEF TypeOK
<1>1. CASE Check(p)
  <2>1. CASE archived
    <3>1. \A q \in Processes : Moves(q)
      BY ZenonT(30), <1>1, <2>1, SetMoves DEF Check, Return, Idle, InCall
    <3> QED BY <1>1, <3>1, QuietKeeps DEF Quiet, Check
  <2>2. CASE ~archived
    <3> DEFINE trigger == [proc[p] EXCEPT !.pc = "reserve", !.now = clock]
    <3>1. proc' = [proc EXCEPT ![p] = trigger]
      BY ZenonT(30), <1>1, <2>2 DEF Check, TypeOK
    <3>2. trigger.pc = "reserve" /\ trigger.schedule \in Schedules
      BY <1>0, <1>1 DEF Check, Trigger, Held, HasSchedule
    <3> HIDE DEF trigger
    <3>3. \A q \in Processes : Moves(q)
      BY ZenonT(30), <1>1, <3>1, <3>2, SetMoves DEF Check, InCall
    <3> QED BY <1>1, <3>3, QuietKeeps DEF Quiet, Check
  <2> QED BY <2>1, <2>2
<1>2. CASE Reserve(p)
  BY <1>2, HeldReserve
<1>3. CASE AgentIdentity(p)
  <2>1. \A q \in Processes : Moves(q)
    BY ZenonT(30), <1>3, ToMoves DEF AgentIdentity, InCall
  <2> QED BY <1>3, <2>1, QuietKeeps DEF Quiet, AgentIdentity
<1>4. CASE CreateRoot(p)
  BY <1>4, HeldCreateRoot
<1>5. CASE DeliverEvent(p)
  <2>1. \A q \in Processes : Moves(q)
    BY <1>5, ToMoves DEF DeliverEvent, InCall
  <2>2. \A i \in DOMAIN runs : generated'[i] = "active" => generated[i] = "active"
    BY <1>5 DEF DeliverEvent, TypeOK
  <2> QED BY <1>5, <2>1, <2>2, QuietKeeps DEF Quiet, DeliverEvent
<1>6. CASE Record(p)
  <2>1. \A q \in Processes : Moves(q)
    BY ZenonT(30), <1>6, ToMoves DEF Record, InCall
  <2>2. /\ DOMAIN runs' = DOMAIN runs
        /\ \A i \in DOMAIN runs : runs'[i].schedule = runs[i].schedule
    <3>1. runs' = runs \/ runs' = [runs EXCEPT ![proc[p].run].status = "failed"]
      BY <1>6 DEF Record
    <3>2. \A i \in DOMAIN runs :
            runs[i] \in [schedule : Schedules, status : {"triggered", "failed"}]
      <4> DEFINE R == [schedule : Schedules, status : {"triggered", "failed"}]
      <4>1. runs \in Seq(R)
        BY DEF TypeOK
      <4> HIDE DEF R
      <4>2. \A i \in 1..Len(runs) : runs[i] \in R
        BY <4>1, ElementOfSeq
      <4>3. DOMAIN runs = 1..Len(runs)
        BY <4>1, LenProperties
      <4> QED BY <4>2, <4>3 DEF R
    <3> QED BY <3>1, <3>2 DEF TypeOK
  <2> QED BY <1>6, <2>1, <2>2, QuietKeeps DEF Quiet, Record
<1>7. CASE Release(p)
  <2>0. proc[p].pc \in InCall
    BY <1>7 DEF Release, InCall
  <2>1. proc'[p] = Idle /\ \A q \in Processes \ {p} : proc'[q] = proc[q]
    BY <1>7 DEF Release, Return, TypeOK
  <2>2. inFlight' = inFlight \ {proc[p].schedule}
    BY <1>7 DEF Release, Released
  <2>3. \A q \in Processes : Moves(q)
    <3> SUFFICES ASSUME NEW q \in Processes PROVE Moves(q)
      OBVIOUS
    <3>1. CASE q = p
      BY <2>1, <3>1 DEF Moves, Idle, InCall
    <3>2. CASE q # p
      BY <2>0, <2>1, <2>2, <3>2 DEF Moves, Held, HasSchedule, CallHolds, CallAlone
    <3> QED BY <3>1, <3>2
  <2> QED BY <1>7, <2>3, QuietKeeps DEF Quiet, Release
<1> QED BY <1>1, <1>2, <1>3, <1>4, <1>5, <1>6, <1>7 DEF Step

LEMMA HeldRest ==
  ASSUME TypeOK, Held,
         \/ \E s \in Schedules : Update(s) \/ Delete(s) \/ TriggerNext(s)
         \/ \E p \in Callers : CreateChecked(p) \/ \E s \in Schedules : Create(p, s) \/ RunNow(p, s)
         \/ TriggerDue \/ \E i \in DOMAIN generated : finishTask(i)
         \/ \E to \in BOOLEAN : SetArchived(to)
         \/ DisableAgent \/ CancelAgentTasks \/ Tick \/ Crash
  PROVE  Held'
<1>1. CASE \/ \E s \in Schedules : Update(s) \/ Delete(s)
           \/ TriggerDue \/ \E to \in BOOLEAN : SetArchived(to)
           \/ DisableAgent \/ Tick
  <2>1. UNCHANGED <<runs, generated, inFlight, proc>>
    BY ZenonT(30), <1>1 DEF Update, Delete, TriggerDue, SetArchived, DisableAgent, Tick, schedulerVars
  <2> QED BY SMTT(30), <2>1, StayMoves, QuietKeeps DEF Quiet
<1>2. CASE CancelAgentTasks \/ \E i \in DOMAIN generated : finishTask(i)
  <2>1. UNCHANGED <<runs, inFlight, proc>>
    BY <1>2 DEF CancelAgentTasks, finishTask
  <2>2. \A i \in DOMAIN runs : generated'[i] = "active" => generated[i] = "active"
    BY SMTT(30), <1>2 DEF CancelAgentTasks, finishTask, TypeOK
  <2> QED BY <2>1, <2>2, StayMoves, QuietKeeps DEF Quiet
<1>3. ASSUME NEW s \in Schedules, TriggerNext(s) PROVE Held'
  <2> DEFINE trigger == [Idle EXCEPT !.pc = "check", !.schedule = s, !.advance = TRUE]
  <2>1. trigger.pc = "check" /\ trigger.schedule = s
    BY SMTT(30) DEF Idle
  <2>2. proc' = [proc EXCEPT ![Ticker] = trigger] /\ Ticker \in Processes
    BY ZenonT(30), <1>3 DEF TriggerNext, Processes
  <2> HIDE DEF trigger
  <2>3. \A q \in Processes : Moves(q)
    BY ZenonT(30), <1>3, <2>1, <2>2, SetMoves DEF TriggerNext, InCall
  <2> QED BY ZenonT(30), <1>3, <2>3, QuietKeeps DEF Quiet, TriggerNext
<1>4. ASSUME NEW p \in Callers, NEW s \in Schedules, RunNow(p, s) PROVE Held'
  <2> DEFINE trigger == [Idle EXCEPT !.pc = "check", !.schedule = s, !.advance = Due(s)]
  <2>1. trigger.pc = "check" /\ trigger.schedule = s
    BY SMTT(30) DEF Idle
  <2>2. proc' = [proc EXCEPT ![p] = trigger] /\ p \in Processes
    BY ZenonT(30), <1>4 DEF RunNow, Processes
  <2> HIDE DEF trigger
  <2>3. \A q \in Processes : Moves(q)
    BY ZenonT(30), <1>4, <2>1, <2>2, SetMoves DEF RunNow, InCall
  <2> QED BY ZenonT(30), <1>4, <2>3, QuietKeeps DEF Quiet, RunNow
<1>5. ASSUME NEW p \in Callers, CreateChecked(p) PROVE Held'
  <2> DEFINE trigger == [proc[p] EXCEPT !.pc = "creating"]
  <2>1. trigger.pc = "creating" /\ proc' = [proc EXCEPT ![p] = trigger] /\ p \in Processes
    BY <1>5 DEF CreateChecked, TypeOK, Trigger, Processes
  <2> HIDE DEF trigger
  <2>2. \A q \in Processes : Moves(q)
    BY ZenonT(30), <1>5, <2>1, SetMoves DEF CreateChecked, InCall
  <2> QED BY <1>5, <2>2, QuietKeeps DEF Quiet, CreateChecked
<1>6. ASSUME NEW p \in Callers, NEW s \in Schedules, Create(p, s) PROVE Held'
  <2>1. \A q \in Processes : Moves(q)
    BY ZenonT(30), <1>6, SetMoves DEF Create, InCall, Idle, Processes
  <2> QED BY ZenonT(30), <1>6, <2>1, QuietKeeps DEF Quiet, Create
<1>7. CASE Crash
  <2>1. \A q \in Processes : Moves(q)
    BY ZenonT(30), <1>7 DEF Crash, Moves, Idle, InCall
  <2>2. \A i \in DOMAIN runs : generated'[i] = "active" => generated[i] = "active"
    BY <1>7 DEF Crash, TypeOK
  <2> QED BY <1>7, <2>1, <2>2, QuietKeeps DEF Quiet, Crash
<1> QED BY <1>1, <1>2, <1>3, <1>4, <1>5, <1>6, <1>7

-----------------------------------------------------------------------------
(* The strengthening is inductive. *)
THEOREM Invariance == Spec => []IInv
<1>1. Init => IInv
  <2>1. Init => Held
    BY DEF Init, Held, HasSchedule, LatestActive, CallHolds, CallAlone, Idle, InCall
  <2> QED BY SMTT(30), <2>1, TypeInit DEF IInv
<1>2. IInv /\ [Next]_vars => IInv'
  <2> SUFFICES ASSUME IInv, [Next]_vars PROVE IInv'
    OBVIOUS
  <2> USE DEF IInv
  <2>1. CASE UNCHANGED vars
    <3>1. TypeOK'
      BY SMTT(30), <2>1 DEF vars, TypeOK
    <3>2. Held'
      BY <2>1, StayMoves, QuietKeeps DEF vars, Quiet
    <3> QED BY <3>1, <3>2
  <2>2. ASSUME NEW p \in Processes, Step(p) PROVE IInv'
    BY <2>2, TypeStep, HeldStep DEF Held
  <2>3. CASE \E p \in Callers : CreateChecked(p) \/ \E s \in Schedules : Create(p, s) \/ RunNow(p, s)
    <3>1. \E s \in Schedules : TRUE
      BY <2>3 DEF CreateChecked
    <3> QED BY <2>3, <3>1, TypeUsers, HeldRest
  <2>4. CASE \E s \in Schedules : Update(s) \/ Delete(s)
    BY <2>4, TypeUsers, HeldRest
  <2>5. CASE \/ TriggerDue \/ \E s \in Schedules : TriggerNext(s)
             \/ \E i \in DOMAIN generated : finishTask(i)
             \/ \E to \in BOOLEAN : SetArchived(to)
             \/ DisableAgent \/ CancelAgentTasks \/ Tick \/ Crash
    BY <2>5, TypeRest, HeldRest
  <2> QED BY <2>1, <2>2, <2>3, <2>4, <2>5 DEF Next
<1> QED BY <1>1, <1>2, PTL DEF Spec

(* trigger and its callers keep the scheduler's state within its types. *)
THEOREM TypeCorrect == Spec => []TypeOK
BY Invariance, PTL DEF IInv

(* Whatever fails and whenever the process dies, ErrActiveTask keeps every  *)
(* schedule to one generated task that has not ended, but for those whose   *)
(* end could not be saved before the process died.                          *)
THEOREM OneActiveRunAlways == Spec => []OneActiveRun
<1>1. IInv => OneActiveRun
  BY DEF IInv, Held, LatestActive, OneActiveRun, Running, RunsOf, TypeOK
<1> QED BY <1>1, Invariance, PTL

(* The end of a trigger enables no schedule, whatever users and archiving   *)
(* did to it meanwhile: it advances the schedule as it is now.              *)
THEOREM PausedStaysPausedAlways == Spec => PausedStaysPaused
<1> DEFINE Revives(p, s) ==
      proc[p].pc = "record" /\ proc'[p].pc = "release" /\ Exists(s)' /\ tasks'[s].enabled
<1>1. IInv /\ [Next]_vars =>
        \A p \in Processes, s \in Schedules : Revives(p, s) => Exists(s) /\ tasks[s].enabled
  <2> SUFFICES ASSUME IInv, [Next]_vars, NEW p \in Processes, NEW s \in Schedules, Revives(p, s)
               PROVE  Exists(s) /\ tasks[s].enabled
    OBVIOUS
  <2>0. proc'[p] # proc[p] /\ proc'[p] # Idle
    BY DEF Idle
  <2>1. CASE Record(p)
    <3>1. tasks' = tasks \/ tasks' = Recorded(p)
      BY <2>1 DEF Record
    <3>2. proc[p].schedule \in Schedules
      BY SMTT(30), <2>1 DEF Record, IInv, Held, HasSchedule
    <3> QED BY <3>1, <3>2 DEF Recorded, MayAdvance, IInv, TypeOK, Exists
  <2>2. ASSUME NEW q \in Processes, Step(q), q # p PROVE FALSE
    BY <2>0, <2>2 DEF Step, Check, Reserve, AgentIdentity, CreateRoot, DeliverEvent, Record,
                      Release, Return, To, IInv, TypeOK
  <2>3. CASE Step(p) /\ ~Record(p)
    BY <2>0, <2>3 DEF Step, Check, Reserve, AgentIdentity, CreateRoot, DeliverEvent, Release
  <2>4. CASE \E q \in Callers, r \in Schedules : CreateChecked(q) \/ Create(q, r) \/ RunNow(q, r)
    BY <2>0, <2>4 DEF CreateChecked, Create, RunNow, IInv, TypeOK, Processes
  <2>5. CASE \E r \in Schedules : TriggerNext(r)
    BY <2>0, <2>5 DEF TriggerNext, IInv, TypeOK, Processes
  <2>6. CASE Crash
    BY <2>0, <2>6 DEF Crash
  <2>7. CASE UNCHANGED proc
    BY SMTT(30), <2>0, <2>7
  <2>8. CASE \/ \E r \in Schedules : Update(r) \/ Delete(r)
             \/ TriggerDue \/ \E i \in DOMAIN generated : finishTask(i)
             \/ \E to \in BOOLEAN : SetArchived(to)
             \/ DisableAgent \/ CancelAgentTasks \/ Tick \/ UNCHANGED vars
    BY ZenonT(30), <2>7, <2>8 DEF Update, Delete, TriggerDue, finishTask, SetArchived, DisableAgent,
                      CancelAgentTasks, Tick, schedulerVars, vars
  <2> QED BY SMTT(30), <2>1, <2>2, <2>3, <2>4, <2>5, <2>6, <2>8 DEF Next
<1>2. IInv /\ [Next]_vars => [\A p \in Processes, s \in Schedules :
          Revives(p, s) => Exists(s) /\ tasks[s].enabled]_vars
  BY <1>1
<1> QED BY <1>2, Invariance, PTL DEF Spec, PausedStaysPaused

=============================================================================
