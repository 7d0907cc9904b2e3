--------------------------- MODULE ScheduledTasks ---------------------------
(***************************************************************************)
(* The scheduler of src/internal/scheduledtask: schedules that generate    *)
(* agent tasks when they are due (TriggerDue, once a minute) or on demand  *)
(* (RunNow), while users edit them and their agent is archived and         *)
(* restored (internal/api/agent_archive.go).                               *)
(*                                                                         *)
(* Every method saves a copy of the state and then publishes it, so memory *)
(* and the file agree at all times and a crash loses only what is in       *)
(* flight.  The task ledger does not do so when an agent task ends: memory *)
(* keeps an end that could not be saved.  A trigger runs in pieces: the    *)
(* mutex is free while the agent is looked up and while the agent task is  *)
(* created, and a schedule chosen by TriggerDue may have changed before    *)
(* its trigger begins.                                                     *)
(*                                                                         *)
(* All schedules are for one agent, and an update does not move one to     *)
(* another agent.  Time is counted in scheduling periods.                  *)
(***************************************************************************)
EXTENDS Naturals, Sequences

CONSTANTS Schedules,    \* IDs of schedules
          Callers,      \* concurrent calls of Create and RunNow
          Kinds,        \* recurrence and expiry: [once : BOOLEAN, expires : Nat]
          MaxClock,     \* bound: the clock
          MaxEdits,     \* bound: requests of users
          MaxFailures,  \* bound: failed saves, failed calls and crashes
          Ticker, None, Deleted

Item == [once : BOOLEAN, expires : Nat, enabled : BOOLEAN, next : 0..MaxClock + 1]

ASSUME ScheduledTasksAssumption ==
  /\ Kinds \subseteq [once : BOOLEAN, expires : Nat]
  /\ MaxClock \in Nat \ {0} /\ MaxEdits \in Nat /\ MaxFailures \in Nat
  /\ Ticker \notin Callers
  /\ None \notin Item /\ Deleted \notin Item

Processes == Callers \union {Ticker}

VARIABLES tasks,      \* state.Tasks: None, Deleted or a schedule
          runs,       \* state.Runs: [schedule, status], the index is the run's ID
          generated,  \* per run: its agent task
          inFlight,   \* Service.inFlight
          due,        \* TriggerDue: schedules still to trigger
          proc,       \* the triggers under way
          archived,   \* the agent's ArchivedAt # nil
          archiver,   \* setAgentArchived: what it does next
          clock, edits, failures

vars == <<tasks, runs, generated, inFlight, due, proc, archived, archiver,
          clock, edits, failures>>

(* unsaved: ended in memory, active in its file; revived: active again, for *)
(* the process died before the end was saved.                               *)
TaskStatus == {"none", "active", "ended", "unsaved", "revived"}

Running == {"active", "revived"}

Idle == [pc |-> "idle", schedule |-> None, advance |-> FALSE, now |-> 0, run |-> 0, failed |-> FALSE]

Zero == 0  \* the zero time

Init ==
  /\ tasks = [s \in Schedules |-> None]
  /\ runs = <<>> /\ generated = <<>>
  /\ inFlight = {} /\ due = {}
  /\ proc = [p \in Processes |-> Idle]
  /\ archived = FALSE /\ archiver = "idle"
  /\ clock = 1 /\ edits = 0 /\ failures = 0

-----------------------------------------------------------------------------
Exists(s) == tasks[s] \notin {None, Deleted}

expired(item, at) == at > item.expires

Due(s) ==
  /\ Exists(s) /\ tasks[s].enabled
  /\ tasks[s].next # Zero /\ tasks[s].next <= clock
  /\ ~expired(tasks[s], clock)

RunsOf(s) == {i \in DOMAIN runs : runs[i].schedule = s}

ActiveUnlessFailed(s) ==
  \E i \in RunsOf(s) : /\ generated[i] \in Running /\ runs[i].status = "triggered"
                       /\ \A j \in RunsOf(s) : j <= i

(* The latest run decides. *)
hasActiveRunLocked(s) ==
  \E i \in RunsOf(s) : generated[i] \in Running /\ \A j \in RunsOf(s) : j <= i

Occupied(s) == s \in inFlight \/ hasActiveRunLocked(s)

(* nextRunAt: the first slot after now, or none. *)
nextRunAt(item, now) ==
  IF item.once THEN Zero ELSE IF item.next > now THEN item.next ELSE now + 1

Advanced(item, now) ==
  LET next == nextRunAt(item, now)
  IN [item EXCEPT !.next = next, !.enabled = ~item.once /\ ~expired(item, next)]

(* A save or a call may fail. *)
Attempt(ok) ==
  IF ok THEN UNCHANGED failures ELSE failures < MaxFailures /\ failures' = failures + 1

Edit == edits < MaxEdits /\ edits' = edits + 1

schedulerVars == <<runs, generated, inFlight, due, proc>>
agentVars == <<archived, archiver>>

-----------------------------------------------------------------------------
(* Requests of users *)

validSchedule(item) == item.enabled /\ item.next # Zero => item.expires >= item.next

(* Create looks the agent up before it takes the mutex.  A request whose    *)
(* save fails leaves no trace and is left out.                              *)
CreateChecked(p) ==
  /\ proc[p].pc = "idle" /\ ~archived
  /\ \E s \in Schedules : tasks[s] = None
  /\ proc' = [proc EXCEPT ![p].pc = "creating"]
  /\ Edit
  /\ UNCHANGED <<tasks, runs, generated, inFlight, due, agentVars, clock, failures>>

Create(p, s) ==
  /\ proc[p].pc = "creating" /\ tasks[s] = None
  /\ \E kind \in Kinds, enabled \in BOOLEAN, first \in 1..MaxClock :
       LET item == [once |-> kind.once, expires |-> kind.expires, enabled |-> enabled, next |-> first]
       IN validSchedule(item) /\ tasks' = [tasks EXCEPT ![s] = item]
  /\ proc' = [proc EXCEPT ![p] = Idle]
  /\ UNCHANGED <<runs, generated, inFlight, due, agentVars, clock, edits, failures>>

Update(s) ==
  /\ Exists(s)
  /\ \E kind \in Kinds, enabled \in BOOLEAN, next \in {tasks[s].next} \union 1..MaxClock :
       LET item == [once |-> kind.once, expires |-> kind.expires, enabled |-> enabled, next |-> next]
       IN /\ enabled => ~archived /\ next # Zero
          /\ validSchedule(item)
          /\ tasks' = [tasks EXCEPT ![s] = item]
  /\ Edit
  /\ UNCHANGED <<schedulerVars, agentVars, clock, failures>>

Delete(s) ==
  /\ Exists(s)
  /\ tasks' = [tasks EXCEPT ![s] = Deleted]
  /\ Edit
  /\ UNCHANGED <<schedulerVars, agentVars, clock, failures>>

-----------------------------------------------------------------------------
(* trigger, for TriggerDue and RunNow *)

Return(p) == proc' = [proc EXCEPT ![p] = Idle]

RunNow(p, s) ==
  /\ proc[p].pc = "idle" /\ Exists(s)
  /\ proc' = [proc EXCEPT ![p] = [Idle EXCEPT !.pc = "check", !.schedule = s, !.advance = Due(s)]]
  /\ Edit
  /\ UNCHANGED <<tasks, runs, generated, inFlight, due, agentVars, clock, failures>>

TriggerDue ==
  /\ proc[Ticker].pc = "idle" /\ due = {}
  /\ due' = {s \in Schedules : Due(s) /\ ~Occupied(s)}
  /\ due' # {}
  /\ UNCHANGED <<tasks, runs, generated, inFlight, proc, agentVars, clock, edits, failures>>

TriggerNext(s) ==
  /\ proc[Ticker].pc = "idle" /\ s \in due
  /\ due' = due \ {s}
  /\ proc' = [proc EXCEPT ![Ticker] = [Idle EXCEPT !.pc = "check", !.schedule = s, !.advance = TRUE]]
  /\ UNCHANGED <<tasks, runs, generated, inFlight, agentVars, clock, edits, failures>>

(* checkAgent, and the time of the trigger. *)
Check(p) ==
  /\ proc[p].pc = "check"
  /\ IF archived THEN Return(p)
     ELSE proc' = [proc EXCEPT ![p].pc = "reserve", ![p].now = clock]
  /\ UNCHANGED <<tasks, runs, generated, inFlight, due, agentVars, clock, edits, failures>>

(* The run is saved before its task is created. *)
Reserve(p) ==
  LET s == proc[p].schedule
  IN /\ proc[p].pc = "reserve"
     /\ \E ok \in BOOLEAN :
          IF Occupied(s)
          THEN ok /\ Return(p) /\ UNCHANGED <<runs, generated, inFlight, failures>>
          ELSE /\ Attempt(ok)
               /\ IF ok
                  THEN /\ runs' = Append(runs, [schedule |-> s, status |-> "triggered"])
                       /\ generated' = Append(generated, "none")
                       /\ inFlight' = inFlight \union {s}
                       /\ proc' = [proc EXCEPT ![p].pc = "identity", ![p].run = Len(runs) + 1]
                  ELSE Return(p) /\ UNCHANGED <<runs, generated, inFlight>>
     /\ UNCHANGED <<tasks, due, agentVars, clock, edits>>

To(p, there, failed) == proc' = [proc EXCEPT ![p].pc = there, ![p].failed = failed]

(* CreateAgentTask: the agent, the task, the delivery. *)
AgentIdentity(p) ==
  /\ proc[p].pc = "identity"
  /\ IF archived THEN To(p, "record", TRUE) ELSE To(p, "root", FALSE)
  /\ UNCHANGED <<tasks, runs, generated, inFlight, due, agentVars, clock, edits, failures>>

CreateRoot(p) ==
  /\ proc[p].pc = "root"
  /\ \E ok \in BOOLEAN :
       /\ Attempt(ok)
       /\ IF ok THEN /\ generated' = [generated EXCEPT ![proc[p].run] = "active"]
                     /\ To(p, "deliver", FALSE)
          ELSE To(p, "record", TRUE) /\ UNCHANGED generated
  /\ UNCHANGED <<tasks, runs, inFlight, due, agentVars, clock, edits>>

(* A task that was not delivered is marked failed, if that can be saved. *)
DeliverEvent(p) ==
  /\ proc[p].pc = "deliver"
  /\ \E ok, marked \in BOOLEAN :
       /\ Attempt(ok)
       /\ To(p, "record", ~ok)
       /\ generated' = IF ~ok /\ marked THEN [generated EXCEPT ![proc[p].run] = "ended"] ELSE generated
  /\ UNCHANGED <<tasks, runs, inFlight, due, agentVars, clock, edits>>

EvenIfPaused(item) == TRUE

MayAdvance(item) == item.enabled

(* The schedule as it is now is advanced, not the one that was chosen. *)
Recorded(p) ==
  LET s == proc[p].schedule
  IN IF Exists(s) /\ proc[p].advance /\ MayAdvance(tasks[s])
     THEN [tasks EXCEPT ![s] = Advanced(tasks[s], proc[p].now)]
     ELSE tasks

Record(p) ==
  /\ proc[p].pc = "record"
  /\ \E ok \in BOOLEAN :
       IF p = Ticker /\ proc[p].failed /\ hasActiveRunLocked(proc[p].schedule)
       THEN ok /\ UNCHANGED <<tasks, runs, failures>>
       ELSE /\ Attempt(ok)
            /\ IF ok
               THEN /\ tasks' = Recorded(p)
                    /\ runs' = IF proc[p].failed THEN [runs EXCEPT ![proc[p].run].status = "failed"] ELSE runs
               ELSE UNCHANGED <<tasks, runs>>
  /\ To(p, "release", FALSE)
  /\ UNCHANGED <<generated, inFlight, due, agentVars, clock, edits>>

NotReleased(s) == inFlight

Released(s) == inFlight \ {s}

Release(p) ==
  /\ proc[p].pc = "release"
  /\ inFlight' = Released(proc[p].schedule)
  /\ Return(p)
  /\ UNCHANGED <<tasks, runs, generated, due, agentVars, clock, edits, failures>>

Step(p) ==
  \/ Check(p) \/ Reserve(p) \/ AgentIdentity(p) \/ CreateRoot(p) \/ DeliverEvent(p)
  \/ Record(p) \/ Release(p)

-----------------------------------------------------------------------------
(* The agent: it ends its tasks; setAgentArchived archives and restores it. *)

(* Memory changes first and keeps the change when the save fails. *)
finishTask(i) ==
  /\ generated[i] \in Running
  /\ \E ok \in BOOLEAN :
       /\ Attempt(ok)
       /\ generated' = [generated EXCEPT ![i] = IF ok THEN "ended" ELSE "unsaved"]
  /\ UNCHANGED <<tasks, runs, inFlight, due, proc, agentVars, clock, edits>>

SetArchived(to) ==
  /\ archiver = "idle" /\ Edit
  /\ archived' = to
  /\ archiver' = IF to THEN "disable" ELSE "idle"
  /\ UNCHANGED <<tasks, schedulerVars, clock, failures>>

Disabled == [s \in Schedules |-> IF Exists(s) THEN [tasks[s] EXCEPT !.enabled = FALSE] ELSE tasks[s]]

DisableAgent ==
  /\ archiver = "disable"
  /\ \E ok \in BOOLEAN : Attempt(ok) /\ tasks' = IF ok THEN Disabled ELSE tasks
  /\ archiver' = "cancel"
  /\ UNCHANGED <<schedulerVars, archived, clock, edits>>

(* Tasks are cancelled one by one, each saved first; the first error ends it. *)
CancelAgentTasks ==
  LET active == {i \in DOMAIN generated : generated[i] \in Running} IN
  /\ archiver = "cancel"
  /\ \E ok \in BOOLEAN, cancelled \in SUBSET active :
       /\ Attempt(ok)
       /\ ok => cancelled = active
       /\ generated' = [i \in DOMAIN generated |->
                          IF i \in cancelled THEN "ended" ELSE generated[i]]
  /\ archiver' = "idle"
  /\ UNCHANGED <<tasks, runs, inFlight, due, proc, archived, clock, edits>>

Tick == clock < MaxClock /\ clock' = clock + 1
        /\ UNCHANGED <<tasks, schedulerVars, agentVars, edits, failures>>

(* The process dies and starts again: NewService, reconcileArchivedSchedules, *)
(* which only logs that DisableAgent failed.                                  *)
Crash ==
  /\ Attempt(FALSE)
  /\ inFlight' = {} /\ due' = {}
  /\ proc' = [p \in Processes |-> Idle]
  /\ archiver' = "idle"
  /\ \E ok \in BOOLEAN : tasks' = IF archived /\ ok THEN Disabled ELSE tasks
  /\ generated' = [i \in DOMAIN generated |->
                     IF generated[i] = "unsaved" THEN "revived" ELSE generated[i]]
  /\ UNCHANGED <<runs, archived, clock, edits>>

Next ==
  \/ \E s \in Schedules : Update(s) \/ Delete(s) \/ TriggerNext(s)
  \/ \E p \in Callers : CreateChecked(p) \/ \E s \in Schedules : Create(p, s) \/ RunNow(p, s)
  \/ TriggerDue
  \/ \E p \in Processes : Step(p)
  \/ \E i \in DOMAIN generated : finishTask(i)
  \/ \E to \in BOOLEAN : SetArchived(to)
  \/ DisableAgent \/ CancelAgentTasks \/ Tick \/ Crash

Spec == Init /\ [][Next]_vars

(* The ticker fires every minute and every started trigger runs on.  Nobody *)
(* has to end a task, to send a request or to restore the agent.            *)
Fairness ==
  /\ WF_vars(TriggerDue)
  /\ WF_vars(\E s \in Schedules : TriggerNext(s))
  /\ \A p \in Processes : WF_vars(Step(p))

FairSpec == Spec /\ Fairness

-----------------------------------------------------------------------------
Trigger == [pc : {"idle", "creating", "check", "reserve", "identity", "root", "deliver", "record", "release"},
            schedule : Schedules \union {None}, advance : BOOLEAN, now : 0..MaxClock,
            run : Nat, failed : BOOLEAN]

(* Types of the scheduler's state. *)
TypeOK ==
  /\ tasks \in [Schedules -> {None, Deleted} \union Item]
  /\ runs \in Seq([schedule : Schedules, status : {"triggered", "failed"}])
  /\ generated \in Seq(TaskStatus) /\ Len(generated) = Len(runs)
  /\ inFlight \subseteq Schedules /\ due \subseteq Schedules
  /\ proc \in [Processes -> Trigger]
  /\ archived \in BOOLEAN /\ archiver \in {"idle", "disable", "cancel"}
  /\ clock \in 1..MaxClock /\ edits \in 0..MaxEdits /\ failures \in 0..MaxFailures

(* "scheduled task already has an active generated task" (ErrActiveTask):   *)
(* of two agent tasks of a schedule that have not ended, the older one had  *)
(* ended, but its end could not be saved before the process died.  Nothing  *)
(* else leaves two: not that a task is created outside the mutex, that the  *)
(* state of the last run was not saved, that a failed delivery leaves its   *)
(* task active, nor that a crash empties inFlight.                          *)
OneActiveRun ==
  \A s \in Schedules : \A i, j \in RunsOf(s) :
    i < j /\ generated[i] \in Running /\ generated[j] \in Running => generated[i] = "revived"

(* A trigger works on a schedule chosen earlier: when it ends, it never     *)
(* enables one that was paused or deleted meanwhile, by a user or because   *)
(* the agent was archived.                                                  *)
PausedStaysPaused ==
  [][\A p \in Processes, s \in Schedules :
       proc[p].pc = "record" /\ proc'[p].pc = "release" /\ Exists(s)' /\ tasks'[s].enabled
         => Exists(s) /\ tasks[s].enabled]_vars

(* A due schedule of an agent that is not archived is served: it is moved   *)
(* to its next slot or its task is under way, whatever failed before, also  *)
(* after a crash between the creation of the task and the save.             *)
DueIsServed ==
  \A s \in Schedules : Due(s) ~> ~Due(s) \/ hasActiveRunLocked(s) \/ archived
=============================================================================
