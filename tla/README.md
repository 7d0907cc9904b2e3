# Formal models of CSGClaw

TLA+ modules for the concurrent and crash-prone parts of CSGClaw: the agent
engine, the interaction coordinator, participant work leases and what the Web
shows of them, the task repository, room tasks and the scheduler.  TLC checks
them on small instances.  TLAPS proves the safety properties for every value of
the constants: each safety property of a passing run is also a theorem.

- [1. The system](#1-the-system)
- [2. Modules and how they follow the code](#2-modules-and-how-they-follow-the-code)
- [3. Runs: what TLC checks](#3-runs-what-tlc-checks)
- [4. Theorems: what TLAPS proves](#4-theorems-what-tlaps-proves)
- [5. Disagreements with the documentation](#5-disagreements-with-the-documentation)
- [6. Other observations](#6-other-observations)
- [7. What is not modelled](#7-what-is-not-modelled)
- [8. Plan](#8-plan)

`PROJECT.json` lists every component, run, mutant, hazard and theorem, and maps
each definition to the lines it models.

## 1. The system

CSGClaw runs agents.  A user writes in a room or a session; a channel hands the
message to the **agent engine** as a *turn* of a conversation; a runtime adapter
(Codex, DSH) executes it.  `docs/tech/architecture.md` names the owners.

```
 Web / CLI ── HTTP API ──┬── sessions, IM, channels ──> agent engine ──> runtime adapter
                         │                                 │   │
                         │            interaction coordinator  lifecycle coordinator
                         ├── work leases (who is working, stop) ──SSE──> Web reducer
                         ├── agent tasks, room tasks ──> task repository (two files per task)
                         └── scheduler ──> agent tasks
```

### Inventory

| Part | State | Operations | What is hard | What makes it correct |
| --- | --- | --- | --- | --- |
| Lifecycle coordinator `agentengine/lifecycle` | per agent: token, `closed`, `active`, a replaceable `drained` channel | Execution, Mutation, MutationInterrupt, releases, reentrancy | drain, timeout and last release race; the channel is replaced by the next first execution | a mutation runs alone; admission always reopens |
| Conversation engine `agentengine/engine.go` | `active`, `controls`, `completed`, `completedOrder` per conversation | Run (reject, wait, supersede), Cancel, Reset, replay | everything waits without the mutex; retries meet a turn in any phase; eviction | one turn at a time, no double execution, no abandoned control |
| Turn events `engine.go`, `image_generation.go`, `video_generation.go` | `sequence`, `events`, `emitMu`, the cached copy | recordAndEmit, emitDetached, media tasks | a failing sink; a video that outlives its turn | delivery in recorded order; one outcome per media task, always reported |
| Interaction coordinator `interactionstate` | records, reservations, timers | Register, CreateDetached, Resolve, Observe, BeginTurn, CompleteTurn, Interrupt, expiry, prune | Resolve calls out between reservation and end while timers, turns and resets go on | truthful acknowledgement, one notification, final outcomes |
| Work leases `worklease`, `channel/csgclaw/execution/work.go` | active leases, tombstones, subject index, controllers | StartOrRenew, UpdateStatus, RequestStop, Finish, Sweep, StopTurn | publication after unlock, stale clocks, late PUTs, duplicated stops | an ended lease stays ended; every stop is owned and answered |
| Work status in the Web `worklease/events.go`, `participantWorkState.ts` | bus channels, per-lease revision, retention | Publish, applyWorkEvent, applyClock | lossy channel, no replay, server death | nobody is shown as working for ever |
| Task repository `taskcore` | roots, children, events in memory; `tasks.json`, `events.jsonl` | CreateRoot, Claim, Complete, Fail, Block, Mutate, SaveSnapshot, load | torn appends, crash between two files, failed saves | the two files agree; committed history only grows |
| Scheduler `scheduledtask` | schedules, runs, `inFlight` | Create, Update, Delete, RunNow, TriggerDue, DisableAgent | the task is created outside the mutex; stale due list; crash before the save | one active task per schedule unless the end of one was lost, no schedule revived, every due slot served |
| Room tasks `roomtask` | parents queued per room, subtasks with worker, attempt, dependencies, undelivered events | Create, Start, Plan, AppendPlan, Dispatch, Claim, UpdateExecution, Review, Report, RequestStop, Recover, ResolveRecovery, RetryDelivery, MembersChanged, room deletion | delivery without the lock after every change, also into other rooms; late reports of old attempts; restarts in the middle of an execution | one task per worker; results of the current attempt only; nothing replayed, orphaned or forgotten |
| Agent controller, archive, extensions `agentengine/agents`, `runtime_extension_manager.go` | desired state, generations | Update, Recreate, Archive, Apply, Delete | composition with the gate and running turns | (planned, section 8) |
| Everything else | | | I/O, formatting, external services | section 7 |

### Interactions between the parts

- An execution lease of the **lifecycle coordinator** surrounds the runtime call
  of a turn; an agent mutation (stop, reload, archive) interrupts and drains it.
- The **engine** calls the **interaction coordinator** when a turn begins,
  completes, is cancelled or reset.  A detached answer that continues starts a
  turn of its own in the engine.
- A turn of the CSGClaw channel holds a **work lease**; its updates travel over
  the bus and SSE to the **Web reducer**.
- The **scheduler** creates agent tasks in the **task repository** through
  `agenttask`, and archiving an agent disables its schedules and cancels its
  tasks.
- **Room tasks** are kept in the **task repository** through `Mutate`; archiving
  an agent, removing a member and deleting a room change them.

## 2. Modules and how they follow the code

Common conventions.  An action is one critical section of the mutex that guards
the state, or one stretch of code that touches no shared state; where the code
unlocks, calls out or waits, a new action begins.  Variables and operators keep
the names of the fields and functions they stand for.  Variables marked
*history* in a module record what happened for the properties and are read by
no guard.  Next to a mapped definition may stand a second one with the same
parameters (for instance `FirstLeaseKeepsChannel` before `FirstLeaseChannel`):
it is a plausible wrong version of that code, listed under "mutants", with which
the property named there must fail.

| Module | Code | Notes |
| --- | --- | --- |
| `LifecycleGate` | `agentengine/lifecycle/coordinator.go` | gate of one agent |
| `AgentExclusion` | its promise | abstract readers/writer specification |
| `LifecycleGateProofs` | | proofs |
| `ConversationEngine` | `agentengine/engine.go` (admission, control, completion, replay) | any number of conversations |
| `ConversationEngineProofs` | | proofs |
| `TurnEvents` | `engine.go` (events), `image_generation.go`, `video_generation.go` | one turn |
| `TurnEventsProofs` | | proofs |
| `InteractionCoordinator` | `agentengine/interactionstate/coordinator.go`, its calls in `engine.go` | one conversation |
| `InteractionCoordinatorProofs` | | proofs |
| `WorkLease` | `worklease/registry.go`, `control.go`, `completion.go`, `channel/csgclaw/execution/work.go`, `api/participant_work.go` | leases of one participant in one room |
| `WorkView` | `worklease/events.go`, `participantWorkState.ts` | composes `WorkLease` with bus, stream and reducer |
| `WorkLeaseProofs` | | proofs about `WorkLease` and `WorkView` |
| `TaskStore` | `taskcore/service.go`, `store.go`, `transaction.go`, `agenttask/service.go` | any number of root tasks |
| `TaskStoreProofs` | | proofs |
| `ScheduledTasks` | `scheduledtask/service.go`, `store.go`, `api/agent_archive.go`, `agenttask/service.go` | schedules of one agent |
| `ScheduledTasksProofs` | | proofs |
| `RoomTask` | `roomtask/service.go`, `recovery.go`, `extend.go`, `projection.go`, its callers in `api` | any number of rooms |
| `RoomTaskProofs` | | proofs |
| `MC*` | | instances for TLC |

**LifecycleGate.**  A process is a goroutine that may hold an execution lease,
ask for a mutation, nest mutations (the reentrant context) or ask for a mutation
while it still holds its own lease.  `MutationInterrupt` is split where it can
block or be overtaken: the select on the token (`TakeToken`, `CancelWait`),
`CloseAdmission`, the interruption callback (`Interrupt`), the select on the
captured channel (`Drained`, `DrainTimeout`), and the release closure's two
steps (`ReleaseMutation` reopens, `ReturnToken` puts the token back).  Channels
are numbered because `drained` is replaced by each first execution and a
mutation waits on the one it captured.

**ConversationEngine.**  A call is one goroutine in `Run`, `Cancel` or `Reset`.
The active turn and the control of a conversation are named by the call that
installed them.  `Run` is `PreflightTurn` (validation and replay),
`ResolveInputFiles`, the loop of `admit` with one action per outcome
(`AdmitKnown`, `AdmitFree`, `AdmitReject`, `AdmitWait`, `AdmitSupersede`, then
`AdmitAgain`, `WaitExpires`, `SupersedeExpires`, `PromoteControl`), and execution
(`PrepareFails`, `EnterRuntime`, `RuntimeAccepts`, `RuntimeReturns`,
`GenerateMedia`), each ending in `Complete`, which caches a dispatched turn,
evicts the oldest and closes `done`.  A body stands for everything
`sameTurnRequest` compares.

**TurnEvents.**  Emitters are the runtime, one goroutine per media task and the
detached question.  Recording and handing to the sink are two steps, with
`emitMu` held in between except for `emitDetached`.  Completion copies the
events into the cache; a video may end after that.  A sink that answers with an
error is taken not to have kept the event.

**InteractionCoordinator.**  A responder is one call of `Resolve`: it reserves
(`Reserve`, `Refuse`), then without the mutex runs the transcript callback
(`BeforeResolve`), checks for interruption, delivers to the runtime
(`ResolveNative`) or continues with a turn of its own (`ContinueDetached`), and
ends in `FinishResolve`, perhaps followed by `ExpireAfterFailure`.  Turns, the
timer, `Observe`, pruning and `Invalidate` (Cancel, Reset, lifecycle) interleave
with it.  A question asked in a session has no notification; the model counts one
for it all the same, where the code calls the function that would notify.  That turns of a conversation exclude each other is taken from
`ConversationEngine`, where it is proved.

**WorkLease / WorkView.**  Every registry method reads the clock before it locks
(`Now`, up to `MaxLag` old) and publishes after it unlocks (`outbox`).  The
holder's goroutine, its renewal and observer goroutines, the stop calls with the
dispatcher, the janitor and a late PUT are separate processes.  `WorkView` adds
the bounded subscriber channel, the SSE stream that loses what it holds, the
reducer with its retention, and the death of the server.  Server and browser read
one clock: `ViewAgrees` says nothing of a browser whose clock is off.  A stop
request is identified by the instant at which it was made, which the code reads
in nanoseconds: two requests never share one here (`Requested`).

**TaskStore.**  The state of a task is its status and the set of changes applied
to it, each named by the event that reports it, so that "the two files agree" is
a comparison of sets.  Of an event only its number is kept, and whether its line
is whole.  A save is `RepairTail`, `appendEvents`, `Commit`, each of
which may fail, the append also in the middle of a line; `Crash` may come at any
point and `Restart` loads what `readCommittedEvents` accepts, or panics as
`NewService` does.

**ScheduledTasks.**  A trigger is `Check`, `Reserve`, `AgentIdentity`,
`CreateRoot`, `DeliverEvent`, `Record`, `Release`; the mutex is free between
them.  The ticker works through the list `TriggerDue` copied; `RunNow` callers,
users' edits, archiving (`SetArchived`, `DisableAgent`, `CancelAgentTasks`), the
end of tasks and crashes interleave.  `finishTask` ends a generated task in memory
before it saves: if the save fails the task is "unsaved", ended for this process,
and a crash makes it run again ("revived").

**RoomTask.**  A handler changes the ledger in one critical section (one action
per operation of the service: `Start`, `Plan`, `AppendPlan`, `Dispatch`,
`DispatchWaits`, `UpdateExecution`, `Review`, `Report`, `RequestStop`, ...) and then
delivers without the mutex: `Visit` sends the events of one parent (each time
all of them, which the room tells apart by their IDs; only the report's delivery is
recorded in the ledger),
`recordNext` wakes the Manager for the next parent, `releaseCapacity` returns the
subtasks that waited for a worker and delivers their rooms in turn (the `stack`
of a call).  `VisitFails` is a send that fails and ends the call.  `Recover`
is a restart of the service, after which a delivery that was under way is "lost":
it never comes back; `CheckRemoval` and `RemoveRoomMember` are the check
and the act of a member removal, `BeginRoomDeletion` and `DeleteRoom` those of a
deletion.  `DeleteUser` is `im.DeleteUser`, which takes a user out of every room
and leaves the rooms that cannot do without them gone (`dropped`), asking nobody.  A
request that is refused changes nothing and is not a step.

### Abstractions

Payloads, wording, rendering and logging are left out.  Request bodies, answers
and files are reduced to what the code compares or to the failures they cause.
Time is a small counter; durations keep their order, not their size.  The
runtime adapters, the control bus that forwards stops to other processes and the
delivery of agent tasks are external: each is the set of results the calling
code handles.  Per-module simplifications are in the module headers and in the
component notes of `PROJECT.json`.

## 3. Runs: what TLC checks

`tlc -config X.cfg M` with the module and configuration below.  States are the
distinct states TLC finds.

| Run | Module / cfg | States | Checks |
| --- | --- | --- | --- |
| `gate` | `MCLifecycleGate` | 70 K | `FlagsMatchOwner`, refinement `ImplementsExclusion`, liveness `AdmissionReopens` |
| `engine` | `MCConversationEngine` | 328 K | `OneActiveTurn`, `ControlHasOwner`, `ResetExcludesTurns`, `NeverExecutedTwice`, `AnsweredWithOwnTurn`, liveness `ControlsEnd`, `SupersedeGetsIn` |
| `events` | `MCTurnEvents` | 2.5 M | `EmittedInOrder`, `OneOutcome`, `VideoReported` |
| `interactions_safety` | `MCInteractionCoordinator` | 2.1 M | `AcknowledgedTruly`, `TurnsOrderAnswers`, `AnswersNotLost`, `NotifiedOnce`, `DeadlineHolds`, `TerminalIsFinal` |
| `interactions_orphan_doc` | `...Orphan.cfg` | violation | `NativeEndsWithTurn` (section 5) |
| `lease` | `MCWorkLease` | 1.5 M | `StopOwned`, `FailureIsOwn`, `EndedStaysEnded`, `RevisionsIdentify` |
| `view` | `MCWorkView` | 209 K | `ViewAgrees`, liveness `ViewClears`, `StopAnswered` |
| `task_store` | `MCTaskStore` | 400 K | `CommittedTogether`, `MemoryIsDurable`, `HistoryGrows` |
| `task_store_journal_doc` | `...Journal.cfg` | violation | `Recoverable` (section 5) |
| `schedules` | `MCScheduledTasks` | 688 K | `OneActiveRun`, `PausedStaysPaused`, liveness `DueIsServed` |
| `room_capacity` | `MCRoomTask` | 341 K | `OneTaskPerWorker`, `NoOrphans`, `NeverReplayed`, liveness `WaitersReleased` |
| `room_queue` | `MCRoomTask`, `MCRoomTaskQueue.cfg` | 382 K | `ResultOfCurrentAttempt`, `SomethingReady`, `RoomQueueOrder`, liveness `NextParentWoken` |

The type invariants `TypeOK` are part of the inductive invariants that section 4
proves and are not repeated in the configurations.

### Bounds, and why they are enough

- **gate**: three goroutines give a holder, a drainer and a third that is
  admitted or waits; nesting depth two covers the reentrant path; three channels
  let a channel be replaced after it was captured elsewhere.
- **engine**: three calls on one conversation, two turn IDs, all admission
  modes, one different body, one media body, and a cache of one turn (1024 in the
  code) so that eviction happens.  A supersede against a wait against a Reset, or
  two retries of one turn beside another turn, need no fourth call.
  Conversations share only the cache order; the proofs cover any number of them.
- **events**: an image, a video, one runtime output and the detached question,
  two delivery attempts (three in the code): a failed, a retried and an abandoned
  delivery all occur.
- **interactions**: one interaction of each kind, two responders and three turns:
  the asking turn, one that supersedes it and a continuation.
- **leases**: a lease of one time unit, a tombstone of one or two and stalls of
  one let renewal, expiry, a lapsed tombstone and a late PUT happen in every order
  within the horizon.  `lease` has three stop calls: a request, its duplicate, and
  a retry after the failure of the first, which `FailureIsOwn` is about.  A status
  update is explored with at most two of them (`StatusOrThreeStops`).  `view` has
  two.
  Both runs read fresh clocks (`MaxLag` 0); the proofs cover stale ones.
  `WorkLeaseAssumption` states the margins the code's constants have (a late PUT
  arrives within the tombstone's life; gaps between renewals are shorter than
  lease plus tombstone), `WorkViewAssumption` that the reducer remembers a closed
  lease at least as long as a lease lasts (70 s against at most 60 s in the code):
  with a shorter retention an update that was overtaken would show an ended lease
  as working again.
- **task store**: a room's task, changed through `Mutate`, and an agent's task,
  changed in place, share the event numbers; three failures allow a failed
  append, a failed commit and a crash in one history; five event numbers allow a
  number to be reused after each.
- **schedules**: one schedule, the ticker and one `RunNow` caller are the two
  triggers that can meet; three kinds of recurrence; two failures allow a failed
  save followed by a crash, after which a task whose end was not saved runs again
  beside a newer one.  The proofs cover any number of each.
- **room tasks**: `room_capacity` has two rooms that share one worker, the
  smallest case in which capacity couples rooms, and two handlers whose deliveries
  overlap, with a failed send or a restart, and the first room deleted or lost with
  a user at any moment.  `room_queue` has one room with two parents whose subtasks
  want the same worker, second attempts, an extended plan, a plan in a circle, a
  worker who leaves or is deleted and comes back, and a failed send or a restart;
  it has one handler, so `NextParentWoken` is checked for a delivery that nobody
  overtakes.  In both a failed send and a restart exclude each other
  (`MaxFailures` 1).  The proofs of the safety properties cover any number of each.

Symmetry is used only in runs that check safety.  Deadlock is checked in `gate`
and in the runs of room tasks; elsewhere calls are made once, clocks and counters
are bounded, and the system may come to rest.

### Fairness

- **gate**: a goroutine inside `MutationInterrupt` runs on; the drain has a timer;
  a granted mutation nests finitely often and is released in a `defer` (strong
  fairness of `ReleaseMutation`); receivers of a Go channel queue in order
  (strong fairness of `TakeToken`).  Executions may last for ever.
- **engine**: goroutines are scheduled; the runtime returns once the turn's
  context is cancelled, as both adapters do, and its Reset returns; an uncancelled
  turn may run for ever, and no caller is forced to give up: a Reset ends because
  the turn it cancelled ends, not because its context expires.
- **view**: timers fire, streams drain, the goroutines of a live server go on,
  `Cancel` is bounded by its context.  A turn may run for ever unless it is
  cancelled, and the server may die.
- **schedules**: the ticker fires and a started trigger runs on.  Nobody is
  obliged to end a task, to edit or to restore an agent.
- **room tasks**: a handler that runs goes on to its end (weak fairness of its
  delivery steps).  A failed send answers with the room and the command that
  repeats it ("run task retry-delivery --room ..."), and somebody does (strong
  fairness of `RetryDelivery` for a room in `failed`, since a free handler is not
  there all the time in a model with one or two).  No operation of a Manager or a worker
  is assumed to happen.

Every property of a passing run has a mutant in `PROJECT.json`, a plausible
mistake in the mapped code under which TLC finds the property violated.

## 4. Theorems: what TLAPS proves

`tlapm M.tla` checks each proof module; nothing is assumed beyond the named
`ASSUME`s of the modules (finiteness of `Procs`, types of constants, model
values apart from the data, and the margins of the lease times in section 3),
which TLC evaluates in the runs.  Each invariant theorem rests on an inductive
invariant `IInv`; the names in the paragraphs are its conjuncts, defined with a
comment at the head of the proof module.

**LifecycleGateProofs** (any finite set of goroutines, any nesting depth).
`MutationExcludesExecution`, `ChannelDiscipline` (`DrainedMeansIdle`),
`FlagsFollowOwner` (`FlagsMatchOwner`), `OnlyDrainsWhileClosed`, and
`GateImplementsExclusion`: the gate implements `AgentExclusion`.  Exclusion is
not inductive by itself: that a drain which sees its channel closed sees no lease
needs to know that the captured channel is still the current one
(`CapturedCurrent`), which holds because nothing is admitted after admission
closed, which needs the flag to follow its one owner (`OneOwner`,
`FlagsMatchOwner`).  `IInv` is the conjunction.  The refinement follows: every
step of the gate is a step of `AgentExclusion` or leaves its variables unchanged.

**ConversationEngineProofs** (any calls, conversations, requests, cache size).
`OneTurnAtATime` (`OneActiveTurn`), `ControlsAreOwned` (`ControlHasOwner`),
`ResetIsExclusive` (`ResetExcludesTurns`), `ExecutedOnce`
(`NeverExecutedTwice`).  The strengthening says that the holder of a control
sees no turn except the one it waits for (`ControlSees`), that only returned
calls have closed their channels, that a turn which is running or about to
replace another is not in the cache (`TurnIsNew`), and that every execution is
accounted for by an eviction, by the cache entry or by the turn still running
(`ExecutionsCounted`); the last gives `NeverExecutedTwice`.
`AnsweredTruthfully` (`AnsweredWithOwnTurn`) needs a second invariant, `Answers`:
a call that ran its turn holds its own result (`OwnResults`), a call that joined
a running turn waits for one with its turn ID and body (`Joined`), and a cache
entry is a call that ran that very turn to the end (`Cached`).  Each of `replay`,
`await` and eviction then hands on a result of the right turn.

**TurnEventsProofs** (any images, videos, outputs, delivery attempts).
`TypeCorrect`, `SinkSeesOrder` (`EmittedInOrder`), `SinkToldOnce`
(`OneOutcome`), `VideosEndOnRecord` (`VideoReported`).  Order needs that whoever
hands an ordered event to the sink holds `emitMu` (`HoldsEmitMu`) and that its
event is newer than all delivered ones (`Numbered`); one outcome needs that the
event in flight is the one the phase of its task reports (`ReportsPhase`) and
that a task that told the sink an outcome has ended (`ToldMeansEnded`).

**InteractionCoordinatorProofs** (any interactions, responders, turns).
`ResolveTellsTheTruth` (`AcknowledgedTruly`), `NotifiesOnce` (`NotifiedOnce`),
`BeginTurnOrders` (`TurnsOrderAnswers`), `ContinuedAnswersKept`
(`AnswersNotLost`), `DeadlinesHold` (`DeadlineHolds`), `TerminalRecordsStay`
(`TerminalIsFinal`).  The core is that a responder past its first step holds the
reservation of its record (`Owns`) alone (`Alone`); `Reached` and `Dispatched`
say that a response about to succeed did reach the runtime or start its turn,
`AskedBefore` that a pending question is older than the turn under way, `Kept`
that a continued answer keeps its question unless it is invalidated, `Armed` that
a pending question has its timer until the deadline.

**WorkLeaseProofs** (any leases and stop calls, clocks stale by up to `MaxLag`,
any times within the assumptions).  `TypeSafety`, `EndedLeasesStayEnded`
(`EndedStaysEnded`), `RequestedStopsAreOwned` (`StopOwned`), `FailuresAreOwn`
(`FailureIsOwn`), `RevisionsIdentifyUpdates` (`RevisionsIdentify`) for the
registry, and `ViewShowsRegistry` (`ViewAgrees`) for its composition with bus,
stream and reducer.  For the registry: a renewing turn never loses its lease
without meeting the tombstone (`Renewals`), which is where the margin between
stall, lease and tombstone enters; an ended lease is refused for as long as a PUT
may be under way (`Refused`); a lease that would be created has never been seen
or stopped (`Created`); a stop call knows its lease and the lease its latest
request (`Requests`); callers hold different revisions (`Revisions`, `Slots`).
For the view: `Flight` are the updates that have not reached the reducer; each
is in one place (`Once`), revisions tell them apart and none was applied
(`Distinct`), none is newer than the lease (`Bounded`) or promises more than a
lease period (`InTime`).  `Faithful` then says, for a lease that lost no update:
while it is active its newest update is under way or is what is shown (`Shown`);
when it is gone its last update is under way, or it is shown no more and no
update left can bring it back (`Gone`, `Stale`).

**TaskStoreProofs** (any tasks, events, failed writes and crashes).
`TypeCorrect`, `CommitIsAtomic` (`CommittedTogether`), `MemoryFollowsFiles`
(`MemoryIsDurable`), `HistoryOnlyGrows` (`HistoryGrows`).  A save is correct
because of what the journal looks like behind the marker at each step
(`JournalAtStep`: anything before the repair, exactly the committed events
before the append, those and the new ones before the commit), because the event
numbers of the save follow all earlier ones (`SavesNext`, `Numbered`), and
because memory is what the files load even in the middle of a save (`Durable`).
The operators need their own theory: `readCommittedEvents` reads up to the
marker, or to the first line that is beyond it or torn, so `Committed` is shown
to be the one cut of the journal with that property (`CutExists`, `CutUnique`),
to be unchanged by the repair and by any tail of a failed save
(`CommittedOfRepaired`, `CommittedOfTail`), and to grow by exactly the new events
at the commit (`CommittedAfterCommit`).  That the cut exists is an
induction over the lines, done with the well-foundedness of the natural numbers
(`LeastExists`), which needs no operator as a parameter.

**RoomTaskProofs** (any rooms, workers, tasks, plans, handlers, attempts, failed
sends and restarts).  `TypeCorrect`, `WorkersHaveOneTask` (`OneTaskPerWorker`),
`RunsOnAcceptedWork` (`DependenciesAccepted`), `ResultsAreCurrent`
(`ResultOfCurrentAttempt`), `NothingIsOrphaned` (`NoOrphans`), `QueueIsRespected`
(`RoomQueueOrder`), `StopsAreFinal` (`StopRevokes`), `PlansNeverBlock`
(`SomethingReady`), and the action property `ExecutionsAreNotReplayed`
(`NeverReplayed`).  `NextStep` reduces the actions to what a step may do to one
task, so that most conjuncts are checked against a dozen cases.  The
strengthening: who occupies a worker waits for nobody and a task to be recovered
is blocked (`WaitsBlocked`); a result is of the attempt that executes or executed
(`ResultsOwn`); an ended parent has filed its report (`Filed`), so `Report` is not
repeated over it; the elders of a parent are in its room (`Elders`), so that a
parent behind an unfinished one is never `firstParent`, and one that has caught up
never falls behind again; a deletion holds its room alone (`ClosersAlone`); and in every set of siblings one has no
predecessor in the set (`Grounded`), which is how the absence of circles is said
without recursion and what `AppendPlan` has to keep.

**ScheduledTasksProofs** (any schedules, callers, edits, failures, crashes).
`TypeCorrect` (`TypeOK`), `OneActiveRunAlways` (`OneActiveRun`),
`PausedStaysPausedAlways` (`PausedStaysPaused`).  `OneActiveRun` needs that only
the latest run of a schedule can have an active task (`LatestActive`; a revived
one is excepted), because
`hasActiveRunLocked` is what stops a second trigger after a crash has emptied
`inFlight`; and that a trigger between reservation and release holds its schedule
alone and owns its latest run (`CallHolds`, `CallAlone`), because during that
time its task may become active without a check.

Only model-checked: the liveness properties `AdmissionReopens`, `ControlsEnd`,
`SupersedeGetsIn`, `ViewClears`, `StopAnswered`, `DueIsServed`,
`WaitersReleased` and `NextParentWoken`, since fairness and ENABLED are out of
the prover's reach.  `NativeEndsWithTurn` and `Recoverable` are violated
(section 5).

## 5. Disagreements with the documentation

Two runs expect a violation: TLC shows that the code breaks what a comment of
the repository states.

- **A native request outlives its turn** (`interactions_orphan_doc`,
  `NativeEndsWithTurn`).  `coordinator.go:362`: "CompleteTurn abandons unanswered
  native requests after successful execution."  CompleteTurn leaves a request
  alone while a response to it is reserved; if that response then fails, Resolve
  only clears the reservation.  The record stays pending without a timer, and
  turns that preserve pending interactions are refused from then on.
- **A task that can no longer be saved or loaded** (`task_store_journal_doc`,
  `Recoverable`).  `store.go:179`: "Task state and its event outbox commit
  together for every assignment type."  Claim, Complete, Fail and Block change
  memory before they save and keep the change when the save fails.  A later
  Mutate without an event (archiving the agent) then commits a marker beyond the
  end of the journal: every later save of the task fails, and NewService panics
  at the next start.  The passing run `task_store` therefore exempts tasks on
  which such an operation failed (`kept`), for good: a later save that does
  succeed commits the change without its event.

## 6. Other observations

Behaviour met while modelling, described here and not the subject of a run.

- `emitDetached` (`engine.go:863`) delivers without `emitMu`: a detached event
  can overtake one in flight, although `contract/conversation.go:161` says that
  the sequence "increases monotonically for each TurnID".  `EmittedInOrder` is
  stated for what goes through `recordAndEmit`.
- A background video that ends after its turn is missing from the replay copy
  (`engine.go:657`, `:676`).
- An image that was generated but could not be stored gets no terminal event
  (`image_generation.go:106`); `VideoReported` is stated for videos.
- The stop cancels the renewals together with the turn (`execution/work.go:132`),
  and a stop confirmed after the lease expired leaves no "interrupted" record in
  the room (`registry.go:449`; compare `docs/tech/agent-working-status/README.zh.md:98`).
- `agenttask` Claim and Update change a room's task and only then answer "not
  found" (`agenttask/service.go:200`).  `RoomTask` has the room's own operations
  only, and its properties hold as long as nobody uses the other API for a room's
  subtask: `NeverReplayed`, for one, would not survive it.
- A generated task whose end could not be saved (Complete or Fail answered with an
  error) counts as ended until the process dies; the schedule may start the next
  one, and after the restart both run (`taskcore/service.go:526`).  `OneActiveRun`
  excepts the older of the two.
- `TriggerDue` works from a copied list: a schedule that `RunNow` served
  meanwhile, and whose task has ended, is triggered again for the same slot
  (`scheduledtask/service.go:279`).
- An agent archived between the lookup in `CreateAgentTask`
  (`agenttask/service.go:89`) and the creation of the task is left with an active
  task.

Room tasks:

- `releaseCapacity` (`roomtask/recovery.go:53`) returns at the first delivery that
  fails, so the Managers of the remaining rooms are not told until somebody
  delivers those rooms; the error names only the room that failed.  Compare
  `docs/tech/room-first-collaboration.zh.md:87`, after which the waiting rooms'
  Managers are notified.  `WaitersReleased` is about the tasks, which are released.
- `Recover` saves feedback for the Managers that nothing delivers until the next
  operation in the room, and skips rooms without a roster.  `CancelAgentTasks`
  delivers nothing either.
- A crash between the save that frees a worker and `releaseCapacity` leaves the
  waiting tasks blocked until another delivery comes that far; so does the loss of
  the room in the middle of its delivery.  `WaitersReleased` and `NextParentWoken`
  except deliveries that were broken off in this way (`BrokenOff`).
- `NextParentWoken` says that the Manager's wake-up is recorded, not that it is
  sent: a delivery that fails right after is repeated by whoever was told of it.
- `roomtask/service.go:217` says of `BeginRoomDeletion` that with it "no persisted
  execution can become an orphan or retain global worker capacity".  Deleting a
  user (`im/service.go:1847`) does not ask it.  It removes the rooms that are left
  with fewer than two members, and a room that is left without its Manager has no
  roster for its tasks (`api/room_tasks.go:131`): the unfinished tasks of both
  stay, no operation of the room reaches them any more, and a running one keeps
  its worker busy for every other room until the worker's agent is archived.
  `NoOrphans` excepts these rooms (`dropped`).  `DeleteUser` does not call
  `MembersChanged` either: tasks of a deleted worker are not blocked.
- `Report` keeps `waiting_on_task_id` of the tasks it cancels.
- `firstParent` orders by the wall clock (`CreatedAt`); the model orders by
  creation.
- The deletion of a room does not wait for a report that is still to be
  delivered, and a delivery whose room is deleted meanwhile gives up before it
  releases capacity.
- Member removal checks for running work and removes the member in two steps
  (`api/handler.go:2665`): a task dispatched in between is blocked while it
  executes, and its worker counts as free.  `OneTaskPerWorker` is about the ledger
  and does not see it.

## 7. What is not modelled

- **External processes and services**: Codex and DSH app servers, Feishu, model
  providers, sandboxes, MCP servers, the community hub.  The modules take from
  them the results the calling code distinguishes.
- **Sequential file and configuration work**: templates, skills, migrations,
  upgrade, onboarding, configuration, authentication.
- **Stateless translation**: HTTP routing, rendering, LLM request conversion,
  the user interfaces other than the work-status reducer.
- **Parts of modelled components**: `RecoverVideoGeneration` and turns that only
  generate media (TurnEvents); ID validation, metadata conflicts and the status
  rate window (WorkLease); the registry epoch and participant or room lifecycle
  events (WorkView); child tasks, deletion, reassignment, approvals and ID
  allocation (TaskStore); failed saves, who may call which operation, the text of
  events and the check of live work leases before a recovery is resolved
  (RoomTask).
- **Storage faults beyond the code's error paths**: reordering of writes by the
  operating system and corrupted files.  A failed or interrupted append and a
  failed rename are modelled.

`PROJECT.json` gives the reason per component.

## 8. Plan

Done: the modules and runs above, and the proof of every safety property they
check.

Next, in this order:

1. **AgentArchive** (`agents/archive.go`, `runtime_adapter.go`,
   `pending_runtime_recovery.go`): composition of the gate with turns, pending
   runtime recovery and archiving.  Property: no turn of an archived agent is
   accepted by the runtime, and an interrupted archive is finished or undone.
2. **RuntimeExtensions** (`runtime_extension_manager.go`,
   `runtime/extensionstate`): generations, reconciliation and activation under
   the gate, refining "the loaded projection is one desired generation".
3. **FileStore** (`contract/file_store.go`): lifetimes of turn files against the
   replay cache and background videos.
4. **RelayExecutor** (`relay/executor.go`): requests across reconnects and
   restarts.

Runs are kept to one per question.
