------------------------------ MODULE TaskStore ------------------------------
(***************************************************************************)
(* The task repository of src/internal/taskcore: Service keeps every root  *)
(* task with its events in memory, Store keeps two files per root.         *)
(* events.jsonl is an append-only journal, tasks.json holds the state and  *)
(* event_seq, the commit marker of the journal.  A save cuts the journal   *)
(* back to the marker, appends the new events and replaces tasks.json; it  *)
(* may fail at each step, and the process may die between them.            *)
(*                                                                         *)
(* Service holds its mutex during a save, so one save is under way at a    *)
(* time and what it does to memory is seen only when it ends.              *)
(*                                                                         *)
(* The content of a task is abstracted to its status and the set of        *)
(* changes applied to it, a change being named by the number of the event  *)
(* that reports it.  internal/roomtask changes tasks through Mutate;       *)
(* Claim, Complete, Fail and Block of internal/agenttask change memory in  *)
(* place, and look at the assignment type only afterwards.                 *)
(***************************************************************************)
EXTENDS Naturals, Sequences, FiniteSetsExt, Functions

CONSTANTS RoomTasks, AgentTasks,  \* the root tasks, by assignment type
          MaxSeq,                 \* bound: event numbers handed out
          MaxFailures,            \* bound: I/O errors and crashes
          None

Roots == RoomTasks \union AgentTasks

VARIABLES memory,    \* Service: roots, children and events
          nextSeq,   \* Service.nextSeq
          record,    \* tasks.json
          journal,   \* events.jsonl, one number per line
          saving,    \* the operation inside SaveSnapshot, or None
          delivering,  \* tasks of agents whose assignment is being delivered
          kept,      \* history: tasks whose memory kept a change that was not saved
          service,   \* "up", "down", or "panicked" by NewService
          failures   \* I/O errors and crashes so far

vars == <<memory, nextSeq, record, journal, saving, delivering, kept,
          service, failures>>

Torn == 0  \* a line cut off by a failed write

Statuses == {"open", "assigned", "in_progress", "blocked", "completed", "failed", "cancelled"}
Terminal == {"completed", "failed", "cancelled"}
Task == [status : Statuses, changes : SUBSET (1..MaxSeq), events : Seq(1..MaxSeq)]
Record == [status : Statuses, changes : SUBSET (1..MaxSeq), eventSeq : 0..MaxSeq]
Saving == [kind : {"create", "mutate", "in place"}, root : Roots,
           step : {"repair", "append", "commit"}, new : Seq(1..MaxSeq), next : Task]

ASSUME TaskStoreAssumption ==
  /\ RoomTasks \intersect AgentTasks = {}
  /\ MaxSeq \in Nat /\ MaxFailures \in Nat
  /\ None \notin Task /\ None \notin Record

Init ==
  /\ memory = [r \in Roots |-> None]
  /\ nextSeq = 0
  /\ record = [r \in Roots |-> None]
  /\ journal = [r \in Roots |-> <<>>]
  /\ saving = None
  /\ delivering = {}
  /\ kept = {}
  /\ service = "up"
  /\ failures = 0

-----------------------------------------------------------------------------
(* readCommittedEvents stops at the marker, at a number beyond it and at a  *)
(* line it cannot decode.                                                   *)
CommittedLines(lines, seq) ==
  CHOOSE n \in 0..Len(lines) :
    /\ \A i \in 1..n : lines[i] \in 1..seq /\ (i < n => lines[i] < seq)
    /\ n < Len(lines) => lines[n + 1] \notin 1..seq \/ (n > 0 /\ lines[n] = seq)

Committed(lines, seq) == SubSeq(lines, 1, CommittedLines(lines, seq))

(* The journal reaches the marker. *)
Readable(lines, seq) == seq = 0 \/ seq \in Range(Committed(lines, seq))

committedEventSeq(r) == IF record[r] = None THEN 0 ELSE record[r].eventSeq

CommittedEvents(r) == Committed(journal[r], committedEventSeq(r))

latestEventSeq(events) == IF events = <<>> THEN 0 ELSE events[Len(events)]

-----------------------------------------------------------------------------
(* An operation computes the next task and the events it adds, and saves. *)

NewEvents(n) == [i \in 1..n |-> nextSeq + i]

Save(kind, r, status, before, n) ==
  /\ service = "up" /\ saving = None
  /\ nextSeq + n <= MaxSeq
  /\ saving' = [kind |-> kind, root |-> r, step |-> "repair", new |-> NewEvents(n),
                next |-> [status |-> status,
                          changes |-> before.changes \union {nextSeq + i : i \in 1..n},
                          events |-> before.events \o NewEvents(n)]]
  /\ UNCHANGED <<memory, nextSeq, record, journal, kept, service, failures>>

Empty == [changes |-> {}, events |-> <<>>]

CreateRoot(r) ==
  /\ memory[r] = None
  /\ Save("create", r, IF r \in RoomTasks THEN "open" ELSE "assigned", Empty, 1)
  /\ UNCHANGED delivering

(* Mutate by internal/roomtask, with any number of events. *)
MutateRoom(r, n) ==
  /\ r \in RoomTasks /\ memory[r] # None
  /\ Save("mutate", r, "open", memory[r], n)
  /\ UNCHANGED delivering

(* Claim, Complete, Fail and Block, on the task in memory; in the aggregate *)
(* of a room, on one of its tasks.                                          *)
Transition == [open |-> {"open"}, assigned |-> {"in_progress"}, blocked |-> {"in_progress"},
               in_progress |-> {"completed", "failed", "blocked"}]

ChangeInPlace(r) ==
  /\ memory[r] # None /\ memory[r].status \in DOMAIN Transition
  /\ \E status \in Transition[memory[r].status] : Save("in place", r, status, memory[r], 1)
  /\ UNCHANGED delivering

(* CreateAgentTask delivers the assignment; if it cannot, markFailed. *)
Deliver(r) ==
  /\ r \in delivering
  /\ delivering' = delivering \ {r}
  /\ UNCHANGED <<memory, nextSeq, record, journal, saving, kept, service, failures>>

MarkFailed(r) ==
  /\ r \in delivering
  /\ Save("mutate", r, "failed", memory[r], 1)
  /\ delivering' = delivering \ {r}

CancelRewritten(r) ==
  /\ r \in AgentTasks /\ memory[r] # None
  /\ memory[r].status \notin Terminal
  /\ Save("mutate", r, "cancelled", Empty, 0)
  /\ UNCHANGED delivering

(* CancelAgentTasks, when the agent is archived: a change without an event. *)
CancelAgentTask(r) ==
  /\ r \in AgentTasks /\ memory[r] # None
  /\ memory[r].status \notin Terminal
  /\ Save("mutate", r, "cancelled", memory[r], 0)
  /\ UNCHANGED delivering

-----------------------------------------------------------------------------
(* SaveSnapshot *)

(* Mutate publishes the copy it saved; CreateRoot takes its task back; the  *)
(* operations in place leave memory as they changed it.                     *)
PublishesUnsaved(ok) == TRUE

Publishes(ok) == ok \/ saving.kind = "in place"

(* Only Mutate gives the numbers of a failed save back. *)
ConsumesSeq(ok) == ok \/ saving.kind # "mutate"

EndSave(ok) ==
  /\ memory' = IF Publishes(ok) THEN [memory EXCEPT ![saving.root] = saving.next] ELSE memory
  /\ nextSeq' = IF ConsumesSeq(ok) THEN nextSeq + Len(saving.new) ELSE nextSeq
  /\ delivering' = IF ok /\ saving.kind = "create" /\ saving.root \in AgentTasks
                   THEN delivering \union {saving.root} ELSE delivering
  /\ kept' = IF ~ok /\ saving.kind = "in place" THEN kept \union {saving.root} ELSE kept
  /\ saving' = None
  /\ UNCHANGED service

Fails == failures < MaxFailures /\ failures' = failures + 1

Goto(there) ==
  /\ saving' = [saving EXCEPT !.step = there]
  /\ UNCHANGED <<memory, nextSeq, delivering, kept, service, failures>>

NoRepair(r) == journal[r]

Repaired(r) == CommittedEvents(r)

(* readCommittedEvents with repair: the uncommitted tail is cut off. *)
RepairTail ==
  LET r == saving.root
  IN /\ saving # None /\ saving.step = "repair"
     /\ IF Readable(journal[r], committedEventSeq(r))
        THEN /\ journal' = [journal EXCEPT ![r] = Repaired(r)]
             /\ Goto("append")
        ELSE EndSave(FALSE) /\ UNCHANGED <<journal, failures>>
     /\ UNCHANGED record

(* The journal or the record cannot be read, or the cut cannot be synced. *)
RepairFails ==
  /\ saving # None /\ saving.step = "repair"
  /\ Fails
  /\ EndSave(FALSE)
  /\ UNCHANGED <<journal, record>>

appendEvents ==
  LET r == saving.root
  IN /\ saving # None /\ saving.step = "append"
     /\ journal' = [journal EXCEPT ![r] = @ \o saving.new]
     /\ Goto("commit")
     /\ UNCHANGED record

(* The write is cut short: some of the lines are there, the last one        *)
(* perhaps torn.                                                            *)
PartialAppend ==
  \E n \in 0..Len(saving.new) : \E torn \in IF n < Len(saving.new) THEN {<<>>, <<Torn>>} ELSE {<<>>} :
    journal' = [journal EXCEPT ![saving.root] = @ \o SubSeq(saving.new, 1, n) \o torn]

(* The write or the sync fails. *)
AppendFails ==
  /\ saving # None /\ saving.step = "append" /\ saving.new # <<>>
  /\ Fails
  /\ PartialAppend
  /\ EndSave(FALSE)
  /\ UNCHANGED record

(* writeJSONFileAtomic: the rename commits state and events together. *)
Commit ==
  /\ saving # None /\ saving.step = "commit"
  /\ record' = [record EXCEPT ![saving.root] =
                  [status |-> saving.next.status, changes |-> saving.next.changes,
                   eventSeq |-> latestEventSeq(saving.next.events)]]
  /\ EndSave(TRUE)
  /\ UNCHANGED <<journal, failures>>

(* The error of the repair that follows is ignored. *)
CommitFails ==
  LET r == saving.root
  IN /\ saving # None /\ saving.step = "commit"
     /\ Fails
     /\ \/ journal' = [journal EXCEPT ![r] = Repaired(r)]
        \/ UNCHANGED journal
     /\ EndSave(FALSE)
     /\ UNCHANGED record

-----------------------------------------------------------------------------
Crash ==
  /\ service = "up" /\ Fails
  /\ service' = "down"
  /\ memory' = [r \in Roots |-> None]
  /\ nextSeq' = 0
  /\ saving' = None
  /\ delivering' = {}
  /\ IF saving # None /\ saving.step = "append" THEN PartialAppend ELSE UNCHANGED journal
  /\ UNCHANGED <<record, kept>>

Loadable(r) == record[r] = None \/ Readable(journal[r], record[r].eventSeq)

Loaded(r) ==
  IF record[r] = None THEN None
  ELSE [status |-> record[r].status, changes |-> record[r].changes, events |-> CommittedEvents(r)]

(* NewService: loadStoreState, or a panic. *)
Restart ==
  /\ service = "down"
  /\ IF \A r \in Roots : Loadable(r)
     THEN /\ service' = "up"
          /\ memory' = [r \in Roots |-> Loaded(r)]
          /\ nextSeq' = Max({0} \union UNION {Range(CommittedEvents(r)) : r \in Roots})
     ELSE service' = "panicked" /\ UNCHANGED <<memory, nextSeq>>
  /\ UNCHANGED <<record, journal, saving, delivering, kept, failures>>

Next ==
  \/ \E r \in Roots : \/ CreateRoot(r) \/ ChangeInPlace(r) \/ CancelAgentTask(r)
                      \/ Deliver(r) \/ MarkFailed(r)
                      \/ \E n \in 0..2 : MutateRoom(r, n)
  \/ RepairTail \/ RepairFails \/ appendEvents \/ AppendFails \/ Commit \/ CommitFails
  \/ Crash \/ Restart

Spec == Init /\ [][Next]_vars

-----------------------------------------------------------------------------
(* Types of the memory of Service and of the two files. *)
TypeOK ==
  /\ memory \in [Roots -> Task \union {None}]
  /\ nextSeq \in 0..MaxSeq
  /\ record \in [Roots -> Record \union {None}]
  /\ journal \in [Roots -> Seq(0..MaxSeq)]
  /\ saving \in Saving \union {None}
  /\ delivering \subseteq AgentTasks /\ kept \subseteq Roots
  /\ service \in {"up", "down", "panicked"}

(* "Task state and its event outbox commit together": at every moment, in   *)
(* the middle of a save and after any failure, the files of a task load,    *)
(* and the events they yield are exactly the changes in the state, unless   *)
(* an operation in place failed on the task (Recoverable shows that case).  *)
CommittedTogether ==
  \A r \in Roots \ kept : record[r] # None =>
    /\ Loadable(r)
    /\ record[r].changes = Range(CommittedEvents(r))

(* "state and events become visible only after persistence succeeds"        *)
(* (Mutate): between operations the memory of a task is what a restart      *)
(* would load, whatever failed before, with the same exception.             *)
MemoryIsDurable ==
  service = "up" /\ saving = None => \A r \in Roots \ kept : memory[r] = Loaded(r)

(* The committed events of a task are never lost, rewritten or reordered,   *)
(* although failed saves leave tails in the journal and a restarted service *)
(* hands their numbers out again.                                           *)
HistoryGrows ==
  [][\A r \in Roots : \E n \in 0..Len(CommittedEvents(r)') :
       CommittedEvents(r) = SubSeq(CommittedEvents(r)', 1, n)]_vars

(* "Task state and its event outbox commit together for every assignment    *)
(* type" (store.go), so that every task the service saved can be loaded.    *)
(* The code does not ensure it: an operation in place whose save failed     *)
(* leaves its event in memory only, and the next save of a change without   *)
(* an event writes a marker that the journal does not reach.                *)
Recoverable == \A r \in Roots : Loadable(r)
=============================================================================
