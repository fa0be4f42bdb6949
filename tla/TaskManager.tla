------------------------------- MODULE TaskManager ------------------------------
(***************************************************************************)
(* The background task manager (crates/tui/src/task_manager.rs).  One      *)
(* mutex guards the task map, the queue and the cancellation tokens of     *)
(* running tasks; every section under it is one action here.  Workers take *)
(* queued tasks, run them outside the mutex, and park on a Notify that     *)
(* stores at most one permit.  A section ends by writing the queue file    *)
(* and the task files, one atomic replacement each: the writes may fail in *)
(* the middle (the section goes on with what its code does on an error)    *)
(* and the process may die in the middle (its memory is gone).             *)
(*                                                                         *)
(* Tasks carry their status only; timelines, tool calls and artifacts are  *)
(* left out, an artifact that cannot be written counts as a failed save.   *)
(* `shutdown` is left out: no caller outside the tests.                    *)
(***************************************************************************)
EXTENDS Naturals, Sequences, FiniteSets, SequencesExt

CONSTANTS
  Task,       \* task ids; add_task draws a fresh one (a uuid)
  Worker,     \* the workers of the pool
  NoTask,     \* no task
  MaxErrors,  \* bound: sections whose save fails
  MaxCrashes  \* bound: deaths of the process

ASSUME TaskManagerAssumption ==
  /\ NoTask \notin Task
  /\ MaxErrors \in Nat
  /\ MaxCrashes \in Nat

VARIABLES
  up,              \* the process runs
  tasks,           \* status of each task in memory
  queue,           \* ids of queued tasks
  running_cancel,  \* tasks that have a cancellation token in the map
  cancelled,       \* tasks whose token was fired
  permit,          \* the permit stored in `notify`
  worker,          \* each worker: program counter and the task it holds
  saved,           \* status in each task file
  saved_queue,     \* the queue file
  used,            \* ids drawn so far (history)
  starts,          \* times each task was handed to the executor (history)
  silent,          \* tasks whose add_task failed to save (history)
  errors,          \* sections whose save failed
  crashes          \* deaths of the process

pool == <<permit, worker>>
files == <<saved, saved_queue>>
taskVars == <<up, tasks, queue, running_cancel, cancelled, permit, worker, saved,
              saved_queue, used, starts, silent, errors, crashes>>

QueuedTasks == {t \in Task : tasks[t] = "Queued"}
Active == {"Queued", "Running"}
Terminal == {"Completed", "Failed", "Canceled"}
TaskStatus == {"Absent"} \cup Active \cup Terminal
Nowhere == [t \in Task |-> "Absent"]
Off == [w \in Worker |-> [pc |-> "off", task |-> NoTask]]

Init ==
  /\ up = FALSE
  /\ tasks = Nowhere
  /\ queue = <<>>
  /\ running_cancel = {}
  /\ cancelled = {}
  /\ permit = FALSE
  /\ worker = Off
  /\ saved = Nowhere
  /\ saved_queue = <<>>
  /\ used = {}
  /\ starts = [t \in Task |-> 0]
  /\ silent = {}
  /\ errors = 0
  /\ crashes = 0

--------------------------------------------------------------------------------
(* Saving.                                                                 *)

\* The task files once those of the tasks in S were written.
Files(ts, S) == [t \in Task |-> IF t \in S /\ ts[t] # "Absent" THEN ts[t] ELSE saved[t]]

persist_all_locked(ts, q) == saved_queue' = q /\ saved' = Files(ts, Task)

\* The queue file first, then the task files in the order of a hash map: what
\* may be on disk when the writes stop early.
PartlySaved(ts, q) ==
  \/ UNCHANGED files
  \/ saved_queue' = q /\ \E S \in SUBSET Task : saved' = Files(ts, S)

MemoryLost ==
  /\ up' = FALSE
  /\ tasks' = Nowhere
  /\ queue' = <<>>
  /\ running_cancel' = {}
  /\ cancelled' = {}
  /\ permit' = FALSE
  /\ worker' = Off
  /\ silent' = {}

crash ==
  /\ up
  /\ crashes < MaxCrashes
  /\ crashes' = crashes + 1
  /\ MemoryLost
  /\ UNCHANGED <<files, used, starts, errors>>

\* The process dies while a section writes.
DiesSaving(ts, q) ==
  /\ crashes < MaxCrashes
  /\ crashes' = crashes + 1
  /\ MemoryLost
  /\ PartlySaved(ts, q)
  /\ UNCHANGED <<starts, errors>>

\* A section leaves tasks ts and queue q in memory; its save succeeds or fails.
InMemory(ts, q) == tasks' = ts /\ queue' = q /\ UNCHANGED <<up, crashes>>
Saves(ts, q) == InMemory(ts, q) /\ persist_all_locked(ts, q) /\ UNCHANGED errors
SaveFails(ts, q) ==
  /\ InMemory(ts, q)
  /\ errors < MaxErrors
  /\ errors' = errors + 1
  /\ PartlySaved(ts, q)

--------------------------------------------------------------------------------
(* Boot.                                                                   *)

\* Mutant: running tasks go back to the queue.
RequeuedTasks == [t \in Task |-> IF saved[t] = "Running" THEN "Queued" ELSE saved[t]]

\* load_state: a running task has lost its process and becomes failed.
RecoveredTasks == [t \in Task |-> IF saved[t] = "Running" THEN "Failed" ELSE saved[t]]

\* The entries of q that are in S, in their order (VecDeque::retain).
Kept(q, S) ==
  LET kept[n \in 0 .. Len(q)] ==
        IF n = 0 THEN <<>>
        ELSE IF q[n] \in S THEN Append(kept[n - 1], q[n]) ELSE kept[n - 1]
  IN kept[Len(q)]

StillQueued == {t \in Task : RecoveredTasks[t] = "Queued"}
KnownQueue == Kept(saved_queue, StillQueued)

\* Mutant: the queue file is trusted.
TrustedQueues == {KnownQueue}

\* The saved queue without tasks that are no longer queued, then the queued
\* tasks it misses, in the order of their random ids.
RecoveredQueues == {KnownQueue \o s : s \in SetToSeqs(StillQueued \ Range(KnownQueue))}

\* start_with_executor: load, write what changed, start the workers.  A write
\* that fails or a crash leaves no process.
start_with_executor ==
  /\ ~ up
  /\ UNCHANGED used
  /\ \E q \in RecoveredQueues :
       \/ /\ up' = TRUE
          /\ tasks' = RecoveredTasks
          /\ queue' = q
          /\ persist_all_locked(RecoveredTasks, q)
          /\ worker' = [w \in Worker |-> [pc |-> "poll", task |-> NoTask]]
          /\ UNCHANGED <<running_cancel, cancelled, permit, starts, silent, errors, crashes>>
       \/ DiesSaving(RecoveredTasks, q)

--------------------------------------------------------------------------------
(* Callers: tools, the runtime API, the automation manager.                *)

At(w, pc) == worker[w].pc = pc
Goto(w, pc) == worker' = [worker EXCEPT ![w].pc = pc]
Parked == {w \in Worker : At(w, "parked")}

\* Mutant: a wake-up with nobody parked is lost, as with a condition variable.
notify_parked_only ==
  \/ \E w \in Parked : Goto(w, "poll") /\ UNCHANGED permit
  \/ Parked = {} /\ UNCHANGED pool

notify_one ==
  \/ \E w \in Parked : Goto(w, "poll") /\ UNCHANGED permit
  \/ Parked = {} /\ permit' = TRUE /\ UNCHANGED worker

\* An error of the save returns before the notification: the caller is told the
\* task was not added while it stays in memory and in the queue.
add_task(t) ==
  LET ts == [tasks EXCEPT ![t] = "Queued"]
      q == Append(queue, t)
  IN /\ up
     /\ t \notin used
     /\ used' = used \cup {t}
     /\ \/ Saves(ts, q) /\ notify_one /\ UNCHANGED <<running_cancel, cancelled, starts, silent>>
        \/ /\ SaveFails(ts, q)
           /\ silent' = silent \cup {t}
           /\ UNCHANGED <<pool, running_cancel, cancelled, starts>>
        \/ DiesSaving(ts, q)

Without(q, t) == Kept(q, Task \ {t})

\* A section after which nobody is woken and no execution begins or ends; the
\* tokens in c are fired.
Quietly(ts, q, c) ==
  /\ UNCHANGED used
  /\ \/ /\ Saves(ts, q) \/ SaveFails(ts, q)
        /\ cancelled' = c
        /\ UNCHANGED <<pool, running_cancel, starts, silent>>
     \/ DiesSaving(ts, q)

\* Mutant: a running task is canceled at once, its worker is not told.
cancel_at_once(t) ==
  /\ up
  /\ \/ /\ tasks[t] \in Active
        /\ Quietly([tasks EXCEPT ![t] = "Canceled"], Without(queue, t), cancelled)
     \/ tasks[t] \in Terminal /\ Quietly(tasks, queue, cancelled)

\* A queued task is over; the token of a running one is fired; a terminal task
\* is only saved again.
cancel_task(t) ==
  /\ up
  /\ \/ /\ tasks[t] = "Queued"
        /\ Quietly([tasks EXCEPT ![t] = "Canceled"], Without(queue, t), cancelled)
     \/ /\ tasks[t] = "Running"
        /\ Quietly(tasks, queue, cancelled \cup ({t} \cap running_cancel))
     \/ tasks[t] \in Terminal /\ Quietly(tasks, queue, cancelled)

\* The task file goes first, then the task and the queue file.
delete_terminal_task(t) ==
  LET ts == [tasks EXCEPT ![t] = "Absent"]
      q == Without(queue, t)
  IN /\ up
     /\ tasks[t] \in Terminal
     /\ saved' = [saved EXCEPT ![t] = "Absent"]
     /\ UNCHANGED <<used, starts>>
     /\ \/ /\ InMemory(ts, q)
           /\ \/ saved_queue' = q /\ UNCHANGED errors
              \/ errors < MaxErrors /\ errors' = errors + 1 /\ UNCHANGED saved_queue
           /\ UNCHANGED <<pool, running_cancel, cancelled, silent>>
        \/ /\ crashes < MaxCrashes
           /\ crashes' = crashes + 1
           /\ MemoryLost
           /\ saved_queue' \in {saved_queue, q}
           /\ UNCHANGED errors

\* A save of one task: record_tool_metadata for any task, apply_execution_event
\* for one that runs.  A failed one changes nothing.
persist_task(t) ==
  /\ up
  /\ tasks[t] # "Absent"
  /\ saved' = [saved EXCEPT ![t] = tasks[t]]
  /\ UNCHANGED <<up, tasks, queue, running_cancel, cancelled, pool, saved_queue, used,
                 starts, silent, errors, crashes>>

--------------------------------------------------------------------------------
(* Workers.                                                                *)

Marked(t) == [tasks EXCEPT ![t] = "Running"]

\* A queued task is started whether or not its new status could be saved.
take(w, t) ==
  /\ UNCHANGED used
  /\ \/ /\ \/ Saves(Marked(t), Tail(queue))
           \/ SaveFails(Marked(t), Tail(queue))
        /\ worker' = [worker EXCEPT ![w] = [pc |-> "run", task |-> t]]
        /\ running_cancel' = running_cancel \cup {t}
        /\ cancelled' = cancelled \ {t}
        /\ starts' = [starts EXCEPT ![t] = @ + 1]
        /\ UNCHANGED <<permit, silent>>
     \/ DiesSaving(Marked(t), Tail(queue))

\* The entry of a task that is not queued is dropped, and the worker waits.
drop(w) ==
  /\ queue' = Tail(queue)
  /\ saved_queue' \in {queue', saved_queue}
  /\ Goto(w, "idle")
  /\ UNCHANGED <<up, tasks, running_cancel, cancelled, permit, saved, used, starts,
                 silent, errors, crashes>>

worker_loop(w) ==
  /\ At(w, "poll")
  /\ \/ /\ queue = <<>>
        /\ Goto(w, "idle")
        /\ UNCHANGED <<up, tasks, queue, running_cancel, cancelled, permit, files, used,
                       starts, silent, errors, crashes>>
     \/ /\ queue # <<>>
        /\ IF Head(queue) \in QueuedTasks THEN take(w, Head(queue)) ELSE drop(w)

\* `notified()`: take the stored permit, or park.
notified(w) ==
  /\ At(w, "idle")
  /\ permit' = FALSE
  /\ Goto(w, IF permit THEN "poll" ELSE "parked")
  /\ UNCHANGED <<up, tasks, queue, running_cancel, cancelled, files, used, starts,
                 silent, errors, crashes>>

\* EngineTaskExecutor follows the events of a thread's turn until it completed:
\* an interrupted turn is a canceled task, every error a failed one.
ExecutionResult == {"Completed", "Failed", "Canceled"}

\* Mutant: the result of the executor is recorded as it is.
RawStatus(t, result) == result

\* A completion that arrives after the cancellation was requested is canceled.
FinalStatus(t, result) ==
  IF t \in cancelled /\ result = "Completed" THEN "Canceled" ELSE result

\* The executor returned; an artifact that cannot be written is a failed save.
finish_task(w, result) ==
  LET t == worker[w].task
      ts == [tasks EXCEPT ![t] = IF @ = "Absent" THEN @ ELSE FinalStatus(t, result)]
  IN /\ At(w, "run")
     /\ UNCHANGED used
     /\ \/ /\ Saves(ts, queue) \/ SaveFails(ts, queue)
           /\ worker' = [worker EXCEPT ![w] = [pc |-> "poll", task |-> NoTask]]
           /\ running_cancel' = running_cancel \ {t}
           /\ UNCHANGED <<permit, cancelled, starts, silent>>
        \/ DiesSaving(ts, queue)

--------------------------------------------------------------------------------
WorkerStep(w) ==
  \/ worker_loop(w)
  \/ notified(w)
  \/ \E result \in ExecutionResult : finish_task(w, result)

Next ==
  \/ start_with_executor
  \/ crash
  \/ \E t \in Task : add_task(t) \/ cancel_task(t) \/ delete_terminal_task(t) \/ persist_task(t)
  \/ \E w \in Worker : WorkerStep(w)

\* The process is started again after it died; the runtime polls every worker;
\* an execution ends, because a turn does.
Spec ==
  /\ Init
  /\ [][Next]_taskVars
  /\ WF_taskVars(start_with_executor)
  /\ \A w \in Worker : WF_taskVars(WorkerStep(w))

--------------------------------------------------------------------------------
(* Properties.                                                             *)

\* The state has its shape; the two queues are sequences of tasks as well.
TypeOK ==
  /\ up \in BOOLEAN
  /\ tasks \in [Task -> TaskStatus]
  /\ worker \in [Worker -> [pc : {"off", "poll", "idle", "parked", "run"},
                            task : Task \cup {NoTask}]]
  /\ saved \in [Task -> TaskStatus]
  /\ starts \in [Task -> Nat]
  /\ errors \in Nat

\* The queue names exactly the queued tasks, each once, through additions,
\* cancellations, deletions, failed saves and restarts: no task is lost or
\* doubled (ManagerState.queue, load_state).
QueueExact ==
  /\ Range(queue) = QueuedTasks
  /\ Cardinality(Range(queue)) = Len(queue)

\* A running task has one worker and one token, so that a cancellation always
\* has someone to tell; a task that does not run has neither.
OneRunner ==
  \A t \in Task :
    /\ Cardinality({w \in Worker : At(w, "run") /\ worker[w].task = t})
         = IF tasks[t] = "Running" THEN 1 ELSE 0
    /\ t \in running_cancel <=> tasks[t] = "Running"

\* A task is handed to the executor once; only a failed save may let a restart
\* hand it over again ("running tasks are not requeued after restart").
RunsOnce == \A t \in Task : starts[t] <= 1 + errors

\* On disk a task is open until it is over, and how it ended never changes: the
\* files implement the board that the automation manager relies on.
Board == INSTANCE TaskBoard WITH
  BoardTask <- Task,
  Outcome <- Terminal,
  board <- [t \in Task |-> IF saved[t] \in Active THEN "Open" ELSE saved[t]]
ImplementsBoard == Board!BoardSpec

\* Once the cancellation of a running task was requested it never completes.
CancelWins ==
  [][\A t \in Task : t \in cancelled /\ tasks'[t] = "Completed" => tasks[t] = "Completed"]_taskVars

\* A queued task is taken by a worker or canceled, unless its addition failed to
\* save (nobody is notified then).
QueueServed ==
  \A t \in Task : tasks[t] = "Queued" /\ t \notin silent ~> tasks[t] # "Queued"
=============================================================================
