--------------------------- MODULE TaskManagerProofs ---------------------------
(***************************************************************************)
(* Proofs about TaskManager for every set of tasks and workers and every   *)
(* number of failed saves and crashes.                                     *)
(*                                                                         *)
(* The argument: what a section may do to one task is the same for all of  *)
(* them (Moved); what a save, whole or torn, may put on disk is what the   *)
(* section left in memory (Shown).  The parts of the inductive invariant   *)
(* are about one task each: who runs it (Running), how often it was        *)
(* started (Started), what its file says of it (Filed).  The order of the  *)
(* queue plays no part in them.  QueueExact needs a second invariant about *)
(* the queue and its file (QueueInv), and facts about the filter that      *)
(* retain is, which are inductions over the sequence: each one looks at    *)
(* the least prefix that would refute it (Least).                          *)
(***************************************************************************)
EXTENDS TaskManager, FiniteSetTheorems, WellFoundedInduction, TLAPS

Runs(w, t) == At(w, "run") /\ worker[w].task = t

\* A task runs on one worker and has a token, or neither.
Running ==
  /\ \A w \in Worker : At(w, "run") => worker[w].task \in Task
  /\ \A t \in Task : tasks[t] = "Running" => \E w \in Worker : Runs(w, t)
  /\ \A t \in Task, w \in Worker : Runs(w, t) => tasks[t] = "Running"
  /\ \A t \in Task, v, w \in Worker : Runs(v, t) /\ Runs(w, t) => v = w
  /\ \A t \in Task : t \in running_cancel <=> tasks[t] = "Running"

\* A task that may still be started was started at most once per failed save.
Started ==
  \A t \in Task :
    /\ starts[t] <= 1 + errors
    /\ "Queued" \in {tasks[t], saved[t]} => starts[t] <= errors
    /\ t \notin used => starts[t] = 0 /\ tasks[t] = "Absent" /\ saved[t] = "Absent"

\* Memory agrees with a file that says how a task ended.
Filed == up => \A t \in Task : saved[t] \in Terminal => tasks[t] = saved[t]

Down == ~ up => tasks = Nowhere /\ worker = Off /\ running_cancel = {} /\ cancelled = {}

\* The inductive invariant.
IInv == TypeOK /\ Running /\ Started /\ Filed /\ Down

--------------------------------------------------------------------------------
(* Saves.                                                                  *)

Shown(ts) ==
  /\ saved' \in [Task -> TaskStatus]
  /\ \A t \in Task : saved'[t] \in {saved[t], ts[t]} /\ (ts[t] = "Absent" => saved'[t] = saved[t])

\* A save, whole or torn, puts nothing on disk but what was there or what the
\* section left in memory (persist_all_locked).
LEMMA SaveShows ==
  ASSUME TypeOK, NEW ts \in [Task -> TaskStatus], NEW q,
         persist_all_locked(ts, q) \/ PartlySaved(ts, q)
  PROVE  Shown(ts)
<1>1. ASSUME NEW S \in SUBSET Task, saved' = Files(ts, S) PROVE Shown(ts)
  BY <1>1 DEF Shown, Files, TypeOK
<1>2. CASE UNCHANGED files
  BY <1>2 DEF Shown, files, TypeOK
<1>3. QED
  BY <1>1, <1>2 DEF persist_all_locked, PartlySaved

\* A whole save shows every task there is.
LEMMA SaveShowsAll ==
  ASSUME TypeOK, NEW ts \in [Task -> TaskStatus], NEW q, persist_all_locked(ts, q)
  PROVE  \A t \in Task : ts[t] # "Absent" => saved'[t] = ts[t]
BY DEF persist_all_locked, Files

--------------------------------------------------------------------------------
(* The kinds of step.                                                      *)

\* The process died: what it left on disk may be started again only as often
\* as saves failed.
Died ==
  /\ MemoryLost
  /\ starts' = starts /\ errors' = errors /\ used \subseteq used'
  /\ saved' \in [Task -> TaskStatus]
  /\ \A t \in Task : saved'[t] = "Queued" => starts[t] <= errors
  /\ \A t \in Task : t \notin used' => saved'[t] = "Absent"

\* A section left ts in memory, started and ended no execution.
Section(ts) ==
  /\ up /\ up' /\ tasks' = ts /\ ts \in [Task -> TaskStatus]
  /\ starts' = starts /\ errors' \in Nat /\ errors <= errors' /\ used \subseteq used'
  /\ worker' \in [Worker -> [pc : {"off", "poll", "idle", "parked", "run"},
                             task : Task \cup {NoTask}]]
  /\ \A w \in Worker : (worker'[w].pc = "run" <=> At(w, "run")) /\ worker'[w].task = worker[w].task
  /\ running_cancel' = running_cancel
  /\ saved' \in [Task -> TaskStatus]
  /\ \A t \in Task :
       /\ ts[t] = "Running" <=> tasks[t] = "Running"
       /\ "Queued" \in {ts[t], saved'[t]} => starts[t] <= errors
       /\ saved'[t] \in Terminal => ts[t] = saved'[t]
       /\ t \notin used' => ts[t] = "Absent" /\ saved'[t] = "Absent"

\* A process that dies leaves what is on disk.
LEMMA DiedKeeps == ASSUME IInv, Died PROVE IInv'
<1> USE DEF IInv, Died, MemoryLost
<1>1. TypeOK'
  BY DEF TypeOK, Nowhere, Off, TaskStatus
<1>2. Running'
  BY DEF Running, Runs, At, Nowhere, Off
<1>3. Started'
  BY DEF Started, Nowhere, TypeOK
<1>4. Filed' /\ Down'
  BY DEF Filed, Down, TypeOK
<1>5. QED
  BY <1>1, <1>2, <1>3, <1>4

\* Such a section preserves the invariant.
LEMMA SectionKeeps == ASSUME IInv, NEW ts, Section(ts) PROVE IInv'
<1> USE DEF IInv, Section
<1>1. TypeOK'
  BY DEF TypeOK
<1>2. \A t \in Task, w \in Worker : Runs(w, t)' <=> Runs(w, t)
  BY DEF Runs, At
<1>3. Running'
  BY <1>2 DEF Running, At
<1>4. Started'
  BY DEF Started, TypeOK
<1>5. Filed' /\ Down'
  BY DEF Filed, Down, TypeOK
<1>6. QED
  BY <1>1, <1>3, <1>4, <1>5

\* A process that dies while it saves ts shows no more than ts.
LEMMA DiesSavingDied ==
  ASSUME IInv, NEW ts \in [Task -> TaskStatus], NEW q, DiesSaving(ts, q), used \subseteq used',
         \A t \in Task : ts[t] = "Queued" => starts[t] <= errors,
         \A t \in Task : t \notin used' => ts[t] = "Absent"
  PROVE  Died
<1>1. Shown(ts)
  BY SaveShows DEF IInv, DiesSaving
<1>2. QED
  BY <1>1 DEF Died, DiesSaving, Shown, IInv, Started

\* A section that neither starts nor ends an execution, its save whole or torn.
LEMMA SavedSection ==
  ASSUME IInv, up, NEW ts \in [Task -> TaskStatus], NEW q, Saves(ts, q) \/ SaveFails(ts, q),
         used \subseteq used', UNCHANGED <<running_cancel, starts>>,
         worker' \in [Worker -> [pc : {"off", "poll", "idle", "parked", "run"},
                                task : Task \cup {NoTask}]],
         \A w \in Worker : (worker'[w].pc = "run" <=> At(w, "run")) /\ worker'[w].task = worker[w].task,
         \A t \in Task :
           /\ ts[t] = "Running" <=> tasks[t] = "Running"
           /\ ts[t] = "Queued" => starts[t] <= errors
           /\ saved[t] \in Terminal => ts[t] = saved[t]
           /\ t \notin used' => ts[t] = "Absent"
  PROVE  Section(ts)
<1>1. Shown(ts) /\ tasks' = ts /\ up' = up
  BY SaveShows DEF IInv, Saves, SaveFails, InMemory
<1>2. errors' \in Nat /\ errors <= errors'
  BY DEF Saves, SaveFails, IInv, TypeOK
<1>3. QED
  BY <1>1, <1>2 DEF Section, Shown, IInv, Started

--------------------------------------------------------------------------------
(* The inductive invariant, action by action.                              *)

\* Nothing was added at the start.
LEMMA InitHolds == Init => IInv
<1> SUFFICES ASSUME Init PROVE IInv
  OBVIOUS
<1> USE DEF Init
<1>1. TypeOK
  BY DEF TypeOK, Nowhere, Off, TaskStatus
<1>2. Running
  BY DEF Running, Runs, At, Nowhere, Off
<1>3. Started /\ Filed /\ Down
  BY DEF Started, Filed, Down, Nowhere
<1>4. QED
  BY <1>1, <1>2, <1>3 DEF IInv

\* start_with_executor: load_state, recovered tasks, the first saves.
LEMMA BootKeeps == ASSUME IInv, start_with_executor PROVE IInv'
<1>1. RecoveredTasks \in [Task -> TaskStatus]
  BY DEF RecoveredTasks, IInv, TypeOK, TaskStatus, Terminal
<1>2. PICK q : \/ /\ up' = TRUE
                 /\ tasks' = RecoveredTasks
                 /\ persist_all_locked(RecoveredTasks, q)
                 /\ worker' = [w \in Worker |-> [pc |-> "poll", task |-> NoTask]]
                 /\ UNCHANGED <<running_cancel, cancelled, permit, starts, silent, errors, crashes>>
              \/ DiesSaving(RecoveredTasks, q)
  BY DEF start_with_executor
<1>3. used' = used /\ ~ up
  BY DEF start_with_executor
<1>4. CASE DiesSaving(RecoveredTasks, q)
  <2>1. Died
    BY <1>1, <1>3, <1>4, DiesSavingDied DEF RecoveredTasks, IInv, Started
  <2>2. QED
    BY <2>1, DiedKeeps
<1>5. CASE /\ up' = TRUE
           /\ tasks' = RecoveredTasks
           /\ persist_all_locked(RecoveredTasks, q)
           /\ worker' = [w \in Worker |-> [pc |-> "poll", task |-> NoTask]]
           /\ UNCHANGED <<running_cancel, cancelled, permit, starts, silent, errors, crashes>>
  <2>1. saved' = [t \in Task |-> RecoveredTasks[t]]
    BY <1>5 DEF persist_all_locked, Files, RecoveredTasks, IInv, TypeOK
  <2>2. TypeOK'
    BY <1>1, <1>5, <2>1 DEF TypeOK, IInv
  <2>3. running_cancel' = {} /\ \A t \in Task : tasks'[t] # "Running"
    BY <1>3, <1>5 DEF RecoveredTasks, IInv, Down
  <2>4. Running'
    BY <1>5, <2>3 DEF Running, Runs, At
  <2>5. Started'
    BY <1>3, <1>5, <2>1 DEF Started, RecoveredTasks, IInv, TypeOK
  <2>6. Filed' /\ Down'
    BY <1>5, <2>1 DEF Filed, Down
  <2>7. QED
    BY <2>2, <2>4, <2>5, <2>6 DEF IInv
<1>6. QED
  BY <1>2, <1>4, <1>5

\* The process dies.
LEMMA CrashKeeps == ASSUME IInv, crash PROVE IInv'
<1>1. Died
  BY DEF crash, Died, IInv, Started, TypeOK, files
<1>2. QED
  BY <1>1, DiedKeeps

\* add_task: memory and queue, then the save.
LEMMA AddKeeps == ASSUME IInv, NEW t \in Task, add_task(t) PROVE IInv'
<1> DEFINE ts == [tasks EXCEPT ![t] = "Queued"]
<1>1. /\ ts \in [Task -> TaskStatus]
      /\ used \subseteq used' /\ t \in used' /\ t \notin used /\ up
      /\ \A u \in Task : ts[u] = IF u = t THEN "Queued" ELSE tasks[u]
  BY DEF add_task, IInv, TypeOK, TaskStatus, Active
<1>2. \A u \in Task : /\ ts[u] = "Running" <=> tasks[u] = "Running"
                      /\ ts[u] = "Queued" => starts[u] <= errors
                      /\ saved[u] \in Terminal => ts[u] = saved[u]
                      /\ u \notin used' => ts[u] = "Absent"
  BY <1>1 DEF IInv, Started, Filed, Terminal, TypeOK
<1>3. CASE DiesSaving(ts, Append(queue, t))
  <2>1. Died
    BY <1>1, <1>2, <1>3, DiesSavingDied
  <2>2. QED
    BY <2>1, DiedKeeps
<1>4. CASE Saves(ts, Append(queue, t)) /\ notify_one /\ UNCHANGED <<running_cancel, cancelled, starts, silent>>
  <2>1. /\ worker' \in [Worker -> [pc : {"off", "poll", "idle", "parked", "run"},
                                   task : Task \cup {NoTask}]]
        /\ \A w \in Worker : (worker'[w].pc = "run" <=> At(w, "run")) /\ worker'[w].task = worker[w].task
    BY <1>4 DEF notify_one, Parked, Goto, At, IInv, TypeOK
  <2>2. Section(ts)
    BY <1>1, <1>2, <1>4, <2>1, SavedSection
  <2>3. QED
    BY <2>2, SectionKeeps
<1>5. CASE SaveFails(ts, Append(queue, t)) /\ UNCHANGED <<pool, running_cancel, cancelled, starts>>
  <2>1. Section(ts)
    BY <1>1, <1>2, <1>5, SavedSection DEF pool, At, IInv, TypeOK
  <2>2. QED
    BY <2>1, SectionKeeps
<1>6. QED
  BY <1>3, <1>4, <1>5 DEF add_task

\* Sections of a caller that change one task at most and wake nobody.
LEMMA QuietKeeps ==
  ASSUME IInv, up, NEW ts \in [Task -> TaskStatus], NEW q, NEW c, Quietly(ts, q, c),
         \A t \in Task : ts[t] = tasks[t] \/ (tasks[t] = "Queued" /\ ts[t] = "Canceled")
  PROVE  IInv'
<1>1. used' = used
  BY DEF Quietly
<1>2. \A t \in Task : /\ ts[t] = "Running" <=> tasks[t] = "Running"
                      /\ ts[t] = "Queued" => starts[t] <= errors
                      /\ saved[t] \in Terminal => ts[t] = saved[t]
                      /\ t \notin used' => ts[t] = "Absent"
  BY <1>1 DEF IInv, Started, Filed, Terminal
<1>3. CASE DiesSaving(ts, q)
  <2>1. Died
    BY <1>1, <1>2, <1>3, DiesSavingDied
  <2>2. QED
    BY <2>1, DiedKeeps
<1>4. CASE (Saves(ts, q) \/ SaveFails(ts, q)) /\ UNCHANGED <<pool, running_cancel, starts, silent>>
  <2>1. Section(ts)
    BY <1>1, <1>2, <1>4, SavedSection DEF pool, At, IInv, TypeOK
  <2>2. QED
    BY <2>1, SectionKeeps
<1>5. QED
  BY <1>3, <1>4 DEF Quietly

\* cancel_task of a queued or of a running task.
LEMMA CancelKeeps == ASSUME IInv, NEW t \in Task, cancel_task(t) PROVE IInv'
<1> DEFINE ts == [tasks EXCEPT ![t] = "Canceled"]
<1>1. up /\ tasks \in [Task -> TaskStatus] /\ ts \in [Task -> TaskStatus]
  BY DEF cancel_task, IInv, TypeOK, TaskStatus, Terminal
<1>2. CASE tasks[t] = "Queued" /\ Quietly(ts, Without(queue, t), cancelled)
  <2>1. \A u \in Task : ts[u] = tasks[u] \/ (tasks[u] = "Queued" /\ ts[u] = "Canceled")
    BY <1>1, <1>2
  <2>2. /\ Quietly(ts, Without(queue, t), cancelled)
        /\ up /\ ts \in [Task -> TaskStatus]
    BY <1>1, <1>2
  <2> HIDE DEF ts
  <2>3. QED
    BY <2>1, <2>2, QuietKeeps
<1>3. ASSUME NEW c, Quietly(tasks, queue, c) PROVE IInv'
  <2>1. up /\ tasks \in [Task -> TaskStatus]
    BY <1>1
  <2>2. \A u \in Task : tasks[u] = tasks[u] \/ (tasks[u] = "Queued" /\ tasks[u] = "Canceled")
    OBVIOUS
  <2>3. QED
    BY <1>3, <2>1, <2>2, QuietKeeps
<1>4. QED
  BY <1>2, <1>3 DEF cancel_task

\* delete_terminal_task: the file, then the memory.
LEMMA DeleteKeeps == ASSUME IInv, NEW t \in Task, delete_terminal_task(t) PROVE IInv'
<1> DEFINE ts == [tasks EXCEPT ![t] = "Absent"]
           q == Without(queue, t)
<1>1. /\ up /\ tasks[t] \in Terminal /\ used' = used /\ starts' = starts
      /\ saved' = [saved EXCEPT ![t] = "Absent"]
  BY DEF delete_terminal_task
<1>2. ts \in [Task -> TaskStatus] /\ saved' \in [Task -> TaskStatus]
  BY <1>1 DEF IInv, TypeOK, TaskStatus
<1>3. CASE MemoryLost /\ UNCHANGED errors
  <2>1. Died
    BY <1>1, <1>2, <1>3 DEF Died, IInv, Started, TypeOK
  <2>2. QED
    BY <2>1, DiedKeeps
<1>4. CASE /\ InMemory(ts, q)
           /\ UNCHANGED errors \/ errors' = errors + 1
           /\ UNCHANGED <<pool, running_cancel, cancelled, silent>>
  <2>1. errors' \in Nat /\ errors <= errors' /\ up' /\ tasks' = ts /\ worker' = worker
    BY <1>1, <1>4 DEF IInv, TypeOK, InMemory, pool
  <2>2. \A u \in Task :
          /\ ts[u] = "Running" <=> tasks[u] = "Running"
          /\ "Queued" \in {ts[u], saved'[u]} => starts[u] <= errors
          /\ saved'[u] \in Terminal => ts[u] = saved'[u]
          /\ u \notin used' => ts[u] = "Absent" /\ saved'[u] = "Absent"
    BY <1>1 DEF IInv, Started, Filed, Terminal, TypeOK
  <2>3. Section(ts)
    BY <1>1, <1>2, <1>4, <2>1, <2>2 DEF Section, At, IInv, TypeOK
  <2>4. QED
    BY <2>3, SectionKeeps
<1>5. QED
  BY <1>3, <1>4 DEF delete_terminal_task

\* persist_task saves a snapshot that may be old.
LEMMA PersistKeeps == ASSUME IInv, NEW t \in Task, persist_task(t) PROVE IInv'
<1>1. Section(tasks)
  BY DEF persist_task, Section, pool, At, IInv, TypeOK, Started, Filed, Terminal
<1>2. QED
  BY <1>1, SectionKeeps

\* The worker has the task and its token; whether or not the save succeeded, the
\* task file says queued only if it was started once per failed save.
LEMMA TakeKeeps ==
  ASSUME IInv, NEW w \in Worker, At(w, "poll"), NEW t \in QueuedTasks, take(w, t)
  PROVE  IInv'
<1> DEFINE ts == Marked(t)
<1>1. t \in Task /\ tasks[t] = "Queued" /\ up /\ used' = used
  BY DEF QueuedTasks, take, IInv, Down, At, Off
<1>2. /\ ts \in [Task -> TaskStatus]
      /\ \A u \in Task : ts[u] = IF u = t THEN "Running" ELSE tasks[u]
  BY <1>1 DEF Marked, IInv, TypeOK, TaskStatus, Active
<1> HIDE DEF ts
<1>3. CASE DiesSaving(ts, Tail(queue))
  <2>1. Died
    BY <1>1, <1>2, <1>3, DiesSavingDied DEF IInv, Started
  <2>2. QED
    BY <2>1, DiedKeeps
<1>4. CASE /\ Saves(ts, Tail(queue)) \/ SaveFails(ts, Tail(queue))
           /\ worker' = [worker EXCEPT ![w] = [pc |-> "run", task |-> t]]
           /\ running_cancel' = running_cancel \cup {t}
           /\ starts' = [starts EXCEPT ![t] = @ + 1]
  <2>1. Shown(ts) /\ tasks' = ts /\ up' = up
    BY <1>2, <1>4, SaveShows DEF IInv, Saves, SaveFails, InMemory
  <2>2. /\ errors' \in Nat /\ errors <= errors'
        /\ errors' = errors => saved'[t] = "Running"
    <3>1. CASE Saves(ts, Tail(queue))
      BY <1>1, <1>2, <3>1, SaveShowsAll DEF Saves, IInv, TypeOK
    <3>2. CASE SaveFails(ts, Tail(queue))
      BY <3>2 DEF SaveFails, IInv, TypeOK
    <3>3. QED
      BY <1>4, <3>1, <3>2
  <2>3. TypeOK'
    <3>1. worker' \in [Worker -> [pc : {"off", "poll", "idle", "parked", "run"},
                                  task : Task \cup {NoTask}]]
      BY <1>1, <1>4 DEF TypeOK, IInv
    <3>2. starts' \in [Task -> Nat]
      <4>1. starts \in [Task -> Nat] /\ starts[t] + 1 \in Nat
        BY <1>1 DEF TypeOK, IInv
      <4>2. QED
        BY <1>4, <4>1
    <3>3. QED
      BY <1>1, <1>2, <2>1, <2>2, <3>1, <3>2 DEF TypeOK, Shown
  <2>4. Running'
    <3>1. \A v \in Worker, u \in Task : Runs(v, u)' <=> IF v = w THEN u = t ELSE Runs(v, u)
      BY <1>4 DEF Runs, At, IInv, TypeOK
    <3>2. \A v \in Worker : ~ Runs(v, t)
      BY <1>1 DEF IInv, Running
    <3>3. \A v \in Worker : At(v, "run")' => worker'[v].task \in Task
      BY <1>1, <1>4 DEF At, IInv, Running, TypeOK
    <3>4. \A u \in Task : tasks'[u] = "Running" => \E v \in Worker : Runs(v, u)'
      <4> SUFFICES ASSUME NEW u \in Task, u # t, tasks[u] = "Running"
                   PROVE  \E v \in Worker : Runs(v, u)'
        BY <1>2, <2>1, <3>1
      <4>1. PICK v \in Worker : Runs(v, u)
        BY DEF IInv, Running
      <4>2. v # w
        BY <4>1 DEF Runs, At
      <4>3. QED
        BY <3>1, <4>1, <4>2
    <3>5. \A u \in Task, v \in Worker : Runs(v, u)' => tasks'[u] = "Running"
      BY <1>2, <2>1, <3>1 DEF IInv, Running
    <3>6. \A u \in Task, v, x \in Worker : Runs(v, u)' /\ Runs(x, u)' => v = x
      BY <3>1, <3>2 DEF IInv, Running
    <3>7. \A u \in Task : u \in running_cancel' <=> tasks'[u] = "Running"
      BY <1>2, <1>4, <2>1 DEF IInv, Running
    <3>8. QED
      BY <3>3, <3>4, <3>5, <3>6, <3>7 DEF Running
  <2>5. Started'
    BY <1>1, <1>2, <1>4, <2>1, <2>2 DEF Started, Shown, IInv, TypeOK, Terminal
  <2>6. Filed' /\ Down'
    BY <1>1, <1>2, <2>1 DEF Filed, Down, Shown, IInv, Terminal
  <2>7. QED
    BY <2>3, <2>4, <2>5, <2>6 DEF IInv
<1>5. QED
  BY <1>3, <1>4 DEF take, ts

\* Steps of a worker that move only the worker, the queue and its file.
LEMMA IdleKeeps ==
  ASSUME IInv, NEW w \in Worker, ~ At(w, "run"), NEW pc \in {"idle", "parked", "poll"}, Goto(w, pc), up,
         UNCHANGED <<up, tasks, running_cancel, saved, used, starts, errors>>
  PROVE  IInv'
<1>1. /\ worker' \in [Worker -> [pc : {"off", "poll", "idle", "parked", "run"},
                                 task : Task \cup {NoTask}]]
      /\ \A v \in Worker : (worker'[v].pc = "run" <=> At(v, "run")) /\ worker'[v].task = worker[v].task
  BY DEF Goto, At, IInv, TypeOK
<1>2. Section(tasks)
  BY <1>1 DEF Section, IInv, TypeOK, Started, Filed
<1>3. QED
  BY <1>2, SectionKeeps

\* The head of the worker loop.
LEMMA LoopKeeps == ASSUME IInv, NEW w \in Worker, worker_loop(w) PROVE IInv'
<1>1. At(w, "poll") /\ up /\ ~ At(w, "run")
  BY DEF worker_loop, IInv, Down, At, Off
<1>2. CASE Head(queue) \in QueuedTasks /\ take(w, Head(queue))
  BY <1>1, <1>2, TakeKeeps
<1>3. CASE Goto(w, "idle") /\ UNCHANGED <<up, tasks, running_cancel, saved, used, starts, errors>>
  BY <1>1, <1>3, IdleKeeps
<1>4. QED
  BY <1>2, <1>3 DEF worker_loop, drop, files

\* A worker is woken by the Notify.
LEMMA NotifiedKeeps == ASSUME IInv, NEW w \in Worker, notified(w) PROVE IInv'
<1>1. up /\ ~ At(w, "run")
  BY DEF notified, IInv, Down, At, Off
<1>2. PICK pc \in {"idle", "parked", "poll"} : Goto(w, pc)
  BY DEF notified
<1>3. UNCHANGED <<up, tasks, running_cancel, saved, used, starts, errors>>
  BY DEF notified, files
<1>4. QED
  BY <1>1, <1>2, <1>3, IdleKeeps

\* The task ends and gives up its worker and its token; a file that still says
\* running is failed by the next start.
LEMMA FinishKeeps ==
  ASSUME IInv, NEW w \in Worker, NEW result \in ExecutionResult, finish_task(w, result)
  PROVE  IInv'
<1> DEFINE t == worker[w].task
           ts == [tasks EXCEPT ![t] = IF @ = "Absent" THEN @ ELSE FinalStatus(t, result)]
<1>1. /\ At(w, "run") /\ t \in Task /\ tasks[t] = "Running" /\ up /\ used' = used
      /\ Runs(w, t)
  BY DEF finish_task, IInv, Running, Runs, Down, At, Off
<1>2. /\ ts \in [Task -> TaskStatus]
      /\ ts[t] \in Terminal
      /\ \A u \in Task : u # t => ts[u] = tasks[u]
  BY <1>1 DEF FinalStatus, ExecutionResult, IInv, TypeOK, TaskStatus, Terminal
<1>3. \/ DiesSaving(ts, queue)
      \/ /\ Saves(ts, queue) \/ SaveFails(ts, queue)
         /\ worker' = [worker EXCEPT ![w] = [pc |-> "poll", task |-> NoTask]]
         /\ running_cancel' = running_cancel \ {t}
         /\ starts' = starts
  BY DEF finish_task
<1>4. \A u \in Task : /\ ts[u] = "Queued" => starts[u] <= errors
                      /\ saved[u] \in Terminal => ts[u] = saved[u]
                      /\ u \notin used' => ts[u] = "Absent"
  BY <1>1, <1>2 DEF IInv, Started, Filed, Terminal
<1> HIDE DEF ts, t
<1>5. CASE DiesSaving(ts, queue)
  <2>1. Died
    BY <1>1, <1>2, <1>4, <1>5, DiesSavingDied
  <2>2. QED
    BY <2>1, DiedKeeps
<1>6. CASE /\ Saves(ts, queue) \/ SaveFails(ts, queue)
           /\ worker' = [worker EXCEPT ![w] = [pc |-> "poll", task |-> NoTask]]
           /\ running_cancel' = running_cancel \ {t}
           /\ starts' = starts
  <2>1. Shown(ts) /\ tasks' = ts /\ up' = up
    BY <1>2, <1>6, SaveShows DEF IInv, Saves, SaveFails, InMemory
  <2>2. errors' \in Nat /\ errors <= errors'
    BY <1>6 DEF Saves, SaveFails, IInv, TypeOK
  <2>3. TypeOK'
    <3>1. worker' \in [Worker -> [pc : {"off", "poll", "idle", "parked", "run"},
                                  task : Task \cup {NoTask}]]
      BY <1>6 DEF TypeOK, IInv
    <3>2. QED
      BY <1>1, <1>2, <1>6, <2>1, <2>2, <3>1 DEF TypeOK, IInv, Shown
  <2>4. Running'
    <3>1. \A v \in Worker, u \in Task : Runs(v, u)' <=> v # w /\ Runs(v, u)
      BY <1>6 DEF Runs, At, IInv, TypeOK
    <3>2. \A v \in Worker : At(v, "run")' => worker'[v].task \in Task
      BY <1>6 DEF At, IInv, Running, TypeOK
    <3>3. \A v \in Worker : Runs(v, t) => v = w
      BY <1>1 DEF IInv, Running
    <3>4. \A u \in Task : tasks'[u] = "Running" => \E v \in Worker : Runs(v, u)'
      <4> SUFFICES ASSUME NEW u \in Task, u # t, tasks[u] = "Running"
                   PROVE  \E v \in Worker : Runs(v, u)'
        BY <1>2, <2>1 DEF Terminal
      <4>1. PICK v \in Worker : Runs(v, u)
        BY DEF IInv, Running
      <4>2. v # w
        BY <1>1, <4>1 DEF Runs, t
      <4>3. QED
        BY <3>1, <4>1, <4>2
    <3>5. \A u \in Task, v \in Worker : Runs(v, u)' => tasks'[u] = "Running"
      BY <1>2, <2>1, <3>1, <3>3 DEF IInv, Running
    <3>6. \A u \in Task, v, x \in Worker : Runs(v, u)' /\ Runs(x, u)' => v = x
      BY <3>1 DEF IInv, Running
    <3>7. \A u \in Task : u \in running_cancel' <=> tasks'[u] = "Running"
      BY <1>2, <1>6, <2>1 DEF IInv, Running, Terminal
    <3>8. QED
      BY <3>2, <3>4, <3>5, <3>6, <3>7 DEF Running
  <2>5. Started'
    BY <1>1, <1>2, <1>4, <1>6, <2>1, <2>2 DEF Started, Shown, IInv, TypeOK
  <2>6. Filed' /\ Down'
    BY <1>1, <1>4, <2>1 DEF Filed, Down, Shown, IInv
  <2>7. QED
    BY <2>3, <2>4, <2>5, <2>6 DEF IInv
<1>7. QED
  BY <1>3, <1>5, <1>6

\* Each step preserves the invariant.
LEMMA NextKeeps == ASSUME IInv, [Next]_taskVars PROVE IInv'
<1>1. CASE start_with_executor \/ crash
  BY <1>1, BootKeeps, CrashKeeps
<1>2. CASE \E t \in Task : add_task(t) \/ cancel_task(t) \/ delete_terminal_task(t) \/ persist_task(t)
  BY <1>2, AddKeeps, CancelKeeps, DeleteKeeps, PersistKeeps
<1>3. CASE \E w \in Worker : WorkerStep(w)
  BY <1>3, LoopKeeps, NotifiedKeeps, FinishKeeps DEF WorkerStep
<1>4. CASE UNCHANGED taskVars
  BY <1>4 DEF taskVars, IInv, TypeOK, Running, Runs, At, Started, Filed, Down
<1>5. QED
  BY <1>1, <1>2, <1>3, <1>4 DEF Next

--------------------------------------------------------------------------------
(* What follows.                                                           *)

\* What a step does to a task whose end is on disk or was asked for.
Settles(t) ==
  /\ t \in cancelled /\ tasks'[t] = "Completed" => tasks[t] = "Completed"
  /\ saved[t] \in Terminal => saved'[t] \in {saved[t], "Absent"}

\* A save writes a status that a settled task keeps.
LEMMA SaveSettles ==
  ASSUME IInv, NEW ts \in [Task -> TaskStatus], NEW q, NEW t \in Task,
         Saves(ts, q) \/ SaveFails(ts, q) \/ DiesSaving(ts, q),
         saved[t] \in Terminal => ts[t] = saved[t],
         t \in cancelled /\ ts[t] = "Completed" => tasks[t] = "Completed"
  PROVE  Settles(t)
<1>1. Shown(ts)
  BY SaveShows DEF IInv, Saves, SaveFails, DiesSaving
<1>2. tasks' = ts \/ tasks'[t] = "Absent"
  BY DEF Saves, SaveFails, InMemory, DiesSaving, MemoryLost, Nowhere
<1>3. QED
  BY <1>1, <1>2 DEF Settles, Shown

\* Recovery does not reopen a task that is over.
LEMMA BootSettles == ASSUME IInv, start_with_executor, NEW t \in Task PROVE Settles(t)
<1>1. PICK q : (tasks' = RecoveredTasks /\ persist_all_locked(RecoveredTasks, q))
               \/ DiesSaving(RecoveredTasks, q)
  BY DEF start_with_executor
<1>2. /\ RecoveredTasks \in [Task -> TaskStatus] /\ t \notin cancelled
      /\ saved[t] \in Terminal => RecoveredTasks[t] = saved[t]
  BY DEF start_with_executor, RecoveredTasks, IInv, TypeOK, Down, TaskStatus, Terminal
<1>3. Shown(RecoveredTasks)
  BY <1>1, <1>2, SaveShows DEF IInv, DiesSaving
<1>4. QED
  BY <1>2, <1>3 DEF Settles, Shown

\* Neither do the callers.
LEMMA CallerSettles ==
  ASSUME IInv, NEW u \in Task, NEW t \in Task,
         add_task(u) \/ cancel_task(u) \/ delete_terminal_task(u) \/ persist_task(u)
  PROVE  Settles(t)
<1> USE DEF IInv
<1>1. up /\ (saved[t] \in Terminal => tasks[t] = saved[t]) /\ tasks \in [Task -> TaskStatus]
  BY DEF add_task, cancel_task, delete_terminal_task, persist_task, Filed, TypeOK
<1>2. CASE add_task(u)
  <2> DEFINE ts == [tasks EXCEPT ![u] = "Queued"]
  <2>1. /\ ts \in [Task -> TaskStatus]
        /\ saved[t] \in Terminal => ts[t] = saved[t]
        /\ ts[t] = "Completed" => tasks[t] = "Completed"
    BY <1>1, <1>2 DEF add_task, Started, TaskStatus, Active, Terminal
  <2>2. PICK q : Saves(ts, q) \/ SaveFails(ts, q) \/ DiesSaving(ts, q)
    BY <1>2 DEF add_task
  <2> HIDE DEF ts
  <2>3. QED
    BY <2>1, <2>2, SaveSettles
<1>3. CASE cancel_task(u)
  <2>1. ASSUME NEW ts \in [Task -> TaskStatus], NEW q, NEW c, Quietly(ts, q, c),
               ts[t] = tasks[t] \/ (tasks[t] = "Queued" /\ ts[t] = "Canceled")
        PROVE  Settles(t)
    <3>1. Saves(ts, q) \/ SaveFails(ts, q) \/ DiesSaving(ts, q)
      BY <2>1 DEF Quietly
    <3>2. /\ saved[t] \in Terminal => ts[t] = saved[t]
          /\ ts[t] = "Completed" => tasks[t] = "Completed"
      BY <1>1, <2>1 DEF Terminal
    <3>3. QED
      BY <3>1, <3>2, SaveSettles
  <2> DEFINE cs == [tasks EXCEPT ![u] = "Canceled"]
  <2>2. /\ cs \in [Task -> TaskStatus]
        /\ tasks[u] = "Queued" => (cs[t] = tasks[t] \/ (tasks[t] = "Queued" /\ cs[t] = "Canceled"))
    BY <1>1 DEF TaskStatus, Terminal
  <2>3. \/ \E c : Quietly(tasks, queue, c)
        \/ tasks[u] = "Queued" /\ \E q, c : Quietly(cs, q, c)
    BY <1>3 DEF cancel_task
  <2> HIDE DEF cs
  <2>4. QED
    BY <1>1, <2>1, <2>2, <2>3
<1>4. CASE delete_terminal_task(u)
  <2>1. tasks' = [tasks EXCEPT ![u] = "Absent"] \/ tasks' = Nowhere
    BY <1>4 DEF delete_terminal_task, InMemory, MemoryLost
  <2>2. saved' = [saved EXCEPT ![u] = "Absent"]
    BY <1>4 DEF delete_terminal_task
  <2>3. QED
    BY <1>1, <2>1, <2>2 DEF Settles, Nowhere, TypeOK
<1>5. CASE persist_task(u)
  BY <1>1, <1>5 DEF persist_task, Settles, TypeOK
<1>6. QED
  BY <1>2, <1>3, <1>4, <1>5

\* Nor do the workers.
LEMMA WorkerSettles == ASSUME IInv, NEW w \in Worker, WorkerStep(w), NEW t \in Task PROVE Settles(t)
<1>1. up /\ (saved[t] \in Terminal => tasks[t] = saved[t]) /\ tasks \in [Task -> TaskStatus]
  <2>1. At(w, "poll") \/ At(w, "idle") \/ At(w, "run")
    BY DEF WorkerStep, worker_loop, notified, finish_task
  <2>2. QED
    BY <2>1 DEF IInv, Filed, Down, At, Off, TypeOK
<1>2. CASE UNCHANGED <<tasks, saved>>
  BY <1>2 DEF Settles
<1>3. ASSUME NEW u \in QueuedTasks, take(w, u) PROVE Settles(t)
  <2> DEFINE ts == Marked(u)
  <2>1. /\ ts \in [Task -> TaskStatus]
        /\ saved[t] \in Terminal => ts[t] = saved[t]
        /\ ts[t] = "Completed" => tasks[t] = "Completed"
    BY <1>1, <1>3 DEF Marked, QueuedTasks, TaskStatus, Active, Terminal
  <2>2. Saves(ts, Tail(queue)) \/ SaveFails(ts, Tail(queue)) \/ DiesSaving(ts, Tail(queue))
    BY <1>3 DEF take
  <2> HIDE DEF ts
  <2>3. QED
    BY <2>1, <2>2, SaveSettles
<1>4. ASSUME NEW result \in ExecutionResult, finish_task(w, result) PROVE Settles(t)
  <2> DEFINE r == worker[w].task
             ts == [tasks EXCEPT ![r] = IF @ = "Absent" THEN @ ELSE FinalStatus(r, result)]
  <2>1. r \in Task /\ tasks[r] = "Running"
    BY <1>4 DEF finish_task, IInv, Running, Runs
  <2>2. /\ ts \in [Task -> TaskStatus]
        /\ saved[t] \in Terminal => ts[t] = saved[t]
        /\ t \in cancelled /\ ts[t] = "Completed" => tasks[t] = "Completed"
    BY <1>1, <2>1 DEF FinalStatus, ExecutionResult, TaskStatus, Terminal
  <2>3. Saves(ts, queue) \/ SaveFails(ts, queue) \/ DiesSaving(ts, queue)
    BY <1>4 DEF finish_task
  <2> HIDE DEF ts, r
  <2>4. QED
    BY <2>2, <2>3, SaveSettles
<1>5. QED
  BY <1>2, <1>3, <1>4 DEF WorkerStep, worker_loop, drop, notified, files

\* So no step does.
LEMMA NextSettles == ASSUME IInv, Next PROVE \A t \in Task : Settles(t)
<1>1. ASSUME NEW t \in Task, crash PROVE Settles(t)
  BY <1>1 DEF crash, MemoryLost, Nowhere, Settles, files
<1>2. QED
  BY <1>1, BootSettles, CallerSettles, WorkerSettles DEF Next

\* The manager's state keeps its shape, its bookkeeping of runs, starts and
\* outcomes through every section, failed save, crash and restart.
THEOREM Invariance == Spec => []IInv
<1>1. IInv /\ [Next]_taskVars => IInv'
  BY NextKeeps
<1>2. QED
  BY InitHolds, <1>1, PTL DEF Spec

\* A task is handed to the executor once, and once more for each failed save at
\* the most, however often the process dies (worker_loop, load_state).
THEOREM RunsOnceHolds == Spec => []RunsOnce
<1>1. IInv => RunsOnce
  BY DEF IInv, Started, RunsOnce
<1>2. QED
  BY Invariance, <1>1, PTL

\* A running task has one worker and one token (worker_loop, finish_task,
\* cancel_task).
THEOREM OneRunnerHolds == Spec => []OneRunner
<1>1. IInv => OneRunner
  <2> SUFFICES ASSUME IInv, NEW t \in Task
               PROVE  /\ Cardinality({w \in Worker : At(w, "run") /\ worker[w].task = t})
                            = IF tasks[t] = "Running" THEN 1 ELSE 0
                      /\ t \in running_cancel <=> tasks[t] = "Running"
    BY DEF OneRunner
  <2> DEFINE R == {w \in Worker : At(w, "run") /\ worker[w].task = t}
  <2>1. t \in running_cancel <=> tasks[t] = "Running"
    BY DEF IInv, Running
  <2>2. CASE tasks[t] = "Running"
    <3>1. PICK w \in Worker : Runs(w, t)
      BY <2>2 DEF IInv, Running
    <3>2. R = {w}
      BY <3>1 DEF IInv, Running, Runs
    <3>3. Cardinality(R) = 1
      BY <3>2, FS_Singleton
    <3>4. QED
      BY <2>1, <2>2, <3>3
  <2>3. CASE tasks[t] # "Running"
    <3>1. R = {}
      BY <2>3 DEF IInv, Running, Runs
    <3>2. Cardinality(R) = 0
      BY <3>1, FS_EmptySet
    <3>3. QED
      BY <2>1, <2>3, <3>2
  <2>4. QED
    BY <2>2, <2>3
<1>2. QED
  BY Invariance, <1>1, PTL

\* A step completes no task whose cancellation was requested: the worker that
\* runs it reports canceled in its place (finish_task), no other step completes
\* a task of this process (cancel_task, add_task, delete_terminal_task).
THEOREM CancelWinsHolds == Spec => CancelWins
<1>1. IInv /\ [Next]_taskVars => [\A t \in Task : t \in cancelled /\ tasks'[t] = "Completed" => tasks[t] = "Completed"]_taskVars
  BY NextSettles DEF Settles
<1>2. QED
  BY Invariance, <1>1, PTL DEF Spec, CancelWins

\* The task files implement the board: a task is open until it is over and how
\* it ended never changes until it is deleted, through failed saves, saves cut
\* short by a crash, and restarts (persist_all_locked, load_state).
THEOREM Refinement == Spec => ImplementsBoard
<1> DEFINE Shows(f) == [t \in Task |-> IF f[t] \in Active THEN "Open" ELSE f[t]]
<1>1. Init => Board!BoardInit
  BY DEF Init, Board!BoardInit, Nowhere, Active
<1>2. ASSUME IInv, IInv', [Next]_taskVars PROVE [Board!Progress]_(Shows(saved))
  <2>1. CASE UNCHANGED taskVars
    BY <2>1 DEF taskVars
  <2>2. CASE Next
    <3>1. saved \in [Task -> TaskStatus] /\ saved' \in [Task -> TaskStatus]
      BY <1>2 DEF IInv, TypeOK
    <3>2. ASSUME NEW t \in Task, Shows(saved)'[t] # Shows(saved)[t]
          PROVE  <<Shows(saved)[t], Shows(saved)'[t]>> \in Board!Moves
      <4>1. saved[t] \in Terminal => saved'[t] \in {saved[t], "Absent"}
        BY <1>2, <2>2, NextSettles DEF Settles
      <4>2. saved[t] \in TaskStatus /\ saved'[t] \in TaskStatus
        BY <3>1
      <4>3. QED
        BY <3>2, <4>1, <4>2 DEF Board!Moves, TaskStatus, Active, Terminal
    <3>3. QED
      BY <3>2 DEF Board!Progress
  <2>3. QED
    BY <1>2, <2>1, <2>2
<1>3. QED
  BY Invariance, <1>1, <1>2, PTL DEF Spec, ImplementsBoard, Board!BoardSpec

--------------------------------------------------------------------------------
(* The queue.                                                              *)

\* A nonempty set of numbers has a least one.
LEMMA Least ==
  ASSUME NEW S \in SUBSET Nat, S # {}
  PROVE  \E m \in S : \A k \in S : m <= k
<1> DEFINE T == {0..k : k \in S}
<1>1. T \subseteq FiniteSubsetsOf(Nat)
  <2>1. ASSUME NEW k \in S PROVE 0..k \in SUBSET Nat /\ IsFiniteSet(0..k)
    BY FS_Interval
  <2> QED
    BY <2>1 DEF FiniteSubsetsOf
<1>2. PICK I \in T : \A J \in T : ~ (<<J, I>> \in StrictSubsetOrdering(Nat))
  <2> T # {}
    OBVIOUS
  <2> HIDE DEF T
  <2> QED
    BY <1>1, FS_StrictSubsetOrderingWellFounded, WFMin
<1>3. PICK m \in S : I = 0..m
  OBVIOUS
<1>4. ASSUME NEW k \in S, k < m PROVE FALSE
  <2>1. 0..k \in T /\ 0..k \subseteq 0..m /\ 0..m \subseteq Nat
    BY <1>4
  <2>2. m \in 0..m /\ m \notin 0..k
    BY <1>4
  <2>3. <<0..k, 0..m>> \in StrictSubsetOrdering(Nat)
    <3> DEFINE A == 0..k  B == 0..m
    <3> A \subseteq B /\ A # B /\ <<A, B>> \in (SUBSET Nat) \X (SUBSET Nat)
      BY <2>1, <2>2
    <3> HIDE DEF A, B
    <3> <<A, B>> \in StrictSubsetOrdering(Nat)
      BY DEF StrictSubsetOrdering
    <3> QED
      BY DEF A, B
  <2> QED
    BY <1>2, <1>3, <2>1, <2>3
<1> QED
  BY <1>4

\* g says what the filter has kept of the first 0, 1, .. n entries of q.
Filters(g, n, q, S) ==
  /\ g = [i \in 0 .. n |-> g[i]]
  /\ g[0] = <<>>
  /\ \A i \in 1 .. n : g[i] = IF q[i] \in S THEN Append(g[i - 1], q[i]) ELSE g[i - 1]

\* Such a function exists, whatever n: otherwise take the least n for which there is
\* none.
LEMMA FilterExists ==
  ASSUME NEW q, NEW S
  PROVE  \A n \in Nat : \E g : Filters(g, n, q, S)
<1> DEFINE Bad == {n \in Nat : ~ \E g : Filters(g, n, q, S)}
<1> SUFFICES ASSUME Bad # {} PROVE FALSE
  OBVIOUS
<1>1. PICK m \in Bad : \A k \in Bad : m <= k
  <2> Bad \in SUBSET Nat
    OBVIOUS
  <2> HIDE DEF Bad
  <2> QED
    BY Least
<1>2. CASE m = 0
  <2>1. Filters([i \in 0 .. 0 |-> <<>>], 0, q, S)
    BY DEF Filters
  <2> QED
    BY <1>2, <2>1
<1>3. CASE m # 0
  <2>1. m - 1 \in Nat /\ m - 1 \notin Bad /\ m \in Nat
    BY <1>1, <1>3
  <2>2. PICK g : Filters(g, m - 1, q, S)
    BY <2>1
  <2> DEFINE h == [i \in 0 .. m |-> IF i = m THEN (IF q[m] \in S THEN Append(g[m - 1], q[m]) ELSE g[m - 1]) ELSE g[i]]
  <2>3. h = [i \in 0 .. m |-> h[i]] /\ h[0] = <<>>
    BY <1>3, <2>1, <2>2 DEF Filters
  <2>4. ASSUME NEW i \in 1 .. m
        PROVE  h[i] = IF q[i] \in S THEN Append(h[i - 1], q[i]) ELSE h[i - 1]
    <3>1. CASE i = m
      BY <2>1, <3>1
    <3>2. CASE i # m
      <4>1. i \in 1 .. m - 1 /\ i - 1 \in 0 .. m /\ i - 1 # m /\ i \in 0 .. m
        BY <2>1, <3>2
      <4>2. h[i] = g[i] /\ h[i - 1] = g[i - 1]
        BY <3>2, <4>1
      <4>3. g[i] = IF q[i] \in S THEN Append(g[i - 1], q[i]) ELSE g[i - 1]
        BY <2>2, <4>1 DEF Filters
      <4> QED
        BY <4>2, <4>3
    <3> QED
      BY <3>1, <3>2
  <2>5. Filters(h, m, q, S)
    <3> HIDE DEF h
    <3> QED
      BY <2>3, <2>4 DEF Filters
  <2> QED
    BY <2>5
<1> QED
  BY <1>2, <1>3

\* Kept is the last value of such a function.
LEMMA KeptFilters ==
  ASSUME NEW T, NEW q \in Seq(T), NEW S
  PROVE  \E g : Filters(g, Len(q), q, S) /\ Kept(q, S) = g[Len(q)]
<1> DEFINE F(g) == [n \in 0 .. Len(q) |->
                      IF n = 0 THEN <<>> ELSE IF q[n] \in S THEN Append(g[n - 1], q[n]) ELSE g[n - 1]]
           k == CHOOSE g : g = F(g)
<1>1. Kept(q, S) = k[Len(q)]
  BY DEF Kept
<1>2. PICK g : Filters(g, Len(q), q, S)
  <2>1. Len(q) \in Nat
    OBVIOUS
  <2> QED
    BY <2>1, FilterExists
<1>3. g = F(g)
  BY <1>2 DEF Filters
<1>4. k = F(k)
  <2> HIDE DEF F
  <2> QED
    BY <1>3
<1>5. Filters(k, Len(q), q, S)
  <2> HIDE DEF k
  <2>1. Len(q) \in Nat
    OBVIOUS
  <2>2. \A n \in 0 .. Len(q) : k[n] = IF n = 0 THEN <<>> ELSE IF q[n] \in S THEN Append(k[n - 1], q[n]) ELSE k[n - 1]
    BY <1>4, <2>1
  <2>3. k = [n \in 0 .. Len(q) |-> k[n]]
    BY <1>4
  <2> QED
    BY <2>1, <2>2, <2>3 DEF Filters
<1> QED
  BY <1>1, <1>5

\* No entry occurs twice; the first n entries.
Once(q) == \A i, j \in 1 .. Len(q) : q[i] = q[j] => i = j
Entries(q, n) == {q[i] : i \in 1 .. n}

\* One entry more.
LEMMA Appended ==
  ASSUME NEW T, NEW q \in Seq(T), NEW x \in T
  PROVE  /\ Append(q, x) \in Seq(T)
         /\ Entries(Append(q, x), Len(q) + 1) = Entries(q, Len(q)) \cup {x}
         /\ Len(Append(q, x)) = Len(q) + 1
         /\ Once(q) /\ x \notin Entries(q, Len(q)) => Once(Append(q, x))
<1>1. /\ Append(q, x) \in Seq(T) /\ Len(Append(q, x)) = Len(q) + 1 /\ Len(q) \in Nat
      /\ \A i \in 1 .. Len(q) : Append(q, x)[i] = q[i]
      /\ Append(q, x)[Len(q) + 1] = x
  OBVIOUS
<1>2. \A i : i \in 1 .. Len(q) + 1 <=> i \in 1 .. Len(q) \/ i = Len(q) + 1
  BY <1>1
<1> DEFINE a == Append(q, x)
           n == Len(q)
<1> HIDE DEF a
<1>3. Entries(a, n + 1) = Entries(q, n) \cup {x}
  BY <1>1, <1>2 DEF Entries, a
<1>4. ASSUME Once(q), x \notin Entries(q, n), NEW i \in 1 .. n + 1, NEW j \in 1 .. n + 1, a[i] = a[j]
      PROVE  i = j
  <2>1. \A k \in 1 .. n : a[k] # x
    BY <1>1, <1>4 DEF Entries, a
  <2>2. CASE i \in 1 .. n /\ j \in 1 .. n
    BY <1>1, <1>4, <2>2 DEF Once, a
  <2>3. CASE i = n + 1 \/ j = n + 1
    <3>1. a[n + 1] = x
      BY <1>1 DEF a
    <3> QED
      BY <1>2, <1>4, <2>1, <2>3, <3>1
  <2> QED
    BY <1>2, <2>2, <2>3
<1>5. Once(q) /\ x \notin Entries(q, n) => Once(a)
  BY <1>1, <1>4 DEF Once, a
<1> QED
  BY <1>1, <1>3, <1>5 DEF a

\* What the filter has kept of the first n entries.
KeptOf(k, q, S, T, n) ==
  /\ k \in Seq(T)
  /\ Entries(k, Len(k)) = Entries(q, n) \cap S
  /\ Once(q) => Once(k)

\* The filter keeps the entries in S and adds none (least n for which it does not).
LEMMA FilterKeeps ==
  ASSUME NEW T, NEW q \in Seq(T), NEW S, NEW g, Filters(g, Len(q), q, S)
  PROVE  \A n \in 0 .. Len(q) : KeptOf(g[n], q, S, T, n)
<1> DEFINE Bad == {n \in 0 .. Len(q) : ~ KeptOf(g[n], q, S, T, n)}
<1> SUFFICES ASSUME Bad # {} PROVE FALSE
  OBVIOUS
<1>1. PICK m \in Bad : \A k \in Bad : m <= k
  <2> Bad \in SUBSET Nat
    OBVIOUS
  <2> HIDE DEF Bad
  <2> QED
    BY Least
<1>2. m \in 0 .. Len(q) /\ ~ KeptOf(g[m], q, S, T, m) /\ Len(q) \in Nat
  OBVIOUS
<1>3. m # 0
  <2>1. g[0] = <<>>
    BY DEF Filters
  <2>2. KeptOf(<<>>, q, S, T, 0)
    <3>1. <<>> \in Seq(T) /\ Len(<<>>) = 0 /\ \A i : i \notin 1 .. 0
      OBVIOUS
    <3> QED
      BY <3>1 DEF KeptOf, Entries, Once
  <2> QED
    BY <1>2, <2>1, <2>2
<1> DEFINE p == g[m - 1]
           x == q[m]
<1>4. m \in 1 .. Len(q) /\ m - 1 \in 0 .. Len(q) /\ m - 1 \notin Bad
  BY <1>1, <1>2, <1>3
<1>5. KeptOf(p, q, S, T, m - 1)
  BY <1>4
<1>6. g[m] = IF x \in S THEN Append(p, x) ELSE p
  BY <1>4 DEF Filters
<1>7. x \in T /\ Entries(q, m) = Entries(q, m - 1) \cup {x}
  <2>1. \A i : i \in 1 .. m <=> i \in 1 .. m - 1 \/ i = m
    BY <1>4
  <2> QED
    BY <1>4, <2>1 DEF Entries
<1>8. Once(q) => x \notin Entries(q, m - 1)
  <2>1. \A i \in 1 .. m - 1 : i \in 1 .. Len(q) /\ i # m
    BY <1>4
  <2> QED
    BY <1>4, <2>1 DEF Once, Entries
<1> HIDE DEF p, x, Bad
<1>9. KeptOf(g[m], q, S, T, m)
  <2>1. CASE x \in S
    <3>1. p \in Seq(T)
      BY <1>5 DEF KeptOf
    <3>2. /\ Append(p, x) \in Seq(T) /\ Len(Append(p, x)) = Len(p) + 1
          /\ Entries(Append(p, x), Len(p) + 1) = Entries(p, Len(p)) \cup {x}
          /\ Once(p) /\ x \notin Entries(p, Len(p)) => Once(Append(p, x))
      BY <1>7, <3>1, Appended
    <3>3. Entries(p, Len(p)) = Entries(q, m - 1) \cap S /\ (Once(q) => Once(p))
      BY <1>5 DEF KeptOf
    <3> QED
      BY <1>6, <1>7, <1>8, <2>1, <3>2, <3>3 DEF KeptOf
  <2>2. CASE x \notin S
    BY <1>5, <1>6, <1>7, <2>2 DEF KeptOf
  <2> QED
    BY <2>1, <2>2
<1> QED
  BY <1>2, <1>9

\* The range of a sequence is the set of its entries.
LEMMA RangeIsEntries == ASSUME NEW T, NEW q \in Seq(T) PROVE Range(q) = Entries(q, Len(q))
BY DEF Range, Entries

\* What VecDeque::retain leaves: the entries in S, each once if each was there once.
LEMMA KeptIs ==
  ASSUME NEW T, NEW q \in Seq(T), NEW S
  PROVE  Kept(q, S) \in Seq(T) /\ Range(Kept(q, S)) = Range(q) \cap S /\ (Once(q) => Once(Kept(q, S)))
<1>1. PICK g : Filters(g, Len(q), q, S) /\ Kept(q, S) = g[Len(q)]
  BY KeptFilters
<1>2. Len(q) \in 0 .. Len(q)
  OBVIOUS
<1>3. KeptOf(Kept(q, S), q, S, T, Len(q))
  BY <1>1, <1>2, FilterKeeps
<1> QED
  BY <1>3, RangeIsEntries DEF KeptOf

\* A finite set in some order is a sequence that names each element once.
LEMMA Ordered ==
  ASSUME NEW T, NEW M \in SUBSET T, IsFiniteSet(M), NEW s \in SetToSeqs(M)
  PROVE  s \in Seq(T) /\ Once(s) /\ Range(s) = M
<1> DEFINE n == Cardinality(M)
<1>1. n \in Nat
  BY FS_CardinalityType
<1>2. s \in [1 .. n -> M] /\ \A i, j \in 1 .. n : i # j => s[i] # s[j]
  BY DEF SetToSeqs
<1> HIDE DEF n
<1>3. s \in Seq(T) /\ Len(s) = n /\ Once(s)
  BY <1>1, <1>2 DEF Once
<1>4. s \in Injection(1 .. n, M)
  BY <1>2 DEF Injection, IsInjective
<1>5. IsFiniteSet(1 .. n) /\ Cardinality(1 .. n) = n
  BY <1>1, FS_Interval
<1>6. s \in Surjection(1 .. n, M)
  BY <1>4, <1>5, FS_Injection DEF n
<1>7. Range(s) = M
  BY <1>2, <1>6 DEF Range, Surjection
<1> QED
  BY <1>3, <1>7

\* The queue that was saved, followed by the tasks it misses.
LEMMA Joined ==
  ASSUME NEW T, NEW a \in Seq(T), NEW b \in Seq(T), Once(a), Once(b), Range(a) \cap Range(b) = {}
  PROVE  a \o b \in Seq(T) /\ Once(a \o b) /\ Range(a \o b) = Range(a) \cup Range(b)
<1> DEFINE c == a \o b
           m == Len(a)
           n == Len(b)
<1>1. /\ c \in Seq(T) /\ m \in Nat /\ n \in Nat /\ Len(c) = m + n
      /\ \A i \in 1 .. m : c[i] = a[i]
      /\ \A i \in 1 .. m + n : i > m => c[i] = b[i - m]
      /\ DOMAIN a = 1 .. m /\ DOMAIN b = 1 .. n /\ DOMAIN c = 1 .. m + n
  OBVIOUS
<1> HIDE DEF c, m, n
<1>2. ASSUME NEW i \in 1 .. m + n
      PROVE  \/ i \in 1 .. m /\ c[i] = a[i] /\ c[i] \in Range(a)
             \/ i > m /\ i - m \in 1 .. n /\ c[i] = b[i - m] /\ c[i] \in Range(b)
  <2>1. i \in 1 .. m \/ (i > m /\ i - m \in 1 .. n)
    BY <1>1
  <2>2. (\A k \in 1 .. m : a[k] \in Range(a)) /\ (\A k \in 1 .. n : b[k] \in Range(b))
    BY <1>1 DEF Range
  <2> QED
    BY <1>1, <2>1, <2>2
<1>3. Range(c) = Range(a) \cup Range(b)
  <2>1. Range(c) \subseteq Range(a) \cup Range(b)
    BY <1>1, <1>2 DEF Range
  <2>2. \A x \in Range(a) : x \in Range(c)
    <3>1. \A i \in 1 .. m : i \in 1 .. m + n
      BY <1>1
    <3> QED
      BY <1>1, <3>1 DEF Range
  <2>3. \A x \in Range(b) : x \in Range(c)
    <3> SUFFICES ASSUME NEW i \in 1 .. n PROVE b[i] \in Range(c)
      BY <1>1 DEF Range
    <3>1. m + i \in 1 .. m + n /\ m + i > m /\ (m + i) - m = i
      BY <1>1
    <3>2. c[m + i] = b[i]
      BY <1>1, <3>1
    <3> QED
      BY <1>1, <3>1, <3>2 DEF Range
  <2> QED
    BY <2>1, <2>2, <2>3
<1>4. ASSUME NEW i \in 1 .. m + n, NEW j \in 1 .. m + n, c[i] = c[j] PROVE i = j
  <2>1. CASE i \in 1 .. m /\ j \in 1 .. m
    BY <1>1, <1>4, <2>1 DEF Once, m
  <2>2. CASE i > m /\ j > m
    <3>1. i - m \in 1 .. n /\ j - m \in 1 .. n /\ b[i - m] = b[j - m]
      BY <1>1, <1>4, <2>2
    <3>2. i - m = j - m
      BY <3>1 DEF Once, n
    <3> QED
      BY <1>1, <3>2
  <2>3. CASE (i \in 1 .. m /\ j > m) \/ (i > m /\ j \in 1 .. m)
    BY <1>1, <1>2, <1>4, <2>3
  <2> QED
    BY <1>1, <2>1, <2>2, <2>3
<1> QED
  BY <1>1, <1>3, <1>4 DEF Once, c

\* q names the queued tasks of ts, each once.
QueueOf(q, ts) == q \in Seq(Task) /\ Once(q) /\ Range(q) = {t \in Task : ts[t] = "Queued"}

\* The second inductive invariant, relative to IInv: the queue file may be older than
\* the task files, but names no task twice; finitely many tasks were added.
QueueInv ==
  /\ QueueOf(queue, tasks)
  /\ saved_queue \in Seq(Task) /\ Once(saved_queue)
  /\ IsFiniteSet(used)

\* A process that is down has no task and no queue.
LEMMA EmptyQueue == QueueOf(<<>>, Nowhere)
<1>1. <<>> \in Seq(Task) /\ Len(<<>>) = 0 /\ DOMAIN <<>> = {} /\ \A i : i \notin 1 .. 0
  OBVIOUS
<1> QED
  BY <1>1 DEF QueueOf, Once, Range, Nowhere

\* A section that leaves an exact queue, its save whole, torn or the last thing done.
LEMMA SectionQueue ==
  ASSUME QueueInv, NEW ts, NEW q, QueueOf(q, ts), IsFiniteSet(used'),
         Saves(ts, q) \/ SaveFails(ts, q) \/ DiesSaving(ts, q)
  PROVE  QueueInv'
<1>1. (queue' = q /\ tasks' = ts) \/ (queue' = <<>> /\ tasks' = Nowhere)
  BY DEF Saves, SaveFails, DiesSaving, InMemory, MemoryLost
<1>2. saved_queue' = q \/ saved_queue' = saved_queue
  BY DEF Saves, SaveFails, DiesSaving, persist_all_locked, PartlySaved, files
<1>3. QueueOf(queue', tasks')
  BY <1>1, EmptyQueue
<1>4. saved_queue' \in Seq(Task) /\ Once(saved_queue')
  BY <1>2 DEF QueueInv, QueueOf
<1> QED
  BY <1>3, <1>4 DEF QueueInv, QueueOf, Once

\* A step that neither queues nor unqueues a task.
LEMMA SameQueue ==
  ASSUME QueueInv, UNCHANGED <<queue, saved_queue, used>>, QueueOf(queue, tasks')
  PROVE  QueueInv'
BY DEF QueueInv, QueueOf, Once

\* load_state repairs the queue file with what the task files say.
LEMMA BootQueue == ASSUME IInv, QueueInv, start_with_executor PROVE QueueInv'
<1>1. PICK q \in RecoveredQueues :
        \/ tasks' = RecoveredTasks /\ queue' = q /\ persist_all_locked(RecoveredTasks, q)
        \/ DiesSaving(RecoveredTasks, q)
  BY DEF start_with_executor
<1>2. QueueOf(q, RecoveredTasks) /\ used' = used
  <2> DEFINE M == StillQueued \ Range(KnownQueue)
  <2>1. PICK s \in SetToSeqs(M) : q = KnownQueue \o s
    BY DEF RecoveredQueues
  <2>2. M \in SUBSET Task /\ IsFiniteSet(M)
    <3>1. StillQueued \subseteq used
      BY DEF StillQueued, RecoveredTasks, IInv, Started
    <3>2. IsFiniteSet(used)
      BY DEF QueueInv
    <3>3. M \subseteq used /\ M \subseteq Task
      BY <3>1 DEF StillQueued
    <3> HIDE DEF M
    <3> QED
      BY <3>2, <3>3, FS_Subset
  <2>3. s \in Seq(Task) /\ Once(s) /\ Range(s) = M
    <3> HIDE DEF M
    <3> QED
      BY <2>2, Ordered
  <2>4. /\ KnownQueue \in Seq(Task) /\ Once(KnownQueue)
        /\ Range(KnownQueue) = Range(saved_queue) \cap StillQueued
    BY KeptIs DEF KnownQueue, QueueInv
  <2>5. Range(KnownQueue) \cap Range(s) = {} /\ Range(KnownQueue) \cup Range(s) = StillQueued
    BY <2>3, <2>4
  <2>6. q \in Seq(Task) /\ Once(q) /\ Range(q) = StillQueued
    BY <2>1, <2>3, <2>4, <2>5, Joined
  <2> QED
    BY <2>6 DEF QueueOf, StillQueued, start_with_executor
<1>3. CASE DiesSaving(RecoveredTasks, q)
  BY <1>2, <1>3, SectionQueue DEF QueueInv
<1>4. CASE tasks' = RecoveredTasks /\ queue' = q /\ saved_queue' = q
  BY <1>2, <1>4 DEF QueueInv, QueueOf, Once
<1> QED
  BY <1>1, <1>3, <1>4 DEF persist_all_locked

\* add_task appends an id that was never used.
LEMMA AddQueue == ASSUME IInv, QueueInv, NEW t \in Task, add_task(t) PROVE QueueInv'
<1> DEFINE ts == [tasks EXCEPT ![t] = "Queued"]
           q == Append(queue, t)
<1>1. t \notin used /\ used' = used \cup {t}
  BY DEF add_task
<1>2. IsFiniteSet(used')
  BY <1>1, FS_AddElement DEF QueueInv
<1>3. queue \in Seq(Task) /\ Once(queue) /\ Range(queue) = {u \in Task : tasks[u] = "Queued"}
  BY DEF QueueInv, QueueOf
<1>4. t \notin Range(queue)
  BY <1>1, <1>3 DEF IInv, Started
<1>5. q \in Seq(Task) /\ Once(q) /\ Range(q) = Range(queue) \cup {t}
  <2>1. Range(queue) = Entries(queue, Len(queue))
    BY <1>3, RangeIsEntries
  <2>2. /\ q \in Seq(Task) /\ Once(q) /\ Len(q) = Len(queue) + 1
        /\ Entries(q, Len(queue) + 1) = Entries(queue, Len(queue)) \cup {t}
    BY <1>3, <1>4, <2>1, Appended
  <2>3. Range(q) = Entries(q, Len(q))
    BY <2>2, RangeIsEntries
  <2> QED
    BY <2>1, <2>2, <2>3
<1>6. \A u \in Task : ts[u] = "Queued" <=> u = t \/ tasks[u] = "Queued"
  BY DEF IInv, TypeOK
<1>7. QueueOf(q, ts)
  BY <1>3, <1>5, <1>6 DEF QueueOf
<1>8. Saves(ts, q) \/ SaveFails(ts, q) \/ DiesSaving(ts, q)
  BY DEF add_task
<1> QED
  BY <1>2, <1>7, <1>8, SectionQueue

\* The queue without t, when t is queued no longer.
LEMMA RetainedQueue ==
  ASSUME QueueInv, NEW t \in Task, NEW ts,
         \A u \in Task : ts[u] = "Queued" <=> u # t /\ tasks[u] = "Queued"
  PROVE  QueueOf(Without(queue, t), ts)
<1>1. queue \in Seq(Task) /\ Once(queue) /\ Range(queue) = {u \in Task : tasks[u] = "Queued"}
  BY DEF QueueInv, QueueOf
<1>2. /\ Without(queue, t) \in Seq(Task) /\ Once(Without(queue, t))
      /\ Range(Without(queue, t)) = Range(queue) \cap (Task \ {t})
  BY <1>1, KeptIs DEF Without
<1> QED
  BY <1>1, <1>2 DEF QueueOf

\* A cancellation takes a queued task out of the queue, and no other.
LEMMA CancelQueue == ASSUME IInv, QueueInv, NEW t \in Task, cancel_task(t) PROVE QueueInv'
<1>1. IsFiniteSet(used) /\ QueueOf(queue, tasks)
  BY DEF QueueInv
<1>2. ASSUME NEW ts, NEW q, NEW c, QueueOf(q, ts), Quietly(ts, q, c) PROVE QueueInv'
  <2>1. used' = used /\ (Saves(ts, q) \/ SaveFails(ts, q) \/ DiesSaving(ts, q))
    BY <1>2 DEF Quietly
  <2> QED
    BY <1>1, <1>2, <2>1, SectionQueue
<1>3. QueueOf(Without(queue, t), [tasks EXCEPT ![t] = "Canceled"])
  <2>1. \A u \in Task : [tasks EXCEPT ![t] = "Canceled"][u] = "Queued" <=> u # t /\ tasks[u] = "Queued"
    BY DEF IInv, TypeOK
  <2> QED
    BY <2>1, RetainedQueue
<1> QED
  BY <1>1, <1>2, <1>3 DEF cancel_task

\* A deleted task was terminal, so it was not in the queue.
LEMMA DeleteQueue == ASSUME IInv, QueueInv, NEW t \in Task, delete_terminal_task(t) PROVE QueueInv'
<1> DEFINE ts == [tasks EXCEPT ![t] = "Absent"]
           q == Without(queue, t)
<1>1. QueueOf(q, ts)
  <2>1. \A u \in Task : ts[u] = "Queued" <=> u # t /\ tasks[u] = "Queued"
    BY DEF IInv, TypeOK
  <2> QED
    BY <2>1, RetainedQueue
<1>2. used' = used /\ saved_queue' \in {saved_queue, q}
  BY DEF delete_terminal_task
<1>3. (queue' = q /\ tasks' = ts) \/ (queue' = <<>> /\ tasks' = Nowhere)
  BY DEF delete_terminal_task, InMemory, MemoryLost
<1> HIDE DEF q, ts
<1>4. QueueOf(queue', tasks')
  BY <1>1, <1>3, EmptyQueue
<1> QED
  BY <1>1, <1>2, <1>4 DEF QueueInv, QueueOf, Once

\* A worker takes the head of the queue; it is queued, so no entry is ever dropped.
LEMMA LoopQueue == ASSUME IInv, QueueInv, NEW w \in Worker, worker_loop(w) PROVE QueueInv'
<1>1. queue \in Seq(Task) /\ Once(queue) /\ Range(queue) = QueuedTasks /\ IsFiniteSet(used)
  BY DEF QueueInv, QueueOf, QueuedTasks
<1>2. CASE queue = <<>> /\ UNCHANGED <<tasks, queue, files, used>>
  BY <1>2, SameQueue DEF QueueInv, files
<1>3. CASE queue # <<>> /\ Head(queue) \in QueuedTasks /\ take(w, Head(queue))
  <2> DEFINE t == Head(queue)
             q == Tail(queue)
  <2>1. /\ q \in Seq(Task) /\ Len(queue) \in Nat /\ Len(queue) > 0 /\ Len(q) = Len(queue) - 1
        /\ t = queue[1] /\ \A i \in 1 .. Len(q) : q[i] = queue[i + 1]
        /\ t \in Task
        /\ DOMAIN q = 1 .. Len(q) /\ DOMAIN queue = 1 .. Len(queue)
    BY <1>1, <1>3
  <2> HIDE DEF t, q
  <2>2. \A i \in 1 .. Len(q) : i + 1 \in 1 .. Len(queue) /\ i + 1 # 1
    BY <2>1
  <2>3. Once(q)
    <3> SUFFICES ASSUME NEW i \in 1 .. Len(q), NEW j \in 1 .. Len(q), q[i] = q[j] PROVE i = j
      BY DEF Once
    <3>1. i + 1 = j + 1
      BY <1>1, <2>1, <2>2 DEF Once
    <3> QED
      BY <3>1
  <2>4. Range(q) = Range(queue) \ {t}
    <3>1. \A x \in Range(q) : x \in Range(queue)
      BY <2>1, <2>2 DEF Range
    <3>2. t \notin Range(q)
      <4> SUFFICES ASSUME NEW i \in 1 .. Len(q), q[i] = t PROVE FALSE
        BY <2>1 DEF Range
      <4>1. 1 \in 1 .. Len(queue) /\ queue[i + 1] = queue[1]
        BY <2>1
      <4> QED
        BY <1>1, <2>2, <4>1 DEF Once
    <3>3. \A x \in Range(queue) \ {t} : x \in Range(q)
      <4> SUFFICES ASSUME NEW j \in 1 .. Len(queue), queue[j] # t PROVE queue[j] \in Range(q)
        BY <2>1 DEF Range
      <4>1. j - 1 \in 1 .. Len(q) /\ (j - 1) + 1 = j
        BY <2>1
      <4>2. q[j - 1] = queue[j]
        BY <2>1, <4>1
      <4> QED
        BY <2>1, <4>1, <4>2 DEF Range
    <3> QED
      BY <3>1, <3>2, <3>3
  <2>5. \A u \in Task : Marked(t)[u] = "Queued" <=> u # t /\ tasks[u] = "Queued"
    BY <2>1 DEF Marked, IInv, TypeOK
  <2>6. QueueOf(q, Marked(t))
    BY <1>1, <2>1, <2>3, <2>4, <2>5 DEF QueueOf, QueuedTasks
  <2>7. used' = used /\ (Saves(Marked(t), q) \/ SaveFails(Marked(t), q) \/ DiesSaving(Marked(t), q))
    BY <1>3 DEF take, t, q
  <2> QED
    BY <1>1, <2>6, <2>7, SectionQueue
<1>4. queue # <<>> => Head(queue) \in QueuedTasks
  <2>1. queue # <<>> => Head(queue) \in Range(queue)
    BY <1>1 DEF Range
  <2> QED
    BY <1>1, <2>1
<1> QED
  BY <1>2, <1>3, <1>4 DEF worker_loop

\* A task that ends was running.
LEMMA FinishQueue ==
  ASSUME IInv, QueueInv, NEW w \in Worker, NEW result \in ExecutionResult, finish_task(w, result)
  PROVE  QueueInv'
<1> DEFINE t == worker[w].task
           ts == [tasks EXCEPT ![t] = IF @ = "Absent" THEN @ ELSE FinalStatus(t, result)]
<1>1. t \in Task /\ tasks[t] = "Running"
  BY DEF finish_task, IInv, Running, Runs
<1>2. FinalStatus(t, result) # "Queued"
  BY DEF FinalStatus, ExecutionResult
<1>3. \A u \in Task : ts[u] = "Queued" <=> tasks[u] = "Queued"
  BY <1>1, <1>2 DEF IInv, TypeOK
<1>4. QueueOf(queue, ts) /\ IsFiniteSet(used)
  <2>1. QueueOf(queue, tasks) /\ IsFiniteSet(used)
    BY DEF QueueInv
  <2> HIDE DEF ts
  <2> QED
    BY <1>3, <2>1 DEF QueueOf
<1>5. used' = used /\ (Saves(ts, queue) \/ SaveFails(ts, queue) \/ DiesSaving(ts, queue))
  BY DEF finish_task
<1> HIDE DEF ts
<1> QED
  BY <1>4, <1>5, SectionQueue

\* Each step preserves the second invariant.
LEMMA NextQueue == ASSUME IInv, QueueInv, [Next]_taskVars PROVE QueueInv'
<1>1. QueueOf(queue, tasks) /\ IsFiniteSet(used) /\ saved_queue \in Seq(Task) /\ Once(saved_queue)
  BY DEF QueueInv
<1>2. ASSUME UNCHANGED <<tasks, queue, saved_queue, used>> PROVE QueueInv'
  BY <1>1, <1>2, SameQueue
<1>3. CASE UNCHANGED taskVars
  BY <1>2, <1>3 DEF taskVars
<1>4. CASE crash
  <2>1. queue' = <<>> /\ tasks' = Nowhere /\ saved_queue' = saved_queue /\ used' = used
    BY <1>4 DEF crash, MemoryLost, files
  <2> QED
    BY <1>1, <2>1, EmptyQueue DEF QueueInv, QueueOf, Once
<1>5. ASSUME NEW t \in Task, persist_task(t) PROVE QueueInv'
  BY <1>2, <1>5 DEF persist_task
<1>6. ASSUME NEW w \in Worker, WorkerStep(w) PROVE QueueInv'
  <2>1. CASE notified(w)
    BY <1>2, <2>1 DEF notified, files
  <2> QED
    BY <1>6, <2>1, LoopQueue, FinishQueue DEF WorkerStep
<1> QED
  BY <1>3, <1>4, <1>5, <1>6, BootQueue, AddQueue, CancelQueue, DeleteQueue DEF Next

\* A sequence without repetitions is as long as its range is large.
LEMMA OnceCounts ==
  ASSUME NEW T, NEW q \in Seq(T), Once(q)
  PROVE  Cardinality(Range(q)) = Len(q)
<1> DEFINE n == Len(q)
<1>1. n \in Nat /\ q \in [1 .. n -> Range(q)] /\ DOMAIN q = 1 .. n
  BY DEF Range
<1>2. q \in Surjection(1 .. n, Range(q)) /\ q \in Injection(1 .. n, Range(q))
  BY <1>1 DEF Surjection, Injection, IsInjective, Range, Once
<1>3. IsFiniteSet(1 .. n) /\ Cardinality(1 .. n) = n
  BY <1>1, FS_Interval
<1> HIDE DEF n
<1> QED
  BY <1>2, <1>3, FS_Surjection DEF n

\* The queue names exactly the queued tasks, each once, through additions,
\* cancellations, deletions, failed and torn saves, crashes and restarts
\* (ManagerState.queue, load_state).
THEOREM QueueExactHolds == Spec => []QueueExact
<1>1. Init => IInv /\ QueueInv
  <2>1. ASSUME Init PROVE QueueInv
    <3>1. queue = <<>> /\ tasks = Nowhere /\ saved_queue = <<>> /\ used = {}
      BY <2>1 DEF Init
    <3>2. QueueOf(<<>>, Nowhere)
      BY EmptyQueue
    <3> QED
      BY <3>1, <3>2, FS_EmptySet DEF QueueInv, QueueOf
  <2> QED
    BY <2>1, InitHolds
<1>2. (IInv /\ QueueInv) /\ [Next]_taskVars => (IInv /\ QueueInv)'
  BY NextKeeps, NextQueue
<1>3. IInv /\ QueueInv => QueueExact
  BY OnceCounts DEF QueueInv, QueueOf, QueueExact, QueuedTasks
<1> QED
  BY <1>1, <1>2, <1>3, PTL DEF Spec
================================================================================
