------------------------------ MODULE FleetManager -----------------------------
(***************************************************************************)
(* The foreground fleet manager and its executor (crates/tui/src/fleet/    *)
(* manager.rs, executor.rs, host.rs): `fleet run` and `fleet restart` each *)
(* end in run_to_completion, one process that drives the loop schedule,    *)
(* start leased workers, check / drain / poll every tracked worker, until  *)
(* its run has no open work and no tracked process.  Managers of one run   *)
(* exclude each other by a lock file; operators act on the ledger from     *)
(* other processes; worker processes write their log and exit on their     *)
(* own, and outlive a manager that dies.                                   *)
(*                                                                         *)
(* The clock is one instant: every heartbeat has the same timestamp, which *)
(* is the weakest the compare-and-set on heartbeats can be.  Staleness and *)
(* torn appends are modules FleetScheduler and FleetLog.  RunStatusChanged *)
(* is left out: nothing reads it back.                                     *)
(***************************************************************************)
EXTENDS FleetLedger, Sequences

CONSTANTS
  Manager,     \* manager processes, each drives one run once
  Creator,     \* the managers that create their run (`fleet run`); the rest restart a worker
  ManagedRun,  \* the run of each manager
  WorkerIds,   \* worker_ids_for_run: the sequence of worker ids of each run
  VerifierResult,  \* results the verifier, an external program, can give
  MaxCrashes   \* bound: managers that die or leave with an error

ASSUME ManagerAssumption ==
  /\ Creator \subseteq Manager
  /\ NoWorker \notin Manager
  /\ ManagedRun \in [Manager -> Run]
  /\ \A r \in Run : \A i \in DOMAIN WorkerIds[r] : WorkerIds[r][i] \in Worker
  /\ VerifierResult \subseteq Result
  /\ "Fail" \in Result  \* the receipt of a process that cannot be started
  /\ MaxTime > 0
  /\ MaxCrashes \in Nat

VARIABLES
  lock,     \* manager lock file of each run: its owner or none
  mgr,      \* each manager: program counter, work list, current item, lines read
  tracked,  \* FleetExecutor.streams: attempts each manager tracks
  host,     \* worker processes, running or exited and not yet reaped
  log,      \* lines of each worker's log file not yet read: the attempts that wrote them
  strays,   \* TRUE once output of one attempt was recorded as progress of another
  crashes   \* managers that died

mgrVars == <<lock, mgr, tracked, host, log, strays, crashes>>
managerVars == <<ledgerVars, mgrVars>>

Now == 1
Free == NoWorker   \* no owner, no current item
Attempt(t) == [task |-> t, worker |-> tasks[t].leased_to, attempt |-> tasks[t].attempts]
Owns(a) == OwnsAttempt(a.task, a.worker, a.attempt)
run_has_open_work(r) ==
  \E t \in Task : RunOf[t] = r /\ tasks[t].status \in {"Enqueued", "Leased"}
active_workers_for_run(r) == {tasks[t].leased_to : t \in ActiveTasks(r)}
IdsOf(m) == {WorkerIds[ManagedRun[m]][i] : i \in DOMAIN WorkerIds[ManagedRun[m]]}
is_tracking(m, w) == \E a \in tracked[m] : a.worker = w

\* A worker process; it writes one line, at the start of its worker's log file.
Child(m, a) ==
  [manager |-> m, task |-> a.task, worker |-> a.worker, attempt |-> a.attempt,
   state |-> "Running", wrote |-> FALSE]
IsChild(c, m, a) ==
  c.manager = m /\ c.task = a.task /\ c.worker = a.worker /\ c.attempt = a.attempt
Running == {c \in host : c.state = "Running"}

\* Runs were created and their tasks enqueued: their creators are about to make
\* the scheduling pass that ends create_run.
ManagerInit ==
  /\ tasks = [t \in Task |-> [status |-> "Enqueued", leased_to |-> NoWorker,
                              attempts |-> 0, lease_deadline |-> NoTime]]
  /\ latest_seq = [w \in Worker |-> [t \in Task |-> 0]]
  /\ heartbeats = [w \in Worker |-> NoTime]
  /\ receipts = [t \in Task |-> NoReceipt]
  /\ alerts = {}
  /\ runs = Run
  /\ lock = [r \in Run |-> Free]
  /\ mgr = [m \in Manager |-> [pc |-> IF m \in Creator THEN "schedule" ELSE "off",
                               todo |-> {}, cur |-> Free, lines |-> {}]]
  /\ tracked = [m \in Manager |-> {}]
  /\ host = {}
  /\ log = [w \in Worker |-> {}]
  /\ strays = FALSE
  /\ crashes = 0

At(m, pc) == mgr[m].pc = pc
Goto(m, pc) == mgr' = [mgr EXCEPT ![m].pc = pc]
With(m, pc, todo, cur, lines) ==
  mgr' = [mgr EXCEPT ![m] = [pc |-> pc, todo |-> todo, cur |-> cur, lines |-> lines]]

\* Mutant: the handle is dropped, the process tree is not stopped.
ForgottenOnly(m, a) ==
  /\ tracked' = [tracked EXCEPT ![m] = @ \ {a}]
  /\ UNCHANGED host

\* stop_worker and forget_worker: the process tree is gone, the handle too.
Reaped(m, a) ==
  /\ host' = {c \in host : ~ IsChild(c, m, a)}
  /\ tracked' = [tracked EXCEPT ![m] = @ \ {a}]

--------------------------------------------------------------------------------
(* Ownership of the run.                                                   *)

\* Mutant: the lock is not consulted.
enter_unlocked(m) ==
  /\ At(m, "new")
  /\ lock' = [lock EXCEPT ![ManagedRun[m]] = m]
  /\ Goto(m, "schedule")
  /\ UNCHANGED <<ledgerVars, tracked, host, log, strays, crashes>>

enter(m) ==
  /\ At(m, "new")
  /\ \/ /\ lock[ManagedRun[m]] = Free
        /\ lock' = [lock EXCEPT ![ManagedRun[m]] = m]
        /\ Goto(m, "schedule")
     \/ lock[ManagedRun[m]] # Free /\ Goto(m, "standby") /\ UNCHANGED lock
  /\ UNCHANGED <<ledgerVars, tracked, host, log, strays, crashes>>

\* A manager that saw another owner never takes over: it leaves when the run
\* has no open work, or with an error when the owner is gone.
standby(m) ==
  /\ At(m, "standby")
  /\ lock[ManagedRun[m]] = Free \/ ~ run_has_open_work(ManagedRun[m])
  /\ Goto(m, "done")
  /\ UNCHANGED <<ledgerVars, lock, tracked, host, log, strays, crashes>>

--------------------------------------------------------------------------------
(* schedule_run_excluding.                                                 *)

schedule(m) ==
  /\ At(m, "schedule")
  /\ With(m, "beat", active_workers_for_run(ManagedRun[m]) \cap IdsOf(m), Free, {})
  /\ UNCHANGED <<ledgerVars, lock, tracked, host, log, strays, crashes>>

beat(m, w) ==
  /\ At(m, "beat") /\ w \in mgr[m].todo
  /\ heartbeat(w, Now)
  /\ With(m, "beat", mgr[m].todo \ {w}, Free, {})
  /\ UNCHANGED <<lock, tracked, host, log, strays, crashes>>

\* Mutant: a worker that is busy in this run is offered again.
IdleAny(m) ==
  {i \in DOMAIN WorkerIds[ManagedRun[m]] : ~ is_tracking(m, WorkerIds[ManagedRun[m]][i])}

\* A pass without the run's lock is that of create_run: `fleet run` then asks for
\* the lock, or leaves (--once).
AfterPass(m) == IF lock[ManagedRun[m]] = m THEN {"launch"} ELSE {"new", "done"}

\* The workers neither active in this run nor tracked by this manager; the
\* first one gets the next queued task.
Idle(m) ==
  {i \in DOMAIN WorkerIds[ManagedRun[m]] : LET w == WorkerIds[ManagedRun[m]][i] IN
     w \notin active_workers_for_run(ManagedRun[m]) /\ ~ is_tracking(m, w)}

\* next_enqueued_task_for_run picks by priority, which the model leaves open.
Queue(m) == {t \in Task : RunOf[t] = ManagedRun[m] /\ tasks[t].status = "Enqueued"}

pick(m) ==
  /\ At(m, "beat") /\ mgr[m].todo = {}
  /\ IF \/ Cardinality(active_workers_for_run(ManagedRun[m])) >= MaxActive
        \/ Idle(m) = {} \/ Queue(m) = {}
     THEN \E pc \in AfterPass(m) : With(m, pc, {}, Free, {})
     ELSE \E t \in Queue(m), i \in Idle(m) :
            /\ \A j \in Idle(m) : i <= j
            /\ With(m, "start", {}, [task |-> t, worker |-> WorkerIds[ManagedRun[m]][i],
                                    attempt |-> 0], {})
  /\ UNCHANGED <<ledgerVars, lock, tracked, host, log, strays, crashes>>

\* A lost race goes round the scheduling loop again.
start_worker_task(m) ==
  /\ At(m, "start")
  /\ LET a == mgr[m].cur IN
     \/ lease_task_if_enqueued_with_events(a.task, a.worker, MaxActive, NoTime, Now,
          InitialEvents + 2)
     \/ ~ CanLease(a.task, a.worker, MaxActive) /\ UNCHANGED ledgerVars
  /\ With(m, "beat", {}, Free, {})
  /\ UNCHANGED <<lock, tracked, host, log, strays, crashes>>

--------------------------------------------------------------------------------
(* start_leased_workers.                                                   *)

leased(m) ==
  /\ At(m, "launch")
  /\ With(m, "spawn", {Attempt(t) : t \in {u \in ActiveTasks(ManagedRun[m]) :
                                           ~ is_tracking(m, tasks[u].leased_to)}}, Free, {})
  /\ UNCHANGED <<ledgerVars, lock, tracked, host, log, strays, crashes>>

\* Mutant: the log file is opened as the previous attempt left it.
spawn_append(m, a) ==
  /\ At(m, "spawn") /\ a \in mgr[m].todo
  /\ host' = host \cup {Child(m, a)}
  /\ tracked' = [tracked EXCEPT ![m] = @ \cup {a}]
  /\ With(m, "register", mgr[m].todo \ {a}, a, {})
  /\ UNCHANGED <<ledgerVars, lock, log, strays, crashes>>

\* The log file is truncated, the process started and tracked.
spawn(m, a) ==
  /\ At(m, "spawn") /\ a \in mgr[m].todo
  /\ host' = host \cup {Child(m, a)}
  /\ tracked' = [tracked EXCEPT ![m] = @ \cup {a}]
  /\ log' = [log EXCEPT ![a.worker] = {}]
  /\ With(m, "register", mgr[m].todo \ {a}, a, {})
  /\ UNCHANGED <<ledgerVars, lock, strays, crashes>>

\* Mutant: the failure to start is not recorded.
spawn_failed_ignored(m, a) ==
  /\ At(m, "spawn") /\ a \in mgr[m].todo
  /\ With(m, "spawn", mgr[m].todo \ {a}, Free, {})
  /\ UNCHANGED <<ledgerVars, lock, tracked, host, log, strays, crashes>>

\* The process cannot be started: the attempt fails with a receipt.
spawn_failed(m, a) ==
  /\ At(m, "spawn") /\ a \in mgr[m].todo
  /\ \/ finalize_task_attempt_if_leased(a.task, a.worker, a.attempt, "Failed", NoStatus, "Fail")
     \/ ~ Owns(a) /\ UNCHANGED ledgerVars
  /\ With(m, "spawn", mgr[m].todo \ {a}, Free, {})
  /\ UNCHANGED <<lock, tracked, host, log, strays, crashes>>

\* Mutant: a process started for an attempt that is gone is only forgotten.
register_forget(m) ==
  /\ At(m, "register")
  /\ LET a == mgr[m].cur IN
     \/ append_event_if_leased(a.task, a.worker, a.attempt) /\ UNCHANGED tracked
     \/ ~ Owns(a) /\ tracked' = [tracked EXCEPT ![m] = @ \ {a}] /\ UNCHANGED ledgerVars
  /\ With(m, "spawn", mgr[m].todo, Free, {})
  /\ UNCHANGED <<lock, host, log, strays, crashes>>

\* The log artifact of the started process; if the attempt is gone meanwhile,
\* the process is stopped again.
register(m) ==
  /\ At(m, "register")
  /\ LET a == mgr[m].cur IN
     \/ /\ append_event_if_leased(a.task, a.worker, a.attempt)
        /\ UNCHANGED <<host, tracked>>
     \/ ~ Owns(a) /\ Reaped(m, a) /\ UNCHANGED ledgerVars
  /\ With(m, "spawn", mgr[m].todo, Free, {})
  /\ UNCHANGED <<lock, log, strays, crashes>>

--------------------------------------------------------------------------------
(* drive_executor_tick, for every tracked worker.                          *)

tracked_workers(m) ==
  /\ At(m, "spawn") /\ mgr[m].todo = {}
  /\ With(m, "check", tracked[m], Free, {})
  /\ UNCHANGED <<ledgerVars, lock, tracked, host, log, strays, crashes>>

\* Mutant: a process whose attempt is gone is skipped.
check_skip(m, a) ==
  /\ At(m, "check") /\ a \in mgr[m].todo
  /\ \/ Owns(a) /\ With(m, "drain", mgr[m].todo \ {a}, a, {})
     \/ ~ Owns(a) /\ With(m, "check", mgr[m].todo \ {a}, Free, {})
  /\ UNCHANGED <<ledgerVars, lock, tracked, host, log, strays, crashes>>

\* A process whose attempt was cancelled or replaced is stopped and forgotten.
check(m, a) ==
  /\ At(m, "check") /\ a \in mgr[m].todo
  /\ \/ Owns(a) /\ With(m, "drain", mgr[m].todo \ {a}, a, {}) /\ UNCHANGED <<host, tracked>>
     \/ ~ Owns(a) /\ With(m, "check", mgr[m].todo \ {a}, Free, {}) /\ Reaped(m, a)
  /\ UNCHANGED <<ledgerVars, lock, log, strays, crashes>>

\* Every line the log has gained.
drain_events(m) ==
  /\ At(m, "drain")
  /\ With(m, "ingest", mgr[m].todo, mgr[m].cur, log[mgr[m].cur.worker])
  /\ log' = [log EXCEPT ![mgr[m].cur.worker] = {}]
  /\ UNCHANGED <<ledgerVars, lock, tracked, host, strays, crashes>>

\* A line becomes a progress event of the tracked attempt, if it is still leased.
Ingested(m, y) ==
  LET a == mgr[m].cur IN
  /\ append_event_if_leased(a.task, a.worker, a.attempt)
  /\ strays' = (strays \/ y # <<a.task, a.attempt>>)

ingest(m, y) ==
  /\ At(m, "ingest") /\ y \in mgr[m].lines
  /\ \/ Ingested(m, y) /\ With(m, "pulse", mgr[m].todo, mgr[m].cur, mgr[m].lines \ {y})
     \/ /\ ~ Owns(mgr[m].cur)
        /\ With(m, "ingest", mgr[m].todo, mgr[m].cur, mgr[m].lines \ {y})
        /\ UNCHANGED <<ledgerVars, strays>>
  /\ UNCHANGED <<lock, tracked, host, log, crashes>>

\* The heartbeat after an event that was appended.
pulse(m) ==
  /\ At(m, "pulse")
  /\ heartbeat(mgr[m].cur.worker, Now)
  /\ Goto(m, "ingest")
  /\ UNCHANGED <<lock, tracked, host, log, strays, crashes>>

\* poll_terminal_with_status: an exited process takes the rest of its log along.
poll(m) ==
  LET a == mgr[m].cur IN
  /\ At(m, "ingest") /\ mgr[m].lines = {}
  /\ IF \E c \in Running : IsChild(c, m, a)
     THEN With(m, "check", mgr[m].todo, Free, {}) /\ UNCHANGED log
     ELSE /\ With(m, "outcome", mgr[m].todo, a, log[a.worker])
          /\ log' = [log EXCEPT ![a.worker] = {}]
  /\ UNCHANGED <<ledgerVars, lock, tracked, host, strays, crashes>>

\* record_task_outcome: the rest of the log first.
tail(m, y) ==
  /\ At(m, "outcome") /\ y \in mgr[m].lines
  /\ Ingested(m, y)
  /\ With(m, "outcome", mgr[m].todo, mgr[m].cur, mgr[m].lines \ {y})
  /\ UNCHANGED <<lock, tracked, host, log, crashes>>

\* Mutant: the process's own report decides.
final_status_ignored(payload, result) == NoStatus

\* A completed process whose receipt fails is a failed task.
final_status(payload, result) ==
  IF result \in {"Fail", "Timeout"} /\ payload # "Failed" THEN "Failed" ELSE NoStatus

\* The receipt of an exited process: the verifier, an external program, decides
\* about a completed one and about one with a scorer.
record_task_outcome(m) ==
  LET a == mgr[m].cur IN
  /\ At(m, "outcome")
  /\ \/ /\ mgr[m].lines = {}
        /\ \E c \in host, res \in VerifierResult :
             /\ IsChild(c, m, a)
             /\ finalize_task_attempt_if_leased(a.task, a.worker, a.attempt, c.state,
                  final_status(c.state, res), res)
     \/ ~ Owns(a) /\ UNCHANGED ledgerVars
  /\ Reaped(m, a)
  /\ With(m, "check", mgr[m].todo, Free, {})
  /\ UNCHANGED <<lock, log, strays, crashes>>

\* The end of run_to_completion's loop body.
loop(m) ==
  /\ At(m, "check") /\ mgr[m].todo = {}
  /\ IF ~ run_has_open_work(ManagedRun[m]) /\ tracked[m] = {}
     THEN Goto(m, "done") /\ lock' = [lock EXCEPT ![ManagedRun[m]] = Free]
     ELSE Goto(m, "schedule") /\ UNCHANGED lock
  /\ UNCHANGED <<ledgerVars, tracked, host, log, strays, crashes>>

\* The manager dies, or leaves with an error: the lock is released, its
\* processes live on without an owner.
crash(m) ==
  /\ mgr[m].pc \notin {"off", "done"}
  /\ crashes < MaxCrashes
  /\ crashes' = crashes + 1
  /\ With(m, "done", {}, Free, {})
  /\ lock' = [r \in Run |-> IF lock[r] = m THEN Free ELSE lock[r]]
  /\ tracked' = [tracked EXCEPT ![m] = {}]
  /\ UNCHANGED <<ledgerVars, host, log, strays>>

Drive(m) ==
  \/ enter(m) \/ standby(m) \/ schedule(m) \/ pick(m) \/ start_worker_task(m)
  \/ leased(m) \/ register(m) \/ tracked_workers(m) \/ drain_events(m) \/ pulse(m)
  \/ poll(m) \/ record_task_outcome(m) \/ loop(m)
  \/ At(m, "beat") /\ \E w \in mgr[m].todo : beat(m, w)
  \/ At(m, "spawn") /\ \E a \in mgr[m].todo : spawn(m, a) \/ spawn_failed(m, a)
  \/ At(m, "check") /\ \E a \in mgr[m].todo : check(m, a)
  \/ \E y \in mgr[m].lines : ingest(m, y) \/ tail(m, y)

--------------------------------------------------------------------------------
(* Worker processes and operators.                                         *)

write(c) ==
  /\ c.state = "Running" /\ ~ c.wrote
  /\ log' = [log EXCEPT ![c.worker] = @ \cup {<<c.task, c.attempt>>}]
  /\ host' = (host \ {c}) \cup {[c EXCEPT !.wrote = TRUE]}
  /\ UNCHANGED <<ledgerVars, lock, mgr, tracked, strays, crashes>>

exit(c) ==
  /\ c.state = "Running"
  /\ \E s \in {"Completed", "Failed"} : host' = (host \ {c}) \cup {[c EXCEPT !.state = s]}
  /\ UNCHANGED <<ledgerVars, lock, mgr, tracked, log, strays, crashes>>

\* interrupt_worker, stop_run, stop_all.
stop(t) ==
  /\ cancel_task_if_active(t, NoWorker, 2)
  /\ UNCHANGED mgrVars

\* `fleet restart`: a new attempt of the worker's active task, or else of its
\* latest one, on the version just read, then a manager for its run.  Whole
\* seconds may tie, so any task the worker ran may be the latest; the restart
\* refuses one beside an active task.
restart_worker(m, t) ==
  LET w == tasks[t].leased_to IN
  /\ At(m, "off") /\ ManagedRun[m] = RunOf[t]
  /\ w # NoWorker
  /\ restart_task_if_unchanged(t, w, tasks[t].status, tasks[t].attempts,
       latest_seq[w][t], heartbeats[w], NoTime, Now, 4)
  /\ Goto(m, "new")
  /\ UNCHANGED <<lock, tracked, host, log, strays, crashes>>

ManagerNext ==
  \/ \E m \in Manager : Drive(m) \/ crash(m) \/ \E t \in Task : restart_worker(m, t)
  \/ \E c \in host : write(c) \/ exit(c)
  \/ \E t \in Task : stop(t)

ManagerSpec == ManagerInit /\ [][ManagerNext]_managerVars

\* A manager that has a step to take takes one: its loop never blocks on a
\* worker.  Operators, crashes and worker processes are not forced.
DriveSpec == ManagerSpec /\ \A m \in Manager : WF_managerVars(Drive(m))

--------------------------------------------------------------------------------
(* Properties.                                                             *)

\* One attempt is one process: however managers, operators and exits
\* interleave, no two live processes work on the same attempt ("never treat
\* lock release as permission to relaunch its unchanged leased attempts").
OneProcessPerAttempt ==
  \A c, d \in Running : c.task = d.task /\ c.attempt = d.attempt => c = d

\* A logical worker is one live process ("Do not lease new work onto a logical
\* worker until its executor handle has been observed and forgotten").
OneProcessPerWorker == \A c, d \in Running : c.worker = d.worker => c = d

\* No output is recorded as the progress of an attempt that did not produce it
\* (append_event_if_leased, drain_events and the log file workers share).
OutputFenced == ~ strays

\* A task is completed only on a passing receipt of its latest attempt.
CompletedMeansPassed ==
  \A t \in Task : tasks[t].status = "Completed" =>
    receipts[t].attempt = tasks[t].attempts /\ receipts[t].result \notin {"Fail", "Timeout"}

\* While a manager lives, every process it started is one it still tracks: no
\* cancelled or replaced attempt slips out of the executor's hands.
NoLostProcess ==
  \A c \in host : mgr[c.manager].pc # "done" =>
    \E a \in tracked[c.manager] : IsChild(c, c.manager, a)

\* A manager holds its run only as long as workers run: it never stays in its
\* loop over a run that nothing works on (run_to_completion returns once no
\* open work and no tracked process is left, and gets there without help).
RunDrains == \A m \in Manager : []<>(lock[ManagedRun[m]] # m \/ Running # {})

\* A process whose attempt was cancelled or replaced is stopped.
SupersededStopped ==
  \A t \in Task, n \in 1..MaxLeases :
    (\E c \in Running : c.task = t /\ c.attempt = n /\ (tasks[t].attempts # n \/ ~ IsLeased(t)))
      ~> (\A c \in Running : ~ (c.task = t /\ c.attempt = n))

\* The scheduling pass ends: the manager gets to drive its workers.
SchedulingEnds ==
  \A m \in Manager : At(m, "start") ~> mgr[m].pc \in {"launch", "new", "done"}
================================================================================
