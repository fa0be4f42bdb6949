# CodeWhale in TLA+

CodeWhale is a terminal coding agent written in Rust. Most of it reads, renders
and talks to services; its correctness is at stake where durable state is shared
by actors that know nothing of each other and may die at any moment. Four such
places are modelled here:

* the **fleet**, many agent tasks as worker processes, driven through one
  append-only file by managers, recovery commands and operators;
* the **background task manager**, a queue with workers, files and restarts;
* the **automation manager**, which hands recurring slots to it;
* the **runtime threads** and the engine's **turn loop** behind the runtime API.

All paths below are relative to `src/`; `crates/tui/src/` is left out, so that
`fleet/`, `task_manager.rs` and `core/engine.rs` are under it.

## 1. Inventory

### The fleet

| Component | State | Operations | Talks to |
| --- | --- | --- | --- |
| Ledger, `fleet/ledger.rs` | `.codewhale/fleet.jsonl`, one JSON record per line; the replayed `FleetLedgerState` (runs, tasks with status, worker, attempt count and lease deadline, latest event number per worker and task, heartbeats, receipts, alerts) | `create_run`, `enqueue`, the lease / event / finalize / restart / cancel / alert compare-and-set operations, `heartbeat`, `claim_next`, `compact` | every other part, under a workspace file lock |
| Scheduler, `fleet/scheduler.rs` | a clock captured when it is opened, one snapshot of the ledger | `resume_run`, `tick_run`, `cancel_run` | ledger |
| Manager, `fleet/manager.rs` | a lock file per run | `run_to_completion` (schedule, launch, drain, finish), `interrupt_worker`, `stop_run`, `stop_all`, `restart_worker` | ledger, executor |
| Executor, `fleet/executor.rs` | tracked streams: worker, attempt, log offset | start, drain, poll, stop, forget | host adapter, worker log files |
| Host, `fleet/host.rs` | child processes, one log file per logical worker | start (truncates the log), status, stop of the process tree | operating system |
| Alerts, profiles, roster, task specs, worker runtime | configuration and formatting | – | – |

What is hard about them, and what makes them correct:

* **Ledger.** A transaction replays the file, decides and appends under a lock,
  but the appended batch is not atomic: a process may die after any byte.
  Callers hold versions (worker, attempt, event number, heartbeat) from older
  snapshots. Correct means: a worker holds one lease; the first terminal
  transition of an attempt stands; receipts and alerts belong to the attempt
  they were produced for; a stream gives a number to one event only, across torn
  batches and compactions; compaction changes nothing.
* **Scheduler.** Two recoveries may run at once, against live managers and
  operators, and either may die between failing a task and alerting about it.
  Correct means: the retry budget holds, only exhausted attempts are escalated,
  each one is (it is not, see known disagreements), and a live worker keeps its
  lease.
* **Manager, executor, host.** The ledger moves under the manager while its
  children run; spawning, registering, draining, polling and verifying are
  separate steps; a manager may die and leave children behind. Correct means:
  one process per attempt and per worker, no output credited to another
  attempt, superseded processes stopped, no process lost, completion only on a
  passing receipt, and a loop that ends.

### Tasks, automations, threads and turns

| Component | State | Operations | Talks to |
| --- | --- | --- | --- |
| Task manager, `task_manager.rs` | task map, queue and cancellation tokens under one mutex, a `Notify`; a file per task and a queue file | `add_task`, `cancel_task`, `delete_terminal_task`, metadata of a task, the worker loop, `finish_task`, `load_state` | runtime threads, which execute a task as a turn |
| Automation manager, `automation_manager.rs` | a file per automation and per run, behind one mutex that is dropped across every call of the task manager | create, update, delete, `run_now_shared`, the scheduler's `reconcile_runs_shared` and `scheduler_tick_shared`, retention | task manager |
| Runtime threads, `runtime_threads.rs` | files of threads, turns and items; a bounded map of engines with the claimed turn of each thread; the build lock | `start_turn`, `compact_thread`, `interrupt_turn`, `update_thread`, engine loading and eviction, `monitor_turn`, `settle_claimed_turn_failure`, approvals, `recover_interrupted_state` | engine channels, clients of the API |
| Engine, `core/engine.rs`, `core/engine/turn_loop.rs`, `core/engine/approval.rs` | operation, event and approval channels, the cancel token | one turn at a time: events, tool calls, the wait for an approval, the report | runtime threads |

What is hard about them, and what makes them correct:

* **Task manager.** A section ends by replacing several files one after another;
  any of these writes may fail, or be the last thing the process does. The
  notification stores one permit. A cancellation races the result. Correct
  means: the queue names exactly the queued tasks; a task has one runner and is
  handed to it once; a cancellation wins over a completion; what was saved as
  over stays over; no queued task waits beside an idle worker.
* **Automation manager.** Between two phases under the lock the scheduler and
  the callers hold runs in their hands, while automations are paused or deleted
  and runs are pruned. Embedding hosts reconcile beside the scheduler. Correct
  means: one run record per slot, runs that do not overlap, runs that agree with
  their tasks, and nothing that stays due or unsettled.
* **Runtime threads.** A call awaits several times between reading a thread and
  claiming it, and its client may go away at each; the map of engines is full;
  a write fails inside the claim or behind the terminal record. Correct means:
  one turn at a time per thread, no turn in progress that nobody watches, no
  engine evicted under its turn, and a report that is taken by its own turn.
* **Turn.** Events are handled one at a time while the engine goes on; an
  approval waits for a client with a timeout, and its decision waits in a
  channel that outlives the turn; a request that broke is repeated behind the
  monitor's back. Correct means: a tool that asked runs only with consent; an
  error the engine reported is not covered up; a completed turn lists what it
  started; a turn ends once and its end is announced.

### The rest of the program

`tools/subagent` (sub-agents), `tools/workflow.rs` with `crates/workflow*` (the
workflow driver), `crates/core`, `crates/state`, `crates/lane` and
`crates/execpolicy` keep state or decisions worth modelling and are listed in
`PROJECT.json` as not modelled. Configuration, secrets, protocol types, model
clients, MCP and LSP transports, the sandbox, the terminal interface, the chat
bridges, the npm package and the web site are I/O, parsing or rendering.

## 2. Modules

```
FleetLease                    what is promised about leases
   ^  refinement (proved, and checked by run ledger)
FleetLedger                   one action per ledger transaction
   ^  refinement (run log)          ^ EXTENDS            ^ EXTENDS
FleetLog  the file            FleetScheduler  recovery   FleetManager  foreground

TaskBoard                     what is promised about tasks
   ^  refinement (proved, run tasks)     ^ EXTENDS
TaskManager  queue and workers          AutomationManager  recurring slots

RuntimeThreads  engines, claims, calls
RuntimeTurn     one turn from the inside

FleetLedgerProofs, FleetLogProofs, FleetSchedulerProofs, FleetManagerProofs, TaskManagerProofs,
AutomationManagerProofs, RuntimeThreadsProofs, RuntimeTurnProofs
MC*                           instances for TLC
```

**FleetLease** is the abstract specification: which tasks a worker runs, the
number of attempts of a task, how the latest one ended and who ran it.

**FleetLedger** is the ledger as its callers see it. Its variables are the
fields of the replayed state; each operation is the whole transaction: its
condition on the replayed state and the effect of the records it appends. An
operation that appends several records takes a parameter `k`, the number of
records that reached the file. Timestamps are small numbers, 0 standing for an
absent one. The operations that return `false` without appending are the
negations of `CanLease`, `LeaseUnchanged`, `CanRestart`, `CanAlert` and
`OwnsAttempt`, which callers test. `Next` lets any caller pass any expected
version. Two operations that only tests call are left out:
`mark_task_terminal_status_if_unchanged` (`fleet/ledger.rs:526`), and
`append_terminal_event_if_leased` (`:686`), which completes a task without a
receipt and would break `CompletedHasReceipt` if anything called it. A task key is enqueued once,
because replay keeps the first `TaskEnqueued` record of a key. Which queued task `claim_next` takes is left
open (the code orders by priority and age).

**FleetLog** is the file. A line is a record or a malformed fragment;
`terminated` says whether the last byte is a newline. `append_records_unlocked`
writes the whole batch, or a prefix of it cut between two lines, before a
newline or inside a line; the next append closes an unterminated tail with a
newline first. `rebuild_state` folds `apply_record` over the lines. `compact`
replaces the file by the checkpoint of the replayed state, in the order the code
writes it (the temporary file and its rename are one step). The variable `state`
caches the replay and is the refinement mapping to FleetLedger. Payloads are
reduced to the kinds that differ in replay: progress, stale, restarted,
interrupted, escalated and the terminal ones.

**FleetScheduler** extends the ledger by recovery processes with a program
counter: capture the clock, read the snapshot, mark a task stale, decide between
retry and failure, alert channel by channel, and for `tick_run` (processes in
`Ticker`) launch queued work. Only `resume_run` is reached from the program
(`fleet/manager.rs:451`); `tick_run` is public, and its tests are its only
callers. It takes part in the safety run as a competitor, and no liveness
property assumes that anyone issues it. Each ledger call is a step of its own, so everything may happen in
between; a process may die between two steps and inside an append. Managers and
operators are the ledger operations they perform, with the current version.

**FleetManager** extends the ledger by managers, their lock files, their
executors and the worker processes. A manager started by `fleet run` begins in
the scheduling pass of `create_run`, which leases work before the run's lock is
taken; `--once` ends there. One started by `fleet restart` first replaces the
worker's attempt and then drives the run in the same way. The steps of one loop iteration are those
between two ledger or host calls: heartbeats of active workers, pick and lease,
launch, registration of the log artifact, then for each tracked worker the
ownership check, the drained lines one by one with the heartbeat that follows
each, the poll, the rest of the log and the outcome. A worker process writes one
line into its worker's log and exits with either status, or keeps running; the
verifier's result is any of `VerifierResult`. A manager that dies releases its lock and
leaves its processes behind. All events fall into one instant of the clock,
which makes the comparison of heartbeats as weak as it can be; staleness belongs
to FleetScheduler.

**TaskBoard** is the abstract specification of the task manager: a task is open
until it is over, and how it ended never changes until it is deleted. It is
stated about the task files, so it speaks of restarts as well. `get_task` answers
from memory: between a save that failed in `finish_task` and the next save of the
task, memory knows an end that no file has. A restart then fails the task
(`load_state`), and whoever asked before has seen another end; an automation may
have recorded `completed` for it.

**TaskManager** has one action per section under the mutex. A section computes
the tasks and the queue it leaves in memory and then saves: `Saves` writes
everything, `SaveFails` some of it (the queue file first, the task files in the
order of a hash map) and the section goes on as its code does on an error,
`DiesSaving` loses the memory as well. `add_task` notifies only after a
successful save. `worker_loop`, `notified` and `finish_task` are the worker;
`notify_one` wakes a parked worker or stores the one permit. `start_with_executor`
is `load_state` with the saves and the workers that follow it. A task is its
status; the executor's result is a free choice. `Kept` is `VecDeque::retain`.

**AutomationManager** has one action per phase under the lock and one per call
of the task manager between two phases. `sched`, `host` and `caller` are what the
scheduler, the embedding hosts and the callers of `run_now_shared` have in hand
there. Hosts call `reconcile_run_statuses_shared` "during boot and retention
ticks" (`automation_manager.rs:1089`) at any time, beside the scheduler; both
walk through their own snapshot with the operators `Collected`, `LookedUp`,
`SaveStatus` and `SaveStatusFails`. The task that the enqueue of run `r` adds is
`r` on the board. `enqueue_run_task` may fail and leave the task behind, as
`add_task` of TaskManager may. Any save may fail; in `collect_due_runs` that ends
the sweep after some of the skipped slots. An rrule is a fixed period. A crash
loses what was in hand. `pruned` remembers the runs that retention deleted. One
process has the directory: a second one, which nothing in the code keeps out,
is not modelled.

**RuntimeThreads** has one action per stretch between two awaits of a call:
`begin`, the lookup of the engine, building under the build lock, publishing
with eviction, the permit of the engine's channel, the claim. `dropped` is a
client that goes away at one of these. `engine_*` is the engine task with its
operation and event channels; the steps of a turn's monitor follow
`monitor_turn` and `settle_claimed_turn_failure` from one write or lock to the
next. A turn is in progress or over, RuntimeTurn tells how it ended. `lost`
remembers that a write cleaning up after a failure failed as well.

**RuntimeTurn** is one thread from the inside of its turns. The engine numbers
what it announces, text blocks and tool calls. A stream starts any number of
them, may break in one, and ends with one `MessageComplete` for all its text
blocks. `engine_retry` repeats a request that broke: the calls it announced are
dropped, `turn_error` is cleared, and their items stay open, as does a message
that the next text block replaces (`hist.dropped`). `engine_next_step` is the
request behind finished tools. A tool may ask for an approval, and the engine
waits for room in the event channel. A turn completes with no call left and no
error kept. A sub-agent holds a clone of `tx_event`, so the channel of an engine
that is gone closes when its sub-agent has ended. The monitor takes one event at
a time, saves the item, lists it in its turn, asks the client over a oneshot with
a timeout, and ends the turn in the order of the code: status, the current
message, turn record, announcement, claim. `settle_*` is the path of a failing
write or a dead engine, `recover_*` that of a restart. The claim is one step
here, RuntimeThreads details it; a new engine after an eviction has new channels.
Thinking blocks, whose items are handled as messages are, are left out.

`PROJECT.json` maps every definition to the lines it stands for. A definition
whose comment says *Mutant* is not part of any specification: it is a plausible
mistake in the definition that follows it, and replacing that definition by it
makes a run fail.

## 3. Runs

| Run | Instance | Shows |
| --- | --- | --- |
| `ledger` | 2 tasks, 2 workers, 2 leases per task, 3 events per stream | All safety properties of the ledger and the refinement of FleetLease under the most general client, with every torn prefix. |
| `log` | 1 task, 1 worker; torn appends in files of 7 lines, compaction at any time in files of 10 (`Modes <- Apart`) | Compaction is invisible in the replayed state when no append was torn; the file implements FleetLedger; no two events of a stream get the same number, behind torn appends or compactions. |
| `resume` | a `resume_run` and a `tick_run` compete, budget 2, one operator restart, one crash, clock 1..3 | The retry budget holds and only exhausted attempts are escalated. |
| `manager` | 1 run, 2 tasks, 1 worker, a manager and one started by a restart, no crash | One process per attempt and per worker, output fenced; scheduling passes end, superseded processes are stopped, a manager does not hold a run nothing works on. |
| `manager_faults` | the same with one manager death and failing receipts | Live managers lose no process; completion rests on a passing receipt. |
| `tasks` | 2 tasks, 2 workers, 2 failing saves, 2 crashes | The queue is exact, a task has one runner and is started once, a cancellation wins, queued tasks are served, and the files implement TaskBoard. |
| `automation` | 1 automation, 1 caller, 1 host, 2 runs, slots at 1 and 2, two outcomes, one crash or failed call | One record per slot, no overlap, a run that is over says how its task ended, a run whose task ended is settled. |
| `automation_crash` | the same without a host | *Violation*: a crash between `add_task` and the record of the run hands the slot over twice. |
| `threads` | 2 threads, 2 calls, room for 1 engine, 2 turns, one fault | One turn at a time, no zombie turn, the eviction order is exact and spares claimed threads. No deadlock: there is always a call to make. |
| `threads_stale` | the same | *Violation*: a turn claimed on an engine that was evicted meanwhile takes the report of an earlier turn. |
| `turn` | 2 turns of 1 item and 2 requests, 2 failing writes or dying engines, 1 crash | No tool without consent; an error the engine sent keeps the turn from being completed; a completed turn lists what it started and leaves open only what the engine gave up; a turn ends once, its end is announced. |
| `turn_retry` | 1 turn, no fault | *Violation*: a request repeated with success leaves its turn failed. |

The runs marked *violation* state what a comment of the code says; the findings
in `PROJECT.json` quote it and tell the counterexample.

**Bounds.** All are guards. In the fleet, `MaxLeases` bounds the attempts of a
task, `MaxSeq` the events of a stream, `MaxTime` the clock, `MaxRecords` the
lines of the file, `MaxProgress` progress events, `MaxRestarts` operator
restarts and `MaxCrashes` deaths. Two attempts are enough to confuse one with
its successor, three leases to exceed a budget of two by a lost race; two tasks
and two workers are enough to break exclusiveness; a clock of three instants
separates fresh, aged and stale with a timeout of one. In the manager runs
`MaxSeq` is large enough never to bind. In `log` torn appends and compactions come in
different behaviours, since the other two properties of the run fail with both;
`NumbersGivenOnce` alone holds with `Modes <- Together` as well.

In `tasks`, `MaxErrors` bounds failing saves and `MaxCrashes` deaths: two of each
let a fault fall on files that an earlier fault left half-written; two tasks and
two workers are what a collapsed notification and a queue of two ages need. In
`automation`, `MaxRuns` bounds records, `MaxFaults` crashes and failed calls
together: two records are two of the same slot, or a slot and a run now, or a
pruned run that a host still has in hand and its successor; the two outcomes let a
run tell the wrong end.
`Window` is the 100 of `collect_pending_runs`; here it is as large as the number
of runs, see known disagreements. In `threads`, `MaxTurns`, `MaxEngines` and
`MaxFaults` bound turns, engines alive at once and faults (the number of an
engine that is gone and held by nobody serves again, so that calls never run out
of engines for that reason); one place in the map makes every load of the other
thread an eviction. In the turn runs, `MaxStreams` bounds the requests of a turn,
repeated or not, and `MaxItems` what it announces. `turn` has one item per turn (a
call that a retry drops, or a message); instances of two, where a text block
replaces another and a call stands beside a message, have millions of states with
liveness, and are left to the theorems. Two turns let a decision for the first reach
the second, and two errors let the clean-up of a failure fail; `Capacity` (256 in the code) is 2, so that the
engine is often held up by a full channel.

Deadlock checking is off where a bounded system comes to rest (all attempts,
records or turns used and the clock at its end).

**Fairness.** In `manager` each manager is weakly fair, because its loop never waits
for a worker: it polls without blocking and sleeps a fixed interval. Worker processes are not fair: by
default `codewhale exec` has no turn limit (`fleet/executor.rs:158`), so a worker
may run for ever, and `RunDrains` promises progress only when none does. In
`tasks` the process is started again after it died and each worker is weakly
fair: the runtime polls it, and an execution is taken to end. It ends when
`turn.completed` arrives; where `EndAnnounced` does not promise that (a write
fails behind the terminal record or in the clean-up), the worker waits for ever,
and `QueueServed` says nothing. It also leaves out additions whose save failed,
which are in the queue without a notification. In
`automation` the scheduler is weakly fair as a whole: its loop waits a bounded
time. Tasks are not: `RunSettles` begins when one is over. In `turn` the engine,
the monitor and recovery are weakly fair: streams, tools and approvals have time
limits; a sub-agent, too, ends (`child_ends`: its steps are limited and have time
limits). Nothing is assumed of clients, hosts, clocks, operators, or crashes.

### Known disagreements

Three runs end in a violation: `automation_crash` and `threads_stale` are described
in the table, and

* `turn_retry`: the turn loop clears its `turn_error` before it repeats a request,
  because "a successful retry should not surface the transient error as the turn
  outcome" (`core/engine/turn_loop.rs:1228`), but the monitor has read the `Error`
  event and keeps it authoritative (`runtime_threads.rs:4440`): the turn is
  recorded as failed although the engine reports success.

Seven more statements fail when a constant of a run is changed. They were met
while modelling; the passing runs show the conditions under which the last four
hold.

* `ResumeEscalates` of FleetScheduler (instance `resume` with `FairSpec`,
  `Ticker = {}`, `MaxRestarts = 0`): `resume_run` looks at leased tasks only, so a
  crash between the `Failed` event and the alert loses the escalation, which
  `docs/FLEET.md:33` promises ("else failing and escalating"). `tick_run` would make
  up for it, but nothing in the program issues it. The fairness (each recovery
  process goes on, and `resume` is issued again and again) only makes the loss the
  stronger.
* `StaleMeansSilent` of FleetScheduler (`Ticker = {}`): the age of a heartbeat
  newer than the captured clock is negative and counts as stale
  (`fleet/scheduler.rs:457`).
* `ActiveHasTask` of AutomationManager (instance `automation` with `MaxRuns = 3`,
  `Window = 3`): a host looks up a task while it is open; the task ends, the
  scheduler settles the run, retention deletes run and task; the host saves its
  snapshot and the run is back, active, without a task. Every later lookup skips
  it, and its automation skips every slot (`automation_manager.rs:1116`).
  `RunMatchesTask` and `OneRunPerSlot` except such runs.
* `CompactionPreservesState` with `Modes <- Together`: a restart torn behind its
  `TaskLeased` record leaves a task leased again whose latest event is still the
  terminal one of the old attempt; compaction writes the event after the lease,
  and the next replay ends the new attempt (`fleet/ledger.rs:1239`).
* `OneProcessPerAttempt` with `MaxCrashes = 1` and two workers
  (`WorkerIds <- TwoWorkers`): after a manager died, `fleet restart` of one
  worker relaunches the unchanged attempt of the other beside its orphan, although
  the test `concurrent_manager_loops_launch_each_attempt_once`
  (`fleet/manager.rs:2615`) shows the intent.
* `OneProcessPerWorker` with two runs that name the same worker
  (`RunOf <- TwoRuns`, `ManagedRun <- RunEach`, `Creator = {m1, m2}`): cancelling
  the first run's task frees the worker in the ledger while its process runs. The
  guard at `fleet/manager.rs:536` ("Do not lease new work onto a logical worker
  until its executor...") sees this manager's executor only.
* `RunSettles` of AutomationManager with `Window = 1`, `MaxFaults = 0`: a newer
  run pushes an active one out of the reconciled window (the newest 100); it stays
  active for ever, and no slot of its automation is due while it is
  (`automation_manager.rs:879`).

Other behaviours noted on the way:

* An item saved but not yet listed in its turn when the process dies stays
  `in_progress`, as do the items of a turn that recovery itself died on, while
  `docs/RUNTIME_API.md:479` says that the recovered record of such an item is
  marked `interrupted` (`runtime_threads.rs:3782`, `:4695`).
* Items of calls that a stream announced before it was repeated, and messages
  replaced by another text block of the same stream, stay `in_progress` in a turn
  that completes (`core/engine/turn_loop.rs:1201`, `:952`): `CompletedIsClean`
  excepts them.
* An interrupt that arrives before the engine has taken the operation cancels a
  token that `handle_send_message` resets (`core/engine.rs:2665`): the turn runs
  to its end and is recorded as interrupted.
* An engine that dies in a turn whose interrupt was requested ends the turn
  without an eviction: the dead engine stays in the map, and the thread refuses
  later turns until it is evicted or the process restarts
  (`runtime_threads.rs:3259`).
* Steering messages that the turn did not consume are dropped at the next turn
  (`core/engine.rs:2673`).
* Two processes with the same tasks directory load and run the same queue;
  nothing locks it (`task_manager.rs:811`).
* Compaction replays heartbeats after events, so a worker a `Stale` event made
  unhealthy comes back online (`fleet/ledger.rs:1306`); the heartbeat of the
  compare-and-set has a resolution of one second (`fleet/ledger.rs:872`).
* The log file an orphan still writes to is the one its replacement reads
  (`fleet/host.rs:650`); a manager whose first idle worker is leased by another
  run offers that worker again and again while the next one is free
  (`fleet/manager.rs:390`).

## 4. Proofs

Each proof module proves an inductive invariant of its component (theorem
`Invariance`; `SchedInvariance` and `ManagerInvariance` in the modules that extend
the ledger) and draws the properties of the runs from it, for every value of the
constants that satisfies the named assumption of the component's module. Each
invariant was checked by TLC on the instance of the run before it was proved.
Every invariant that a passing run checks is the conclusion of a theorem.

**FleetLedgerProofs** (`LedgerAssumption`). `IInv` is the conjunction of
`TypeOK`, `OneLeasePerWorker`, `LeaseShape`, `ReceiptFenced`,
`CompletedHasReceipt` and `AlertFenced`. The conjuncts lean on each other: a
cancelled task keeps no worker only if it was never leased (`LeaseShape`); a new
lease leaves old receipts and alerts behind because it raises an attempt count
that bounds them; and a completion can only meet a leased task, whose earlier
receipt is of an earlier attempt. `TypeCorrect`, `LeaseExclusion`,
`EvidenceFenced`, `CompletionEvidenced` and `AlertsFenced` are its consequences;
`TerminalFinality` (after its first terminal transition an attempt and its receipt
do not change) and `LeaseRefinement` (FleetLedger implements FleetLease) are about steps. The
argument has two layers: `ManageKinds`, `WorkKinds` and `RecoverKinds` go through
the operations once and classify every step as one of a few kinds (a task is
enqueued, leased anew, ended with or without a receipt, alerted about, or left
alone, while event numbers do not fall); everything else is proved from the
kinds.

Lemmas at the end of the module say what each transaction leaves alone and what
a step of the ledger can do to one task; the two modules below use the ledger
only through them.

**FleetLogProofs** (`LogAssumption`: in particular the runs, tasks and workers are
finitely many, as they are in a file). The two theorems share a hypothesis,
`CompactedWhole`: a file that is compacted is one whose appends were whole. It
leaves both modes of run `log`: files with torn appends that are not compacted, and
files compacted at any time. It is needed: the first entry of the known
disagreements is a counterexample without it. `LogImplementsLedger`: what appends
and compactions do to the file is what FleetLedger's transactions do to the replayed
state, or nothing. `CompactionKeepsState`: the checkpoint replays to the state of
the file it replaces.

* *Appends.* `rebuild_state` of a longer file is one more `apply_record`
  (`RebuildAppend`, by a least counterexample as in TaskManagerProofs below), so
  whatever an append leaves, replaying it applies the first k of its records
  (`AppendLeaves`). Then each record's effect on the fields FleetLedger speaks of
  (`Shows`), each operation's, record by record (`Steps`), and the invariant
  `LogInv`: that the state is the replay of the file, and the ledger's own `IInv`
  and bounds of it, since an operation numbers its events and names its worker from
  the state it read.
* *What every file keeps* (`Good`, by `FileGood`): the fields the ledger does not
  see. The restart and escalation slots hold no terminal event, an alert is recorded
  once and is not later than its stream, only a leased task has a deadline.
* *What whole appends keep besides* (`Ends`): a worker's retained event that ended a
  task agrees with it: the task is over, and that worker was its last. This is what a
  torn restart breaks, and what makes it harmless that the checkpoint lists events
  behind the queue, since replaying a terminal event ends the task again. With `LogInv`
  it is the invariant of the theorems, `FileInv`.
* *The checkpoint.* `Rebuilt` says how much of the state the lines so far have
  rebuilt; each kind of line adds its element (`RunLine`, `TaskRebuilt`, `AlertLine`,
  `RetainedLine`, `NumberLine`, `BeatLine`, `EndLine`, `ReceiptLine`). `Sweep`
  carries such a step over the lines of a whole set, whose order the model leaves
  open, by the joins of `FlattenSeq`; the eight parts one after the other end in
  `AllRebuilt`.

**FleetSchedulerProofs** (`SchedulerAssumption`). `RetryBudgetHolds`,
`EscalatesOnlyExhaustedHolds` and `SchedulerIsClient`: every step of scheduler
processes, managers and operators is a transaction of FleetLedger or leaves it
alone, so the theorems and the refinement above hold of the composition.
`RetryBudget` is about a race: two recoveries decide from snapshots of their own.
It is inductive together with `SInv`'s other parts, because a requeue is a
compare-and-set on the attempt (so a stale snapshot appends nothing), a first
attempt comes from a queued task that was never leased (`LeaseShape`), and only an
operator's restart raises `restarts` along with the attempts. `Deciding` keeps
what a process holds inside its snapshot, so that it escalates what used the
budget up.

**FleetManagerProofs** (`ManagerAssumption`). `ManagerIsClient` is the same fact
for managers; `ManagerFinality` is drawn from it. `MInv` adds who owns what. Every
step of a manager has one of seven effects on locks and processes (`Effect`:
enter, wait, leave, die, spawn, reap, drive) and leaves the work list and the
current item as its next phase expects them (`Phase`); the 16 actions are only
shown to fall under these (`StepOK`). From the effects follow the four parts of
`Ownership`: one manager holds a run's lock, a manager tracks one attempt per
worker, a tracked attempt has at most one process, and no process of a living
manager is untracked. `RunHasOneManager` (one manager starts and drives the workers of a run; only the
leases of `create_run`'s pass are made without the lock), `NoProcessLost` and
`CompletionVerified` hold with any number of crashes. `AttemptHasOneProcess` assumes that no manager
has died, `WorkerHasOneProcess` and `OutputIsFenced` also that no two runs name the same
worker (`OwnWorkers`): these hypotheses are exactly the ones whose absence gives
the disagreements of section 3. Two processes of one worker would lead from their
tasks to one run, to one lock, to one manager and to one tracked attempt; a log
file holds only lines of the attempt that is tracked, since launching truncates it
when nobody else can write to it (`Fenced`).

**TaskManagerProofs** (`TaskManagerAssumption`). `RunsOnceHolds`,
`OneRunnerHolds`, `CancelWinsHolds` and `Refinement` (the files implement
TaskBoard). `RunsOnce` is far from inductive: a start is justified by what is on
disk after the next crash. `IInv` says who runs which task; that a task which may
still be started, in memory or by a reload of its file, was started at most as
often as saves failed; that memory agrees with every file that says how a task
ended; and that nothing is in hand while the process is down. The proof is
layered the same way: a save, whole or torn, shows nothing but what was there or
what the section left in memory (`SaveShows`), so every section is either a death
(`Died`) or a change of memory (`Section`), and the operations are only shown to
be one or the other.

`QueueExactHolds` has an invariant of its own on top, `QueueInv`: in memory the
queue is exactly the queued tasks; on disk the queue file names every task once,
and whatever a torn save left out or left over is what `load_state` drops and adds
at boot. `retain` and the repaired queue are recursive functions over
prefixes; what they keep of a sequence is proved by induction, written as the
search for a least counterexample (`Least`, from the well-founded order of the
naturals), since the library's induction theorems cannot be instantiated here.

**AutomationManagerProofs** (`AutomationAssumption`). `OneRunPerSlotHolds` and
`RunMatchesTaskHolds`, with any number of hosts that reconcile beside the
scheduler. `IInv` says what is in hand between the phases under the lock. A
caller's run and the run of a due slot are not on disk and in one hand only
(`Calls`, `Enqueueing`). What the scheduler and the hosts are reconciling
(`Pending`) may be in several hands: it was active on disk once, and when it is gone
either retention deleted it, which `pruned` remembers, or its automation was deleted
(`Reconciling`). A task that was over when it was looked up is still over in the same
way or deleted, so a status saved late is right, however the passes overtake each
other. A record on disk or in a reconciliation's hands (`Known`) is the only one of
its slot (`Unique`), except for pruned ones, and says what `Tasks` demands.
Everything clients, retention and the task manager may do meanwhile is one relation
(`Outside`); the steps of the scheduler and of a host are another (`Reconciles`);
both are shown to disturb none of this. The theorems except pruned runs, and must:
see `ActiveHasTask` under known disagreements.

`NonOverlapHolds` counts. The open tasks of an automation's slots are at most one
more than the faults so far. `Fits` says how: all but as many as faults are
told of by an active run record (`ToldRuns`), of those there is at most one, and
none once a slot is being handled or the automation is deleted. `Tame` is this
for the state, `Withdrawn` says that a deleted automation has no due slot in
hand, `Owners` whose the runs in hand are. A crash or a failed call turns a told task into
an orphan and pays for it; every other step keeps the count. The sets are finite
because runs are numbered; the arithmetic is cardinality facts of the library.

**RuntimeThreadsProofs** (`RuntimeAssumption`). `NoZombieTurnHolds`,
`OneTurnPerThreadHolds` and `LruExactHolds`. Three groups make up `IInv`: what the
records, claims and monitors say of each other (`Claimed`, `Recorded`, `Down`);
what every call holds between two awaits, in particular an engine nobody else has
(`Calling`), and that the eviction order lists the loaded threads once
(`Listed`); and who may use an engine. An engine serves one thread (`Separate`),
its channel ends in what its state allows (`Channels`), and every engine that a
call may still send a turn to is gone, was told to shut down, is empty, or runs
the claimed turn of its thread (`Reached`). The last is what
`OneTurnPerThread` needs: an engine evicted under a call's feet, and a second
engine built for the same thread, never run a second uncancelled turn.

**RuntimeTurnProofs** (`TurnAssumption`). `ConsentHolds`
(`NoToolWithoutApproval`), `ErrorIsFinalHolds`, `EndsOnceHolds` and
`CompletedIsCleanHolds`. `IInv` says
what the record and the announcements are at each place of the monitor
(`Lifecycle`), that the engine's report is the last thing in its channel and
nothing of a turn is left for the next (`Channel`), that a decision which allows a
call bears the turn and the call it was said to and was preceded by the client's
consent (`Consents`), and that an error the engine sent is in the channel until the
monitor has noted it, and then in its status (`Blame`): the engine may clear its own
`turn_error`, repeat its request and report success, the record does not follow.
Nothing in it depends on how the engine numbers, repeats or closes what it
announces.

`CompletedIsCleanHolds` is about just that, and has a second invariant, `Accounts`,
on top: every message that was announced is the engine's last one, or one whose end
follows in the channel before the next message, or one the engine gave up
(`MessageOwed`); every call is in the engine's hands, has its end in the channel, was
dropped by a retry, or belongs to a turn that did not succeed (`CallOwed`); and the
items that are open in the files are among these (`Tracked`). Each step of the engine
has to pay what it owes (`Pays`), so that behind a report of success only the current
message is left to be closed (`Closing`). `Accounts` was checked by TLC with one
item per turn, and without liveness with two and three.

Checked by TLC only: `NumbersGivenOnce`, and liveness
(`RunDrains`, `SupersededStopped`, `SchedulingEnds`, `QueueServed`, `RunSettles`,
`EndAnnounced`), which is outside the prover's reach, as is
`ENABLED`.

## 5. Not modelled

In the fleet: the status of a run (`RunStatusChanged` is written and read back
by compaction only), the inventories of workers and artifacts, the unfenced
appends `append_event`, `append_event_next_seq` and `record_receipt`, the
compare-and-set operations `mark_task_terminal_status_if_unchanged` and
`append_terminal_event_if_leased` (only tests call them), failing
reads and writes other than torn appends, the SSH host, pid files and signal
escalation, the text of prompts, alerts and reports.

In the task manager: `shutdown`, which only tests call; panics of a worker;
timelines, artifacts and checklists, which do not influence control; a second
process on the same directory. In the automation manager: the calendar of rrules
(its result is only used as a later instant), edits that change no status,
legacy run files, a second process on the same directory. In the runtime threads: forks and imports, steering,
compaction turns beyond their claim, dynamic tools and user input (a oneshot with
a timeout like an approval), the lines and cursors of the event log, and the HTTP
layer of `runtime_api.rs`. In the engine: the model's answers, parallel tools,
thinking blocks and capacity checks, reduced to the events that are emitted.

Not modelled at all, with the reason in `PROJECT.json`: sub-agents and the
workflow driver (state worth modelling, next in the plan; the JavaScript engine
is out of reach), the core, state and lane crates (planned), context compaction
and execution policy (pure functions), and the parts that are I/O, parsing or
rendering: most of the program by size.

## 6. Plan

1. State the claim of RuntimeTurn as an abstraction that RuntimeThreads
   implements.
2. The sub-agent manager and the workflow driver, whose appends are the
   unfenced ledger operations left out above.
3. Steering, user input and the event log's cursors in RuntimeTurn.
4. Lanes, the job table of `crates/core`, and `execpolicy` as operators checked
   against a reference definition.
