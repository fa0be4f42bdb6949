----------------------------- MODULE FleetScheduler ----------------------------
(***************************************************************************)
(* The recovery engine of the fleet (crates/tui/src/fleet/scheduler.rs):   *)
(* `fleet resume` (resume_run) and the supervision tick (tick_run), run by *)
(* processes that compete with each other, with the managers that heart-   *)
(* beat and finish attempts, and with operators.  A process captures its   *)
(* clock when it opens the scheduler, reads one snapshot of the ledger,    *)
(* and then walks it with compare-and-set operations; it may die between   *)
(* any two of them, or inside an append.                                   *)
(*                                                                         *)
(* Left out: RunStatusChanged, which refresh_run_status and cancel_run     *)
(* append and nothing reads back, and the report counters.                 *)
(***************************************************************************)
EXTENDS FleetLedger

CONSTANTS
  Proc,              \* scheduler processes
  Supervised,        \* the run they recover
  Ticker,            \* those that run tick_run; the others run resume_run
  MaxAttempts,       \* retry_policy.max_attempts
  HeartbeatTimeout,  \* policy.heartbeat_timeout
  LeaseSeconds,      \* policy.lease_seconds
  MaxProgress,       \* bound: progress events of one worker and task
  MaxRestarts,       \* bound: operator restarts of one task
  MaxCrashes         \* bound: scheduler processes that die

ASSUME SchedulerAssumption ==
  /\ Supervised \in Run
  /\ Ticker \subseteq Proc
  /\ {MaxAttempts, HeartbeatTimeout, LeaseSeconds, MaxProgress, MaxRestarts, MaxCrashes}
       \subseteq Nat
  /\ MaxTime > 0

VARIABLES
  clock,     \* the wall clock, in seconds
  proc,      \* each process: its program counter, captured clock and snapshot
  restarts,  \* operator restarts of each task
  crashes    \* processes that died so far

schedVars == <<clock, proc, restarts, crashes>>
allVars == <<ledgerVars, schedVars>>

Idle == [pc |-> "idle", now |-> 0, snap |-> <<>>, task |-> {}, worker |-> {}, channels |-> {}]

SchedInit ==
  /\ Init
  /\ clock = 1
  /\ proc = [p \in Proc |-> Idle]
  /\ restarts = [t \in Task |-> 0]
  /\ crashes = 0

--------------------------------------------------------------------------------
(* What a process decides on.                                              *)

\* The version of a task in a snapshot, and the compare-and-set on it.
Version(t) ==
  LET w == tasks[t].leased_to IN
  [status |-> tasks[t].status, worker |-> w, attempts |-> tasks[t].attempts,
   seq |-> IF w = NoWorker THEN 0 ELSE latest_seq[w][t],
   heartbeat |-> IF w = NoWorker THEN NoTime ELSE heartbeats[w]]

\* Age of the heartbeat against the captured clock; a heartbeat newer than the
\* clock has no age and counts as stale.  Without one, the lease deadline.
task_is_stale(t, now) ==
  LET h == heartbeats[tasks[t].leased_to] IN
  IF h # NoTime THEN now < h \/ now - h > HeartbeatTimeout
  ELSE IF tasks[t].lease_deadline # NoTime THEN now > tasks[t].lease_deadline
  ELSE TRUE

Unhealthy(p) ==
  {t \in Task : RunOf[t] = Supervised /\
     \/ IsLeased(t) /\ task_is_stale(t, proc[p].now)
     \/ p \in Ticker /\ tasks[t].status = "Failed"}

\* A deadline past the end of the bounded clock is never reached.
lease_expires_at(now) ==
  IF now + LeaseSeconds > MaxTime THEN MaxTime ELSE now + LeaseSeconds

Goto(p, pc) == proc' = [proc EXCEPT ![p].pc = pc]

\* The process goes on with the rest of its snapshot.
Drop(p, t) ==
  proc' = [proc EXCEPT ![p].pc = "scan", ![p].task = {}, ![p].channels = {},
             ![p].snap = [u \in DOMAIN @ \ {t} |-> @[u]]]

Dies(p) == crashes < MaxCrashes /\ crashes' = crashes + 1 /\ proc' = [proc EXCEPT ![p] = Idle]

--------------------------------------------------------------------------------
(* One scheduler process.                                                  *)

open(p) ==
  /\ proc[p].pc = "idle"
  /\ proc' = [proc EXCEPT ![p] = [Idle EXCEPT !.pc = "recover", !.now = clock]]
  /\ UNCHANGED <<ledgerVars, clock, restarts, crashes>>

\* rebuild_state of reconcile_stale_leases and recover_unhealthy_work; which
\* tasks they treat depends on this snapshot and the captured clock only.
snapshot(p) ==
  /\ proc[p].pc = "recover"
  /\ proc' = [proc EXCEPT ![p].pc = "scan",
                ![p].snap = [t \in Unhealthy(p) |-> Version(t)]]
  /\ UNCHANGED <<ledgerVars, clock, restarts, crashes>>

\* The Stale event of a leased task, if its lease has not moved.
mark_stale(p, t) ==
  LET v == proc[p].snap[t] IN
  /\ proc[p].pc = "scan"
  /\ t \in DOMAIN proc[p].snap
  /\ v.status = "Leased"
  /\ \/ /\ append_event_if_lease_unchanged(t, v.worker, v.attempts, v.seq, v.heartbeat)
        /\ proc' = [proc EXCEPT ![p].pc = "decide", ![p].task = {t}, ![p].snap[t].seq = @ + 1]
     \/ /\ ~ LeaseUnchanged(t, v.worker, v.attempts, v.seq, v.heartbeat)
        /\ Drop(p, t)
        /\ UNCHANGED ledgerVars
  /\ UNCHANGED <<clock, restarts, crashes>>

recover_failed(p, t) ==
  /\ proc[p].pc = "scan"
  /\ t \in DOMAIN proc[p].snap
  /\ proc[p].snap[t].status = "Failed"
  /\ proc' = [proc EXCEPT ![p].pc = "decide", ![p].task = {t}]
  /\ UNCHANGED <<ledgerVars, clock, restarts, crashes>>

\* Mutant: the budget counts retries instead of attempts.
retry_off_by_one(p, t) ==
  LET v == proc[p].snap[t] IN
  /\ proc[p].pc = "decide" /\ t \in proc[p].task
  /\ v.attempts <= MaxAttempts
  /\ restart_task_if_unchanged(t, v.worker, v.status, v.attempts, v.seq, v.heartbeat,
       lease_expires_at(proc[p].now), proc[p].now, 4)
  /\ Drop(p, t)
  /\ UNCHANGED <<clock, restarts, crashes>>

\* retry_or_fail, within the budget: one restart, whole or torn.
retry(p, t) ==
  LET v == proc[p].snap[t] IN
  /\ proc[p].pc = "decide" /\ t \in proc[p].task
  /\ v.attempts < MaxAttempts
  /\ \/ \E k \in 1..4 :
          /\ restart_task_if_unchanged(t, v.worker, v.status, v.attempts, v.seq, v.heartbeat,
               lease_expires_at(proc[p].now), proc[p].now, k)
          /\ IF k = 4 THEN Drop(p, t) /\ UNCHANGED crashes ELSE Dies(p)
     \/ /\ ~ CanRestart(t, v.worker, v.status, v.attempts, v.seq, v.heartbeat)
        /\ Drop(p, t)
        /\ UNCHANGED <<ledgerVars, crashes>>
  /\ UNCHANGED <<clock, restarts>>

\* Mutant: the task is failed and escalated with budget left.
exhaust_early(p, t) ==
  LET v == proc[p].snap[t] IN
  /\ proc[p].pc = "decide" /\ t \in proc[p].task
  /\ append_terminal_event_if_lease_unchanged(
       t, v.worker, v.attempts, v.seq, v.heartbeat, "Failed")
  /\ proc' = [proc EXCEPT ![p].pc = "alert", ![p].channels = Channel]
  /\ UNCHANGED <<clock, restarts, crashes>>

\* retry_or_fail, beyond it: fail a leased task, then escalate.
exhaust(p, t) ==
  LET v == proc[p].snap[t]
      escalate == proc' = [proc EXCEPT ![p].pc = "alert", ![p].channels = Channel]
  IN
  /\ proc[p].pc = "decide" /\ t \in proc[p].task
  /\ v.attempts >= MaxAttempts
  /\ \/ v.status = "Failed" /\ escalate /\ UNCHANGED ledgerVars
     \/ /\ v.status = "Leased"
        /\ append_terminal_event_if_lease_unchanged(
             t, v.worker, v.attempts, v.seq, v.heartbeat, "Failed")
        /\ escalate
     \/ /\ v.status = "Leased"
        /\ ~ LeaseUnchanged(t, v.worker, v.attempts, v.seq, v.heartbeat)
        /\ Drop(p, t)
        /\ UNCHANGED ledgerVars
  /\ UNCHANGED <<clock, restarts, crashes>>

\* One channel of record_alerts.
record_alerts(p, t, c) ==
  LET v == proc[p].snap[t] IN
  /\ proc[p].pc = "alert" /\ t \in proc[p].task
  /\ c \in proc[p].channels
  /\ \/ record_failed_attempt_alert_once(t, v.worker, v.attempts, c)
     \/ ~ CanAlert(t, v.worker, v.attempts, c) /\ UNCHANGED ledgerVars
  /\ proc' = [proc EXCEPT ![p].channels = @ \ {c}]
  /\ UNCHANGED <<clock, restarts, crashes>>

alerts_done(p, t) ==
  /\ proc[p].pc = "alert" /\ t \in proc[p].task
  /\ proc[p].channels = {}
  /\ Drop(p, t)
  /\ UNCHANGED <<ledgerVars, clock, restarts, crashes>>

scan_done(p) ==
  /\ proc[p].pc = "scan"
  /\ DOMAIN proc[p].snap = {}
  /\ IF p \in Ticker THEN Goto(p, "launch") ELSE proc' = [proc EXCEPT ![p] = Idle]
  /\ UNCHANGED <<ledgerVars, clock, restarts, crashes>>

\* next_launch: a queued task and a worker that is not active in this run.
Launchable ==
  {x \in Task \X Worker :
     /\ RunOf[x[1]] = Supervised /\ tasks[x[1]].status = "Enqueued"
     /\ \A u \in ActiveTasks(Supervised) : tasks[u].leased_to # x[2]}

next_launch(p) ==
  /\ proc[p].pc = "launch"
  /\ IF Cardinality(ActiveTasks(Supervised)) >= MaxActive \/ Launchable = {}
     THEN proc' = [proc EXCEPT ![p] = Idle]
     ELSE \E x \in Launchable :
            proc' = [proc EXCEPT ![p].pc = "start", ![p].task = {x[1]}, ![p].worker = {x[2]}]
  /\ UNCHANGED <<ledgerVars, clock, restarts, crashes>>

launch(p, t, w) ==
  /\ proc[p].pc = "start" /\ t \in proc[p].task /\ w \in proc[p].worker
  /\ \/ \E k \in 1..(InitialEvents + 2) :
          /\ lease_task_if_enqueued_with_events(t, w, MaxActive,
               lease_expires_at(proc[p].now), proc[p].now, k)
          /\ IF k = InitialEvents + 2 THEN Goto(p, "launch") /\ UNCHANGED crashes ELSE Dies(p)
     \/ ~ CanLease(t, w, MaxActive) /\ Goto(p, "launch") /\ UNCHANGED <<ledgerVars, crashes>>
  /\ UNCHANGED <<clock, restarts>>

crash(p) ==
  /\ proc[p].pc # "idle"
  /\ Dies(p)
  /\ UNCHANGED <<ledgerVars, clock, restarts>>

Step(p) ==
  \/ open(p) \/ snapshot(p) \/ scan_done(p) \/ next_launch(p)
  \/ \E t \in Task :
       \/ mark_stale(p, t) \/ recover_failed(p, t) \/ retry(p, t) \/ exhaust(p, t)
       \/ alerts_done(p, t)
       \/ \E c \in Channel : record_alerts(p, t, c)
       \/ \E w \in Worker : launch(p, t, w)

--------------------------------------------------------------------------------
(* The managers and the operators.                                         *)

tick ==
  /\ clock < MaxTime
  /\ clock' = clock + 1
  /\ UNCHANGED <<ledgerVars, proc, restarts, crashes>>

\* FleetManager: create a run, lease, heartbeat, drain and finish attempts, in
\* any order: module FleetManager has the order.
Managers ==
  /\ \/ \E r \in Run \ runs : create_run(r)
     \/ \E t \in Task : RunOf[t] \in runs /\ enqueue(t)
     \/ \E w \in Worker : heartbeat(w, clock)
     \/ \E t \in Task, w \in Worker :
          \/ \E k \in 1..(InitialEvents + 2) :
               lease_task_if_enqueued_with_events(t, w, MaxActive, NoTime, clock, k)
          \/ latest_seq[w][t] < MaxProgress
             /\ append_event_if_leased(t, w, tasks[t].attempts)
          \/ \E s \in {"Completed", "Failed"}, res \in Result :
               finalize_task_attempt_if_leased(t, w, tasks[t].attempts, s, NoStatus, res)
  /\ UNCHANGED schedVars

\* FleetManager::restart_worker, of any task the worker ran last; its own
\* snapshot and compare-and-set collapse, because only the unchanged case appends.
restart_worker(t, w) ==
  /\ restarts[t] < MaxRestarts
  /\ tasks[t].attempts > 0
  /\ restart_task_if_unchanged(t, w, tasks[t].status, tasks[t].attempts,
       latest_seq[w][t], heartbeats[w], NoTime, clock, 4)
  /\ restarts' = [restarts EXCEPT ![t] = @ + 1]
  /\ UNCHANGED <<clock, proc, crashes>>

\* interrupt_worker, stop_run, stop_all and cancel_run, task by task.
cancel(t) ==
  /\ cancel_task_if_active(t, NoWorker, 2)
  /\ UNCHANGED schedVars

SchedNext ==
  \/ \E p \in Proc : Step(p) \/ crash(p)
  \/ tick \/ Managers
  \/ \E t \in Task : cancel(t) \/ \E w \in Worker : restart_worker(t, w)

SchedSpec == SchedInit /\ [][SchedNext]_allVars

\* A scheduler process that has something to do does it, and operators resume
\* the run again and again.  Nothing in the program guarantees that: it is the
\* most an escalation could hope for, and only ResumeEscalates, which fails
\* even so, is checked with it.
FairSpec == SchedSpec /\ \A p \in Proc : WF_allVars(Step(p))

--------------------------------------------------------------------------------
(* Properties.                                                             *)

\* The retry budget holds over every interleaving of competing recoveries,
\* crashes and operator restarts: an attempt beyond it was asked for by an
\* operator (retry_or_fail with the attempt compared in the restart).
RetryBudget ==
  \A t \in Task :
    tasks[t].attempts <= (IF MaxAttempts = 0 THEN 1 ELSE MaxAttempts) + restarts[t]

\* An escalation is only ever recorded for an attempt that used the budget up.
EscalatesOnlyExhausted == \A a \in alerts : a[2] >= MaxAttempts

\* A lease is marked stale only when its worker has been silent for the
\* heartbeat timeout (reconcile_stale_leases: "a `Leased` task whose worker has
\* stopped heartbeating is marked stale").
StaleMeansSilent ==
  [][\A p \in Proc, t \in Task :
       mark_stale(p, t) /\ latest_seq' # latest_seq /\ heartbeats[tasks[t].leased_to] # NoTime
         => clock - heartbeats[tasks[t].leased_to] > HeartbeatTimeout]_allVars

Exhausted(t) ==
  RunOf[t] = Supervised /\ tasks[t].status = "Failed" /\ tasks[t].attempts >= MaxAttempts

\* A task whose last attempt resume_run failed, the budget being used up, is
\* escalated on every channel unless it is restarted first, whatever process
\* dies in between (docs/FLEET.md: resume reconciles a silent lease by
\* "failing and escalating per the alert policy", and is idempotent).
ResumeEscalates ==
  \A t \in Task, n \in 1..MaxLeases :
    (Exhausted(t) /\ tasks[t].attempts = n /\ receipts[t].attempt # n) ~>
      ((\A c \in Channel : <<t, n, c>> \in alerts) \/ tasks[t].attempts # n)
================================================================================
