------------------------------ MODULE FleetLedger ------------------------------
(***************************************************************************)
(* The durable fleet ledger (crates/tui/src/fleet/ledger.rs) as its        *)
(* callers see it: the state that replaying .codewhale/fleet.jsonl         *)
(* rebuilds, and one action per compare-and-set operation that appends to  *)
(* it.  Every operation holds the workspace write lock from the replay to  *)
(* the append, so it is one atomic step; a process that dies while it      *)
(* appends leaves a prefix of the operation's records, which is the        *)
(* parameter k of the operations that append more than one.  Module        *)
(* FleetLog models the file itself and is shown to implement this module.  *)
(*                                                                         *)
(* Next is the most general client: any caller, any expected version.  The *)
(* scheduler and the manager take their ledger steps from the same         *)
(* operators.                                                              *)
(***************************************************************************)
EXTENDS Integers, FiniteSets

CONSTANTS
  Run, Task, Worker, Channel,
  Result,         \* FleetTaskResult
  RunOf,          \* the run a task key (run_id:task_id) belongs to
  NoWorker,       \* leased_to = None
  InitialEvents,  \* lifecycle events appended with a fresh lease
  MaxActive,      \* max_active_for_run passed by the launcher
  MaxLeases,      \* bound: leases of one task
  MaxSeq,         \* bound: events of one worker and task
  MaxTime         \* bound: the clock

ASSUME LedgerAssumption ==
  /\ RunOf \in [Task -> Run]
  /\ NoWorker \notin Worker
  /\ InitialEvents \in Nat
  /\ MaxActive \in Nat
  /\ MaxLeases \in Nat
  /\ MaxSeq \in Nat
  /\ MaxTime \in Nat

VARIABLES
  tasks,       \* FleetLedgerState.tasks; "Absent" before TaskEnqueued
  latest_seq,  \* highest event sequence per worker and task, 0 before any
  heartbeats,  \* latest heartbeat per worker, 0 before any
  receipts,    \* latest receipt per task
  alerts,      \* delivered alerts, keyed by task, attempt and channel
  runs         \* runs whose RunCreated record is in the ledger

ledgerVars == <<tasks, latest_seq, heartbeats, receipts, alerts, runs>>

Terminal == {"Completed", "Failed", "Cancelled"}
TaskStatus == {"Absent", "Enqueued", "Leased"} \cup Terminal
Timestamp == 1..MaxTime

NoTime == 0       \* Option<String>::None, for a deadline or a heartbeat
NoReceipt == [worker_id |-> NoWorker, attempt |-> 0, terminal_seq |-> 0,
              result |-> "None"]
NoStatus == "None"  \* final_status = None

TaskState == [status : TaskStatus, leased_to : Worker \cup {NoWorker},
              attempts : Nat, lease_deadline : Nat]
Receipt == [worker_id : Worker \cup {NoWorker}, attempt : Nat,
            terminal_seq : Nat, result : Result \cup {"None"}]

Init ==
  /\ tasks = [t \in Task |-> [status |-> "Absent", leased_to |-> NoWorker,
                              attempts |-> 0, lease_deadline |-> NoTime]]
  /\ latest_seq = [w \in Worker |-> [t \in Task |-> 0]]
  /\ heartbeats = [w \in Worker |-> NoTime]
  /\ receipts = [t \in Task |-> NoReceipt]
  /\ alerts = {}
  /\ runs = {}

--------------------------------------------------------------------------------
(* Effects of the records, as apply_record folds them into the state.      *)

IsLeased(t) == tasks[t].status = "Leased"

HoldsLease(w) == \E t \in Task : IsLeased(t) /\ tasks[t].leased_to = w

ActiveTasks(r) == {t \in Task : RunOf[t] = r /\ IsLeased(t)}

OwnsAttempt(t, w, n) ==
  IsLeased(t) /\ tasks[t].leased_to = w /\ tasks[t].attempts = n

VersionUnchanged(t, w, n, s, h) ==
  /\ tasks[t].leased_to = w
  /\ tasks[t].attempts = n
  /\ latest_seq[w][t] = s
  /\ heartbeats[w] = h

\* The conditions of the compare-and-set operations: each returns false, and
\* appends nothing, when its condition does not hold.
CanLease(t, w, max_active) ==
  /\ tasks[t].status = "Enqueued"
  /\ ~ HoldsLease(w)
  /\ Cardinality(ActiveTasks(RunOf[t])) < max_active

LeaseUnchanged(t, w, n, s, h) == IsLeased(t) /\ VersionUnchanged(t, w, n, s, h)

CanRestart(t, w, st, n, s, h) ==
  /\ tasks[t].status = st
  /\ VersionUnchanged(t, w, n, s, h)
  /\ \A u \in Task \ {t} : ~ (IsLeased(u) /\ tasks[u].leased_to = w)

CanAlert(t, w, n, c) ==
  /\ tasks[t].status = "Failed"
  /\ tasks[t].leased_to = w
  /\ tasks[t].attempts = n
  /\ <<t, n, c>> \notin alerts

\* TaskLeased: a new attempt, whatever the task's status was.
TaskLeased(t, w, d) ==
  /\ tasks[t].attempts < MaxLeases
  /\ tasks' = [tasks EXCEPT ![t] =
       [status |-> "Leased", leased_to |-> w,
        attempts |-> tasks[t].attempts + 1, lease_deadline |-> d]]

\* n events appended for w and t, with consecutive fresh sequence numbers.
EventsAppended(t, w, n) ==
  /\ latest_seq[w][t] + n <= MaxSeq
  /\ latest_seq' = [latest_seq EXCEPT ![w][t] = @ + n]

\* A terminal payload or a TaskCompletedOrFailed record.
mark_task_terminal(t, s) == tasks' = [tasks EXCEPT ![t].status = s]

HeartbeatAt(w, ts) == heartbeats' = [heartbeats EXCEPT ![w] = ts]

--------------------------------------------------------------------------------
(* Operations.                                                             *)

create_run(r) ==
  /\ runs' = runs \cup {r}
  /\ UNCHANGED <<tasks, latest_seq, heartbeats, receipts, alerts>>

\* Once per task key: replay keeps the first TaskEnqueued record of a key.
enqueue(t) ==
  /\ tasks[t].status = "Absent"
  /\ tasks' = [tasks EXCEPT ![t].status = "Enqueued"]
  /\ UNCHANGED <<latest_seq, heartbeats, receipts, alerts, runs>>

\* Lease, initial events, heartbeat: InitialEvents + 2 records, k of them kept.
lease_task_if_enqueued_with_events(t, w, max_active, d, ts, k) ==
  /\ CanLease(t, w, max_active)
  /\ TaskLeased(t, w, d)
  /\ EventsAppended(t, w, IF k - 1 < InitialEvents THEN k - 1 ELSE InitialEvents)
  /\ IF k = InitialEvents + 2 THEN HeartbeatAt(w, ts) ELSE UNCHANGED heartbeats
  /\ UNCHANGED <<receipts, alerts, runs>>

\* Mutant: the task is claimed whatever its status.
claim_any(t, w) ==
  /\ ~ HoldsLease(w)
  /\ tasks[t].status # "Absent"
  /\ TaskLeased(t, w, NoTime)
  /\ UNCHANGED <<latest_seq, heartbeats, receipts, alerts, runs>>

\* The lease alone, with no capacity check, for whichever queued task comes
\* first by priority and age.
claim_next(t, w) ==
  /\ ~ HoldsLease(w)
  /\ tasks[t].status = "Enqueued"
  /\ TaskLeased(t, w, NoTime)
  /\ UNCHANGED <<latest_seq, heartbeats, receipts, alerts, runs>>

append_event_if_leased(t, w, n) ==
  /\ OwnsAttempt(t, w, n)
  /\ EventsAppended(t, w, 1)
  /\ UNCHANGED <<tasks, heartbeats, receipts, alerts, runs>>

append_event_if_lease_unchanged(t, w, n, s, h) ==
  /\ LeaseUnchanged(t, w, n, s, h)
  /\ EventsAppended(t, w, 1)
  /\ UNCHANGED <<tasks, heartbeats, receipts, alerts, runs>>

\* Mutants: the attempt is not compared; the receipt is left to a later record.
finalize_any_attempt(t, w, n, payload, final_status, result) ==
  /\ IsLeased(t) /\ tasks[t].leased_to = w
  /\ EventsAppended(t, w, 1)
  /\ mark_task_terminal(t, payload)
  /\ receipts' = [receipts EXCEPT ![t] =
       [worker_id |-> w, attempt |-> n,
        terminal_seq |-> latest_seq[w][t] + 1, result |-> result]]
  /\ UNCHANGED <<heartbeats, alerts, runs>>

finalize_receipt_later(t, w, n, payload, final_status, result) ==
  /\ OwnsAttempt(t, w, n)
  /\ EventsAppended(t, w, 1)
  /\ mark_task_terminal(t, IF final_status = NoStatus THEN payload ELSE final_status)
  /\ UNCHANGED <<heartbeats, receipts, alerts, runs>>

\* One TaskAttemptFinalized record: terminal event, override and receipt.
finalize_task_attempt_if_leased(t, w, n, payload, final_status, result) ==
  /\ OwnsAttempt(t, w, n)
  /\ EventsAppended(t, w, 1)
  /\ mark_task_terminal(t, IF final_status = NoStatus THEN payload ELSE final_status)
  /\ receipts' = [receipts EXCEPT ![t] =
       [worker_id |-> w, attempt |-> n,
        terminal_seq |-> latest_seq[w][t] + 1, result |-> result]]
  /\ UNCHANGED <<heartbeats, alerts, runs>>

append_terminal_event_if_lease_unchanged(t, w, n, s, h, payload) ==
  /\ LeaseUnchanged(t, w, n, s, h)
  /\ EventsAppended(t, w, 1)
  /\ mark_task_terminal(t, payload)
  /\ UNCHANGED <<heartbeats, receipts, alerts, runs>>

\* Mutant: the worker's other leases are not looked at.
restart_busy_worker(t, w, st, n, s, h, d, ts, k) ==
  /\ tasks[t].status = st
  /\ VersionUnchanged(t, w, n, s, h)
  /\ TaskLeased(t, w, d)
  /\ EventsAppended(t, w, IF k < 3 THEN k - 1 ELSE 2)
  /\ IF k = 4 THEN HeartbeatAt(w, ts) ELSE UNCHANGED heartbeats
  /\ UNCHANGED <<receipts, alerts, runs>>

\* Lease, Restarted, Running, Heartbeat: four records, k of them kept.
restart_task_if_unchanged(t, w, st, n, s, h, d, ts, k) ==
  /\ CanRestart(t, w, st, n, s, h)
  /\ TaskLeased(t, w, d)
  /\ EventsAppended(t, w, IF k < 3 THEN k - 1 ELSE 2)
  /\ IF k = 4 THEN HeartbeatAt(w, ts) ELSE UNCHANGED heartbeats
  /\ UNCHANGED <<receipts, alerts, runs>>

\* Mutant: a task that is already over is cancelled.
cancel_terminal(t, expected, k) ==
  /\ tasks[t].status # "Absent"
  /\ expected = NoWorker
  /\ mark_task_terminal(t, "Cancelled")
  /\ UNCHANGED <<latest_seq, heartbeats, receipts, alerts, runs>>

\* Interrupted, Cancelled for a leased task; one terminal record for a queued
\* one.  expected = NoWorker is a run-wide cancellation.
cancel_task_if_active(t, expected, k) ==
  /\ tasks[t].status \in {"Enqueued", "Leased"}
  /\ expected # NoWorker => IsLeased(t) /\ tasks[t].leased_to = expected
  /\ \/ /\ tasks[t].leased_to # NoWorker
        /\ EventsAppended(t, tasks[t].leased_to, k)
        /\ IF k = 2 THEN mark_task_terminal(t, "Cancelled") ELSE UNCHANGED tasks
     \/ /\ tasks[t].leased_to = NoWorker
        /\ mark_task_terminal(t, "Cancelled")
        /\ UNCHANGED latest_seq
  /\ UNCHANGED <<heartbeats, receipts, alerts, runs>>

heartbeat(w, ts) ==
  /\ HeartbeatAt(w, ts)
  /\ UNCHANGED <<tasks, latest_seq, receipts, alerts, runs>>

\* Mutant: the task's status is not looked at.
alert_any_status(t, w, n, c) ==
  /\ tasks[t].leased_to = w
  /\ tasks[t].attempts = n
  /\ <<t, n, c>> \notin alerts
  /\ EventsAppended(t, w, 1)
  /\ alerts' = alerts \cup {<<t, n, c>>}
  /\ UNCHANGED <<tasks, heartbeats, receipts, runs>>

record_failed_attempt_alert_once(t, w, n, c) ==
  /\ CanAlert(t, w, n, c)
  /\ EventsAppended(t, w, 1)
  /\ alerts' = alerts \cup {<<t, n, c>>}
  /\ UNCHANGED <<tasks, heartbeats, receipts, runs>>

--------------------------------------------------------------------------------
Manage ==
  \/ \E r \in Run : create_run(r)
  \/ \E t \in Task : RunOf[t] \in runs /\ enqueue(t)
  \/ \E t \in Task, e \in Worker \cup {NoWorker}, k \in 1..2 :
       cancel_task_if_active(t, e, k)

Work(t, w) ==
  \/ \E d \in 0..MaxTime, ts \in Timestamp, k \in 1..(InitialEvents + 2) :
       lease_task_if_enqueued_with_events(t, w, MaxActive, d, ts, k)
  \/ claim_next(t, w)
  \/ \E n \in 1..MaxLeases : append_event_if_leased(t, w, n)
  \/ \E n \in 1..MaxLeases, p \in Terminal, f \in Terminal \cup {NoStatus},
        res \in Result : finalize_task_attempt_if_leased(t, w, n, p, f, res)

Recover(t, w) ==
  \/ \E n \in 1..MaxLeases, s \in 0..MaxSeq, h \in 0..MaxTime :
       \/ append_event_if_lease_unchanged(t, w, n, s, h)
       \/ append_terminal_event_if_lease_unchanged(t, w, n, s, h, "Failed")
       \/ \E st \in TaskStatus, d \in 0..MaxTime, ts \in Timestamp, k \in 1..4 :
            restart_task_if_unchanged(t, w, st, n, s, h, d, ts, k)
  \/ \E n \in 1..MaxLeases, c \in Channel : record_failed_attempt_alert_once(t, w, n, c)

Next ==
  \/ Manage
  \/ \E t \in Task, w \in Worker : Work(t, w) \/ Recover(t, w)
  \/ \E w \in Worker, ts \in Timestamp : heartbeat(w, ts)

Spec == Init /\ [][Next]_ledgerVars

--------------------------------------------------------------------------------
(* Properties.                                                             *)

\* The replayed state has the shape of FleetLedgerState.
TypeOK ==
  /\ tasks \in [Task -> TaskState]
  /\ latest_seq \in [Worker -> [Task -> Nat]]
  /\ heartbeats \in [Worker -> Nat]
  /\ receipts \in [Task -> Receipt]
  /\ alerts \subseteq Task \X Nat \X Channel
  /\ runs \subseteq Run

\* A logical worker holds at most one live lease, over every run of the
\* workspace: the eligibility check of the lease and restart transactions.
OneLeasePerWorker ==
  \A t, u \in Task :
    IsLeased(t) /\ IsLeased(u) /\ tasks[t].leased_to = tasks[u].leased_to => t = u

\* A task that was ever leased names its last worker; one that was not has no
\* attempt: the link cancel_task_if_active relies on when it asks leased_to
\* instead of the status whether a worker must be told.
LeaseShape ==
  \A t \in Task :
    /\ tasks[t].attempts = 0 <=> tasks[t].leased_to = NoWorker
    /\ tasks[t].status \in {"Absent", "Enqueued"} => tasks[t].attempts = 0
    /\ tasks[t].status \in {"Leased", "Completed", "Failed"} => tasks[t].attempts > 0

\* A receipt belongs to an attempt that was made and to an event that was
\* written; the receipt of the latest attempt exists only once that attempt is
\* over, so a live attempt never shows its predecessor's evidence as its own.
ReceiptFenced ==
  \A t \in Task : LET rc == receipts[t] IN
    rc.attempt # 0 =>
      /\ rc.worker_id \in Worker
      /\ rc.attempt <= tasks[t].attempts
      /\ rc.attempt = tasks[t].attempts => tasks[t].status \in Terminal
      /\ rc.terminal_seq \in 1..latest_seq[rc.worker_id][t]

\* A completed task always carries the receipt of the attempt that completed
\* it: the crash-atomicity TaskAttemptFinalized exists for.
CompletedHasReceipt ==
  \A t \in Task :
    tasks[t].status = "Completed" =>
      receipts[t].attempt = tasks[t].attempts /\ receipts[t].worker_id = tasks[t].leased_to

\* An alert names an attempt that was made; while that attempt is the latest,
\* the task is failed: no alert is raised for live or recovered work.
AlertFenced ==
  \A a \in alerts :
    /\ a[2] \in 1..tasks[a[1]].attempts
    /\ a[2] = tasks[a[1]].attempts => tasks[a[1]].status = "Failed"

\* The first terminal transition of an attempt wins: afterwards nothing about
\* the task or its receipt changes until a new attempt is leased, and then to
\* the worker that ran the last one.
TerminalAttemptIsFinal ==
  [][\A t \in Task :
       tasks[t].status \in Terminal =>
         \/ tasks'[t] = tasks[t] /\ receipts'[t] = receipts[t]
         \/ /\ tasks'[t].status = "Leased"
            /\ tasks'[t].attempts = tasks[t].attempts + 1
            /\ tasks'[t].leased_to = tasks[t].leased_to]_ledgerVars

--------------------------------------------------------------------------------
(* The refinement mapping to the lease specification.                      *)

HeldBy(w) == {t \in Task : IsLeased(t) /\ tasks[t].leased_to = w}

VerdictOn(t) ==
  CASE tasks[t].status = "Absent" -> "Unknown"
    [] tasks[t].status \in {"Enqueued", "Leased"} -> "Open"
    [] OTHER -> tasks[t].status

Lease == INSTANCE FleetLease WITH
  holding <- [w \in Worker |-> HeldBy(w)],
  attempt <- [t \in Task |-> tasks[t].attempts],
  verdict <- [t \in Task |-> VerdictOn(t)],
  last <- [t \in Task |-> tasks[t].leased_to]

\* Every ledger transaction, whole or torn by a crash, is a step of the lease
\* specification or changes nothing it speaks of.
ImplementsLease == Lease!Spec

================================================================================
