-------------------------- MODULE FleetSchedulerProofs --------------------------
(***************************************************************************)
(* Proofs about FleetScheduler for every set of processes, tasks, workers  *)
(* and channels, every policy and every bound.                             *)
(*                                                                         *)
(* The argument: everything that a scheduler process, a manager or an      *)
(* operator does to the ledger is one of the transactions of FleetLedger   *)
(* (SchedStepIsStep), so the ledger's invariant holds here; a process      *)
(* keeps its own record in order (StepBecomes); and an attempt is only     *)
(* made by a lease of a task with budget left or by a counted operator     *)
(* restart (StepBudget, OthersBudget).                                     *)
(***************************************************************************)
EXTENDS FleetScheduler, FleetLedgerProofs

\* The versions that a snapshot holds, and the record of a process.
Seen == [status : {"Leased", "Failed"}, worker : Worker, attempts : Nat, seq : Nat, heartbeat : Nat]
Snapshot == UNION {[S -> Seen] : S \in SUBSET Task}
ProcPc == {"idle", "recover", "scan", "decide", "alert", "launch", "start"}
ProcRecord == [pc : ProcPc, now : 0..MaxTime, snap : Snapshot, task : SUBSET Task,
               worker : SUBSET Worker, channels : SUBSET Channel]

\* The clock, the processes and the counters have the types of the model.
SchedTypeOK ==
  /\ clock \in Timestamp
  /\ proc \in [Proc -> ProcRecord]
  /\ restarts \in [Task -> Nat]
  /\ crashes \in Nat

\* What a process is busy with is in its snapshot; it escalates what used its budget up.
Deciding ==
  \A p \in Proc :
    /\ proc[p].pc # "idle" => proc[p].now \in Timestamp
    /\ \A t, u \in proc[p].task : t = u
    /\ proc[p].pc \in {"decide", "alert"} => proc[p].task \subseteq DOMAIN proc[p].snap
    /\ proc[p].pc = "alert" => \A t \in proc[p].task : proc[p].snap[t].attempts >= MaxAttempts

\* The inductive invariant: the budget needs the ledger's invariant for the first
\* attempt of a queued task, and Deciding for what an escalation compared.
SInv ==
  /\ IInv /\ SchedTypeOK /\ Bounded /\ Deciding
  /\ RetryBudget /\ EscalatesOnlyExhausted

\* An idle process has the type of a process.
LEMMA IdleType == Idle \in ProcRecord
<1>1. <<>> \in Snapshot
  <2>1. <<>> \in [{} -> Seen]
    OBVIOUS
  <2> QED
    BY <2>1 DEF Snapshot
<1> QED
  BY <1>1, LedgerAssumption DEF Idle, ProcRecord, ProcPc

\* A snapshot maps tasks to versions, also when entries are dropped or advance.
LEMMA Snapshots ==
  ASSUME NEW s \in Snapshot
  PROVE  /\ DOMAIN s \subseteq Task /\ \A t \in DOMAIN s : s[t] \in Seen
         /\ \A t : [u \in DOMAIN s \ {t} |-> s[u]] \in Snapshot
         /\ \A t \in DOMAIN s : [s EXCEPT ![t].seq = @ + 1] \in Snapshot
<1>1. PICK S \in SUBSET Task : s \in [S -> Seen]
  BY DEF Snapshot
<1>2. ASSUME NEW t PROVE [u \in DOMAIN s \ {t} |-> s[u]] \in Snapshot
  <2>1. DOMAIN s \ {t} \in SUBSET Task /\ [u \in DOMAIN s \ {t} |-> s[u]] \in [DOMAIN s \ {t} -> Seen]
    BY <1>1
  <2> QED
    BY <2>1 DEF Snapshot
<1>3. ASSUME NEW t \in DOMAIN s PROVE [s EXCEPT ![t].seq = @ + 1] \in Snapshot
  <2>1. [s EXCEPT ![t].seq = @ + 1] \in [S -> Seen]
    BY <1>1 DEF Seen
  <2> QED
    BY <2>1 DEF Snapshot
<1> QED
  BY <1>1, <1>2, <1>3

--------------------------------------------------------------------------------
(* The steps are ledger transactions.                                      *)

\* The deadline of a new lease is one that the ledger knows.
LEMMA DeadlineKnown ==
  ASSUME NEW now \in 0..MaxTime PROVE lease_expires_at(now) \in 0..MaxTime
BY SchedulerAssumption, LedgerAssumption DEF lease_expires_at

\* A snapshot entry names a worker.
LEMMA EntryKnown ==
  ASSUME SchedTypeOK, NEW p \in Proc, NEW t \in DOMAIN proc[p].snap
  PROVE  /\ t \in Task /\ proc[p].snap[t].worker \in Worker
         /\ proc[p].snap[t].status \in {"Leased", "Failed"}
         /\ proc[p].snap[t].attempts \in Nat
<1>1. proc[p].snap \in Snapshot
  BY DEF SchedTypeOK, ProcRecord
<1> QED
  BY <1>1, Snapshots DEF Seen

\* Everything that a scheduler process does to the ledger is a ledger transaction.
LEMMA StepIsStep ==
  ASSUME IInv, SchedTypeOK, Bounded, Deciding, NEW p \in Proc, Step(p) \/ crash(p)
  PROVE  [Next]_ledgerVars
<1> DEFINE Goal == [Next]_ledgerVars
<1>a. proc[p].now \in 0..MaxTime /\ (proc[p].pc # "idle" => proc[p].now \in Timestamp)
  BY DEF SchedTypeOK, ProcRecord, Deciding
<1>b. lease_expires_at(proc[p].now) \in 0..MaxTime
  BY <1>a, DeadlineKnown
<1>1. CASE UNCHANGED ledgerVars
  BY <1>1
<1>2. ASSUME NEW t \in Task, mark_stale(p, t) PROVE Goal
  <2> DEFINE v == proc[p].snap[t]
  <2>1. CASE append_event_if_lease_unchanged(t, v.worker, v.attempts, v.seq, v.heartbeat)
    <3>1. v.worker \in Worker
      BY <1>2, EntryKnown DEF mark_stale
    <3>2. v.attempts \in 1..MaxLeases /\ v.seq \in 0..MaxSeq /\ v.heartbeat \in 0..MaxTime
      BY <2>1, <3>1, VersionKnown DEF append_event_if_lease_unchanged, LeaseUnchanged
    <3> QED
      BY <2>1, <3>1, <3>2 DEF Next, Recover
  <2> QED
    BY <1>2, <2>1 DEF mark_stale
<1>3. ASSUME NEW t \in Task, retry(p, t) PROVE Goal
  <2> DEFINE v == proc[p].snap[t]
  <2>1. ASSUME NEW k \in 1..4,
               restart_task_if_unchanged(t, v.worker, v.status, v.attempts, v.seq, v.heartbeat,
                 lease_expires_at(proc[p].now), proc[p].now, k)
        PROVE  Goal
    <3>1. t \in DOMAIN proc[p].snap
      BY <1>3 DEF retry, Deciding
    <3>2. v.worker \in Worker /\ v.status \in TaskStatus
      BY <3>1, EntryKnown DEF TaskStatus, Terminal
    <3>3. proc[p].now \in Timestamp
      BY <1>3, <1>a DEF retry
    <3> HIDE DEF v
    <3> QED
      BY <1>b, <2>1, <3>2, <3>3, RestartIsStep
  <2> QED
    BY <1>3, <2>1 DEF retry
<1>4. ASSUME NEW t \in Task, exhaust(p, t) PROVE Goal
  <2> DEFINE v == proc[p].snap[t]
  <2>1. CASE append_terminal_event_if_lease_unchanged(
               t, v.worker, v.attempts, v.seq, v.heartbeat, "Failed")
    <3>1. t \in DOMAIN proc[p].snap
      BY <1>4 DEF exhaust, Deciding
    <3>2. v.worker \in Worker
      BY <3>1, EntryKnown
    <3>3. v.attempts \in 1..MaxLeases /\ v.seq \in 0..MaxSeq /\ v.heartbeat \in 0..MaxTime
      BY <2>1, <3>2, VersionKnown DEF append_terminal_event_if_lease_unchanged, LeaseUnchanged
    <3> QED
      BY <2>1, <3>2, <3>3 DEF Next, Recover
  <2> QED
    BY <1>4, <2>1 DEF exhaust
<1>5. ASSUME NEW t \in Task, NEW c \in Channel, record_alerts(p, t, c) PROVE Goal
  <2> DEFINE v == proc[p].snap[t]
  <2>1. CASE record_failed_attempt_alert_once(t, v.worker, v.attempts, c)
    <3>1. t \in DOMAIN proc[p].snap
      BY <1>5 DEF record_alerts, Deciding
    <3>2. v.worker \in Worker
      BY <3>1, EntryKnown
    <3>3. v.attempts \in 1..MaxLeases
      BY <2>1, <3>2, LedgerAssumption DEF IInv, TypeOK, TaskState, LeaseShape, Bounded,
         record_failed_attempt_alert_once, CanAlert
    <3> QED
      BY <2>1, <3>2, <3>3 DEF Next, Recover
  <2> QED
    BY <1>5, <2>1 DEF record_alerts
<1>6. ASSUME NEW t \in Task, NEW w \in Worker, launch(p, t, w) PROVE Goal
  <2>1. ASSUME NEW k \in 1..(InitialEvents + 2),
               lease_task_if_enqueued_with_events(t, w, MaxActive,
                 lease_expires_at(proc[p].now), proc[p].now, k)
        PROVE  Goal
    <3>1. proc[p].now \in Timestamp
      BY <1>6, <1>a DEF launch
    <3> QED
      BY <1>b, <2>1, <3>1 DEF Next, Work
  <2> QED
    BY <1>6, <2>1 DEF launch
<1> QED
  BY <1>1, <1>2, <1>3, <1>4, <1>5, <1>6 DEF Step, open, snapshot, scan_done, next_launch,
     recover_failed, alerts_done, crash

\* The managers and the operators.
LEMMA OthersAreSteps ==
  ASSUME IInv, SchedTypeOK, Bounded,
         \/ tick \/ Managers
         \/ \E t \in Task : cancel(t) \/ \E w \in Worker : restart_worker(t, w)
  PROVE  [Next]_ledgerVars
<1>0. clock \in Timestamp /\ NoTime \in 0..MaxTime
  BY LedgerAssumption DEF SchedTypeOK, NoTime
<1>1. CASE tick
  BY <1>1 DEF tick
<1>2. CASE Managers
  <2>1. CASE \E r \in Run \ runs : create_run(r)
    BY <2>1 DEF Next, Manage
  <2>2. CASE \E t \in Task : RunOf[t] \in runs /\ enqueue(t)
    BY <2>2 DEF Next, Manage
  <2>3. CASE \E w \in Worker : heartbeat(w, clock)
    BY <1>0, <2>3 DEF Next
  <2>4. ASSUME NEW t \in Task, NEW w \in Worker, NEW k \in 1..(InitialEvents + 2),
               lease_task_if_enqueued_with_events(t, w, MaxActive, NoTime, clock, k)
        PROVE  Next
    BY <1>0, <2>4 DEF Next, Work
  <2>5. ASSUME NEW t \in Task, NEW w \in Worker, append_event_if_leased(t, w, tasks[t].attempts) PROVE Next
    <3>1. tasks[t].attempts \in 1..MaxLeases
      BY <2>5, OwnedAttempt DEF append_event_if_leased
    <3> QED
      BY <2>5, <3>1 DEF Next, Work
  <2>6. ASSUME NEW t \in Task, NEW w \in Worker, NEW s \in {"Completed", "Failed"}, NEW res \in Result,
               finalize_task_attempt_if_leased(t, w, tasks[t].attempts, s, NoStatus, res)
        PROVE  Next
    <3>1. tasks[t].attempts \in 1..MaxLeases
      BY <2>6, OwnedAttempt DEF finalize_task_attempt_if_leased
    <3>2. s \in Terminal /\ NoStatus \in Terminal \cup {NoStatus}
      BY DEF Terminal
    <3> QED
      BY <2>6, <3>1, <3>2 DEF Next, Work
  <2> QED
    BY <1>2, <2>1, <2>2, <2>3, <2>4, <2>5, <2>6 DEF Managers
<1>3. ASSUME NEW t \in Task, cancel(t) PROVE Next
  BY <1>3 DEF cancel, Next, Manage
<1>4. ASSUME NEW t \in Task, NEW w \in Worker, restart_worker(t, w) PROVE Next
  <2>1. tasks[t].status \in TaskStatus
    BY DEF IInv, TypeOK, TaskState
  <2> QED
    BY <1>0, <1>4, <2>1, RestartIsStep DEF restart_worker
<1> QED
  BY <1>1, <1>2, <1>3, <1>4

--------------------------------------------------------------------------------
(* A process keeps its record in order.                                    *)

\* Deciding, of one record, and the step that gives a process such a record.
RecordOK(r) ==
  /\ r.pc # "idle" => r.now \in Timestamp
  /\ \A t, u \in r.task : t = u
  /\ r.pc \in {"decide", "alert"} => r.task \subseteq DOMAIN r.snap
  /\ r.pc = "alert" => \A t \in r.task : r.snap[t].attempts >= MaxAttempts

Becomes(p, r) == r \in ProcRecord /\ RecordOK(r) /\ proc' = [proc EXCEPT ![p] = r]

\* The program counters are known, without their set being spelled out again.
LEMMA PcKnown ==
  /\ "idle" \in ProcPc /\ "recover" \in ProcPc /\ "scan" \in ProcPc /\ "decide" \in ProcPc
  /\ "alert" \in ProcPc /\ "launch" \in ProcPc /\ "start" \in ProcPc
BY DEF ProcPc

\* An idle process is in order.
LEMMA IdleOK == RecordOK(Idle)
BY DEF RecordOK, Idle

\* A record put together from typed fields is the record of a process.
LEMMA RecordTyped ==
  ASSUME NEW r \in ProcRecord, NEW pc \in ProcPc, NEW s \in Snapshot, NEW ts \in SUBSET Task,
         NEW ws \in SUBSET Worker, NEW cs \in SUBSET Channel
  PROVE  [pc |-> pc, now |-> r.now, snap |-> s, task |-> ts, worker |-> ws, channels |-> cs]
           \in ProcRecord
BY DEF ProcRecord

\* And the record of a process is put together from its fields.
LEMMA Fields ==
  ASSUME NEW r \in ProcRecord
  PROVE  /\ r = [pc |-> r.pc, now |-> r.now, snap |-> r.snap, task |-> r.task,
                 worker |-> r.worker, channels |-> r.channels]
         /\ r.pc \in ProcPc /\ r.now \in 0..MaxTime /\ r.snap \in Snapshot
         /\ r.task \in SUBSET Task /\ r.worker \in SUBSET Worker /\ r.channels \in SUBSET Channel
BY DEF ProcRecord

\* A process that goes on with the rest of its snapshot.
LEMMA DropBecomes ==
  ASSUME SchedTypeOK, Deciding, NEW p \in Proc, NEW t, proc[p].pc # "idle", Drop(p, t)
  PROVE  \E r : Becomes(p, r)
<1> DEFINE s == [u \in DOMAIN proc[p].snap \ {t} |-> proc[p].snap[u]]
           r == [pc |-> "scan", now |-> proc[p].now, snap |-> s, task |-> {},
                 worker |-> proc[p].worker, channels |-> {}]
<1>1. proc[p] \in ProcRecord /\ proc[p].now \in Timestamp
  BY DEF SchedTypeOK, Deciding
<1>2. s \in Snapshot
  BY <1>1, Fields, Snapshots
<1>3. proc' = [proc EXCEPT ![p] = r]
  <2>1. proc[p] = [pc |-> proc[p].pc, now |-> proc[p].now, snap |-> proc[p].snap, task |-> proc[p].task,
                 worker |-> proc[p].worker, channels |-> proc[p].channels]
    BY <1>1, Fields
  <2>2. proc'[p] = r
    BY <2>1 DEF Drop, SchedTypeOK
  <2>3. proc' = [proc EXCEPT ![p] = proc'[p]]
    BY DEF Drop, SchedTypeOK
  <2> QED
    BY <2>2, <2>3
<1> HIDE DEF s
<1>4. r \in ProcRecord
  BY <1>1, <1>2, Fields, PcKnown, RecordTyped
<1>5. RecordOK(r)
  BY <1>1 DEF RecordOK
<1> QED
  BY <1>3, <1>4, <1>5 DEF Becomes

\* A process that dies is idle.
LEMMA DiesBecomes ==
  ASSUME SchedTypeOK, NEW p \in Proc, Dies(p)
  PROVE  \E r : Becomes(p, r)
BY IdleType, IdleOK DEF Dies, Becomes

\* Only the program counter moves, to one that says nothing of the task.
LEMMA GotoBecomes ==
  ASSUME SchedTypeOK, Deciding, NEW p \in Proc, proc[p].pc # "idle", Goto(p, "launch")
  PROVE  \E r : Becomes(p, r)
<1> DEFINE r == [proc[p] EXCEPT !.pc = "launch"]
<1>1. /\ proc[p] \in ProcRecord /\ proc[p].now \in Timestamp
      /\ \A t, u \in proc[p].task : t = u
  BY DEF SchedTypeOK, Deciding
<1>2. proc' = [proc EXCEPT ![p] = r]
  BY DEF Goto, SchedTypeOK
<1>3. r \in ProcRecord
  BY <1>1, PcKnown DEF ProcRecord
<1>4. RecordOK(r)
  BY <1>1 DEF RecordOK, ProcRecord
<1> QED
  BY <1>2, <1>3, <1>4 DEF Becomes

\* The versions that a snapshot reads.
LEMMA VersionTyped ==
  ASSUME IInv, NEW p \in Proc
  PROVE  [t \in Unhealthy(p) |-> Version(t)] \in Snapshot
<1> DEFINE U == Unhealthy(p)
<1>1. U \in SUBSET Task
  BY DEF Unhealthy
<1>2. ASSUME NEW t \in U PROVE Version(t) \in Seen
  <2>1. t \in Task /\ tasks[t].status \in {"Leased", "Failed"}
    BY <1>2 DEF Unhealthy, IsLeased
  <2>2. tasks[t].leased_to \in Worker /\ tasks[t].leased_to # NoWorker /\ tasks[t].attempts \in Nat
    BY <2>1, LedgerAssumption DEF IInv, TypeOK, TaskState, LeaseShape
  <2>3. latest_seq[tasks[t].leased_to][t] \in Nat /\ heartbeats[tasks[t].leased_to] \in Nat
    BY <2>1, <2>2 DEF IInv, TypeOK
  <2> QED
    BY <2>1, <2>2, <2>3 DEF Version, Seen
<1> HIDE DEF U
<1>3. [t \in U |-> Version(t)] \in [U -> Seen]
  BY <1>2
<1> QED
  BY <1>1, <1>3 DEF Snapshot, U

\* The steps of a scheduler process keep its record in order.
LEMMA MarkStaleBecomes ==
  ASSUME SchedTypeOK, Deciding, NEW p \in Proc, NEW t \in Task, mark_stale(p, t)
  PROVE  \E r : Becomes(p, r)
<1> DEFINE s == [proc[p].snap EXCEPT ![t].seq = @ + 1]
           r == [proc[p] EXCEPT !.pc = "decide", !.task = {t}, !.snap = s]
<1>1. proc[p] \in ProcRecord /\ proc[p].pc = "scan" /\ t \in DOMAIN proc[p].snap
      /\ proc[p].now \in Timestamp
  BY DEF SchedTypeOK, Deciding, mark_stale
<1>2. CASE proc' = [proc EXCEPT ![p].pc = "decide", ![p].task = {t}, ![p].snap[t].seq = @ + 1]
  <2>1. s \in Snapshot /\ DOMAIN s = DOMAIN proc[p].snap
    BY <1>1, Fields, Snapshots
  <2>2. proc' = [proc EXCEPT ![p] = r]
    BY <1>2 DEF SchedTypeOK
  <2> HIDE DEF s
  <2>3. r \in ProcRecord
    BY <1>1, <2>1, PcKnown DEF ProcRecord
  <2>4. RecordOK(r)
    BY <1>1, <2>1 DEF RecordOK, ProcRecord
  <2> HIDE DEF r
  <2> QED
    BY <2>2, <2>3, <2>4 DEF Becomes
<1>3. CASE Drop(p, t)
  BY <1>1, <1>3, DropBecomes
<1> QED
  BY <1>2, <1>3 DEF mark_stale

\* exhaust goes on to alert about the only task at hand, whose budget it compared.
LEMMA ExhaustBecomes ==
  ASSUME SchedTypeOK, Deciding, NEW p \in Proc, NEW t \in Task, exhaust(p, t)
  PROVE  \E r : Becomes(p, r)
<1> DEFINE r == [proc[p] EXCEPT !.pc = "alert", !.channels = Channel]
<1>1. proc[p] \in ProcRecord /\ proc[p].pc = "decide" /\ proc[p].now \in Timestamp
  BY DEF SchedTypeOK, Deciding, exhaust
<1>2. CASE proc' = [proc EXCEPT ![p].pc = "alert", ![p].channels = Channel]
  <2>1. proc' = [proc EXCEPT ![p] = r]
    BY <1>2 DEF SchedTypeOK
  <2>2. r \in ProcRecord
    BY <1>1, PcKnown DEF ProcRecord
  <2>3. proc[p].task \subseteq DOMAIN proc[p].snap
        /\ (\A u \in proc[p].task : proc[p].snap[u].attempts >= MaxAttempts)
        /\ (\A u, x \in proc[p].task : u = x)
    BY <1>1 DEF exhaust, Deciding
  <2>4. RecordOK(r)
    BY <1>1, <2>3 DEF RecordOK, ProcRecord
  <2> HIDE DEF r
  <2> QED
    BY <2>1, <2>2, <2>4 DEF Becomes
<1>3. CASE Drop(p, t)
  BY <1>1, <1>3, DropBecomes
<1> QED
  BY <1>2, <1>3 DEF exhaust

\* retry goes on with the snapshot, or dies inside its append.
LEMMA RetryBecomes ==
  ASSUME SchedTypeOK, Deciding, NEW p \in Proc, NEW t \in Task, retry(p, t)
  PROVE  \E r : Becomes(p, r)
<1>1. proc[p].pc # "idle"
  BY DEF retry
<1>2. Drop(p, t) \/ Dies(p)
  BY DEF retry
<1> QED
  BY <1>1, <1>2, DropBecomes, DiesBecomes

\* launch goes back to next_launch, or dies inside its append.
LEMMA LaunchBecomes ==
  ASSUME SchedTypeOK, Deciding, NEW p \in Proc, NEW t \in Task, NEW w \in Worker, launch(p, t, w)
  PROVE  \E r : Becomes(p, r)
<1>1. proc[p].pc # "idle"
  BY DEF launch
<1>2. Goto(p, "launch") \/ Dies(p)
  BY DEF launch
<1> QED
  BY <1>1, <1>2, GotoBecomes, DiesBecomes

\* recover_failed takes a task from the snapshot.
LEMMA RecoverFailedBecomes ==
  ASSUME SchedTypeOK, Deciding, NEW p \in Proc, NEW t \in Task, recover_failed(p, t)
  PROVE  \E r : Becomes(p, r)
<1> DEFINE r == [proc[p] EXCEPT !.pc = "decide", !.task = {t}]
<1>1. proc[p] \in ProcRecord /\ proc[p].pc = "scan" /\ t \in DOMAIN proc[p].snap
      /\ proc[p].now \in Timestamp
  BY DEF SchedTypeOK, Deciding, recover_failed
<1>2. proc' = [proc EXCEPT ![p] = r]
  BY DEF SchedTypeOK, recover_failed
<1>3. r \in ProcRecord
  BY <1>1, PcKnown DEF ProcRecord
<1>4. RecordOK(r)
  BY <1>1 DEF RecordOK, ProcRecord
<1> HIDE DEF r
<1> QED
  BY <1>2, <1>3, <1>4 DEF Becomes

\* record_alerts has one channel less to go.
LEMMA RecordAlertsBecomes ==
  ASSUME SchedTypeOK, Deciding, NEW p \in Proc, NEW t \in Task, NEW c \in Channel, record_alerts(p, t, c)
  PROVE  \E r : Becomes(p, r)
<1> DEFINE r == [proc[p] EXCEPT !.channels = @ \ {c}]
<1>1. proc[p] \in ProcRecord /\ RecordOK(proc[p])
  BY DEF SchedTypeOK, Deciding, RecordOK
<1>2. proc' = [proc EXCEPT ![p] = r]
  BY DEF SchedTypeOK, record_alerts
<1>3. r \in ProcRecord
  BY <1>1 DEF ProcRecord
<1>4. RecordOK(r)
  BY <1>1 DEF RecordOK, ProcRecord
<1> HIDE DEF r
<1> QED
  BY <1>2, <1>3, <1>4 DEF Becomes

\* open captures the clock.
LEMMA OpenBecomes ==
  ASSUME SchedTypeOK, NEW p \in Proc, open(p)
  PROVE  \E r : Becomes(p, r)
<1> DEFINE r == [Idle EXCEPT !.pc = "recover", !.now = clock]
<1>1. Idle \in ProcRecord /\ Idle.task = {}
  BY IdleType DEF Idle
<1>2. proc' = [proc EXCEPT ![p] = r]
  BY DEF open
<1>3. clock \in Timestamp /\ clock \in 0..MaxTime
  BY LedgerAssumption DEF SchedTypeOK, Timestamp
<1>4. r \in ProcRecord
  BY <1>1, <1>3, PcKnown DEF ProcRecord
<1>5. RecordOK(r)
  BY <1>1, <1>3 DEF RecordOK, ProcRecord
<1> HIDE DEF r
<1> QED
  BY <1>2, <1>4, <1>5 DEF Becomes

\* snapshot captures the versions of the unhealthy tasks.
LEMMA SnapshotBecomes ==
  ASSUME IInv, SchedTypeOK, Deciding, NEW p \in Proc, snapshot(p)
  PROVE  \E r : Becomes(p, r)
<1> DEFINE s == [t \in Unhealthy(p) |-> Version(t)]
           r == [proc[p] EXCEPT !.pc = "scan", !.snap = s]
<1>1. proc[p] \in ProcRecord /\ proc[p].now \in Timestamp /\ \A t, u \in proc[p].task : t = u
  BY DEF SchedTypeOK, Deciding, snapshot
<1>2. s \in Snapshot
  BY VersionTyped
<1>3. proc' = [proc EXCEPT ![p].pc = "scan", ![p].snap = s]
  BY DEF snapshot
<1> HIDE DEF s
<1>4. proc' = [proc EXCEPT ![p] = r]
  BY <1>3 DEF SchedTypeOK
<1>5. r \in ProcRecord
  BY <1>1, <1>2, PcKnown DEF ProcRecord
<1>6. RecordOK(r)
  BY <1>1 DEF RecordOK, ProcRecord
<1> HIDE DEF r
<1> QED
  BY <1>4, <1>5, <1>6 DEF Becomes

\* next_launch takes a task and a worker, or has nothing to launch.
LEMMA NextLaunchBecomes ==
  ASSUME SchedTypeOK, Deciding, NEW p \in Proc, next_launch(p)
  PROVE  \E r : Becomes(p, r)
<1>1. proc[p] \in ProcRecord /\ proc[p].now \in Timestamp
  BY DEF SchedTypeOK, Deciding, next_launch
<1>2. CASE proc' = [proc EXCEPT ![p] = Idle]
  BY <1>2, IdleType, IdleOK DEF Becomes
<1>3. ASSUME NEW x \in Launchable,
             proc' = [proc EXCEPT ![p].pc = "start", ![p].task = {x[1]}, ![p].worker = {x[2]}]
      PROVE  \E r : Becomes(p, r)
  <2> DEFINE r == [proc[p] EXCEPT !.pc = "start", !.task = {x[1]}, !.worker = {x[2]}]
  <2>1. x[1] \in Task /\ x[2] \in Worker
    BY DEF Launchable
  <2>2. proc' = [proc EXCEPT ![p] = r]
    BY <1>3 DEF SchedTypeOK
  <2>3. r \in ProcRecord
    BY <1>1, <2>1, PcKnown DEF ProcRecord
  <2>4. RecordOK(r)
    BY <1>1 DEF RecordOK, ProcRecord
  <2> HIDE DEF r
  <2> QED
    BY <2>2, <2>3, <2>4 DEF Becomes
<1> QED
  BY <1>2, <1>3 DEF next_launch

\* Every step of a scheduler process keeps its record in order.
LEMMA StepBecomes ==
  ASSUME IInv, SchedTypeOK, Deciding, NEW p \in Proc, Step(p) \/ crash(p)
  PROVE  \E r : Becomes(p, r)
<1> DEFINE Goal == \E r : Becomes(p, r)
<1> SUFFICES Goal
  OBVIOUS
<1>1. ASSUME scan_done(p) PROVE Goal
  <2>1. proc[p].pc # "idle" /\ (Goto(p, "launch") \/ proc' = [proc EXCEPT ![p] = Idle])
    BY <1>1 DEF scan_done
  <2> QED
    BY <2>1, GotoBecomes, IdleType, IdleOK DEF Becomes
<1>2. ASSUME NEW t \in Task, alerts_done(p, t) PROVE Goal
  <2>1. proc[p].pc # "idle" /\ Drop(p, t)
    BY <1>2 DEF alerts_done
  <2> QED
    BY <2>1, DropBecomes
<1>3. ASSUME crash(p) PROVE Goal
  BY <1>3, DiesBecomes DEF crash
<1> HIDE DEF Goal
<1>4. /\ open(p) => Goal
      /\ snapshot(p) => Goal
      /\ next_launch(p) => Goal
  BY OpenBecomes, SnapshotBecomes, NextLaunchBecomes DEF Goal
<1>5. ASSUME NEW t \in Task
      PROVE  /\ mark_stale(p, t) => Goal
             /\ recover_failed(p, t) => Goal
             /\ retry(p, t) => Goal
             /\ exhaust(p, t) => Goal
  BY MarkStaleBecomes, RecoverFailedBecomes, RetryBecomes, ExhaustBecomes DEF Goal
<1>6. ASSUME NEW t \in Task, NEW c \in Channel PROVE record_alerts(p, t, c) => Goal
  BY RecordAlertsBecomes DEF Goal
<1>7. ASSUME NEW t \in Task, NEW w \in Worker PROVE launch(p, t, w) => Goal
  BY LaunchBecomes DEF Goal
<1> QED
  BY <1>1, <1>2, <1>3, <1>4, <1>5, <1>6, <1>7 DEF Step

--------------------------------------------------------------------------------
(* The retry budget.                                                       *)

\* What a record in order means for the invariant.
LEMMA BecomesTyped ==
  ASSUME SchedTypeOK, Deciding, NEW p \in Proc, NEW r, Becomes(p, r)
  PROVE  proc' \in [Proc -> ProcRecord] /\ Deciding'
<1>1. proc' \in [Proc -> ProcRecord]
  BY DEF SchedTypeOK, Becomes
<1>2. ASSUME NEW q \in Proc PROVE RecordOK(proc'[q])
  <2>1. CASE q = p
    BY <2>1 DEF SchedTypeOK, Becomes
  <2>2. CASE q # p
    <3>1. proc'[q] = proc[q]
      BY <2>2 DEF SchedTypeOK, Becomes
    <3>2. RecordOK(proc[q])
      BY DEF Deciding, RecordOK
    <3> QED
      BY <3>1, <3>2
  <2> QED
    BY <2>1, <2>2
<1>3. Deciding'
  BY <1>2 DEF Deciding, RecordOK
<1> QED
  BY <1>1, <1>3

\* No attempt is made.
SameAttempts == \A t \in Task : tasks'[t].attempts = tasks[t].attempts

\* A terminal record makes no attempt.
LEMMA TerminalSame ==
  ASSUME TypeOK, NEW t \in Task, NEW s, mark_task_terminal(t, s) PROVE SameAttempts
BY DEF TypeOK, TaskState, mark_task_terminal, SameAttempts

\* Nor does a step that leaves the tasks alone.
LEMMA UnchangedSame == ASSUME UNCHANGED tasks PROVE SameAttempts
BY DEF SameAttempts

\* The attempts that a task may have without an operator.
Budget == IF MaxAttempts = 0 THEN 1 ELSE MaxAttempts

\* Without a new attempt the budget keeps.
LEMMA SameBudget ==
  ASSUME RetryBudget, SameAttempts, UNCHANGED restarts PROVE RetryBudget'
BY DEF RetryBudget, SameAttempts

\* A fresh lease is the first attempt; a retry is within the budget.
LEMMA LeaseBudget ==
  ASSUME TypeOK, restarts \in [Task -> Nat], RetryBudget, NEW t \in Task, NEW w, NEW d,
         TaskLeased(t, w, d), tasks[t].attempts < Budget, UNCHANGED restarts
  PROVE  RetryBudget'
BY SchedulerAssumption DEF TypeOK, TaskState, RetryBudget, Budget, TaskLeased

\* A queued task has all of its budget: it was never leased.
LEMMA FreshLease ==
  ASSUME IInv, NEW t \in Task, tasks[t].status = "Enqueued" PROVE tasks[t].attempts < Budget
BY SchedulerAssumption DEF IInv, LeaseShape, Budget

\* A scheduler process retries within the budget: the attempts it compared are
\* the attempts of the task, because the restart compares them again.
LEMMA StepBudget ==
  ASSUME SInv, NEW p \in Proc, Step(p) \/ crash(p)
  PROVE  RetryBudget'
<1> DEFINE Goal == RetryBudget'
<1> SUFFICES Goal
  OBVIOUS
<1>a. IInv /\ TypeOK /\ SchedTypeOK /\ Bounded /\ Deciding /\ RetryBudget
      /\ restarts \in [Task -> Nat]
  BY DEF SInv, IInv, SchedTypeOK
<1>b. UNCHANGED restarts
  BY DEF Step, open, snapshot, scan_done, next_launch, mark_stale, recover_failed, retry, exhaust,
     alerts_done, record_alerts, launch, crash
<1>1. CASE UNCHANGED tasks
  BY <1>1, <1>a, <1>b, UnchangedSame, SameBudget
<1>2. ASSUME NEW t \in Task, retry(p, t) PROVE Goal
  <2> DEFINE v == proc[p].snap[t]
  <2>1. ASSUME NEW k \in 1..4,
               restart_task_if_unchanged(t, v.worker, v.status, v.attempts, v.seq, v.heartbeat,
                 lease_expires_at(proc[p].now), proc[p].now, k)
        PROVE  Goal
    <3>1. tasks[t].attempts < Budget
      <4>1. tasks[t].attempts = v.attempts /\ v.attempts < MaxAttempts
        BY <1>2, <2>1 DEF retry, restart_task_if_unchanged, CanRestart, VersionUnchanged
      <4>2. tasks[t].attempts \in Nat
        BY <1>a DEF TypeOK, TaskState
      <4> HIDE DEF v
      <4> QED
        BY <4>1, <4>2, SchedulerAssumption DEF Budget
    <3>2. TaskLeased(t, v.worker, lease_expires_at(proc[p].now))
      BY <2>1 DEF restart_task_if_unchanged
    <3> HIDE DEF v
    <3> QED
      BY <1>a, <1>b, <3>1, <3>2, LeaseBudget
  <2>2. CASE UNCHANGED ledgerVars
    BY <1>1, <2>2 DEF ledgerVars
  <2> QED
    BY <1>2, <2>1, <2>2 DEF retry
<1>3. ASSUME NEW t \in Task, exhaust(p, t) PROVE Goal
  <2>1. mark_task_terminal(t, "Failed") \/ UNCHANGED tasks
    BY <1>3 DEF exhaust, append_terminal_event_if_lease_unchanged, ledgerVars
  <2> QED
    BY <1>a, <1>b, <2>1, TerminalSame, UnchangedSame, SameBudget
<1>4. ASSUME NEW t \in Task, NEW w \in Worker, launch(p, t, w) PROVE Goal
  <2>1. ASSUME NEW k \in 1..(InitialEvents + 2),
               lease_task_if_enqueued_with_events(t, w, MaxActive,
                 lease_expires_at(proc[p].now), proc[p].now, k)
        PROVE  Goal
    <3>1. tasks[t].status = "Enqueued" /\ TaskLeased(t, w, lease_expires_at(proc[p].now))
      BY <2>1 DEF lease_task_if_enqueued_with_events, CanLease
    <3> QED
      BY <1>a, <1>b, <3>1, FreshLease, LeaseBudget
  <2>2. CASE UNCHANGED ledgerVars
    BY <1>1, <2>2 DEF ledgerVars
  <2> QED
    BY <1>4, <2>1, <2>2 DEF launch
<1>5. ASSUME NEW t \in Task, mark_stale(p, t) PROVE UNCHANGED tasks
  BY <1>5 DEF mark_stale, append_event_if_lease_unchanged, ledgerVars
<1>6. ASSUME NEW t \in Task, NEW c \in Channel, record_alerts(p, t, c) PROVE UNCHANGED tasks
  BY <1>6 DEF record_alerts, record_failed_attempt_alert_once, ledgerVars
<1>7. /\ open(p) \/ snapshot(p) \/ scan_done(p) \/ next_launch(p) \/ crash(p) => UNCHANGED tasks
      /\ \A t \in Task : recover_failed(p, t) \/ alerts_done(p, t) => UNCHANGED tasks
  BY DEF open, snapshot, scan_done, next_launch, crash, recover_failed, alerts_done, ledgerVars
<1> HIDE DEF Goal
<1> QED
  BY <1>1, <1>2, <1>3, <1>4, <1>5, <1>6, <1>7 DEF Step

\* The managers only make first attempts; an operator's restart counts.
LEMMA OthersBudget ==
  ASSUME SInv,
         \/ tick \/ Managers
         \/ \E t \in Task : cancel(t) \/ \E w \in Worker : restart_worker(t, w)
  PROVE  RetryBudget'
<1> DEFINE Goal == RetryBudget'
<1> SUFFICES Goal
  OBVIOUS
<1>a. IInv /\ TypeOK /\ RetryBudget /\ restarts \in [Task -> Nat]
  BY DEF SInv, IInv, SchedTypeOK
<1>1. CASE tick
  BY <1>1, <1>a, UnchangedSame, SameBudget DEF tick, ledgerVars
<1>2. CASE Managers
  <2>0. UNCHANGED restarts
    BY <1>2 DEF Managers, schedVars
  <2>1. CASE \E r \in Run \ runs : create_run(r)
    BY <1>a, <2>0, <2>1, UnchangedSame, SameBudget DEF create_run
  <2>2. CASE \E t \in Task : RunOf[t] \in runs /\ enqueue(t)
    <3>1. \E t \in Task : mark_task_terminal(t, "Enqueued")
      BY <2>2 DEF enqueue, mark_task_terminal
    <3> QED
      BY <1>a, <2>0, <3>1, TerminalSame, SameBudget
  <2>3. CASE \E w \in Worker : heartbeat(w, clock)
    BY <1>a, <2>0, <2>3, UnchangedSame, SameBudget DEF heartbeat
  <2>4. ASSUME NEW t \in Task, NEW w \in Worker, NEW k \in 1..(InitialEvents + 2),
               lease_task_if_enqueued_with_events(t, w, MaxActive, NoTime, clock, k)
        PROVE  Goal
    <3>1. tasks[t].status = "Enqueued" /\ TaskLeased(t, w, NoTime)
      BY <2>4 DEF lease_task_if_enqueued_with_events, CanLease
    <3> QED
      BY <1>a, <2>0, <3>1, FreshLease, LeaseBudget
  <2>5. ASSUME NEW t \in Task, NEW w \in Worker, append_event_if_leased(t, w, tasks[t].attempts) PROVE Goal
    BY <1>a, <2>0, <2>5, UnchangedSame, SameBudget DEF append_event_if_leased
  <2>6. ASSUME NEW t \in Task, NEW w \in Worker, NEW s \in {"Completed", "Failed"}, NEW res \in Result,
               finalize_task_attempt_if_leased(t, w, tasks[t].attempts, s, NoStatus, res)
        PROVE  Goal
    BY <1>a, <2>0, <2>6, TerminalSame, SameBudget DEF finalize_task_attempt_if_leased
  <2> HIDE DEF Goal
  <2> QED
    BY <1>2, <2>1, <2>2, <2>3, <2>4, <2>5, <2>6 DEF Managers
<1>3. ASSUME NEW t \in Task, cancel(t) PROVE Goal
  <2>1. UNCHANGED tasks \/ mark_task_terminal(t, "Cancelled")
    BY <1>3 DEF cancel, cancel_task_if_active
  <2>2. UNCHANGED restarts
    BY <1>3 DEF cancel, schedVars
  <2> QED
    BY <1>a, <2>1, <2>2, UnchangedSame, TerminalSame, SameBudget
<1>4. ASSUME NEW t \in Task, NEW w \in Worker, restart_worker(t, w) PROVE Goal
  <2>1. TaskLeased(t, w, NoTime) /\ restarts' = [restarts EXCEPT ![t] = @ + 1]
    BY <1>4 DEF restart_worker, restart_task_if_unchanged
  <2> QED
    BY <1>a, <2>1, SchedulerAssumption DEF TypeOK, TaskState, RetryBudget, TaskLeased
<1> HIDE DEF Goal
<1> QED
  BY <1>1, <1>2, <1>3, <1>4

--------------------------------------------------------------------------------
(* The invariant.                                                          *)

\* Alerts are recorded by the step of that name alone, for a used up budget.
LEMMA EscalationsExhausted ==
  ASSUME SInv, SchedNext PROVE EscalatesOnlyExhausted'
<1>a. EscalatesOnlyExhausted /\ Deciding
  BY DEF SInv
<1>1. CASE UNCHANGED alerts
  BY <1>a, <1>1 DEF EscalatesOnlyExhausted
<1>2. ASSUME NEW p \in Proc, NEW t \in Task, NEW c \in Channel, record_alerts(p, t, c)
      PROVE  EscalatesOnlyExhausted'
  <2> DEFINE v == proc[p].snap[t]
  <2>1. v.attempts >= MaxAttempts
    BY <1>2, <1>a DEF record_alerts, Deciding
  <2>2. alerts' = alerts \/ alerts' = alerts \cup {<<t, v.attempts, c>>}
    BY <1>2 DEF record_alerts, record_failed_attempt_alert_once, ledgerVars
  <2> HIDE DEF v
  <2> QED
    BY <1>a, <2>1, <2>2 DEF EscalatesOnlyExhausted
<1>3. ASSUME NEW p \in Proc, NEW t \in Task,
             mark_stale(p, t) \/ recover_failed(p, t) \/ retry(p, t) \/ exhaust(p, t) \/ alerts_done(p, t)
      PROVE  UNCHANGED alerts
  BY <1>3 DEF mark_stale, recover_failed, retry, exhaust, alerts_done, ledgerVars,
     append_event_if_lease_unchanged, restart_task_if_unchanged, append_terminal_event_if_lease_unchanged
<1>4. ASSUME NEW p \in Proc, NEW t \in Task, NEW w \in Worker, launch(p, t, w)
      PROVE  UNCHANGED alerts
  BY <1>4 DEF launch, lease_task_if_enqueued_with_events, ledgerVars
<1>5. ASSUME NEW p \in Proc, open(p) \/ snapshot(p) \/ scan_done(p) \/ next_launch(p) \/ crash(p)
      PROVE  UNCHANGED alerts
  BY <1>5 DEF open, snapshot, scan_done, next_launch, crash, ledgerVars
<1>6. ASSUME NEW p \in Proc, Step(p) \/ crash(p) PROVE EscalatesOnlyExhausted'
  BY <1>1, <1>2, <1>3, <1>4, <1>5, <1>6 DEF Step
<1>7. CASE Managers
  BY <1>1, <1>7 DEF Managers, create_run, enqueue, heartbeat, lease_task_if_enqueued_with_events,
     append_event_if_leased, finalize_task_attempt_if_leased
<1>8. CASE tick \/ \E t \in Task : cancel(t) \/ \E w \in Worker : restart_worker(t, w)
  BY <1>1, <1>8 DEF tick, cancel, cancel_task_if_active, restart_worker, restart_task_if_unchanged,
     ledgerVars
<1> QED
  BY <1>6, <1>7, <1>8 DEF SchedNext

\* The clock and the counters.
LEMMA CountersTyped ==
  ASSUME SchedTypeOK, SchedNext
  PROVE  clock' \in Timestamp /\ restarts' \in [Task -> Nat] /\ crashes' \in Nat
<1> DEFINE Goal == clock' \in Timestamp /\ restarts' \in [Task -> Nat] /\ crashes' \in Nat
           Same == UNCHANGED <<clock, restarts, crashes>>
<1>0. clock \in Timestamp /\ restarts \in [Task -> Nat] /\ crashes \in Nat
  BY DEF SchedTypeOK
<1>1. ASSUME Same PROVE Goal
  BY <1>0, <1>1
<1>2. ASSUME NEW p \in Proc, UNCHANGED <<clock, restarts>>, Dies(p) PROVE Goal
  BY <1>0, <1>2 DEF Dies
<1>3. ASSUME NEW p \in Proc, Step(p) \/ crash(p) PROVE Goal
  <2>1. ASSUME NEW t \in Task, retry(p, t) PROVE Same \/ (UNCHANGED <<clock, restarts>> /\ Dies(p))
    BY <2>1 DEF retry
  <2>2. ASSUME NEW t \in Task, NEW w \in Worker, launch(p, t, w)
        PROVE  Same \/ (UNCHANGED <<clock, restarts>> /\ Dies(p))
    BY <2>2 DEF launch
  <2>3. crash(p) => UNCHANGED <<clock, restarts>> /\ Dies(p)
    BY DEF crash
  <2>4. open(p) \/ snapshot(p) \/ scan_done(p) \/ next_launch(p) => Same
    BY DEF open, snapshot, scan_done, next_launch
  <2>5. ASSUME NEW t \in Task,
               mark_stale(p, t) \/ recover_failed(p, t) \/ exhaust(p, t) \/ alerts_done(p, t)
                 \/ \E c \in Channel : record_alerts(p, t, c)
        PROVE  Same
    BY <2>5 DEF mark_stale, recover_failed, exhaust, alerts_done, record_alerts
  <2> HIDE DEF Same, Goal
  <2> QED
    BY <1>1, <1>2, <1>3, <2>1, <2>2, <2>3, <2>4, <2>5 DEF Step
<1>4. CASE tick
  BY <1>0, <1>4, LedgerAssumption DEF tick, Timestamp
<1>5. CASE Managers \/ \E t \in Task : cancel(t)
  BY <1>0, <1>5 DEF Managers, cancel, schedVars
<1>6. ASSUME NEW t \in Task, NEW w \in Worker, restart_worker(t, w) PROVE Goal
  BY <1>0, <1>6 DEF restart_worker
<1> QED
  BY <1>3, <1>4, <1>5, <1>6 DEF SchedNext

\* Steps of others leave the processes alone.
LEMMA OthersKeepProc ==
  ASSUME \/ tick \/ Managers
         \/ \E t \in Task : cancel(t) \/ \E w \in Worker : restart_worker(t, w)
  PROVE  UNCHANGED proc
BY DEF tick, Managers, cancel, restart_worker, schedVars

\* Every step of the system is a ledger transaction or leaves the ledger alone.
LEMMA SchedStepIsStep ==
  ASSUME SInv, [SchedNext]_allVars PROVE [Next]_ledgerVars
<1>1. CASE UNCHANGED allVars
  BY <1>1 DEF allVars
<1>2. CASE SchedNext
  BY <1>2, StepIsStep, OthersAreSteps DEF SchedNext, SInv
<1> QED
  BY <1>1, <1>2

\* Every step preserves the invariant.
LEMMA SchedStepSInv ==
  ASSUME SInv, [SchedNext]_allVars PROVE SInv'
<1>a. IInv /\ TypeOK /\ SchedTypeOK /\ Bounded /\ Deciding
  BY DEF SInv, IInv
<1>1. IInv' /\ Bounded'
  BY <1>a, SchedStepIsStep, StepIInv, BoundedStep
<1>2. CASE UNCHANGED allVars
  <2>1. UNCHANGED <<tasks, alerts, clock, proc, restarts, crashes>>
    BY <1>2 DEF allVars, schedVars, ledgerVars
  <2>2. SchedTypeOK' /\ Deciding'
    BY <1>a, <2>1 DEF SchedTypeOK, Deciding
  <2>3. RetryBudget' /\ EscalatesOnlyExhausted'
    BY <2>1 DEF SInv, RetryBudget, EscalatesOnlyExhausted
  <2> QED
    BY <1>1, <2>2, <2>3 DEF SInv
<1>3. CASE SchedNext
  <2>1. RetryBudget'
    BY <1>3, StepBudget, OthersBudget DEF SchedNext
  <2>2. EscalatesOnlyExhausted'
    BY <1>3, EscalationsExhausted
  <2>3. proc' \in [Proc -> ProcRecord] /\ Deciding'
    <3>1. ASSUME NEW p \in Proc, Step(p) \/ crash(p) PROVE proc' \in [Proc -> ProcRecord] /\ Deciding'
      BY <1>a, <3>1, StepBecomes, BecomesTyped
    <3>2. ASSUME UNCHANGED proc PROVE proc' \in [Proc -> ProcRecord] /\ Deciding'
      BY <1>a, <3>2 DEF SchedTypeOK, Deciding
    <3> QED
      BY <1>3, <3>1, <3>2, OthersKeepProc DEF SchedNext
  <2>4. SchedTypeOK'
    BY <1>a, <1>3, <2>3, CountersTyped DEF SchedTypeOK
  <2> QED
    BY <1>1, <2>1, <2>2, <2>3, <2>4 DEF SInv
<1> QED
  BY <1>2, <1>3

\* The invariant holds of an empty ledger and idle processes.
LEMMA SchedInitSInv == SchedInit => SInv
<1> SUFFICES ASSUME SchedInit PROVE SInv
  OBVIOUS
<1>1. IInv
  BY InitIInv DEF SchedInit
<1>2. Bounded
  BY LedgerAssumption DEF SchedInit, Init, Bounded, NoTime
<1>3. SchedTypeOK
  <2>1. 1 \in Timestamp
    BY LedgerAssumption, SchedulerAssumption DEF Timestamp
  <2> QED
    BY <2>1, IdleType DEF SchedInit, SchedTypeOK
<1>4. Deciding
  <2>1. ASSUME NEW p \in Proc PROVE proc[p] = Idle
    BY DEF SchedInit
  <2> QED
    BY <2>1, IdleOK DEF Deciding, RecordOK
<1>5. RetryBudget /\ EscalatesOnlyExhausted
  BY SchedulerAssumption DEF SchedInit, Init, RetryBudget, EscalatesOnlyExhausted
<1> QED
  BY <1>1, <1>2, <1>3, <1>4, <1>5 DEF SInv

\* The inductive invariant holds in every reachable state, whatever the numbers
\* of processes, tasks, workers and channels, the policy and the bounds.
THEOREM SchedInvariance == SchedSpec => []SInv
BY SchedInitSInv, SchedStepSInv, PTL DEF SchedSpec

\* A task is attempted at most max_attempts times, plus once per operator
\* restart, over every interleaving of competing recoveries, crashes inside
\* their appends, managers and operators (retry_or_fail with
\* restart_task_if_unchanged).
THEOREM RetryBudgetHolds == SchedSpec => []RetryBudget
<1>1. SInv => RetryBudget
  BY DEF SInv
<1> QED
  BY <1>1, SchedInvariance, PTL

\* An escalation names an attempt that used up the budget (retry_or_fail before
\* record_alerts).
THEOREM EscalatesOnlyExhaustedHolds == SchedSpec => []EscalatesOnlyExhausted
<1>1. SInv => EscalatesOnlyExhausted
  BY DEF SInv
<1> QED
  BY <1>1, SchedInvariance, PTL

\* The scheduler, the managers and the operators only do to the ledger what a
\* client of it may do: every theorem about FleetLedger holds of them too.
THEOREM SchedulerIsClient == SchedSpec => Spec
<1>1. SchedInit => Init
  BY DEF SchedInit
<1>2. SInv /\ [SchedNext]_allVars => [Next]_ledgerVars
  BY SchedStepIsStep
<1> QED
  BY <1>1, <1>2, SchedInvariance, PTL DEF SchedSpec, Spec
================================================================================
