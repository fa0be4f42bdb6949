--------------------------- MODULE FleetLedgerProofs ---------------------------
(***************************************************************************)
(* Proofs about FleetLedger for every set of runs, tasks, workers and      *)
(* channels and every bound.                                               *)
(*                                                                         *)
(* The argument: every ledger transaction, whole or torn, is one of six    *)
(* kinds of step (StepKinds).  The inductive invariant, the action         *)
(* property and the refinement are then proved kind by kind.               *)
(***************************************************************************)
EXTENDS FleetLedger, TLAPS

(* The inductive invariant: no single part is inductive alone.  A restart   *)
(* keeps OneLeasePerWorker only because LeaseShape ties leased_to to the    *)
(* attempts made; ReceiptFenced needs it to know a new lease is a new       *)
(* attempt.                                                                 *)
IInv ==
  /\ TypeOK
  /\ OneLeasePerWorker
  /\ LeaseShape
  /\ ReceiptFenced
  /\ CompletedHasReceipt
  /\ AlertFenced

--------------------------------------------------------------------------------
(* The kinds of step.                                                      *)

SeqGrows ==
  /\ latest_seq' \in [Worker -> [Task -> Nat]]
  /\ \A w \in Worker, t \in Task : latest_seq'[w][t] >= latest_seq[w][t]

Quiet == tasks' = tasks /\ receipts' = receipts /\ alerts' = alerts

Queued(t) ==
  /\ tasks[t].status = "Absent"
  /\ tasks' = [tasks EXCEPT ![t].status = "Enqueued"]
  /\ receipts' = receipts /\ alerts' = alerts

NewLease(t, w, d) ==
  /\ \A u \in Task \ {t} : ~ (IsLeased(u) /\ tasks[u].leased_to = w)
  /\ tasks[t].status = "Enqueued" \/ tasks[t].leased_to = w
  /\ tasks' = [tasks EXCEPT ![t] =
       [status |-> "Leased", leased_to |-> w,
        attempts |-> tasks[t].attempts + 1, lease_deadline |-> d]]
  /\ receipts' = receipts /\ alerts' = alerts

Ended(t, s) ==
  /\ tasks[t].status \in {"Enqueued", "Leased"}
  /\ tasks[t].status = "Enqueued" => s = "Cancelled"
  /\ s \in {"Failed", "Cancelled"}
  /\ tasks' = [tasks EXCEPT ![t].status = s]
  /\ receipts' = receipts /\ alerts' = alerts

Finalized(t, w, s, r) ==
  /\ IsLeased(t) /\ tasks[t].leased_to = w
  /\ s \in Terminal
  /\ tasks' = [tasks EXCEPT ![t].status = s]
  /\ latest_seq'[w][t] = latest_seq[w][t] + 1
  /\ receipts' = [receipts EXCEPT ![t] =
       [worker_id |-> w, attempt |-> tasks[t].attempts,
        terminal_seq |-> latest_seq[w][t] + 1, result |-> r]]
  /\ alerts' = alerts

Alerted(t, w, c) ==
  /\ tasks[t].status = "Failed" /\ tasks[t].leased_to = w
  /\ latest_seq'[w][t] = latest_seq[w][t] + 1
  /\ tasks' = tasks /\ receipts' = receipts
  /\ alerts' = alerts \cup {<<t, tasks[t].attempts, c>>}

StepKind ==
  \/ Quiet
  \/ \E t \in Task : Queued(t)
  \/ \E t \in Task, w \in Worker, d \in Nat : NewLease(t, w, d)
  \/ \E t \in Task, s \in Terminal : Ended(t, s)
  \/ \E t \in Task, w \in Worker, s \in Terminal, r \in Result : Finalized(t, w, s, r)
  \/ \E t \in Task, w \in Worker, c \in Channel : Alerted(t, w, c)

Kept ==
  /\ SeqGrows
  /\ heartbeats' \in [Worker -> Nat]
  /\ runs' \subseteq Run
  /\ StepKind

\* Appending n events moves one high-water mark up by n.
LEMMA AppendGrows ==
  ASSUME TypeOK, NEW t \in Task, NEW w \in Worker, NEW n \in Nat, EventsAppended(t, w, n)
  PROVE  SeqGrows /\ latest_seq'[w][t] = latest_seq[w][t] + n
BY DEF TypeOK, EventsAppended, SeqGrows

\* Sequences that do not move do not decrease.
LEMMA SeqUnchangedGrows == ASSUME TypeOK, UNCHANGED latest_seq PROVE SeqGrows
BY DEF TypeOK, SeqGrows

\* A heartbeat keeps the type of the heartbeats.
LEMMA HeartbeatTyped ==
  ASSUME TypeOK, NEW w \in Worker, NEW ts \in Timestamp, HeartbeatAt(w, ts)
  PROVE  heartbeats' \in [Worker -> Nat]
BY LedgerAssumption DEF TypeOK, HeartbeatAt, Timestamp

\* What the transactions of the manager change.
LEMMA ManageKinds == ASSUME TypeOK, LeaseShape, Manage PROVE Kept
<1> USE DEF TypeOK
<1>1. CASE \E r \in Run : create_run(r)
  BY <1>1, SeqUnchangedGrows DEF create_run, Kept, StepKind, Quiet
<1>2. CASE \E t \in Task : RunOf[t] \in runs /\ enqueue(t)
  BY <1>2, SeqUnchangedGrows DEF enqueue, Kept, StepKind, Queued
<1>3. CASE \E t \in Task, e \in Worker \cup {NoWorker}, k \in 1..2 :
             cancel_task_if_active(t, e, k)
  <2> PICK t \in Task, e \in Worker \cup {NoWorker}, k \in 1..2 :
             cancel_task_if_active(t, e, k)
    BY <1>3
  <2>1. tasks[t].leased_to \in Worker \cup {NoWorker}
    BY DEF TaskState
  <2>2. CASE tasks[t].leased_to # NoWorker
    <3>1. SeqGrows
      BY <2>1, <2>2, AppendGrows DEF cancel_task_if_active
    <3>2. tasks[t].status # "Enqueued"
      BY <2>2 DEF LeaseShape
    <3>3. (k = 2 /\ Ended(t, "Cancelled")) \/ Quiet
      BY <2>2, <3>2 DEF cancel_task_if_active, Ended, Quiet, mark_task_terminal
    <3> QED
      BY <3>1, <3>3 DEF Kept, StepKind, cancel_task_if_active, Terminal
  <2>3. CASE tasks[t].leased_to = NoWorker
    <3>1. SeqGrows
      BY <2>3, SeqUnchangedGrows DEF cancel_task_if_active
    <3>2. Ended(t, "Cancelled")
      BY <2>3 DEF cancel_task_if_active, Ended, mark_task_terminal
    <3> QED
      BY <3>1, <3>2 DEF Kept, StepKind, cancel_task_if_active, Terminal
  <2> QED
    BY <2>2, <2>3
<1> QED
  BY <1>1, <1>2, <1>3 DEF Manage

\* What the transactions of a worker's owner change.
LEMMA WorkKinds ==
  ASSUME TypeOK, LeaseShape, NEW t \in Task, NEW w \in Worker, Work(t, w)
  PROVE  Kept
<1> USE DEF TypeOK
<1>1. CASE \E d \in 0..MaxTime, ts \in Timestamp, k \in 1..(InitialEvents + 2) :
             lease_task_if_enqueued_with_events(t, w, MaxActive, d, ts, k)
  <2> PICK d \in 0..MaxTime, ts \in Timestamp, k \in 1..(InitialEvents + 2) :
             lease_task_if_enqueued_with_events(t, w, MaxActive, d, ts, k)
    BY <1>1
  <2> DEFINE n == IF k - 1 < InitialEvents THEN k - 1 ELSE InitialEvents
  <2>1. n \in Nat
    BY LedgerAssumption
  <2>2. SeqGrows
    <3> EventsAppended(t, w, n)
      BY DEF lease_task_if_enqueued_with_events
    <3> HIDE DEF n
    <3> QED
      BY <2>1, AppendGrows
  <2>3. heartbeats' \in [Worker -> Nat]
    BY HeartbeatTyped DEF lease_task_if_enqueued_with_events
  <2>4. NewLease(t, w, d)
    BY DEF lease_task_if_enqueued_with_events, CanLease, TaskLeased, NewLease, HoldsLease
  <2>5. d \in Nat /\ runs' \subseteq Run
    BY LedgerAssumption DEF lease_task_if_enqueued_with_events
  <2> QED
    BY <2>2, <2>3, <2>4, <2>5 DEF Kept, StepKind
<1>2. CASE claim_next(t, w)
  <2>1. NewLease(t, w, NoTime)
    BY <1>2 DEF claim_next, TaskLeased, NewLease, HoldsLease
  <2>2. NoTime \in Nat
    BY DEF NoTime
  <2> QED
    BY <1>2, <2>1, <2>2, SeqUnchangedGrows DEF claim_next, Kept, StepKind
<1>3. CASE \E n \in 1..MaxLeases : append_event_if_leased(t, w, n)
  BY <1>3, AppendGrows DEF append_event_if_leased, Kept, StepKind, Quiet
<1>4. CASE \E n \in 1..MaxLeases, p \in Terminal, f \in Terminal \cup {NoStatus},
              res \in Result : finalize_task_attempt_if_leased(t, w, n, p, f, res)
  <2> PICK n \in 1..MaxLeases, p \in Terminal, f \in Terminal \cup {NoStatus},
              res \in Result : finalize_task_attempt_if_leased(t, w, n, p, f, res)
    BY <1>4
  <2> DEFINE s == IF f = NoStatus THEN p ELSE f
  <2>1. s \in Terminal
    OBVIOUS
  <2>2. SeqGrows /\ latest_seq'[w][t] = latest_seq[w][t] + 1
    BY AppendGrows DEF finalize_task_attempt_if_leased
  <2>3. Finalized(t, w, s, res)
    BY <2>1, <2>2 DEF finalize_task_attempt_if_leased, Finalized, OwnsAttempt, mark_task_terminal
  <2> QED
    BY <2>1, <2>2, <2>3 DEF Kept, StepKind, finalize_task_attempt_if_leased
<1> QED
  BY <1>1, <1>2, <1>3, <1>4 DEF Work

\* What the transactions of recovery change.
LEMMA RecoverKinds ==
  ASSUME TypeOK, LeaseShape, NEW t \in Task, NEW w \in Worker, Recover(t, w)
  PROVE  Kept
<1> USE DEF TypeOK
<1>1. ASSUME NEW n \in 1..MaxLeases, NEW s \in 0..MaxSeq, NEW h \in 0..MaxTime,
             append_event_if_lease_unchanged(t, w, n, s, h)
      PROVE  Kept
  BY <1>1, AppendGrows DEF append_event_if_lease_unchanged, Kept, StepKind, Quiet
<1>2. ASSUME NEW n \in 1..MaxLeases, NEW s \in 0..MaxSeq, NEW h \in 0..MaxTime,
             append_terminal_event_if_lease_unchanged(t, w, n, s, h, "Failed")
      PROVE  Kept
  <2>1. Ended(t, "Failed")
    BY <1>2 DEF append_terminal_event_if_lease_unchanged, LeaseUnchanged, Ended, mark_task_terminal, IsLeased
  <2> QED
    BY <1>2, <2>1, AppendGrows DEF append_terminal_event_if_lease_unchanged, Kept, StepKind, Terminal
<1>3. ASSUME NEW n \in 1..MaxLeases, NEW s \in 0..MaxSeq, NEW h \in 0..MaxTime,
             NEW st \in TaskStatus, NEW d \in 0..MaxTime, NEW ts \in Timestamp, NEW k \in 1..4,
             restart_task_if_unchanged(t, w, st, n, s, h, d, ts, k)
      PROVE  Kept
  <2>1. SeqGrows
    <3> DEFINE e == IF k < 3 THEN k - 1 ELSE 2
    <3>1. e \in Nat
      OBVIOUS
    <3>2. EventsAppended(t, w, e)
      BY <1>3 DEF restart_task_if_unchanged
    <3> HIDE DEF e
    <3> QED
      BY <3>1, <3>2, AppendGrows
  <2>2. heartbeats' \in [Worker -> Nat]
    BY <1>3, HeartbeatTyped DEF restart_task_if_unchanged
  <2>3. NewLease(t, w, d)
    BY <1>3 DEF restart_task_if_unchanged, CanRestart, VersionUnchanged, TaskLeased, NewLease
  <2>4. d \in Nat /\ runs' \subseteq Run
    BY <1>3, LedgerAssumption DEF restart_task_if_unchanged
  <2> QED
    BY <2>1, <2>2, <2>3, <2>4 DEF Kept, StepKind
<1>4. ASSUME NEW n \in 1..MaxLeases, NEW c \in Channel,
             record_failed_attempt_alert_once(t, w, n, c)
      PROVE  Kept
  <2>1. SeqGrows /\ latest_seq'[w][t] = latest_seq[w][t] + 1
    BY <1>4, AppendGrows DEF record_failed_attempt_alert_once
  <2>2. Alerted(t, w, c)
    BY <1>4, <2>1 DEF record_failed_attempt_alert_once, CanAlert, Alerted
  <2> QED
    BY <1>4, <2>1, <2>2 DEF record_failed_attempt_alert_once, Kept, StepKind
<1> QED
  BY <1>1, <1>2, <1>3, <1>4 DEF Recover

\* Every step of the ledger is of one of the kinds.
LEMMA StepKinds == ASSUME TypeOK, LeaseShape, [Next]_ledgerVars PROVE Kept
<1>1. CASE Manage
  BY <1>1, ManageKinds
<1>2. CASE \E t \in Task, w \in Worker : Work(t, w) \/ Recover(t, w)
  BY <1>2, WorkKinds, RecoverKinds
<1>3. CASE \E w \in Worker, ts \in Timestamp : heartbeat(w, ts)
  BY <1>3, HeartbeatTyped, SeqUnchangedGrows DEF heartbeat, TypeOK, Kept, StepKind, Quiet
<1>4. CASE UNCHANGED ledgerVars
  BY <1>4, SeqUnchangedGrows DEF ledgerVars, TypeOK, Kept, StepKind, Quiet
<1> QED
  BY <1>1, <1>2, <1>3, <1>4 DEF Next

--------------------------------------------------------------------------------
(* Invariance.                                                             *)

\* The empty ledger.
LEMMA InitIInv == Init => IInv
<1> SUFFICES ASSUME Init PROVE IInv
  OBVIOUS
<1>1. TypeOK
  BY LedgerAssumption DEF Init, TypeOK, TaskState, TaskStatus, Receipt, NoReceipt, NoTime
<1>2. OneLeasePerWorker /\ LeaseShape /\ CompletedHasReceipt
  BY DEF Init, OneLeasePerWorker, IsLeased, LeaseShape, CompletedHasReceipt
<1>3. ReceiptFenced /\ AlertFenced
  BY DEF Init, ReceiptFenced, AlertFenced, NoReceipt
<1> QED
  BY <1>1, <1>2, <1>3 DEF IInv

\* The kinds of change keep the types.
LEMMA KeptTypeOK == ASSUME TypeOK, Kept PROVE TypeOK'
<1> USE DEF TypeOK, Kept, SeqGrows
<1>1. CASE Quiet
  BY <1>1 DEF Quiet
<1>2. ASSUME NEW t \in Task, Queued(t) PROVE TypeOK'
  BY <1>2 DEF Queued, TaskState, TaskStatus
<1>3. ASSUME NEW t \in Task, NEW w \in Worker, NEW d \in Nat, NewLease(t, w, d) PROVE TypeOK'
  BY <1>3 DEF NewLease, TaskState, TaskStatus
<1>4. ASSUME NEW t \in Task, NEW s \in Terminal, Ended(t, s) PROVE TypeOK'
  BY <1>4 DEF Ended, TaskState, TaskStatus, Terminal
<1>5. ASSUME NEW t \in Task, NEW w \in Worker, NEW s \in Terminal, NEW r \in Result,
             Finalized(t, w, s, r)
      PROVE  TypeOK'
  <2>1. tasks' \in [Task -> TaskState]
    BY <1>5 DEF Finalized, TaskState, TaskStatus, Terminal
  <2>2. receipts' \in [Task -> Receipt]
    <3>1. tasks[t].attempts \in Nat /\ latest_seq[w][t] + 1 \in Nat
      BY DEF TaskState
    <3> QED
      BY <1>5, <3>1 DEF Finalized, Receipt
  <2> QED
    BY <1>5, <2>1, <2>2 DEF Finalized
<1>6. ASSUME NEW t \in Task, NEW w \in Worker, NEW c \in Channel, Alerted(t, w, c) PROVE TypeOK'
  <2>1. tasks[t].attempts \in Nat
    BY DEF TaskState
  <2> QED
    BY <1>6, <2>1 DEF Alerted
<1> QED
  BY <1>1, <1>2, <1>3, <1>4, <1>5, <1>6 DEF StepKind

\* They keep the shape of the leases.
LEMMA KeptLeases ==
  ASSUME IInv, Kept PROVE OneLeasePerWorker' /\ LeaseShape'
<1> USE LedgerAssumption DEF IInv, TypeOK, TaskState, OneLeasePerWorker, LeaseShape, IsLeased
<1> DEFINE Goal == OneLeasePerWorker' /\ LeaseShape'
<1>1. CASE Quiet
  BY <1>1 DEF Quiet
<1>2. ASSUME NEW t \in Task, Queued(t) PROVE Goal
  BY <1>2 DEF Queued
<1>3. ASSUME NEW t \in Task, NEW w \in Worker, NEW d \in Nat, NewLease(t, w, d) PROVE Goal
  BY <1>3 DEF NewLease
<1>4. ASSUME NEW t \in Task, NEW s \in Terminal, Ended(t, s) PROVE Goal
  BY <1>4 DEF Ended
<1>5. ASSUME NEW t \in Task, NEW w \in Worker, NEW s \in Terminal, NEW r \in Result,
             Finalized(t, w, s, r)
      PROVE  Goal
  BY <1>5 DEF Finalized, Terminal
<1>6. ASSUME NEW t \in Task, NEW w \in Worker, NEW c \in Channel, Alerted(t, w, c) PROVE Goal
  BY <1>6 DEF Alerted
<1> QED
  BY <1>1, <1>2, <1>3, <1>4, <1>5, <1>6 DEF Kept, StepKind

\* They keep receipts with completed tasks.
LEMMA KeptReceipts ==
  ASSUME IInv, Kept PROVE ReceiptFenced' /\ CompletedHasReceipt'
<1> USE DEF IInv, TypeOK, TaskState, Receipt, LeaseShape, IsLeased, SeqGrows,
            ReceiptFenced, CompletedHasReceipt
<1> DEFINE Goal == ReceiptFenced' /\ CompletedHasReceipt'
<1> SeqGrows
  BY DEF Kept
<1>1. CASE Quiet
  BY <1>1 DEF Quiet
<1>2. ASSUME NEW t \in Task, Queued(t) PROVE Goal
  BY <1>2 DEF Queued, Terminal
<1>3. ASSUME NEW t \in Task, NEW w \in Worker, NEW d \in Nat, NewLease(t, w, d) PROVE Goal
  BY <1>3 DEF NewLease
<1>4. ASSUME NEW t \in Task, NEW s \in Terminal, Ended(t, s) PROVE Goal
  BY <1>4 DEF Ended
<1>5. ASSUME NEW t \in Task, NEW w \in Worker, NEW s \in Terminal, NEW r \in Result,
             Finalized(t, w, s, r)
      PROVE  Goal
  BY <1>5 DEF Finalized
<1>6. ASSUME NEW t \in Task, NEW w \in Worker, NEW c \in Channel, Alerted(t, w, c) PROVE Goal
  BY <1>6 DEF Alerted
<1> QED
  BY <1>1, <1>2, <1>3, <1>4, <1>5, <1>6 DEF Kept, StepKind

\* They keep alerts fenced.
LEMMA KeptAlerts == ASSUME IInv, Kept PROVE AlertFenced'
<1> USE DEF IInv, TypeOK, TaskState, LeaseShape, IsLeased, AlertFenced
<1>1. CASE Quiet
  BY <1>1 DEF Quiet
<1>2. ASSUME NEW t \in Task, Queued(t) PROVE AlertFenced'
  BY <1>2 DEF Queued
<1>3. ASSUME NEW t \in Task, NEW w \in Worker, NEW d \in Nat, NewLease(t, w, d) PROVE AlertFenced'
  BY <1>3 DEF NewLease
<1>4. ASSUME NEW t \in Task, NEW s \in Terminal, Ended(t, s) PROVE AlertFenced'
  BY <1>4 DEF Ended
<1>5. ASSUME NEW t \in Task, NEW w \in Worker, NEW s \in Terminal, NEW r \in Result,
             Finalized(t, w, s, r)
      PROVE  AlertFenced'
  BY <1>5 DEF Finalized
<1>6. ASSUME NEW t \in Task, NEW w \in Worker, NEW c \in Channel, Alerted(t, w, c)
      PROVE  AlertFenced'
  BY <1>6 DEF Alerted
<1> QED
  BY <1>1, <1>2, <1>3, <1>4, <1>5, <1>6 DEF Kept, StepKind

\* Each step preserves the invariant.
LEMMA StepIInv == ASSUME IInv, [Next]_ledgerVars PROVE IInv'
<1>1. Kept
  BY StepKinds DEF IInv
<1> QED
  BY <1>1, KeptTypeOK, KeptLeases, KeptReceipts, KeptAlerts DEF IInv

\* The inductive invariant holds in every reachable state of the ledger, for
\* any client, any crash in the middle of an append and any instance.
THEOREM Invariance == Spec => []IInv
BY InitIInv, StepIInv, PTL DEF Spec

\* The replayed state keeps the shape of FleetLedgerState.
THEOREM TypeCorrect == Spec => []TypeOK
<1>1. IInv => TypeOK
  BY DEF IInv
<1> QED
  BY <1>1, Invariance, PTL

\* No worker ever holds two leases: the eligibility checks of
\* lease_task_if_enqueued_with_events and restart_task_if_unchanged suffice.
THEOREM LeaseExclusion == Spec => []OneLeasePerWorker
<1>1. IInv => OneLeasePerWorker
  BY DEF IInv
<1> QED
  BY <1>1, Invariance, PTL

\* A receipt belongs to an attempt that was made and to a written event, and a
\* live attempt never shows its predecessor's (finalize_task_attempt_if_leased).
THEOREM EvidenceFenced == Spec => []ReceiptFenced
<1>1. IInv => ReceiptFenced
  BY DEF IInv
<1> QED
  BY <1>1, Invariance, PTL

\* A completed task carries the receipt of the attempt that completed it, also
\* when the process dies in an append (TaskAttemptFinalized).
THEOREM CompletionEvidenced == Spec => []CompletedHasReceipt
<1>1. IInv => CompletedHasReceipt
  BY DEF IInv
<1> QED
  BY <1>1, Invariance, PTL

\* No alert is raised for live or recovered work
\* (record_failed_attempt_alert_once).
THEOREM AlertsFenced == Spec => []AlertFenced
<1>1. IInv => AlertFenced
  BY DEF IInv
<1> QED
  BY <1>1, Invariance, PTL

--------------------------------------------------------------------------------
(* The action property.                                                    *)

FinalStep ==
  \A t \in Task :
    tasks[t].status \in Terminal =>
      \/ tasks'[t] = tasks[t] /\ receipts'[t] = receipts[t]
      \/ /\ tasks'[t].status = "Leased"
         /\ tasks'[t].attempts = tasks[t].attempts + 1
         /\ tasks'[t].leased_to = tasks[t].leased_to

\* No kind of change reopens what is final.
LEMMA KeptFinal == ASSUME IInv, Kept PROVE FinalStep
<1> USE DEF IInv, TypeOK, TaskState, Terminal, FinalStep
<1>1. CASE Quiet
  BY <1>1 DEF Quiet
<1>2. ASSUME NEW t \in Task, Queued(t) PROVE FinalStep
  BY <1>2 DEF Queued
<1>3. ASSUME NEW t \in Task, NEW w \in Worker, NEW d \in Nat, NewLease(t, w, d) PROVE FinalStep
  BY <1>3 DEF NewLease
<1>4. ASSUME NEW t \in Task, NEW s \in Terminal, Ended(t, s) PROVE FinalStep
  BY <1>4 DEF Ended
<1>5. ASSUME NEW t \in Task, NEW w \in Worker, NEW s \in Terminal, NEW r \in Result,
             Finalized(t, w, s, r)
      PROVE  FinalStep
  BY <1>5 DEF Finalized, IsLeased
<1>6. ASSUME NEW t \in Task, NEW w \in Worker, NEW c \in Channel, Alerted(t, w, c) PROVE FinalStep
  BY <1>6 DEF Alerted
<1> QED
  BY <1>1, <1>2, <1>3, <1>4, <1>5, <1>6 DEF Kept, StepKind

\* The first terminal transition of an attempt wins; only a new attempt on the
\* same worker reopens the task.
THEOREM TerminalFinality == Spec => TerminalAttemptIsFinal
<1>1. IInv /\ [Next]_ledgerVars => [FinalStep]_ledgerVars
  <2> SUFFICES ASSUME IInv, [Next]_ledgerVars PROVE FinalStep
    OBVIOUS
  <2>1. Kept
    BY StepKinds DEF IInv
  <2> QED
    BY <2>1, KeptFinal
<1> QED
  BY <1>1, Invariance, PTL DEF Spec, TerminalAttemptIsFinal, FinalStep

--------------------------------------------------------------------------------
(* Refinement of the lease specification.                                  *)

\* What a worker holds after a new lease and after an attempt ends.
LEMMA HeldAfterLease ==
  ASSUME IInv, NEW t \in Task, NEW w \in Worker, NEW d \in Nat, NewLease(t, w, d)
  PROVE  /\ HeldBy(w)' = {t} /\ HeldBy(w) \subseteq {t}
         /\ \A v \in Worker \ {w} : HeldBy(v)' = HeldBy(v)
<1> USE DEF HeldBy, NewLease, IsLeased, IInv, TypeOK, TaskState, LeaseShape
<1>1. HeldBy(w)' = {t} /\ HeldBy(w) \subseteq {t}
  OBVIOUS
<1>2. ASSUME NEW v \in Worker \ {w} PROVE HeldBy(v)' = HeldBy(v)
  <2>1. ~ (IsLeased(t) /\ tasks[t].leased_to = v)
    OBVIOUS
  <2>2. \A u \in Task : u # t => tasks'[u] = tasks[u]
    OBVIOUS
  <2>3. tasks'[t].leased_to # v
    OBVIOUS
  <2> QED
    BY <2>1, <2>2, <2>3
<1> QED
  BY <1>1, <1>2

\* Who holds a lease that just ended or began.
LEMMA HeldAfterEnd ==
  ASSUME IInv, NEW t \in Task, NEW w \in Worker, NEW s \in Terminal,
         IsLeased(t), tasks[t].leased_to = w, tasks' = [tasks EXCEPT ![t].status = s]
  PROVE  /\ HeldBy(w) = {t} /\ HeldBy(w)' = {}
         /\ \A v \in Worker \ {w} : HeldBy(v)' = HeldBy(v)
<1> USE DEF HeldBy, IsLeased, IInv, TypeOK, TaskState
<1>1. HeldBy(w) = {t}
  BY DEF OneLeasePerWorker
<1>2. /\ tasks'[t].status = s /\ s # "Leased"
      /\ \A u \in Task : tasks'[u].leased_to = tasks[u].leased_to
      /\ \A u \in Task : u # t => tasks'[u] = tasks[u]
  BY DEF Terminal
<1>3. HeldBy(w)' = {}
  BY <1>1, <1>2
<1>4. \A v \in Worker \ {w} : HeldBy(v)' = HeldBy(v)
  BY <1>2
<1> QED
  BY <1>1, <1>3, <1>4

\* The empty ledger maps to the initial state of the lease.
LEMMA InitLease == Init => Lease!Init
BY DEF Init, Lease!Init, IsLeased, HeldBy, VerdictOn

\* The end of a leased attempt is the end of the task its worker holds.
LEMMA EndConcludes ==
  ASSUME IInv, NEW t \in Task, NEW w \in Worker, NEW s \in Terminal,
         IsLeased(t), tasks[t].leased_to = w, tasks' = [tasks EXCEPT ![t].status = s]
  PROVE  Lease!Conclude(t, w, s)
<1> USE DEF IInv, TypeOK, TaskState
<1>1. HeldBy(w) = {t} /\ HeldBy(w)' = {} /\ \A v \in Worker \ {w} : HeldBy(v)' = HeldBy(v)
  BY HeldAfterEnd
<1>2. /\ tasks'[t].status = s /\ s \notin {"Absent", "Enqueued", "Leased"}
      /\ \A u \in Task : tasks'[u].leased_to = tasks[u].leased_to
      /\ \A u \in Task : tasks'[u].attempts = tasks[u].attempts
      /\ \A u \in Task : u # t => tasks'[u] = tasks[u]
  BY DEF Terminal
<1>3. VerdictOn(t)' = s /\ \A u \in Task \ {t} : VerdictOn(u)' = VerdictOn(u)
  BY <1>2 DEF VerdictOn
<1> QED
  BY <1>1, <1>2, <1>3 DEF Lease!Conclude

\* Every kind of change maps to a step of the lease or to a stutter.
LEMMA KeptLease == ASSUME IInv, Kept PROVE [Lease!Next]_(Lease!leaseVars)
<1> USE DEF Lease!leaseVars
<1> DEFINE Goal == [Lease!Next]_(Lease!leaseVars)
<1>1. CASE Quiet
  BY <1>1 DEF Quiet, IsLeased, HeldBy, VerdictOn
<1>2. ASSUME NEW t \in Task, Queued(t) PROVE Goal
  <2>1. Lease!Submit(t)
    BY <1>2 DEF Queued, Lease!Submit, IsLeased, HeldBy, VerdictOn, IInv, TypeOK, TaskState
  <2> QED
    BY <2>1 DEF Lease!Next
<1>3. ASSUME NEW t \in Task, NEW w \in Worker, NEW d \in Nat, NewLease(t, w, d) PROVE Goal
  <2>1. Lease!Grant(t, w)
    <3> USE DEF IInv, TypeOK, TaskState
    <3>1. /\ HeldBy(w)' = {t} /\ HeldBy(w) \subseteq {t}
          /\ \A v \in Worker \ {w} : HeldBy(v)' = HeldBy(v)
      BY <1>3, HeldAfterLease
    <3>2. tasks[t].status = "Enqueued" => HeldBy(w) = {} /\ tasks[t].leased_to = NoWorker
      BY <1>3 DEF NewLease, HeldBy, IsLeased, LeaseShape
    <3>3. tasks[t].status # "Absent"
      BY <1>3, LedgerAssumption DEF NewLease, LeaseShape
    <3>4. /\ tasks'[t].status = "Leased" /\ tasks'[t].leased_to = w
          /\ tasks'[t].attempts = tasks[t].attempts + 1
          /\ \A u \in Task : u # t => tasks'[u] = tasks[u]
      BY <1>3 DEF NewLease
    <3>5. tasks[t].status = "Enqueued" \/ tasks[t].leased_to = w
      BY <1>3 DEF NewLease
    <3>6. /\ VerdictOn(t)' = "Open" /\ \A u \in Task \ {t} : VerdictOn(u)' = VerdictOn(u)
          /\ VerdictOn(t) # "Unknown"
          /\ tasks[t].status = "Enqueued" => VerdictOn(t) = "Open"
      BY <3>3, <3>4 DEF VerdictOn, TaskStatus, Terminal
    <3> QED
      BY <3>1, <3>2, <3>4, <3>5, <3>6 DEF Lease!Grant
  <2> QED
    BY <2>1 DEF Lease!Next
<1>4. ASSUME NEW t \in Task, NEW s \in Terminal, Ended(t, s) PROVE Goal
  <2>1. CASE tasks[t].status = "Enqueued"
    <3>1. Lease!Withdraw(t)
      BY <1>4, <2>1 DEF Ended, Lease!Withdraw, IsLeased, HeldBy, VerdictOn, IInv, TypeOK, TaskState, LeaseShape
    <3> QED
      BY <3>1 DEF Lease!Next
  <2>2. CASE tasks[t].status = "Leased"
    <3>1. tasks[t].leased_to \in Worker
      BY <2>2 DEF IInv, LeaseShape, TypeOK, TaskState
    <3>2. IsLeased(t) /\ tasks' = [tasks EXCEPT ![t].status = s]
      BY <1>4, <2>2 DEF Ended, IsLeased
    <3> QED
      BY <3>1, <3>2, EndConcludes DEF Lease!Next, Lease!Verdict, Terminal
  <2> QED
    BY <1>4, <2>1, <2>2 DEF Ended
<1>5. ASSUME NEW t \in Task, NEW w \in Worker, NEW s \in Terminal, NEW r \in Result,
             Finalized(t, w, s, r)
      PROVE  Goal
  <2>1. Lease!Conclude(t, w, s)
    BY <1>5, EndConcludes DEF Finalized
  <2> QED
    BY <2>1 DEF Lease!Next, Lease!Verdict, Terminal
<1>6. ASSUME NEW t \in Task, NEW w \in Worker, NEW c \in Channel, Alerted(t, w, c) PROVE Goal
  BY <1>6 DEF Alerted, IsLeased, HeldBy, VerdictOn
<1> QED
  BY <1>1, <1>2, <1>3, <1>4, <1>5, <1>6 DEF Kept, StepKind

\* The ledger implements the lease specification: crashes, torn appends,
\* sequence numbers and heartbeats are invisible to it.
THEOREM LeaseRefinement == Spec => ImplementsLease
<1>1. IInv /\ [Next]_ledgerVars => [Lease!Next]_(Lease!leaseVars)
  BY StepKinds, KeptLease DEF IInv
<1> QED
  BY <1>1, InitLease, Invariance, PTL DEF Spec, ImplementsLease, Lease!Spec

--------------------------------------------------------------------------------
(* The clients of the ledger.  A module that takes its ledger steps from   *)
(* the operators above shows that they are steps of Next with these facts. *)

\* The bounds of the model hold, so that every version is one that the ledger knows.
Bounded ==
  /\ \A t \in Task : tasks[t].attempts <= MaxLeases
  /\ \A w \in Worker, t \in Task : latest_seq[w][t] <= MaxSeq
  /\ \A w \in Worker : heartbeats[w] <= MaxTime

AttemptsBounded == \A t \in Task : tasks[t].attempts <= MaxLeases
SeqsBounded == \A w \in Worker, t \in Task : latest_seq[w][t] <= MaxSeq
BeatsBounded == \A w \in Worker : heartbeats[w] <= MaxTime

\* TaskLeased keeps the attempts within their bound.
LEMMA LeasedBounded ==
  ASSUME TypeOK, AttemptsBounded, NEW t \in Task, NEW w, NEW d, TaskLeased(t, w, d)
  PROVE  AttemptsBounded'
BY LedgerAssumption DEF TypeOK, TaskState, AttemptsBounded, TaskLeased

\* A terminal record leaves the attempts as they are.
LEMMA TerminalBounded ==
  ASSUME TypeOK, AttemptsBounded, NEW t \in Task, NEW s, mark_task_terminal(t, s)
  PROVE  AttemptsBounded'
BY DEF TypeOK, TaskState, AttemptsBounded, mark_task_terminal

\* EventsAppended keeps the sequence numbers within their bound.
LEMMA AppendedBounded ==
  ASSUME TypeOK, SeqsBounded, NEW t \in Task, NEW w \in Worker, NEW n \in Nat, EventsAppended(t, w, n)
  PROVE  SeqsBounded'
BY DEF TypeOK, SeqsBounded, EventsAppended

\* A heartbeat is of a time within the bound.
LEMMA BeatBounded ==
  ASSUME TypeOK, BeatsBounded, NEW w \in Worker, NEW ts \in Timestamp, HeartbeatAt(w, ts)
  PROVE  BeatsBounded'
BY LedgerAssumption DEF TypeOK, BeatsBounded, HeartbeatAt, Timestamp

\* What is left alone stays within its bound.
LEMMA UnchangedBounded ==
  /\ AttemptsBounded /\ UNCHANGED tasks => AttemptsBounded'
  /\ SeqsBounded /\ UNCHANGED latest_seq => SeqsBounded'
  /\ BeatsBounded /\ UNCHANGED heartbeats => BeatsBounded'
BY DEF AttemptsBounded, SeqsBounded, BeatsBounded

\* Every ledger transaction stays within the bounds of the model.
LEMMA BoundedStep ==
  ASSUME TypeOK, Bounded, [Next]_ledgerVars
  PROVE  Bounded'
<1> DEFINE Goal == AttemptsBounded' /\ SeqsBounded' /\ BeatsBounded'
<1> SUFFICES Goal
  BY DEF Bounded, AttemptsBounded, SeqsBounded, BeatsBounded
<1>0. AttemptsBounded /\ SeqsBounded /\ BeatsBounded
  BY DEF Bounded, AttemptsBounded, SeqsBounded, BeatsBounded
<1>1. CASE UNCHANGED ledgerVars
  <2>1. UNCHANGED tasks /\ UNCHANGED latest_seq /\ UNCHANGED heartbeats
    BY <1>1 DEF ledgerVars
  <2> QED
    BY <1>0, <2>1, UnchangedBounded
<1>2. CASE Manage
  <2>1. ASSUME NEW r \in Run, create_run(r) PROVE Goal
    BY <1>0, <2>1, UnchangedBounded DEF create_run
  <2>2. ASSUME NEW t \in Task, enqueue(t) PROVE Goal
    <3>1. mark_task_terminal(t, "Enqueued")
      BY <2>2 DEF enqueue, mark_task_terminal
    <3> QED
      BY <1>0, <2>2, <3>1, TerminalBounded, UnchangedBounded DEF enqueue
  <2>3. ASSUME NEW t \in Task, NEW e \in Worker \cup {NoWorker}, NEW k \in 1..2,
               cancel_task_if_active(t, e, k)
        PROVE  Goal
    <3>1. BeatsBounded'
      BY <1>0, <2>3, UnchangedBounded DEF cancel_task_if_active
    <3>2. AttemptsBounded'
      BY <1>0, <2>3, TerminalBounded, UnchangedBounded DEF cancel_task_if_active
    <3>3. CASE tasks[t].leased_to # NoWorker
      <4>1. tasks[t].leased_to \in Worker /\ k \in Nat
        BY <3>3 DEF TypeOK, TaskState
      <4>2. EventsAppended(t, tasks[t].leased_to, k)
        BY <2>3, <3>3 DEF cancel_task_if_active
      <4> QED
        BY <1>0, <3>1, <3>2, <4>1, <4>2, AppendedBounded
    <3>4. CASE tasks[t].leased_to = NoWorker
      BY <1>0, <2>3, <3>1, <3>2, <3>4, UnchangedBounded DEF cancel_task_if_active
    <3> QED
      BY <3>3, <3>4
  <2> HIDE DEF Goal
  <2> QED
    BY <1>2, <2>1, <2>2, <2>3 DEF Manage
<1>3. ASSUME NEW t \in Task, NEW w \in Worker, Work(t, w) PROVE Goal
  <2>1. ASSUME NEW d \in 0..MaxTime, NEW ts \in Timestamp, NEW k \in 1..(InitialEvents + 2),
               lease_task_if_enqueued_with_events(t, w, MaxActive, d, ts, k)
        PROVE  Goal
    <3> DEFINE n == IF k - 1 < InitialEvents THEN k - 1 ELSE InitialEvents
    <3>1. n \in Nat
      BY LedgerAssumption
    <3>2. EventsAppended(t, w, n) /\ TaskLeased(t, w, d) /\ (HeartbeatAt(w, ts) \/ UNCHANGED heartbeats)
      BY <2>1 DEF lease_task_if_enqueued_with_events
    <3> HIDE DEF n
    <3> QED
      BY <1>0, <3>1, <3>2, LeasedBounded, AppendedBounded, BeatBounded, UnchangedBounded
  <2>2. ASSUME claim_next(t, w) PROVE Goal
    BY <1>0, <2>2, LeasedBounded, UnchangedBounded DEF claim_next
  <2>3. ASSUME NEW n \in 1..MaxLeases, append_event_if_leased(t, w, n) PROVE Goal
    BY <1>0, <2>3, AppendedBounded, UnchangedBounded DEF append_event_if_leased
  <2>4. ASSUME NEW n \in 1..MaxLeases, NEW p \in Terminal, NEW f \in Terminal \cup {NoStatus},
               NEW res \in Result, finalize_task_attempt_if_leased(t, w, n, p, f, res)
        PROVE  Goal
    BY <1>0, <2>4, AppendedBounded, TerminalBounded, UnchangedBounded
       DEF finalize_task_attempt_if_leased
  <2> QED
    BY <1>3, <2>1, <2>2, <2>3, <2>4 DEF Work
<1>4. ASSUME NEW t \in Task, NEW w \in Worker, Recover(t, w) PROVE Goal
  <2>1. ASSUME NEW n, NEW s, NEW h, append_event_if_lease_unchanged(t, w, n, s, h) PROVE Goal
    BY <1>0, <2>1, AppendedBounded, UnchangedBounded DEF append_event_if_lease_unchanged
  <2>2. ASSUME NEW n, NEW s, NEW h, append_terminal_event_if_lease_unchanged(t, w, n, s, h, "Failed")
        PROVE  Goal
    BY <1>0, <2>2, AppendedBounded, TerminalBounded, UnchangedBounded
       DEF append_terminal_event_if_lease_unchanged
  <2>3. ASSUME NEW n, NEW s, NEW h, NEW st, NEW d, NEW ts \in Timestamp, NEW k \in 1..4,
               restart_task_if_unchanged(t, w, st, n, s, h, d, ts, k)
        PROVE  Goal
    <3> DEFINE e == IF k < 3 THEN k - 1 ELSE 2
    <3>1. e \in Nat
      OBVIOUS
    <3>2. EventsAppended(t, w, e) /\ TaskLeased(t, w, d) /\ (HeartbeatAt(w, ts) \/ UNCHANGED heartbeats)
      BY <2>3 DEF restart_task_if_unchanged
    <3> HIDE DEF e
    <3> QED
      BY <1>0, <3>1, <3>2, LeasedBounded, AppendedBounded, BeatBounded, UnchangedBounded
  <2>4. ASSUME NEW n, NEW c, record_failed_attempt_alert_once(t, w, n, c) PROVE Goal
    BY <1>0, <2>4, AppendedBounded, UnchangedBounded DEF record_failed_attempt_alert_once
  <2> QED
    BY <1>4, <2>1, <2>2, <2>3, <2>4 DEF Recover
<1>5. ASSUME NEW w \in Worker, NEW ts \in Timestamp, heartbeat(w, ts) PROVE Goal
  BY <1>0, <1>5, BeatBounded, UnchangedBounded DEF heartbeat
<1> HIDE DEF Goal
<1> QED
  BY <1>1, <1>2, <1>3, <1>4, <1>5 DEF Next

\* A version that has not changed is one that Next ranges over.
LEMMA VersionKnown ==
  ASSUME IInv, Bounded, NEW t \in Task, NEW w \in Worker, NEW n, NEW s, NEW h,
         VersionUnchanged(t, w, n, s, h)
  PROVE  n \in 1..MaxLeases /\ s \in 0..MaxSeq /\ h \in 0..MaxTime /\ n = tasks[t].attempts
BY LedgerAssumption DEF IInv, TypeOK, TaskState, LeaseShape, Bounded, VersionUnchanged

\* A restart whose version has not changed is a ledger transaction.
LEMMA RestartIsStep ==
  ASSUME IInv, Bounded, NEW t \in Task, NEW w \in Worker, NEW st \in TaskStatus, NEW n, NEW s, NEW h,
         NEW d \in 0..MaxTime, NEW ts \in Timestamp, NEW k \in 1..4,
         restart_task_if_unchanged(t, w, st, n, s, h, d, ts, k)
  PROVE  Next /\ n = tasks[t].attempts
<1>1. n \in 1..MaxLeases /\ s \in 0..MaxSeq /\ h \in 0..MaxTime /\ n = tasks[t].attempts
  BY VersionKnown DEF restart_task_if_unchanged, CanRestart
<1>2. Recover(t, w)
  BY <1>1 DEF Recover
<1> QED
  BY <1>1, <1>2 DEF Next

\* The attempt that a worker owns is one that the ledger knows.
LEMMA OwnedAttempt ==
  ASSUME IInv, Bounded, NEW t \in Task, NEW w \in Worker, NEW n, OwnsAttempt(t, w, n)
  PROVE  n \in 1..MaxLeases
BY LedgerAssumption DEF IInv, TypeOK, TaskState, LeaseShape, Bounded, OwnsAttempt

\* Attempts only grow, and the worker of a task never changes once it has one.
LEMMA AttemptsGrow ==
  ASSUME IInv, [Next]_ledgerVars, NEW t \in Task
  PROVE  /\ tasks'[t].attempts >= tasks[t].attempts
         /\ tasks[t].attempts > 0 => tasks'[t].leased_to = tasks[t].leased_to
<1> DEFINE Goal == /\ tasks'[t].attempts >= tasks[t].attempts
                   /\ tasks[t].attempts > 0 => tasks'[t].leased_to = tasks[t].leased_to
<1> SUFFICES Goal
  OBVIOUS
<1>0. TypeOK /\ LeaseShape /\ Kept
  BY StepKinds DEF IInv
<1> USE DEF TypeOK, TaskState
<1>1. CASE Quiet
  BY <1>0, <1>1 DEF Quiet
<1>2. ASSUME NEW u \in Task, Queued(u) PROVE Goal
  BY <1>0, <1>2 DEF Queued
<1>3. ASSUME NEW u \in Task, NEW w \in Worker, NEW d \in Nat, NewLease(u, w, d) PROVE Goal
  BY <1>0, <1>3 DEF NewLease, LeaseShape
<1>4. ASSUME NEW u \in Task, NEW s \in Terminal, Ended(u, s) PROVE Goal
  BY <1>0, <1>4 DEF Ended
<1>5. ASSUME NEW u \in Task, NEW w \in Worker, NEW s \in Terminal, NEW r \in Result,
             Finalized(u, w, s, r)
      PROVE  Goal
  BY <1>0, <1>5 DEF Finalized
<1>6. ASSUME NEW u \in Task, NEW w \in Worker, NEW c \in Channel, Alerted(u, w, c) PROVE Goal
  BY <1>0, <1>6 DEF Alerted
<1> HIDE DEF Goal
<1> QED
  BY <1>0, <1>1, <1>2, <1>3, <1>4, <1>5, <1>6 DEF Kept, StepKind

================================================================================
