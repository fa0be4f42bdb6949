------------------------------- MODULE FleetLog --------------------------------
(***************************************************************************)
(* The ledger file (.codewhale/fleet.jsonl) of crates/tui/src/fleet/       *)
(* ledger.rs: a sequence of JSON lines, the records each transaction       *)
(* appends, the torn tails a dying process leaves, the replay that         *)
(* rebuilds the state, and compaction.  The module is shown to implement   *)
(* FleetLedger, whose operations speak of the rebuilt state only.          *)
(***************************************************************************)
EXTENDS Integers, FiniteSets, Sequences, SequencesExt

CONSTANTS
  Run, Task, Worker, Channel, Result, RunOf, NoWorker,
  InitialEvents, MaxActive, MaxLeases, MaxSeq, MaxTime,
  Modes,        \* what a behaviour may contain besides whole appends
  MaxRecords    \* bound: lines of the file, for each mode

ASSUME LogAssumption ==
  /\ RunOf \in [Task -> Run] /\ NoWorker \notin Worker
  /\ {InitialEvents, MaxActive, MaxLeases, MaxSeq, MaxTime} \subseteq Nat
  /\ Modes \subseteq SUBSET {"tearing", "compacting"}
  /\ MaxRecords \in [Modes -> Nat]
  /\ IsFiniteSet(Run) /\ IsFiniteSet(Task) /\ IsFiniteSet(Worker)

VARIABLES
  mode,        \* the mode of this behaviour: processes die inside appends
               \* ("tearing"), compact() is called ("compacting")
  file,        \* the lines of the file
  terminated,  \* the last byte of the file is a newline
  state        \* what rebuild_state returns for the file

logVars == <<mode, file, terminated, state>>

L == INSTANCE FleetLedger WITH
  tasks <- state.tasks, latest_seq <- state.latest_seq,
  heartbeats <- state.heartbeats, receipts <- state.receipts,
  alerts <- state.alerts, runs <- state.runs

Terminal == L!Terminal

\* Payloads a late worker may still produce after its task is over.
Regressing == {"Progress", "Stale", "Restarted", "Interrupted"}

NoEvent == [seq |-> 0, payload |-> "None"]
Malformed == [kind |-> "Malformed"]

--------------------------------------------------------------------------------
(* Records.                                                                *)

RunCreated(r) == [kind |-> "RunCreated", run |-> r]
TaskEnqueued(t, n) == [kind |-> "TaskEnqueued", task |-> t, attempts |-> n]
TaskLeased(t, w, d) == [kind |-> "TaskLeased", task |-> t, worker |-> w, expires |-> d]
TaskCompletedOrFailed(t, w, s) ==
  [kind |-> "TaskCompletedOrFailed", task |-> t, worker |-> w, status |-> s]
TaskAttemptFinalized(t, w, q, p, f, rc) ==
  [kind |-> "TaskAttemptFinalized", task |-> t, worker |-> w, seq |-> q,
   payload |-> p, final_status |-> f, receipt |-> rc]
EventAppended(t, w, q, p) ==
  [kind |-> "EventAppended", task |-> t, worker |-> w, seq |-> q, payload |-> p]
EventSequenceCheckpoint(t, w, q) ==
  [kind |-> "EventSequenceCheckpoint", task |-> t, worker |-> w, seq |-> q]
Heartbeat(w, ts) == [kind |-> "Heartbeat", worker |-> w, timestamp |-> ts]
ReceiptRecorded(t, rc) == [kind |-> "ReceiptRecorded", task |-> t, receipt |-> rc]
AlertSent(t, w, n, c, q) ==
  [kind |-> "AlertSent", task |-> t, worker |-> w, attempt |-> n, channel |-> c, seq |-> q]

--------------------------------------------------------------------------------
(* Replay.                                                                 *)

EmptyState ==
  [tasks |-> [t \in Task |-> [status |-> "Absent", leased_to |-> NoWorker,
                              attempts |-> 0, lease_deadline |-> 0]],
   latest_seq |-> [w \in Worker |-> [t \in Task |-> 0]],
   heartbeats |-> [w \in Worker |-> 0],
   receipts |-> [t \in Task |-> L!NoReceipt],
   alerts |-> {}, runs |-> {},
   latest_events |-> [w \in Worker |-> [t \in Task |-> NoEvent]],
   restarted_events |-> [w \in Worker |-> [t \in Task |-> NoEvent]],
   escalated_events |-> [w \in Worker |-> [t \in Task |-> NoEvent]],
   alert_seq |-> {}]

mark_task_terminal(s, t, w, status) ==
  IF s.tasks[t].status = "Absent" THEN s
  ELSE [s EXCEPT !.tasks[t].status = status,
                 !.tasks[t].leased_to = IF w = NoWorker THEN @ ELSE w]

apply_event(s, t, w, q, p) ==
  LET regresses == s.tasks[t].status \in Terminal /\ p \in Regressing
      e == [seq |-> q, payload |-> p]
      fresh == q > s.latest_seq[w][t]
      recorded == [s EXCEPT
        !.latest_seq[w][t] = IF fresh THEN q ELSE @,
        !.latest_events[w][t] = IF fresh /\ ~ regresses THEN e ELSE @,
        !.restarted_events[w][t] = IF p = "Restarted" THEN e ELSE @,
        !.escalated_events[w][t] = IF p = "Escalated" THEN e ELSE @]
  IN  IF p \in Terminal THEN mark_task_terminal(recorded, t, w, p) ELSE recorded

apply_finalized(s, rec) ==
  LET ended == apply_event(s, rec.task, rec.worker, rec.seq, rec.payload)
      final == IF rec.final_status = L!NoStatus THEN ended
               ELSE mark_task_terminal(ended, rec.task, rec.worker, rec.final_status)
  IN  [final EXCEPT !.receipts[rec.task] = rec.receipt]

\* Mutant: the number of an alert's event is not counted.
apply_alert_uncounted(s, rec) ==
  LET key == <<rec.task, rec.attempt, rec.channel>>
  IN  [s EXCEPT !.alerts = @ \cup {key}, !.alert_seq = @ \cup {<<key, rec.worker, rec.seq>>}]

apply_alert(s, rec) ==
  LET key == <<rec.task, rec.attempt, rec.channel>>
      sent == [s EXCEPT !.alerts = @ \cup {key}, !.alert_seq = @ \cup {<<key, rec.worker, rec.seq>>}]
  IN  IF key \in s.alerts THEN s
      ELSE apply_event(sent, rec.task, rec.worker, rec.seq, "Escalated")

apply_record(s, rec) ==
  CASE rec.kind = "RunCreated" -> [s EXCEPT !.runs = @ \cup {rec.run}]
    [] rec.kind = "TaskEnqueued" ->
         IF s.tasks[rec.task].status # "Absent" THEN s
         ELSE [s EXCEPT !.tasks[rec.task].status = "Enqueued",
                        !.tasks[rec.task].attempts = rec.attempts]
    [] rec.kind = "TaskLeased" ->
         IF s.tasks[rec.task].status = "Absent" THEN s
         ELSE [s EXCEPT !.tasks[rec.task] =
                [status |-> "Leased", leased_to |-> rec.worker,
                 attempts |-> @.attempts + 1, lease_deadline |-> rec.expires]]
    [] rec.kind = "TaskCompletedOrFailed" ->
         mark_task_terminal(s, rec.task, rec.worker, rec.status)
    [] rec.kind = "TaskAttemptFinalized" -> apply_finalized(s, rec)
    [] rec.kind = "EventAppended" -> apply_event(s, rec.task, rec.worker, rec.seq, rec.payload)
    [] rec.kind = "EventSequenceCheckpoint" ->
         [s EXCEPT !.latest_seq[rec.worker][rec.task] = IF rec.seq > @ THEN rec.seq ELSE @]
    [] rec.kind = "Heartbeat" ->
         [s EXCEPT !.heartbeats[rec.worker] = rec.timestamp]
    [] rec.kind = "ReceiptRecorded" -> [s EXCEPT !.receipts[rec.task] = rec.receipt]
    [] rec.kind = "AlertSent" -> apply_alert(s, rec)
    [] rec.kind = "Malformed" -> s

rebuild_state(lines) ==
  LET replayed[n \in 0..Len(lines)] ==
        IF n = 0 THEN EmptyState ELSE apply_record(replayed[n - 1], lines[n])
  IN  replayed[Len(lines)]

--------------------------------------------------------------------------------
(* Appending.                                                              *)

Written(lines, newline) ==
  /\ Len(lines) <= MaxRecords[mode]
  /\ UNCHANGED mode
  /\ file' = lines
  /\ terminated' = newline
  /\ state' = rebuild_state(lines)

\* The whole batch.  An unterminated tail is first closed by a newline, which
\* makes a fragment a malformed line of its own.
Appended(recs) == Written(file \o recs, TRUE)

\* The process dies after k records: between two lines, before the newline of
\* the k-th, or inside the next one.
Torn(recs) ==
  /\ "tearing" \in mode
  /\ \E k \in 0..(Len(recs) - 1) :
       \/ Written(file \o SubSeq(recs, 1, k), TRUE)
       \/ k > 0 /\ Written(file \o SubSeq(recs, 1, k), FALSE)
       \/ Written(file \o SubSeq(recs, 1, k) \o <<Malformed>>, FALSE)

append_records_unlocked(recs) == Appended(recs) \/ Torn(recs)

NextSeq(t, w) == state.latest_seq[w][t] + 1

\* Room for n more events, within the bound of the ledger model.
Room(t, w, n) == state.latest_seq[w][t] + n <= MaxSeq

--------------------------------------------------------------------------------
(* Operations: the transaction's condition on the replayed state, and the  *)
(* records it appends.                                                     *)

create_run(r) == append_records_unlocked(<<RunCreated(r)>>)

\* Once per task key: replay keeps the first TaskEnqueued record.
enqueue(t) ==
  /\ state.tasks[t].status = "Absent"
  /\ append_records_unlocked(<<TaskEnqueued(t, 0)>>)

lease_task_if_enqueued_with_events(t, w, max_active, d, ts) ==
  /\ L!CanLease(t, w, max_active)
  /\ state.tasks[t].attempts < MaxLeases /\ Room(t, w, InitialEvents)
  /\ append_records_unlocked(
       <<TaskLeased(t, w, d)>>
       \o [i \in 1..InitialEvents |-> EventAppended(t, w, NextSeq(t, w) + i - 1, "Progress")]
       \o <<Heartbeat(w, ts)>>)

claim_next(t, w) ==
  /\ ~ L!HoldsLease(w)
  /\ state.tasks[t].status = "Enqueued"
  /\ state.tasks[t].attempts < MaxLeases
  /\ append_records_unlocked(<<TaskLeased(t, w, 0)>>)

append_event_if_leased(t, w, n) ==
  /\ L!OwnsAttempt(t, w, n)
  /\ Room(t, w, 1)
  /\ append_records_unlocked(<<EventAppended(t, w, NextSeq(t, w), "Progress")>>)

append_event_if_lease_unchanged(t, w, n, s, h) ==
  /\ L!LeaseUnchanged(t, w, n, s, h)
  /\ Room(t, w, 1)
  /\ append_records_unlocked(<<EventAppended(t, w, NextSeq(t, w), "Stale")>>)

finalize_task_attempt_if_leased(t, w, n, p, f, res) ==
  /\ L!OwnsAttempt(t, w, n)
  /\ Room(t, w, 1)
  /\ append_records_unlocked(<<TaskAttemptFinalized(t, w, NextSeq(t, w), p, f,
       [worker_id |-> w, attempt |-> n, terminal_seq |-> NextSeq(t, w), result |-> res])>>)

append_terminal_event_if_lease_unchanged(t, w, n, s, h, p) ==
  /\ L!LeaseUnchanged(t, w, n, s, h)
  /\ Room(t, w, 1)
  /\ append_records_unlocked(<<EventAppended(t, w, NextSeq(t, w), p)>>)

restart_task_if_unchanged(t, w, st, n, s, h, d, ts) ==
  /\ L!CanRestart(t, w, st, n, s, h)
  /\ state.tasks[t].attempts < MaxLeases /\ Room(t, w, 2)
  /\ append_records_unlocked(
       <<TaskLeased(t, w, d), EventAppended(t, w, NextSeq(t, w), "Restarted"),
         EventAppended(t, w, NextSeq(t, w) + 1, "Progress"), Heartbeat(w, ts)>>)

cancel_task_if_active(t, expected) ==
  LET w == state.tasks[t].leased_to IN
  /\ state.tasks[t].status \in {"Enqueued", "Leased"}
  /\ expected # NoWorker => L!IsLeased(t) /\ w = expected
  /\ \/ /\ w # NoWorker
        /\ Room(t, w, 2)
        /\ append_records_unlocked(
             <<EventAppended(t, w, NextSeq(t, w), "Interrupted"),
               EventAppended(t, w, NextSeq(t, w) + 1, "Cancelled")>>)
     \/ /\ w = NoWorker
        /\ append_records_unlocked(<<TaskCompletedOrFailed(t, NoWorker, "Cancelled")>>)

heartbeat(w, ts) == append_records_unlocked(<<Heartbeat(w, ts)>>)

record_failed_attempt_alert_once(t, w, n, c) ==
  /\ L!CanAlert(t, w, n, c)
  /\ Room(t, w, 1)
  /\ append_records_unlocked(<<AlertSent(t, w, n, c, NextSeq(t, w))>>)

--------------------------------------------------------------------------------
(* Compaction: the checkpoint is written to a temporary file and renamed.  *)

\* One sequence of the given lines for each element of a set, in some order.
LinesFor(S, lines(_)) == FlattenSeq(SetToSeq({lines(x) : x \in S}))

\* Mutant: the attempt that TaskLeased counts again is not taken off.
TaskLinesRecounted(s, t) ==
  LET ts == s.tasks[t]
  IN  <<TaskEnqueued(t, ts.attempts)>>
      \o (IF ts.leased_to # NoWorker
          THEN <<TaskLeased(t, ts.leased_to, ts.lease_deadline)>> ELSE <<>>)

TaskLines(s, t) ==
  LET ts == s.tasks[t]
      leased == ts.leased_to # NoWorker
  IN  <<TaskEnqueued(t, IF leased THEN ts.attempts - 1 ELSE ts.attempts)>>
      \o (IF leased THEN <<TaskLeased(t, ts.leased_to, ts.lease_deadline)>> ELSE <<>>)

\* The retained events of one worker and task, by sequence number.
EventLines(s, w, t) ==
  LET kept == {s.latest_events[w][t], s.restarted_events[w][t], s.escalated_events[w][t]}
                \ {NoEvent}
  IN  FlattenSeq([n \in 1..s.latest_seq[w][t] |->
        LinesFor({e \in kept : e.seq = n}, LAMBDA e : <<EventAppended(t, w, n, e.payload)>>)])

TerminalLines(s, t) ==
  IF s.tasks[t].status \in Terminal
  THEN <<TaskCompletedOrFailed(t, s.tasks[t].leased_to, s.tasks[t].status)>> ELSE <<>>

Checkpoint(s) ==
  LET known == {t \in Task : s.tasks[t].status # "Absent"}
      streams == {p \in Worker \X Task : s.latest_seq[p[1]][p[2]] > 0}
      seen == {w \in Worker : s.heartbeats[w] > 0}
      receipted == {t \in Task : s.receipts[t] # L!NoReceipt}
  IN  LinesFor(s.runs, LAMBDA r : <<RunCreated(r)>>)
      \o LinesFor(known, LAMBDA t : TaskLines(s, t))
      \o LinesFor(s.alert_seq, LAMBDA a : <<AlertSent(a[1][1], a[2], a[1][2], a[1][3], a[3])>>)
      \o LinesFor(streams, LAMBDA p : EventLines(s, p[1], p[2]))
      \o LinesFor(streams, LAMBDA p :
           <<EventSequenceCheckpoint(p[2], p[1], s.latest_seq[p[1]][p[2]])>>)
      \o LinesFor(seen, LAMBDA w : <<Heartbeat(w, s.heartbeats[w])>>)
      \o LinesFor(known, LAMBDA t : TerminalLines(s, t))
      \o LinesFor(receipted, LAMBDA t : <<ReceiptRecorded(t, s.receipts[t])>>)

compact ==
  /\ "compacting" \in mode
  /\ UNCHANGED mode
  /\ file' = Checkpoint(state)
  /\ terminated' = TRUE
  /\ state' = rebuild_state(file')

--------------------------------------------------------------------------------
Init ==
  /\ mode \in Modes
  /\ file = <<>>
  /\ terminated = TRUE
  /\ state = EmptyState

Manage ==
  \/ \E r \in Run \ state.runs : create_run(r)
  \/ \E t \in Task : RunOf[t] \in state.runs /\ enqueue(t)
  \/ \E t \in Task, e \in Worker \cup {NoWorker} : cancel_task_if_active(t, e)

Work(t, w) ==
  \/ \E d \in 0..MaxTime, ts \in L!Timestamp :
       lease_task_if_enqueued_with_events(t, w, MaxActive, d, ts)
  \/ claim_next(t, w)
  \/ \E n \in 1..MaxLeases : append_event_if_leased(t, w, n)
  \/ \E n \in 1..MaxLeases, p \in Terminal, f \in Terminal \cup {L!NoStatus},
        res \in Result : finalize_task_attempt_if_leased(t, w, n, p, f, res)

Recover(t, w) ==
  LET n == state.tasks[t].attempts
      s == state.latest_seq[w][t]
      h == state.heartbeats[w]
  IN
  \/ append_event_if_lease_unchanged(t, w, n, s, h)
  \/ append_terminal_event_if_lease_unchanged(t, w, n, s, h, "Failed")
  \/ \E d \in 0..MaxTime, ts \in L!Timestamp :
       restart_task_if_unchanged(t, w, state.tasks[t].status, n, s, h, d, ts)
  \/ \E c \in Channel : record_failed_attempt_alert_once(t, w, n, c)

Next ==
  \/ Manage
  \/ \E t \in Task, w \in Worker : Work(t, w) \/ Recover(t, w)
  \/ \E w \in Worker, ts \in L!Timestamp : heartbeat(w, ts)
  \/ compact

Spec == Init /\ [][Next]_logVars

--------------------------------------------------------------------------------
(* Properties.                                                             *)

\* The numbers a line carries or accounts for, and whether line x of one stream
\* comes to a later number than line y of the same stream.
Numbered == {"EventAppended", "TaskAttemptFinalized", "AlertSent", "EventSequenceCheckpoint"}
NumberedAfter(y, x) ==
  x.kind \in Numbered /\ y.kind \in Numbered /\ x.worker = y.worker /\ x.task = y.task
    => x.seq > y.seq

\* No event number is given out twice, whatever was torn or compacted before:
\* replay never forgets a number (a compaction drops the lines but keeps the
\* mark), and a line that an append adds carries a number above every earlier
\* line of its worker and task.
NumbersGivenOnce ==
  [][/\ \A w \in Worker, t \in Task : state'.latest_seq[w][t] >= state.latest_seq[w][t]
     /\ compact \/ \A i \in (Len(file) + 1)..Len(file') :
                      \A j \in 1..(i - 1) : NumberedAfter(file'[j], file'[i])]_logVars

\* Every append, whole or torn, and every compaction is a step of the ledger
\* specification on the replayed state, or leaves that state alone.
ImplementsLedger == L!Spec

\* compact() preserves the tasks, receipts, alerts, heartbeats and sequence
\* numbers of the replayed state ("rewriting only the records needed to
\* reconstruct current state").
CompactionPreservesState ==
  [][compact => \A f \in {"tasks", "latest_seq", "heartbeats", "receipts", "alerts", "runs"} :
                  state'[f] = state[f]]_logVars
================================================================================
