---------------------------- MODULE AutomationManager ---------------------------
(***************************************************************************)
(* Durable recurring automations (crates/tui/src/automation_manager.rs):   *)
(* a scheduler that reconciles runs with their tasks and then enqueues due *)
(* slots, embedding hosts that reconcile "during boot and retention        *)
(* ticks", callers that run an automation now, and callers that create,    *)
(* pause, resume and delete.  The shared mutex is held for each phase and  *)
(* dropped across every call of the task manager, so each phase is one     *)
(* action.  Records live in files; a crash loses only who was doing what.  *)
(* The task manager is its promise, module TaskBoard.  One process has the *)
(* directory: nothing in the code keeps a second one out.                  *)
(*                                                                         *)
(* The task that the enqueue of run r adds is named r.  Runs are numbered  *)
(* in the order of their creation, the order in which list_runs sorts.     *)
(* An rrule is a fixed period (the next slot is strictly later, as both    *)
(* frequencies compute it); legacy run files, model and mode are left out. *)
(***************************************************************************)
EXTENDS Naturals, FiniteSets, TaskBoard

CONSTANTS
  Automation,  \* automation ids
  Caller,      \* callers of run_now_shared
  Host,        \* callers of reconcile_run_statuses_shared besides the scheduler
  MaxRuns,     \* bound: run records
  Period,      \* distance of slots
  Grace,       \* AUTOMATION_MISFIRE_GRACE_SECS
  Window,      \* runs of an automation the reconciliation lists (100)
  MaxTime,     \* bound: clock
  MaxFaults    \* bound: crashes and failed calls

Run == 1 .. MaxRuns

ASSUME AutomationAssumption ==
  /\ BoardTask = Run
  /\ Outcome \subseteq {"Completed", "Failed", "Canceled"}
  /\ Period \in Nat \ {0}
  /\ {Grace, Window, MaxTime, MaxFaults, MaxRuns} \subseteq Nat

VARIABLES
  now,          \* the clock
  automations,  \* automation files: status, next_run_at (0: none)
  runs,         \* run files: status of each run
  origin,       \* automation_id and scheduled_for of each run (0: run now)
  drawn,        \* run records made so far
  added,        \* runs whose task was added (history)
  pruned,       \* runs that were over when retention deleted them (history)
  sched,        \* the scheduler: program counter, runs to do, run in hand
  host,         \* each host, like the scheduler while it reconciles
  caller,       \* each caller: program counter and run in hand
  faults        \* crashes and failed calls

records == <<automations, runs>>
automationVars ==
  <<now, automations, runs, origin, drawn, added, pruned, sched, host, caller, faults, board>>

Manual == 0
NoRun == 0
Idle == [pc |-> "idle", todo |-> {}, run |-> NoRun, status |-> "Absent"]
NoCall == [pc |-> "idle", run |-> NoRun, status |-> "Absent"]

\* "Active" is Queued or Running with a task id; "NotAdded" is Failed without.
RunStatus == {"Absent", "Active", "NotAdded"} \cup Outcome

Init ==
  /\ BoardInit
  /\ now = 0
  /\ automations = [a \in Automation |-> [status |-> "Absent", next |-> 0]]
  /\ runs = [r \in Run |-> "Absent"]
  /\ origin = [r \in Run |-> [of |-> "none", slot |-> 0]]
  /\ drawn = 0
  /\ added = {}
  /\ pruned = {}
  /\ sched = Idle
  /\ host = [h \in Host |-> Idle]
  /\ caller = [c \in Caller |-> NoCall]
  /\ faults = 0

RunsOf(a) == {r \in 1 .. drawn : origin[r].of = a /\ runs[r] # "Absent"}
Exists(a) == automations[a].status \in {"Active", "Paused"}
IsDue(a) == automations[a].status = "Active" /\ automations[a].next <= now

next_after(t) == (t \div Period + 1) * Period

Fault == faults < MaxFaults /\ faults' = faults + 1

--------------------------------------------------------------------------------
(* Automations.                                                            *)

Armed(a, status, next) == automations' = [automations EXCEPT ![a] = [status |-> status, next |-> next]]

create_automation(a) ==
  /\ automations[a].status = "Absent"
  /\ \/ Armed(a, "Active", next_after(now))
     \/ Armed(a, "Paused", 0)
  /\ UNCHANGED <<now, runs, origin, drawn, added, pruned, sched, host, caller, faults, board>>

\* update_automation with a status: pausing forgets the slot, resuming takes the
\* first one in the future.
pause_automation(a) ==
  /\ Exists(a)
  /\ Armed(a, "Paused", 0)
  /\ UNCHANGED <<now, runs, origin, drawn, added, pruned, sched, host, caller, faults, board>>

resume_automation(a) ==
  /\ Exists(a)
  /\ Armed(a, "Active", next_after(now))
  /\ UNCHANGED <<now, runs, origin, drawn, added, pruned, sched, host, caller, faults, board>>

\* The record, then the directory of runs; a failure between them leaves the runs.
delete_automation(a) ==
  /\ Exists(a)
  /\ Armed(a, "Deleted", 0)
  /\ \/ /\ runs' = [r \in Run |-> IF origin[r].of = a THEN "Absent" ELSE runs[r]]
        /\ UNCHANGED faults
     \/ RunsOf(a) # {} /\ Fault /\ UNCHANGED runs
  /\ UNCHANGED <<now, origin, drawn, added, pruned, sched, host, caller, board>>

\* Mutant: active runs are pruned too.
prune_any_run(r) ==
  /\ runs[r] # "Absent"
  /\ board' = [board EXCEPT ![r] = "Absent"]
  /\ runs' = [runs EXCEPT ![r] = "Absent"]
  /\ pruned' = IF runs[r] = "Active" THEN pruned ELSE pruned \cup {r}
  /\ UNCHANGED <<now, automations, origin, drawn, added, sched, host, caller, faults>>

\* A terminal run goes with its task, the task first.
delete_terminal_run(r) ==
  /\ runs[r] \in Outcome \cup {"NotAdded"}
  /\ board[r] # "Open" \/ runs[r] = "NotAdded"
  /\ board' = IF runs[r] = "NotAdded" THEN board ELSE [board EXCEPT ![r] = "Absent"]
  /\ pruned' = pruned \cup {r}
  /\ \/ runs' = [runs EXCEPT ![r] = "Absent"] /\ UNCHANGED faults
     \/ board' # board /\ Fault /\ UNCHANGED runs
  /\ UNCHANGED <<now, automations, origin, drawn, added, sched, host, caller>>

--------------------------------------------------------------------------------
(* Enqueueing: enqueue_run_task, without the lock.                         *)

\* The status the run record gets in memory.  An error of add_task may leave the
\* task in the manager's queue all the same (module TaskManager, add_task).
enqueue_run_task(r, status) ==
  \/ /\ status = "Active"
     /\ board' = [board EXCEPT ![r] = "Open"]
     /\ added' = added \cup {r}
     /\ UNCHANGED faults
  \/ /\ status = "NotAdded"
     /\ Fault
     /\ \/ board' = [board EXCEPT ![r] = "Open"] /\ added' = added \cup {r}
        \/ UNCHANGED <<board, added>>

new_run_record(a, slot) ==
  /\ drawn < MaxRuns
  /\ drawn' = drawn + 1
  /\ origin' = [origin EXCEPT ![drawn + 1] = [of |-> a, slot |-> slot]]

save_run(r, status) == runs' = [runs EXCEPT ![r] = status]

\* run_now_with: read the automation; enqueue; save the run.
run_now(c, a) ==
  /\ caller[c].pc = "idle"
  /\ Exists(a)
  /\ new_run_record(a, Manual)
  /\ caller' = [caller EXCEPT ![c] = [NoCall EXCEPT !.pc = "enqueue", !.run = drawn + 1]]
  /\ UNCHANGED <<now, records, added, pruned, sched, host, faults, board>>

run_now_enqueue(c) ==
  /\ caller[c].pc = "enqueue"
  /\ \E status \in {"Active", "NotAdded"} :
       /\ enqueue_run_task(caller[c].run, status)
       /\ caller' = [caller EXCEPT ![c].pc = "save", ![c].status = status]
  /\ UNCHANGED <<now, records, origin, drawn, pruned, sched, host>>

run_now_save(c) ==
  /\ caller[c].pc = "save"
  /\ \/ save_run(caller[c].run, caller[c].status) /\ UNCHANGED faults
     \/ Fault /\ UNCHANGED runs
  /\ caller' = [caller EXCEPT ![c] = NoCall]
  /\ UNCHANGED <<now, automations, origin, drawn, added, pruned, sched, host, board>>

--------------------------------------------------------------------------------
(* Reconciliation: reconcile_run_statuses_shared, by the scheduler before  *)
(* each tick and by hosts at any time.  Each goes through its snapshot of  *)
(* the runs that wait for a task, whatever the others do.                  *)

\* collect_pending_runs: the newest Window runs of each automation, those that
\* wait for a task.
Listed(a) == {r \in RunsOf(a) : Cardinality({s \in RunsOf(a) : s > r}) < Window}

\* Mutant: paused automations are left out.
pending_of_active ==
  {r \in UNION {Listed(a) : a \in {b \in Automation : automations[b].status = "Active"}} :
     runs[r] = "Active"}

collect_pending_runs ==
  {r \in UNION {Listed(a) : a \in {b \in Automation : Exists(b)}} : runs[r] = "Active"}

Collected == [Idle EXCEPT !.pc = "reconcile", !.todo = collect_pending_runs]

StatusOf(r) == IF board[r] = "Open" THEN "Active" ELSE board[r]

\* get_task without the lock; a task that is not found is skipped.
LookedUp(x, r) ==
  IF board[r] = "Absent" THEN [x EXCEPT !.todo = @ \ {r}]
  ELSE [x EXCEPT !.pc = "apply", !.todo = @ \ {r}, !.run = r, !.status = StatusOf(r)]

Applied(x) == [x EXCEPT !.pc = "reconcile", !.run = NoRun, !.status = "Absent"]

\* Save what the task said, whatever the record says by now; an open task may have
\* changed nothing.
SaveStatus(x) ==
  /\ save_run(x.run, x.status) \/ (x.status = "Active" /\ UNCHANGED runs)
  /\ UNCHANGED faults

\* The run or, behind a run that is over, the automation (last_run_at) cannot be
\* saved; the pass ends.
SaveStatusFails(x) ==
  /\ Fault
  /\ UNCHANGED runs \/ (x.status # "Active" /\ save_run(x.run, x.status))

host_reconcile(h) ==
  /\ host[h].pc = "idle"
  /\ host' = [host EXCEPT ![h] = Collected]
  /\ UNCHANGED <<now, records, origin, drawn, added, pruned, sched, caller, faults, board>>

host_lookup(h) ==
  /\ host[h].pc = "reconcile"
  /\ \E r \in host[h].todo : host' = [host EXCEPT ![h] = LookedUp(host[h], r)]
  /\ UNCHANGED <<now, records, origin, drawn, added, pruned, sched, caller, faults, board>>

host_apply(h) ==
  /\ host[h].pc = "apply"
  /\ \/ SaveStatus(host[h]) /\ host' = [host EXCEPT ![h] = Applied(host[h])]
     \/ SaveStatusFails(host[h]) /\ host' = [host EXCEPT ![h] = Idle]
  /\ UNCHANGED <<now, automations, origin, drawn, added, pruned, sched, caller, board>>

host_reconciled(h) ==
  /\ host[h].pc = "reconcile"
  /\ host[h].todo = {}
  /\ host' = [host EXCEPT ![h] = Idle]
  /\ UNCHANGED <<now, records, origin, drawn, added, pruned, sched, caller, faults, board>>

--------------------------------------------------------------------------------
(* The scheduler task: reconcile, tick, sleep, for ever.                   *)

At(pc) == sched.pc = pc

reconcile ==
  /\ At("idle")
  /\ sched' = Collected
  /\ UNCHANGED <<now, records, origin, drawn, added, pruned, host, caller, faults, board>>

lookup ==
  /\ At("reconcile")
  /\ \E r \in sched.todo : sched' = LookedUp(sched, r)
  /\ UNCHANGED <<now, records, origin, drawn, added, pruned, host, caller, faults, board>>

apply_task_status ==
  /\ At("apply")
  /\ \/ SaveStatus(sched) /\ sched' = Applied(sched)
     \/ SaveStatusFails(sched) /\ sched' = [Idle EXCEPT !.pc = "tick"]
  /\ UNCHANGED <<now, automations, origin, drawn, added, pruned, host, caller, board>>

reconciled ==
  /\ At("reconcile")
  /\ sched.todo = {}
  /\ sched' = [Idle EXCEPT !.pc = "tick"]
  /\ UNCHANGED <<now, records, origin, drawn, added, pruned, host, caller, faults, board>>

\* A due slot is skipped when it was run, when a run is active, or when it was
\* missed by more than the grace time.
SlotTaken(a) == \E r \in RunsOf(a) : origin[r].slot = automations[a].next
HasActiveRun(a) == \E r \in RunsOf(a) : runs[r] = "Active"
Missed(a) == now - automations[a].next > Grace

\* Mutants: one of the conditions is not checked.
SkippedUnlessTaken(a) == HasActiveRun(a) \/ Missed(a)
SkippedUnlessActive(a) == SlotTaken(a) \/ Missed(a)

Skipped(a) == SlotTaken(a) \/ HasActiveRun(a) \/ Missed(a)

\* The automations of S with the first slot in the future.
Advanced(S) ==
  [a \in Automation |->
     IF a \in S THEN [automations[a] EXCEPT !.next = next_after(now)] ELSE automations[a]]

\* collect_due_runs: skipped slots jump to the first future one; the others, with
\* the slot they are due for, are enqueued one after another.  A save that fails
\* ends the sweep and the tick.
collect_due_runs ==
  LET due == {a \in Automation : IsDue(a) /\ ~ Skipped(a)}
      skipped == {a \in Automation : IsDue(a) /\ Skipped(a)}
  IN /\ At("tick")
     /\ \/ /\ automations' = Advanced(skipped)
           /\ sched' = [Idle EXCEPT !.pc = "due", !.todo = {<<a, automations[a].next>> : a \in due}]
           /\ UNCHANGED faults
        \/ /\ Fault
           /\ \E S \in SUBSET skipped : S # skipped /\ automations' = Advanced(S)
           /\ sched' = Idle
     /\ UNCHANGED <<now, runs, origin, drawn, added, pruned, host, caller, board>>

\* Phase 2 of scheduler_tick_shared.  Bound: with no record left the pass ends.
enqueue_due ==
  /\ At("due")
  /\ \/ \E d \in sched.todo, status \in {"Active", "NotAdded"} :
          /\ new_run_record(d[1], d[2])
          /\ enqueue_run_task(drawn + 1, status)
          /\ sched' = [pc |-> "finish", todo |-> sched.todo \ {d}, run |-> drawn + 1, status |-> status]
     \/ /\ sched.todo = {} \/ drawn = MaxRuns
        /\ sched' = Idle
        /\ UNCHANGED <<origin, drawn, added, faults, board>>
  /\ UNCHANGED <<now, records, pruned, host, caller>>

\* The slot after the one that ran, whatever became of the automation meanwhile.
advance_slot(r) ==
  LET a == origin[r].of
  IN automations' = IF Exists(a)
                    THEN [automations EXCEPT ![a].next = next_after(origin[r].slot)]
                    ELSE automations

\* Phase 3: the run, then the automation.  A failed save ends the pass.
finish_scheduled_run ==
  /\ At("finish")
  /\ \/ /\ save_run(sched.run, sched.status)
        /\ advance_slot(sched.run)
        /\ sched' = [Idle EXCEPT !.pc = "due", !.todo = sched.todo]
        /\ UNCHANGED faults
     \/ /\ Fault
        /\ save_run(sched.run, sched.status) \/ UNCHANGED runs
        /\ sched' = Idle
        /\ UNCHANGED automations
  /\ UNCHANGED <<now, origin, drawn, added, pruned, host, caller, board>>

--------------------------------------------------------------------------------
\* A task ends in the task manager.
task_ends(r) ==
  /\ board[r] = "Open"
  /\ \E o \in Outcome : board' = [board EXCEPT ![r] = o]
  /\ UNCHANGED <<now, records, origin, drawn, added, pruned, sched, host, caller, faults>>

tick ==
  /\ now < MaxTime
  /\ now' = now + 1
  /\ UNCHANGED <<records, origin, drawn, added, pruned, sched, host, caller, faults, board>>

\* The process dies and starts again; what was in hand is lost.
crash ==
  /\ Fault
  /\ sched' = Idle
  /\ host' = [h \in Host |-> Idle]
  /\ caller' = [c \in Caller |-> NoCall]
  /\ UNCHANGED <<now, records, origin, drawn, added, pruned, board>>

Scheduler ==
  reconcile \/ lookup \/ apply_task_status \/ reconciled \/ collect_due_runs \/ enqueue_due
  \/ finish_scheduled_run

Next ==
  \/ Scheduler
  \/ \E a \in Automation :
       create_automation(a) \/ pause_automation(a) \/ resume_automation(a) \/ delete_automation(a)
  \/ \E c \in Caller :
       (\E a \in Automation : run_now(c, a)) \/ run_now_enqueue(c) \/ run_now_save(c)
  \/ \E h \in Host :
       host_reconcile(h) \/ host_lookup(h) \/ host_apply(h) \/ host_reconciled(h)
  \/ \E r \in Run : delete_terminal_run(r) \/ task_ends(r)
  \/ tick
  \/ crash

\* The runtime polls the scheduler; its waits are bounded.
Spec == Init /\ [][Next]_automationVars /\ WF_automationVars(Scheduler)

--------------------------------------------------------------------------------
(* Properties.                                                             *)

TypeOK ==
  /\ now \in Nat
  /\ automations \in [Automation -> [status : {"Absent", "Active", "Paused", "Deleted"}, next : Nat]]
  /\ runs \in [Run -> RunStatus]
  /\ origin \in [Run -> [of : Automation \cup {"none"}, slot : Nat]]
  /\ drawn \in 0 .. MaxRuns
  /\ added \subseteq Run
  /\ pruned \subseteq Run
  /\ sched.pc \in {"idle", "reconcile", "apply", "tick", "due", "finish"}
  /\ \A h \in Host : host[h].pc \in {"idle", "reconcile", "apply"}
  /\ caller \in [Caller -> [pc : {"idle", "enqueue", "save"}, run : Run \cup {NoRun}, status : RunStatus]]
  /\ faults \in Nat
  /\ board \in [Run -> {"Absent", "Open"} \cup Outcome]

\* A slot has one run record, through crashes between the steps of its enqueueing
\* (the run-per-slot check of collect_due_runs), not counting the records that
\* retention deleted and a reconciliation wrote again.
OneRunPerSlot ==
  \A r, s \in (1 .. drawn) \ pruned :
    /\ runs[r] # "Absent"
    /\ runs[s] # "Absent"
    /\ origin[r] = origin[s]
    /\ origin[r].slot # Manual
    => r = s

\* A slot is handed to the task manager once ("a crash mid-enqueue retries the
\* slot; the run-per-slot check keeps that idempotent").
SlotHandedOnce ==
  \A r, s \in added : origin[r] = origin[s] /\ origin[r].slot # Manual => r = s

\* Scheduled runs of an automation do not overlap, except that each crash or failed
\* call may leave one task that no run record tells of ("non-overlapping").
ScheduledRuns(a) == {r \in added : origin[r].of = a /\ origin[r].slot # Manual}
NonOverlap ==
  \A a \in Automation : Cardinality({r \in ScheduledRuns(a) : board[r] = "Open"}) <= 1 + faults

\* The task of an active run is not deleted by retention ("Active runs ... are
\* never candidates for retention cleanup"): the reconciliation would skip the run
\* for ever, and its automation would never be due again.
ActiveHasTask == \A r \in Run : runs[r] = "Active" => board[r] # "Absent"

\* However the reconciliations of several callers overtake each other and the ends
\* of the tasks, with no lock held at a lookup: a run that is over says how its
\* task ended, and an active run has a task unless retention had deleted it.
RunMatchesTask ==
  \A r \in Run :
    /\ runs[r] = "Active" => board[r] # "Absent" \/ r \in pruned
    /\ runs[r] \in Outcome => board[r] \in {runs[r], "Absent"}

\* A run whose task is over is settled by the reconciliation, or its automation
\* is deleted.
RunSettles ==
  \A r \in Run :
    runs[r] = "Active" /\ board[r] \in Outcome
      ~> runs[r] # "Active" \/ automations[origin[r].of].status = "Deleted"
=============================================================================
