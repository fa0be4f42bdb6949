--------------------------- MODULE FleetManagerProofs ---------------------------
(***************************************************************************)
(* Proofs about FleetManager for every set of managers, runs, tasks and    *)
(* workers, and every bound.                                               *)
(*                                                                         *)
(* The argument: every step of a manager is a ledger transaction or none,  *)
(* has one of seven effects on locks and processes, and leaves the work    *)
(* list and current item of the manager as its next phase expects them     *)
(* (StepOK, ManagerStepOK).  From the effects follows who owns what: one   *)
(* manager per run, one tracked attempt per worker, and every process      *)
(* tracked until its manager dies (Ownership).  A process is then found    *)
(* from its task through the run, the lock, the manager and the worker,    *)
(* which is why two processes never meet, and why a line in a log file is  *)
(* that of the attempt that is tracked (Fenced).                           *)
(***************************************************************************)
EXTENDS FleetManager, FleetLedgerProofs

\* The workers that a run names.
Ids(r) == {WorkerIds[r][i] : i \in DOMAIN WorkerIds[r]}

\* No worker is named by two runs.
OwnWorkers == \A r, s \in Run : r # s => Ids(r) \cap Ids(s) = {}

\* Attempts, the lines of a log, the program counters and the records of managers.
Attempts == [task : Task, worker : Worker, attempt : Nat]
Line == Task \X Nat
\* Where a manager that is in its loop, or makes its first scheduling pass, may be.
Active == {"schedule", "beat", "start", "launch", "spawn", "register", "check", "drain",
           "ingest", "pulse", "outcome"}
\* The scheduling pass, which create_run makes without the run's lock.
Scheduling == {"schedule", "beat", "start"}
MgrPc == {"off", "new", "standby", "done"} \cup Active
\* The worker processes.
Children == [manager : Manager, task : Task, worker : Worker, attempt : Nat,
             state : {"Running", "Completed", "Failed"}, wrote : BOOLEAN]
MgrRecord == [pc : MgrPc, todo : SUBSET (Worker \cup Attempts), cur : Attempts \cup {Free},
              lines : SUBSET Line]

\* The types of the manager's state.
MgrTypeOK ==
  /\ lock \in [Run -> Manager \cup {Free}]
  /\ mgr \in [Manager -> MgrRecord]
  /\ tracked \in [Manager -> SUBSET Attempts]
  /\ host \subseteq Children
  /\ log \in [Worker -> SUBSET Line]
  /\ crashes \in Nat

\* An attempt that was made of a task of run r, by one of the run's workers.
Known(a, r) ==
  /\ RunOf[a.task] = r
  /\ a.worker \in Ids(r)
  /\ tasks[a.task].leased_to = a.worker
  /\ a.attempt \in 1..tasks[a.task].attempts

\* A task is only ever leased to a worker that its run names: start_worker_task
\* takes it from worker_ids_for_run, a restart takes the task's last worker.
LeasesNamed == \A t \in Task : tasks[t].attempts > 0 => tasks[t].leased_to \in Ids(RunOf[t])

\* FleetExecutor.streams is keyed by the worker.
WorkersDiffer(S) == \A a, b \in S : a.worker = b.worker => a = b

\* What a manager tracks are attempts of its run, of different workers; a manager
\* outside its loop tracks nothing.
TrackedOK ==
  \A m \in Manager :
    /\ \A a \in tracked[m] : Known(a, ManagedRun[m])
    /\ WorkersDiffer(tracked[m])
    /\ mgr[m].pc \notin Active => tracked[m] = {}

\* A manager in its loop owns the lock file of its run; one that schedules without
\* it tracks nothing.
LockOK ==
  \A m \in Manager : mgr[m].pc \in Active =>
    lock[ManagedRun[m]] = m \/ (mgr[m].pc \in Scheduling /\ tracked[m] = {})

\* A process is what its manager tracks it as.
OneChild ==
  \A c, d \in host :
    c.manager = d.manager /\ c.task = d.task /\ c.worker = d.worker /\ c.attempt = d.attempt => c = d

\* As long as no manager died every process is tracked.
NoOrphan == crashes = 0 => \A c \in host : \E a \in tracked[c.manager] : IsChild(c, c.manager, a)

\* Who owns runs and processes.
Ownership == TrackedOK /\ LockOK /\ OneChild /\ NoOrphan /\ NoLostProcess

\* The phases of the loop.
Launching == {"spawn", "register"}
Driving == {"check", "drain", "ingest", "pulse", "outcome"}
Handling == {"drain", "ingest", "pulse", "outcome"}

\* What the work list and the current item of a manager are, phase by phase: the
\* code carries them over calls that other processes interleave with.
Phase(m) ==
  /\ At(m, "beat") => mgr[m].todo \subseteq Worker
  /\ At(m, "start") =>
       /\ mgr[m].cur \in Attempts
       /\ RunOf[mgr[m].cur.task] = ManagedRun[m]
       /\ mgr[m].cur.worker \in Ids(ManagedRun[m])
  /\ mgr[m].pc \in Launching =>
       /\ mgr[m].todo \subseteq Attempts
       /\ \A a \in mgr[m].todo : Known(a, ManagedRun[m]) /\ ~ is_tracking(m, a.worker)
       /\ WorkersDiffer(mgr[m].todo)
  /\ mgr[m].pc \in Driving => mgr[m].todo \subseteq tracked[m]
  /\ At(m, "register") => mgr[m].cur \in tracked[m]
  /\ mgr[m].pc \in Handling => mgr[m].cur \in tracked[m] /\ mgr[m].cur \notin mgr[m].todo
  /\ At(m, "outcome") => \A c \in Running : ~ IsChild(c, m, mgr[m].cur)

\* Every manager is in order.
PhaseOK == \A m \in Manager : Phase(m)

\* The line that an attempt writes, and the phases in which lines are held.
LineOf(a) == <<a.task, a.attempt>>

Reading == {"ingest", "pulse", "outcome"}

\* The log file of a tracked attempt holds its own lines only.
LogFenced == \A m \in Manager : \A a \in tracked[m] : log[a.worker] \subseteq {LineOf(a)}

\* So do the lines that a manager has read and not yet recorded.
LinesFenced == \A m \in Manager : mgr[m].pc \in Reading => mgr[m].lines \subseteq {LineOf(mgr[m].cur)}

\* Both, as long as no manager died and no two runs share a worker.
Fenced == crashes = 0 /\ OwnWorkers => LogFenced /\ LinesFenced /\ OutputFenced

\* What a step of manager m does to the processes and to the ownership of runs.
Others(m) ==
  /\ \A n \in Manager \ {m} : mgr'[n] = mgr[n] /\ tracked'[n] = tracked[n]
  /\ mgr[m].pc # "done"

\* It goes on in its loop; starts or stops no process; starts one; stops one.
Stays(m) ==
  /\ mgr[m].pc \in Active /\ mgr'[m].pc \in Active
  /\ mgr[m].pc \in Scheduling => mgr'[m].pc \in Scheduling \/ lock[ManagedRun[m]] = m
  /\ UNCHANGED <<lock, crashes>>

Drives(m) == Stays(m) /\ UNCHANGED <<host, tracked>>

Spawns(m, a) ==
  /\ Stays(m) /\ mgr[m].pc \notin Scheduling
  /\ a \in Attempts /\ Known(a, ManagedRun[m]) /\ ~ is_tracking(m, a.worker)
  /\ host' = host \cup {Child(m, a)}
  /\ tracked'[m] = tracked[m] \cup {a}

Reaps(m, a) ==
  /\ Stays(m)
  /\ host' = {c \in host : ~ IsChild(c, m, a)}
  /\ tracked'[m] = tracked[m] \ {a}

\* It takes the lock; it waits outside, or goes there after its first pass; it
\* gives the lock back; it dies.
Enters(m) ==
  /\ mgr[m].pc = "new" /\ lock[ManagedRun[m]] = Free
  /\ lock' = [lock EXCEPT ![ManagedRun[m]] = m]
  /\ UNCHANGED <<host, tracked, crashes>>

Waits(m) ==
  /\ mgr[m].pc \in Active => mgr[m].pc \in Scheduling /\ lock[ManagedRun[m]] # m
  /\ mgr'[m].pc \notin Active
  /\ UNCHANGED <<lock, host, tracked, crashes>>

Leaves(m) ==
  /\ mgr[m].pc \in Active \ Scheduling /\ tracked[m] = {} /\ mgr'[m].pc = "done"
  /\ lock' = [lock EXCEPT ![ManagedRun[m]] = Free]
  /\ UNCHANGED <<host, tracked, crashes>>

Dies(m) ==
  /\ mgr'[m].pc = "done" /\ tracked'[m] = {} /\ crashes' = crashes + 1
  /\ lock' = [r \in Run |-> IF lock[r] = m THEN Free ELSE lock[r]]
  /\ UNCHANGED host

\* Every step of a manager is one of these.
Effect(m) ==
  /\ Others(m)
  /\ \/ Drives(m) \/ \E a : Spawns(m, a) \/ Reaps(m, a)
     \/ Enters(m) \/ Waits(m) \/ Leaves(m) \/ Dies(m)

\* What a step of a worker process does.
Lives(c, d) ==
  /\ c \in host /\ c.state = "Running"
  /\ d \in Children
  /\ d.manager = c.manager /\ d.task = c.task /\ d.worker = c.worker /\ d.attempt = c.attempt
  /\ host' = (host \ {c}) \cup {d}
  /\ UNCHANGED <<lock, mgr, tracked, crashes>>

\* The part of the invariant that the steps are read against.
MgrInv == IInv /\ Bounded /\ MgrTypeOK /\ LeasesNamed /\ PhaseOK

\* The clock and the absent deadline have their types.
LEMMA NowTyped == Now \in Timestamp /\ NoTime \in 0..MaxTime
BY ManagerAssumption, LedgerAssumption DEF Now, NoTime, Timestamp

\* A record put together from typed fields is the record of a manager.
LEMMA WithTyped ==
  ASSUME MgrTypeOK, NEW m \in Manager, NEW pc \in MgrPc, NEW todo \in SUBSET (Worker \cup Attempts),
         NEW cur \in Attempts \cup {Free}, NEW lines \in SUBSET Line, With(m, pc, todo, cur, lines)
  PROVE  /\ mgr' \in [Manager -> MgrRecord]
         /\ mgr'[m].pc = pc /\ mgr'[m].todo = todo /\ mgr'[m].cur = cur /\ mgr'[m].lines = lines
         /\ \A n \in Manager \ {m} : mgr'[n] = mgr[n]
<1>1. [pc |-> pc, todo |-> todo, cur |-> cur, lines |-> lines] \in MgrRecord
  BY DEF MgrRecord
<1> QED
  BY <1>1 DEF MgrTypeOK, With

\* So has a record whose program counter moves.
LEMMA GotoTyped ==
  ASSUME MgrTypeOK, NEW m \in Manager, NEW pc \in MgrPc, Goto(m, pc)
  PROVE  /\ mgr' \in [Manager -> MgrRecord]
         /\ mgr'[m].pc = pc /\ mgr'[m].todo = mgr[m].todo /\ mgr'[m].cur = mgr[m].cur
         /\ mgr'[m].lines = mgr[m].lines
         /\ \A n \in Manager \ {m} : mgr'[n] = mgr[n]
<1>1. mgr[m] \in MgrRecord
  BY DEF MgrTypeOK
<1>2. [mgr[m] EXCEPT !.pc = pc] \in MgrRecord
  BY <1>1 DEF MgrRecord
<1>3. mgr' = [mgr EXCEPT ![m] = [mgr[m] EXCEPT !.pc = pc]]
  BY DEF MgrTypeOK, Goto
<1> QED
  BY <1>1, <1>2, <1>3 DEF MgrTypeOK, MgrRecord

\* The fields of a typed record.
LEMMA FieldsTyped ==
  ASSUME MgrTypeOK, NEW m \in Manager
  PROVE  /\ mgr[m].pc \in MgrPc /\ mgr[m].todo \in SUBSET (Worker \cup Attempts)
         /\ mgr[m].cur \in Attempts \cup {Free} /\ mgr[m].lines \in SUBSET Line
         /\ tracked[m] \in SUBSET Attempts
BY DEF MgrTypeOK, MgrRecord

\* The program counters are known, without their set being spelled out again.
LEMMA PcKnown ==
  /\ Active \subseteq MgrPc
  /\ "off" \in MgrPc /\ "new" \in MgrPc /\ "standby" \in MgrPc /\ "done" \in MgrPc
  /\ "schedule" \in Active /\ "beat" \in Active /\ "start" \in Active /\ "launch" \in Active
  /\ "spawn" \in Active /\ "register" \in Active /\ "check" \in Active /\ "drain" \in Active
  /\ "ingest" \in Active /\ "pulse" \in Active /\ "outcome" \in Active
  /\ "schedule" \in Scheduling /\ "beat" \in Scheduling /\ "start" \in Scheduling
  /\ "launch" \notin Scheduling /\ "spawn" \notin Scheduling /\ "register" \notin Scheduling
  /\ "check" \notin Scheduling /\ "drain" \notin Scheduling /\ "ingest" \notin Scheduling
  /\ "pulse" \notin Scheduling /\ "outcome" \notin Scheduling
  /\ "off" \notin Active /\ "new" \notin Active /\ "standby" \notin Active /\ "done" \notin Active
BY DEF Active, MgrPc, Scheduling

\* The attempt of a leased task is known.
LEMMA ActiveKnown ==
  ASSUME IInv, LeasesNamed, NEW r \in Run, NEW t \in ActiveTasks(r)
  PROVE  Attempt(t) \in Attempts /\ Known(Attempt(t), r) /\ t \in Task /\ tasks[t].leased_to \in Worker
<1>1. t \in Task /\ RunOf[t] = r /\ tasks[t].status = "Leased"
  BY DEF ActiveTasks, IsLeased
<1>2. tasks[t].attempts \in Nat /\ tasks[t].attempts > 0 /\ tasks[t].leased_to \in Worker
  BY <1>1, LedgerAssumption DEF IInv, TypeOK, TaskState, LeaseShape
<1> QED
  BY <1>1, <1>2 DEF Attempt, Attempts, Known, LeasesNamed

\* The run of a manager is a run.
LEMMA RunManaged == \A m \in Manager : ManagedRun[m] \in Run
BY ManagerAssumption

--------------------------------------------------------------------------------
(* Every step of a manager is in order.                                    *)

\* What is shown of every step of a manager: it is typed, it has one of the
\* effects above, it is a ledger transaction or none, and it leaves the manager
\* in order.
StepOK(m) == MgrTypeOK' /\ Effect(m) /\ [Next]_ledgerVars /\ Phase(m)'

\* An attempt stays known: its number and its worker last.
LEMMA KnownStable ==
  ASSUME IInv, [Next]_ledgerVars, NEW a \in Attempts, NEW r, Known(a, r)
  PROVE  Known(a, r)'
<1>1. a.task \in Task /\ a.attempt \in Nat
  BY DEF Attempts
<1>2. tasks[a.task].attempts \in Nat /\ tasks'[a.task].attempts \in Nat
  BY <1>1, StepIInv DEF IInv, TypeOK, TaskState
<1>3. tasks'[a.task].attempts >= tasks[a.task].attempts
      /\ (tasks[a.task].attempts > 0 => tasks'[a.task].leased_to = tasks[a.task].leased_to)
  BY <1>1, AttemptsGrow
<1> QED
  BY <1>1, <1>2, <1>3 DEF Known, Ids

\* enter takes a lock that is free, or stands by.
LEMMA EnterOK == ASSUME MgrInv, NEW m \in Manager, enter(m) PROVE StepOK(m)
<1>0. MgrTypeOK /\ ManagedRun[m] \in Run /\ mgr[m].pc = "new" /\ UNCHANGED <<ledgerVars, tracked, host, log, crashes>>
  BY RunManaged DEF MgrInv, enter, At
<1>1. CASE lock[ManagedRun[m]] = Free /\ Goto(m, "schedule")
           /\ lock' = [lock EXCEPT ![ManagedRun[m]] = m]
  <2>1. mgr' \in [Manager -> MgrRecord] /\ mgr'[m].pc = "schedule"
        /\ \A n \in Manager \ {m} : mgr'[n] = mgr[n]
    BY <1>0, <1>1, GotoTyped, PcKnown
  <2>2. MgrTypeOK'
    BY <1>0, <1>1, <2>1 DEF MgrTypeOK
  <2>3. Effect(m)
    BY <1>0, <1>1, <2>1 DEF Effect, Others, Enters
  <2>4. Phase(m)'
    BY <2>1 DEF Phase, At, Launching, Driving, Handling
  <2> QED
    BY <1>0, <2>2, <2>3, <2>4 DEF StepOK
<1>2. CASE Goto(m, "standby") /\ UNCHANGED lock
  <2>1. mgr' \in [Manager -> MgrRecord] /\ mgr'[m].pc = "standby"
        /\ \A n \in Manager \ {m} : mgr'[n] = mgr[n]
    BY <1>0, <1>2, GotoTyped, PcKnown
  <2>2. MgrTypeOK'
    BY <1>0, <1>2, <2>1 DEF MgrTypeOK
  <2>3. Effect(m)
    BY <1>0, <1>2, <2>1, PcKnown DEF Effect, Others, Waits
  <2>4. Phase(m)'
    BY <2>1 DEF Phase, At, Launching, Driving, Handling
  <2> QED
    BY <1>0, <2>2, <2>3, <2>4 DEF StepOK
<1> QED
  BY <1>1, <1>2 DEF enter

\* standby leaves.
LEMMA StandbyOK == ASSUME MgrInv, NEW m \in Manager, standby(m) PROVE StepOK(m)
<1>0. MgrTypeOK /\ mgr[m].pc = "standby" /\ UNCHANGED <<ledgerVars, lock, tracked, host, log, crashes>>
      /\ Goto(m, "done")
  BY DEF MgrInv, standby, At
<1>1. mgr' \in [Manager -> MgrRecord] /\ mgr'[m].pc = "done"
      /\ \A n \in Manager \ {m} : mgr'[n] = mgr[n]
  BY <1>0, GotoTyped, PcKnown
<1>2. MgrTypeOK'
  BY <1>0, <1>1 DEF MgrTypeOK
<1>3. Effect(m)
  BY <1>0, <1>1, PcKnown DEF Effect, Others, Waits
<1>4. Phase(m)'
  BY <1>1 DEF Phase, At, Launching, Driving, Handling
<1> QED
  BY <1>0, <1>2, <1>3, <1>4 DEF StepOK

\* A step that only moves the manager.
LEMMA MovesOK ==
  ASSUME MgrInv, NEW m \in Manager, NEW pc \in Active, NEW todo \in SUBSET (Worker \cup Attempts),
         NEW cur \in Attempts \cup {Free}, NEW lines \in SUBSET Line, With(m, pc, todo, cur, lines),
         mgr[m].pc \in Active, mgr[m].pc \in Scheduling => pc \in Scheduling \/ lock[ManagedRun[m]] = m,
         log' \in [Worker -> SUBSET Line], [Next]_ledgerVars, UNCHANGED <<lock, tracked, host, crashes>>
  PROVE  /\ MgrTypeOK' /\ Effect(m) /\ [Next]_ledgerVars
         /\ mgr'[m].pc = pc /\ mgr'[m].todo = todo /\ mgr'[m].cur = cur /\ mgr'[m].lines = lines
<1>0. MgrTypeOK
  BY DEF MgrInv
<1>1. /\ mgr' \in [Manager -> MgrRecord]
      /\ mgr'[m].pc = pc /\ mgr'[m].todo = todo /\ mgr'[m].cur = cur /\ mgr'[m].lines = lines
      /\ \A n \in Manager \ {m} : mgr'[n] = mgr[n]
  BY <1>0, WithTyped, PcKnown
<1>2. MgrTypeOK'
  BY <1>0, <1>1 DEF MgrTypeOK
<1>3. Effect(m)
  BY <1>1, PcKnown DEF Effect, Others, Drives, Stays
<1> QED
  BY <1>1, <1>2, <1>3

\* schedule goes on to the heartbeats.
LEMMA ScheduleOK == ASSUME MgrInv, NEW m \in Manager, schedule(m) PROVE StepOK(m)
<1> DEFINE todo == active_workers_for_run(ManagedRun[m]) \cap IdsOf(m)
<1>1. todo \in SUBSET Worker
  BY RunManaged, ManagerAssumption DEF IdsOf
<1>2. /\ mgr[m].pc \in Active /\ With(m, "beat", todo, Free, {})
      /\ UNCHANGED <<ledgerVars, lock, tracked, host, log, crashes>>
      /\ log' \in [Worker -> SUBSET Line]
  BY PcKnown DEF schedule, At, MgrInv, MgrTypeOK
<1> HIDE DEF todo
<1>3. MgrTypeOK' /\ Effect(m) /\ [Next]_ledgerVars /\ mgr'[m].pc = "beat" /\ mgr'[m].todo = todo
  BY <1>1, <1>2, MovesOK, PcKnown
<1>4. Phase(m)'
  BY <1>1, <1>3 DEF Phase, At, Launching, Driving, Handling
<1> QED
  BY <1>3, <1>4 DEF StepOK

\* beat is a heartbeat.
LEMMA BeatOK == ASSUME MgrInv, NEW m \in Manager, NEW w, beat(m, w) PROVE StepOK(m)
<1> DEFINE todo == mgr[m].todo \ {w}
<1>1. todo \in SUBSET Worker /\ w \in Worker
  BY DEF MgrInv, PhaseOK, Phase, beat
<1>2. /\ mgr[m].pc \in Active /\ With(m, "beat", todo, Free, {})
      /\ UNCHANGED <<lock, tracked, host, log, crashes>>
      /\ log' \in [Worker -> SUBSET Line]
  BY PcKnown DEF beat, At, MgrInv, MgrTypeOK
<1>3. [Next]_ledgerVars
  BY <1>1, NowTyped DEF beat, Next
<1> HIDE DEF todo
<1>4. MgrTypeOK' /\ Effect(m) /\ [Next]_ledgerVars /\ mgr'[m].pc = "beat" /\ mgr'[m].todo = todo
  BY <1>1, <1>2, <1>3, MovesOK, PcKnown
<1>5. Phase(m)'
  BY <1>1, <1>4 DEF Phase, At, Launching, Driving, Handling
<1> QED
  BY <1>4, <1>5 DEF StepOK

\* pick takes a task of the run and a worker that the run names.
LEMMA PickOK == ASSUME MgrInv, NEW m \in Manager, pick(m) PROVE StepOK(m)
<1>0. /\ mgr[m].pc \in Active /\ mgr[m].pc \in Scheduling /\ MgrTypeOK
      /\ UNCHANGED <<ledgerVars, lock, tracked, host, log, crashes>>
      /\ log' \in [Worker -> SUBSET Line]
  BY PcKnown DEF pick, At, MgrInv, MgrTypeOK
<1>3. ASSUME NEW pc \in {"new", "done"}, lock[ManagedRun[m]] # m, With(m, pc, {}, Free, {})
      PROVE  StepOK(m)
  <2>1. /\ mgr' \in [Manager -> MgrRecord] /\ mgr'[m].pc = pc
        /\ \A n \in Manager \ {m} : mgr'[n] = mgr[n]
    <3>1. {} \in SUBSET (Worker \cup Attempts) /\ {} \in SUBSET Line /\ Free \in Attempts \cup {Free}
          /\ pc \in MgrPc
      BY PcKnown
    <3> QED
      BY <1>0, <1>3, <3>1, WithTyped
  <2>2. MgrTypeOK'
    BY <1>0, <2>1 DEF MgrTypeOK
  <2>3. Effect(m)
    BY <1>0, <1>3, <2>1, PcKnown DEF Effect, Others, Waits
  <2>4. Phase(m)'
    BY <2>1 DEF Phase, At, Launching, Driving, Handling
  <2> QED
    BY <1>0, <2>2, <2>3, <2>4 DEF StepOK
<1>1. CASE lock[ManagedRun[m]] = m /\ With(m, "launch", {}, Free, {})
  <2>1. MgrTypeOK' /\ Effect(m) /\ [Next]_ledgerVars /\ mgr'[m].pc = "launch"
    BY <1>0, <1>1, MovesOK, PcKnown
  <2>2. Phase(m)'
    BY <2>1 DEF Phase, At, Launching, Driving, Handling
  <2> QED
    BY <2>1, <2>2 DEF StepOK
<1>2. ASSUME NEW t \in Queue(m), NEW i \in Idle(m),
             With(m, "start", {}, [task |-> t, worker |-> WorkerIds[ManagedRun[m]][i], attempt |-> 0], {})
      PROVE  StepOK(m)
  <2> DEFINE a == [task |-> t, worker |-> WorkerIds[ManagedRun[m]][i], attempt |-> 0]
  <2>1. t \in Task /\ RunOf[t] = ManagedRun[m]
    BY DEF Queue
  <2>2. a.worker \in Worker /\ a.worker \in Ids(ManagedRun[m])
    BY RunManaged, ManagerAssumption DEF Ids, Idle
  <2>3. a \in Attempts /\ RunOf[a.task] = ManagedRun[m]
    BY <2>1, <2>2 DEF Attempts
  <2>4. With(m, "start", {}, a, {})
    BY <1>2
  <2> HIDE DEF a
  <2>5. MgrTypeOK' /\ Effect(m) /\ [Next]_ledgerVars /\ mgr'[m].pc = "start" /\ mgr'[m].cur = a
    BY <1>0, <2>3, <2>4, MovesOK, PcKnown
  <2>6. Phase(m)'
    BY <2>2, <2>3, <2>5 DEF Phase, At, Launching, Driving, Handling, Ids
  <2> QED
    BY <2>5, <2>6 DEF StepOK
<1> QED
  BY <1>1, <1>2, <1>3 DEF pick, AfterPass

\* start_worker_task is a lease, or a lost race.
LEMMA StartOK == ASSUME MgrInv, NEW m \in Manager, start_worker_task(m) PROVE StepOK(m)
<1>0. /\ mgr[m].pc \in Active /\ With(m, "beat", {}, Free, {})
      /\ UNCHANGED <<lock, tracked, host, log, crashes>>
      /\ log' \in [Worker -> SUBSET Line]
  BY PcKnown DEF start_worker_task, At, MgrInv, MgrTypeOK
<1>1. [Next]_ledgerVars
  <2> DEFINE a == mgr[m].cur
  <2>1. a.task \in Task /\ a.worker \in Worker
    BY DEF MgrInv, PhaseOK, Phase, start_worker_task, Attempts
  <2>2. InitialEvents + 2 \in 1..(InitialEvents + 2)
    BY LedgerAssumption
  <2>3. lease_task_if_enqueued_with_events(a.task, a.worker, MaxActive, NoTime, Now, InitialEvents + 2)
        \/ UNCHANGED ledgerVars
    BY DEF start_worker_task
  <2> HIDE DEF a
  <2> QED
    BY <2>1, <2>2, <2>3, NowTyped DEF Next, Work
<1>2. MgrTypeOK' /\ Effect(m) /\ [Next]_ledgerVars /\ mgr'[m].pc = "beat" /\ mgr'[m].todo = {}
  BY <1>0, <1>1, MovesOK, PcKnown
<1>3. Phase(m)'
  BY <1>2 DEF Phase, At, Launching, Driving, Handling
<1> QED
  BY <1>2, <1>3 DEF StepOK

\* leased collects attempts of different workers: a worker holds one lease.
LEMMA LeasedOK == ASSUME MgrInv, NEW m \in Manager, leased(m) PROVE StepOK(m)
<1> DEFINE U == {u \in ActiveTasks(ManagedRun[m]) : ~ is_tracking(m, tasks[u].leased_to)}
           todo == {Attempt(t) : t \in U}
<1>0. /\ mgr[m].pc \in Active /\ mgr[m].pc \notin Scheduling
      /\ With(m, "spawn", todo, Free, {})
      /\ UNCHANGED <<ledgerVars, lock, tracked, host, log, crashes>>
      /\ log' \in [Worker -> SUBSET Line]
  BY PcKnown DEF leased, At, MgrInv, MgrTypeOK
<1>1. \A t \in U : /\ Attempt(t) \in Attempts /\ Known(Attempt(t), ManagedRun[m])
                   /\ Attempt(t).worker = tasks[t].leased_to
                   /\ t \in Task /\ IsLeased(t) /\ ~ is_tracking(m, tasks[t].leased_to)
  BY ActiveKnown, RunManaged DEF MgrInv, Attempt, ActiveTasks
<1>2. \A t, u \in U : tasks[t].leased_to = tasks[u].leased_to => t = u
  BY <1>1 DEF MgrInv, IInv, OneLeasePerWorker
<1> HIDE DEF U
<1>3. /\ todo \subseteq Attempts
      /\ \A a \in todo : Known(a, ManagedRun[m]) /\ ~ is_tracking(m, a.worker)
  BY <1>1
<1>4. \A a, b \in todo : a.worker = b.worker => a = b
  BY <1>1, <1>2
<1> HIDE DEF todo
<1>5. MgrTypeOK' /\ Effect(m) /\ [Next]_ledgerVars /\ mgr'[m].pc = "spawn" /\ mgr'[m].todo = todo
  BY <1>0, <1>3, MovesOK, PcKnown
<1>6. \A a \in todo : Known(a, ManagedRun[m])' /\ ~ is_tracking(m, a.worker)'
  BY <1>0, <1>3, KnownStable DEF MgrInv, is_tracking, ledgerVars
<1>7. Phase(m)'
  BY <1>3, <1>4, <1>5, <1>6 DEF Phase, At, Launching, Driving, Handling, WorkersDiffer
<1> QED
  BY <1>5, <1>7 DEF StepOK

\* The ledger steps of a manager about an attempt.
LEMMA AppendIsStep ==
  ASSUME IInv, Bounded, NEW a \in Attempts, append_event_if_leased(a.task, a.worker, a.attempt)
  PROVE  Next
<1> DEFINE t == a.task  w == a.worker  n == a.attempt
<1>1. t \in Task /\ w \in Worker
  BY DEF Attempts
<1>2. append_event_if_leased(t, w, n)
  OBVIOUS
<1> HIDE DEF t, w, n
<1>3. n \in 1..MaxLeases
  BY <1>1, <1>2, OwnedAttempt DEF append_event_if_leased
<1> QED
  BY <1>1, <1>2, <1>3 DEF Next, Work

\* So is the receipt of one.
LEMMA FinalizeIsStep ==
  ASSUME IInv, Bounded, NEW a \in Attempts, NEW s \in Terminal, NEW f \in Terminal \cup {NoStatus},
         NEW res \in Result, finalize_task_attempt_if_leased(a.task, a.worker, a.attempt, s, f, res)
  PROVE  Next
<1> DEFINE t == a.task  w == a.worker  n == a.attempt
<1>1. t \in Task /\ w \in Worker
  BY DEF Attempts
<1>2. finalize_task_attempt_if_leased(t, w, n, s, f, res)
  OBVIOUS
<1> HIDE DEF t, w, n
<1>3. n \in 1..MaxLeases
  BY <1>1, <1>2, OwnedAttempt DEF finalize_task_attempt_if_leased
<1> QED
  BY <1>1, <1>2, <1>3 DEF Next, Work

\* What a launching manager has left to start.
LEMMA Remaining ==
  ASSUME MgrInv, NEW m \in Manager, mgr[m].pc \in Launching, NEW a \in mgr[m].todo
  PROVE  /\ a \in Attempts /\ Known(a, ManagedRun[m]) /\ ~ is_tracking(m, a.worker)
         /\ mgr[m].todo \subseteq Attempts
         /\ \A b \in mgr[m].todo \ {a} :
              b \in Attempts /\ Known(b, ManagedRun[m]) /\ ~ is_tracking(m, b.worker) /\ b.worker # a.worker
         /\ WorkersDiffer(mgr[m].todo \ {a})
BY DEF MgrInv, PhaseOK, Phase, WorkersDiffer

\* A step that moves the manager, of a process that it started.
LEMMA SpawnOK == ASSUME MgrInv, NEW m \in Manager, NEW a, At(m, "spawn"), spawn(m, a) PROVE StepOK(m)
<1> DEFINE todo == mgr[m].todo \ {a}
<1>0. /\ MgrTypeOK /\ IInv /\ mgr[m].pc \in Active /\ mgr[m].pc \in Launching /\ mgr[m].pc \notin Scheduling
      /\ a \in mgr[m].todo
      /\ With(m, "register", todo, a, {})
      /\ host' = host \cup {Child(m, a)}
      /\ tracked' = [tracked EXCEPT ![m] = @ \cup {a}]
      /\ log' = [log EXCEPT ![a.worker] = {}]
      /\ UNCHANGED <<ledgerVars, lock, strays, crashes>>
  BY PcKnown DEF spawn, At, MgrInv, Launching
<1>1. /\ a \in Attempts /\ Known(a, ManagedRun[m]) /\ ~ is_tracking(m, a.worker)
      /\ mgr[m].todo \subseteq Attempts
      /\ \A b \in todo : b \in Attempts /\ Known(b, ManagedRun[m]) /\ ~ is_tracking(m, b.worker)
                         /\ b.worker # a.worker
      /\ WorkersDiffer(todo)
  BY <1>0, Remaining
<1>2. todo \in SUBSET (Worker \cup Attempts)
  BY <1>1
<1> HIDE DEF todo
<1>3. /\ mgr' \in [Manager -> MgrRecord]
      /\ mgr'[m].pc = "register" /\ mgr'[m].todo = todo /\ mgr'[m].cur = a
      /\ \A n \in Manager \ {m} : mgr'[n] = mgr[n]
  <2>1. With(m, "register", todo, a, {}) /\ MgrTypeOK /\ a \in Attempts \cup {Free} /\ {} \in SUBSET Line
    BY <1>0, <1>1
  <2> QED
    BY <1>2, <2>1, WithTyped, PcKnown
<1>4. Child(m, a) \in Children
  BY <1>1 DEF Child, Children, Attempts
<1>5. tracked' \in [Manager -> SUBSET Attempts] /\ tracked'[m] = tracked[m] \cup {a}
      /\ \A n \in Manager \ {m} : tracked'[n] = tracked[n]
  BY <1>0, <1>1 DEF MgrTypeOK
<1>6. MgrTypeOK'
  BY <1>0, <1>3, <1>4, <1>5 DEF MgrTypeOK
<1>7. Effect(m)
  <2>1. Others(m) /\ Spawns(m, a)
    BY <1>0, <1>1, <1>3, <1>5, PcKnown DEF Others, Spawns, Stays
  <2> QED
    BY <2>1 DEF Effect
<1>8. \A b \in todo : Known(b, ManagedRun[m])' /\ ~ is_tracking(m, b.worker)'
  <2>1. \A b \in todo : Known(b, ManagedRun[m])'
    BY <1>0, <1>1, KnownStable
  <2>2. \A b \in todo : ~ is_tracking(m, b.worker)'
    BY <1>1, <1>5 DEF is_tracking
  <2> QED
    BY <2>1, <2>2
<1>9. Phase(m)'
  BY <1>1, <1>3, <1>5, <1>8 DEF Phase, At, Launching, Driving, Handling
<1> QED
  BY <1>0, <1>6, <1>7, <1>9 DEF StepOK

\* A failed start is a receipt about the attempt.
LEMMA SpawnFailedOK ==
  ASSUME MgrInv, NEW m \in Manager, NEW a, spawn_failed(m, a)
  PROVE  StepOK(m)
<1> DEFINE todo == mgr[m].todo \ {a}
<1>0. /\ MgrTypeOK /\ IInv /\ Bounded /\ mgr[m].pc \in Active /\ mgr[m].pc \in Launching /\ mgr[m].pc \notin Scheduling
      /\ a \in mgr[m].todo
      /\ With(m, "spawn", todo, Free, {})
      /\ UNCHANGED <<lock, tracked, host, log, crashes>>
      /\ log' \in [Worker -> SUBSET Line]
  BY PcKnown DEF spawn_failed, At, MgrInv, MgrTypeOK, Launching
<1>1. /\ a \in Attempts
      /\ mgr[m].todo \subseteq Attempts
      /\ \A b \in todo : b \in Attempts /\ Known(b, ManagedRun[m]) /\ ~ is_tracking(m, b.worker)
      /\ WorkersDiffer(todo)
  BY <1>0, Remaining
<1>2. todo \in SUBSET (Worker \cup Attempts)
  BY <1>1
<1>3. [Next]_ledgerVars
  <2>1. "Failed" \in Terminal
    BY DEF Terminal
  <2> QED
    BY <1>0, <1>1, <2>1, FinalizeIsStep, ManagerAssumption DEF spawn_failed
<1> HIDE DEF todo
<1>4. MgrTypeOK' /\ Effect(m) /\ [Next]_ledgerVars /\ mgr'[m].pc = "spawn" /\ mgr'[m].todo = todo
  BY <1>0, <1>2, <1>3, MovesOK, PcKnown
<1>5. \A b \in todo : Known(b, ManagedRun[m])' /\ ~ is_tracking(m, b.worker)'
  BY <1>0, <1>1, <1>3, KnownStable DEF is_tracking
<1>6. Phase(m)'
  BY <1>1, <1>4, <1>5 DEF Phase, At, Launching, Driving, Handling
<1> QED
  BY <1>4, <1>6 DEF StepOK

\* What a manager handles is one of the attempts that it tracks.
LEMMA Handled ==
  ASSUME MgrInv, NEW m \in Manager
  PROVE  /\ mgr[m].pc \in Handling \/ At(m, "register") => mgr[m].cur \in Attempts /\ mgr[m].cur \in tracked[m]
         /\ mgr[m].pc \in Driving => mgr[m].todo \subseteq tracked[m] /\ mgr[m].todo \in SUBSET Attempts
         /\ mgr[m].pc \in Handling => mgr[m].cur \notin mgr[m].todo
         /\ tracked[m] \subseteq Attempts
BY FieldsTyped DEF MgrInv, PhaseOK, Phase, Handling, Driving, At

\* Reaped keeps the types.
LEMMA ReapedTyped ==
  ASSUME MgrTypeOK, NEW m \in Manager, NEW a, Reaped(m, a)
  PROVE  /\ host' \subseteq Children
         /\ tracked' \in [Manager -> SUBSET Attempts] /\ tracked'[m] = tracked[m] \ {a}
         /\ \A n \in Manager \ {m} : tracked'[n] = tracked[n]
BY DEF MgrTypeOK, Reaped

\* A step that moves the manager and stops a process.
LEMMA ReapsOK ==
  ASSUME MgrInv, NEW m \in Manager, NEW pc \in Active, NEW todo \in SUBSET (Worker \cup Attempts),
         NEW a, Reaped(m, a), With(m, pc, todo, Free, {}),
         mgr[m].pc \in Active, mgr[m].pc \notin Scheduling, [Next]_ledgerVars, UNCHANGED <<lock, log, crashes>>
  PROVE  /\ MgrTypeOK' /\ Effect(m) /\ [Next]_ledgerVars
         /\ mgr'[m].pc = pc /\ mgr'[m].todo = todo
         /\ tracked'[m] = tracked[m] \ {a}
<1>0. MgrTypeOK
  BY DEF MgrInv
<1>1. /\ mgr' \in [Manager -> MgrRecord]
      /\ mgr'[m].pc = pc /\ mgr'[m].todo = todo
      /\ \A n \in Manager \ {m} : mgr'[n] = mgr[n]
  BY <1>0, WithTyped, PcKnown
<1>2. /\ host' \subseteq Children
      /\ tracked' \in [Manager -> SUBSET Attempts] /\ tracked'[m] = tracked[m] \ {a}
      /\ \A n \in Manager \ {m} : tracked'[n] = tracked[n]
  BY <1>0, ReapedTyped
<1>3. MgrTypeOK'
  BY <1>0, <1>1, <1>2 DEF MgrTypeOK
<1>4. Others(m) /\ Reaps(m, a)
  BY <1>1, <1>2, PcKnown DEF Others, Reaps, Stays, Reaped
<1>5. Effect(m)
  BY <1>4 DEF Effect
<1> QED
  BY <1>1, <1>2, <1>3, <1>5

\* register appends the artifact, or stops the process again.
LEMMA RegisterOK == ASSUME MgrInv, NEW m \in Manager, register(m) PROVE StepOK(m)
<1> DEFINE a == mgr[m].cur
           todo == mgr[m].todo
<1>0. /\ MgrTypeOK /\ IInv /\ Bounded /\ At(m, "register") /\ mgr[m].pc \in Active
      /\ mgr[m].pc \in Launching /\ mgr[m].pc # "spawn" /\ mgr[m].pc \notin Scheduling
      /\ With(m, "spawn", todo, Free, {}) /\ UNCHANGED <<lock, log, strays, crashes>>
      /\ log' \in [Worker -> SUBSET Line]
  BY PcKnown DEF register, At, MgrInv, MgrTypeOK, Launching
<1>1. a \in Attempts /\ a \in tracked[m]
  BY <1>0, Handled
<1>2. /\ todo \in SUBSET Attempts /\ WorkersDiffer(todo)
      /\ \A b \in todo : b \in Attempts /\ Known(b, ManagedRun[m]) /\ ~ is_tracking(m, b.worker)
  BY <1>0 DEF MgrInv, PhaseOK, Phase
<1>3. todo \in SUBSET (Worker \cup Attempts)
  BY <1>2
<1>4. CASE append_event_if_leased(a.task, a.worker, a.attempt) /\ UNCHANGED <<host, tracked>>
  <2>1. [Next]_ledgerVars
    BY <1>0, <1>1, <1>4, AppendIsStep
  <2> HIDE DEF todo
  <2>2. MgrTypeOK' /\ Effect(m) /\ [Next]_ledgerVars /\ mgr'[m].pc = "spawn" /\ mgr'[m].todo = todo
    BY <1>0, <1>3, <1>4, <2>1, MovesOK, PcKnown
  <2>3. \A b \in todo : Known(b, ManagedRun[m])' /\ ~ is_tracking(m, b.worker)'
    BY <1>0, <1>2, <1>4, <2>1, KnownStable DEF is_tracking
  <2>4. Phase(m)'
    BY <1>2, <2>2, <2>3 DEF Phase, At, Launching, Driving, Handling
  <2> QED
    BY <2>2, <2>4 DEF StepOK
<1>5. CASE Reaped(m, a) /\ UNCHANGED ledgerVars
  <2> HIDE DEF todo, a
  <2>1. [Next]_ledgerVars
    BY <1>5
  <2>2. MgrTypeOK' /\ Effect(m) /\ [Next]_ledgerVars /\ mgr'[m].pc = "spawn" /\ mgr'[m].todo = todo
        /\ tracked'[m] = tracked[m] \ {a}
    BY <1>0, <1>3, <1>5, <2>1, ReapsOK, PcKnown
  <2>3. \A b \in todo : Known(b, ManagedRun[m])'
    BY <1>0, <1>2, <2>1, KnownStable
  <2>4. \A b \in todo : ~ is_tracking(m, b.worker)'
    BY <1>2, <2>2 DEF is_tracking
  <2>5. Phase(m)'
    BY <1>2, <2>2, <2>3, <2>4 DEF Phase, At, Launching, Driving, Handling
  <2> QED
    BY <2>2, <2>5 DEF StepOK
<1> QED
  BY <1>4, <1>5 DEF register

\* tracked_workers goes on to what is tracked.
LEMMA TrackedWorkersOK == ASSUME MgrInv, NEW m \in Manager, tracked_workers(m) PROVE StepOK(m)
<1> DEFINE todo == tracked[m]
<1>0. /\ MgrTypeOK /\ mgr[m].pc \in Active /\ mgr[m].pc \notin Scheduling
      /\ With(m, "check", todo, Free, {})
      /\ UNCHANGED <<ledgerVars, lock, tracked, host, log, crashes>>
      /\ log' \in [Worker -> SUBSET Line] /\ todo \in SUBSET (Worker \cup Attempts)
      /\ tracked'[m] = todo
  BY PcKnown, FieldsTyped DEF tracked_workers, At, MgrInv, MgrTypeOK
<1> HIDE DEF todo
<1>1. MgrTypeOK' /\ Effect(m) /\ [Next]_ledgerVars /\ mgr'[m].pc = "check" /\ mgr'[m].todo = todo
  BY <1>0, MovesOK, PcKnown
<1>2. Phase(m)'
  BY <1>0, <1>1 DEF Phase, At, Launching, Driving, Handling
<1> QED
  BY <1>1, <1>2 DEF StepOK

\* check goes on with an attempt that it tracks, or stops its process.
LEMMA CheckOK == ASSUME MgrInv, NEW m \in Manager, NEW a, check(m, a) PROVE StepOK(m)
<1> DEFINE todo == mgr[m].todo \ {a}
<1>0. /\ MgrTypeOK /\ mgr[m].pc \in Active /\ mgr[m].pc \in Driving /\ mgr[m].pc \notin Scheduling /\ a \in mgr[m].todo
      /\ UNCHANGED <<ledgerVars, lock, log, crashes>>
      /\ log' \in [Worker -> SUBSET Line]
  BY PcKnown DEF check, At, MgrInv, MgrTypeOK, Driving
<1>1. /\ todo \subseteq tracked[m] /\ a \notin todo /\ a \in tracked[m]
      /\ a \in Attempts /\ todo \in SUBSET (Worker \cup Attempts)
  BY <1>0, Handled
<1>2. CASE With(m, "drain", todo, a, {}) /\ UNCHANGED <<host, tracked>>
  <2> HIDE DEF todo
  <2>1. MgrTypeOK' /\ Effect(m) /\ [Next]_ledgerVars /\ mgr'[m].pc = "drain" /\ mgr'[m].todo = todo
        /\ mgr'[m].cur = a
    <3>1. a \in Attempts \cup {Free} /\ {} \in SUBSET Line /\ [Next]_ledgerVars
      BY <1>0, <1>1
    <3> QED
      BY <1>0, <1>1, <1>2, <3>1, MovesOK, PcKnown
  <2>2. Phase(m)'
    BY <1>1, <1>2, <2>1 DEF Phase, At, Launching, Driving, Handling
  <2> QED
    BY <2>1, <2>2 DEF StepOK
<1>3. CASE With(m, "check", todo, Free, {}) /\ Reaped(m, a)
  <2> HIDE DEF todo
  <2>1. [Next]_ledgerVars
    BY <1>0
  <2>2. MgrTypeOK' /\ Effect(m) /\ [Next]_ledgerVars /\ mgr'[m].pc = "check" /\ mgr'[m].todo = todo
        /\ tracked'[m] = tracked[m] \ {a}
    BY <1>0, <1>1, <1>3, <2>1, ReapsOK, PcKnown
  <2>3. Phase(m)'
    BY <1>1, <2>2 DEF Phase, At, Launching, Driving, Handling
  <2> QED
    BY <2>2, <2>3 DEF StepOK
<1> QED
  BY <1>2, <1>3 DEF check

\* A step that stays with the attempt at hand; before its outcome is known, or
\* once no process works on it.
LEMMA HandlesOK ==
  ASSUME MgrInv, NEW m \in Manager, mgr[m].pc \in Handling, NEW pc \in {"ingest", "pulse", "outcome"},
         NEW lines \in SUBSET Line, With(m, pc, mgr[m].todo, mgr[m].cur, lines),
         log' \in [Worker -> SUBSET Line], [Next]_ledgerVars, UNCHANGED <<lock, tracked, host, crashes>>,
         pc = "outcome" => \A c \in Running : ~ IsChild(c, m, mgr[m].cur)
  PROVE  StepOK(m)
<1> DEFINE todo == mgr[m].todo
           a == mgr[m].cur
<1>1. /\ mgr[m].pc \in Active /\ pc \in Active /\ mgr[m].pc \notin Scheduling
      /\ todo \in SUBSET (Worker \cup Attempts) /\ a \in Attempts \cup {Free}
      /\ todo \subseteq tracked[m] /\ a \in tracked[m] /\ a \notin todo
  BY Handled DEF Handling, Driving, Active, Scheduling
<1>2. With(m, pc, todo, a, lines)
  OBVIOUS
<1>3. pc = "outcome" => \A c \in Running' : ~ IsChild(c, m, a)
  BY DEF Running
<1> HIDE DEF todo, a
<1>4. MgrTypeOK' /\ Effect(m) /\ [Next]_ledgerVars /\ mgr'[m].pc = pc /\ mgr'[m].todo = todo
      /\ mgr'[m].cur = a
  BY <1>1, <1>2, MovesOK
<1>5. pc \notin {"beat", "start", "register", "check", "spawn"}
  OBVIOUS
<1>6. Phase(m)'
  <2>1. ~ At(m, "beat")' /\ ~ At(m, "start")' /\ ~ At(m, "register")' /\ mgr'[m].pc \notin Launching
    BY <1>4, <1>5 DEF At, Launching
  <2>2. mgr'[m].todo \subseteq tracked'[m] /\ mgr'[m].cur \in tracked'[m] /\ mgr'[m].cur \notin mgr'[m].todo
    BY <1>1, <1>4
  <2>3. At(m, "outcome")' => \A c \in Running' : ~ IsChild(c, m, mgr'[m].cur)
    BY <1>3, <1>4 DEF At
  <2> QED
    BY <2>1, <2>2, <2>3 DEF Phase, IsChild
<1> QED
  BY <1>4, <1>6 DEF StepOK

\* drain_events takes the lines of the log.
LEMMA DrainOK == ASSUME MgrInv, NEW m \in Manager, drain_events(m) PROVE StepOK(m)
<1>0. MgrTypeOK /\ mgr[m].pc \in Handling
  BY DEF MgrInv, drain_events, At, Handling
<1>1. mgr[m].cur.worker \in Worker
  BY <1>0, Handled DEF Attempts
<1>2. log[mgr[m].cur.worker] \in SUBSET Line /\ log' \in [Worker -> SUBSET Line]
  BY <1>0, <1>1 DEF MgrTypeOK, drain_events
<1> QED
  BY <1>0, <1>2, HandlesOK DEF drain_events

\* Recording a line is a ledger transaction.
LEMMA IngestedIsStep ==
  ASSUME MgrInv, NEW m \in Manager, mgr[m].pc \in Handling, NEW y, Ingested(m, y)
  PROVE  [Next]_ledgerVars
<1> DEFINE a == mgr[m].cur
<1>1. a \in Attempts /\ append_event_if_leased(a.task, a.worker, a.attempt)
  BY Handled DEF Ingested
<1> HIDE DEF a
<1> QED
  BY <1>1, AppendIsStep DEF MgrInv

\* ingest records or drops a line.
LEMMA IngestOK == ASSUME MgrInv, NEW m \in Manager, NEW y, ingest(m, y) PROVE StepOK(m)
<1> DEFINE lines == mgr[m].lines \ {y}
<1>0. MgrTypeOK /\ mgr[m].pc \in Handling /\ UNCHANGED <<lock, tracked, host, log, crashes>>
      /\ log' \in [Worker -> SUBSET Line] /\ lines \in SUBSET Line
  BY FieldsTyped DEF MgrInv, MgrTypeOK, ingest, At, Handling
<1>1. [Next]_ledgerVars
  BY <1>0, IngestedIsStep DEF ingest
<1>2. With(m, "pulse", mgr[m].todo, mgr[m].cur, lines) \/ With(m, "ingest", mgr[m].todo, mgr[m].cur, lines)
  BY DEF ingest
<1> HIDE DEF lines
<1> QED
  BY <1>0, <1>1, <1>2, HandlesOK

\* pulse is a heartbeat.
LEMMA PulseOK == ASSUME MgrInv, NEW m \in Manager, pulse(m) PROVE StepOK(m)
<1>0. MgrTypeOK /\ mgr[m].pc \in Handling /\ UNCHANGED <<lock, tracked, host, log, crashes>>
      /\ log' \in [Worker -> SUBSET Line] /\ mgr[m].lines \in SUBSET Line
  BY FieldsTyped DEF MgrInv, MgrTypeOK, pulse, At, Handling
<1>1. [Next]_ledgerVars
  <2>1. mgr[m].cur.worker \in Worker
    BY <1>0, Handled DEF Attempts
  <2> QED
    BY <2>1, NowTyped DEF pulse, Next
<1>2. With(m, "ingest", mgr[m].todo, mgr[m].cur, mgr[m].lines)
  <2>1. mgr[m] \in MgrRecord /\ Goto(m, "ingest")
    BY <1>0 DEF MgrTypeOK, pulse
  <2>2. [mgr[m] EXCEPT !.pc = "ingest"] =
          [pc |-> "ingest", todo |-> mgr[m].todo, cur |-> mgr[m].cur, lines |-> mgr[m].lines]
    BY <2>1 DEF MgrRecord
  <2>3. mgr' = [mgr EXCEPT ![m] = [mgr[m] EXCEPT !.pc = "ingest"]]
    BY <1>0, <2>1 DEF Goto, MgrTypeOK
  <2> QED
    BY <2>2, <2>3 DEF With
<1> QED
  BY <1>0, <1>1, <1>2, HandlesOK

\* poll goes on to the outcome only when no process works on the attempt.
LEMMA PollOK == ASSUME MgrInv, NEW m \in Manager, poll(m) PROVE StepOK(m)
<1>0. MgrTypeOK /\ mgr[m].pc \in Handling /\ mgr[m].pc \in Driving /\ mgr[m].pc \in Active
      /\ mgr[m].pc \notin Scheduling
      /\ UNCHANGED <<ledgerVars, lock, tracked, host, crashes>>
  BY PcKnown DEF MgrInv, poll, At, Handling, Driving
<1>1. CASE (\E c \in Running : IsChild(c, m, mgr[m].cur)) /\ With(m, "check", mgr[m].todo, Free, {})
           /\ UNCHANGED log
  <2> DEFINE todo == mgr[m].todo
  <2>1. todo \in SUBSET (Worker \cup Attempts) /\ todo \subseteq tracked[m] /\ With(m, "check", todo, Free, {})
        /\ log' \in [Worker -> SUBSET Line]
    BY <1>0, <1>1, Handled DEF MgrTypeOK
  <2> HIDE DEF todo
  <2>2. MgrTypeOK' /\ Effect(m) /\ [Next]_ledgerVars /\ mgr'[m].pc = "check" /\ mgr'[m].todo = todo
    BY <1>0, <2>1, MovesOK, PcKnown
  <2>3. Phase(m)'
    BY <1>0, <2>1, <2>2 DEF Phase, At, Launching, Driving, Handling
  <2> QED
    BY <2>2, <2>3 DEF StepOK
<1>2. CASE /\ ~ \E c \in Running : IsChild(c, m, mgr[m].cur)
           /\ With(m, "outcome", mgr[m].todo, mgr[m].cur, log[mgr[m].cur.worker])
           /\ log' = [log EXCEPT ![mgr[m].cur.worker] = {}]
  <2>1. mgr[m].cur.worker \in Worker
    BY <1>0, Handled DEF Attempts
  <2>2. log[mgr[m].cur.worker] \in SUBSET Line /\ log' \in [Worker -> SUBSET Line]
    BY <1>0, <1>2, <2>1 DEF MgrTypeOK
  <2> QED
    BY <1>0, <1>2, <2>2, HandlesOK
<1> QED
  BY <1>1, <1>2 DEF poll

\* tail records a line.
LEMMA TailOK == ASSUME MgrInv, NEW m \in Manager, NEW y, tail(m, y) PROVE StepOK(m)
<1> DEFINE lines == mgr[m].lines \ {y}
<1>0. MgrTypeOK /\ mgr[m].pc \in Handling /\ UNCHANGED <<lock, tracked, host, log, crashes>>
      /\ log' \in [Worker -> SUBSET Line] /\ lines \in SUBSET Line
      /\ \A c \in Running : ~ IsChild(c, m, mgr[m].cur)
  BY FieldsTyped DEF MgrInv, MgrTypeOK, tail, At, Handling, PhaseOK, Phase
<1>1. [Next]_ledgerVars
  BY <1>0, IngestedIsStep DEF tail
<1>2. With(m, "outcome", mgr[m].todo, mgr[m].cur, lines)
  BY DEF tail
<1> HIDE DEF lines
<1> QED
  BY <1>0, <1>1, <1>2, HandlesOK

\* record_task_outcome is a receipt with a terminal status, and stops the process.
LEMMA OutcomeOK == ASSUME MgrInv, NEW m \in Manager, record_task_outcome(m) PROVE StepOK(m)
<1> DEFINE a == mgr[m].cur
           todo == mgr[m].todo
<1>0. MgrTypeOK /\ mgr[m].pc \in Handling /\ mgr[m].pc \in Driving /\ mgr[m].pc \in Active
      /\ mgr[m].pc \notin Scheduling
      /\ With(m, "check", todo, Free, {}) /\ Reaped(m, a) /\ UNCHANGED <<lock, log, crashes>>
      /\ \A c \in Running : ~ IsChild(c, m, mgr[m].cur)
  BY PcKnown DEF MgrInv, record_task_outcome, At, Handling, Driving, PhaseOK, Phase
<1>1. a \in Attempts /\ a \in tracked[m] /\ a \notin todo /\ todo \subseteq tracked[m]
      /\ todo \in SUBSET (Worker \cup Attempts)
  BY <1>0, Handled
<1>2. [Next]_ledgerVars
  <2>1. ASSUME NEW c \in host, NEW res \in VerifierResult, IsChild(c, m, a),
               finalize_task_attempt_if_leased(a.task, a.worker, a.attempt, c.state,
                 final_status(c.state, res), res)
        PROVE  Next
    <3>1. c.state \in {"Completed", "Failed"}
      BY <1>0, <2>1 DEF MgrTypeOK, Children, Running
    <3>2. c.state \in Terminal /\ final_status(c.state, res) \in Terminal \cup {NoStatus} /\ res \in Result
      BY <3>1, ManagerAssumption DEF Terminal, final_status
    <3> HIDE DEF a
    <3> QED
      BY <1>1, <2>1, <3>2, FinalizeIsStep DEF MgrInv
  <2> QED
    BY <2>1 DEF record_task_outcome
<1> HIDE DEF a, todo
<1>3. MgrTypeOK' /\ Effect(m) /\ [Next]_ledgerVars /\ mgr'[m].pc = "check" /\ mgr'[m].todo = todo
      /\ tracked'[m] = tracked[m] \ {a}
  BY <1>0, <1>1, <1>2, ReapsOK, PcKnown
<1>4. Phase(m)'
  BY <1>1, <1>3 DEF Phase, At, Launching, Driving, Handling
<1> QED
  BY <1>3, <1>4 DEF StepOK

\* loop leaves only when nothing is tracked.
LEMMA LoopOK == ASSUME MgrInv, NEW m \in Manager, loop(m) PROVE StepOK(m)
<1>0. MgrTypeOK /\ mgr[m].pc = "check" /\ UNCHANGED <<ledgerVars, tracked, host, log, strays, crashes>>
      /\ ManagedRun[m] \in Run
  BY RunManaged DEF MgrInv, loop, At
<1>1. CASE tracked[m] = {} /\ Goto(m, "done") /\ lock' = [lock EXCEPT ![ManagedRun[m]] = Free]
  <2>1. mgr' \in [Manager -> MgrRecord] /\ mgr'[m].pc = "done"
        /\ \A n \in Manager \ {m} : mgr'[n] = mgr[n]
    BY <1>0, <1>1, GotoTyped, PcKnown
  <2>2. MgrTypeOK'
    BY <1>0, <1>1, <2>1 DEF MgrTypeOK
  <2>3. Effect(m)
    BY <1>0, <1>1, <2>1, PcKnown DEF Effect, Others, Leaves
  <2>4. Phase(m)'
    BY <2>1 DEF Phase, At, Launching, Driving, Handling
  <2> QED
    BY <1>0, <2>2, <2>3, <2>4 DEF StepOK
<1>2. CASE Goto(m, "schedule") /\ UNCHANGED lock
  <2>1. mgr' \in [Manager -> MgrRecord] /\ mgr'[m].pc = "schedule"
        /\ \A n \in Manager \ {m} : mgr'[n] = mgr[n]
    BY <1>0, <1>2, GotoTyped, PcKnown
  <2>2. MgrTypeOK'
    BY <1>0, <1>2, <2>1 DEF MgrTypeOK
  <2>3. Effect(m)
    BY <1>0, <1>2, <2>1, PcKnown DEF Effect, Others, Drives, Stays
  <2>4. Phase(m)'
    BY <2>1 DEF Phase, At, Launching, Driving, Handling
  <2> QED
    BY <1>0, <2>2, <2>3, <2>4 DEF StepOK
<1> QED
  BY <1>1, <1>2 DEF loop

\* A crash loses what was tracked.
LEMMA CrashOK == ASSUME MgrInv, NEW m \in Manager, crash(m) PROVE StepOK(m)
<1>0. MgrTypeOK /\ mgr[m].pc # "done" /\ UNCHANGED <<ledgerVars, host, log, strays>>
      /\ crashes' = crashes + 1 /\ With(m, "done", {}, Free, {})
      /\ lock' = [r \in Run |-> IF lock[r] = m THEN Free ELSE lock[r]]
      /\ tracked' = [tracked EXCEPT ![m] = {}]
  BY DEF MgrInv, crash
<1>1. mgr' \in [Manager -> MgrRecord] /\ mgr'[m].pc = "done"
      /\ \A n \in Manager \ {m} : mgr'[n] = mgr[n]
  <2>1. MgrTypeOK /\ With(m, "done", {}, Free, {})
    BY <1>0
  <2>2. {} \in SUBSET (Worker \cup Attempts) /\ {} \in SUBSET Line /\ Free \in Attempts \cup {Free}
    OBVIOUS
  <2> QED
    BY <2>1, <2>2, WithTyped, PcKnown
<1>2. MgrTypeOK'
  <2>1. lock' \in [Run -> Manager \cup {Free}]
    BY <1>0 DEF MgrTypeOK
  <2>2. tracked' \in [Manager -> SUBSET Attempts]
    BY <1>0 DEF MgrTypeOK
  <2>3. host' \subseteq Children /\ log' \in [Worker -> SUBSET Line] /\ crashes' \in Nat
    BY <1>0 DEF MgrTypeOK
  <2> QED
    BY <1>1, <2>1, <2>2, <2>3 DEF MgrTypeOK
<1>3. tracked'[m] = {} /\ \A n \in Manager \ {m} : tracked'[n] = tracked[n]
  BY <1>0 DEF MgrTypeOK
<1>4. Effect(m)
  <2>1. Others(m) /\ Dies(m)
    BY <1>0, <1>1, <1>3 DEF Others, Dies
  <2> QED
    BY <2>1 DEF Effect
<1>5. Phase(m)'
  BY <1>1 DEF Phase, At, Launching, Driving, Handling
<1> QED
  BY <1>0, <1>2, <1>4, <1>5 DEF StepOK

\* restart_worker is a restart on the version just read.
LEMMA RestartOK == ASSUME MgrInv, NEW m \in Manager, NEW t \in Task, restart_worker(m, t) PROVE StepOK(m)
<1>0. MgrTypeOK /\ mgr[m].pc = "off" /\ UNCHANGED <<lock, tracked, host, log, strays, crashes>>
      /\ Goto(m, "new")
  BY DEF MgrInv, restart_worker, At
<1>1. mgr' \in [Manager -> MgrRecord] /\ mgr'[m].pc = "new"
      /\ \A n \in Manager \ {m} : mgr'[n] = mgr[n]
  BY <1>0, GotoTyped, PcKnown
<1>2. MgrTypeOK'
  BY <1>0, <1>1 DEF MgrTypeOK
<1>3. Effect(m)
  BY <1>0, <1>1, PcKnown DEF Effect, Others, Waits
<1>4. Phase(m)'
  BY <1>1 DEF Phase, At, Launching, Driving, Handling
<1>5. [Next]_ledgerVars
  <2>1. IInv /\ Bounded /\ tasks[t].status \in TaskStatus /\ tasks[t].leased_to \in Worker
    BY DEF MgrInv, IInv, TypeOK, TaskState, restart_worker
  <2>2. 4 \in 1..4
    OBVIOUS
  <2>3. restart_task_if_unchanged(t, tasks[t].leased_to, tasks[t].status, tasks[t].attempts,
          latest_seq[tasks[t].leased_to][t], heartbeats[tasks[t].leased_to], NoTime, Now, 4)
    BY DEF restart_worker
  <2> QED
    BY <2>1, <2>2, <2>3, NowTyped, RestartIsStep
<1> QED
  BY <1>2, <1>3, <1>4, <1>5 DEF StepOK

--------------------------------------------------------------------------------
(* And leaves the other managers, and every manager after others' steps.   *)

\* Every step of a manager is in order.
LEMMA ManagerStepOK ==
  ASSUME MgrInv, NEW m \in Manager,
         Drive(m) \/ crash(m) \/ \E t \in Task : restart_worker(m, t)
  PROVE  StepOK(m)
<1> DEFINE Goal == StepOK(m)
<1> SUFFICES Goal
  OBVIOUS
<1>1. /\ enter(m) => Goal
      /\ standby(m) => Goal
      /\ schedule(m) => Goal
      /\ pick(m) => Goal
      /\ start_worker_task(m) => Goal
      /\ leased(m) => Goal
  BY EnterOK, StandbyOK, ScheduleOK, PickOK, StartOK, LeasedOK DEF Goal
<1>2. /\ register(m) => Goal
      /\ tracked_workers(m) => Goal
      /\ drain_events(m) => Goal
      /\ pulse(m) => Goal
      /\ poll(m) => Goal
      /\ record_task_outcome(m) => Goal
      /\ loop(m) => Goal
      /\ crash(m) => Goal
  BY RegisterOK, TrackedWorkersOK, DrainOK, PulseOK, PollOK, OutcomeOK, LoopOK, CrashOK DEF Goal
<1>3. \A w : beat(m, w) => Goal
  BY BeatOK DEF Goal
<1>4. \A a : /\ At(m, "spawn") /\ spawn(m, a) => Goal
             /\ spawn_failed(m, a) => Goal
             /\ check(m, a) => Goal
  BY SpawnOK, SpawnFailedOK, CheckOK DEF Goal
<1>5. \A y : /\ ingest(m, y) => Goal
             /\ tail(m, y) => Goal
  BY IngestOK, TailOK DEF Goal
<1>6. \A t \in Task : restart_worker(m, t) => Goal
  BY RestartOK DEF Goal
<1> HIDE DEF Goal
<1> QED
  BY <1>1, <1>2, <1>3, <1>4, <1>5, <1>6 DEF Drive

\* A manager is in the same phase after a step of somebody else.
LEMMA PhaseStable ==
  ASSUME MgrInv, [Next]_ledgerVars, NEW n \in Manager, mgr'[n] = mgr[n], tracked'[n] = tracked[n],
         \A c \in Running' : c.manager = n =>
           \E d \in Running : /\ d.manager = c.manager /\ d.task = c.task
                              /\ d.worker = c.worker /\ d.attempt = c.attempt
  PROVE  Phase(n)'
<1> DEFINE pc == mgr[n].pc
           todo == mgr[n].todo
           cur == mgr[n].cur
<1>0. Phase(n) /\ IInv
  BY DEF MgrInv, PhaseOK
<1>1. At(n, "beat")' => mgr'[n].todo \subseteq Worker
  BY <1>0 DEF Phase, At
<1>2. At(n, "start")' => mgr'[n].cur \in Attempts /\ RunOf[mgr'[n].cur.task] = ManagedRun[n]
                         /\ mgr'[n].cur.worker \in Ids(ManagedRun[n])
  BY <1>0 DEF Phase, At
<1>3. ASSUME mgr'[n].pc \in Launching
      PROVE  /\ mgr'[n].todo \subseteq Attempts
             /\ \A a \in mgr'[n].todo : Known(a, ManagedRun[n])' /\ ~ is_tracking(n, a.worker)'
             /\ WorkersDiffer(mgr'[n].todo)
  <2>1. /\ mgr[n].todo \subseteq Attempts
        /\ \A a \in mgr[n].todo : Known(a, ManagedRun[n]) /\ ~ is_tracking(n, a.worker)
        /\ WorkersDiffer(mgr[n].todo)
    BY <1>0, <1>3 DEF Phase
  <2>2. \A a \in mgr[n].todo : Known(a, ManagedRun[n])'
    BY <1>0, <2>1, KnownStable
  <2>3. \A a \in mgr[n].todo : ~ is_tracking(n, a.worker)'
    BY <2>1 DEF is_tracking
  <2> QED
    BY <2>1, <2>2, <2>3
<1>4. /\ mgr'[n].pc \in Driving => mgr'[n].todo \subseteq tracked'[n]
      /\ At(n, "register")' => mgr'[n].cur \in tracked'[n]
      /\ mgr'[n].pc \in Handling => mgr'[n].cur \in tracked'[n] /\ mgr'[n].cur \notin mgr'[n].todo
  BY <1>0 DEF Phase, At
<1>5. ASSUME At(n, "outcome")', NEW c \in Running' PROVE ~ IsChild(c, n, mgr'[n].cur)
  BY <1>0, <1>5 DEF Phase, At, IsChild
<1> QED
  BY <1>1, <1>2, <1>3, <1>4, <1>5 DEF Phase, WorkersDiffer, IsChild

\* A step of a manager adds no process of another.
LEMMA EffectOnOthers ==
  ASSUME NEW m \in Manager, Effect(m), NEW n \in Manager \ {m}
  PROVE  /\ mgr'[n] = mgr[n] /\ tracked'[n] = tracked[n]
         /\ \A c \in host' : c.manager = n => c \in host
BY DEF Effect, Others, Drives, Spawns, Reaps, Enters, Waits, Leaves, Dies, Stays, Child

\* And leaves every manager in order.
LEMMA ManagerStepPhases ==
  ASSUME MgrInv, NEW m \in Manager, StepOK(m) PROVE PhaseOK'
<1>1. ASSUME NEW n \in Manager \ {m} PROVE Phase(n)'
  <2>1. mgr'[n] = mgr[n] /\ tracked'[n] = tracked[n] /\ \A c \in host' : c.manager = n => c \in host
    BY EffectOnOthers DEF StepOK
  <2>2. \A c \in Running' : c.manager = n =>
           \E d \in Running : /\ d.manager = c.manager /\ d.task = c.task
                              /\ d.worker = c.worker /\ d.attempt = c.attempt
    BY <2>1 DEF Running
  <2> QED
    BY <2>1, <2>2, PhaseStable DEF StepOK
<1> QED
  BY <1>1 DEF StepOK, PhaseOK

\* Worker processes and operators.
LEMMA WorkerStep ==
  ASSUME MgrTypeOK, NEW c \in host, write(c) \/ exit(c)
  PROVE  /\ \E d : Lives(c, d)
         /\ MgrTypeOK' /\ UNCHANGED <<ledgerVars, mgr, tracked>>
<1>0. c \in Children /\ c.state = "Running" /\ c.worker \in Worker /\ <<c.task, c.attempt>> \in Line
  BY DEF MgrTypeOK, Children, Line, write, exit
<1>1. CASE write(c)
  <2> DEFINE d == [c EXCEPT !.wrote = TRUE]
  <2>1. /\ d \in Children
        /\ d.manager = c.manager /\ d.task = c.task /\ d.worker = c.worker /\ d.attempt = c.attempt
    BY <1>0 DEF Children
  <2>2. host' = (host \ {c}) \cup {d}
    BY <1>1 DEF write
  <2> HIDE DEF d
  <2>3. Lives(c, d)
    BY <1>0, <1>1, <2>1, <2>2 DEF Lives, write
  <2>4. host' \subseteq Children
    BY <2>1, <2>2 DEF MgrTypeOK
  <2>5. log' \in [Worker -> SUBSET Line]
    BY <1>0, <1>1 DEF write, MgrTypeOK
  <2> QED
    BY <1>1, <2>3, <2>4, <2>5 DEF write, MgrTypeOK
<1>2. CASE exit(c)
  <2> PICK s \in {"Completed", "Failed"} : host' = (host \ {c}) \cup {[c EXCEPT !.state = s]}
    BY <1>2 DEF exit
  <2> DEFINE d == [c EXCEPT !.state = s]
  <2>1. /\ d \in Children
        /\ d.manager = c.manager /\ d.task = c.task /\ d.worker = c.worker /\ d.attempt = c.attempt
    BY <1>0 DEF Children
  <2>2. host' = (host \ {c}) \cup {d}
    OBVIOUS
  <2> HIDE DEF d
  <2>3. Lives(c, d)
    BY <1>0, <1>2, <2>1, <2>2 DEF Lives, exit
  <2>4. host' \subseteq Children
    BY <2>1, <2>2 DEF MgrTypeOK
  <2> QED
    BY <1>2, <2>3, <2>4 DEF exit, MgrTypeOK
<1> QED
  BY <1>1, <1>2

\* A worker process leaves every manager in order.
LEMMA WorkerStepPhases ==
  ASSUME MgrInv, NEW c, NEW d, Lives(c, d), UNCHANGED ledgerVars PROVE PhaseOK'
<1>1. ASSUME NEW n \in Manager PROVE Phase(n)'
  <2>1. \A x \in Running' : x.manager = n =>
           \E y \in Running : /\ y.manager = x.manager /\ y.task = x.task
                              /\ y.worker = x.worker /\ y.attempt = x.attempt
    BY DEF Lives, Running
  <2> QED
    BY <2>1, PhaseStable DEF Lives
<1> QED
  BY <1>1 DEF PhaseOK

\* An operator's stop is a ledger transaction and touches no manager.
LEMMA StopStep ==
  ASSUME NEW t \in Task, stop(t) PROVE Next /\ UNCHANGED mgrVars
BY DEF stop, Next, Manage

\* So it leaves every manager in order.
LEMMA QuietPhases ==
  ASSUME MgrInv, [Next]_ledgerVars, UNCHANGED <<mgr, tracked, host>> PROVE PhaseOK'
<1>1. ASSUME NEW n \in Manager PROVE Phase(n)'
  BY PhaseStable DEF Running
<1> QED
  BY <1>1 DEF PhaseOK

--------------------------------------------------------------------------------
(* Leases and locks.                                                       *)

\* No task is leased in the step.
SameLeases ==
  \A t \in Task : tasks'[t].attempts = tasks[t].attempts /\ tasks'[t].leased_to = tasks[t].leased_to

\* Then the leases stay with the named workers.
LEMMA SameNamed == ASSUME LeasesNamed, SameLeases PROVE LeasesNamed'
BY DEF LeasesNamed, SameLeases, Ids

\* A terminal record makes no lease.
LEMMA TerminalSame ==
  ASSUME TypeOK, NEW t \in Task, NEW s, mark_task_terminal(t, s) PROVE SameLeases
BY DEF TypeOK, TaskState, mark_task_terminal, SameLeases

\* Nor does a step that leaves the tasks alone.
LEMMA UnchangedSame == ASSUME UNCHANGED tasks PROVE SameLeases
BY DEF SameLeases

\* A lease to a named worker keeps it.
LEMMA LeasedNamed ==
  ASSUME TypeOK, LeasesNamed, NEW t \in Task, NEW w \in Ids(RunOf[t]), NEW d, TaskLeased(t, w, d)
  PROVE  LeasesNamed'
BY DEF TypeOK, TaskState, LeasesNamed, TaskLeased, Ids

\* What an attempt's owner does about it makes no lease.
LEMMA OwnersSame ==
  ASSUME TypeOK, NEW a \in Attempts
  PROVE  /\ append_event_if_leased(a.task, a.worker, a.attempt) => SameLeases
         /\ \A s, f, res : finalize_task_attempt_if_leased(a.task, a.worker, a.attempt, s, f, res) => SameLeases
BY TerminalSame, UnchangedSame DEF Attempts, append_event_if_leased, finalize_task_attempt_if_leased

\* A run's tasks are only leased to workers that the run names.
LEMMA StepNamed ==
  ASSUME MgrInv, ManagerNext PROVE LeasesNamed'
<1> DEFINE Goal == LeasesNamed'
<1> SUFFICES Goal
  OBVIOUS
<1>0. TypeOK /\ IInv /\ MgrTypeOK /\ LeasesNamed
  BY DEF MgrInv, IInv
<1>1. CASE UNCHANGED tasks
  BY <1>0, <1>1, UnchangedSame, SameNamed
<1>2. ASSUME NEW m \in Manager, start_worker_task(m) PROVE Goal
  <2> DEFINE a == mgr[m].cur
  <2>1. a.task \in Task /\ a.worker \in Ids(RunOf[a.task])
    BY <1>2 DEF MgrInv, PhaseOK, Phase, start_worker_task, Attempts
  <2>2. TaskLeased(a.task, a.worker, NoTime) \/ UNCHANGED tasks
    BY <1>2 DEF start_worker_task, lease_task_if_enqueued_with_events, ledgerVars
  <2> HIDE DEF a
  <2> QED
    BY <1>0, <1>1, <2>1, <2>2, LeasedNamed
<1>3. ASSUME NEW m \in Manager, NEW t \in Task, restart_worker(m, t) PROVE Goal
  <2> DEFINE w == tasks[t].leased_to
  <2>1. w # NoWorker /\ TaskLeased(t, w, NoTime)
    BY <1>3 DEF restart_worker, restart_task_if_unchanged
  <2>2. w \in Ids(RunOf[t])
    BY <1>0, <2>1 DEF LeasesNamed, IInv, LeaseShape, TypeOK, TaskState
  <2> HIDE DEF w
  <2> QED
    BY <1>0, <2>1, <2>2, LeasedNamed
<1>4. ASSUME NEW m \in Manager, NEW a, spawn_failed(m, a) PROVE Goal
  <2>1. a \in Attempts
    BY <1>4, Remaining DEF spawn_failed, At, Launching
  <2>2. finalize_task_attempt_if_leased(a.task, a.worker, a.attempt, "Failed", NoStatus, "Fail")
        \/ UNCHANGED tasks
    BY <1>4 DEF spawn_failed, ledgerVars
  <2> QED
    BY <1>0, <1>1, <2>1, <2>2, OwnersSame, SameNamed
<1>5. ASSUME NEW m \in Manager,
             register(m) \/ record_task_outcome(m) \/ \E y : ingest(m, y) \/ tail(m, y)
      PROVE  Goal
  <2> DEFINE a == mgr[m].cur
  <2>1. a \in Attempts
    BY <1>5, Handled DEF register, record_task_outcome, ingest, tail, At, Handling
  <2>2. \/ append_event_if_leased(a.task, a.worker, a.attempt)
        \/ \E s, f, res : finalize_task_attempt_if_leased(a.task, a.worker, a.attempt, s, f, res)
        \/ UNCHANGED tasks
    BY <1>5 DEF register, record_task_outcome, ingest, tail, Ingested, ledgerVars
  <2> HIDE DEF a
  <2> QED
    BY <1>0, <1>1, <2>1, <2>2, OwnersSame, SameNamed
<1>6. ASSUME NEW t \in Task, stop(t) PROVE Goal
  <2>1. UNCHANGED tasks \/ mark_task_terminal(t, "Cancelled")
    BY <1>6 DEF stop, cancel_task_if_active
  <2> QED
    BY <1>0, <1>1, <2>1, TerminalSame, SameNamed
<1>7. ASSUME NEW m \in Manager,
             \/ enter(m) \/ standby(m) \/ schedule(m) \/ pick(m) \/ leased(m) \/ tracked_workers(m)
             \/ drain_events(m) \/ pulse(m) \/ poll(m) \/ loop(m) \/ crash(m)
             \/ \E w : beat(m, w)
             \/ \E a : spawn(m, a) \/ check(m, a)
      PROVE  UNCHANGED tasks
  BY <1>7 DEF enter, standby, schedule, pick, leased, tracked_workers, drain_events, pulse, poll, loop,
     crash, beat, spawn, check, heartbeat, ledgerVars
<1>8. ASSUME NEW c, write(c) \/ exit(c) PROVE UNCHANGED tasks
  BY <1>8 DEF write, exit, ledgerVars
<1> HIDE DEF Goal
<1>9. ASSUME NEW m \in Manager, Drive(m) PROVE Goal
  BY <1>1, <1>2, <1>4, <1>5, <1>7, <1>9 DEF Drive
<1> QED
  BY <1>1, <1>3, <1>6, <1>7, <1>8, <1>9 DEF ManagerNext

\* Ownership of runs and processes.
LEMMA KnownTyped ==
  ASSUME NEW a \in Attempts, NEW r, Known(a, r) PROVE RunOf[a.task] = r /\ a.worker \in Ids(r)
BY DEF Known

\* What a manager tracks stays known.
LEMMA TrackedKnownStable ==
  ASSUME MgrTypeOK, IInv, [Next]_ledgerVars, TrackedOK, NEW n \in Manager
  PROVE  \A a \in tracked[n] : Known(a, ManagedRun[n])'
<1>1. \A a \in tracked[n] : a \in Attempts /\ Known(a, ManagedRun[n])
  BY DEF MgrTypeOK, TrackedOK
<1> QED
  BY <1>1, KnownStable

\* A manager's step keeps what managers track in order.
LEMMA EffectTracked ==
  ASSUME MgrInv, Ownership, NEW m \in Manager, StepOK(m) PROVE TrackedOK'
<1>0. /\ MgrTypeOK /\ IInv /\ [Next]_ledgerVars /\ TrackedOK /\ Effect(m)
      /\ \A n \in Manager : \A a \in tracked[n] : Known(a, ManagedRun[n])'
  BY TrackedKnownStable DEF MgrInv, Ownership, StepOK
<1>1. ASSUME NEW n \in Manager \ {m}
      PROVE  /\ \A a \in tracked'[n] : Known(a, ManagedRun[n])'
             /\ WorkersDiffer(tracked'[n])
             /\ mgr'[n].pc \notin Active => tracked'[n] = {}
  <2>1. mgr'[n] = mgr[n] /\ tracked'[n] = tracked[n]
    BY <1>0, EffectOnOthers
  <2> QED
    BY <1>0, <2>1 DEF TrackedOK
<1>2. /\ \A a \in tracked'[m] : Known(a, ManagedRun[m])'
      /\ WorkersDiffer(tracked'[m])
      /\ mgr'[m].pc \notin Active => tracked'[m] = {}
  <2> DEFINE G == /\ \A a \in tracked'[m] : Known(a, ManagedRun[m])'
                  /\ WorkersDiffer(tracked'[m])
                  /\ mgr'[m].pc \notin Active => tracked'[m] = {}
  <2> SUFFICES G
    OBVIOUS
  <2>0. WorkersDiffer(tracked[m]) /\ (mgr[m].pc \notin Active => tracked[m] = {})
    BY <1>0 DEF TrackedOK
  <2>1. CASE Drives(m)
    BY <1>0, <2>0, <2>1 DEF Drives, Stays
  <2>2. ASSUME NEW a, Spawns(m, a) PROVE G
    <3>1. a \in Attempts /\ Known(a, ManagedRun[m])' /\ tracked'[m] = tracked[m] \cup {a}
          /\ ~ is_tracking(m, a.worker) /\ mgr'[m].pc \in Active
      BY <1>0, <2>2, KnownStable DEF Spawns, Stays
    <3>2. WorkersDiffer(tracked'[m])
      BY <2>0, <3>1 DEF WorkersDiffer, is_tracking
    <3> QED
      BY <1>0, <3>1, <3>2
  <2>3. ASSUME NEW a, Reaps(m, a) PROVE G
    BY <1>0, <2>0, <2>3 DEF Reaps, Stays, WorkersDiffer
  <2>4. CASE Enters(m)
    <3>1. tracked[m] = {}
      BY <2>0, <2>4, PcKnown DEF Enters
    <3> QED
      BY <2>4, <3>1 DEF Enters, WorkersDiffer
  <2>5. CASE Waits(m) \/ Leaves(m) \/ Dies(m)
    <3>1. tracked'[m] = {}
      BY <2>0, <2>5 DEF Waits, Leaves, Dies, Ownership, LockOK
    <3> QED
      BY <3>1 DEF WorkersDiffer
  <2> HIDE DEF G
  <2> QED
    BY <1>0, <2>1, <2>2, <2>3, <2>4, <2>5 DEF Effect
<1> QED
  BY <1>1, <1>2 DEF TrackedOK, WorkersDiffer

\* And keeps the owners of the runs: a lock is taken when free, given back when
\* nothing is tracked, and lost with its owner.
LEMMA EffectLock ==
  ASSUME MgrInv, Ownership, NEW m \in Manager, StepOK(m) PROVE LockOK'
<1>0. /\ MgrTypeOK /\ LockOK /\ Effect(m) /\ Free \notin Manager /\ \A n \in Manager : ManagedRun[n] \in Run
      /\ \A n \in Manager \ {m} : mgr'[n] = mgr[n]
  BY ManagerAssumption, EffectOnOthers DEF MgrInv, Ownership, StepOK, Free
<1>1. ASSUME \A n \in Manager : lock[ManagedRun[n]] = n /\ n # m => lock'[ManagedRun[n]] = n,
             mgr'[m].pc \in Active =>
               lock'[ManagedRun[m]] = m \/ (mgr'[m].pc \in Scheduling /\ tracked'[m] = {})
      PROVE  LockOK'
  <2>1. \A n \in Manager \ {m} : tracked'[n] = tracked[n]
    BY <1>0 DEF Effect, Others
  <2> QED
    BY <1>0, <1>1, <2>1 DEF LockOK
<1>2. CASE Enters(m)
  <2>1. \A n \in Manager : lock[ManagedRun[n]] = n => ManagedRun[n] # ManagedRun[m]
    BY <1>0, <1>2 DEF Enters
  <2>2. lock'[ManagedRun[m]] = m /\ \A r \in Run : r # ManagedRun[m] => lock'[r] = lock[r]
    BY <1>0, <1>2 DEF Enters, MgrTypeOK
  <2> QED
    BY <1>0, <1>1, <2>1, <2>2
<1>3. CASE Leaves(m)
  <2>1. lock[ManagedRun[m]] = m /\ mgr'[m].pc \notin Active
    BY <1>0, <1>3, PcKnown DEF LockOK, Leaves
  <2>2. \A r \in Run : r # ManagedRun[m] => lock'[r] = lock[r]
    BY <1>0, <1>3 DEF Leaves, MgrTypeOK
  <2> QED
    BY <1>0, <1>1, <2>1, <2>2
<1>4. CASE Dies(m)
  BY <1>0, <1>1, <1>4, PcKnown DEF Dies
<1>5. CASE Waits(m)
  BY <1>0, <1>1, <1>5 DEF Waits
<1>6. CASE Drives(m) \/ \E a : Spawns(m, a) \/ Reaps(m, a)
  <2>1. Stays(m) /\ (tracked[m] = {} => tracked'[m] = {} \/ mgr[m].pc \notin Scheduling)
    BY <1>6 DEF Drives, Spawns, Reaps
  <2>2. lock[ManagedRun[m]] = m \/ (mgr[m].pc \in Scheduling /\ tracked[m] = {})
    BY <1>0, <2>1 DEF LockOK, Stays
  <2> QED
    BY <1>1, <2>1, <2>2 DEF Stays
<1> QED
  BY <1>0, <1>2, <1>3, <1>4, <1>5, <1>6 DEF Effect

--------------------------------------------------------------------------------
(* Processes.                                                              *)

\* Two records of one process; a process that its manager tracks.
SameChild(c, d) ==
  d.manager = c.manager /\ d.task = c.task /\ d.worker = c.worker /\ d.attempt = c.attempt

Tracks(c) == \E a \in tracked[c.manager] : IsChild(c, c.manager, a)

\* The invariants about processes, in these words.
LEMMA Restated ==
  /\ OneChild <=> \A c, d \in host : SameChild(c, d) => c = d
  /\ NoOrphan <=> (crashes = 0 => \A c \in host : Tracks(c))
  /\ NoLostProcess <=> \A c \in host : mgr[c.manager].pc # "done" => Tracks(c)
BY DEF OneChild, SameChild, NoOrphan, NoLostProcess, Tracks

\* The same of the next state.
LEMMA RestatedNext ==
  /\ OneChild' <=> \A c, d \in host' : SameChild(c, d) => c = d
  /\ NoOrphan' <=> (crashes' = 0 => \A c \in host' : Tracks(c)')
  /\ NoLostProcess' <=> \A c \in host' : mgr'[c.manager].pc # "done" => Tracks(c)'
BY DEF OneChild, SameChild, NoOrphan, NoLostProcess, Tracks, IsChild

\* Tracks, of a process of manager m.
LEMMA TracksOwn ==
  ASSUME NEW c, NEW m, c.manager = m
  PROVE  /\ Tracks(c) <=> \E a \in tracked[m] : IsChild(c, m, a)
         /\ Tracks(c)' <=> \E a \in tracked'[m] : IsChild(c, m, a)
BY DEF Tracks, IsChild

\* What a manager tracked before its step it still tracks, unless it left.
LEMMA EffectTracks ==
  ASSUME MgrInv, Ownership, NEW m \in Manager, StepOK(m), NEW c \in host'
  PROVE  /\ mgr'[c.manager].pc # "done" => Tracks(c)'
         /\ crashes' = 0 => Tracks(c)'
<1> DEFINE n == c.manager
           Goal == /\ mgr'[n].pc # "done" => Tracks(c)'
                   /\ crashes' = 0 => Tracks(c)'
<1> SUFFICES Goal
  OBVIOUS
<1>0. /\ MgrTypeOK /\ MgrTypeOK' /\ Effect(m) /\ crashes \in Nat /\ n \in Manager
      /\ \A d \in host : mgr[d.manager].pc # "done" => Tracks(d)
      /\ crashes = 0 => \A d \in host : Tracks(d)
  BY Restated DEF MgrInv, Ownership, StepOK, MgrTypeOK, Children
<1>1. CASE n # m
  <2>1. mgr'[n] = mgr[n] /\ tracked'[n] = tracked[n] /\ c \in host
    BY <1>0, <1>1, EffectOnOthers
  <2>2. Tracks(c) => Tracks(c)'
    BY <2>1, TracksOwn
  <2>3. crashes' = 0 => crashes = 0
    BY <1>0 DEF Effect, Drives, Spawns, Reaps, Enters, Waits, Leaves, Dies, Stays
  <2> QED
    BY <1>0, <2>1, <2>2, <2>3
<1>2. CASE n = m
  <2>0. c \in host => Tracks(c)
    BY <1>0, <1>2 DEF Effect, Others
  <2>1. CASE Drives(m) \/ Enters(m) \/ Waits(m) \/ Leaves(m)
    <3>1. UNCHANGED <<host, tracked>>
      BY <2>1 DEF Drives, Enters, Waits, Leaves
    <3> QED
      BY <1>2, <2>0, <3>1, TracksOwn
  <2>2. ASSUME NEW a, Spawns(m, a) PROVE Goal
    <3>1. c \in host \/ c = Child(m, a)
      BY <2>2 DEF Spawns
    <3>2. tracked'[m] = tracked[m] \cup {a}
      BY <2>2 DEF Spawns
    <3>3. IsChild(Child(m, a), m, a)
      BY DEF IsChild, Child
    <3> QED
      BY <1>2, <2>0, <3>1, <3>2, <3>3, TracksOwn
  <2>3. ASSUME NEW a, Reaps(m, a) PROVE Goal
    <3>1. c \in host /\ ~ IsChild(c, m, a) /\ tracked'[m] = tracked[m] \ {a}
      BY <2>3 DEF Reaps
    <3> QED
      BY <1>2, <2>0, <3>1, TracksOwn
  <2>4. CASE Dies(m)
    BY <1>0, <1>2, <2>4 DEF Dies
  <2> HIDE DEF Goal
  <2> QED
    BY <1>0, <2>1, <2>2, <2>3, <2>4 DEF Effect
<1> QED
  BY <1>1, <1>2

\* A manager starts no second process for an attempt that it tracks.
LEMMA EffectOneChild ==
  ASSUME MgrInv, Ownership, NEW m \in Manager, StepOK(m) PROVE OneChild'
<1>0. Effect(m) /\ \A c, d \in host : SameChild(c, d) => c = d
  BY Restated DEF StepOK, Ownership
<1>1. CASE host' \subseteq host
  BY <1>0, <1>1, RestatedNext
<1>2. ASSUME NEW a, Spawns(m, a) PROVE OneChild'
  <2>1. ASSUME NEW c \in host PROVE ~ SameChild(c, Child(m, a)) /\ ~ SameChild(Child(m, a), c)
    <3>1. SUFFICES ASSUME c.manager = m, c.worker = a.worker PROVE FALSE
      BY DEF SameChild, Child
    <3>2. mgr[m].pc # "done"
      BY <1>0 DEF Effect, Others
    <3>3. \E b \in tracked[m] : IsChild(c, m, b)
      BY <3>1, <3>2, Restated, TracksOwn DEF Ownership
    <3> QED
      BY <1>2, <3>1, <3>3 DEF IsChild, Spawns, is_tracking
  <2>2. host' = host \cup {Child(m, a)}
    BY <1>2 DEF Spawns
  <2> QED
    BY <1>0, <2>1, <2>2, RestatedNext
<1>3. Drives(m) \/ (\E a : Reaps(m, a)) \/ Enters(m) \/ Waits(m) \/ Leaves(m) \/ Dies(m) => host' \subseteq host
  BY DEF Drives, Reaps, Enters, Waits, Leaves, Dies
<1> QED
  BY <1>0, <1>1, <1>2, <1>3 DEF Effect

\* So a manager's step keeps Ownership.
LEMMA EffectOwnership ==
  ASSUME MgrInv, Ownership, NEW m \in Manager, StepOK(m) PROVE Ownership'
<1>1. NoOrphan' /\ NoLostProcess'
  BY EffectTracks, RestatedNext
<1> QED
  BY <1>1, EffectTracked, EffectLock, EffectOneChild DEF Ownership

\* A step that leaves the managers and what they track alone.
LEMMA KeptTracked ==
  ASSUME MgrInv, Ownership, [Next]_ledgerVars, UNCHANGED <<lock, mgr, tracked>>
  PROVE  TrackedOK' /\ LockOK'
<1>1. \A n \in Manager : \A a \in tracked[n] : Known(a, ManagedRun[n])'
  BY TrackedKnownStable DEF MgrInv, Ownership
<1>2. TrackedOK'
  BY <1>1 DEF Ownership, TrackedOK, WorkersDiffer
<1>3. LockOK'
  BY DEF Ownership, LockOK
<1> QED
  BY <1>2, <1>3

\* A worker process stays tracked while it writes and exits.
LEMMA LivesTracks ==
  ASSUME MgrInv, Ownership, NEW c, NEW d, Lives(c, d), NEW x \in host'
  PROVE  /\ mgr'[x.manager].pc # "done" => Tracks(x)'
         /\ crashes' = 0 => Tracks(x)'
<1>1. c \in host /\ SameChild(c, d) /\ host' = (host \ {c}) \cup {d} /\ UNCHANGED <<mgr, tracked, crashes>>
  BY DEF Lives, SameChild
<1>2. PICK y \in host : SameChild(y, x)
  BY <1>1 DEF SameChild
<1>3. (crashes = 0 => Tracks(y)) /\ (mgr[y.manager].pc # "done" => Tracks(y))
  BY Restated DEF Ownership
<1>4. Tracks(y) => Tracks(x)'
  BY <1>1, <1>2 DEF SameChild, Tracks, IsChild
<1> QED
  BY <1>1, <1>2, <1>3, <1>4 DEF SameChild

\* So a worker's step keeps Ownership.
LEMMA WorkerStepOwnership ==
  ASSUME MgrInv, Ownership, NEW c, NEW d, Lives(c, d), UNCHANGED ledgerVars PROVE Ownership'
<1>1. TrackedOK' /\ LockOK'
  <2>1. [Next]_ledgerVars /\ UNCHANGED <<lock, mgr, tracked>>
    BY DEF Lives
  <2> QED
    BY <2>1, KeptTracked
<1>2. c \in host /\ SameChild(c, d) /\ host' = (host \ {c}) \cup {d} /\ UNCHANGED <<mgr, tracked, crashes>>
  BY DEF Lives, SameChild
<1>5. NoOrphan' /\ NoLostProcess'
  BY LivesTracks, RestatedNext
<1>6. OneChild'
  <2>1. \A x, y \in host : SameChild(x, y) => x = y
    BY Restated DEF Ownership
  <2>2. ASSUME NEW x \in host \ {c} PROVE ~ SameChild(x, d) /\ ~ SameChild(d, x)
    BY <1>2, <2>1 DEF SameChild
  <2> QED
    BY <1>2, <2>1, <2>2, RestatedNext
<1> QED
  BY <1>1, <1>5, <1>6 DEF Ownership

\* And so does a step of the ledger alone.
LEMMA QuietOwnership ==
  ASSUME MgrInv, Ownership, [Next]_ledgerVars, UNCHANGED <<lock, mgr, tracked, host, crashes>>
  PROVE  Ownership'
<1>1. TrackedOK' /\ LockOK'
  BY KeptTracked
<1>2. OneChild' /\ NoOrphan' /\ NoLostProcess'
  BY DEF Ownership, OneChild, NoOrphan, NoLostProcess, IsChild
<1> QED
  BY <1>1, <1>2 DEF Ownership

--------------------------------------------------------------------------------
(* One process, and completion.                                            *)

\* Two managers that track attempts of one run are the same manager.
LEMMA TrackedOnce ==
  ASSUME MgrInv, Ownership, NEW m \in Manager, NEW n \in Manager,
         NEW a \in tracked[m], NEW b \in tracked[n]
  PROVE  /\ ManagedRun[m] = ManagedRun[n] /\ a.worker = b.worker => m = n /\ a = b
         /\ a.task = b.task => m = n /\ a = b
         /\ OwnWorkers /\ a.worker = b.worker => m = n /\ a = b
<1>1. /\ Known(a, ManagedRun[m]) /\ Known(b, ManagedRun[n])
      /\ mgr[m].pc \in Active /\ mgr[n].pc \in Active /\ tracked[m] # {} /\ tracked[n] # {}
      /\ ManagedRun[m] \in Run /\ ManagedRun[n] \in Run
  BY RunManaged DEF Ownership, TrackedOK
<1>2. ManagedRun[m] = ManagedRun[n] => m = n
  BY <1>1 DEF Ownership, LockOK
<1>3. ManagedRun[m] = ManagedRun[n] /\ a.worker = b.worker => m = n /\ a = b
  BY <1>2 DEF Ownership, TrackedOK, WorkersDiffer
<1>4. a.task = b.task => ManagedRun[m] = ManagedRun[n] /\ a.worker = b.worker
  BY <1>1 DEF Known
<1>5. OwnWorkers /\ a.worker = b.worker => ManagedRun[m] = ManagedRun[n]
  BY <1>1 DEF Known, OwnWorkers
<1> QED
  BY <1>3, <1>4, <1>5

\* Two processes on one task are on one attempt of one manager.
LEMMA AttemptsUnique ==
  ASSUME MgrInv, Ownership, crashes = 0 PROVE OneProcessPerAttempt
<1>1. SUFFICES ASSUME NEW c \in Running, NEW d \in Running, c.task = d.task PROVE c = d
  BY DEF OneProcessPerAttempt
<1>2. c \in host /\ d \in host /\ c.manager \in Manager /\ d.manager \in Manager
  BY DEF Running, MgrInv, MgrTypeOK, Children
<1>3. PICK a \in tracked[c.manager] : IsChild(c, c.manager, a)
  BY <1>2 DEF Ownership, NoOrphan
<1>4. PICK b \in tracked[d.manager] : IsChild(d, d.manager, b)
  BY <1>2 DEF Ownership, NoOrphan
<1>5. a.task = b.task
  BY <1>1, <1>3, <1>4 DEF IsChild
<1>6. c.manager = d.manager /\ a = b
  BY <1>2, <1>5, TrackedOnce
<1> QED
  BY <1>2, <1>3, <1>4, <1>6 DEF IsChild, Ownership, OneChild

\* Two processes of one worker are, too, when runs name different workers.
LEMMA WorkersUnique ==
  ASSUME MgrInv, Ownership, crashes = 0, OwnWorkers PROVE OneProcessPerWorker
<1>1. SUFFICES ASSUME NEW c \in Running, NEW d \in Running, c.worker = d.worker PROVE c = d
  BY DEF OneProcessPerWorker
<1>2. c \in host /\ d \in host /\ c.manager \in Manager /\ d.manager \in Manager
  BY DEF Running, MgrInv, MgrTypeOK, Children
<1>3. PICK a \in tracked[c.manager] : IsChild(c, c.manager, a)
  BY <1>2 DEF Ownership, NoOrphan
<1>4. PICK b \in tracked[d.manager] : IsChild(d, d.manager, b)
  BY <1>2 DEF Ownership, NoOrphan
<1>5. a.worker = b.worker
  BY <1>1, <1>3, <1>4 DEF IsChild
<1>6. c.manager = d.manager /\ a = b
  BY <1>2, <1>5, TrackedOnce
<1> QED
  BY <1>2, <1>3, <1>4, <1>6 DEF IsChild, Ownership, OneChild

\* A lease, or a record other than a completion, completes nothing.
LEMMA PassedKept ==
  /\ CompletedMeansPassed /\ UNCHANGED <<tasks, receipts>> => CompletedMeansPassed'
  /\ \A t \in Task : \A s : TypeOK /\ CompletedMeansPassed /\ mark_task_terminal(t, s) /\ s # "Completed"
       /\ UNCHANGED receipts => CompletedMeansPassed'
  /\ \A t \in Task : \A w, d : TypeOK /\ CompletedMeansPassed /\ TaskLeased(t, w, d)
       /\ UNCHANGED receipts => CompletedMeansPassed'
BY DEF TypeOK, TaskState, CompletedMeansPassed, mark_task_terminal, TaskLeased

\* A receipt completes the task only with a passing result.
LEMMA FinalizedPassed ==
  ASSUME TypeOK, CompletedMeansPassed, NEW a \in Attempts, NEW s, NEW f, NEW res,
         finalize_task_attempt_if_leased(a.task, a.worker, a.attempt, s, f, res),
         IF f = NoStatus THEN s = "Completed" => res \notin {"Fail", "Timeout"} ELSE f # "Completed"
  PROVE  CompletedMeansPassed'
<1> DEFINE t == a.task  w == a.worker  n == a.attempt
           st == IF f = NoStatus THEN s ELSE f
<1>1. t \in Task
  BY DEF Attempts
<1>2. /\ tasks[t].attempts = n
      /\ mark_task_terminal(t, st)
      /\ receipts' = [receipts EXCEPT ![t] =
           [worker_id |-> w, attempt |-> n, terminal_seq |-> latest_seq[w][t] + 1, result |-> res]]
  BY DEF finalize_task_attempt_if_leased, OwnsAttempt
<1>3. st = "Completed" => res \notin {"Fail", "Timeout"}
  OBVIOUS
<1> HIDE DEF t, w, n, st
<1>4. /\ tasks'[t].attempts = n /\ tasks'[t].status = st
      /\ receipts'[t].attempt = n /\ receipts'[t].result = res
      /\ \A u \in Task \ {t} : tasks'[u] = tasks[u] /\ receipts'[u] = receipts[u]
  BY <1>1, <1>2 DEF TypeOK, TaskState, mark_task_terminal
<1> QED
  BY <1>1, <1>3, <1>4 DEF CompletedMeansPassed

\* Only record_task_outcome completes a task, through final_status.
LEMMA StepPassed ==
  ASSUME MgrInv, CompletedMeansPassed, ManagerNext PROVE CompletedMeansPassed'
<1> DEFINE Goal == CompletedMeansPassed'
<1> SUFFICES Goal
  OBVIOUS
<1>0. TypeOK /\ MgrTypeOK
  BY DEF MgrInv, IInv
<1>1. CASE UNCHANGED <<tasks, receipts>>
  BY <1>1, PassedKept
<1>2. ASSUME NEW m \in Manager, start_worker_task(m) PROVE Goal
  <2> DEFINE a == mgr[m].cur
  <2>1. a.task \in Task
    BY <1>2 DEF MgrInv, PhaseOK, Phase, start_worker_task, Attempts
  <2>2. UNCHANGED receipts /\ (TaskLeased(a.task, a.worker, NoTime) \/ UNCHANGED tasks)
    BY <1>2 DEF start_worker_task, lease_task_if_enqueued_with_events, ledgerVars
  <2> HIDE DEF a
  <2> QED
    BY <1>0, <2>1, <2>2, PassedKept
<1>3. ASSUME NEW m \in Manager, NEW t \in Task, restart_worker(m, t) PROVE Goal
  <2>1. UNCHANGED receipts /\ TaskLeased(t, tasks[t].leased_to, NoTime)
    BY <1>3 DEF restart_worker, restart_task_if_unchanged
  <2> QED
    BY <1>0, <2>1, PassedKept
<1>4. ASSUME NEW m \in Manager, NEW a, spawn_failed(m, a) PROVE Goal
  <2>1. a \in Attempts
    BY <1>4, Remaining DEF spawn_failed, At, Launching
  <2>2. finalize_task_attempt_if_leased(a.task, a.worker, a.attempt, "Failed", NoStatus, "Fail")
        \/ UNCHANGED <<tasks, receipts>>
    BY <1>4 DEF spawn_failed, ledgerVars
  <2>3. CASE finalize_task_attempt_if_leased(a.task, a.worker, a.attempt, "Failed", NoStatus, "Fail")
    BY <1>0, <2>1, <2>3, FinalizedPassed
  <2> QED
    BY <1>1, <2>2, <2>3
<1>5. ASSUME NEW m \in Manager, record_task_outcome(m) PROVE Goal
  <2> DEFINE a == mgr[m].cur
  <2>1. a \in Attempts /\ \A c \in Running : ~ IsChild(c, m, a)
    BY <1>5, Handled DEF record_task_outcome, At, Handling, MgrInv, PhaseOK, Phase
  <2>2. ASSUME NEW c \in host, NEW res \in VerifierResult,
               finalize_task_attempt_if_leased(a.task, a.worker, a.attempt, c.state,
                 final_status(c.state, res), res)
        PROVE  Goal
    <3>1. IF final_status(c.state, res) = NoStatus
          THEN c.state = "Completed" => res \notin {"Fail", "Timeout"}
          ELSE final_status(c.state, res) # "Completed"
      BY DEF final_status, NoStatus
    <3> HIDE DEF a
    <3> QED
      BY <1>0, <2>1, <2>2, <3>1, FinalizedPassed
  <2>3. (\E c \in host, res \in VerifierResult :
           finalize_task_attempt_if_leased(a.task, a.worker, a.attempt, c.state,
             final_status(c.state, res), res)) \/ UNCHANGED <<tasks, receipts>>
    BY <1>5 DEF record_task_outcome, ledgerVars
  <2> HIDE DEF a, Goal
  <2> QED
    BY <1>1, <2>2, <2>3
<1>6. ASSUME NEW t \in Task, stop(t) PROVE Goal
  <2>1. UNCHANGED receipts /\ (UNCHANGED tasks \/ mark_task_terminal(t, "Cancelled"))
    BY <1>6 DEF stop, cancel_task_if_active
  <2> QED
    BY <1>0, <2>1, PassedKept
<1>7. ASSUME NEW m \in Manager,
             \/ enter(m) \/ standby(m) \/ schedule(m) \/ pick(m) \/ leased(m) \/ tracked_workers(m)
             \/ drain_events(m) \/ pulse(m) \/ poll(m) \/ loop(m) \/ crash(m) \/ register(m)
             \/ \E w : beat(m, w)
             \/ \E a : spawn(m, a) \/ check(m, a)
             \/ \E y : ingest(m, y) \/ tail(m, y)
      PROVE  UNCHANGED <<tasks, receipts>>
  BY <1>7 DEF enter, standby, schedule, pick, leased, tracked_workers, drain_events, pulse, poll, loop,
     crash, beat, spawn, check, register, ingest, tail, Ingested, append_event_if_leased, heartbeat,
     ledgerVars
<1>8. ASSUME NEW c, write(c) \/ exit(c) PROVE UNCHANGED <<tasks, receipts>>
  BY <1>8 DEF write, exit, ledgerVars
<1> HIDE DEF Goal
<1>9. ASSUME NEW m \in Manager, Drive(m) PROVE Goal
  BY <1>1, <1>2, <1>4, <1>5, <1>7, <1>9 DEF Drive
<1> QED
  BY <1>1, <1>3, <1>6, <1>7, <1>8, <1>9 DEF ManagerNext

--------------------------------------------------------------------------------
(* Output.                                                                 *)

\* Where a step leads the manager.
LEMMA Moved ==
  ASSUME MgrTypeOK, NEW m \in Manager
  PROVE  /\ \A pc, todo, cur, lines : With(m, pc, todo, cur, lines) =>
              mgr'[m].pc = pc /\ mgr'[m].cur = cur /\ mgr'[m].lines = lines
         /\ \A pc : Goto(m, pc) =>
              mgr'[m].pc = pc /\ mgr'[m].cur = mgr[m].cur /\ mgr'[m].lines = mgr[m].lines
BY DEF MgrTypeOK, MgrRecord, With, Goto

\* A step of a manager that reads no new output.
LEMMA Elsewhere ==
  ASSUME MgrTypeOK, NEW m \in Manager, Drive(m) \/ \E t \in Task : restart_worker(m, t),
         ~ drain_events(m), ~ poll(m), ~ pulse(m), \A y : ~ ingest(m, y) /\ ~ tail(m, y),
         \A a : ~ (At(m, "spawn") /\ spawn(m, a))
  PROVE  mgr'[m].pc \notin Reading /\ tracked'[m] \subseteq tracked[m] /\ UNCHANGED <<log, strays>>
<1> DEFINE Goal == mgr'[m].pc \notin Reading /\ tracked'[m] \subseteq tracked[m] /\ UNCHANGED <<log, strays>>
<1> SUFFICES Goal
  OBVIOUS
<1>0. \A a : Reaped(m, a) => tracked'[m] \subseteq tracked[m]
  BY DEF MgrTypeOK, Reaped
<1>1. enter(m) \/ standby(m) \/ loop(m) \/ (\E t \in Task : restart_worker(m, t)) => Goal
  BY Moved DEF enter, standby, loop, restart_worker, Reading
<1>2. schedule(m) \/ start_worker_task(m) \/ leased(m) \/ tracked_workers(m) => Goal
  BY Moved DEF schedule, start_worker_task, leased, tracked_workers, Reading
<1>8. pick(m) => Goal
  <2>1. \A pc \in AfterPass(m) : pc \notin Reading
    BY DEF AfterPass, Reading
  <2>2. "start" \notin Reading
    BY DEF Reading
  <2> QED
    BY <2>1, <2>2, Moved DEF pick
<1>3. register(m) => Goal
  BY <1>0, Moved DEF register, Reading
<1>4. record_task_outcome(m) => Goal
  BY <1>0, Moved DEF record_task_outcome, Reading
<1>5. \A w : beat(m, w) => Goal
  BY Moved DEF beat, Reading
<1>6. \A a : spawn_failed(m, a) => Goal
  BY Moved DEF spawn_failed, Reading
<1>7. \A a : check(m, a) => Goal
  BY <1>0, Moved DEF check, Reading
<1> HIDE DEF Goal
<1> QED
  BY <1>1, <1>2, <1>3, <1>4, <1>5, <1>6, <1>7, <1>8 DEF Drive

\* What a manager reads stays that of the attempts that it tracks.
LEMMA ReadsFenced ==
  ASSUME MgrTypeOK, LogFenced, LinesFenced, NEW m \in Manager, Effect(m),
         tracked'[m] \subseteq tracked[m], \A w \in Worker : log'[w] \subseteq log[w],
         mgr'[m].pc \in Reading => mgr'[m].lines \subseteq {LineOf(mgr'[m].cur)}
  PROVE  LogFenced' /\ LinesFenced'
<1>1. \A n \in Manager \ {m} : mgr'[n] = mgr[n] /\ tracked'[n] = tracked[n]
  BY EffectOnOthers
<1>2. ASSUME NEW n \in Manager, NEW a \in tracked'[n] PROVE log'[a.worker] \subseteq {LineOf(a)}
  <2>1. a \in tracked[n] /\ a.worker \in Worker
    BY <1>1 DEF MgrTypeOK, Attempts
  <2> QED
    BY <2>1 DEF LogFenced
<1>3. ASSUME NEW n \in Manager, mgr'[n].pc \in Reading
      PROVE  mgr'[n].lines \subseteq {LineOf(mgr'[n].cur)}
  BY <1>1, <1>3 DEF LinesFenced
<1> QED
  BY <1>2, <1>3 DEF LogFenced, LinesFenced, LineOf

\* drain_events and poll take the lines of an attempt that is tracked.
LEMMA DrainFenced ==
  ASSUME MgrInv, LogFenced, LinesFenced, OutputFenced, NEW m \in Manager, StepOK(m),
         drain_events(m) \/ poll(m)
  PROVE  LogFenced' /\ LinesFenced' /\ OutputFenced'
<1> DEFINE a == mgr[m].cur
<1>0. MgrTypeOK /\ Effect(m) /\ a \in Attempts /\ a \in tracked[m]
  BY Handled DEF MgrInv, StepOK, drain_events, poll, At, Handling
<1>1. UNCHANGED <<tracked, strays>>
  BY DEF drain_events, poll
<1>2. log' = [log EXCEPT ![a.worker] = {}] \/ UNCHANGED log
  BY DEF drain_events, poll
<1>3. \A w \in Worker : log'[w] \subseteq log[w]
  BY <1>0, <1>2 DEF MgrTypeOK
<1>4. mgr'[m].pc \in Reading => mgr'[m].cur = a /\ mgr'[m].lines = log[a.worker]
  BY <1>0, Moved DEF drain_events, poll, Reading
<1>5. log[a.worker] \subseteq {LineOf(a)}
  BY <1>0 DEF LogFenced
<1> HIDE DEF a
<1> QED
  BY <1>0, <1>1, <1>3, <1>4, <1>5, ReadsFenced DEF OutputFenced

\* ingest and tail record lines of the current attempt.
LEMMA IngestFenced ==
  ASSUME MgrInv, LogFenced, LinesFenced, OutputFenced, NEW m \in Manager, StepOK(m),
         pulse(m) \/ \E y \in mgr[m].lines : ingest(m, y) \/ tail(m, y)
  PROVE  LogFenced' /\ LinesFenced' /\ OutputFenced'
<1> DEFINE a == mgr[m].cur
<1>0. MgrTypeOK /\ Effect(m) /\ mgr[m].lines \subseteq {LineOf(a)}
  BY DEF MgrInv, StepOK, pulse, ingest, tail, At, Reading, LinesFenced
<1>1. UNCHANGED <<tracked, log>>
  BY DEF pulse, ingest, tail
<1>2. mgr'[m].cur = a /\ mgr'[m].lines \subseteq mgr[m].lines
  <2>1. CASE pulse(m)
    BY <1>0, <2>1, Moved DEF pulse
  <2>2. ASSUME NEW y \in mgr[m].lines, ingest(m, y) PROVE mgr'[m].cur = a /\ mgr'[m].lines \subseteq mgr[m].lines
    BY <1>0, <2>2, Moved DEF ingest
  <2>3. ASSUME NEW y \in mgr[m].lines, tail(m, y) PROVE mgr'[m].cur = a /\ mgr'[m].lines \subseteq mgr[m].lines
    BY <1>0, <2>3, Moved DEF tail
  <2> QED
    BY <2>1, <2>2, <2>3
<1>3. ASSUME NEW y \in mgr[m].lines, Ingested(m, y) PROVE ~ strays'
  <2>1. y = <<a.task, a.attempt>>
    BY <1>0 DEF LineOf
  <2> QED
    BY <1>3, <2>1, Zenon DEF Ingested, OutputFenced
<1>4. ~ strays'
  BY <1>3 DEF pulse, ingest, tail, OutputFenced
<1> HIDE DEF a
<1> QED
  BY <1>0, <1>1, <1>2, <1>4, ReadsFenced DEF OutputFenced

\* spawn truncates the log file, so that the new attempt starts without lines.
LEMMA SpawnFenced ==
  ASSUME MgrInv, LogFenced, LinesFenced, OutputFenced, NEW m \in Manager, StepOK(m), NEW a,
         At(m, "spawn"), spawn(m, a)
  PROVE  LogFenced' /\ LinesFenced' /\ OutputFenced'
<1>0. /\ MgrTypeOK /\ Effect(m) /\ UNCHANGED strays
      /\ tracked' = [tracked EXCEPT ![m] = @ \cup {a}] /\ log' = [log EXCEPT ![a.worker] = {}]
  BY DEF MgrInv, StepOK, spawn
<1>1. a \in Attempts
  BY Remaining DEF spawn, Launching, At
<1>2. mgr'[m].pc \notin Reading
  BY <1>0, Moved DEF spawn, Reading
<1>3. \A n \in Manager \ {m} : mgr'[n] = mgr[n]
  BY <1>0, EffectOnOthers
<1>4. ASSUME NEW n \in Manager, NEW b \in tracked'[n] PROVE log'[b.worker] \subseteq {LineOf(b)}
  <2>1. b \in tracked[n] \/ b = a
    BY <1>0 DEF MgrTypeOK
  <2>2. b.worker \in Worker /\ a.worker \in Worker
    BY <1>0, <1>1, <2>1 DEF MgrTypeOK, Attempts
  <2>3. CASE b.worker = a.worker
    BY <1>0, <2>2, <2>3 DEF MgrTypeOK
  <2>4. CASE b.worker # a.worker
    BY <1>0, <2>1, <2>2, <2>4 DEF MgrTypeOK, LogFenced
  <2> QED
    BY <2>3, <2>4
<1>5. ASSUME NEW n \in Manager, mgr'[n].pc \in Reading
      PROVE  mgr'[n].lines \subseteq {LineOf(mgr'[n].cur)}
  BY <1>2, <1>3, <1>5 DEF LinesFenced
<1> QED
  BY <1>0, <1>4, <1>5 DEF LogFenced, LinesFenced, LineOf, OutputFenced

\* A worker's line is that of the attempt that its manager tracks.
LEMMA WriteFenced ==
  ASSUME MgrInv, Ownership, crashes = 0, OwnWorkers, LogFenced, LinesFenced, OutputFenced,
         NEW c \in host, write(c)
  PROVE  LogFenced' /\ LinesFenced' /\ OutputFenced'
<1>0. /\ MgrTypeOK /\ UNCHANGED <<mgr, tracked, strays>>
      /\ log' = [log EXCEPT ![c.worker] = @ \cup {<<c.task, c.attempt>>}]
      /\ c.manager \in Manager /\ c.worker \in Worker
  BY DEF MgrInv, MgrTypeOK, Children, write
<1>1. PICK b \in tracked[c.manager] : IsChild(c, c.manager, b)
  BY DEF Ownership, NoOrphan
<1>2. ASSUME NEW n \in Manager, NEW a \in tracked'[n] PROVE log'[a.worker] \subseteq {LineOf(a)}
  <2>1. a \in tracked[n] /\ a.worker \in Worker
    BY <1>0 DEF MgrTypeOK, Attempts
  <2>2. log[a.worker] \subseteq {LineOf(a)}
    BY <2>1 DEF LogFenced
  <2>3. CASE a.worker = c.worker
    <3>1. a = b
      BY <1>0, <1>1, <2>1, <2>3, TrackedOnce DEF IsChild
    <3>2. LineOf(a) = <<c.task, c.attempt>>
      BY <1>1, <3>1 DEF IsChild, LineOf
    <3>3. log'[a.worker] = log[a.worker] \cup {<<c.task, c.attempt>>}
      BY <1>0, <2>3 DEF MgrTypeOK
    <3> QED
      BY <2>2, <3>2, <3>3
  <2>4. CASE a.worker # c.worker
    BY <1>0, <2>1, <2>2, <2>4 DEF MgrTypeOK
  <2> QED
    BY <2>3, <2>4
<1>3. LinesFenced'
  BY <1>0 DEF LinesFenced, LineOf
<1> QED
  BY <1>0, <1>2, <1>3 DEF LogFenced, LineOf, OutputFenced

\* A step that leaves logs and managers alone keeps Fenced.
LEMMA QuietFenced ==
  ASSUME Fenced, UNCHANGED <<mgr, tracked, log, strays, crashes>> PROVE Fenced'
BY DEF Fenced, LogFenced, LinesFenced, OutputFenced, LineOf, OwnWorkers, Ids

\* Every step of a manager keeps Fenced.
LEMMA ManagerStepFenced ==
  ASSUME MgrInv, Ownership, Fenced, NEW m \in Manager, StepOK(m),
         Drive(m) \/ crash(m) \/ \E t \in Task : restart_worker(m, t)
  PROVE  Fenced'
<1>0. OwnWorkers' <=> OwnWorkers
  BY DEF OwnWorkers, Ids
<1>1. CASE crash(m)
  <2>1. crashes' # 0
    BY <1>1 DEF crash, MgrInv, MgrTypeOK
  <2> QED
    BY <2>1 DEF Fenced
<1>2. CASE Drive(m) \/ \E t \in Task : restart_worker(m, t)
  <2>1. SUFFICES ASSUME crashes' = 0, OwnWorkers
                 PROVE  LogFenced' /\ LinesFenced' /\ OutputFenced'
    BY <1>0 DEF Fenced
  <2>2. crashes = 0
    BY <2>1 DEF StepOK, Effect, Drives, Spawns, Reaps, Enters, Waits, Leaves, Dies, Stays, MgrInv, MgrTypeOK
  <2>3. LogFenced /\ LinesFenced /\ OutputFenced /\ MgrTypeOK /\ Effect(m)
    BY <2>1, <2>2 DEF Fenced, MgrInv, StepOK
  <2>4. CASE drain_events(m) \/ poll(m)
    BY <2>3, <2>4, DrainFenced
  <2>5. CASE pulse(m) \/ \E y : ingest(m, y) \/ tail(m, y)
    <3>1. pulse(m) \/ \E y \in mgr[m].lines : ingest(m, y) \/ tail(m, y)
      BY <2>5 DEF ingest, tail
    <3> QED
      BY <2>3, <3>1, IngestFenced
  <2>6. CASE \E a : At(m, "spawn") /\ spawn(m, a)
    BY <2>3, <2>6, SpawnFenced
  <2>7. CASE ~ drain_events(m) /\ ~ poll(m) /\ ~ pulse(m) /\ (\A y : ~ ingest(m, y) /\ ~ tail(m, y))
             /\ \A a : ~ (At(m, "spawn") /\ spawn(m, a))
    <3>1. mgr'[m].pc \notin Reading /\ tracked'[m] \subseteq tracked[m] /\ UNCHANGED <<log, strays>>
      BY <1>2, <2>3, <2>7, Elsewhere
    <3> QED
      BY <2>3, <3>1, ReadsFenced DEF OutputFenced
  <2> QED
    BY <2>4, <2>5, <2>6, <2>7
<1> QED
  BY <1>1, <1>2

\* And every step of a worker process.
LEMMA WorkerStepFenced ==
  ASSUME MgrInv, Ownership, Fenced, NEW c \in host, write(c) \/ exit(c) PROVE Fenced'
<1>1. CASE exit(c)
  BY <1>1, QuietFenced DEF exit
<1>2. CASE write(c)
  <2>1. SUFFICES ASSUME crashes' = 0, OwnWorkers
                 PROVE  LogFenced' /\ LinesFenced' /\ OutputFenced'
    BY DEF Fenced, OwnWorkers, Ids
  <2>2. crashes = 0
    BY <1>2, <2>1 DEF write
  <2> QED
    BY <1>2, <2>1, <2>2, WriteFenced DEF Fenced
<1> QED
  BY <1>1, <1>2

--------------------------------------------------------------------------------
(* The invariant.                                                          *)

\* The inductive invariant.
MInv == MgrInv /\ Ownership /\ Fenced /\ CompletedMeansPassed

\* It holds when the runs have been created and nothing is leased.
LEMMA InitMInv == ManagerInit => MInv
<1> SUFFICES ASSUME ManagerInit PROVE MInv
  OBVIOUS
<1>1. IInv
  <2>1. tasks \in [Task -> TaskState]
    <3>1. [status |-> "Enqueued", leased_to |-> NoWorker, attempts |-> 0, lease_deadline |-> NoTime] \in TaskState
      BY DEF TaskState, TaskStatus, NoTime
    <3> QED
      BY <3>1 DEF ManagerInit
  <2>2. receipts \in [Task -> Receipt]
    BY DEF ManagerInit, Receipt, NoReceipt
  <2>3. TypeOK
    BY <2>1, <2>2 DEF ManagerInit, TypeOK, NoTime
  <2>4. OneLeasePerWorker /\ LeaseShape /\ CompletedHasReceipt
    BY DEF ManagerInit, OneLeasePerWorker, IsLeased, LeaseShape, CompletedHasReceipt
  <2>5. ReceiptFenced /\ AlertFenced
    BY DEF ManagerInit, ReceiptFenced, AlertFenced, NoReceipt
  <2> QED
    BY <2>3, <2>4, <2>5 DEF IInv
<1>2. Bounded /\ LeasesNamed /\ CompletedMeansPassed
  BY LedgerAssumption DEF ManagerInit, Bounded, LeasesNamed, CompletedMeansPassed, NoTime
<1>3. ASSUME NEW m \in Manager
      PROVE  /\ mgr[m] \in MgrRecord /\ mgr[m].pc \in {"schedule", "off"} /\ tracked[m] = {}
  <2>1. mgr[m] = [pc |-> IF m \in Creator THEN "schedule" ELSE "off", todo |-> {}, cur |-> Free, lines |-> {}]
        /\ tracked[m] = {}
    BY DEF ManagerInit
  <2>2. (IF m \in Creator THEN "schedule" ELSE "off") \in {"schedule", "off"}
    OBVIOUS
  <2> QED
    BY <2>1, <2>2, PcKnown DEF MgrRecord
<1>4. MgrTypeOK
  <2>1. mgr \in [Manager -> MgrRecord]
    BY <1>3 DEF ManagerInit
  <2> QED
    BY <2>1 DEF ManagerInit, MgrTypeOK
<1>5. PhaseOK
  BY <1>3 DEF PhaseOK, Phase, At, Launching, Driving, Handling
<1>6. Ownership
  BY <1>3, PcKnown DEF ManagerInit, Ownership, TrackedOK, WorkersDiffer, LockOK, OneChild, NoOrphan, NoLostProcess
<1>7. Fenced
  BY <1>3 DEF ManagerInit, Fenced, LogFenced, LinesFenced, OutputFenced, Reading
<1> QED
  BY <1>1, <1>2, <1>4, <1>5, <1>6, <1>7 DEF MInv, MgrInv

\* Every step keeps it and is a ledger transaction or none.
LEMMA NextIsLedgerStep ==
  ASSUME MInv, [ManagerNext]_managerVars PROVE MInv' /\ [Next]_ledgerVars
<1>0. MgrInv /\ Ownership /\ Fenced /\ CompletedMeansPassed /\ MgrTypeOK /\ LeasesNamed
  BY DEF MInv, MgrInv
<1>a. ASSUME [Next]_ledgerVars PROVE IInv' /\ Bounded'
  BY <1>0, <1>a, StepIInv, BoundedStep DEF MgrInv, IInv
<1>1. ASSUME NEW m \in Manager, Drive(m) \/ crash(m) \/ \E t \in Task : restart_worker(m, t)
      PROVE  MgrTypeOK' /\ PhaseOK' /\ Ownership' /\ Fenced' /\ [Next]_ledgerVars
  <2>1. StepOK(m)
    BY <1>0, <1>1, ManagerStepOK
  <2>2. MgrTypeOK' /\ [Next]_ledgerVars
    BY <2>1 DEF StepOK
  <2> QED
    BY <1>0, <1>1, <2>1, <2>2, ManagerStepPhases, EffectOwnership, ManagerStepFenced
<1>2. ASSUME NEW c \in host, write(c) \/ exit(c)
      PROVE  MgrTypeOK' /\ PhaseOK' /\ Ownership' /\ Fenced' /\ [Next]_ledgerVars
  <2>1. PICK d : Lives(c, d) /\ MgrTypeOK' /\ UNCHANGED ledgerVars
    BY <1>0, <1>2, WorkerStep
  <2>2. Fenced'
    BY <1>0, <1>2, WorkerStepFenced
  <2> QED
    BY <1>0, <2>1, <2>2, WorkerStepPhases, WorkerStepOwnership
<1>3. ASSUME [Next]_ledgerVars, UNCHANGED mgrVars
      PROVE  MgrTypeOK' /\ PhaseOK' /\ Ownership' /\ Fenced' /\ [Next]_ledgerVars
  <2>1. UNCHANGED <<lock, mgr, tracked, host, log, strays, crashes>>
    BY <1>3 DEF mgrVars
  <2>2. MgrTypeOK'
    BY <1>0, <2>1 DEF MgrTypeOK
  <2> QED
    BY <1>0, <1>3, <2>1, <2>2, QuietPhases, QuietOwnership, QuietFenced
<1>4. ASSUME NEW t \in Task, stop(t) PROVE [Next]_ledgerVars /\ UNCHANGED mgrVars
  BY <1>4, StopStep
<1>5. CASE ManagerNext
  <2>1. MgrTypeOK' /\ PhaseOK' /\ Ownership' /\ Fenced' /\ [Next]_ledgerVars
    BY <1>1, <1>2, <1>3, <1>4, <1>5 DEF ManagerNext
  <2>2. LeasesNamed' /\ CompletedMeansPassed'
    BY <1>0, <1>5, StepNamed, StepPassed
  <2> QED
    BY <1>a, <2>1, <2>2 DEF MInv, MgrInv
<1>6. CASE UNCHANGED managerVars
  <2>1. [Next]_ledgerVars /\ UNCHANGED mgrVars /\ UNCHANGED <<tasks, receipts>>
    BY <1>6 DEF managerVars, ledgerVars
  <2>2. LeasesNamed' /\ CompletedMeansPassed'
    BY <1>0, <2>1, UnchangedSame, SameNamed, PassedKept
  <2> QED
    BY <1>a, <1>3, <2>1, <2>2 DEF MInv, MgrInv
<1> QED
  BY <1>5, <1>6

\* The inductive invariant holds in every reachable state, whatever the numbers
\* of managers, runs, tasks and workers, through crashes of managers.
THEOREM ManagerInvariance == ManagerSpec => []MInv
<1>1. MInv /\ [ManagerNext]_managerVars => MInv'
  BY NextIsLedgerStep
<1> QED
  BY InitMInv, <1>1, PTL DEF ManagerSpec

\* Managers, operators and worker processes only do to the ledger what a client
\* of it may do (FleetManager goes through FleetLedger's transactions).
THEOREM ManagerIsClient == ManagerSpec => [][Next]_ledgerVars
<1>1. MInv /\ [ManagerNext]_managerVars => [Next]_ledgerVars
  BY NextIsLedgerStep
<1> QED
  BY ManagerInvariance, <1>1, PTL DEF ManagerSpec

\* While a manager lives it tracks every process that it started: a cancelled or
\* replaced attempt is stopped before it is forgotten, whatever operators and
\* other managers do in between (check, register, record_task_outcome).
THEOREM NoProcessLost == ManagerSpec => []NoLostProcess
<1>1. MInv => NoLostProcess
  BY DEF MInv, Ownership
<1> QED
  BY ManagerInvariance, <1>1, PTL

\* A task is completed only on a passing receipt of its latest attempt, through
\* crashes and restarts (record_task_outcome with final_status).
THEOREM CompletionVerified == ManagerSpec => []CompletedMeansPassed
<1>1. MInv => CompletedMeansPassed
  BY DEF MInv
<1> QED
  BY ManagerInvariance, <1>1, PTL

\* Until a manager dies no two live processes work on one attempt: the lock file
\* leaves one manager per run, and that one starts no process for a worker that it
\* tracks (start_leased_workers).
THEOREM AttemptHasOneProcess == ManagerSpec => [](crashes = 0 => OneProcessPerAttempt)
<1>1. MInv => (crashes = 0 => OneProcessPerAttempt)
  BY AttemptsUnique DEF MInv
<1> QED
  BY ManagerInvariance, <1>1, PTL

\* A logical worker is one live process, until a manager dies and as long as no
\* two runs name the same worker (worker_ids_for_run, Idle, leased).
THEOREM WorkerHasOneProcess ==
  ASSUME OwnWorkers
  PROVE  ManagerSpec => [](crashes = 0 => OneProcessPerWorker)
<1>1. MInv => (crashes = 0 => OneProcessPerWorker)
  BY WorkersUnique DEF MInv
<1> QED
  BY ManagerInvariance, <1>1, PTL

\* Under the same conditions no output is recorded as the progress of an attempt
\* that did not produce it (spawn truncates the shared log file, drain_events and
\* poll_terminal_with_status take it before the attempt is forgotten).
THEOREM OutputIsFenced ==
  ASSUME OwnWorkers
  PROVE  ManagerSpec => [](crashes = 0 => OutputFenced)
<1>1. MInv => (crashes = 0 => OutputFenced)
  BY DEF MInv, Fenced
<1> QED
  BY ManagerInvariance, <1>1, PTL

\* At most one manager starts and drives the workers of a run, through crashes too
\* (the manager lock file); only leases are made without it.
THEOREM RunHasOneManager ==
  ManagerSpec => [](\A m, n \in Manager :
    mgr[m].pc \in Active \ Scheduling /\ mgr[n].pc \in Active \ Scheduling
      /\ ManagedRun[m] = ManagedRun[n] => m = n)
<1> DEFINE Single == \A m, n \in Manager :
             mgr[m].pc \in Active \ Scheduling /\ mgr[n].pc \in Active \ Scheduling
               /\ ManagedRun[m] = ManagedRun[n] => m = n
<1>1. MInv => Single
  BY DEF MInv, Ownership, LockOK
<1> QED
  BY ManagerInvariance, <1>1, PTL

\* Under a manager, too, what has ended stays ended until a new attempt.
THEOREM ManagerFinality == ManagerSpec => TerminalAttemptIsFinal
<1>1. MInv /\ [Next]_ledgerVars => [FinalStep]_ledgerVars
  <2> SUFFICES ASSUME MInv, [Next]_ledgerVars PROVE FinalStep
    OBVIOUS
  <2>1. IInv /\ Kept
    BY StepKinds DEF MInv, MgrInv, IInv
  <2> QED
    BY <2>1, KeptFinal
<1> QED
  BY <1>1, ManagerInvariance, ManagerIsClient, PTL DEF TerminalAttemptIsFinal, FinalStep
================================================================================
