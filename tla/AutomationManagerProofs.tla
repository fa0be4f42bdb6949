------------------------ MODULE AutomationManagerProofs ------------------------
(***************************************************************************)
(* Proofs about AutomationManager for every number of automations, callers,*)
(* hosts and runs, every clock and every number of crashes and failed      *)
(* calls.                                                                  *)
(*                                                                         *)
(* The argument: between two phases under the lock the scheduler and the   *)
(* callers hold runs in their hands, and nobody else writes these: a       *)
(* caller's run and the run of a due slot are not on disk yet (Calls,      *)
(* Enqueueing).  The runs that reconciliations hold were active on disk    *)
(* once, and anyone may save them: such a run can be written again after   *)
(* it is gone, but only when retention or its automation's deletion took   *)
(* it (Reconciling).  So the slot check and the lookup without the lock    *)
(* are still true when the run is saved.                                   *)
(*                                                                         *)
(* NonOverlap needs a count besides: of the open tasks of an automation's  *)
(* slots at most one is told of by a record, and each of the others was    *)
(* orphaned by a crash or a failed call of its own (Fits, Tame).           *)
(***************************************************************************)
EXTENDS AutomationManager, FiniteSetTheorems, TLAPS

Drawn == 1 .. drawn
Busy(c) == caller[c].pc # "idle"
Gone(a) == a \in Automation /\ automations[a].status = "Deleted"
Call == [pc : {"idle", "enqueue", "save"}, run : Run \cup {NoRun}, status : RunStatus]
BoardStatus == {"Absent", "Open"} \cup Outcome

\* The shapes of a pass, the scheduler's or a host's, and of an automation file.
IsRecord(x) == x = [pc |-> x.pc, todo |-> x.todo, run |-> x.run, status |-> x.status]
IsAutomation(x) == x = [status |-> x.status, next |-> x.next]

\* What the steps rely on.
Shape ==
  /\ drawn \in 0 .. MaxRuns
  /\ runs \in [Run -> RunStatus]
  /\ origin = [r \in Run |-> origin[r]]
  /\ board \in [Run -> BoardStatus]
  /\ caller \in [Caller -> Call]
  /\ IsRecord(sched)
  /\ host = [h \in Host |-> host[h]]
  /\ \A h \in Host : IsRecord(host[h])
  /\ automations = [a \in Automation |-> automations[a]]
  /\ \A a \in Automation : IsAutomation(automations[a])
  /\ \A r \in Run : r > drawn => runs[r] = "Absent" /\ board[r] = "Absent" /\ r \notin pruned

\* r and s stand for the same slot.
SameSlot(r, s) == origin[r] = origin[s] /\ origin[r].slot # Manual

\* The runs of callers: not on disk, and each in one hand.
Called(c) ==
  /\ caller[c].run \in Drawn
  /\ caller[c].run \notin pruned
  /\ runs[caller[c].run] = "Absent"
  /\ origin[caller[c].run].slot = Manual
  /\ caller[c].pc = "enqueue" => board[caller[c].run] = "Absent"
  /\ caller[c].pc = "save" => /\ caller[c].status \in {"Active", "NotAdded"}
                              /\ caller[c].status = "Active" => board[caller[c].run] # "Absent"
Calls ==
  /\ \A c \in Caller : Busy(c) => Called(c)
  /\ \A c, d \in Caller : Busy(c) /\ Busy(d) /\ caller[c].run = caller[d].run => c = d

NotCalled(r) == \A c \in Caller : Busy(c) => caller[c].run # r
Finishing(r) == At("finish") /\ sched.run = r

\* The runs that somebody is reconciling.
PendingOf(x) ==
  IF x.pc = "reconcile" THEN x.todo ELSE IF x.pc = "apply" THEN x.todo \cup {x.run} ELSE {}
Pending == PendingOf(sched) \cup UNION {PendingOf(host[h]) : h \in Host}

\* The task of r was deleted, if at all, by retention.
Deleted(r) == board[r] = "Absent" <=> r \in pruned

\* What is known of a run that is being reconciled: it was active on disk once, and
\* when it is gone retention deleted it, or it went with its automation.
Waiting(r) ==
  /\ r \in Drawn
  /\ runs[r] \in {"Active", "Absent"} \cup Outcome
  /\ Deleted(r)
  /\ runs[r] = "Absent" => r \in pruned \/ Gone(origin[r].of)
  /\ NotCalled(r)
  /\ ~ Finishing(r)

\* A task that was over when it was looked up is over in the same way, or deleted.
Hand(x) ==
  x.pc = "apply" =>
    /\ x.status \in {"Active"} \cup Outcome
    /\ x.status \in Outcome => board[x.run] \in {x.status, "Absent"}

Reconciling ==
  /\ \A r \in Pending : Waiting(r)
  /\ Hand(sched)
  /\ \A h \in Host : Hand(host[h])

\* The runs that are on disk or may be written there by a reconciliation.
Known(r) == runs[r] # "Absent" \/ r \in Pending
Unique == \A r, s \in Drawn \ pruned : Known(r) /\ Known(s) /\ SameSlot(r, s) => r = s

\* What a run on disk says of its task.
Told(r) ==
  /\ runs[r] \in {"Active"} \cup Outcome => Deleted(r)
  /\ runs[r] \in Outcome => board[r] \in {runs[r], "Absent"}
Tasks == \A r \in Run : Told(r)

\* The slots that are due, and the run of the one in hand.
Free(d) ==
  d[2] # Manual =>
    \A s \in Drawn \ pruned : Known(s) \/ Finishing(s) => origin[s] # [of |-> d[1], slot |-> d[2]]
InHand ==
  /\ sched.run \in Drawn
  /\ sched.run \notin pruned
  /\ runs[sched.run] = "Absent"
  /\ sched.status \in {"Active", "NotAdded"}
  /\ sched.status = "Active" => board[sched.run] # "Absent"
  /\ NotCalled(sched.run)
  /\ \A s \in Drawn \ pruned : Known(s) => ~ SameSlot(sched.run, s)
Enqueueing ==
  /\ At("due") \/ At("finish") => /\ \A d \in sched.todo : Free(d)
                                  /\ \A d, e \in sched.todo : d[1] = e[1] => d = e
  /\ At("finish") => InHand

\* The inductive invariant.
IInv == Shape /\ Calls /\ Reconciling /\ Enqueueing /\ Unique /\ Tasks
--------------------------------------------------------------------------------
(* Facts about the constants, and the initial states.                      *)

\* What the assumption says of the constants.
LEMMA Constants ==
  /\ MaxRuns \in Nat /\ BoardTask = Run
  /\ \A o \in Outcome : o \notin {"Absent", "Open", "Active", "NotAdded"}
BY AutomationAssumption

\* The runs that are drawn are runs.
LEMMA DrawnRuns == Shape => Drawn \subseteq Run
BY Constants DEF Shape, Drawn, Run

\* Nothing is on disk or in hand at the start.
LEMMA InitHolds == Init => IInv
<1> SUFFICES ASSUME Init PROVE IInv
  OBVIOUS
<1>1. Shape
  BY AutomationAssumption DEF Init, BoardInit, Shape, RunStatus, BoardStatus, Call, NoCall, NoRun, Idle, IsRecord,
     IsAutomation
<1>2. sched.pc = "idle" /\ (\A h \in Host : host[h].pc = "idle") /\ \A c \in Caller : ~ Busy(c)
  BY DEF Init, Idle, NoCall, Busy
<1>3. Drawn = {} /\ \A r \in Run : runs[r] = "Absent"
  BY DEF Init, Drawn
<1>4. PendingOf(sched) = {} /\ \A h \in Host : PendingOf(host[h]) = {}
  BY <1>2 DEF PendingOf
<1>5. Pending = {}
  BY <1>4 DEF Pending
<1>6. Calls /\ Enqueueing /\ Unique
  BY <1>2, <1>3 DEF Calls, Enqueueing, Unique, At
<1>7. Reconciling
  BY <1>2, <1>5 DEF Reconciling, Hand
<1>8. Tasks
  BY <1>3, Constants DEF Tasks, Told
<1>9. QED
  BY <1>1, <1>6, <1>7, <1>8 DEF IInv

--------------------------------------------------------------------------------
(* Steps that draw no record and write none that somebody holds.           *)

\* A run that may be active or over on disk, or be written so.
Live(r) == runs[r] \in {"Active"} \cup Outcome \/ r \in Pending

\* What such a step may do to a run and its task.
Kept(r) ==
  /\ runs[r] = "Absent" => /\ board'[r] = "Absent" <=> board[r] = "Absent"
                           /\ r \in pruned' <=> r \in pruned
  /\ Live(r) =>
       /\ Deleted(r) => Deleted(r)'
       /\ runs'[r] \in {"Active", "Absent"} \cup Outcome
       /\ runs'[r] = "Absent" => runs[r] = "Absent" \/ r \in pruned' \/ Gone(origin[r].of)'
  /\ ~ Live(r) => runs'[r] \in {runs[r], "Absent"}
  /\ runs'[r] \in Outcome => board'[r] \in {runs'[r], "Absent"}

Frame ==
  /\ Shape'
  /\ UNCHANGED <<origin, drawn>>
  /\ pruned \subseteq pruned'
  /\ \A c \in Caller : Busy(c)' => caller'[c] = caller[c]
  /\ \A a : Gone(a) => Gone(a)'
  /\ Pending' \subseteq Pending \cup collect_pending_runs
  /\ Hand(sched)'
  /\ \A h \in Host : Hand(host[h])'
  /\ \A r \in Run : Kept(r)

\* The runs that a reconciliation collects are active on disk.
LEMMA Collecting ==
  \A r \in collect_pending_runs : r \in Drawn /\ runs[r] = "Active"
<1>1. \A a : Listed(a) \subseteq Drawn
  BY DEF Listed, RunsOf, Drawn
<1>2. QED
  BY <1>1 DEF collect_pending_runs

\* What is collected waits for its task, like what was pending.
LEMMA Waits ==
  ASSUME IInv, NEW r \in Pending \cup collect_pending_runs
  PROVE  r \in Run /\ Waiting(r) /\ Known(r) /\ Live(r)
<1>1. Drawn \subseteq Run
  BY DrawnRuns DEF IInv
<1>2. CASE r \in Pending
  BY <1>1, <1>2 DEF IInv, Reconciling, Waiting, Known, Live
<1>3. CASE r \in collect_pending_runs
  <2>1. r \in Drawn /\ r \in Run /\ runs[r] = "Active"
    BY <1>1, <1>3, Collecting
  <2>2. Deleted(r)
    BY <2>1 DEF IInv, Tasks, Told
  <2>3. NotCalled(r)
    BY <2>1 DEF NotCalled, IInv, Calls, Called
  <2>4. ~ Finishing(r)
    BY <2>1 DEF Finishing, IInv, Enqueueing, InHand
  <2>5. QED
    BY <2>1, <2>2, <2>3, <2>4 DEF Waiting, Known, Live
<1>4. QED
  BY <1>2, <1>3

\* A run that somebody holds to save it first is not known.
LEMMA HeldUnknown ==
  ASSUME IInv, NEW r \in Run, runs[r] = "Absent", ~ NotCalled(r) \/ Finishing(r)
  PROVE  ~ Known(r)
BY DEF IInv, Reconciling, Waiting, Known

\* What is not known stays off the disk.
LEMMA FrameUnknown ==
  ASSUME IInv, Frame, NEW r \in Run, Known(r)'
  PROVE  Known(r)
<1>1. CASE r \in Pending'
  <2>1. r \in Pending \cup collect_pending_runs
    BY <1>1 DEF Frame
  <2>2. QED
    BY <2>1, Waits
<1>2. CASE runs'[r] # "Absent"
  <2>1. Kept(r)
    BY DEF Frame
  <2>2. QED
    BY <1>2, <2>1, Constants DEF Kept, Live, Known
<1>3. QED
  BY <1>1, <1>2 DEF Known

\* The part of the invariant that such a step preserves.
LEMMA FrameKeeps ==
  ASSUME IInv, Frame, \A r \in Run : Finishing(r)' => Finishing(r)
  PROVE  Calls' /\ Reconciling' /\ Unique' /\ Tasks'
<1>1. /\ Drawn \subseteq Run /\ Drawn' = Drawn
      /\ \A r, s : SameSlot(r, s)' <=> SameSlot(r, s)
  <2>1. Drawn \subseteq Run
    BY DrawnRuns DEF IInv
  <2>2. QED
    BY <2>1 DEF Frame, Drawn, SameSlot
<1>2. \A r : NotCalled(r) => NotCalled(r)'
  BY DEF NotCalled, Frame, Busy
<1>3. Calls'
  <2>1. ASSUME NEW c \in Caller, Busy(c)'
        PROVE  Busy(c) /\ caller'[c] = caller[c] /\ Called(c)'
    <3>1. Busy(c) /\ caller'[c] = caller[c]
      BY <2>1 DEF Frame, Busy
    <3>2. Called(c)
      BY <3>1 DEF IInv, Calls
    <3>3. PICK r \in Run : r = caller[c].run /\ runs[r] = "Absent" /\ ~ NotCalled(r)
      BY <1>1, <3>1, <3>2 DEF Called, NotCalled
    <3>4. ~ Known(r)'
      BY <3>3, HeldUnknown, FrameUnknown
    <3>5. runs'[r] = "Absent"
      BY <3>4 DEF Known
    <3>6. /\ board'[r] = "Absent" <=> board[r] = "Absent"
          /\ r \in pruned' <=> r \in pruned
      BY <3>3 DEF Frame, Kept
    <3>7. origin' = origin
      BY DEF Frame
    <3>8. QED
      BY <1>1, <3>1, <3>2, <3>3, <3>5, <3>6, <3>7 DEF Called
  <2>2. QED
    BY <2>1 DEF IInv, Calls
<1>4. Unique'
  <2> SUFFICES ASSUME NEW r \in Drawn' \ pruned', NEW s \in Drawn' \ pruned', Known(r)', Known(s)', SameSlot(r, s)'
               PROVE  r = s
    BY DEF Unique
  <2>1. r \in Drawn \ pruned /\ s \in Drawn \ pruned /\ SameSlot(r, s)
    BY <1>1 DEF Frame
  <2>2. Known(r) /\ Known(s)
    BY <1>1, <2>1, FrameUnknown
  <2>3. QED
    BY <2>1, <2>2 DEF IInv, Unique
<1>5. Tasks'
  <2> SUFFICES ASSUME NEW r \in Run PROVE Told(r)'
    BY DEF Tasks
  <2>1. Kept(r) /\ Told(r)
    BY DEF Frame, IInv, Tasks
  <2>2. ASSUME runs'[r] \in {"Active"} \cup Outcome PROVE Deleted(r)'
    <3>1. Live(r)
      BY <2>1, <2>2, Constants DEF Kept, Live
    <3>2. Deleted(r)
      BY <2>1, <3>1 DEF Live, Told, IInv, Reconciling, Waiting
    <3>3. QED
      BY <2>1, <3>1, <3>2 DEF Kept
  <2>3. runs'[r] \in Outcome => board'[r] \in {runs'[r], "Absent"}
    BY <2>1 DEF Kept
  <2>4. QED
    BY <2>2, <2>3 DEF Told
<1>6. Reconciling'
  <2>1. ASSUME NEW r \in Pending' PROVE Waiting(r)'
    <3>1. r \in Run /\ Waiting(r) /\ Live(r)
      <4>1. r \in Pending \cup collect_pending_runs
        BY DEF Frame
      <4>2. QED
        BY <4>1, Waits
    <3>2. Kept(r)
      BY <3>1 DEF Frame
    <3>3. Deleted(r)' /\ runs'[r] \in {"Active", "Absent"} \cup Outcome
      BY <3>1, <3>2 DEF Kept, Waiting
    <3>4. runs'[r] = "Absent" => r \in pruned' \/ Gone(origin[r].of)'
      <4>1. CASE runs[r] = "Absent"
        BY <3>1, <4>1 DEF Waiting, Frame
      <4>2. CASE runs[r] # "Absent"
        BY <3>1, <3>2, <4>2 DEF Kept
      <4>3. QED
        BY <4>1, <4>2
    <3>5. origin' = origin /\ r \in Drawn' /\ NotCalled(r)' /\ ~ Finishing(r)'
      BY <1>1, <1>2, <3>1 DEF Waiting, Frame
    <3>6. QED
      BY <3>3, <3>4, <3>5 DEF Waiting
  <2>2. QED
    BY <2>1 DEF Frame, Reconciling
<1>7. QED
  BY <1>3, <1>4, <1>5, <1>6

\* When the scheduler does not move, its slots stay free and its run in hand.
LEMMA FrameEnqueueing ==
  ASSUME IInv, Frame, sched' = sched
  PROVE  Enqueueing'
<1>1. /\ Drawn \subseteq Run /\ Drawn' = Drawn
      /\ \A r, s : SameSlot(r, s)' <=> SameSlot(r, s)
      /\ \A r : Finishing(r)' <=> Finishing(r)
  <2>1. Drawn \subseteq Run
    BY DrawnRuns DEF IInv
  <2>2. QED
    BY <2>1 DEF Frame, Drawn, SameSlot, Finishing, At
<1>2. \A s \in Drawn' \ pruned' : s \in Drawn \ pruned /\ (Known(s)' => Known(s))
  BY <1>1, FrameUnknown DEF Frame
<1>3. \A d : Free(d) => Free(d)'
  BY <1>1, <1>2 DEF Free, Frame
<1>4. ASSUME At("finish") PROVE InHand'
  <2>1. InHand /\ Finishing(sched.run)
    BY <1>4 DEF IInv, Enqueueing, Finishing
  <2>2. sched.run \in Run /\ runs[sched.run] = "Absent"
    BY <1>1, <2>1 DEF InHand
  <2>3. ~ Known(sched.run)'
    BY <2>1, <2>2, HeldUnknown, FrameUnknown
  <2>4. runs'[sched.run] = "Absent"
    BY <2>3 DEF Known
  <2>5. /\ board'[sched.run] = "Absent" <=> board[sched.run] = "Absent"
        /\ sched.run \in pruned' <=> sched.run \in pruned
    BY <2>2 DEF Frame, Kept
  <2>6. NotCalled(sched.run)'
    BY <2>1 DEF InHand, NotCalled, Frame, Busy
  <2>7. \A s \in Drawn' \ pruned' : Known(s)' => ~ SameSlot(sched.run, s)'
    BY <1>1, <1>2, <2>1 DEF InHand
  <2>8. QED
    BY <1>1, <2>1, <2>4, <2>5, <2>6, <2>7 DEF InHand
<1>5. QED
  BY <1>3, <1>4 DEF IInv, Enqueueing, At

--------------------------------------------------------------------------------
(* Steps outside the scheduler, the calls and the reconciliations.         *)

\* Runs disappear with their automation or by retention; tasks end; the task of a
\* run that is over disappears.
Outside ==
  /\ UNCHANGED <<origin, drawn, sched, host, caller>>
  /\ runs' \in [Run -> RunStatus] /\ board' \in [Run -> BoardStatus]
  /\ automations' = [a \in Automation |-> automations'[a]]
  /\ \A a \in Automation : IsAutomation(automations'[a])
  /\ \A a : Gone(a) => Gone(a)'
  /\ pruned \subseteq pruned'
  /\ \A r \in Run :
       /\ runs'[r] \in {runs[r], "Absent"}
       /\ runs'[r] = "Absent" => runs[r] = "Absent" \/ r \in pruned' \/ Gone(origin[r].of)'
       /\ runs[r] \notin Outcome => \/ board'[r] = board[r]
                                    \/ board[r] = "Open" /\ board'[r] \in Outcome
       /\ runs[r] \in Outcome => \/ board'[r] = board[r] /\ board[r] = "Absent"
                                 \/ board'[r] = board[r] /\ (r \in pruned' <=> r \in pruned)
                                 \/ board[r] = "Open" /\ board'[r] \in Outcome /\ (r \in pruned' <=> r \in pruned)
                                 \/ board'[r] = "Absent" /\ r \in pruned'
       /\ runs[r] \in {"Absent", "Active"} => (r \in pruned' <=> r \in pruned)

\* They do not disturb what others hold.
LEMMA OutsideKeeps == IInv /\ Outside => IInv'
<1> SUFFICES ASSUME IInv, Outside PROVE IInv'
  OBVIOUS
<1>1. Shape'
  <2>1. \A r \in Run : r > drawn => runs'[r] = "Absent" /\ board'[r] = "Absent" /\ r \notin pruned'
    BY Constants DEF IInv, Shape, Outside
  <2>2. QED
    BY <2>1 DEF IInv, Shape, Outside
<1>2. Pending' = Pending
  BY DEF Outside, Pending, PendingOf
<1>3. ASSUME NEW x, Hand(x), x.pc = "apply" => x.run \in Pending
      PROVE  x.pc = "apply" => /\ x.status \in {"Active"} \cup Outcome
                               /\ x.status \in Outcome => board'[x.run] \in {x.status, "Absent"}
  <2> SUFFICES ASSUME x.pc = "apply", x.status \in Outcome PROVE board'[x.run] \in {x.status, "Absent"}
    BY <1>3 DEF Hand
  <2>1. x.run \in Run
    BY <1>3, Waits
  <2>2. board[x.run] \in {x.status, "Absent"}
    BY <1>3 DEF Hand
  <2>3. QED
    BY <2>1, <2>2, Constants DEF Outside
<1>4. Hand(sched)'
  <2>1. Hand(sched) /\ (sched.pc = "apply" => sched.run \in Pending)
    BY DEF IInv, Reconciling, Pending, PendingOf
  <2>2. sched' = sched
    BY DEF Outside
  <2>3. QED
    BY <1>3, <2>1, <2>2 DEF Hand
<1>5. ASSUME NEW h \in Host PROVE Hand(host[h])'
  <2>1. Hand(host[h]) /\ (host[h].pc = "apply" => host[h].run \in Pending)
    BY DEF IInv, Reconciling, Pending, PendingOf
  <2>2. host' = host
    BY DEF Outside
  <2>3. QED
    BY <1>3, <2>1, <2>2 DEF Hand
<1>6. ASSUME NEW r \in Run PROVE Kept(r)
  <2>1. Told(r)
    BY DEF IInv, Tasks
  <2>2. runs[r] = "Absent" => /\ board'[r] = "Absent" <=> board[r] = "Absent"
                              /\ r \in pruned' <=> r \in pruned
    BY Constants DEF Outside
  <2>3. ASSUME Live(r)
        PROVE  /\ Deleted(r) => Deleted(r)'
               /\ runs'[r] \in {"Active", "Absent"} \cup Outcome
               /\ runs'[r] = "Absent" => runs[r] = "Absent" \/ r \in pruned' \/ Gone(origin[r].of)'
    <3>1. runs[r] \in {"Active", "Absent"} \cup Outcome
      BY <2>3 DEF Live, IInv, Reconciling, Waiting
    <3>2. Deleted(r) => Deleted(r)'
      BY <3>1, Constants DEF Outside, Deleted
    <3>3. QED
      BY <3>1, <3>2 DEF Outside
  <2>4. runs'[r] \in Outcome => board'[r] \in {runs'[r], "Absent"}
    BY <2>1, Constants DEF Outside, Told
  <2>5. ~ Live(r) => runs'[r] \in {runs[r], "Absent"}
    BY DEF Outside
  <2>6. QED
    BY <2>2, <2>3, <2>4, <2>5 DEF Kept
<1>7. Frame
  BY <1>1, <1>2, <1>4, <1>5, <1>6 DEF Outside, Frame
<1>8. \A r \in Run : Finishing(r)' => Finishing(r)
  BY DEF Outside, Finishing, At
<1>9. Enqueueing'
  BY <1>7, FrameEnqueueing DEF Outside
<1>10. QED
  BY <1>1, <1>7, <1>8, <1>9, FrameKeeps DEF IInv

\* An automation file that is written stays one, and a deleted automation stays deleted.
LEMMA ArmedKeeps ==
  ASSUME Shape, NEW a \in Automation, ~ Gone(a), NEW status, NEW next, Armed(a, status, next)
  PROVE  /\ automations' = [b \in Automation |-> automations'[b]]
         /\ \A b \in Automation : IsAutomation(automations'[b])
         /\ \A b : Gone(b) => Gone(b)'
         /\ status = "Deleted" => Gone(a)'
<1>1. automations = [b \in Automation |-> automations[b]] /\ \A b \in Automation : IsAutomation(automations[b])
  BY DEF Shape
<1> DEFINE x == [status |-> status, next |-> next]
<1>2. x.status = status /\ IsAutomation(x)
  BY DEF IsAutomation
<1>3. automations' = [automations EXCEPT ![a] = x]
  BY DEF Armed
<1> HIDE DEF x
<1>4. QED
  BY <1>1, <1>2, <1>3 DEF Gone

\* Callers of the automations, and the clock.
LEMMA ClientsAreOutside ==
  ASSUME IInv, tick \/ \E a \in Automation :
                 create_automation(a) \/ pause_automation(a) \/ resume_automation(a) \/ delete_automation(a)
  PROVE  Outside
<1>1. /\ runs \in [Run -> RunStatus] /\ board \in [Run -> BoardStatus] /\ Shape
      /\ automations = [a \in Automation |-> automations[a]] /\ \A a \in Automation : IsAutomation(automations[a])
  BY DEF IInv, Shape
<1>2. CASE tick
  BY <1>1, <1>2 DEF tick, records, Outside, Gone
<1>3. ASSUME NEW a \in Automation, create_automation(a) \/ pause_automation(a) \/ resume_automation(a)
      PROVE  Outside
  <2>1. UNCHANGED <<runs, origin, drawn, pruned, sched, host, caller, board>>
    BY <1>3 DEF create_automation, pause_automation, resume_automation
  <2>2. \E status, next : Armed(a, status, next)
    BY <1>3 DEF create_automation, pause_automation, resume_automation
  <2>3. ~ Gone(a)
    BY <1>3 DEF create_automation, pause_automation, resume_automation, Exists, Gone
  <2>4. /\ automations' = [b \in Automation |-> automations'[b]]
        /\ \A b \in Automation : IsAutomation(automations'[b])
        /\ \A b : Gone(b) => Gone(b)'
    BY <1>1, <2>2, <2>3, ArmedKeeps
  <2>5. QED
    BY <1>1, <2>1, <2>4 DEF Outside
<1>4. ASSUME NEW a \in Automation, delete_automation(a) PROVE Outside
  <2>1. UNCHANGED <<origin, drawn, pruned, sched, host, caller, board>> /\ Armed(a, "Deleted", 0)
    BY <1>4 DEF delete_automation
  <2>2. ~ Gone(a)
    BY <1>4 DEF delete_automation, Exists, Gone
  <2>3. /\ automations' = [b \in Automation |-> automations'[b]]
        /\ \A b \in Automation : IsAutomation(automations'[b])
        /\ \A b : Gone(b) => Gone(b)'
        /\ Gone(a)'
    BY <1>1, <2>1, <2>2, ArmedKeeps
  <2>4. runs' = [r \in Run |-> IF origin[r].of = a THEN "Absent" ELSE runs[r]] \/ runs' = runs
    BY <1>4 DEF delete_automation
  <2>5. runs' \in [Run -> RunStatus] /\ \A r \in Run : runs'[r] \in {runs[r], "Absent"}
    BY <1>1, <2>4 DEF RunStatus
  <2>6. ASSUME NEW r \in Run, runs'[r] = "Absent", runs[r] # "Absent" PROVE Gone(origin[r].of)'
    <3>1. origin[r].of = a /\ origin' = origin
      BY <1>1, <2>1, <2>4, <2>6
    <3>2. QED
      BY <2>3, <3>1 DEF Gone
  <2>7. QED
    BY <1>1, <2>1, <2>3, <2>5, <2>6 DEF Outside
<1>5. QED
  BY <1>2, <1>3, <1>4

\* The retention of runs and the ends of tasks.
LEMMA EndsAreOutside ==
  ASSUME IInv, NEW r \in Run, delete_terminal_run(r) \/ task_ends(r)
  PROVE  Outside
<1>1. /\ runs \in [Run -> RunStatus] /\ board \in [Run -> BoardStatus] /\ Told(r)
      /\ automations = [a \in Automation |-> automations[a]] /\ \A a \in Automation : IsAutomation(automations[a])
  BY DEF IInv, Shape, Tasks
<1>2. CASE delete_terminal_run(r)
  <2>1. /\ UNCHANGED <<automations, origin, drawn, sched, host, caller>>
        /\ runs[r] \in Outcome \cup {"NotAdded"}
        /\ (board' = board /\ runs[r] = "NotAdded") \/ (board' = [board EXCEPT ![r] = "Absent"] /\ runs[r] \in Outcome)
        /\ pruned' = pruned \cup {r}
        /\ runs' = [runs EXCEPT ![r] = "Absent"] \/ runs' = runs
    BY <1>2 DEF delete_terminal_run
  <2>2. /\ runs' \in [Run -> RunStatus] /\ runs'[r] \in {runs[r], "Absent"}
        /\ board' \in [Run -> BoardStatus]
        /\ runs[r] \in Outcome => board'[r] = "Absent"
        /\ runs[r] = "NotAdded" => board'[r] = board[r]
        /\ \A q \in Run : q # r => board'[q] = board[q] /\ runs'[q] = runs[q]
    BY <1>1, <2>1, Constants DEF RunStatus, BoardStatus
  <2>3. \A a : Gone(a) => Gone(a)'
    BY <2>1 DEF Gone
  <2>4. QED
    BY <1>1, <2>1, <2>2, <2>3, Constants DEF Outside
<1>3. CASE task_ends(r)
  <2>1. PICK o \in Outcome : board' = [board EXCEPT ![r] = o]
    BY <1>3 DEF task_ends
  <2>2. UNCHANGED <<automations, runs, origin, drawn, pruned, sched, host, caller>> /\ board[r] = "Open"
    BY <1>3 DEF task_ends, records
  <2>3. board' \in [Run -> BoardStatus] /\ board'[r] = o /\ \A q \in Run : q # r => board'[q] = board[q]
    BY <1>1, <2>1 DEF BoardStatus
  <2>4. \A a : Gone(a) => Gone(a)'
    BY <2>2 DEF Gone
  <2>5. QED
    BY <1>1, <2>2, <2>3, <2>4 DEF Outside
<1>4. QED
  BY <1>2, <1>3

--------------------------------------------------------------------------------
(* Reconciliations, the scheduler's and the hosts'.                        *)

\* The pass x is at y after a step.
Passes(x, y) ==
  \/ y = Collected /\ (runs' = runs)
  \/ x.pc = "reconcile" /\ (\E r \in x.todo : y = LookedUp(x, r)) /\ (runs' = runs)
  \/ x.pc = "apply" /\ y = Applied(x) /\ (runs' = runs \/ save_run(x.run, x.status))
  \/ x.pc = "apply" /\ y \in {Idle, [Idle EXCEPT !.pc = "tick"]} /\ (runs' = runs \/ save_run(x.run, x.status))
  \/ y \in {Idle, [Idle EXCEPT !.pc = "tick"]} /\ (runs' = runs)

\* A run that was pending is saved with what a lookup said.
Saves(p, status) ==
  /\ p \in Pending
  /\ status \in {"Active"} \cup Outcome
  /\ status \in Outcome => board[p] \in {status, "Absent"}
  /\ runs' = [runs EXCEPT ![p] = status]

\* A pass takes up only runs that it had, or that it collects.
LEMMA PassStep ==
  ASSUME IInv, NEW x, NEW y, IsRecord(x), Hand(x), PendingOf(x) \subseteq Pending, Passes(x, y)
  PROVE  /\ IsRecord(y) /\ y.pc \in {"idle", "reconcile", "apply", "tick"}
         /\ PendingOf(y) \subseteq PendingOf(x) \cup collect_pending_runs
         /\ Hand(y)
         /\ (runs' = runs) \/ \E p, status : Saves(p, status)
<1>1. CASE y = Collected /\ (runs' = runs)
  <2>1. y = [pc |-> "reconcile", todo |-> collect_pending_runs, run |-> NoRun, status |-> "Absent"]
    BY <1>1 DEF Collected, Idle
  <2>2. y.pc = "reconcile" /\ y.todo = collect_pending_runs /\ IsRecord(y)
    BY <2>1 DEF IsRecord
  <2>3. QED
    BY <1>1, <2>2 DEF PendingOf, Hand
<1>2. ASSUME NEW r \in x.todo, x.pc = "reconcile", y = LookedUp(x, r), runs' = runs
      PROVE  /\ IsRecord(y) /\ y.pc \in {"idle", "reconcile", "apply", "tick"}
             /\ PendingOf(y) \subseteq PendingOf(x) \cup collect_pending_runs
             /\ Hand(y)
  <2>1. CASE board[r] = "Absent"
    <3>1. y = [x EXCEPT !.todo = @ \ {r}]
      BY <1>2, <2>1 DEF LookedUp
    <3>2. y = [pc |-> "reconcile", todo |-> x.todo \ {r}, run |-> x.run, status |-> x.status]
      BY <1>2, <3>1 DEF IsRecord
    <3>3. y.pc = "reconcile" /\ y.todo = x.todo \ {r} /\ IsRecord(y)
      BY <3>2 DEF IsRecord
    <3>4. QED
      BY <1>2, <3>3 DEF PendingOf, Hand
  <2>2. CASE board[r] # "Absent"
    <3>1. y = [x EXCEPT !.pc = "apply", !.todo = @ \ {r}, !.run = r, !.status = StatusOf(r)]
      BY <1>2, <2>2 DEF LookedUp
    <3>2. y = [pc |-> "apply", todo |-> x.todo \ {r}, run |-> r, status |-> StatusOf(r)]
      BY <3>1 DEF IsRecord
    <3>3. y.pc = "apply" /\ y.todo = x.todo \ {r} /\ y.run = r /\ y.status = StatusOf(r) /\ IsRecord(y)
      BY <3>2 DEF IsRecord
    <3>4. r \in Run
      BY <1>2, Waits DEF PendingOf
    <3>5. /\ StatusOf(r) \in {"Active"} \cup Outcome
          /\ StatusOf(r) \in Outcome => board[r] = StatusOf(r)
      BY <2>2, <3>4, Constants DEF StatusOf, IInv, Shape, BoardStatus
    <3>6. QED
      BY <1>2, <3>3, <3>5 DEF PendingOf, Hand
  <2>3. QED
    BY <2>1, <2>2
<1>3. ASSUME x.pc = "apply", save_run(x.run, x.status) PROVE \E p, status : Saves(p, status)
  <2>1. Saves(x.run, x.status)
    BY <1>3 DEF Saves, save_run, Hand, PendingOf
  <2>2. QED
    BY <2>1
<1>4. CASE x.pc = "apply" /\ y = Applied(x) /\ (runs' = runs \/ save_run(x.run, x.status))
  <2>1. y = [pc |-> "reconcile", todo |-> x.todo, run |-> NoRun, status |-> "Absent"]
    BY <1>4 DEF Applied, IsRecord
  <2>2. y.pc = "reconcile" /\ y.todo = x.todo /\ IsRecord(y)
    BY <2>1 DEF IsRecord
  <2>3. (runs' = runs) \/ \E p, status : Saves(p, status)
    BY <1>3, <1>4
  <2>4. QED
    BY <1>4, <2>2, <2>3 DEF PendingOf, Hand
<1>5. ASSUME y \in {Idle, [Idle EXCEPT !.pc = "tick"]}
      PROVE  IsRecord(y) /\ y.pc \in {"idle", "tick"} /\ PendingOf(y) = {} /\ Hand(y)
  <2>1. \/ y = [pc |-> "idle", todo |-> {}, run |-> NoRun, status |-> "Absent"]
        \/ y = [pc |-> "tick", todo |-> {}, run |-> NoRun, status |-> "Absent"]
    BY <1>5 DEF Idle
  <2>2. y.pc \in {"idle", "tick"} /\ IsRecord(y)
    BY <2>1 DEF IsRecord
  <2>3. QED
    BY <2>2 DEF PendingOf, Hand
<1>6. QED
  BY <1>1, <1>2, <1>3, <1>4, <1>5 DEF Passes

\* Only the pass moves, and with it at most one run that was pending.
Reconciles(x, y) ==
  /\ UNCHANGED <<automations, origin, drawn, pruned, caller, board>>
  /\ Passes(x, y)

\* A run that is saved so is still what it may be.
LEMMA SavesKeeps ==
  ASSUME IInv, UNCHANGED <<automations, origin, drawn, pruned, caller, board>>,
         (runs' = runs) \/ \E p, status : Saves(p, status)
  PROVE  /\ runs' \in [Run -> RunStatus]
         /\ \A r \in Run : r > drawn => runs'[r] = "Absent"
         /\ \A r \in Run : Kept(r)
<1>1. runs \in [Run -> RunStatus] /\ \A r \in Run : r > drawn => runs[r] = "Absent"
  BY DEF IInv, Shape
<1>2. (\A r : Deleted(r)' <=> Deleted(r)) /\ \A r \in Run : Told(r)
  BY DEF Deleted, IInv, Tasks
<1>3. \A r \in Run : Live(r) => runs[r] \in {"Active", "Absent"} \cup Outcome
  BY DEF Live, IInv, Reconciling, Waiting
<1>4. CASE runs' = runs
  BY <1>1, <1>2, <1>3, <1>4 DEF Kept, Told
<1>5. ASSUME NEW p, NEW status, Saves(p, status)
      PROVE  /\ runs' \in [Run -> RunStatus]
             /\ \A r \in Run : r > drawn => runs'[r] = "Absent"
             /\ \A r \in Run : Kept(r)
  <2>1. p \in Run /\ p \in Drawn /\ Live(p)
    BY <1>5, Waits DEF Saves, Waiting
  <2>2. /\ runs' \in [Run -> RunStatus] /\ runs'[p] = status /\ status \in {"Active"} \cup Outcome
        /\ status \in Outcome => board[p] \in {status, "Absent"}
        /\ \A r \in Run : r # p => runs'[r] = runs[r]
    BY <1>1, <1>5, <2>1 DEF Saves, RunStatus
  <2>3. ~ (p > drawn)
    BY <2>1, Constants DEF Drawn, IInv, Shape
  <2>4. Kept(p)
    BY <1>2, <2>1, <2>2, Constants DEF Kept
  <2>5. ASSUME NEW r \in Run, r # p PROVE Kept(r)
    BY <1>2, <1>3, <2>2, <2>5 DEF Kept, Told
  <2>6. QED
    BY <1>1, <2>2, <2>3, <2>4, <2>5
<1>6. QED
  BY <1>4, <1>5

\* The steps of a host's reconciliation.
LEMMA HostKeeps ==
  ASSUME IInv, NEW h \in Host, NEW y, host' = [host EXCEPT ![h] = y], sched' = sched, Reconciles(host[h], y)
  PROVE  IInv'
<1>1. /\ UNCHANGED <<automations, origin, drawn, pruned, caller, board>>
      /\ host'[h] = y /\ \A g \in Host : g # h => host'[g] = host[g]
      /\ host' = [g \in Host |-> host'[g]]
  BY DEF Reconciles, IInv, Shape
<1>2. /\ IsRecord(host[h]) /\ Hand(host[h]) /\ PendingOf(host[h]) \subseteq Pending
  BY DEF IInv, Shape, Reconciling, Pending
<1>3. /\ IsRecord(y) /\ PendingOf(y) \subseteq PendingOf(host[h]) \cup collect_pending_runs /\ Hand(y)
      /\ (runs' = runs) \/ \E p, status : Saves(p, status)
  BY <1>2, PassStep DEF Reconciles
<1>4. /\ runs' \in [Run -> RunStatus] /\ (\A r \in Run : r > drawn => runs'[r] = "Absent")
      /\ \A r \in Run : Kept(r)
  BY <1>1, <1>3, SavesKeeps
<1>5. Shape'
  <2>1. \A g \in Host : IsRecord(host'[g])
    BY <1>1, <1>3 DEF IInv, Shape
  <2>2. QED
    BY <1>1, <1>4, <2>1 DEF IInv, Shape
<1>6. \A x : Hand(x) => (x.pc = "apply" => /\ x.status \in {"Active"} \cup Outcome
                                            /\ x.status \in Outcome => board'[x.run] \in {x.status, "Absent"})
  BY <1>1 DEF Hand
<1>7. Hand(sched)' /\ \A g \in Host : Hand(host[g])'
  <2>1. Hand(sched) /\ \A g \in Host : Hand(host[g])
    BY DEF IInv, Reconciling
  <2>2. QED
    BY <1>1, <1>3, <1>6, <2>1 DEF Hand
<1>8. Pending' \subseteq Pending \cup collect_pending_runs
  <2>1. \A g \in Host : PendingOf(host'[g]) \subseteq Pending \cup collect_pending_runs
    BY <1>1, <1>2, <1>3 DEF Pending
  <2>2. PendingOf(sched') \subseteq Pending
    BY DEF Pending
  <2>3. Pending' = PendingOf(sched') \cup UNION {PendingOf(host'[g]) : g \in Host}
    BY DEF Pending, PendingOf
  <2>4. QED
    BY <2>1, <2>2, <2>3
<1>9. Frame
  <2>1. \A a : Gone(a) => Gone(a)'
    BY <1>1 DEF Gone
  <2>2. QED
    BY <1>1, <1>4, <1>5, <1>7, <1>8, <2>1 DEF Frame
<1>10. \A r \in Run : Finishing(r)' => Finishing(r)
  BY DEF Finishing, At
<1>11. QED
  BY <1>5, <1>9, <1>10, FrameKeeps, FrameEnqueueing DEF IInv

\* A scheduler that moves without slots or a run in hand.
LEMMA UnhandedKeeps ==
  ASSUME IInv, Frame, sched'.pc \in {"idle", "reconcile", "apply", "tick"}
  PROVE  IInv'
<1>1. (\A r \in Run : Finishing(r)' => Finishing(r)) /\ Enqueueing' /\ Shape'
  BY DEF Finishing, Enqueueing, At, Frame
<1>2. QED
  BY <1>1, FrameKeeps DEF IInv

\* The steps of the scheduler's reconciliation, and those that leave it without a hand.
LEMMA SchedulerKeeps ==
  ASSUME IInv, host' = host, Reconciles(sched, sched')
  PROVE  IInv'
<1>1. UNCHANGED <<automations, origin, drawn, pruned, caller, board>>
  BY DEF Reconciles
<1>2. IsRecord(sched) /\ Hand(sched) /\ PendingOf(sched) \subseteq Pending
  BY DEF IInv, Shape, Reconciling, Pending
<1>3. /\ IsRecord(sched') /\ sched'.pc \in {"idle", "reconcile", "apply", "tick"}
      /\ PendingOf(sched') \subseteq PendingOf(sched) \cup collect_pending_runs /\ Hand(sched')
      /\ (runs' = runs) \/ \E p, status : Saves(p, status)
  BY <1>2, PassStep DEF Reconciles
<1>4. /\ runs' \in [Run -> RunStatus] /\ (\A r \in Run : r > drawn => runs'[r] = "Absent")
      /\ \A r \in Run : Kept(r)
  BY <1>1, <1>3, SavesKeeps
<1>5. Shape'
  BY <1>1, <1>3, <1>4 DEF IInv, Shape
<1>6. Hand(sched)' /\ \A g \in Host : Hand(host[g])'
  BY <1>1, <1>3 DEF Hand, IInv, Reconciling
<1>7. Pending' \subseteq Pending \cup collect_pending_runs
  <2>1. Pending' = PendingOf(sched') \cup UNION {PendingOf(host[g]) : g \in Host}
    BY DEF Pending, PendingOf
  <2>2. QED
    BY <1>2, <1>3, <2>1 DEF Pending
<1>8. Frame
  <2>1. \A a : Gone(a) => Gone(a)'
    BY <1>1 DEF Gone
  <2>2. QED
    BY <1>1, <1>4, <1>5, <1>6, <1>7, <2>1 DEF Frame
<1>9. QED
  BY <1>3, <1>8, UnhandedKeeps

\* Each of these actions is such a step.
LEMMA ReconcileKeeps == IInv /\ (reconcile \/ lookup \/ apply_task_status \/ reconciled) => IInv'
<1> SUFFICES ASSUME IInv, reconcile \/ lookup \/ apply_task_status \/ reconciled PROVE IInv'
  OBVIOUS
<1>1. UNCHANGED <<automations, origin, drawn, pruned, host, caller, board>>
  BY DEF reconcile, lookup, apply_task_status, reconciled, records
<1>2. CASE reconcile
  BY <1>1, <1>2, SchedulerKeeps DEF reconcile, records, Reconciles, Passes
<1>3. CASE lookup
  BY <1>1, <1>3, SchedulerKeeps DEF lookup, records, Reconciles, Passes, At
<1>4. CASE apply_task_status
  BY <1>1, <1>4, SchedulerKeeps DEF apply_task_status, SaveStatus, SaveStatusFails, Reconciles, Passes, At
<1>5. CASE reconciled
  BY <1>1, <1>5, SchedulerKeeps DEF reconciled, records, Reconciles, Passes
<1>6. QED
  BY <1>2, <1>3, <1>4, <1>5

\* The steps of the hosts' reconciliations preserve the invariant.
LEMMA HostsKeep ==
  ASSUME IInv, NEW h \in Host, host_reconcile(h) \/ host_lookup(h) \/ host_apply(h) \/ host_reconciled(h)
  PROVE  IInv'
<1>1. UNCHANGED <<automations, origin, drawn, pruned, sched, caller, board>>
  BY DEF host_reconcile, host_lookup, host_apply, host_reconciled, records
<1>2. CASE host_reconcile(h)
  BY <1>1, <1>2, HostKeeps DEF host_reconcile, records, Reconciles, Passes
<1>3. CASE host_lookup(h)
  <2>1. PICK r \in host[h].todo : host' = [host EXCEPT ![h] = LookedUp(host[h], r)]
    BY <1>3 DEF host_lookup
  <2>2. Reconciles(host[h], LookedUp(host[h], r))
    BY <1>1, <1>3 DEF host_lookup, records, Reconciles, Passes
  <2>3. QED
    BY <1>1, <2>1, <2>2, HostKeeps
<1>4. CASE host_apply(h)
  <2>1. CASE SaveStatus(host[h]) /\ host' = [host EXCEPT ![h] = Applied(host[h])]
    <3>1. Reconciles(host[h], Applied(host[h]))
      BY <1>1, <1>4, <2>1 DEF host_apply, SaveStatus, Reconciles, Passes
    <3>2. QED
      BY <1>1, <2>1, <3>1, HostKeeps
  <2>2. CASE SaveStatusFails(host[h]) /\ host' = [host EXCEPT ![h] = Idle]
    <3>1. Reconciles(host[h], Idle)
      BY <1>1, <1>4, <2>2 DEF host_apply, SaveStatusFails, Reconciles, Passes
    <3>2. QED
      BY <1>1, <2>2, <3>1, HostKeeps
  <2>3. QED
    BY <1>4, <2>1, <2>2 DEF host_apply
<1>5. CASE host_reconciled(h)
  BY <1>1, <1>5, HostKeeps DEF host_reconciled, records, Reconciles, Passes
<1>6. QED
  BY <1>2, <1>3, <1>4, <1>5

--------------------------------------------------------------------------------
(* The slots that are due, and the crash.                                  *)

\* A step that writes no run and no task and takes no run from anyone.
Quiet ==
  /\ UNCHANGED <<runs, origin, drawn, pruned, board>>
  /\ automations' = [a \in Automation |-> automations'[a]]
  /\ \A a \in Automation : IsAutomation(automations'[a])
  /\ \A a : Gone(a) => Gone(a)'
  /\ IsRecord(sched') /\ PendingOf(sched') = {}
  /\ sched'.pc # "apply"
  /\ host' = host \/ host' = [h \in Host |-> Idle]
  /\ caller' \in [Caller -> Call] /\ \A c \in Caller : Busy(c)' => caller'[c] = caller[c]

\* A quiet step is a frame for the scheduler's part.
LEMMA QuietFrame ==
  ASSUME IInv, Quiet
  PROVE  Frame
<1>1. IsRecord(Idle) /\ Idle.pc = "idle"
  BY DEF Idle, IsRecord
<1>2. /\ host' = [h \in Host |-> host'[h]]
      /\ \A h \in Host : host'[h] = host[h] \/ host'[h] = Idle
  BY DEF Quiet, IInv, Shape
<1>3. Shape'
  <2>1. \A h \in Host : IsRecord(host'[h])
    BY <1>1, <1>2 DEF IInv, Shape
  <2>2. QED
    BY <1>2, <2>1 DEF IInv, Shape, Quiet
<1>4. Pending' \subseteq Pending
  <2>1. \A h \in Host : PendingOf(host'[h]) \subseteq Pending
    BY <1>1, <1>2 DEF PendingOf, Pending
  <2>2. Pending' = PendingOf(sched') \cup UNION {PendingOf(host'[h]) : h \in Host}
    BY DEF Pending, PendingOf
  <2>3. QED
    BY <2>1, <2>2 DEF Quiet
<1>5. Hand(sched)' /\ \A h \in Host : Hand(host[h])'
  <2>1. ASSUME NEW h \in Host PROVE Hand(host[h])'
    <3>1. Hand(host[h])
      BY DEF IInv, Reconciling
    <3>2. CASE host'[h] = host[h]
      BY <3>1, <3>2 DEF Hand, Quiet
    <3>3. CASE host'[h] = Idle
      BY <1>1, <3>3 DEF Hand
    <3>4. QED
      BY <1>2, <3>2, <3>3
  <2>2. QED
    BY <2>1 DEF Hand, Quiet
<1>6. ASSUME NEW r \in Run PROVE Kept(r)
  <2>1. Told(r) /\ (Live(r) => runs[r] \in {"Active", "Absent"} \cup Outcome)
    BY DEF Live, IInv, Tasks, Reconciling, Waiting
  <2>2. Deleted(r)' <=> Deleted(r)
    BY DEF Deleted, Quiet
  <2>3. QED
    BY <2>1, <2>2 DEF Kept, Told, Quiet
<1>7. QED
  BY <1>3, <1>4, <1>5, <1>6 DEF Frame, Quiet

\* Slots that are skipped leave automation files.
LEMMA AdvancedKeeps ==
  ASSUME IInv, NEW S, automations' = Advanced(S)
  PROVE  /\ automations' = [a \in Automation |-> automations'[a]]
         /\ \A a \in Automation : IsAutomation(automations'[a]) /\ automations'[a].status = automations[a].status
         /\ \A a : Gone(a) <=> Gone(a)'
<1>1. /\ automations = [a \in Automation |-> automations[a]]
      /\ automations' = [a \in Automation |->
                           IF a \in S THEN [automations[a] EXCEPT !.next = next_after(now)] ELSE automations[a]]
  BY DEF IInv, Shape, Advanced
<1>2. ASSUME NEW a \in Automation
      PROVE  IsAutomation(automations'[a]) /\ automations'[a].status = automations[a].status
  <2>1. IsAutomation(automations[a])
    BY DEF IInv, Shape
  <2>2. CASE a \in S
    <3>1. automations'[a] = [automations[a] EXCEPT !.next = next_after(now)]
      BY <1>1, <2>2
    <3>2. automations'[a] = [status |-> automations[a].status, next |-> next_after(now)]
      BY <2>1, <3>1 DEF IsAutomation
    <3>3. QED
      BY <3>2 DEF IsAutomation
  <2>3. CASE a \notin S
    BY <1>1, <2>1, <2>3
  <2>4. QED
    BY <2>2, <2>3
<1>3. \A a : Gone(a) <=> Gone(a)'
  BY <1>2 DEF Gone
<1>4. QED
  BY <1>1, <1>2, <1>3

\* The slots that are collected have no run on disk, and none that may come back: the
\* runs that are gone and still in somebody's hand went with their automation.
LEMMA CollectKeeps == IInv /\ collect_due_runs => IInv'
<1> SUFFICES ASSUME IInv, collect_due_runs PROVE IInv'
  OBVIOUS
<1> DEFINE due == {a \in Automation : IsDue(a) /\ ~ Skipped(a)}
           skipped == {a \in Automation : IsDue(a) /\ Skipped(a)}
<1>1. UNCHANGED <<runs, origin, drawn, pruned, host, caller, board>> /\ At("tick")
  BY DEF collect_due_runs
<1>2. \E S : automations' = Advanced(S)
  BY DEF collect_due_runs
<1>3. /\ automations' = [a \in Automation |-> automations'[a]]
      /\ \A a \in Automation : IsAutomation(automations'[a])
      /\ \A a : Gone(a) => Gone(a)'
  BY <1>2, AdvancedKeeps
<1>4. \/ sched' = [pc |-> "due", todo |-> {<<a, automations[a].next>> : a \in due}, run |-> NoRun, status |-> "Absent"]
      \/ sched' = [pc |-> "idle", todo |-> {}, run |-> NoRun, status |-> "Absent"]
  BY DEF collect_due_runs, Idle
<1> HIDE DEF skipped
<1>5. IsRecord(sched') /\ sched'.pc \in {"due", "idle"}
  BY <1>4 DEF IsRecord
<1>6. Quiet
  <2>1. caller \in [Caller -> Call]
    BY DEF IInv, Shape
  <2>2. QED
    BY <1>1, <1>3, <1>5, <2>1 DEF Quiet, PendingOf
<1>7. Frame
  BY <1>6, QuietFrame
<1>8. CASE sched' = [pc |-> "idle", todo |-> {}, run |-> NoRun, status |-> "Absent"]
  BY <1>7, <1>8, UnhandedKeeps
<1>9. CASE sched' = [pc |-> "due", todo |-> {<<a, automations[a].next>> : a \in due}, run |-> NoRun, status |-> "Absent"]
  <2>1. sched'.pc = "due" /\ sched'.todo = {<<a, automations[a].next>> : a \in due}
    BY <1>9
  <2>2. ASSUME NEW a \in due, NEW s \in Drawn \ pruned, Known(s)
        PROVE  origin[s] # [of |-> a, slot |-> automations[a].next]
    <3>1. CASE runs[s] # "Absent"
      BY <2>2, <3>1 DEF Skipped, SlotTaken, RunsOf, Drawn
    <3>2. CASE runs[s] = "Absent"
      <4>1. Waiting(s)
        BY <2>2, <3>2 DEF Known, IInv, Reconciling
      <4>2. Gone(origin[s].of)
        BY <2>2, <3>2, <4>1 DEF Waiting
      <4>3. ~ Gone(a)
        BY <2>2 DEF IsDue, Gone
      <4>4. QED
        BY <4>2, <4>3
    <3>3. QED
      BY <3>1, <3>2
  <2>3. \A s \in Drawn' \ pruned' : s \in Drawn \ pruned /\ (Known(s)' => Known(s)) /\ ~ Finishing(s)'
    <3>1. Drawn' = Drawn /\ pruned' = pruned /\ Drawn \subseteq Run
      BY <1>1, DrawnRuns DEF Drawn, IInv
    <3>2. \A s : ~ Finishing(s)'
      BY <2>1 DEF Finishing, At
    <3>3. QED
      BY <1>7, <3>1, <3>2, FrameUnknown
  <2>4. \A d \in sched'.todo : \E a \in due : d[1] = a /\ d[2] = automations[a].next /\ d = <<a, automations[a].next>>
    BY <2>1
  <2> HIDE DEF due
  <2>5. ASSUME NEW d \in sched'.todo, NEW s \in Drawn' \ pruned', Known(s)' \/ Finishing(s)'
        PROVE  origin'[s] # [of |-> d[1], slot |-> d[2]]
    BY <1>1, <2>2, <2>3, <2>4, <2>5
  <2>6. \A d \in sched'.todo : Free(d)'
    BY <2>5 DEF Free
  <2>7. \A d, e \in sched'.todo : d[1] = e[1] => d = e
    BY <2>4
  <2>8. Enqueueing'
    BY <2>1, <2>6, <2>7 DEF Enqueueing, At
  <2>9. (\A r \in Run : Finishing(r)' => Finishing(r)) /\ Shape'
    BY <1>7, <2>1 DEF Finishing, At, Frame
  <2>10. QED
    BY <1>7, <2>8, <2>9, FrameKeeps DEF IInv
<1>10. QED
  BY <1>4, <1>8, <1>9

\* A scheduler that stops, and a process that dies.
LEMMA StopsKeeps ==
  ASSUME IInv, UNCHANGED <<automations, runs, origin, drawn, pruned, board>>, sched' = Idle,
         \/ host' = host /\ caller' = caller
         \/ host' = [h \in Host |-> Idle] /\ caller' = [c \in Caller |-> NoCall]
  PROVE  IInv'
<1>1. IsRecord(sched') /\ sched'.pc = "idle"
  BY DEF Idle, IsRecord
<1>2. caller' \in [Caller -> Call] /\ \A c \in Caller : Busy(c)' => caller'[c] = caller[c]
  <2>1. NoCall \in Call /\ NoCall.pc = "idle"
    BY DEF NoCall, Call, RunStatus
  <2>2. CASE caller' = caller
    BY <2>2 DEF IInv, Shape
  <2>3. CASE caller' = [c \in Caller |-> NoCall]
    BY <2>1, <2>3 DEF Busy
  <2>4. QED
    BY <2>2, <2>3
<1>3. Quiet
  BY <1>1, <1>2 DEF Quiet, PendingOf, IInv, Shape, Gone
<1>4. QED
  BY <1>1, <1>3, QuietFrame, UnhandedKeeps

--------------------------------------------------------------------------------
(* Steps with a run that nobody else holds: it is drawn, its task is added,*)
(* or it is saved.                                                         *)

Own(p) ==
  /\ Shape'
  /\ UNCHANGED <<pruned, host>>
  /\ p \in Run /\ ~ Known(p) /\ p \notin pruned
  /\ Drawn' = Drawn \cup {p}
  /\ \A r \in Run : r # p => UNCHANGED <<runs[r], board[r], origin[r]>>
  /\ \A a : Gone(a) => Gone(a)'
  /\ PendingOf(sched') = PendingOf(sched) /\ Hand(sched)'
  /\ \A r \in Run : r # p /\ Finishing(r)' => Finishing(r)
  /\ \A c \in Caller : Busy(c)' => \/ Busy(c) /\ caller'[c] = caller[c] /\ caller[c].run # p
                                   \/ caller'[c].run = p /\ Called(c)'
  /\ \A c, d \in Caller : Busy(c)' /\ Busy(d)' /\ caller'[c].run = p /\ caller'[d].run = p => c = d
  /\ runs'[p] \in {"Absent", "Active", "NotAdded"}
  /\ runs'[p] = "Active" => board'[p] # "Absent"

\* No run that is known is for the slot of p.
Alone(p) == \A s \in Drawn \ pruned : Known(s) => ~ SameSlot(p, s)' /\ ~ SameSlot(s, p)'

\* Nothing else becomes known, and others are where they were.
LEMMA OwnOthers ==
  ASSUME IInv, NEW p, Own(p)
  PROVE  /\ Drawn \subseteq Run /\ Pending' = Pending
         /\ \A r \in Run : r # p => /\ Known(r)' <=> Known(r)
                                    /\ r \in Drawn' <=> r \in Drawn
         /\ \A r, s \in Run : r # p /\ s # p => (SameSlot(r, s)' <=> SameSlot(r, s))
         /\ Known(p)' => runs'[p] # "Absent"
<1>1. Drawn \subseteq Run
  BY DrawnRuns DEF IInv
<1>2. Pending' = Pending
  <2>1. Pending' = PendingOf(sched') \cup UNION {PendingOf(host'[h]) : h \in Host}
    BY DEF Pending, PendingOf
  <2>2. QED
    BY <2>1 DEF Own, Pending
<1>3. \A r, s \in Run : r # p /\ s # p => (SameSlot(r, s)' <=> SameSlot(r, s))
  BY DEF Own, SameSlot
<1>4. \A r \in Run : r # p => /\ Known(r)' <=> Known(r)
                              /\ r \in Drawn' <=> r \in Drawn
  BY <1>2 DEF Own, Known
<1>5. Known(p)' => runs'[p] # "Absent"
  BY <1>2 DEF Own, Known
<1>6. QED
  BY <1>1, <1>2, <1>3, <1>4, <1>5

\* The parts of the invariant that do not speak of slots.
LEMMA OwnKeeps ==
  ASSUME IInv, NEW p, Own(p), runs'[p] # "Absent" => Alone(p)
  PROVE  Shape' /\ Calls' /\ Reconciling' /\ Unique' /\ Tasks'
<1>1. /\ Drawn \subseteq Run /\ Pending' = Pending
      /\ \A r \in Run : r # p => /\ Known(r)' <=> Known(r)
                                 /\ r \in Drawn' <=> r \in Drawn
      /\ \A r, s \in Run : r # p /\ s # p => (SameSlot(r, s)' <=> SameSlot(r, s))
      /\ Known(p)' => runs'[p] # "Absent"
  BY OwnOthers
<1>2. Shape' /\ Drawn' \subseteq Run /\ p \in Drawn'
  BY <1>1 DEF Own
<1>3. Calls'
  <2>1. ASSUME NEW c \in Caller, Busy(c)' PROVE Called(c)'
    <3>1. CASE caller'[c].run = p /\ Called(c)'
      BY <3>1
    <3>2. CASE Busy(c) /\ caller'[c] = caller[c] /\ caller[c].run # p
      <4>1. Called(c)
        BY <3>2 DEF IInv, Calls
      <4>2. PICK r \in Run : r = caller[c].run /\ r \in Drawn /\ r # p
        BY <1>1, <3>2, <4>1 DEF Called
      <4>3. runs'[r] = runs[r] /\ board'[r] = board[r] /\ origin'[r] = origin[r] /\ pruned' = pruned
        BY <4>2 DEF Own
      <4>4. QED
        BY <1>1, <3>2, <4>1, <4>2, <4>3 DEF Called
    <3>3. QED
      BY <2>1, <3>1, <3>2 DEF Own
  <2>2. ASSUME NEW c \in Caller, NEW d \in Caller, Busy(c)', Busy(d)', caller'[c].run = caller'[d].run
        PROVE  c = d
    <3>1. CASE caller'[c].run = p
      BY <2>2, <3>1 DEF Own
    <3>2. CASE caller'[c].run # p
      <4>1. Busy(c) /\ caller'[c] = caller[c] /\ Busy(d) /\ caller'[d] = caller[d]
        BY <2>2, <3>2 DEF Own
      <4>2. QED
        BY <2>2, <4>1 DEF IInv, Calls
    <3>3. QED
      BY <3>1, <3>2
  <2>3. QED
    BY <2>1, <2>2 DEF Calls
<1>4. Reconciling'
  <2>1. ASSUME NEW r \in Pending' PROVE Waiting(r)'
    <3>1. r \in Run /\ Waiting(r) /\ r # p
      BY <1>1, Waits DEF Own
    <3>2. /\ runs'[r] = runs[r] /\ board'[r] = board[r] /\ origin'[r] = origin[r] /\ pruned' = pruned
          /\ r \in Drawn' /\ ~ Finishing(r)'
      BY <1>1, <3>1 DEF Own, Waiting
    <3>3. NotCalled(r)'
      BY <3>1 DEF NotCalled, Waiting, Own
    <3>4. Gone(origin[r].of) => Gone(origin[r].of)'
      <4>1. PICK a : a = origin[r].of
        OBVIOUS
      <4>2. Gone(a) => Gone(a)'
        BY DEF Own
      <4>3. QED
        BY <3>2, <4>1, <4>2 DEF Gone
    <3>5. QED
      BY <3>1, <3>2, <3>3, <3>4 DEF Waiting, Deleted
  <2>2. ASSUME NEW h \in Host PROVE Hand(host[h])'
    <3>1. Hand(host[h]) /\ host' = host
      BY DEF IInv, Reconciling, Own
    <3>2. ASSUME host[h].pc = "apply" PROVE board'[host[h].run] = board[host[h].run]
      <4>1. host[h].run \in Pending
        BY <3>2 DEF Pending, PendingOf
      <4>2. host[h].run \in Run /\ host[h].run # p
        BY <4>1, Waits DEF Own
      <4>3. QED
        BY <4>2 DEF Own
    <3>3. QED
      BY <3>1, <3>2 DEF Hand
  <2>3. QED
    BY <2>1, <2>2 DEF Reconciling, Own
<1>5. Unique'
  <2> SUFFICES ASSUME NEW r \in Drawn' \ pruned', NEW s \in Drawn' \ pruned', Known(r)', Known(s)', SameSlot(r, s)'
               PROVE  r = s
    BY DEF Unique
  <2>1. r \in Run /\ s \in Run /\ r \notin pruned /\ s \notin pruned
    BY <1>2 DEF Own
  <2>2. CASE r # p /\ s # p
    BY <1>1, <2>1, <2>2 DEF IInv, Unique
  <2>3. CASE r = p /\ s # p
    BY <1>1, <2>1, <2>3 DEF Alone
  <2>4. CASE r # p /\ s = p
    BY <1>1, <2>1, <2>4 DEF Alone
  <2>5. QED
    BY <2>2, <2>3, <2>4
<1>6. Tasks'
  <2> SUFFICES ASSUME NEW r \in Run PROVE Told(r)'
    BY DEF Tasks
  <2>1. CASE r = p
    BY <2>1, Constants DEF Told, Deleted, Own
  <2>2. CASE r # p
    <3>1. Told(r) /\ runs'[r] = runs[r] /\ board'[r] = board[r] /\ pruned' = pruned
      BY <2>2 DEF Own, IInv, Tasks
    <3>2. QED
      BY <3>1 DEF Told, Deleted
  <2>3. QED
    BY <2>1, <2>2
<1>7. QED
  BY <1>2, <1>3, <1>4, <1>5, <1>6

\* A run without a slot does not disturb the scheduler.
LEMMA CallerEnqueueing ==
  ASSUME IInv, NEW p, Own(p), sched' = sched, origin'[p].slot = Manual, ~ Finishing(p)
  PROVE  Enqueueing'
<1>1. /\ Drawn \subseteq Run /\ Pending' = Pending
      /\ \A r \in Run : r # p => /\ Known(r)' <=> Known(r)
                                 /\ r \in Drawn' <=> r \in Drawn
      /\ \A r, s \in Run : r # p /\ s # p => (SameSlot(r, s)' <=> SameSlot(r, s))
  BY OwnOthers
<1>2. pruned' = pruned /\ Drawn' \subseteq Run /\ \A r \in Run : r # p => origin'[r] = origin[r]
  BY <1>1 DEF Own
<1>3. ASSUME NEW d, Free(d) PROVE Free(d)'
  <2> SUFFICES ASSUME d[2] # Manual, NEW s \in Drawn' \ pruned', Known(s)' \/ Finishing(s)'
               PROVE  origin'[s] # [of |-> d[1], slot |-> d[2]]
    BY DEF Free
  <2>1. CASE s = p
    BY <2>1
  <2>2. CASE s # p
    <3>1. s \in Drawn \ pruned /\ (Known(s) \/ Finishing(s)) /\ origin'[s] = origin[s]
      BY <1>1, <1>2, <2>2 DEF Finishing, At
    <3>2. QED
      BY <1>3, <3>1 DEF Free
  <2>3. QED
    BY <2>1, <2>2
<1>4. ASSUME At("finish") PROVE InHand'
  <2>1. InHand
    BY <1>4 DEF IInv, Enqueueing
  <2>2. PICK q \in Run : q = sched.run /\ q # p /\ q \in Drawn
    BY <1>1, <1>4, <2>1 DEF InHand, Finishing
  <2>3. runs'[q] = runs[q] /\ board'[q] = board[q] /\ q \in Drawn'
    BY <1>1, <2>2 DEF Own
  <2>4. NotCalled(q)'
    BY <2>1, <2>2 DEF InHand, NotCalled, Own
  <2>5. ASSUME NEW s \in Drawn' \ pruned', Known(s)' PROVE ~ SameSlot(q, s)'
    <3>1. CASE s = p
      BY <3>1 DEF SameSlot
    <3>2. CASE s # p
      BY <1>1, <1>2, <2>1, <2>2, <2>5, <3>2 DEF InHand
    <3>3. QED
      BY <3>1, <3>2
  <2>6. QED
    BY <1>2, <2>1, <2>2, <2>3, <2>4, <2>5 DEF InHand
<1>5. QED
  BY <1>3, <1>4 DEF IInv, Enqueueing, At

\* A new record takes a number that nobody has.
LEMMA FreshRun ==
  ASSUME IInv, NEW a, NEW slot, new_run_record(a, slot)
  PROVE  /\ drawn + 1 \in Run /\ drawn + 1 \notin Drawn
         /\ Drawn' = Drawn \cup {drawn + 1} /\ drawn' \in 0 .. MaxRuns /\ drawn' = drawn + 1
         /\ runs[drawn + 1] = "Absent" /\ board[drawn + 1] = "Absent"
         /\ drawn + 1 \notin pruned /\ ~ Known(drawn + 1)
         /\ NotCalled(drawn + 1) /\ ~ Finishing(drawn + 1)
         /\ origin' = [r \in Run |-> origin'[r]]
         /\ origin'[drawn + 1] = [of |-> a, slot |-> slot]
         /\ \A r \in Run : r # drawn + 1 => origin'[r] = origin[r]
         /\ \A r \in Run : r > drawn + 1 => r > drawn /\ r # drawn + 1
<1>1. drawn \in Nat /\ drawn < MaxRuns /\ drawn' = drawn + 1
  BY Constants DEF new_run_record, IInv, Shape
<1>2. /\ drawn + 1 \in Run /\ drawn + 1 \notin Drawn
      /\ Drawn' = Drawn \cup {drawn + 1} /\ drawn' \in 0 .. MaxRuns
      /\ \A r \in Run : r > drawn + 1 => r > drawn /\ r # drawn + 1
  BY <1>1, Constants DEF Drawn, Run
<1>3. runs[drawn + 1] = "Absent" /\ board[drawn + 1] = "Absent" /\ drawn + 1 \notin pruned
  BY <1>1, <1>2 DEF IInv, Shape
<1>4. /\ origin' = [r \in Run |-> origin'[r]]
      /\ origin'[drawn + 1] = [of |-> a, slot |-> slot]
      /\ \A r \in Run : r # drawn + 1 => origin'[r] = origin[r]
  BY <1>2 DEF new_run_record, IInv, Shape
<1>5. ~ Known(drawn + 1)
  BY <1>2, <1>3 DEF Known, IInv, Reconciling, Waiting
<1>6. NotCalled(drawn + 1)
  BY <1>2 DEF NotCalled, IInv, Calls, Called
<1>7. ~ Finishing(drawn + 1)
  BY <1>2 DEF Finishing, IInv, Enqueueing, InHand
<1>8. QED
  BY <1>1, <1>2, <1>3, <1>4, <1>5, <1>6, <1>7

--------------------------------------------------------------------------------
(* Callers of run_now_shared.                                              *)

\* run_now_with draws a record; nothing is on disk yet.
LEMMA RunNowKeeps ==
  ASSUME IInv, NEW c \in Caller, NEW a \in Automation, run_now(c, a)
  PROVE  IInv'
<1> DEFINE r == drawn + 1
<1>1. /\ UNCHANGED <<automations, runs, pruned, board, sched, host>> /\ new_run_record(a, Manual)
      /\ caller' = [caller EXCEPT ![c] = [NoCall EXCEPT !.pc = "enqueue", !.run = r]]
  BY DEF run_now, records
<1>2. /\ r \in Run /\ Drawn' = Drawn \cup {r} /\ drawn' \in 0 .. MaxRuns /\ drawn' = r
      /\ runs[r] = "Absent" /\ board[r] = "Absent" /\ r \notin pruned /\ ~ Known(r)
      /\ NotCalled(r) /\ ~ Finishing(r)
      /\ origin' = [q \in Run |-> origin'[q]] /\ origin'[r].slot = Manual
      /\ \A q \in Run : q # r => origin'[q] = origin[q]
      /\ \A q \in Run : q > r => q > drawn
  <2>1. new_run_record(a, Manual) /\ IInv
    BY <1>1
  <2>2. origin'[r] = [of |-> a, slot |-> Manual]
    BY <2>1, FreshRun
  <2>3. origin'[r].slot = Manual
    BY <2>2
  <2>4. QED
    BY <2>1, <2>3, FreshRun
<1> HIDE DEF r
<1>3. /\ caller'[c] = [pc |-> "enqueue", run |-> r, status |-> "Absent"]
      /\ \A d \in Caller : d # c => caller'[d] = caller[d]
      /\ caller' \in [Caller -> Call]
  BY <1>1, <1>2 DEF IInv, Shape, Call, NoCall, RunStatus
<1>4. Shape'
  BY <1>1, <1>2, <1>3 DEF IInv, Shape
<1>5. Called(c)' /\ caller'[c].run = r
  BY <1>1, <1>2, <1>3 DEF Called
<1>6. \A d \in Caller : Busy(d)' => \/ Busy(d) /\ caller'[d] = caller[d] /\ caller[d].run # r
                                    \/ d = c
  BY <1>2, <1>3 DEF Busy, NotCalled
<1>7. Own(r)
  <2>1. PendingOf(sched') = PendingOf(sched) /\ Hand(sched)' /\ (\A q \in Run : Finishing(q)' => Finishing(q))
        /\ \A b : Gone(b) => Gone(b)'
    BY <1>1 DEF IInv, Reconciling, Hand, Finishing, At, Gone
  <2>2. \A d \in Caller : Busy(d)' => \/ Busy(d) /\ caller'[d] = caller[d] /\ caller[d].run # r
                                      \/ caller'[d].run = r /\ Called(d)'
    BY <1>5, <1>6
  <2>3. \A d, e \in Caller : Busy(d)' /\ Busy(e)' /\ caller'[d].run = r /\ caller'[e].run = r => d = e
    BY <1>6
  <2>4. QED
    BY <1>1, <1>2, <1>4, <2>1, <2>2, <2>3 DEF Own
<1>8. runs'[r] = "Absent"
  BY <1>1, <1>2
<1>9. QED
  BY <1>1, <1>2, <1>7, <1>8, OwnKeeps, CallerEnqueueing DEF IInv

\* What a caller holds, while the others and the scheduler hold other runs.
LEMMA HeldByCaller ==
  ASSUME IInv, NEW c \in Caller, Busy(c)
  PROVE  /\ caller[c].run \in Drawn /\ caller[c].run \in Run
         /\ caller[c].run \notin pruned /\ ~ Known(caller[c].run) /\ ~ Finishing(caller[c].run)
         /\ runs[caller[c].run] = "Absent" /\ origin[caller[c].run].slot = Manual
         /\ \A d \in Caller : d # c /\ Busy(d) => caller[d].run # caller[c].run
<1>1. Called(c) /\ \A d \in Caller : d # c /\ Busy(d) => caller[d].run # caller[c].run
  BY DEF IInv, Calls
<1>2. PICK r \in Run : r = caller[c].run /\ r \in Drawn /\ ~ NotCalled(r) /\ runs[r] = "Absent"
  BY <1>1, DrawnRuns DEF Called, NotCalled, IInv
<1>3. ~ Known(r)
  BY <1>2, HeldUnknown
<1>4. ~ Finishing(r)
  BY <1>2 DEF Finishing, IInv, Enqueueing, InHand
<1>5. QED
  BY <1>1, <1>2, <1>3, <1>4 DEF Called

\* The task of a caller's run is added, without the lock.
LEMMA RunNowEnqueueKeeps ==
  ASSUME IInv, NEW c \in Caller, run_now_enqueue(c)
  PROVE  IInv'
<1>1. UNCHANGED <<automations, runs, origin, drawn, pruned, sched, host>> /\ caller[c].pc = "enqueue" /\ Busy(c)
  BY DEF run_now_enqueue, records, Busy
<1>2. PICK status \in {"Active", "NotAdded"} :
        /\ enqueue_run_task(caller[c].run, status)
        /\ caller' = [caller EXCEPT ![c].pc = "save", ![c].status = status]
  BY DEF run_now_enqueue
<1>3. PICK r \in Run :
        /\ r = caller[c].run /\ r \in Drawn
        /\ r \notin pruned /\ ~ Known(r) /\ ~ Finishing(r)
        /\ runs[r] = "Absent" /\ origin[r].slot = Manual
        /\ \A d \in Caller : d # c /\ Busy(d) => caller[d].run # r
  BY <1>1, HeldByCaller
<1>4. board' = [board EXCEPT ![r] = "Open"] \/ (board' = board /\ status # "Active")
  BY <1>2, <1>3 DEF enqueue_run_task
<1>5. /\ caller'[c].pc = "save" /\ caller'[c].run = r /\ caller'[c].status = status
      /\ \A d \in Caller : d # c => caller'[d] = caller[d]
      /\ caller' \in [Caller -> Call]
  <2>1. caller \in [Caller -> Call] /\ status \in RunStatus
    BY DEF IInv, Shape, RunStatus
  <2>2. QED
    BY <1>2, <1>3, <2>1 DEF Call
<1>6. /\ board' \in [Run -> BoardStatus]
      /\ \A q \in Run : q # r => board'[q] = board[q]
      /\ status = "Active" => board'[r] # "Absent"
  BY <1>4 DEF IInv, Shape, BoardStatus
<1>7. Shape'
  <2>1. ~ (r > drawn)
    BY <1>3 DEF Drawn, IInv, Shape
  <2>2. \A q \in Run : q > drawn => runs'[q] = "Absent" /\ board'[q] = "Absent" /\ q \notin pruned
    BY <1>1, <1>6, <2>1 DEF IInv, Shape
  <2>3. QED
    BY <1>1, <1>5, <1>6, <2>2 DEF IInv, Shape
<1>8. Drawn' = Drawn
  BY <1>1 DEF Drawn
<1>9. Called(c)'
  BY <1>1, <1>3, <1>5, <1>6, <1>8 DEF Called
<1>10. \A d \in Caller : Busy(d)' => \/ Busy(d) /\ caller'[d] = caller[d] /\ caller[d].run # r
                                     \/ d = c
  BY <1>3, <1>5 DEF Busy
<1>11. Own(r)
  <2>1. PendingOf(sched') = PendingOf(sched) /\ (\A q \in Run : Finishing(q)' => Finishing(q))
        /\ \A b : Gone(b) => Gone(b)'
    BY <1>1 DEF Finishing, At, Gone
  <2>2. Hand(sched)'
    <3>1. Hand(sched)
      BY DEF IInv, Reconciling
    <3>2. ASSUME sched.pc = "apply" PROVE board'[sched.run] = board[sched.run]
      <4>1. sched.run \in Pending
        BY <3>2 DEF Pending, PendingOf
      <4>2. sched.run \in Run /\ sched.run # r
        BY <1>3, <4>1, Waits
      <4>3. QED
        BY <1>6, <4>2
    <3>3. QED
      BY <1>1, <3>1, <3>2 DEF Hand
  <2>3. \A d \in Caller : Busy(d)' => \/ Busy(d) /\ caller'[d] = caller[d] /\ caller[d].run # r
                                      \/ caller'[d].run = r /\ Called(d)'
    BY <1>5, <1>9, <1>10
  <2>4. \A d, e \in Caller : Busy(d)' /\ Busy(e)' /\ caller'[d].run = r /\ caller'[e].run = r => d = e
    BY <1>10
  <2>5. QED
    BY <1>1, <1>3, <1>6, <1>7, <1>8, <2>1, <2>2, <2>3, <2>4 DEF Own
<1>12. QED
  BY <1>1, <1>3, <1>11, OwnKeeps, CallerEnqueueing DEF IInv

\* A caller's run is saved: it has no slot, so it takes none.
LEMMA RunNowSaveKeeps ==
  ASSUME IInv, NEW c \in Caller, run_now_save(c)
  PROVE  IInv'
<1>1. UNCHANGED <<automations, origin, drawn, pruned, sched, host, board>> /\ caller[c].pc = "save" /\ Busy(c)
  BY DEF run_now_save, Busy
<1>2. PICK r \in Run :
        /\ r = caller[c].run /\ r \in Drawn
        /\ r \notin pruned /\ ~ Known(r) /\ ~ Finishing(r)
        /\ runs[r] = "Absent" /\ origin[r].slot = Manual
        /\ \A d \in Caller : d # c /\ Busy(d) => caller[d].run # r
  BY <1>1, HeldByCaller
<1>3. /\ caller[c].status \in {"Active", "NotAdded"}
      /\ caller[c].status = "Active" => board[r] # "Absent"
  BY <1>1, <1>2 DEF IInv, Calls, Called
<1>4. runs' = runs \/ runs' = [runs EXCEPT ![r] = caller[c].status]
  BY <1>2 DEF run_now_save, save_run
<1>5. /\ ~ Busy(c)'
      /\ \A d \in Caller : d # c => caller'[d] = caller[d]
      /\ caller' \in [Caller -> Call]
  BY DEF run_now_save, IInv, Shape, Call, RunStatus, NoCall, Busy
<1>6. /\ runs' \in [Run -> RunStatus]
      /\ \A q \in Run : q # r => runs'[q] = runs[q]
      /\ runs'[r] \in {"Absent", caller[c].status}
  BY <1>2, <1>3, <1>4 DEF IInv, Shape, RunStatus
<1>7. Shape'
  <2>1. ~ (r > drawn)
    BY <1>2 DEF Drawn, IInv, Shape
  <2>2. \A q \in Run : q > drawn => runs'[q] = "Absent" /\ board'[q] = "Absent" /\ q \notin pruned
    BY <1>1, <1>6, <2>1 DEF IInv, Shape
  <2>3. QED
    BY <1>1, <1>5, <1>6, <2>2 DEF IInv, Shape
<1>8. Own(r)
  <2>1. Drawn' = Drawn /\ PendingOf(sched') = PendingOf(sched) /\ (\A q \in Run : Finishing(q)' => Finishing(q))
        /\ Hand(sched)' /\ \A b : Gone(b) => Gone(b)'
    BY <1>1 DEF Drawn, Finishing, At, Gone, Hand, IInv, Reconciling
  <2>2. \A d \in Caller : Busy(d)' => Busy(d) /\ caller'[d] = caller[d] /\ caller[d].run # r
    BY <1>2, <1>5 DEF Busy
  <2>3. QED
    BY <1>1, <1>2, <1>3, <1>6, <1>7, <2>1, <2>2 DEF Own
<1>9. Alone(r)
  BY <1>1, <1>2 DEF Alone, SameSlot
<1>10. QED
  BY <1>1, <1>2, <1>8, <1>9, OwnKeeps, CallerEnqueueing DEF IInv

--------------------------------------------------------------------------------
(* The run of a due slot.                                                  *)

\* The record of a due slot is drawn and its task added.
LEMMA EnqueueDueKeeps == IInv /\ enqueue_due => IInv'
<1> SUFFICES ASSUME IInv, enqueue_due PROVE IInv'
  OBVIOUS
<1>1. UNCHANGED <<automations, runs, pruned, host, caller>> /\ At("due")
  BY DEF enqueue_due, records
<1>2. CASE sched' = Idle /\ UNCHANGED <<origin, drawn, board>>
  BY <1>1, <1>2, StopsKeeps
<1>3. ASSUME NEW d \in sched.todo, NEW status \in {"Active", "NotAdded"},
             new_run_record(d[1], d[2]), enqueue_run_task(drawn + 1, status),
             sched' = [pc |-> "finish", todo |-> sched.todo \ {d}, run |-> drawn + 1, status |-> status]
      PROVE  IInv'
  <2>1. PICK r :
        /\ r = drawn + 1 /\ r \in Run /\ r \notin Drawn /\ Drawn' = Drawn \cup {r} /\ drawn' \in 0 .. MaxRuns /\ drawn' = r
        /\ runs[r] = "Absent" /\ board[r] = "Absent" /\ r \notin pruned /\ ~ Known(r)
        /\ NotCalled(r)
        /\ origin' = [q \in Run |-> origin'[q]]
        /\ origin'[r] = [of |-> d[1], slot |-> d[2]]
        /\ \A q \in Run : q # r => origin'[q] = origin[q]
        /\ \A q \in Run : q > r => q > drawn /\ q # r
    <3>1. new_run_record(d[1], d[2]) /\ IInv
      BY <1>3
    <3>2. QED
      BY <3>1, FreshRun
  <2>2. board' = [board EXCEPT ![r] = "Open"] \/ (board' = board /\ status # "Active")
    BY <1>3, <2>1 DEF enqueue_run_task
  <2>3. sched' = [pc |-> "finish", todo |-> sched.todo \ {d}, run |-> r, status |-> status]
    BY <1>3, <2>1
  <2>4. /\ sched'.pc = "finish" /\ sched'.todo = sched.todo \ {d} /\ sched'.run = r /\ sched'.status = status
        /\ IsRecord(sched')
    BY <2>3 DEF IsRecord
  <2>5. /\ board' \in [Run -> BoardStatus]
        /\ \A q \in Run : q # r => board'[q] = board[q]
        /\ status = "Active" => board'[r] # "Absent"
    BY <2>1, <2>2 DEF IInv, Shape, BoardStatus
  <2>6. Shape'
    <3>1. \A q \in Run : q > r => runs[q] = "Absent" /\ board'[q] = "Absent" /\ q \notin pruned
      BY <2>1, <2>5 DEF IInv, Shape
    <3>2. QED
      BY <1>1, <2>1, <2>4, <2>5, <3>1 DEF IInv, Shape
  <2>7. Own(r)
    <3>1. /\ PendingOf(sched') = {} /\ PendingOf(sched) = {} /\ Hand(sched)'
          /\ (\A q : q # r => ~ Finishing(q)') /\ \A b : Gone(b) => Gone(b)'
      BY <1>1, <2>4 DEF PendingOf, At, Hand, Finishing, Gone
    <3>2. \A c \in Caller : Busy(c)' => Busy(c) /\ caller'[c] = caller[c] /\ caller[c].run # r
      BY <1>1, <2>1 DEF Busy, NotCalled
    <3>3. runs' = runs /\ pruned' = pruned /\ host' = host
      BY <1>1
    <3>4. QED
      BY <2>1, <2>5, <2>6, <3>1, <3>2, <3>3 DEF Own
  <2>8. runs'[r] = "Absent"
    BY <1>1, <2>1
  <2>9. /\ Drawn \subseteq Run
        /\ \A q \in Run : q # r => /\ Known(q)' <=> Known(q)
                                   /\ q \in Drawn' <=> q \in Drawn
        /\ ~ Known(r)'
    BY <2>7, <2>8, OwnOthers
  <2>10. /\ \A e \in sched.todo : Free(e)
         /\ \A e, f \in sched.todo : e[1] = f[1] => e = f
    BY <1>1 DEF IInv, Enqueueing
  <2>11. ASSUME NEW s \in Drawn' \ pruned', Known(s)' \/ Finishing(s)'
         PROVE  s = r \/ (s \in Drawn \ pruned /\ Known(s) /\ origin'[s] = origin[s])
    BY <1>1, <2>1, <2>4, <2>9, <2>11 DEF Finishing
  <2>12. ASSUME NEW e \in sched.todo \ {d} PROVE Free(e)'
    <3> SUFFICES ASSUME e[2] # Manual, NEW s \in Drawn' \ pruned', Known(s)' \/ Finishing(s)'
                 PROVE  origin'[s] # [of |-> e[1], slot |-> e[2]]
      BY DEF Free
    <3>1. CASE s = r
      <4>1. e[1] # d[1]
        BY <1>3, <2>10, <2>12
      <4>2. QED
        BY <2>1, <3>1, <4>1
    <3>2. CASE s \in Drawn \ pruned /\ Known(s) /\ origin'[s] = origin[s]
      BY <2>10, <3>2 DEF Free
    <3>3. QED
      BY <2>11, <3>1, <3>2
  <2>13. ASSUME NEW s \in Drawn' \ pruned', Known(s)' PROVE ~ SameSlot(r, s)'
    <3>1. s # r /\ s \in Drawn \ pruned /\ Known(s) /\ origin'[s] = origin[s]
      BY <2>9, <2>11, <2>13
    <3>2. d[2] # Manual => origin[s] # [of |-> d[1], slot |-> d[2]]
      BY <1>3, <2>10, <3>1 DEF Free
    <3>3. QED
      BY <2>1, <3>1, <3>2 DEF SameSlot
  <2>14. NotCalled(r)'
    BY <1>1, <2>1 DEF NotCalled, Busy
  <2>15. InHand'
    BY <1>1, <2>1, <2>4, <2>5, <2>8, <2>13, <2>14 DEF InHand
  <2>16. Enqueueing'
    <3>1. \A e, f \in sched'.todo : e[1] = f[1] => e = f
      BY <2>4, <2>10
    <3>2. \A e \in sched'.todo : Free(e)'
      BY <2>4, <2>12
    <3>3. QED
      BY <2>15, <3>1, <3>2 DEF Enqueueing
  <2>17. QED
    BY <2>7, <2>8, <2>16, OwnKeeps DEF IInv
<1>4. QED
  BY <1>2, <1>3 DEF enqueue_due

\* The slot after the one that ran leaves the automation's status alone.
LEMMA AdvanceSlot ==
  ASSUME IInv, NEW r, advance_slot(r)
  PROVE  /\ automations' = [a \in Automation |-> automations'[a]]
         /\ \A a \in Automation : IsAutomation(automations'[a]) /\ automations'[a].status = automations[a].status
         /\ \A a : Gone(a) <=> Gone(a)'
<1> DEFINE b == origin[r].of
           n == next_after(origin[r].slot)
<1>1. /\ automations = [a \in Automation |-> automations[a]]
      /\ automations' = [automations EXCEPT ![b].next = n] \/ automations' = automations
  BY DEF IInv, Shape, advance_slot
<1> HIDE DEF b, n
<1>2. ASSUME NEW a \in Automation
      PROVE  IsAutomation(automations'[a]) /\ automations'[a].status = automations[a].status
  <2>1. IsAutomation(automations[a])
    BY DEF IInv, Shape
  <2>2. CASE automations' = [automations EXCEPT ![b].next = n] /\ a = b
    <3>1. automations'[a] = [automations[a] EXCEPT !.next = n]
      BY <1>1, <2>2
    <3>2. automations'[a] = [status |-> automations[a].status, next |-> n]
      BY <2>1, <3>1 DEF IsAutomation
    <3>3. QED
      BY <3>2 DEF IsAutomation
  <2>3. CASE automations' = automations \/ a # b
    <3>1. automations'[a] = automations[a]
      BY <1>1, <2>3
    <3>2. QED
      BY <2>1, <3>1
  <2>4. QED
    BY <1>1, <2>2, <2>3
<1>3. \A a : Gone(a) <=> Gone(a)'
  BY <1>2 DEF Gone
<1>4. automations' = [a \in Automation |-> automations'[a]]
  BY <1>1
<1>5. QED
  BY <1>2, <1>3, <1>4

\* The run of the slot in hand is saved.
LEMMA FinishKeeps == IInv /\ finish_scheduled_run => IInv'
<1> SUFFICES ASSUME IInv, finish_scheduled_run PROVE IInv'
  OBVIOUS
<1>1. UNCHANGED <<origin, drawn, pruned, host, board, caller>> /\ At("finish") /\ InHand
  BY DEF finish_scheduled_run, IInv, Enqueueing
<1>2. PICK p \in Run :
        /\ p = sched.run /\ p \in Drawn /\ p \notin pruned /\ runs[p] = "Absent" /\ ~ Known(p)
        /\ sched.status \in {"Active", "NotAdded"}
        /\ sched.status = "Active" => board[p] # "Absent"
        /\ NotCalled(p)
        /\ \A s \in Drawn \ pruned : Known(s) => ~ SameSlot(p, s)
  <2>1. sched.run \in Run /\ Finishing(sched.run)
    BY <1>1, DrawnRuns DEF InHand, Finishing, IInv
  <2>2. ~ Known(sched.run)
    BY <1>1, <2>1, HeldUnknown DEF InHand
  <2>3. QED
    BY <1>1, <2>1, <2>2 DEF InHand
<1>3. runs' = [runs EXCEPT ![p] = sched.status] \/ runs' = runs
  BY <1>2 DEF finish_scheduled_run, save_run
<1>4. \/ sched' = [pc |-> "due", todo |-> sched.todo, run |-> NoRun, status |-> "Absent"]
      \/ sched' = [pc |-> "idle", todo |-> {}, run |-> NoRun, status |-> "Absent"]
  BY DEF finish_scheduled_run, Idle
<1>5. IsRecord(sched') /\ sched'.pc \in {"due", "idle"} /\ (sched'.pc = "due" => sched'.todo = sched.todo)
  BY <1>4 DEF IsRecord
<1>6. /\ automations' = [a \in Automation |-> automations'[a]]
      /\ \A a \in Automation : IsAutomation(automations'[a])
      /\ \A a : Gone(a) => Gone(a)'
  <2>1. advance_slot(sched.run) \/ automations' = automations
    BY DEF finish_scheduled_run
  <2>2. CASE advance_slot(sched.run)
    BY <2>2, AdvanceSlot
  <2>3. CASE automations' = automations
    BY <2>3 DEF IInv, Shape, Gone
  <2>4. QED
    BY <2>1, <2>2, <2>3
<1>7. /\ runs' \in [Run -> RunStatus]
      /\ \A q \in Run : q # p => runs'[q] = runs[q]
      /\ runs'[p] \in {"Absent", sched.status}
  BY <1>2, <1>3 DEF IInv, Shape, RunStatus
<1>8. Shape'
  <2>1. ~ (p > drawn)
    BY <1>2 DEF Drawn, IInv, Shape
  <2>2. \A q \in Run : q > drawn => runs'[q] = "Absent" /\ board'[q] = "Absent" /\ q \notin pruned
    BY <1>1, <1>7, <2>1 DEF IInv, Shape
  <2>3. QED
    BY <1>1, <1>5, <1>6, <1>7, <2>2 DEF IInv, Shape
<1>9. Own(p)
  <2>1. /\ Drawn' = Drawn /\ PendingOf(sched') = {} /\ PendingOf(sched) = {} /\ Hand(sched)'
        /\ \A q : ~ Finishing(q)'
    BY <1>1, <1>5 DEF Drawn, PendingOf, At, Hand, Finishing
  <2>2. \A c \in Caller : Busy(c)' => Busy(c) /\ caller'[c] = caller[c] /\ caller[c].run # p
    BY <1>1, <1>2 DEF Busy, NotCalled
  <2>3. QED
    BY <1>1, <1>2, <1>6, <1>7, <1>8, <2>1, <2>2 DEF Own
<1>10. Alone(p)
  BY <1>1, <1>2 DEF Alone, SameSlot
<1>11. Enqueueing'
  <2>1. \A d \in sched.todo : Free(d)
    BY <1>1 DEF IInv, Enqueueing
  <2>2. ASSUME NEW s \in Drawn' \ pruned', Known(s)' \/ Finishing(s)'
        PROVE  s \in Drawn \ pruned /\ (Known(s) \/ Finishing(s)) /\ origin' = origin
    <3>1. /\ Drawn \subseteq Run /\ Drawn' = Drawn
          /\ \A q \in Run : q # p => (Known(q)' <=> Known(q))
          /\ \A q : ~ Finishing(q)'
      BY <1>1, <1>5, <1>9, OwnOthers DEF Drawn, Finishing, At
    <3>2. Finishing(p)
      BY <1>1, <1>2 DEF Finishing
    <3>3. QED
      BY <1>1, <2>2, <3>1, <3>2
  <2>3. \A d : Free(d) => Free(d)'
    BY <2>2 DEF Free
  <2>4. (At("due") \/ At("finish"))' => sched'.todo = sched.todo /\ ~ At("finish")'
    BY <1>5 DEF At
  <2>5. \A d, e \in sched.todo : d[1] = e[1] => d = e
    BY <1>1 DEF IInv, Enqueueing
  <2>6. QED
    BY <2>1, <2>3, <2>4, <2>5 DEF Enqueueing
<1>12. QED
  BY <1>9, <1>10, <1>11, OwnKeeps DEF IInv

--------------------------------------------------------------------------------
(* The theorems.                                                           *)

\* Each step preserves the invariant.
LEMMA NextKeeps == IInv /\ [Next]_automationVars => IInv'
<1> SUFFICES ASSUME IInv, [Next]_automationVars PROVE IInv'
  OBVIOUS
<1>1. CASE Scheduler
  BY <1>1, ReconcileKeeps, CollectKeeps, EnqueueDueKeeps, FinishKeeps DEF Scheduler
<1>2. CASE \E a \in Automation :
             create_automation(a) \/ pause_automation(a) \/ resume_automation(a) \/ delete_automation(a)
  BY <1>2, ClientsAreOutside, OutsideKeeps
<1>3. CASE \E c \in Caller : (\E a \in Automation : run_now(c, a)) \/ run_now_enqueue(c) \/ run_now_save(c)
  BY <1>3, RunNowKeeps, RunNowEnqueueKeeps, RunNowSaveKeeps
<1>4. CASE \E h \in Host : host_reconcile(h) \/ host_lookup(h) \/ host_apply(h) \/ host_reconciled(h)
  BY <1>4, HostsKeep
<1>5. CASE \E r \in Run : delete_terminal_run(r) \/ task_ends(r)
  BY <1>5, EndsAreOutside, OutsideKeeps
<1>6. CASE tick
  BY <1>6, ClientsAreOutside, OutsideKeeps
<1>7. CASE crash
  BY <1>7, StopsKeeps DEF crash, records
<1>8. CASE UNCHANGED automationVars
  <2>1. Outside
    <3>1. UNCHANGED <<automations, runs, origin, drawn, pruned, sched, host, caller, board>>
      BY <1>8 DEF automationVars
    <3>2. /\ runs \in [Run -> RunStatus] /\ board \in [Run -> BoardStatus]
          /\ automations = [a \in Automation |-> automations[a]] /\ \A a \in Automation : IsAutomation(automations[a])
      BY DEF IInv, Shape
    <3>3. \A a : Gone(a) => Gone(a)'
      BY <3>1 DEF Gone
    <3>4. QED
      BY <3>1, <3>2, <3>3 DEF Outside
  <2>2. QED
    BY <2>1, OutsideKeeps
<1>9. QED
  BY <1>1, <1>2, <1>3, <1>4, <1>5, <1>6, <1>7, <1>8 DEF Next

\* The invariant holds in every state the automation manager reaches: what the
\* scheduler and the callers of run_now_shared hold between two phases under the
\* lock is theirs alone, and what reconciliations hold was active on disk once and,
\* when it is gone, was deleted by retention or with its automation.
THEOREM Invariance == Spec => []IInv
<1>1. QED
  BY InitHolds, NextKeeps, PTL DEF Spec

\* A slot has at most one run record on disk, through crashes and failed calls and
\* with any number of reconciliations (collect_due_runs, finish_scheduled_run),
\* save for the records that were written again after retention deleted them.
THEOREM OneRunPerSlotHolds == Spec => []OneRunPerSlot
<1>1. IInv => OneRunPerSlot
  BY DEF IInv, Unique, Known, SameSlot, OneRunPerSlot, Drawn
<1>2. QED
  BY <1>1, Invariance, PTL

\* With any number of reconciliations that overtake each other, the ends of the
\* tasks and retention: a run that is over says how its task ended, and an active
\* run has a task unless retention had deleted it (reconcile_run_statuses_shared,
\* enqueue_run_task).
THEOREM RunMatchesTaskHolds == Spec => []RunMatchesTask
<1>1. IInv => RunMatchesTask
  BY DEF IInv, Tasks, Told, Deleted, RunMatchesTask
<1>2. QED
  BY <1>1, Invariance, PTL

--------------------------------------------------------------------------------
(* Scheduled runs do not overlap.                                          *)

\* The tasks of an automation's slots that are open, by the run that added them.
OpenRuns(a) == {r \in ScheduledRuns(a) : board[r] = "Open"}
\* The scheduler is about to save that r waits for its task.
Promised(r) == At("finish") /\ sched.run = r /\ sched.status = "Active"
\* The runs of which a record tells, on disk or in the hand of the scheduler.
ToldRuns == {r \in Run : runs[r] = "Active" \/ Promised(r)}
\* A slot of a is going to be enqueued.
DueNow(a) == (At("due") \/ At("finish")) /\ \E d \in sched.todo : d[1] = a

\* The open tasks of an automation after f crashes and failed calls: at most one
\* that a record tells of, and at most f that none does.  When a slot is going to
\* be enqueued there is none of the first kind.  A deleted automation has lost its
\* records, which reconciliations may write again, and only the bounds are left.
Fits(open, told, f, gone, due) ==
  /\ Cardinality(open) <= 1 + f
  /\ due => Cardinality(open) <= f
  /\ ~ gone => /\ Cardinality(open \ told) <= f
               /\ \A r, s \in open \cap told : r = s
               /\ due => open \cap told = {}

\* A part of a finite set has no more elements.
LEMMA Smaller ==
  ASSUME NEW S, NEW T, IsFiniteSet(T), S \subseteq T
  PROVE  IsFiniteSet(S) /\ Cardinality(S) \in Nat /\ Cardinality(T) \in Nat /\ Cardinality(S) <= Cardinality(T)
BY FS_Subset, FS_CardinalityType

\* One element more.
LEMMA OneMore ==
  ASSUME NEW S, NEW T, NEW x, IsFiniteSet(T), S \subseteq T \cup {x}
  PROVE  IsFiniteSet(S) /\ Cardinality(S) \in Nat /\ Cardinality(T) \in Nat /\ Cardinality(S) <= Cardinality(T) + 1
<1>1. IsFiniteSet(T \cup {x}) /\ Cardinality(T \cup {x}) <= Cardinality(T) + 1 /\ Cardinality(T) \in Nat
  BY FS_AddElement, FS_CardinalityType
<1> QED
  BY <1>1, Smaller, FS_CardinalityType

\* Open tasks go, and what the records tell of the others does not change.
LEMMA FitsLess ==
  ASSUME NEW open, NEW told, NEW f \in Nat, NEW gone, NEW due, IsFiniteSet(open),
         Fits(open, told, f, gone, due),
         NEW open2, NEW told2, NEW f2 \in Nat, NEW gone2, NEW due2,
         open2 \subseteq open, f2 >= f, due2 => due,
         ~ gone2 => ~ gone /\ open2 \cap told2 = open2 \cap told
  PROVE  Fits(open2, told2, f2, gone2, due2)
<1>1. Cardinality(open2) <= Cardinality(open) /\ Cardinality(open) \in Nat /\ Cardinality(open2) \in Nat
  BY Smaller
<1>2. CASE ~ gone2
  <2>1. open2 \ told2 \subseteq open \ told
    BY <1>2
  <2>2. /\ Cardinality(open2 \ told2) <= Cardinality(open \ told)
        /\ Cardinality(open \ told) \in Nat /\ Cardinality(open2 \ told2) \in Nat
    <3>1. IsFiniteSet(open \ told)
      BY Smaller
    <3> QED
      BY <2>1, <3>1, Smaller
  <2>3. Cardinality(open2 \ told2) <= f2 /\ \A r, s \in open2 \cap told2 : r = s
    BY <1>2, <2>2 DEF Fits
  <2> QED
    BY <1>1, <2>3 DEF Fits
<1>3. CASE gone2
  BY <1>1, <1>3 DEF Fits
<1> QED
  BY <1>2, <1>3

\* A crash: the record of one open task is forgotten.
LEMMA FitsDrop ==
  ASSUME NEW open, NEW told, NEW f \in Nat, NEW gone, NEW due, IsFiniteSet(open),
         Fits(open, told, f, gone, due),
         NEW told2, NEW p,
         open \cap told2 \subseteq told, open \cap told \subseteq told2 \cup {p}
  PROVE  Fits(open, told2, f + 1, gone, FALSE)
<1>1. Cardinality(open) \in Nat
  BY FS_CardinalityType
<1>2. CASE ~ gone
  <2>1. open \ told2 \subseteq (open \ told) \cup {p}
    OBVIOUS
  <2>2. /\ Cardinality(open \ told2) <= Cardinality(open \ told) + 1
        /\ Cardinality(open \ told) \in Nat /\ Cardinality(open \ told2) \in Nat
    <3>1. IsFiniteSet(open \ told)
      BY Smaller
    <3> QED
      BY <2>1, <3>1, OneMore
  <2>3. Cardinality(open \ told2) <= f + 1 /\ \A r, s \in open \cap told2 : r = s
    BY <1>2, <2>2 DEF Fits
  <2> QED
    BY <1>1, <2>3 DEF Fits
<1>3. CASE gone
  BY <1>1, <1>3 DEF Fits
<1> QED
  BY <1>2, <1>3

\* At most the task x was added; if no record tells of it, a call has failed.
Grew(open, told, f, open2, told2, f2, x) ==
  /\ open2 \subseteq open \cup {x}
  /\ open2 \cap told2 \subseteq told \cup {x}
  /\ (x \in told2 /\ f2 = f) \/ f2 = f + 1
\* The slot that was going to be enqueued is not any more.
Handed(due, due2, gone, gone2) == due /\ ~ due2 /\ (~ gone2 => ~ gone)

\* The task of a due slot is added; if its record is forgotten, a call has failed.
LEMMA FitsGrow ==
  ASSUME NEW open, NEW told, NEW f \in Nat, NEW gone, NEW due, IsFiniteSet(open),
         Fits(open, told, f, gone, due),
         NEW open2, NEW told2, NEW f2 \in Nat, NEW gone2, NEW due2, NEW r,
         Grew(open, told, f, open2, told2, f2, r), Handed(due, due2, gone, gone2)
  PROVE  Fits(open2, told2, f2, gone2, due2)
<1>1. Cardinality(open) \in Nat /\ Cardinality(open) <= f /\ (~ gone => open \cap told = {})
  BY FS_CardinalityType DEF Fits, Handed
<1>2. IsFiniteSet(open2) /\ Cardinality(open2) \in Nat /\ Cardinality(open2) <= f + 1
  <2>1. IsFiniteSet(open2) /\ Cardinality(open2) \in Nat /\ Cardinality(open2) <= Cardinality(open) + 1
    BY OneMore DEF Grew
  <2> QED
    BY <1>1, <2>1
<1>3. Cardinality(open2 \ told2) <= f2
  <2>1. CASE r \in told2 /\ f2 = f
    <3>1. open2 \ told2 \subseteq open
      BY <2>1 DEF Grew
    <3>2. Cardinality(open2 \ told2) \in Nat /\ Cardinality(open2 \ told2) <= Cardinality(open)
      BY <3>1, Smaller
    <3> QED
      BY <1>1, <2>1, <3>2
  <2>2. CASE f2 = f + 1
    <3>1. Cardinality(open2 \ told2) \in Nat /\ Cardinality(open2 \ told2) <= Cardinality(open2)
      BY <1>2, Smaller
    <3> QED
      BY <1>2, <2>2, <3>1
  <2> QED
    BY <2>1, <2>2 DEF Grew
<1>4. ~ gone2 => \A x, y \in open2 \cap told2 : x = y
  BY <1>1 DEF Grew, Handed
<1> QED
  BY <1>2, <1>3, <1>4 DEF Fits, Grew, Handed

\* A slot becomes due to be enqueued when no record tells of an open task.
LEMMA FitsCollect ==
  ASSUME NEW open, NEW told, NEW f \in Nat, NEW due, IsFiniteSet(open),
         Fits(open, told, f, FALSE, due), open \cap told = {}
  PROVE  Fits(open, told, f, FALSE, TRUE)
<1>1. open \ told = open
  OBVIOUS
<1> QED
  BY <1>1 DEF Fits

\* What the invariant says of the automation a.
Tame(a) == Fits(OpenRuns(a), ToldRuns, faults, Gone(a), DueNow(a))
\* What the steps rely on.
Owners == added \subseteq Drawn /\ faults \in Nat
\* The second inductive invariant, relative to IInv.
GInv == Owners /\ \A a \in Automation : Tame(a)

\* The open tasks of an automation are finitely many.
LEMMA OpenIsFinite == IInv /\ Owners => Drawn \subseteq Run /\ \A a : IsFiniteSet(OpenRuns(a)) /\ OpenRuns(a) \subseteq Drawn
<1> SUFFICES ASSUME IInv, Owners, NEW a
             PROVE  Drawn \subseteq Run /\ IsFiniteSet(OpenRuns(a)) /\ OpenRuns(a) \subseteq Drawn
  OBVIOUS
<1>1. drawn \in Nat /\ Drawn \subseteq Run
  BY Constants DEF IInv, Shape, Drawn, Run
<1>2. IsFiniteSet(Drawn)
  BY <1>1, FS_Interval DEF Drawn
<1>3. OpenRuns(a) \subseteq Drawn
  BY DEF OpenRuns, ScheduledRuns, Owners
<1> QED
  BY <1>1, <1>2, <1>3, FS_Subset

\* A step after which an automation has no more open tasks.
LEMMA TameLess ==
  ASSUME IInv, Owners, NEW a, Tame(a), faults' \in Nat, faults' >= faults,
         OpenRuns(a)' \subseteq OpenRuns(a), DueNow(a)' => DueNow(a), Gone(a) => Gone(a)',
         Gone(a)' \/ \A r \in OpenRuns(a)' : r \in ToldRuns' <=> r \in ToldRuns
  PROVE  Tame(a)'
<1> DEFINE open == OpenRuns(a)
           told == ToldRuns
           gone == Gone(a)
           due == DueNow(a)
           open2 == OpenRuns(a)'
           told2 == ToldRuns'
           gone2 == Gone(a)'
           due2 == DueNow(a)'
<1>1. faults \in Nat
  BY DEF Owners
<1>2. Fits(open, told, faults, gone, due)
  BY DEF Tame
<1>3. IsFiniteSet(open)
  BY OpenIsFinite
<1>4. open2 \subseteq open /\ (due2 => due)
  OBVIOUS
<1>5. ~ gone2 => ~ gone /\ open2 \cap told2 = open2 \cap told
  OBVIOUS
<1>6. Fits(open2, told2, faults', gone2, due2) => Tame(a)'
  BY DEF Tame
<1> HIDE DEF open, told, gone, due, open2, told2, gone2, due2
<1> QED
  BY <1>1, <1>2, <1>3, <1>4, <1>5, <1>6, FitsLess

\* A step that opens no task for a slot, and changes what the records tell of an
\* open task at most for a deleted automation.
Calm ==
  /\ faults' \in Nat /\ faults' >= faults
  /\ \A a \in Automation : (DueNow(a)' => DueNow(a)) /\ (Gone(a) => Gone(a)')
  /\ \A r \in added' :
       \/ origin'[r].slot = Manual
       \/ board'[r] # "Open"
       \/ /\ r \in added /\ origin'[r] = origin[r] /\ board[r] = "Open"
          /\ (r \in ToldRuns' <=> r \in ToldRuns) \/ Gone(origin[r].of)'

\* Such a step keeps every automation tame.
LEMMA CalmTame == IInv /\ GInv /\ Calm => \A a \in Automation : Tame(a)'
<1> SUFFICES ASSUME IInv, GInv, Calm, NEW a \in Automation PROVE Tame(a)'
  OBVIOUS
<1>1. ASSUME NEW r \in OpenRuns(a)'
      PROVE  /\ r \in OpenRuns(a)
             /\ (r \in ToldRuns' <=> r \in ToldRuns) \/ Gone(a)'
  <2>1. r \in added' /\ origin'[r].of = a /\ origin'[r].slot # Manual /\ board'[r] = "Open"
    BY <1>1 DEF OpenRuns, ScheduledRuns
  <2>2. /\ r \in added /\ origin'[r] = origin[r] /\ board[r] = "Open"
        /\ (r \in ToldRuns' <=> r \in ToldRuns) \/ Gone(origin[r].of)'
    BY <2>1 DEF Calm
  <2>3. Gone(origin[r].of)' <=> Gone(a)'
    BY <2>1 DEF Gone
  <2> QED
    BY <2>1, <2>2, <2>3 DEF OpenRuns, ScheduledRuns
<1>2. Owners /\ Tame(a)
  BY DEF GInv
<1>3. faults' \in Nat /\ faults' >= faults /\ (DueNow(a)' => DueNow(a)) /\ (Gone(a) => Gone(a)')
  BY DEF Calm
<1>4. OpenRuns(a)' \subseteq OpenRuns(a)
  BY <1>1
<1>5. Gone(a)' \/ \A r \in OpenRuns(a)' : r \in ToldRuns' <=> r \in ToldRuns
  BY <1>1
<1> QED
  BY <1>2, <1>3, <1>4, <1>5, TameLess

\* There is no task at the start.
LEMMA InitTame == Init => GInv
<1> SUFFICES ASSUME Init PROVE GInv
  OBVIOUS
<1>1. added = {} /\ faults = 0 /\ sched.pc = "idle"
  BY DEF Init, Idle
<1>2. Owners
  BY <1>1 DEF Owners
<1>3. ASSUME NEW a \in Automation PROVE Tame(a)
  <2>1. OpenRuns(a) = {} /\ ~ DueNow(a)
    BY <1>1 DEF OpenRuns, ScheduledRuns, DueNow, At
  <2>2. Cardinality({}) = 0
    BY FS_EmptySet
  <2>3. {} \ ToldRuns = {} /\ {} \cap ToldRuns = {}
    OBVIOUS
  <2> QED
    BY <1>1, <2>1, <2>2, <2>3 DEF Tame, Fits
<1> QED
  BY <1>2, <1>3 DEF GInv

\* Runs disappear; tasks end.  A run that an open task tells of goes only with its
\* automation.
LEMMA OutsideTame ==
  ASSUME IInv, GInv, Outside, added' = added, faults' = faults \/ faults' = faults + 1
  PROVE  GInv'
<1>1. added \subseteq Drawn /\ Drawn \subseteq Run /\ faults \in Nat /\ faults' \in Nat /\ faults' >= faults
  BY OpenIsFinite DEF GInv, Owners
<1>2. Owners'
  BY <1>1 DEF Owners, Outside, Drawn
<1>3. Calm
  <2>1. \A a \in Automation : (DueNow(a)' => DueNow(a)) /\ (Gone(a) => Gone(a)')
    BY DEF Outside, DueNow, At
  <2>2. ASSUME NEW r \in added, board'[r] = "Open"
        PROVE  board[r] = "Open" /\ ((r \in ToldRuns' <=> r \in ToldRuns) \/ Gone(origin[r].of)')
    <3>1. r \in Run
      BY <1>1
    <3>2. board[r] = "Open"
      BY <2>2, <3>1, Constants DEF Outside
    <3>3. CASE runs'[r] = runs[r]
      BY <3>1, <3>2, <3>3 DEF Outside, ToldRuns, Promised, At
    <3>4. CASE runs'[r] = "Absent" /\ runs[r] = "Active"
      <4>1. r \notin pruned
        BY <3>1, <3>2, <3>4 DEF IInv, Tasks, Told, Deleted
      <4>2. QED
        BY <3>1, <3>2, <3>4, <4>1 DEF Outside
    <3>5. CASE runs'[r] = "Absent" /\ runs[r] # "Active"
      BY <3>1, <3>2, <3>5 DEF Outside, ToldRuns, Promised, At
    <3>6. QED
      BY <3>1, <3>3, <3>4, <3>5 DEF Outside
  <2>3. origin' = origin
    BY DEF Outside
  <2>4. QED
    BY <1>1, <2>1, <2>2, <2>3 DEF Calm
<1>4. QED
  BY <1>2, <1>3, CalmTame DEF GInv

\* Callers of the automations, the clock, retention and the ends of tasks.
LEMMA ClientsTame ==
  ASSUME IInv, GInv,
         \/ tick \/ UNCHANGED automationVars
         \/ \E a \in Automation :
              create_automation(a) \/ pause_automation(a) \/ resume_automation(a) \/ delete_automation(a)
         \/ \E r \in Run : delete_terminal_run(r) \/ task_ends(r)
  PROVE  GInv'
<1>1. CASE tick
  BY <1>1, ClientsAreOutside, OutsideTame DEF tick
<1>2. ASSUME NEW a \in Automation,
             create_automation(a) \/ pause_automation(a) \/ resume_automation(a) \/ delete_automation(a)
      PROVE  GInv'
  <2>1. Outside
    BY <1>2, ClientsAreOutside
  <2>2. added' = added /\ (faults' = faults \/ faults' = faults + 1)
    BY <1>2 DEF create_automation, pause_automation, resume_automation, delete_automation, Fault
  <2>3. QED
    BY <2>1, <2>2, OutsideTame
<1>3. ASSUME NEW r \in Run, delete_terminal_run(r) \/ task_ends(r) PROVE GInv'
  <2>1. Outside
    BY <1>3, EndsAreOutside
  <2>2. added' = added /\ (faults' = faults \/ faults' = faults + 1)
    BY <1>3 DEF delete_terminal_run, task_ends, Fault
  <2>3. QED
    BY <2>1, <2>2, OutsideTame
<1>4. CASE UNCHANGED automationVars
  <2>1. UNCHANGED <<automations, runs, origin, drawn, added, sched, faults, board>>
    BY <1>4 DEF automationVars
  <2>2. Owners' /\ \A a \in Automation : Tame(a) => Tame(a)'
    BY <2>1 DEF GInv, Owners, Drawn, Tame, Fits, OpenRuns, ScheduledRuns, ToldRuns, Promised, Gone, DueNow, At
  <2>3. QED
    BY <2>2 DEF GInv
<1>5. QED
  BY <1>1, <1>2, <1>3, <1>4

\* A reconciliation saves what a lookup saw: if the task is open the run waits for it,
\* as it did, unless its automation is gone.
LEMMA PassTame ==
  ASSUME IInv, GInv, UNCHANGED <<automations, origin, drawn, added, board>>,
         faults' = faults \/ faults' = faults + 1,
         (runs' = runs) \/ \E p, status : Saves(p, status),
         sched' = sched \/ (~ At("finish") /\ sched'.pc \in {"idle", "reconcile", "apply", "tick"})
  PROVE  GInv'
<1>1. added \subseteq Drawn /\ Drawn \subseteq Run /\ faults \in Nat /\ faults' \in Nat /\ faults' >= faults
  BY OpenIsFinite DEF GInv, Owners
<1>2. Owners'
  BY <1>1 DEF Owners, Drawn
<1>3. \A r : Promised(r)' <=> Promised(r)
  BY DEF Promised, At
<1>4. ASSUME NEW r \in Run, board[r] = "Open"
      PROVE  (r \in ToldRuns' <=> r \in ToldRuns) \/ Gone(origin[r].of)
  <2>1. runs'[r] = runs[r] => (r \in ToldRuns' <=> r \in ToldRuns)
    BY <1>3 DEF ToldRuns
  <2>2. ASSUME NEW p, NEW status, Saves(p, status), ~ Gone(origin[r].of) PROVE runs'[r] = runs[r]
    <3>1. runs' = [runs EXCEPT ![p] = status] /\ runs \in [Run -> RunStatus]
      BY <2>2 DEF Saves, IInv, Shape
    <3>2. CASE r = p
      <4>1. Waiting(p) /\ Told(p)
        BY <2>2, <3>2 DEF Saves, IInv, Reconciling, Tasks
      <4>2. p \notin pruned /\ runs[p] \notin Outcome
        BY <1>4, <3>2, <4>1, Constants DEF Waiting, Deleted, Told
      <4>3. runs[p] = "Active"
        BY <2>2, <3>2, <4>1, <4>2 DEF Waiting
      <4>4. status = "Active"
        BY <1>4, <2>2, <3>2, Constants DEF Saves
      <4>5. QED
        BY <3>1, <3>2, <4>3, <4>4
    <3>3. CASE r # p
      BY <3>1, <3>3
    <3>4. QED
      BY <3>2, <3>3
  <2>3. QED
    BY <2>1, <2>2
<1>5. \A a \in Automation : (DueNow(a)' => DueNow(a)) /\ (Gone(a) <=> Gone(a)')
  BY DEF DueNow, At, Gone
<1>6. \A r : Gone(origin[r].of) => Gone(origin[r].of)'
  BY DEF Gone
<1>7. Calm
  BY <1>1, <1>4, <1>5, <1>6 DEF Calm
<1>8. QED
  BY <1>2, <1>7, CalmTame DEF GInv

\* What a pass holds when it saves.
LEMMA PassSaves ==
  ASSUME IInv, NEW x, Hand(x), PendingOf(x) \subseteq Pending, x.pc = "apply", save_run(x.run, x.status)
  PROVE  \E p, status : Saves(p, status)
<1>1. Saves(x.run, x.status)
  BY DEF Saves, save_run, Hand, PendingOf
<1>2. QED
  BY <1>1

\* The steps of the hosts' reconciliations.
LEMMA HostsTame ==
  ASSUME IInv, GInv, NEW h \in Host, host_reconcile(h) \/ host_lookup(h) \/ host_apply(h) \/ host_reconciled(h)
  PROVE  GInv'
<1>1. UNCHANGED <<automations, origin, drawn, added, sched, board>> /\ (faults' = faults \/ faults' = faults + 1)
  BY DEF host_reconcile, host_lookup, host_apply, host_reconciled, records, SaveStatus, SaveStatusFails, Fault
<1>2. CASE host_apply(h)
  <2>1. Hand(host[h]) /\ PendingOf(host[h]) \subseteq Pending /\ host[h].pc = "apply"
    BY <1>2 DEF IInv, Reconciling, Pending, host_apply
  <2>2. (runs' = runs) \/ save_run(host[h].run, host[h].status)
    BY <1>2 DEF host_apply, SaveStatus, SaveStatusFails
  <2>3. QED
    BY <1>1, <2>1, <2>2, PassSaves, PassTame
<1>3. CASE host_reconcile(h) \/ host_lookup(h) \/ host_reconciled(h)
  <2>1. runs' = runs
    BY <1>3 DEF host_reconcile, host_lookup, host_reconciled, records
  <2>2. QED
    BY <1>1, <2>1, PassTame
<1>4. QED
  BY <1>2, <1>3

\* The steps of the scheduler's.
LEMMA ReconcileTame == IInv /\ GInv /\ (reconcile \/ lookup \/ apply_task_status \/ reconciled) => GInv'
<1> SUFFICES ASSUME IInv, GInv, reconcile \/ lookup \/ apply_task_status \/ reconciled PROVE GInv'
  OBVIOUS
<1>1. /\ UNCHANGED <<automations, origin, drawn, added, board>> /\ (faults' = faults \/ faults' = faults + 1)
      /\ ~ At("finish")
  BY DEF reconcile, lookup, apply_task_status, reconciled, records, SaveStatus, SaveStatusFails, Fault, At
<1>2. IsRecord(sched) /\ Hand(sched) /\ PendingOf(sched) \subseteq Pending
  BY DEF IInv, Shape, Reconciling, Pending
<1>3. Passes(sched, sched')
  <2>1. CASE reconcile
    BY <2>1 DEF reconcile, records, Passes
  <2>2. CASE lookup
    BY <2>2 DEF lookup, records, Passes, At
  <2>3. CASE apply_task_status
    BY <2>3 DEF apply_task_status, SaveStatus, SaveStatusFails, Passes, At
  <2>4. CASE reconciled
    BY <2>4 DEF reconciled, records, Passes
  <2>5. QED
    BY <2>1, <2>2, <2>3, <2>4
<1>4. /\ sched'.pc \in {"idle", "reconcile", "apply", "tick"}
      /\ (runs' = runs) \/ \E p, status : Saves(p, status)
  BY <1>2, <1>3, PassStep
<1>5. QED
  BY <1>1, <1>4, PassTame

\* A caller draws a record.
LEMMA RunNowTame ==
  ASSUME IInv, GInv, NEW c \in Caller, NEW a \in Automation, run_now(c, a)
  PROVE  GInv'
<1>1. UNCHANGED <<automations, runs, added, sched, faults, board>> /\ new_run_record(a, Manual)
  BY DEF run_now, records
<1>2. added \subseteq Drawn /\ Drawn \subseteq Run /\ faults \in Nat
  BY OpenIsFinite DEF GInv, Owners
<1>3. Drawn \subseteq Drawn' /\ \A r \in Drawn : origin'[r] = origin[r]
  BY <1>1, <1>2, FreshRun
<1>4. Owners'
  BY <1>1, <1>2, <1>3 DEF Owners
<1>5. Calm
  <2>1. \A b \in Automation : (DueNow(b)' => DueNow(b)) /\ (Gone(b) => Gone(b)')
    BY <1>1 DEF DueNow, At, Gone
  <2>2. ToldRuns' = ToldRuns
    BY <1>1 DEF ToldRuns, Promised, At
  <2>3. QED
    BY <1>1, <1>2, <1>3, <2>1, <2>2 DEF Calm
<1>6. QED
  BY <1>4, <1>5, CalmTame DEF GInv

\* The runs of callers are for no slot.
LEMMA CallersTame ==
  ASSUME IInv, GInv, NEW c \in Caller, run_now_enqueue(c) \/ run_now_save(c)
  PROVE  GInv'
<1> DEFINE p == caller[c].run
<1>1. UNCHANGED <<automations, origin, drawn, sched>>
  BY DEF run_now_enqueue, run_now_save, records
<1>2. faults \in Nat /\ faults' \in Nat /\ faults' >= faults
  <2>1. faults' = faults \/ faults' = faults + 1
    BY DEF run_now_enqueue, run_now_save, enqueue_run_task, Fault
  <2>2. faults \in Nat
    BY DEF GInv, Owners
  <2> QED
    BY <2>1, <2>2
<1>3. Busy(c)
  BY DEF run_now_enqueue, run_now_save, Busy
<1>4. p \in Drawn /\ origin[p].slot = Manual /\ runs[p] = "Absent"
  BY <1>3 DEF IInv, Calls, Called
<1>5. added \subseteq Run /\ Drawn \subseteq Run /\ added \subseteq Drawn
  BY OpenIsFinite DEF GInv, Owners
<1>6. /\ added' \subseteq added \cup {p}
      /\ \A r \in Run : r # p => board'[r] = board[r] /\ runs'[r] = runs[r]
  <2>1. runs \in [Run -> RunStatus] /\ board \in [Run -> BoardStatus]
    BY DEF IInv, Shape
  <2>2. CASE run_now_enqueue(c)
    <3>1. /\ runs' = runs
          /\ \/ board' = [board EXCEPT ![p] = "Open"] /\ added' = added \cup {p}
             \/ UNCHANGED <<board, added>>
      BY <2>2 DEF run_now_enqueue, enqueue_run_task, records
    <3> QED
      BY <2>1, <3>1
  <2>3. CASE run_now_save(c)
    <3>1. /\ UNCHANGED <<board, added>>
          /\ runs' = [runs EXCEPT ![p] = caller[c].status] \/ runs' = runs
      BY <2>3 DEF run_now_save, save_run
    <3> QED
      BY <2>1, <3>1
  <2> QED
    BY <2>2, <2>3
<1>7. Owners'
  BY <1>1, <1>2, <1>4, <1>5, <1>6 DEF Owners, Drawn
<1>8. Calm
  <2>1. \A b \in Automation : (DueNow(b)' => DueNow(b)) /\ (Gone(b) => Gone(b)')
    BY <1>1 DEF DueNow, At, Gone
  <2>2. \A r \in Run : r # p => (r \in ToldRuns' <=> r \in ToldRuns)
    BY <1>1, <1>6 DEF ToldRuns, Promised, At
  <2>3. ASSUME NEW r \in added', origin'[r].slot # Manual, board'[r] = "Open"
        PROVE  /\ r \in added /\ origin'[r] = origin[r] /\ board[r] = "Open"
               /\ r \in ToldRuns' <=> r \in ToldRuns
    <3>1. r # p /\ r \in added /\ r \in Run
      BY <1>1, <1>4, <1>5, <1>6, <2>3
    <3> QED
      BY <1>1, <1>6, <2>2, <2>3, <3>1
  <2> QED
    BY <1>2, <2>1, <2>3 DEF Calm
<1> QED
  BY <1>7, <1>8, CalmTame DEF GInv

\* A slot is collected when no run on disk waits for a task.
LEMMA CollectTame == IInv /\ GInv /\ collect_due_runs => GInv'
<1> SUFFICES ASSUME IInv, GInv, collect_due_runs PROVE GInv'
  OBVIOUS
<1> DEFINE due == {a \in Automation : IsDue(a) /\ ~ Skipped(a)}
<1>1. UNCHANGED <<runs, origin, drawn, added, board>> /\ At("tick")
  BY DEF collect_due_runs
<1>2. \/ /\ sched' = [pc |-> "due", todo |-> {<<a, automations[a].next>> : a \in due}, run |-> NoRun, status |-> "Absent"]
         /\ faults' = faults
      \/ /\ sched' = [pc |-> "idle", todo |-> {}, run |-> NoRun, status |-> "Absent"]
         /\ faults' = faults + 1
  BY DEF collect_due_runs, Idle, Fault
<1>3. \/ /\ sched'.pc = "due" /\ sched'.todo = {<<a, automations[a].next>> : a \in due}
         /\ faults' = faults
      \/ sched'.pc = "idle" /\ faults' = faults + 1
  <2> DEFINE S == {<<a, automations[a].next>> : a \in due}
  <2>1. \/ sched' = [pc |-> "due", todo |-> S, run |-> NoRun, status |-> "Absent"] /\ faults' = faults
        \/ sched' = [pc |-> "idle", todo |-> {}, run |-> NoRun, status |-> "Absent"] /\ faults' = faults + 1
    BY <1>2
  <2>2. (sched'.pc = "due" /\ sched'.todo = S /\ faults' = faults) \/ (sched'.pc = "idle" /\ faults' = faults + 1)
    <3> HIDE DEF S
    <3>1. QED
      BY <2>1
  <2>3. QED
    BY <2>2
<1>4. \A a \in Automation : Gone(a)' <=> Gone(a)
  <2>1. \E S : automations' = Advanced(S)
    BY DEF collect_due_runs
  <2>2. QED
    BY <2>1, AdvancedKeeps
<1>5. added \subseteq Drawn /\ Drawn \subseteq Run /\ faults \in Nat /\ faults' \in Nat /\ faults' >= faults
  BY <1>3, OpenIsFinite DEF GInv, Owners
<1>6. Owners'
  BY <1>1, <1>5 DEF Owners, Drawn
<1>7. ToldRuns' = ToldRuns
  BY <1>1, <1>3 DEF ToldRuns, Promised, At
<1>8. CASE sched'.pc = "idle"
  <2>1. \A a \in Automation : ~ DueNow(a)'
    BY <1>8 DEF DueNow, At
  <2>2. Calm
    BY <1>1, <1>4, <1>5, <1>7, <2>1 DEF Calm
  <2>3. QED
    BY <1>6, <2>2, CalmTame DEF GInv
<1>9. CASE sched'.pc = "due" /\ sched'.todo = {<<a, automations[a].next>> : a \in due} /\ faults' = faults
  <2>1. \A a \in Automation : DueNow(a)' <=> a \in due
    <3>1. \A a \in Automation : DueNow(a)' <=> \E d \in sched'.todo : d[1] = a
      BY <1>9 DEF DueNow, At
    <3>2. ASSUME NEW a \in Automation PROVE (\E d \in sched'.todo : d[1] = a) <=> a \in due
      <4> HIDE DEF due
      <4>1. \A b : <<b, automations[b].next>>[1] = b
        OBVIOUS
      <4>2. due \subseteq Automation
        BY DEF due
      <4> QED
        BY <1>9, <4>1, <4>2
    <3> QED
      BY <3>1, <3>2
  <2>2. ASSUME NEW a \in Automation PROVE Tame(a)'
    <3>1. OpenRuns(a)' = OpenRuns(a) /\ (Gone(a)' <=> Gone(a))
      BY <1>1, <1>4 DEF OpenRuns, ScheduledRuns, Gone
    <3>2. Fits(OpenRuns(a), ToldRuns, faults, Gone(a), DueNow(a)) /\ faults \in Nat /\ IsFiniteSet(OpenRuns(a))
      BY OpenIsFinite DEF GInv, Tame, Owners
    <3>3. CASE a \in due
      <4>1. ~ Gone(a) /\ ~ HasActiveRun(a)
        BY <3>3 DEF IsDue, Gone, Skipped
      <4>2. OpenRuns(a) \cap ToldRuns = {}
        <5> SUFFICES ASSUME NEW r \in OpenRuns(a), r \in ToldRuns PROVE FALSE
          OBVIOUS
        <5>1. runs[r] = "Active"
          BY <1>1 DEF ToldRuns, Promised, At
        <5>2. r \in Drawn /\ origin[r].of = a
          BY OpenIsFinite DEF OpenRuns, ScheduledRuns, GInv
        <5> QED
          BY <4>1, <5>1, <5>2 DEF HasActiveRun, RunsOf, Drawn
      <4>3. Fits(OpenRuns(a), ToldRuns, faults, FALSE, DueNow(a))
        BY <3>2, <4>1 DEF Fits
      <4>4. Fits(OpenRuns(a), ToldRuns, faults, FALSE, TRUE)
        BY <3>2, <4>2, <4>3, FitsCollect
      <4>5. Gone(a)' = FALSE /\ DueNow(a)' = TRUE
        BY <2>1, <3>1, <3>3, <4>1 DEF DueNow, Gone
      <4> QED
        BY <1>7, <1>9, <3>1, <4>4, <4>5 DEF Tame, Fits
    <3>4. CASE a \notin due
      <4>1. ~ DueNow(a)'
        BY <2>1, <3>4
      <4> QED
        BY <1>7, <1>9, <3>1, <3>2, <4>1 DEF Tame, Fits
    <3> QED
      BY <3>3, <3>4
  <2> QED
    BY <1>6, <2>2 DEF GInv
<1> QED
  BY <1>3, <1>8, <1>9

\* A due slot is enqueued: its automation has no open task that a record tells of.
LEMMA EnqueueTame == IInv /\ GInv /\ enqueue_due => GInv'
<1> SUFFICES ASSUME IInv, GInv, enqueue_due PROVE GInv'
  OBVIOUS
<1>1. UNCHANGED <<automations, runs>> /\ At("due")
  BY DEF enqueue_due, records
<1>2. CASE sched' = Idle /\ UNCHANGED <<origin, drawn, added, faults, board>>
  <2>1. ~ At("finish") /\ sched'.pc = "idle"
    BY <1>1, <1>2 DEF At, Idle
  <2>2. QED
    BY <1>1, <1>2, <2>1, PassTame
<1>3. ASSUME NEW d \in sched.todo, NEW status \in {"Active", "NotAdded"},
             new_run_record(d[1], d[2]), enqueue_run_task(drawn + 1, status),
             sched' = [pc |-> "finish", todo |-> sched.todo \ {d}, run |-> drawn + 1, status |-> status]
      PROVE  GInv'
  <2> DEFINE p == drawn + 1
  <2>1. /\ p \in Run /\ p \notin Drawn /\ Drawn \subseteq Run /\ Drawn' = Drawn \cup {p}
        /\ runs[p] = "Absent" /\ board[p] = "Absent"
        /\ origin'[p] = [of |-> d[1], slot |-> d[2]]
        /\ \A s \in Drawn : origin'[s] = origin[s]
    <3>1. new_run_record(d[1], d[2]) /\ IInv /\ Drawn \subseteq Run
      BY <1>3, OpenIsFinite DEF GInv
    <3> QED
      BY <3>1, FreshRun
  <2>2. /\ sched'.pc = "finish" /\ sched'.todo = sched.todo \ {d} /\ sched'.run = p /\ sched'.status = status
    BY <1>3
  <2>3. /\ board' = [board EXCEPT ![p] = "Open"] \/ board' = board
        /\ added' \subseteq added \cup {p}
        /\ (status = "Active" /\ faults' = faults) \/ faults' = faults + 1
    BY <1>3 DEF enqueue_run_task, Fault
  <2> HIDE DEF p
  <2>4. \A r \in Run : r # p => board'[r] = board[r]
    BY <2>3 DEF IInv, Shape
  <2>5. added \subseteq Drawn /\ faults \in Nat
    BY DEF GInv, Owners
  <2>6. faults' \in Nat /\ faults' >= faults
    BY <2>3, <2>5
  <2>7. Owners'
    BY <2>1, <2>3, <2>5, <2>6 DEF Owners
  <2>9. \A r \in Run : r # p => (r \in ToldRuns' <=> r \in ToldRuns)
    BY <1>1, <2>2 DEF ToldRuns, Promised, At
  <2>10. p \in ToldRuns' <=> status = "Active"
    BY <1>1, <2>1, <2>2 DEF ToldRuns, Promised, At
  <2>11. \A a \in Automation : Gone(a)' <=> Gone(a)
    BY <1>1 DEF Gone
  <2>12. ASSUME NEW a \in Automation PROVE Tame(a)'
    <3>1. /\ Fits(OpenRuns(a), ToldRuns, faults, Gone(a), DueNow(a)) /\ IsFiniteSet(OpenRuns(a))
          /\ OpenRuns(a) \subseteq Drawn /\ Owners /\ Tame(a)
      BY OpenIsFinite DEF GInv, Tame
    <3>2. ASSUME NEW r \in OpenRuns(a)', r # p PROVE r \in OpenRuns(a)
      <4>1. r \in added /\ r \in Run /\ origin'[r] = origin[r] /\ board'[r] = board[r]
        BY <2>1, <2>3, <2>4, <2>5, <3>2 DEF OpenRuns, ScheduledRuns
      <4> QED
        BY <3>2, <4>1 DEF OpenRuns, ScheduledRuns
    <3>3. \A r \in OpenRuns(a) : r # p /\ r \in Run
      BY <2>1, <3>1
    <3>4. CASE d[1] = a
      <4>1. DueNow(a)
        BY <1>1, <3>4 DEF DueNow
      <4>2. ~ DueNow(a)'
        <5>1. \A e, f \in sched.todo : e[1] = f[1] => e = f
          BY <1>1 DEF IInv, Enqueueing
        <5> QED
          BY <1>3, <2>2, <3>4, <5>1 DEF DueNow, At
      <4> DEFINE open == OpenRuns(a)
                 told == ToldRuns
                 gone == Gone(a)
                 due == DueNow(a)
                 open2 == OpenRuns(a)'
                 told2 == ToldRuns'
                 gone2 == Gone(a)'
                 due2 == DueNow(a)'
      <4>3. due /\ ~ due2
        BY <4>1, <4>2
      <4>4. open2 \subseteq open \cup {p}
        BY <3>2
      <4>5. open2 \cap told2 \subseteq told \cup {p}
        <5>1. open2 \subseteq Run
          BY <2>1, <3>2, <3>3
        <5> QED
          BY <2>9, <5>1
      <4>6. (p \in told2 /\ faults' = faults) \/ faults' = faults + 1
        BY <2>3, <2>10
      <4>7. Fits(open2, told2, faults', gone2, due2) => Tame(a)'
        BY DEF Tame
      <4>8. Fits(open, told, faults, gone, due) /\ IsFiniteSet(open)
        BY <3>1
      <4>10. Grew(open, told, faults, open2, told2, faults', p)
        BY <4>4, <4>5, <4>6 DEF Grew
      <4>9. ~ gone2 => ~ gone
        BY <2>11
      <4>11. Handed(due, due2, gone, gone2)
        BY <4>3, <4>9 DEF Handed
      <4> HIDE DEF open, told, gone, due, open2, told2, gone2, due2
      <4> QED
        BY <2>5, <2>6, <4>7, <4>8, <4>10, <4>11, FitsGrow
    <3>5. CASE d[1] # a
      <4>1. p \notin OpenRuns(a)'
        BY <2>1, <3>5 DEF OpenRuns, ScheduledRuns
      <4>2. OpenRuns(a)' \subseteq OpenRuns(a)
        BY <3>2, <4>1
      <4>3. DueNow(a)' => DueNow(a)
        BY <1>1, <2>2 DEF DueNow, At
      <4>4. \A r \in OpenRuns(a)' : r \in ToldRuns' <=> r \in ToldRuns
        BY <2>9, <3>3, <4>1, <4>2
      <4>5. (Gone(a) => Gone(a)') /\ Owners /\ Tame(a)
        BY <2>11, <3>1
      <4> QED
        BY <2>6, <4>2, <4>3, <4>4, <4>5, TameLess
    <3> QED
      BY <3>4, <3>5
  <2> QED
    BY <2>7, <2>12 DEF GInv
<1> QED
  BY <1>2, <1>3 DEF enqueue_due

\* What the scheduler had in hand is lost: a crash or a failed save, counted in
\* faults.
LEMMA LostTame ==
  ASSUME IInv, GInv, UNCHANGED <<automations, origin, drawn, added, board>>, sched' = Idle, faults' = faults + 1,
         \A r \in Run : runs'[r] = runs[r] \/ (At("finish") /\ r = sched.run /\ runs'[r] = sched.status)
  PROVE  GInv'
<1>1. sched'.pc = "idle"
  BY DEF Idle
<1>2. added \subseteq Drawn /\ Drawn \subseteq Run /\ faults \in Nat /\ faults' \in Nat
  BY OpenIsFinite DEF GInv, Owners
<1>3. Owners'
  BY <1>2 DEF Owners, Drawn
<1>4. ASSUME NEW a \in Automation PROVE Tame(a)'
  <2> DEFINE open == OpenRuns(a)
             told == ToldRuns
             gone == Gone(a)
             due == DueNow(a)
             told2 == ToldRuns'
             p == sched.run
  <2>1. Fits(open, told, faults, gone, due) /\ IsFiniteSet(open) /\ open \subseteq Run
    BY <1>2, OpenIsFinite DEF GInv, Tame
  <2>2. OpenRuns(a)' = OpenRuns(a) /\ (Gone(a)' <=> Gone(a)) /\ ~ DueNow(a)'
    BY <1>1 DEF OpenRuns, ScheduledRuns, Gone, DueNow, At
  <2>3. ASSUME NEW r \in Run
        PROVE  (r \in told2 => r \in told) /\ (r \in told /\ r # p => r \in told2)
    <3>1. r \in told2 <=> runs'[r] = "Active"
      BY <1>1 DEF ToldRuns, Promised, At
    <3>2. r \in told <=> runs[r] = "Active" \/ Promised(r)
      BY DEF ToldRuns
    <3> QED
      BY <3>1, <3>2 DEF Promised
  <2>4. open \cap told2 \subseteq told /\ open \cap told \subseteq told2 \cup {p}
    BY <2>1, <2>3
  <2>5. Fits(open, told2, faults + 1, gone, FALSE) => Tame(a)'
    BY <2>2 DEF Tame, Fits
  <2> HIDE DEF open, told, gone, due, told2, p
  <2> QED
    BY <1>2, <2>1, <2>4, <2>5, FitsDrop
<1> QED
  BY <1>3, <1>4 DEF GInv

\* The run in hand is saved and tells of its task as before.
LEMMA FinishTame == IInv /\ GInv /\ finish_scheduled_run => GInv'
<1> SUFFICES ASSUME IInv, GInv, finish_scheduled_run PROVE GInv'
  OBVIOUS
<1> DEFINE p == sched.run
<1>1. UNCHANGED <<origin, drawn, added, board>> /\ At("finish")
  BY DEF finish_scheduled_run
<1>2. added \subseteq Run /\ Drawn \subseteq Run /\ added \subseteq Drawn /\ faults \in Nat
  BY OpenIsFinite DEF GInv, Owners
<1>3. runs \in [Run -> RunStatus]
  BY DEF IInv, Shape
<1>4. p \in Drawn /\ runs[p] = "Absent" /\ sched.status \in {"Active", "NotAdded"}
  BY <1>1 DEF IInv, Enqueueing, InHand
<1>5. CASE runs' = [runs EXCEPT ![p] = sched.status] /\ advance_slot(p)
           /\ sched' = [Idle EXCEPT !.pc = "due", !.todo = sched.todo] /\ faults' = faults
  <2>1. sched'.pc = "due" /\ sched'.todo = sched.todo
    BY <1>5 DEF Idle
  <2>2. \A a \in Automation : Gone(a) => Gone(a)'
    BY <1>5, AdvanceSlot
  <2>3. Owners'
    BY <1>1, <1>2, <1>5 DEF Owners, Drawn
  <2>4. Calm
    <3>1. \A b \in Automation : (DueNow(b)' => DueNow(b)) /\ (Gone(b) => Gone(b)')
      BY <1>1, <2>1, <2>2 DEF DueNow, At
    <3>2. ASSUME NEW r \in Run PROVE r \in ToldRuns' <=> r \in ToldRuns
      <4>1. r \in ToldRuns' <=> runs'[r] = "Active"
        BY <2>1 DEF ToldRuns, Promised, At
      <4>2. r \in ToldRuns <=> runs[r] = "Active" \/ (p = r /\ sched.status = "Active")
        BY <1>1 DEF ToldRuns, Promised
      <4>3. runs'[r] = IF r = p THEN sched.status ELSE runs[r]
        BY <1>3, <1>5
      <4> QED
        BY <1>4, <4>1, <4>2, <4>3
    <3>3. faults' \in Nat /\ faults' >= faults
      BY <1>2, <1>5
    <3> QED
      BY <1>1, <1>2, <3>1, <3>2, <3>3 DEF Calm
  <2> QED
    BY <2>3, <2>4, CalmTame DEF GInv
<1>6. CASE /\ runs' = [runs EXCEPT ![p] = sched.status] \/ runs' = runs
           /\ sched' = Idle /\ faults' = faults + 1 /\ automations' = automations
  <2>1. \A r \in Run : runs'[r] = runs[r] \/ (At("finish") /\ r = sched.run /\ runs'[r] = sched.status)
    BY <1>1, <1>3, <1>6
  <2> QED
    BY <1>1, <1>6, <2>1, LostTame
<1> QED
  BY <1>5, <1>6 DEF finish_scheduled_run, save_run, Fault

\* Each step preserves the second invariant.
LEMMA NextTame == IInv /\ GInv /\ [Next]_automationVars => GInv'
<1> SUFFICES ASSUME IInv, GInv, [Next]_automationVars PROVE GInv'
  OBVIOUS
<1>1. CASE Scheduler
  BY <1>1, ReconcileTame, CollectTame, EnqueueTame, FinishTame DEF Scheduler
<1>2. CASE \E a \in Automation :
             create_automation(a) \/ pause_automation(a) \/ resume_automation(a) \/ delete_automation(a)
  BY <1>2, ClientsTame
<1>3. CASE \E c \in Caller : (\E a \in Automation : run_now(c, a)) \/ run_now_enqueue(c) \/ run_now_save(c)
  BY <1>3, RunNowTame, CallersTame
<1>4. CASE \E h \in Host : host_reconcile(h) \/ host_lookup(h) \/ host_apply(h) \/ host_reconciled(h)
  BY <1>4, HostsTame
<1>5. CASE (\E r \in Run : delete_terminal_run(r) \/ task_ends(r)) \/ tick \/ UNCHANGED automationVars
  BY <1>5, ClientsTame
<1>6. CASE crash
  <2>1. UNCHANGED <<automations, runs, origin, drawn, added, board>> /\ sched' = Idle /\ faults' = faults + 1
    BY <1>6 DEF crash, records, Fault
  <2> QED
    BY <2>1, LostTame
<1> QED
  BY <1>1, <1>2, <1>3, <1>4, <1>5, <1>6 DEF Next

\* The open tasks of an automation's slots are at most one more than the crashes and
\* failed calls so far (HasActiveRun in collect_due_runs, enqueue_run_task,
\* finish_scheduled_run): without faults scheduled runs never overlap.
THEOREM NonOverlapHolds == Spec => []NonOverlap
<1>1. Init => IInv /\ GInv
  BY InitHolds, InitTame
<1>2. (IInv /\ GInv) /\ [Next]_automationVars => (IInv /\ GInv)'
  BY NextKeeps, NextTame
<1>3. IInv /\ GInv => NonOverlap
  <2> SUFFICES ASSUME IInv, GInv, NEW a \in Automation
               PROVE  Cardinality({r \in ScheduledRuns(a) : board[r] = "Open"}) <= 1 + faults
    BY DEF NonOverlap
  <2>1. Tame(a)
    BY DEF GInv
  <2> QED
    BY <2>1 DEF Tame, Fits, OpenRuns
<1> QED
  BY <1>1, <1>2, <1>3, PTL DEF Spec
=============================================================================
