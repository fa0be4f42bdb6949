------------------------------ MODULE RuntimeThreads ----------------------------
(***************************************************************************)
(* RuntimeThreadManager of crates/tui/src/runtime_threads.rs: the threads  *)
(* of the runtime API and the engines behind them.  Calls load engines     *)
(* into a bounded map, claim a thread for one turn and hand the operation  *)
(* to an engine; the monitor of the turn waits for the engine's report,    *)
(* records the end and releases the claim.  A call may be dropped by its   *)
(* client at any await, a write may fail, an engine may die, and the       *)
(* process may crash and recover.  What happens between a turn's start and *)
(* its end (items, approvals, events) and how it ends is module            *)
(* RuntimeTurn; here a turn is in progress or over.                        *)
(***************************************************************************)
EXTENDS Naturals, FiniteSets, Sequences, SequencesExt

CONSTANTS
  Thread, Call,
  NoThread, NoCall,
  MaxActive,    \* max_active_threads
  MaxTurns,     \* bound: turns
  MaxEngines,   \* bound: engines spawned by one process
  MaxFaults     \* bound: writes that fail, engines that die, crashes of the
                \* process and changes of a thread's settings

Turn == 1..MaxTurns
Engine == 1..MaxEngines
NoTurn == 0
NoEngine == 0
Shutdown == 0   \* Op::Shutdown; the other operations are turns

ASSUME RuntimeAssumption ==
  /\ {MaxActive, MaxTurns, MaxEngines, MaxFaults} \subseteq Nat
  /\ NoThread \notin Thread /\ NoCall \notin Call

VARIABLES
  threads,      \* files: the execution state of each ThreadRecord
  turns,        \* files: TurnRecords, absent, in progress or ended
  active,       \* ActiveThreads.engines: engine, claimed turn, interrupt_requested
  lru,          \* ActiveThreads.lru
  engine_load,  \* holder of the build lock
  call,         \* calls of start_turn, compact_thread and get_engine in progress
  engine,       \* engine tasks and their channels
  monitor,      \* the lifecycle task of each turn; "of" is the turn whose report
                \* it read, which the event itself does not say
  up,           \* open() has returned
  faults,       \* how many happened
  lost          \* history: a write that cleans up after a failure failed as well

files == <<threads, turns>>
memory == <<active, lru, engine_load>>
vars == <<files, memory, call, engine, monitor, up, faults, lost>>

Unloaded == [engine |-> NoEngine, turn |-> NoTurn, interrupt |-> FALSE]
IdleCall == [pc |-> "idle", thread |-> NoThread, snap |-> [latest |-> NoTurn, settings |-> 0],
             built |-> [latest |-> NoTurn, settings |-> 0], handle |-> NoEngine, victim |-> NoEngine]
Unspawned == [state |-> "none", ops |-> <<>>, running |-> NoTurn, cancelled |-> FALSE,
              events |-> <<>>]
NoMonitor == [pc |-> "none", engine |-> NoEngine, of |-> NoTurn]

Loaded(th) == active[th].engine # NoEngine
LoadedThreads == {th \in Thread : Loaded(th)}
Owns(t) == active[turns[t].thread].turn = t

\* The list without its first entry of the thread; `retain` means the same,
\* because there is no second one (LruExact).
Without(s, th) ==
  LET at == {i \in DOMAIN s : s[i] = th} IN
  IF at = {} THEN s ELSE RemoveAt(s, CHOOSE i \in at : \A j \in at : i <= j)

touch_lru(s, th) == Append(Without(s, th), th)

Fault == faults < MaxFaults /\ faults' = faults + 1

--------------------------------------------------------------------------------
(* Calls: ensure_engine_loaded.                                            *)

Return(c) == call' = [call EXCEPT ![c] = IdleCall]

\* start_turn and compact_thread: get_thread.
begin(c, th) ==
  /\ up /\ call[c].pc = "idle"
  /\ call' = [call EXCEPT ![c] = [IdleCall EXCEPT !.pc = "load", !.thread = th,
                                                  !.snap = threads[th]]]
  /\ UNCHANGED <<files, memory, engine, monitor, up, faults, lost>>

\* Before the build lock, or again under it, the engine is in the map.
engine_hit(c) ==
  LET th == call[c].thread IN
  /\ call[c].pc = "load"
  /\ Loaded(th)
  /\ lru' = touch_lru(lru, th)
  /\ call' = [call EXCEPT ![c].pc = "check", ![c].handle = active[th].engine]
  /\ UNCHANGED <<files, active, engine_load, engine, monitor, up, faults, lost>>

Handles ==
  {active[th].engine : th \in Thread} \cup {monitor[t].engine : t \in Turn}
    \cup UNION {{call[c].handle, call[c].victim} : c \in Call}

\* Bound: the number of an engine that is gone, and that nobody holds, serves again.
Spawnable(e) == engine[e].state = "none" \/ (engine[e].state = "gone" /\ e \notin Handles)
Spawned(e) == [engine EXCEPT ![e] = [Unspawned EXCEPT !.state = "idle"]]

\* An engine is built from the record read under the lock.
engine_build(c, e) ==
  LET th == call[c].thread IN
  /\ \/ call[c].pc = "load" /\ engine_load = NoCall /\ ~ Loaded(th)
     \/ call[c].pc = "rebuild"
  /\ Spawnable(e) /\ \A f \in 1..(e - 1) : ~ Spawnable(f)
  /\ engine_load' = c
  /\ engine' = Spawned(e)
  /\ call' = [call EXCEPT ![c].pc = "publish", ![c].handle = e, ![c].built = threads[th]]
  /\ UNCHANGED <<files, active, lru, monitor, up, faults, lost>>

\* An engine task that is gone has dropped its receiver.
Sent(eng, e, op) == IF eng[e].state = "gone" THEN eng ELSE [eng EXCEPT ![e].ops = Append(@, op)]
\* cancel_with_reason: the token only matters to a turn that runs, because the
\* next message resets it.
Cancel(eng, e) == [eng EXCEPT ![e].cancelled = (eng[e].state = "busy")]
Stopped(eng, e) == Sent(Cancel(eng, e), e, Shutdown)

\* The record changed while the engine was built: discard it and build again.
\* (A map entry that another call published meanwhile cannot be: only the
\* holder of engine_load inserts.)
engine_stale(c) ==
  /\ call[c].pc = "publish"
  /\ threads[call[c].thread] # call[c].built
  /\ engine' = Stopped(engine, call[c].handle)
  /\ call' = [call EXCEPT ![c].pc = "rebuild", ![c].handle = NoEngine, ![c].built = IdleCall.built]
  /\ UNCHANGED <<files, memory, monitor, up, faults, lost>>

\* Mutant: the least recently used engine is evicted, busy or not.
evict_oldest(l) == IF l = <<>> THEN 0 ELSE 1

\* The first thread of the list without a claimed turn, or 0.
EvictIndex(l) ==
  LET idle == {i \in DOMAIN l : active[l[i]].turn = NoTurn}
  IN  IF idle = {} THEN 0 ELSE CHOOSE i \in idle : \A j \in idle : i <= j

\* enforce_lru_capacity: the index to evict, 0 below the capacity.
enforce_lru_capacity ==
  IF MaxActive = 0 \/ Cardinality(LoadedThreads) < MaxActive THEN 0 ELSE EvictIndex(lru)

\* The list after the scan: what was passed over went to the back.
Scanned(i) == IF i = 0 THEN lru ELSE SubSeq(lru, i + 1, Len(lru)) \o SubSeq(lru, 1, i - 1)

engine_publish(c) ==
  LET th == call[c].thread
      i == enforce_lru_capacity
      victim == IF i = 0 THEN NoEngine ELSE active[lru[i]].engine
  IN
  /\ call[c].pc = "publish"
  /\ threads[th] = call[c].built
  /\ active' = [x \in Thread |->
       IF x = th THEN [Unloaded EXCEPT !.engine = call[c].handle]
       ELSE IF i > 0 /\ x = lru[i] THEN Unloaded ELSE active[x]]
  /\ lru' = touch_lru(Scanned(i), th)
  /\ engine_load' = IF i = 0 THEN NoCall ELSE c
  /\ call' = [call EXCEPT ![c].pc = IF i = 0 THEN "check" ELSE "evict", ![c].victim = victim,
                           ![c].built = IdleCall.built]
  /\ UNCHANGED <<files, engine, monitor, up, faults, lost>>

\* The evicted engine is told to shut down; then the build lock is released.
engine_evict(c) ==
  /\ call[c].pc = "evict"
  /\ engine' = Sent(engine, call[c].victim, Shutdown)
  /\ engine_load' = NoCall
  /\ call' = [call EXCEPT ![c].pc = "check", ![c].victim = NoEngine]
  /\ UNCHANGED <<files, active, lru, monitor, up, faults, lost>>

--------------------------------------------------------------------------------
(* Calls: the claim.                                                       *)

\* No turn may be active, and the engine's channel must be open for a permit.
\* compact_thread also ends here when the engine was evicted meanwhile.
reserve_owned(c) ==
  LET th == call[c].thread IN
  /\ call[c].pc = "check"
  /\ \/ active[th].turn # NoTurn /\ Return(c)
     \/ engine[call[c].handle].state = "gone" /\ Return(c)
     \/ ~ Loaded(th) /\ Return(c)
     \/ /\ active[th].turn = NoTurn /\ engine[call[c].handle].state # "gone"
        /\ call' = [call EXCEPT ![c].pc = "claim"]
  /\ UNCHANGED <<files, memory, engine, monitor, up, faults, lost>>

Unused == {t \in Turn : turns[t].status = "Absent"}
NextTurn == CHOOSE t \in Unused : \A u \in Unused : t <= u

\* Mutant: the claim is not checked again after the await.
claimable_unchecked(c) == Loaded(call[c].thread)

claimable(c) ==
  LET th == call[c].thread IN
  /\ Loaded(th) /\ active[th].turn = NoTurn
  /\ threads[th] = call[c].snap

claim_refused(c) ==
  /\ call[c].pc = "claim"
  /\ ~ claimable(c)
  /\ Return(c)
  /\ UNCHANGED <<files, memory, engine, monitor, up, faults, lost>>

\* Under the active lock: claim, save item, turn and thread, send, spawn the monitor.
claim_turn(c) ==
  LET th == call[c].thread
      t == NextTurn
      e == call[c].handle
  IN
  /\ call[c].pc = "claim" /\ Unused # {}
  /\ claimable(c)
  /\ active' = [active EXCEPT ![th].turn = t, ![th].interrupt = FALSE]
  /\ turns' = [turns EXCEPT ![t] = [status |-> "InProgress", thread |-> th]]
  /\ threads' = [threads EXCEPT ![th].latest = t]
  /\ engine' = Sent(engine, e, t)
  /\ lru' = touch_lru(lru, th)
  /\ monitor' = [monitor EXCEPT ![t] = [NoMonitor EXCEPT !.pc = "recv", !.engine = e]]
  /\ Return(c)
  /\ UNCHANGED <<engine_load, up, faults, lost>>

\* A save fails: cleanup_unaccepted_turn_records, which may fail as well, and
\* the claim is taken back.
persist_failed(c) ==
  /\ call[c].pc = "claim" /\ Unused # {}
  /\ claimable(c)
  /\ Fault
  /\ \/ UNCHANGED <<turns, lost>>
     \/ /\ lost' = TRUE
        /\ turns' = [turns EXCEPT ![NextTurn] =
                       [status |-> "InProgress", thread |-> call[c].thread]]
  /\ Return(c)
  /\ UNCHANGED <<threads, memory, engine, monitor, up>>

\* The client goes away while the call awaits: its future is dropped, and with
\* it the build lock and an eviction that is not sent yet.
dropped(c) ==
  /\ call[c].pc # "idle"
  /\ engine_load' = IF engine_load = c THEN NoCall ELSE engine_load
  /\ Return(c)
  /\ UNCHANGED <<files, active, lru, engine, monitor, up, faults, lost>>

--------------------------------------------------------------------------------
(* Calls that are one critical section.                                    *)

interrupt_turn(th) ==
  /\ up /\ active[th].turn # NoTurn
  /\ active' = [active EXCEPT ![th].interrupt = TRUE]
  /\ engine' = Cancel(engine, active[th].engine)
  /\ lru' = touch_lru(lru, th)
  /\ UNCHANGED <<files, engine_load, call, monitor, up, faults, lost>>

\* update_thread: a new workspace unloads the engine, and is refused during a turn.
update_thread(th) ==
  /\ up /\ Fault
  /\ threads' = [threads EXCEPT ![th].settings = @ + 1]
  /\ \/ UNCHANGED <<active, lru, engine>>
     \/ /\ Loaded(th) /\ active[th].turn = NoTurn
        /\ active' = [active EXCEPT ![th] = Unloaded]
        /\ lru' = Without(lru, th)
        /\ engine' = Sent(engine, active[th].engine, Shutdown)
  /\ UNCHANGED <<turns, engine_load, call, monitor, up, lost>>

--------------------------------------------------------------------------------
(* The engine task.                                                        *)

\* Engine::run: the next operation, or the end of the channel when every
\* handle is gone.
engine_next(e) ==
  /\ engine[e].state = "idle"
  /\ \/ /\ engine[e].ops # <<>> /\ Head(engine[e].ops) = Shutdown
        /\ engine' = [engine EXCEPT ![e].state = "gone", ![e].ops = <<>>]
     \/ /\ engine[e].ops # <<>> /\ Head(engine[e].ops) # Shutdown
        /\ engine' = [engine EXCEPT ![e].state = "busy", ![e].running = Head(engine[e].ops),
                                    ![e].ops = Tail(@)]
     \/ /\ engine[e].ops = <<>> /\ e \notin Handles
        /\ engine' = [engine EXCEPT ![e].state = "gone"]
  /\ UNCHANGED <<files, memory, call, monitor, up, faults, lost>>

\* TurnComplete, the last event of a turn.
engine_finish(e) ==
  /\ engine[e].state = "busy"
  /\ engine' = [engine EXCEPT ![e] =
       [Unspawned EXCEPT !.state = "idle", !.ops = engine[e].ops,
                         !.events = Append(engine[e].events, engine[e].running)]]
  /\ UNCHANGED <<files, memory, call, monitor, up, faults, lost>>

\* The task panics: its channels close.
engine_dies(e) ==
  /\ engine[e].state = "busy"
  /\ Fault
  /\ engine' = [engine EXCEPT ![e] = [Unspawned EXCEPT !.state = "gone"]]
  /\ UNCHANGED <<files, memory, call, monitor, up, lost>>

--------------------------------------------------------------------------------
(* The monitor of a turn: monitor_turn, and settle_claimed_turn_failure    *)
(* when it fails.                                                          *)

At(t, pc) == monitor[t].pc = pc
Step(t, pc) == monitor' = [monitor EXCEPT ![t].pc = pc]
Finish(t) == monitor' = [monitor EXCEPT ![t] = [NoMonitor EXCEPT !.pc = "done"]]
InterruptRequested(t) == Owns(t) /\ active[turns[t].thread].interrupt

on_turn_complete(t) ==
  LET e == monitor[t].engine IN
  /\ At(t, "recv")
  /\ engine[e].events # <<>>
  /\ engine' = [engine EXCEPT ![e].events = Tail(@)]
  /\ monitor' = [monitor EXCEPT ![t].pc = "save", ![t].of = Head(engine[e].events)]
  /\ UNCHANGED <<files, memory, call, up, faults, lost>>

\* The event channel is closed and drained; with an interrupt requested that is
\* an orderly end.
on_closed(t) ==
  LET e == monitor[t].engine IN
  /\ At(t, "recv")
  /\ engine[e].state = "gone" /\ engine[e].events = <<>>
  /\ Step(t, IF InterruptRequested(t) THEN "save" ELSE "settle")
  /\ UNCHANGED <<files, memory, call, engine, up, faults, lost>>

\* The terminal record.
save_turn(t) ==
  /\ At(t, "save")
  /\ turns' = [turns EXCEPT ![t].status = "Ended"]
  /\ Step(t, "release")
  /\ UNCHANGED <<threads, memory, call, engine, up, faults, lost>>

\* save_thread and turn.completed, then the claim is given back.
release_claim(t) ==
  LET th == turns[t].thread IN
  /\ At(t, "release")
  /\ threads' = [threads EXCEPT ![th].latest = t]
  /\ active' = IF Owns(t) THEN [active EXCEPT ![th].turn = NoTurn, ![th].interrupt = FALSE] ELSE active
  /\ lru' = touch_lru(lru, th)
  /\ Finish(t)
  /\ UNCHANGED <<turns, engine_load, call, engine, up, faults, lost>>

\* A write of the monitor fails; it writes nothing before the engine has taken
\* the turn.
monitor_fails(t) ==
  /\ Fault
  /\ \/ At(t, "recv") /\ ~ Contains(engine[monitor[t].engine].ops, t)
     \/ \E pc \in {"save", "release"} : At(t, pc)
  /\ Step(t, "settle")
  /\ UNCHANGED <<files, memory, call, engine, up, lost>>

\* The engine of the turn is cancelled; only a turn in progress is ended (failed).
\* A save that fails here belongs to the fault that led here.
settle(t) ==
  /\ At(t, "settle")
  /\ engine' = Cancel(engine, monitor[t].engine)
  /\ active' = IF Owns(t) THEN [active EXCEPT ![turns[t].thread].interrupt = TRUE] ELSE active
  /\ \/ /\ turns' = IF turns[t].status = "InProgress" THEN [turns EXCEPT ![t].status = "Ended"]
                    ELSE turns
        /\ UNCHANGED lost
     \/ turns[t].status = "InProgress" /\ lost' = TRUE /\ UNCHANGED turns
  /\ Step(t, "evict")
  /\ UNCHANGED <<threads, lru, engine_load, call, up, faults>>

\* The engine in the map leaves it, so that the next turn has another event channel.
settle_evict(t) ==
  LET th == turns[t].thread IN
  /\ At(t, "evict")
  /\ IF Owns(t)
     THEN /\ active' = [active EXCEPT ![th] = Unloaded]
          /\ lru' = Without(lru, th)
          /\ engine' = Stopped(engine, active[th].engine)
     ELSE UNCHANGED <<active, lru, engine>>
  /\ Finish(t)
  /\ UNCHANGED <<files, engine_load, call, up, faults, lost>>

--------------------------------------------------------------------------------
(* Crash and recover_interrupted_state.                                    *)

Dies ==
  /\ Fault
  /\ active' = [th \in Thread |-> Unloaded] /\ lru' = <<>> /\ engine_load' = NoCall
  /\ call' = [c \in Call |-> IdleCall]
  /\ engine' = [e \in Engine |-> Unspawned]
  /\ monitor' = [t \in Turn |-> NoMonitor]
  /\ up' = FALSE
  /\ UNCHANGED lost

crash == Dies /\ UNCHANGED files

\* A crash inside the claim, behind save_turn.
crash_in_claim(c) ==
  /\ call[c].pc = "claim" /\ Unused # {} /\ claimable(c)
  /\ turns' = [turns EXCEPT ![NextTurn] = [status |-> "InProgress", thread |-> call[c].thread]]
  /\ Dies
  /\ UNCHANGED threads

\* Mutant: only the turn that the thread record names is recovered.
interrupted_latest ==
  {t \in Turn : turns[t].status = "InProgress" /\ threads[turns[t].thread].latest = t}

InterruptedTurns == {t \in Turn : turns[t].status = "InProgress"}

recover_interrupted_state ==
  /\ ~ up
  /\ \/ \E t \in InterruptedTurns :
          turns' = [turns EXCEPT ![t].status = "Ended"] /\ UNCHANGED up
     \/ InterruptedTurns = {} /\ up' = TRUE /\ UNCHANGED turns
  /\ UNCHANGED <<threads, memory, call, engine, monitor, faults, lost>>

--------------------------------------------------------------------------------
Init ==
  /\ threads = [th \in Thread |-> [latest |-> NoTurn, settings |-> 0]]
  /\ turns = [t \in Turn |-> [status |-> "Absent", thread |-> NoThread]]
  /\ active = [th \in Thread |-> Unloaded] /\ lru = <<>> /\ engine_load = NoCall
  /\ call = [c \in Call |-> IdleCall]
  /\ engine = [e \in Engine |-> Unspawned]
  /\ monitor = [t \in Turn |-> NoMonitor]
  /\ up = TRUE /\ faults = 0 /\ lost = FALSE

CallNext(c) ==
  \/ \E th \in Thread : begin(c, th)
  \/ engine_hit(c) \/ engine_stale(c) \/ engine_publish(c) \/ engine_evict(c)
  \/ \E e \in Engine : engine_build(c, e)
  \/ reserve_owned(c) \/ claim_refused(c) \/ claim_turn(c)
  \/ persist_failed(c) \/ dropped(c) \/ crash_in_claim(c)

EngineNext(e) == engine_next(e) \/ engine_finish(e)

MonitorNext(t) ==
  \/ on_turn_complete(t) \/ on_closed(t) \/ save_turn(t) \/ release_claim(t)
  \/ settle(t) \/ settle_evict(t)

Next ==
  \/ \E c \in Call : CallNext(c)
  \/ \E e \in Engine : EngineNext(e) \/ engine_dies(e)
  \/ \E t \in Turn : MonitorNext(t) \/ monitor_fails(t)
  \/ \E th \in Thread : interrupt_turn(th) \/ update_thread(th)
  \/ crash \/ recover_interrupted_state

Spec == Init /\ [][Next]_vars

--------------------------------------------------------------------------------
(* Properties.                                                             *)

Live(t) == monitor[t].pc \notin {"none", "done"}

\* No zombie: a turn that is recorded as in progress while the runtime serves
\* has a monitor and the claim of its thread, so it will end and keeps no later
\* turn out, whatever write fails, engine dies or call is dropped; only a
\* failed clean-up write may leave the record open (start_turn: a failure "must
\* not leave a zombie in-progress record behind").
NoZombieTurn ==
  up /\ ~ lost => \A t \in Turn : turns[t].status = "InProgress" => Live(t) /\ Owns(t)

\* One turn at a time: monitors and uncancelled engine runs of a thread are
\* exclusive, over evictions, reloads, failed and dropped calls.
OneTurnPerThread ==
  /\ \A t, u \in Turn : Live(t) /\ Live(u) /\ turns[t].thread = turns[u].thread => t = u
  /\ \A e, f \in Engine :
       /\ engine[e].state = "busy" /\ ~ engine[e].cancelled
       /\ engine[f].state = "busy" /\ ~ engine[f].cancelled
       /\ turns[engine[e].running].thread = turns[engine[f].running].thread
       => e = f

\* A turn ends by the report of its own run: no monitor takes the report of an
\* earlier, failed turn that is left in an event channel for its own
\* (settle_claimed_turn_failure: "so the next turn gets a distinct event
\* receiver and cannot consume stale terminal events").
OwnReport == \A t \in Turn : monitor[t].of \in {NoTurn, t}

\* The eviction order lists exactly the loaded threads, once each, and no
\* thread with a claimed turn loses its engine.
LruExact ==
  /\ Len(lru) = Cardinality(LoadedThreads) /\ ToSet(lru) = LoadedThreads
  /\ \A th \in Thread : active[th].turn # NoTurn => Loaded(th)
================================================================================
