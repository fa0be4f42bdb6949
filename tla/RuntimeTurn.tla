------------------------------- MODULE RuntimeTurn ------------------------------
(***************************************************************************)
(* One thread of crates/tui/src/runtime_threads.rs from the inside of a    *)
(* turn: the engine (core/engine.rs, core/engine/turn_loop.rs) streams     *)
(* events into a channel; the monitor of the turn turns them into item     *)
(* files and asks the client for approvals over a oneshot with a timeout;  *)
(* an interrupt, a failing write, a dying engine or a crash may fall       *)
(* between any two of these steps.  The claim that makes turns exclusive   *)
(* and the map of engines are module RuntimeThreads.                       *)
(***************************************************************************)
EXTENDS Naturals, Sequences

CONSTANTS
  Capacity,     \* events the channel holds; the engine waits while it is full
  MaxTurns,     \* bound: turns, one after the other
  MaxItems,     \* bound: messages and tool calls a turn starts
  MaxStreams,   \* bound: model requests of a turn, repeated or following tools
  MaxErrors,    \* bound: writes that fail, and engines that die
  MaxCrashes    \* bound: crashes of the process

ASSUME TurnAssumption ==
  {Capacity, MaxTurns, MaxItems, MaxStreams, MaxErrors, MaxCrashes} \subseteq Nat

\* What a turn starts, numbered in the order the engine announces it: a text block
\* or a tool call.  The monitor makes one item of each start event.
Item == 1 .. MaxItems
Outcome == {"Completed", "Failed", "Interrupted"}

VARIABLES
  n,         \* number of the current turn
  turn,      \* file: TurnRecord (status, item_ids)
  item,      \* files: TurnItemRecords of the turn
  thread,    \* file: ThreadRecord.auto_approve
  claim,     \* ActiveTurnState (held, interrupt_requested, auto_approve)
  engine,    \* the engine task: pc, cancel token and locals of handle_deepseek_turn
  child,     \* a sub-agent runs, with a clone of tx_event
  events,    \* tx_event / rx_event
  approvals, \* tx_approval / rx_approval
  monitor,   \* monitor_turn and settle_claimed_turn_failure: pc and local state
  reply,     \* the oneshot of the pending approval
  ended,     \* turn.completed events of the turn
  up, errors, crashes,
  hist       \* history: see NoHistory

records == <<turn, item, thread>>
channels == <<events, approvals, reply>>
faults == <<up, errors, crashes>>
vars == <<n, records, claim, engine, child, channels, monitor, ended, faults, hist>>

NoRecord == [status |-> "Absent", item_ids |-> {}]
Unclaimed == [held |-> FALSE, interrupt |-> FALSE, auto |-> FALSE]

\* failing: turn_error is set; calls: tool_uses of the stream that are not done;
\* pending: pending_message_complete; made, streams: counters of the bounds.
IdleEngine == [pc |-> "idle", cancelled |-> FALSE, failing |-> FALSE, pending |-> FALSE,
               calls |-> {}, asking |-> 0, made |-> 0, streams |-> 0]

\* message: current_message_item; tools: tool_items; on: the item or the question
\* at hand.
NoMonitor == [pc |-> "none", on |-> 0, message |-> 0, tools |-> {}, active |-> FALSE,
              failed |-> FALSE, status |-> "Completed"]

\* yes, ran: the calls that asked which the client allowed, and which ran; always:
\* the client allowed every later call; error: the engine sent an Error; live: its
\* last message, unless it has ended; dropped: messages and calls the engine gave
\* up; report: how it says the turn ended; lost: a write failed behind the terminal
\* record or in the clean-up.
NoHistory == [yes |-> {}, ran |-> {}, always |-> FALSE, error |-> FALSE, live |-> 0,
              dropped |-> {}, report |-> "none", lost |-> FALSE]

Fault == errors < MaxErrors /\ errors' = errors + 1

--------------------------------------------------------------------------------
(* The claim and the interrupt.                                            *)

\* start_turn, as RuntimeThreads details it: claim, records, operation, monitor.
\* An engine that is gone refuses the operation.
start_turn ==
  /\ up /\ ~ claim.held /\ n < MaxTurns
  /\ engine.pc = "idle"
  /\ n' = n + 1
  /\ turn' = [status |-> "InProgress", item_ids |-> {}]
  /\ item' = [i \in Item |-> "Absent"]
  /\ claim' = [held |-> TRUE, interrupt |-> FALSE, auto |-> thread]
  /\ engine' = [IdleEngine EXCEPT !.pc = "queued"]
  /\ monitor' = [NoMonitor EXCEPT !.pc = "recv"]
  /\ ended' = 0
  /\ hist' = [NoHistory EXCEPT !.always = hist.always]
  /\ UNCHANGED <<thread, child, channels, faults>>

\* The token of the turn that runs; handle_send_message resets it for the next.
Cancelled == [engine EXCEPT !.cancelled = (engine.pc \in {"stream", "tools", "wait"})]

interrupt_turn ==
  /\ claim.held /\ ~ claim.interrupt
  /\ claim' = [claim EXCEPT !.interrupt = TRUE]
  /\ engine' = Cancelled
  /\ UNCHANGED <<n, records, child, channels, monitor, ended, faults, hist>>

--------------------------------------------------------------------------------
(* The engine.                                                             *)

Event(e, i) == [type |-> e, id |-> i]
Emit(e, i) == Len(events) < Capacity /\ events' = Append(events, Event(e, i))
EngineOnly == UNCHANGED <<n, records, claim, child, approvals, reply, monitor, ended, faults>>

\* Engine::run takes the operation.
engine_take ==
  /\ engine.pc = "queued"
  /\ engine' = [IdleEngine EXCEPT !.pc = "stream", !.streams = 1]
  /\ UNCHANGED <<events, hist>> /\ EngineOnly

\* MessageStarted, for every text block; the stream may break before its end.
engine_message ==
  /\ engine.pc = "stream" /\ engine.made < MaxItems
  /\ \E p \in {engine.pending, TRUE} :
       engine' = [engine EXCEPT !.made = @ + 1, !.pending = p]
  /\ Emit("message", engine.made + 1)
  /\ hist' = [hist EXCEPT !.live = engine.made + 1, !.dropped = @ \cup ({hist.live} \ {0})]
  /\ EngineOnly

\* A tool call of the stream; ToolCallStarted, unless the stream breaks inside it.
engine_tool ==
  /\ engine.pc = "stream" /\ engine.made < MaxItems
  /\ engine' = [engine EXCEPT !.made = @ + 1, !.calls = @ \cup {engine.made + 1}]
  /\ Emit("tool", engine.made + 1) \/ UNCHANGED events
  /\ UNCHANGED hist /\ EngineOnly

\* Error: the turn has failed, unless the request is repeated.
engine_error ==
  /\ engine.pc = "stream" /\ ~ engine.failing
  /\ engine' = [engine EXCEPT !.failing = TRUE]
  /\ Emit("error", 0)
  /\ hist' = [hist EXCEPT !.error = TRUE]
  /\ EngineOnly

\* One MessageComplete for all text blocks of the stream that have ended.
MessageComplete(dropped) ==
  /\ IF engine.pending THEN Emit("message_done", 0) ELSE UNCHANGED events
  /\ hist' = [hist EXCEPT !.live = IF engine.pending THEN 0 ELSE @, !.dropped = @ \cup dropped]

engine_stream_end ==
  /\ engine.pc = "stream"
  /\ engine' = [engine EXCEPT !.pc = "tools", !.pending = FALSE]
  /\ MessageComplete({})
  /\ EngineOnly

\* The host slept in the middle of the stream, or it broke with nothing in it: the
\* request is repeated, what it announced is dropped and its error forgotten.
engine_retry ==
  /\ engine.pc = "stream" /\ ~ engine.cancelled /\ engine.streams < MaxStreams
  /\ engine' = [engine EXCEPT !.streams = @ + 1, !.calls = {}, !.failing = FALSE, !.pending = FALSE]
  /\ MessageComplete(engine.calls)
  /\ EngineOnly

\* The loop goes on with the next request.
engine_next_step ==
  /\ engine.pc = "tools" /\ engine.calls = {}
  /\ ~ engine.cancelled /\ engine.streams < MaxStreams
  /\ engine' = [engine EXCEPT !.pc = "stream", !.streams = @ + 1]
  /\ UNCHANGED <<events, hist>> /\ EngineOnly

\* ApprovalRequired, then await_tool_approval.
engine_ask ==
  /\ engine.pc = "tools"
  /\ \E c \in engine.calls :
       /\ engine' = [engine EXCEPT !.pc = "wait", !.asking = c]
       /\ Emit("approval", c)
  /\ UNCHANGED hist /\ EngineOnly

\* ToolCallComplete.
ToolDone(c) ==
  /\ engine' = [engine EXCEPT !.pc = "tools", !.calls = @ \ {c}, !.asking = 0]
  /\ Emit("tool_done", c)

\* A tool that needs no approval.
engine_tool_done ==
  /\ engine.pc = "tools"
  /\ \E c \in engine.calls : ToolDone(c)
  /\ UNCHANGED hist /\ EngineOnly

\* Mutant: whatever decision comes first is taken for this tool.
verdict_any(d) == d.id > 0

\* A decision is for this tool when it bears its id.
verdict_matches(d) == d.turn = n /\ d.id = engine.asking

\* await_tool_approval: decisions for other tools are skipped.  A tool that is
\* allowed runs, unless the turn is cancelled by then.
engine_verdict ==
  /\ engine.pc = "wait" /\ approvals # <<>>
  /\ approvals' = Tail(approvals)
  /\ LET d == Head(approvals) IN
     IF verdict_matches(d)
     THEN /\ ToolDone(engine.asking)
          /\ hist' = IF d.allow /\ ~ engine.cancelled
                     THEN [hist EXCEPT !.ran = @ \cup {engine.asking}] ELSE hist
     ELSE UNCHANGED <<engine, events, hist>>
  /\ UNCHANGED <<n, records, claim, child, reply, monitor, ended, faults>>

\* The wait is cancelled: the tool does not run.
engine_wait_cancelled ==
  /\ engine.pc = "wait" /\ engine.cancelled
  /\ ToolDone(engine.asking)
  /\ UNCHANGED hist /\ EngineOnly

\* TurnComplete.  The loop is left with success only behind a stream whose calls are
\* done and with no error kept; a pause stops before the tools; a panic or a stuck
\* loop fails anywhere.  A token cancelled behind the last check changes nothing.
engine_finish(s) ==
  /\ engine.pc \in {"stream", "tools", "wait"}
  /\ s = "Interrupted" => \/ engine.cancelled /\ engine.pc # "wait"
                          \/ engine.pc = "tools" /\ engine.calls # {}
  /\ s = "Completed" => engine.pc = "tools" /\ engine.calls = {} /\ ~ engine.failing
  /\ engine' = IdleEngine
  /\ Emit(s, 0)
  /\ hist' = [hist EXCEPT !.report = s]
  /\ EngineOnly

\* The task panics outside of the turn loop.
engine_dies ==
  /\ engine.pc \in {"stream", "tools", "wait"}
  /\ Fault
  /\ engine' = [IdleEngine EXCEPT !.pc = "gone"]
  /\ UNCHANGED <<n, records, claim, child, channels, monitor, ended, up, crashes, hist>>

\* A tool starts a sub-agent that outlives its turn; its steps are limited and have
\* time limits.
spawn_child ==
  /\ engine.pc = "tools" /\ ~ child
  /\ child' = TRUE
  /\ UNCHANGED <<n, records, claim, engine, channels, monitor, ended, faults, hist>>

child_ends ==
  /\ child
  /\ child' = FALSE
  /\ UNCHANGED <<n, records, claim, engine, channels, monitor, ended, faults, hist>>

--------------------------------------------------------------------------------
(* monitor_turn: one event at a time.                                      *)

At(pc) == monitor.pc = pc
Goto(pc) == monitor' = [monitor EXCEPT !.pc = pc]
MonitorOnly == UNCHANGED <<n, thread, claim, engine, child, approvals, reply, ended, faults, hist>>
Recv(e, i) ==
  /\ At("recv") /\ events # <<>> /\ Head(events) = Event(e, i)
  /\ events' = Tail(events)

\* A start event: the item is saved first; a tool call is noted before ...
on_item_started(e, i) ==
  /\ Recv(e, i)
  /\ item' = [item EXCEPT ![i] = "InProgress"]
  /\ monitor' = [monitor EXCEPT !.pc = "attach", !.on = i, !.active = TRUE,
                                !.tools = IF e = "tool" THEN @ \cup {i} ELSE @]
  /\ UNCHANGED turn /\ MonitorOnly

\* Mutant: the message is not noted as the current one.
attach_item_only ==
  /\ At("attach")
  /\ turn' = [turn EXCEPT !.item_ids = @ \cup {monitor.on}]
  /\ Goto("recv")
  /\ UNCHANGED <<item, events>> /\ MonitorOnly

\* ... then it is listed in its turn; item.started follows, and a message replaces
\* the current one.
attach_item_to_turn ==
  /\ At("attach")
  /\ turn' = [turn EXCEPT !.item_ids = @ \cup {monitor.on}]
  /\ monitor' = [monitor EXCEPT !.pc = "recv",
                                !.message = IF monitor.on \in monitor.tools THEN @ ELSE monitor.on]
  /\ UNCHANGED <<item, events>> /\ MonitorOnly

\* MessageComplete closes the current message, if there is one.
on_message_complete ==
  /\ Recv("message_done", 0)
  /\ item' = IF monitor.message = 0 THEN item ELSE [item EXCEPT ![monitor.message] = "Completed"]
  /\ monitor' = [monitor EXCEPT !.message = 0, !.active = TRUE]
  /\ UNCHANGED turn /\ MonitorOnly

\* ToolCallComplete closes the call's item, if known; the tool may have failed.
on_tool_complete(i) ==
  /\ Recv("tool_done", i)
  /\ IF i \in monitor.tools
     THEN \E s \in {"Completed", "Failed"} : item' = [item EXCEPT ![i] = s]
     ELSE UNCHANGED item
  /\ monitor' = [monitor EXCEPT !.tools = @ \ {i}, !.active = TRUE]
  /\ UNCHANGED turn /\ MonitorOnly

\* Error: the turn has failed, whatever TurnComplete will say.
on_error ==
  /\ Recv("error", 0)
  /\ monitor' = [monitor EXCEPT !.failed = TRUE, !.active = TRUE]
  /\ UNCHANGED <<turn, item>> /\ MonitorOnly

\* approve_tool_call, deny_tool_call: an engine that is gone does not read.
Decide(i, ok) ==
  approvals' = IF engine.pc = "gone" THEN approvals
               ELSE Append(approvals, [turn |-> n, id |-> i, allow |-> ok])

\* ApprovalRequired: decided at once under auto_approve, which the client's word for
\* the thread stands behind, else the client is asked.
on_approval(i) ==
  /\ Recv("approval", i)
  /\ \/ /\ claim.auto
        /\ Decide(i, TRUE)
        /\ hist' = [hist EXCEPT !.yes = IF hist.always THEN @ \cup {i} ELSE @]
        /\ monitor' = [monitor EXCEPT !.active = TRUE]
     \/ /\ ~ claim.auto
        /\ monitor' = [monitor EXCEPT !.pc = "approve", !.on = i, !.active = TRUE]
        /\ UNCHANGED <<approvals, hist>>
  /\ UNCHANGED <<n, records, claim, engine, child, reply, ended, faults>>

\* deliver_external_approval: the sender is taken from pending_approvals once.
deliver_external_approval(v) ==
  /\ At("approve") /\ reply = "none"
  /\ reply' = v
  /\ hist' = [hist EXCEPT !.yes = IF v = "deny" THEN @ ELSE @ \cup {monitor.on},
                          !.always = @ \/ v = "remember"]
  /\ UNCHANGED <<n, records, claim, engine, child, events, approvals, monitor, ended, faults>>

\* The decision arrived: remember_thread_auto_approve, then the engine is told.
on_decision ==
  /\ At("approve") /\ reply # "none"
  /\ Decide(monitor.on, reply # "deny")
  /\ thread' = (thread \/ reply = "remember")
  /\ claim' = [claim EXCEPT !.auto = @ \/ reply = "remember"]
  /\ reply' = "none"
  /\ Goto("recv")
  /\ UNCHANGED <<n, turn, item, engine, child, events, ended, faults, hist>>

\* Mutant: the approval waits for its client without a limit.
on_timeout_never == At("approve") /\ reply # "none" /\ UNCHANGED vars

\* No answer in time: cancel_pending_approval, and the tool is denied.
on_timeout ==
  /\ At("approve") /\ reply = "none"
  /\ Decide(monitor.on, FALSE)
  /\ Goto("recv")
  /\ UNCHANGED <<n, records, claim, engine, child, events, reply, ended, faults, hist>>

--------------------------------------------------------------------------------
(* monitor_turn: the end.                                                  *)

\* Mutant: the report of the engine replaces the error.
reported_last(s) == s

\* An Error event stays authoritative over a report of success.
reported_status(s) == IF monitor.failed /\ s = "Completed" THEN "Failed" ELSE s

on_turn_complete(s) ==
  /\ Recv(s, 0)
  /\ monitor' = [monitor EXCEPT !.pc = "status", !.status = reported_status(s)]
  /\ UNCHANGED <<turn, item>> /\ MonitorOnly

\* The event channel is closed, by the engine and by every sub-agent, and drained.
on_closed ==
  /\ At("recv") /\ engine.pc = "gone" /\ ~ child /\ events = <<>>
  /\ IF claim.interrupt
     THEN monitor' = [monitor EXCEPT !.pc = "status", !.status = "Interrupted"]
     ELSE Goto("settle")
  /\ UNCHANGED <<turn, item, events>> /\ MonitorOnly

\* An interrupt requested by now wins.
turn_status ==
  /\ At("status")
  /\ monitor' = [monitor EXCEPT !.pc = "close", !.status = IF claim.interrupt THEN "Interrupted" ELSE @]
  /\ UNCHANGED <<turn, item, events>> /\ MonitorOnly

\* The current message is closed; a turn without any activity has failed.
close_items ==
  /\ At("close")
  /\ item' = IF monitor.message = 0 THEN item
             ELSE [item EXCEPT ![monitor.message] =
                     IF monitor.status = "Interrupted" THEN "Interrupted" ELSE "Completed"]
  /\ monitor' = [monitor EXCEPT !.pc = "save", !.status =
                   IF @ = "Completed" /\ ~ monitor.active THEN "Failed" ELSE @]
  /\ UNCHANGED <<turn, events>> /\ MonitorOnly

save_turn ==
  /\ At("save")
  /\ turn' = [turn EXCEPT !.status = monitor.status]
  /\ Goto("publish")
  /\ UNCHANGED <<item, events>> /\ MonitorOnly

\* save_thread, then turn.completed.
emit_completed ==
  /\ At("publish")
  /\ ended' = ended + 1
  /\ Goto("release")
  /\ UNCHANGED <<n, records, claim, engine, child, channels, faults, hist>>

release_claim ==
  /\ At("release")
  /\ claim' = Unclaimed
  /\ monitor' = NoMonitor
  /\ UNCHANGED <<n, records, engine, child, channels, ended, faults, hist>>

\* A write fails and monitor_turn returns.  Before the engine has taken the turn
\* there is nothing to write.
monitor_fails ==
  /\ Fault
  /\ \/ At("recv") /\ events # <<>>
     \/ \E pc \in {"attach", "close", "save", "publish"} : At(pc)
  /\ monitor' = [monitor EXCEPT !.pc = "settle"]
  /\ hist' = [hist EXCEPT !.lost = At("publish")]
  /\ UNCHANGED <<n, records, claim, engine, child, channels, ended, up, crashes>>

--------------------------------------------------------------------------------
(* settle_claimed_turn_failure.                                            *)

\* The engine is cancelled, steering is blocked, the open items fail.  A write
\* that fails is logged and passed over.
settle_items ==
  /\ At("settle")
  /\ engine' = Cancelled
  /\ claim' = [claim EXCEPT !.interrupt = TRUE]
  /\ \/ /\ item' = [i \in Item |-> IF item[i] = "InProgress" THEN "Failed" ELSE item[i]]
        /\ UNCHANGED <<errors, hist>>
     \/ /\ \E i \in Item : item[i] = "InProgress"
        /\ Fault /\ hist' = [hist EXCEPT !.lost = TRUE]
        /\ UNCHANGED item
  /\ Goto("settle_turn")
  /\ UNCHANGED <<n, turn, thread, child, channels, ended, up, crashes>>

\* Mutant: a turn that has ended fails as well.
settle_any == turn.status # "Absent"

settle_applies == turn.status = "InProgress"

\* Only a turn in progress fails, and only then is its end announced.
settle_turn ==
  /\ At("settle_turn")
  /\ \/ /\ settle_applies
        /\ turn' = [turn EXCEPT !.status = "Failed"]
        /\ Goto("settle_announce")
        /\ UNCHANGED <<errors, hist>>
     \/ /\ ~ settle_applies
        /\ Goto("evict")
        /\ UNCHANGED <<turn, errors, hist>>
     \/ /\ settle_applies
        /\ Fault /\ hist' = [hist EXCEPT !.lost = TRUE]
        /\ Goto("evict")
        /\ UNCHANGED turn
  /\ UNCHANGED <<n, item, thread, claim, engine, child, channels, ended, up, crashes>>

settle_announce ==
  /\ At("settle_announce")
  /\ \/ ended' = ended + 1 /\ UNCHANGED <<errors, hist>>
     \/ Fault /\ hist' = [hist EXCEPT !.lost = TRUE] /\ UNCHANGED ended
  /\ Goto("evict")
  /\ UNCHANGED <<n, records, claim, engine, child, channels, up, crashes>>

\* The engine leaves the map; the next turn gets a new one with new channels.
settle_evict ==
  /\ At("evict")
  /\ claim' = Unclaimed
  /\ monitor' = NoMonitor
  /\ engine' = IdleEngine /\ child' = FALSE
  /\ events' = <<>> /\ approvals' = <<>>
  /\ UNCHANGED <<n, records, reply, ended, faults, hist>>

--------------------------------------------------------------------------------
(* Crash and recover_interrupted_state.                                    *)

crash ==
  /\ crashes < MaxCrashes /\ crashes' = crashes + 1
  /\ up' = FALSE
  /\ claim' = Unclaimed /\ monitor' = NoMonitor /\ engine' = IdleEngine /\ child' = FALSE
  /\ events' = <<>> /\ approvals' = <<>> /\ reply' = "none"
  /\ UNCHANGED <<n, records, ended, errors, hist>>

\* The turn is saved as interrupted, then the open items it lists.
recover_turn ==
  /\ ~ up /\ At("none")
  /\ IF turn.status = "InProgress"
     THEN /\ turn' = [turn EXCEPT !.status = "Interrupted"]
          /\ Goto("recover")
          /\ UNCHANGED up
     ELSE up' = TRUE /\ UNCHANGED <<turn, monitor>>
  /\ UNCHANGED <<n, item, thread, claim, engine, child, channels, ended, errors, crashes, hist>>

recover_items ==
  /\ ~ up /\ At("recover")
  /\ item' = [i \in Item |-> IF i \in turn.item_ids /\ item[i] = "InProgress"
                             THEN "Interrupted" ELSE item[i]]
  /\ up' = TRUE /\ monitor' = NoMonitor
  /\ UNCHANGED <<n, turn, thread, claim, engine, child, channels, ended, errors, crashes, hist>>

--------------------------------------------------------------------------------
Init ==
  /\ n = 0 /\ turn = NoRecord /\ item = [i \in Item |-> "Absent"] /\ thread = FALSE
  /\ claim = Unclaimed /\ engine = IdleEngine /\ child = FALSE
  /\ events = <<>> /\ approvals = <<>> /\ reply = "none"
  /\ monitor = NoMonitor /\ ended = 0
  /\ up = TRUE /\ errors = 0 /\ crashes = 0
  /\ hist = NoHistory

EngineNext ==
  \/ engine_take \/ engine_message \/ engine_tool \/ engine_error
  \/ engine_stream_end \/ engine_retry \/ engine_next_step
  \/ engine_ask \/ engine_tool_done \/ engine_verdict \/ engine_wait_cancelled
  \/ \E s \in Outcome : engine_finish(s)

MonitorNext ==
  \/ \E i \in Item : \/ \E e \in {"message", "tool"} : on_item_started(e, i)
                     \/ on_tool_complete(i) \/ on_approval(i)
  \/ attach_item_to_turn \/ on_message_complete
  \/ on_error \/ on_decision \/ on_timeout
  \/ \E s \in Outcome : on_turn_complete(s)
  \/ on_closed \/ turn_status \/ close_items \/ save_turn \/ emit_completed \/ release_claim
  \/ settle_items \/ settle_turn \/ settle_announce \/ settle_evict

Next ==
  \/ start_turn \/ interrupt_turn
  \/ EngineNext \/ engine_dies \/ spawn_child \/ child_ends
  \/ MonitorNext \/ monitor_fails
  \/ \E v \in {"allow", "remember", "deny"} : deliver_external_approval(v)
  \/ crash \/ recover_turn \/ recover_items

Spec == Init /\ [][Next]_vars

\* The engine ends its turn (its stream and tools have time limits), the monitor
\* is a task of its own, an approval has a timeout, and a sub-agent ends (its steps
\* are limited and have time limits): nothing is assumed of clients.
FairSpec ==
  /\ Spec
  /\ WF_vars(EngineNext) /\ WF_vars(MonitorNext) /\ WF_vars(child_ends)
  /\ WF_vars(recover_turn) /\ WF_vars(recover_items)

--------------------------------------------------------------------------------
(* Properties.                                                             *)

\* The state has its shape.
TypeOK ==
  /\ turn \in [status : {"Absent", "InProgress"} \cup Outcome, item_ids : SUBSET Item]
  /\ item \in [Item -> {"Absent", "InProgress"} \cup Outcome]
  /\ claim \in [held : BOOLEAN, interrupt : BOOLEAN, auto : BOOLEAN]
  /\ engine.calls \subseteq 1 .. engine.made /\ monitor.tools \subseteq Item
  /\ reply \in {"none", "allow", "remember", "deny"}

Terminal == turn.status \in Outcome

\* A turn whose engine sent an Error is never recorded as completed, although the
\* engine itself may forget the error, repeat its request and report success.
ErrorIsFinal == turn.status = "Completed" => ~ hist.error

\* A completed turn is in order: what it started is listed in its record, and is
\* closed unless the engine itself gave it up (a call announced by a stream that was
\* repeated, a message replaced before its end).
CompletedIsClean ==
  turn.status = "Completed" =>
    \A i \in Item : item[i] # "Absent" =>
      /\ i \in turn.item_ids
      /\ item[i] \in Outcome \/ i \in hist.dropped

\* A tool that asked for approval runs only when the client said yes to that
\* tool, or to every tool of the thread before: not after a timeout, and not by
\* a late answer to an earlier tool that is still in the engine's channel.
NoToolWithoutApproval == hist.ran \subseteq hist.yes

\* What turn_loop.rs says of the repeated request: "a successful retry should not
\* surface the transient error as the turn outcome".  Nothing else fails here.
RetrySucceeds ==
  turn.status = "Failed" /\ errors = 0 /\ hist.error => hist.report # "Completed"

\* A turn ends once: its terminal record never changes again, and turn.completed
\* is announced at most once, of a turn whose record is terminal.
EndsOnce ==
  [][/\ (n' = n /\ Terminal => turn' = turn)
     /\ (ended' > ended => Terminal /\ ended = 0)]_vars

\* Every turn reaches a terminal record and its end is announced, whatever
\* clients do and whether the engine dies or a write fails; only a crash, a write
\* that fails behind the terminal record, or one that fails in the clean-up, may
\* keep the end from being announced.
EndAnnounced ==
  claim.held ~>
    \/ ~ claim.held /\ Terminal /\ ended = 1
    \/ crashes > 0 \/ hist.lost
================================================================================
