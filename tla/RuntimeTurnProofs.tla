--------------------------- MODULE RuntimeTurnProofs ---------------------------
(***************************************************************************)
(* Proofs about RuntimeTurn for every number of turns, streams and items,  *)
(* failing writes, dying engines and crashes.                              *)
(*                                                                         *)
(* The argument: where the monitor stands tells what the record and the    *)
(* announcements of the turn are (Lifecycle); the report of the engine is  *)
(* the last event of its channel, so that nothing of a turn is left for    *)
(* the next one (Channel); a decision in the engine's channel that allows  *)
(* a call of this turn was preceded by the client's consent to this very   *)
(* call, and those of earlier turns bear older numbers (Consents); an      *)
(* Error the engine sent is in the channel until the monitor has noted it, *)
(* whatever the engine itself forgets (Blame).  On top of this, Accounts:  *)
(* every open item is one the monitor will hear the end of, or one the     *)
(* engine gave up.                                                         *)
(***************************************************************************)
EXTENDS RuntimeTurn, TLAPS

EventType ==
  {"message", "message_done", "tool", "tool_done", "error", "approval"} \cup Outcome
Events == [type : EventType, id : Nat]
Consent == {"allow", "remember"}
Reading == {"recv", "attach", "approve"}
Ending == {"status", "close", "save"}
Working == Reading \cup Ending
Settling == {"settle", "settle_turn"}
Drained == Ending \cup {"publish", "release", "none", "recover"}
MonitorPc == Working \cup Settling \cup Drained \cup {"settle_announce", "evict"}
Streaming == {"stream", "tools", "wait"}

TurnState == [status : {"Absent", "InProgress"} \cup Outcome, item_ids : SUBSET Nat]
ClaimState == [held : BOOLEAN, interrupt : BOOLEAN, auto : BOOLEAN]
EngineState ==
  [pc : Streaming \cup {"idle", "queued", "gone"}, cancelled : BOOLEAN, failing : BOOLEAN,
   pending : BOOLEAN, calls : SUBSET Nat, asking : Nat, made : Nat, streams : Nat]
Decision == [turn : Nat, id : Nat, allow : BOOLEAN]
MonitorState ==
  [pc : MonitorPc, on : Nat, message : Nat, tools : SUBSET Nat, active : BOOLEAN,
   failed : BOOLEAN, status : Outcome]
History ==
  [yes : SUBSET Nat, ran : SUBSET Nat, always : BOOLEAN, error : BOOLEAN, live : Nat,
   dropped : SUBSET Nat, report : Outcome \cup {"none"}, lost : BOOLEAN]

\* What the steps rely on; the counters of the bounds play no part.
Shape ==
  /\ n \in Nat /\ ended \in Nat /\ thread \in BOOLEAN
  /\ turn \in TurnState
  /\ claim \in ClaimState
  /\ engine \in EngineState
  /\ events \in Seq(Events)
  /\ approvals \in Seq(Decision)
  /\ monitor \in MonitorState
  /\ reply \in Consent \cup {"none", "deny"}
  /\ hist \in History

\* The record and the announcements of the turn, by the place of the monitor.
Lifecycle ==
  /\ monitor.pc \in Working => turn.status = "InProgress" /\ ended = 0
  /\ monitor.pc \in Settling => turn.status # "Absent" /\ ended = 0
  /\ monitor.pc \in {"publish", "settle_announce"} => Terminal /\ ended = 0
  /\ ~ up => monitor.pc \in {"none", "recover"}
  /\ claim.held <=> monitor.pc \notin {"none", "recover"}

\* The report comes last, and the monitor leaves nothing behind it.
Channel ==
  /\ engine.pc = "queued" => events = <<>>
  /\ \A i \in 1 .. Len(events) :
       events[i].type \in Outcome => i = Len(events) /\ engine.pc \in {"idle", "gone"}
  /\ monitor.pc \in Drained => events = <<>> /\ engine.pc \in {"idle", "gone"}

\* A yes is the client's, and bears the turn and the call it was said to.
Consents ==
  /\ \A i \in 1 .. Len(approvals) : approvals[i].turn <= n
  /\ \A i \in 1 .. Len(approvals) :
       approvals[i].turn = n /\ approvals[i].allow => approvals[i].id \in hist.yes
  /\ reply # "none" => At("approve")
  /\ reply \in Consent => monitor.on \in hist.yes
  /\ claim.auto \/ thread \/ reply = "remember" => hist.always
  /\ hist.ran \subseteq hist.yes

Pending(e) == \E i \in 1 .. Len(events) : events[i].type = e

\* An error is in the channel until the monitor has noted it.
Blame ==
  /\ monitor.pc \in Reading /\ hist.error => monitor.failed \/ Pending("error")
  /\ monitor.pc \in Ending /\ hist.error => monitor.status # "Completed"
  /\ turn.status = "Completed" => ~ hist.error /\ engine.pc \in {"idle", "gone"}

\* The inductive invariant.
IInv == Shape /\ Lifecycle /\ Channel /\ Consents /\ Blame

--------------------------------------------------------------------------------
(* Initial states, and what the channels do.                               *)

\* What is numbered is numbered by naturals.
LEMMA ItemIsNat == Item \subseteq Nat
BY TurnAssumption DEF Item

\* Before the turn starts nothing is running, sent or asked.
LEMMA InitHolds == Init => IInv
<1> SUFFICES ASSUME Init PROVE IInv
  OBVIOUS
<1>1. n \in Nat /\ ended \in Nat /\ thread \in BOOLEAN /\ turn \in TurnState /\ claim \in ClaimState
  BY DEF Init, TurnState, ClaimState, NoRecord, Unclaimed, Outcome
<1>2. engine \in EngineState /\ events \in Seq(Events) /\ approvals \in Seq(Decision)
  BY DEF Init, EngineState, IdleEngine
<1>3. monitor \in MonitorState
  BY DEF Init, MonitorState, MonitorPc, Drained, Outcome, NoMonitor
<1>4. reply \in Consent \cup {"none", "deny"} /\ hist \in History
  BY DEF Init, History, NoHistory
<1>5. Shape
  BY <1>1, <1>2, <1>3, <1>4 DEF Shape
<1>6. Lifecycle /\ Channel
  BY DEF Init, Lifecycle, Channel, Working, Reading, Ending, Settling, NoRecord, Unclaimed, IdleEngine,
     NoMonitor
<1>7. Consents /\ Blame
  BY DEF Init, Consents, Blame, At, Reading, Ending, Consent, NoRecord, Unclaimed, IdleEngine,
     NoMonitor, NoHistory
<1>8. QED
  BY <1>5, <1>6, <1>7 DEF IInv

\* An event is received: the others move up by one place (rx_event.recv).
LEMMA Received ==
  ASSUME Shape, NEW e, NEW k, Recv(e, k)
  PROVE  /\ events' \in Seq(Events)
         /\ Len(events) \in Nat /\ Len(events') \in Nat
         /\ Len(events) = Len(events') + 1
         /\ events[1].type = e
         /\ \A i \in 1 .. Len(events') : events'[i] = events[i + 1]
<1>1. Head(events) = Event(e, k) /\ Event(e, k).type = e
  BY DEF Recv, Event
<1>2. QED
  BY <1>1 DEF Shape, Recv

\* An event is sent: it is the last one.
LEMMA Emitted ==
  ASSUME Shape, NEW e \in EventType, NEW k \in Nat, Emit(e, k)
  PROVE  /\ events' \in Seq(Events)
         /\ Len(events) \in Nat
         /\ Len(events') = Len(events) + 1
         /\ events'[Len(events')].type = e
         /\ \A i \in 1 .. Len(events) : events'[i] = events[i]
<1>1. Event(e, k) \in Events /\ Event(e, k).type = e
  BY DEF Event, Events
<1>2. events' = Append(events, Event(e, k))
  BY DEF Emit
<1>3. QED
  BY <1>1, <1>2 DEF Shape

\* A decision is sent: it bears the number of this turn and of the call
\* (approve_tool_call, deny_tool_call).
LEMMA Decided ==
  ASSUME Shape, NEW k \in Nat, NEW ok \in BOOLEAN, Decide(k, ok)
  PROVE  /\ approvals' \in Seq(Decision)
         /\ \A i \in 1 .. Len(approvals') :
              \/ i \in 1 .. Len(approvals) /\ approvals'[i] = approvals[i]
              \/ approvals'[i].turn = n /\ approvals'[i].id = k /\ approvals'[i].allow = ok
<1>1. CASE engine.pc = "gone"
  BY <1>1 DEF Shape, Decide
<1>2. CASE engine.pc # "gone"
  <2>1. PICK d : d = [turn |-> n, id |-> k, allow |-> ok]
    OBVIOUS
  <2>2. d \in Decision /\ d.turn = n /\ d.id = k /\ d.allow = ok
    BY <2>1 DEF Shape, Decision
  <2>3. approvals' = Append(approvals, d)
    BY <1>2, <2>1 DEF Decide
  <2>4. QED
    BY <2>2, <2>3 DEF Shape
<1>3. QED
  BY <1>1, <1>2

\* The token of the engine is set or not.
LEMMA CancelledTyped == Shape => Cancelled \in EngineState /\ Cancelled.pc = engine.pc
<1>1. (engine.pc \in Streaming) \in BOOLEAN
  OBVIOUS
<1>2. QED
  BY <1>1 DEF Shape, Cancelled, EngineState, Streaming

--------------------------------------------------------------------------------
(* What the steps have in common.                                          *)

\* Receiving an event that is no report keeps the channel in order.
LEMMA ReceivedChannel ==
  ASSUME IInv, NEW e, NEW k, Recv(e, k), UNCHANGED engine, monitor'.pc \notin Drained
  PROVE  Channel'
<1>1. engine.pc # "queued"
  BY Received DEF IInv, Channel, Recv
<1>2. QED
  BY <1>1, Received DEF IInv, Channel

\* Sending one as well.
LEMMA EmittedChannel ==
  ASSUME IInv, NEW e \in EventType \ Outcome, NEW k \in Nat, Emit(e, k), UNCHANGED monitor,
         engine.pc \in Streaming, engine'.pc \in Streaming
  PROVE  Channel'
<1>1. \A i \in 1 .. Len(events) : events[i].type \notin Outcome
  BY DEF IInv, Channel, Streaming
<1>2. \A i \in 1 .. Len(events') : events'[i].type \notin Outcome
  <2>1. e \in EventType /\ e \notin Outcome
    OBVIOUS
  <2>2. QED
    BY <1>1, <2>1, Emitted DEF IInv
<1>3. monitor'.pc \notin Drained
  BY DEF IInv, Channel, Streaming
<1>4. QED
  BY <1>2, <1>3 DEF Channel, Streaming

\* A step without questions and decisions.
LEMMA ConsentsStay ==
  ASSUME IInv, UNCHANGED <<n, approvals, reply, thread>>, claim'.auto => claim.auto,
         UNCHANGED <<hist.yes, hist.ran, hist.always>>,
         At("approve") => monitor'.pc = "approve" /\ monitor'.on = monitor.on
  PROVE  Consents'
<1>1. claim'.auto \/ thread' \/ reply' = "remember" => hist'.always
  BY DEF IInv, Consents
<1>2. hist'.ran \subseteq hist'.yes
  BY DEF IInv, Consents
<1>3. reply' # "none" => At("approve")'
  BY DEF IInv, Consents, At
<1>4. reply' \in Consent => monitor'.on \in hist'.yes
  BY DEF IInv, Consents, Consent, At
<1>5. \A i \in 1 .. Len(approvals') : approvals'[i].turn <= n'
  BY DEF IInv, Consents
<1>6. \A i \in 1 .. Len(approvals') :
        approvals'[i].turn = n' /\ approvals'[i].allow => approvals'[i].id \in hist'.yes
  BY DEF IInv, Consents
<1>7. QED
  BY <1>1, <1>2, <1>3, <1>4, <1>5, <1>6 DEF Consents

\* A step that reads, sends and notes nothing.
LEMMA BlameStays ==
  ASSUME IInv, UNCHANGED <<turn, events, monitor, hist.error>>, engine'.pc \in {engine.pc, "gone"}
  PROVE  Blame'
BY DEF IInv, Blame, Pending

\* A running engine sends an event; an error it sends is pending.
LEMMA BlameEmitted ==
  ASSUME IInv, NEW e \in EventType, NEW k \in Nat, Emit(e, k), UNCHANGED <<turn, monitor>>,
         engine.pc \in Streaming, hist'.error => hist.error \/ e = "error"
  PROVE  Blame'
<1>1. turn.status # "Completed" /\ monitor.pc \notin Ending
  BY DEF IInv, Blame, Channel, Drained, Streaming
<1>2. Pending("error") => Pending("error")'
  <2> SUFFICES ASSUME NEW i \in 1 .. Len(events), events[i].type = "error" PROVE Pending("error")'
    BY DEF Pending
  <2>1. i \in 1 .. Len(events') /\ events'[i] = events[i]
    BY Emitted DEF IInv
  <2>2. QED
    BY <2>1 DEF Pending
<1>3. e = "error" => Pending("error")'
  <2>1. Len(events') \in 1 .. Len(events') /\ events'[Len(events')].type = e
    BY Emitted DEF IInv
  <2>2. QED
    BY <2>1 DEF Pending
<1>4. QED
  BY <1>1, <1>2, <1>3 DEF IInv, Blame

\* The monitor reads an event and goes on; an error is noted.
LEMMA BlameReceived ==
  ASSUME IInv, NEW e, NEW k, Recv(e, k), UNCHANGED <<turn, engine, hist.error>>,
         monitor'.pc \in Reading, monitor.failed \/ e = "error" => monitor'.failed
  PROVE  Blame'
<1>1. Pending("error") => e = "error" \/ Pending("error")'
  <2> SUFFICES ASSUME NEW i \in 1 .. Len(events), events[i].type = "error", e # "error"
               PROVE  Pending("error")'
    BY DEF Pending
  <2>1. i # 1
    BY Received DEF IInv
  <2>2. i - 1 \in 1 .. Len(events') /\ events'[i - 1] = events[i]
    BY <2>1, Received DEF IInv
  <2>3. QED
    BY <2>2 DEF Pending
<1>2. monitor.pc \in Reading
  BY DEF Recv, At, Reading
<1>3. QED
  BY <1>1, <1>2 DEF IInv, Blame, Reading, Ending


\* A running engine takes a step, and sends at most one event; what it may run is
\* settled apart (Consents).
LEMMA EngineRuns ==
  ASSUME IInv, Consents', engine' \in EngineState, hist' \in History, approvals' \in Seq(Decision),
         engine.pc \in Streaming, engine'.pc \in Streaming,
         UNCHANGED <<n, turn, thread, claim, reply, monitor, ended, up>>,
         NEW e \in EventType \ Outcome, NEW k \in Nat,
         \/ Emit(e, k) /\ (hist'.error => hist.error \/ e = "error")
         \/ UNCHANGED events /\ hist'.error = hist.error
  PROVE  IInv'
<1>1. CASE Emit(e, k) /\ (hist'.error => hist.error \/ e = "error")
  <2>1. events' \in Seq(Events)
    BY <1>1, Emitted DEF IInv
  <2>2. Shape' /\ Lifecycle'
    BY <2>1 DEF IInv, Shape, Lifecycle, Terminal
  <2>3. Channel' /\ Blame'
    BY <1>1, EmittedChannel, BlameEmitted
  <2>4. QED
    BY <2>2, <2>3 DEF IInv
<1>2. CASE UNCHANGED events /\ hist'.error = hist.error
  <2>1. Shape' /\ Lifecycle'
    BY <1>2 DEF IInv, Shape, Lifecycle, Terminal
  <2>2. Channel'
    BY <1>2 DEF IInv, Channel, Streaming
  <2>3. turn.status # "Completed"
    BY DEF IInv, Blame, Streaming
  <2>4. Blame'
    BY <1>2, <2>3 DEF IInv, Blame, Pending
  <2>5. QED
    BY <2>1, <2>2, <2>4 DEF IInv
<1>3. QED
  BY <1>1, <1>2

\* The monitor reads an event that is no report, and notes it if it is an error; what
\* it tells the engine is settled apart (Consents).
LEMMA MonitorReads ==
  ASSUME IInv, Consents', monitor' \in MonitorState, hist' \in History, approvals' \in Seq(Decision),
         NEW e, NEW k, Recv(e, k), monitor'.pc \in Reading,
         UNCHANGED <<n, turn, thread, claim, engine, reply, ended, up, hist.error>>,
         monitor.failed \/ e = "error" => monitor'.failed
  PROVE  IInv'
<1>1. monitor.pc = "recv" /\ monitor'.pc \notin Drained
  BY DEF Recv, At, Reading, Drained, Ending
<1>2. events' \in Seq(Events)
  BY Received DEF IInv
<1>3. Shape'
  BY <1>2 DEF IInv, Shape
<1>4. Lifecycle'
  BY <1>1 DEF IInv, Lifecycle, Terminal, Working, Reading, Ending, Settling
<1>5. Channel' /\ Blame'
  BY <1>1, ReceivedChannel, BlameReceived
<1>6. QED
  BY <1>3, <1>4, <1>5 DEF IInv

\* The monitor goes on without an event, and neither asks nor answers.
LEMMA MonitorGoesOn ==
  ASSUME IInv, Lifecycle', Blame', monitor' \in MonitorState, turn' \in TurnState, hist' \in History,
         ended' \in Nat, monitor.pc # "approve", monitor'.pc # "approve",
         UNCHANGED <<n, thread, claim, engine, events, approvals, reply>>,
         UNCHANGED <<hist.yes, hist.ran, hist.always>>,
         monitor'.pc \in Drained => monitor.pc \in Drained
  PROVE  IInv'
<1>1. Shape'
  BY DEF IInv, Shape
<1>2. Channel'
  BY DEF IInv, Channel
<1>3. Consents'
  BY DEF IInv, Consents, Consent, At
<1>4. QED
  BY <1>1, <1>2, <1>3 DEF IInv

--------------------------------------------------------------------------------
(* The steps.                                                              *)

\* A new turn: the channels are empty, the old decisions bear older numbers.
LEMMA StartTurnKeeps == ASSUME IInv, start_turn PROVE IInv'
<1>1. n' \in Nat /\ ended' \in Nat
  BY DEF start_turn, IInv, Shape
<1>2. turn' \in TurnState
  BY DEF start_turn, TurnState
<1>3. claim' \in ClaimState
  BY DEF start_turn, IInv, Shape, ClaimState
<1>4. engine' \in EngineState
  BY DEF start_turn, EngineState, IdleEngine
<1>5. monitor' \in MonitorState
  BY DEF start_turn, MonitorState, MonitorPc, Working, Reading, Outcome, NoMonitor
<1>6. hist' \in History
  BY DEF start_turn, IInv, Shape, History, NoHistory
<1>7. UNCHANGED <<thread, events, approvals, reply>>
  BY DEF start_turn, channels
<1>8. Shape'
  BY <1>1, <1>2, <1>3, <1>4, <1>5, <1>6, <1>7 DEF IInv, Shape
<1>9. Lifecycle'
  BY DEF start_turn, Lifecycle, Working, Reading, Ending, Settling, NoMonitor, faults
<1>10. Channel'
  <2>1. events' = <<>>
    BY DEF start_turn, channels, IInv, Lifecycle, Channel, Drained
  <2>2. monitor'.pc = "recv"
    BY DEF start_turn, NoMonitor
  <2>3. QED
    BY <2>1, <2>2 DEF Channel, Drained, Ending
<1>11. Consents'
  <2>1. events = <<>> /\ UNCHANGED <<events, approvals, reply, thread>>
    BY DEF start_turn, channels, IInv, Lifecycle, Channel, Drained
  <2>2. n' = n + 1 /\ n \in Nat /\ claim'.auto = thread
    BY DEF start_turn, IInv, Shape
  <2>3. hist'.always = hist.always /\ hist'.yes = {} /\ hist'.ran = {}
    BY DEF start_turn, NoHistory
  <2>4. reply = "none"
    BY DEF start_turn, IInv, Lifecycle, Consents, At
  <2>5. \A i \in 1 .. Len(approvals') : approvals'[i].turn <= n' /\ approvals'[i].turn # n'
    <3> SUFFICES ASSUME NEW i \in 1 .. Len(approvals)
                 PROVE  approvals[i].turn <= n + 1 /\ approvals[i].turn # n + 1
      BY <2>1, <2>2
    <3>1. approvals[i] \in Decision /\ approvals[i].turn <= n
      BY DEF IInv, Shape, Consents
    <3>2. approvals[i].turn \in Nat
      BY <3>1 DEF Decision
    <3>3. QED
      BY <2>2, <3>1, <3>2
  <2>6. QED
    BY <2>1, <2>2, <2>3, <2>4, <2>5 DEF IInv, Consents, Consent
<1>12. Blame'
  BY DEF start_turn, Blame, Reading, Ending, NoMonitor, NoHistory
<1>13. QED
  BY <1>8, <1>9, <1>10, <1>11, <1>12 DEF IInv

\* An interrupt sets a flag and a token.
LEMMA InterruptTurnKeeps == ASSUME IInv, interrupt_turn PROVE IInv'
<1>1. claim' \in ClaimState /\ claim'.held = claim.held /\ claim'.auto = claim.auto
  BY DEF interrupt_turn, IInv, Shape, ClaimState
<1>2. engine' \in EngineState /\ engine'.pc = engine.pc
  BY CancelledTyped DEF IInv, interrupt_turn
<1>3. UNCHANGED <<n, turn, thread, events, approvals, reply, monitor, ended, up, hist>>
  BY DEF interrupt_turn, records, channels, faults
<1>4. Shape' /\ Lifecycle' /\ Channel'
  BY <1>1, <1>2, <1>3 DEF IInv, Shape, Lifecycle, Channel, Terminal
<1>5. Consents'
  BY <1>1, <1>3, ConsentsStay DEF At
<1>6. Blame'
  BY <1>2, <1>3, BlameStays
<1>7. QED
  BY <1>4, <1>5, <1>6 DEF IInv

--------------------------------------------------------------------------------
(* The engine.                                                             *)

\* The engine takes the operation.
LEMMA EngineTakeKeeps == ASSUME IInv, engine_take PROVE IInv'
<1>1. engine' \in EngineState /\ engine.pc = "queued" /\ engine'.pc = "stream"
  BY DEF engine_take, EngineState, IdleEngine, Streaming
<1>2. UNCHANGED <<n, turn, thread, claim, events, approvals, reply, monitor, ended, up, hist>>
  BY DEF engine_take, EngineOnly, records, faults
<1>3. Shape' /\ Lifecycle'
  BY <1>1, <1>2 DEF IInv, Shape, Lifecycle, Terminal
<1>4. Channel'
  BY <1>1, <1>2 DEF IInv, Channel
<1>5. Consents'
  BY <1>2, ConsentsStay DEF At
<1>6. Blame'
  BY <1>1, <1>2 DEF IInv, Blame, Pending
<1>7. QED
  BY <1>3, <1>4, <1>5, <1>6 DEF IInv

\* The engine takes a step that neither sends nor reads decisions: no consent changes.
LEMMA EngineConsents ==
  ASSUME IInv, EngineOnly, UNCHANGED <<hist.yes, hist.ran, hist.always>>
  PROVE  Consents'
BY ConsentsStay DEF EngineOnly, records, At

\* A text block starts.
LEMMA EngineMessageKeeps == ASSUME IInv, engine_message PROVE IInv'
<1>1. engine.made \in Nat /\ hist.live \in Nat /\ hist.dropped \in SUBSET Nat
  BY DEF IInv, Shape, EngineState, History
<1>2. engine' \in EngineState /\ engine'.pc = engine.pc
  <2>1. PICK made \in Nat : made = engine.made + 1
    BY <1>1
  <2>2. PICK p \in {engine.pending, TRUE} : engine' = [engine EXCEPT !.made = made, !.pending = p]
    BY <2>1 DEF engine_message
  <2>3. p \in BOOLEAN /\ engine \in EngineState
    BY <2>2 DEF IInv, Shape, EngineState
  <2>4. QED
    BY ONLY <2>1, <2>2, <2>3 DEF EngineState
<1>3. hist' \in History /\ UNCHANGED <<hist.yes, hist.ran, hist.always, hist.error>>
  <2>1. PICK d : d = hist.dropped \cup ({hist.live} \ {0})
    OBVIOUS
  <2>2. d \in SUBSET Nat
    BY <1>1, <2>1
  <2>3. PICK made \in Nat : made = engine.made + 1
    BY <1>1
  <2>4. hist' = [hist EXCEPT !.live = made, !.dropped = d] /\ hist \in History
    BY <2>1, <2>3 DEF engine_message, IInv, Shape
  <2>5. QED
    BY ONLY <2>2, <2>3, <2>4 DEF History
<1>4. "message" \in EventType \ Outcome
  BY DEF EventType, Outcome
<1>5. Consents'
  BY <1>3, EngineConsents DEF engine_message
<1>6. Emit("message", engine.made + 1) /\ engine.pc \in Streaming
  BY DEF engine_message, Streaming
<1>7. QED
  BY <1>1, <1>2, <1>3, <1>4, <1>5, <1>6, EngineRuns DEF engine_message, EngineOnly, records, faults, IInv, Shape

\* A tool call starts.
LEMMA EngineToolKeeps == ASSUME IInv, engine_tool PROVE IInv'
<1>1. engine.made \in Nat /\ engine.calls \in SUBSET Nat
  BY DEF IInv, Shape, EngineState
<1>2. engine' \in EngineState /\ engine'.pc = engine.pc
  <2>1. PICK c : c = engine.calls \cup {engine.made + 1}
    OBVIOUS
  <2>2. c \in SUBSET Nat
    BY <1>1, <2>1
  <2>3. PICK made \in Nat : made = engine.made + 1
    BY <1>1
  <2>4. engine' = [engine EXCEPT !.made = made, !.calls = c] /\ engine \in EngineState
    BY <2>1, <2>3 DEF engine_tool, IInv, Shape
  <2>5. QED
    BY ONLY <2>2, <2>3, <2>4 DEF EngineState
<1>3. "tool" \in EventType \ Outcome
  BY DEF EventType, Outcome
<1>4. Consents'
  BY EngineConsents DEF engine_tool
<1>5. (Emit("tool", engine.made + 1) \/ UNCHANGED events) /\ engine.pc \in Streaming
  BY DEF engine_tool, Streaming
<1>6. QED
  BY <1>1, <1>2, <1>3, <1>4, <1>5, EngineRuns DEF engine_tool, EngineOnly, records, faults, IInv, Shape

\* The stream reports an error.
LEMMA EngineErrorKeeps == ASSUME IInv, engine_error PROVE IInv'
<1>1. engine' \in EngineState /\ engine'.pc = engine.pc
  BY DEF engine_error, IInv, Shape, EngineState
<1>2. hist' \in History /\ UNCHANGED <<hist.yes, hist.ran, hist.always>>
  BY DEF engine_error, IInv, Shape, History
<1>3. "error" \in EventType \ Outcome /\ 0 \in Nat
  BY DEF EventType, Outcome
<1>4. Consents'
  BY <1>2, EngineConsents DEF engine_error
<1>5. Emit("error", 0) /\ engine.pc \in Streaming
  BY DEF engine_error, Streaming
<1>6. QED
  BY <1>1, <1>2, <1>3, <1>4, <1>5, EngineRuns DEF engine_error, EngineOnly, records, faults, IInv, Shape

\* The text blocks of a stream are closed by one event, if there are any.
LEMMA MessageCompleted ==
  ASSUME IInv, NEW dropped \in SUBSET Nat, MessageComplete(dropped)
  PROVE  /\ hist' \in History
         /\ UNCHANGED <<hist.yes, hist.ran, hist.always, hist.error>>
         /\ Emit("message_done", 0) \/ UNCHANGED events
<1>1. hist.live \in Nat /\ hist.dropped \in SUBSET Nat /\ hist.dropped \cup dropped \in SUBSET Nat
  BY DEF IInv, Shape, History
<1>2. hist' \in History /\ UNCHANGED <<hist.yes, hist.ran, hist.always, hist.error>>
  BY <1>1 DEF MessageComplete, IInv, Shape, History
<1>3. QED
  BY <1>2 DEF MessageComplete

\* The stream ends, or its request is repeated.
LEMMA EngineStreamKeeps == ASSUME IInv, engine_stream_end \/ engine_retry PROVE IInv'
<1>1. engine.streams \in Nat /\ engine.calls \in SUBSET Nat
  BY DEF IInv, Shape, EngineState
<1>2. engine' \in EngineState /\ engine.pc \in Streaming /\ engine'.pc \in Streaming
  <2>1. CASE engine_stream_end
    BY <2>1 DEF engine_stream_end, IInv, Shape, EngineState, Streaming
  <2>2. CASE engine_retry
    <3> DEFINE Repeat(k, c) ==
          [engine EXCEPT !.streams = k, !.calls = c, !.failing = FALSE, !.pending = FALSE]
    <3> HIDE DEF Repeat
    <3>1. engine' = Repeat(engine.streams + 1, {})
      BY <2>2 DEF engine_retry, Repeat
    <3>2. engine.streams + 1 \in Nat /\ {} \in SUBSET Nat
      BY <1>1
    <3>3. PICK c \in SUBSET Nat, k \in Nat : engine' = Repeat(k, c)
      BY <3>1, <3>2
    <3>4. engine \in EngineState /\ engine.pc = "stream"
      BY <2>2 DEF engine_retry, IInv, Shape
    <3>5. QED
      BY ONLY <3>3, <3>4 DEF Repeat, EngineState, Streaming
  <2>3. QED
    BY <2>1, <2>2
<1>3. PICK dropped \in SUBSET Nat : MessageComplete(dropped)
  BY <1>1 DEF engine_stream_end, engine_retry
<1>4. /\ hist' \in History /\ UNCHANGED <<hist.yes, hist.ran, hist.always, hist.error>>
      /\ Emit("message_done", 0) \/ UNCHANGED events
  BY <1>3, MessageCompleted
<1>5. "message_done" \in EventType \ Outcome /\ 0 \in Nat
  BY DEF EventType, Outcome
<1>6. EngineOnly
  BY DEF engine_stream_end, engine_retry
<1>7. Consents'
  BY <1>4, <1>6, EngineConsents
<1>8. QED
  BY <1>2, <1>4, <1>5, <1>6, <1>7, EngineRuns DEF EngineOnly, records, faults, IInv, Shape

\* The next request.
LEMMA EngineNextStepKeeps == ASSUME IInv, engine_next_step PROVE IInv'
<1>1. engine' \in EngineState /\ engine.pc \in Streaming /\ engine'.pc \in Streaming
  <2>1. engine.streams \in Nat
    BY DEF IInv, Shape, EngineState
  <2>2. PICK k \in Nat : k = engine.streams + 1
    BY <2>1
  <2>3. engine' = [engine EXCEPT !.pc = "stream", !.streams = k] /\ engine \in EngineState
    BY <2>2 DEF engine_next_step, IInv, Shape
  <2>4. engine.pc = "tools"
    BY DEF engine_next_step
  <2>5. QED
    BY ONLY <2>2, <2>3, <2>4 DEF EngineState, Streaming
<1>2. "tool" \in EventType \ Outcome /\ 0 \in Nat
  BY DEF EventType, Outcome
<1>3. Consents'
  BY EngineConsents DEF engine_next_step
<1>4. QED
  BY <1>1, <1>2, <1>3, EngineRuns DEF engine_next_step, EngineOnly, records, faults, IInv, Shape

\* A tool asks for approval.
LEMMA EngineAskKeeps == ASSUME IInv, engine_ask PROVE IInv'
<1>1. PICK c \in engine.calls : /\ engine' = [engine EXCEPT !.pc = "wait", !.asking = c]
                                /\ Emit("approval", c)
  BY DEF engine_ask
<1>2. c \in Nat
  BY DEF IInv, Shape, EngineState
<1>3. engine' \in EngineState /\ engine.pc \in Streaming /\ engine'.pc \in Streaming
  BY <1>1, <1>2 DEF engine_ask, IInv, Shape, EngineState, Streaming
<1>4. "approval" \in EventType \ Outcome
  BY DEF EventType, Outcome
<1>5. Consents'
  BY EngineConsents DEF engine_ask
<1>6. QED
  BY <1>1, <1>2, <1>3, <1>4, <1>5, EngineRuns DEF engine_ask, EngineOnly, records, faults, IInv, Shape

\* A call is done: the engine goes on with the others.
LEMMA CallDone ==
  ASSUME IInv, NEW c, ToolDone(c)
  PROVE  engine' \in EngineState /\ engine'.pc \in Streaming /\ Emit("tool_done", c)
BY DEF ToolDone, IInv, Shape, EngineState, Streaming

\* A tool that did not ask is done, or one whose wait was cancelled.
LEMMA EngineToolDoneKeeps == ASSUME IInv, engine_tool_done \/ engine_wait_cancelled PROVE IInv'
<1>1. engine.calls \in SUBSET Nat /\ engine.asking \in Nat
  BY DEF IInv, Shape, EngineState
<1>2. PICK c \in Nat : ToolDone(c)
  BY <1>1 DEF engine_tool_done, engine_wait_cancelled
<1>3. "tool_done" \in EventType \ Outcome
  BY DEF EventType, Outcome
<1>4. engine.pc \in Streaming /\ EngineOnly /\ UNCHANGED hist
  BY DEF engine_tool_done, engine_wait_cancelled, Streaming
<1>5. Consents'
  BY <1>4, EngineConsents
<1>6. QED
  BY <1>2, <1>3, <1>4, <1>5, CallDone, EngineRuns DEF EngineOnly, records, faults, IInv, Shape

\* A decision is taken from the channel: a call runs only by a decision of this turn
\* for this call, which stands for the client's consent.
LEMMA EngineVerdictKeeps == ASSUME IInv, engine_verdict PROVE IInv'
<1>1. /\ engine.pc \in Streaming /\ approvals # <<>> /\ approvals' = Tail(approvals)
      /\ UNCHANGED <<n, records, claim, reply, monitor, ended, faults>>
  BY DEF engine_verdict, Streaming
<1>2. PICK d : d = Head(approvals)
  OBVIOUS
<1>3. d \in Decision /\ d = approvals[1] /\ 1 \in 1 .. Len(approvals)
  BY <1>1, <1>2 DEF IInv, Shape
<1>4. approvals' \in Seq(Decision)
      /\ \A i \in 1 .. Len(approvals') : i + 1 \in 1 .. Len(approvals) /\ approvals'[i] = approvals[i + 1]
  BY <1>1 DEF IInv, Shape
<1>5. /\ hist.yes \in SUBSET Nat /\ hist.ran \in SUBSET Nat /\ hist.ran \subseteq hist.yes
      /\ engine.asking \in Nat /\ hist \in History
  BY DEF IInv, Shape, History, Consents, EngineState
<1>6. hist' \in History /\ UNCHANGED <<hist.yes, hist.always, hist.error>> /\ hist'.ran \subseteq hist.yes
  <2>1. CASE UNCHANGED hist
    BY <1>5, <2>1
  <2>2. CASE ~ UNCHANGED hist
    <3>1. verdict_matches(d) /\ d.allow /\ hist' = [hist EXCEPT !.ran = @ \cup {engine.asking}]
      BY <1>2, <2>2 DEF engine_verdict
    <3>2. engine.asking \in hist.yes
      BY <1>3, <3>1 DEF verdict_matches, IInv, Consents
    <3>3. QED
      BY <1>5, <3>1, <3>2 DEF History
  <2>3. QED
    BY <2>1, <2>2
<1>7. Consents'
  <2>1. \A i \in 1 .. Len(approvals') :
          /\ approvals'[i].turn <= n'
          /\ approvals'[i].turn = n' /\ approvals'[i].allow => approvals'[i].id \in hist'.yes
    BY <1>1, <1>4, <1>6 DEF IInv, Consents
  <2>2. QED
    BY <1>1, <1>6, <2>1 DEF IInv, Consents, Consent, At, records
<1>8. "tool_done" \in EventType \ Outcome
  BY DEF EventType, Outcome
<1>9. CASE verdict_matches(d)
  <2>1. ToolDone(engine.asking)
    BY <1>2, <1>9 DEF engine_verdict
  <2>2. QED
    BY <1>1, <1>4, <1>5, <1>6, <1>7, <1>8, <2>1, CallDone, EngineRuns DEF records, faults
<1>10. CASE ~ verdict_matches(d)
  <2>1. UNCHANGED <<engine, events, hist>>
    BY <1>2, <1>10 DEF engine_verdict
  <2>2. QED
    BY <1>1, <1>4, <1>5, <1>6, <1>7, <1>8, <2>1, EngineRuns DEF records, faults, IInv, Shape
<1>11. QED
  BY <1>9, <1>10

\* The report is the last event: the engine is idle behind it.
LEMMA EngineFinishKeeps == ASSUME IInv, NEW s \in Outcome, engine_finish(s) PROVE IInv'
<1>1. Emit(s, 0) /\ engine.pc \in Streaming /\ engine' = IdleEngine /\ EngineOnly
  BY DEF engine_finish, Streaming
<1>2. s \in EventType /\ 0 \in Nat
  BY DEF EventType
<1>3. events' \in Seq(Events)
  BY <1>1, <1>2, Emitted DEF IInv
<1>4. engine' \in EngineState /\ engine'.pc = "idle"
  BY <1>1 DEF EngineState, IdleEngine
<1>5. hist' \in History /\ UNCHANGED <<hist.yes, hist.ran, hist.always, hist.error>>
  BY DEF engine_finish, IInv, Shape, History
<1>6. Shape' /\ Lifecycle'
  BY <1>1, <1>3, <1>4, <1>5 DEF EngineOnly, records, faults, IInv, Shape, Lifecycle, Terminal
<1>7. Channel'
  <2>1. \A i \in 1 .. Len(events) : events[i].type \notin Outcome
    BY <1>1 DEF IInv, Channel, Streaming
  <2>2. \A i \in 1 .. Len(events') : events'[i].type \in Outcome => i = Len(events')
    BY <1>1, <1>2, <2>1, Emitted DEF IInv
  <2>3. monitor'.pc \notin Drained
    BY <1>1 DEF EngineOnly, IInv, Channel, Streaming
  <2>4. QED
    BY <1>4, <2>2, <2>3 DEF Channel
<1>8. Consents'
  BY <1>1, <1>5, EngineConsents
<1>9. Blame'
  BY <1>1, <1>2, <1>5, BlameEmitted DEF EngineOnly, records
<1>10. QED
  BY <1>6, <1>7, <1>8, <1>9 DEF IInv

\* An engine that dies leaves its channels as they are; a sub-agent starts or ends.
LEMMA EngineGoneKeeps == ASSUME IInv, engine_dies \/ spawn_child \/ child_ends PROVE IInv'
<1>1. UNCHANGED <<n, records, claim, channels, monitor, ended, up, hist>>
  BY DEF engine_dies, spawn_child, child_ends, faults
<1>2. engine' \in EngineState /\ ((engine' = engine) \/ (engine'.pc = "gone" /\ engine.pc \in Streaming))
  <2>1. CASE engine_dies
    <3>1. PICK calls \in SUBSET Nat : calls = {}
      OBVIOUS
    <3>2. engine' = [pc |-> "gone", cancelled |-> FALSE, failing |-> FALSE, pending |-> FALSE,
                     calls |-> calls, asking |-> 0, made |-> 0, streams |-> 0]
      BY <2>1, <3>1 DEF engine_dies, IdleEngine
    <3>3. engine' \in EngineState /\ engine'.pc = "gone"
      BY ONLY <3>1, <3>2 DEF EngineState, Streaming
    <3>4. QED
      BY <2>1, <3>3 DEF engine_dies, Streaming
  <2>2. CASE spawn_child \/ child_ends
    <3>1. UNCHANGED engine
      BY <2>2 DEF spawn_child, child_ends
    <3>2. engine \in EngineState
      BY DEF IInv, Shape
    <3>3. QED
      BY <3>1, <3>2
  <2>3. QED
    BY <2>1, <2>2
<1>3. Shape' /\ Lifecycle'
  BY <1>1, <1>2 DEF records, channels, IInv, Shape, Lifecycle, Terminal
<1>4. Channel'
  BY <1>1, <1>2 DEF channels, IInv, Channel
<1>5. Consents'
  BY <1>1, ConsentsStay DEF records, channels, At
<1>6. Blame'
  BY <1>1, <1>2, BlameStays DEF records, channels
<1>7. QED
  BY <1>3, <1>4, <1>5, <1>6 DEF IInv

--------------------------------------------------------------------------------
(* The monitor reads.                                                      *)

\* A start event.
LEMMA OnItemStartedKeeps ==
  ASSUME IInv, NEW i \in Item, NEW e \in {"message", "tool"}, on_item_started(e, i)
  PROVE  IInv'
<1>1. i \in Nat /\ monitor.tools \in SUBSET Nat
  BY ItemIsNat DEF IInv, Shape, MonitorState
<1>2. monitor' \in MonitorState /\ monitor'.pc = "attach" /\ monitor'.failed = monitor.failed
  <2>1. PICK t \in SUBSET Nat : t = IF e = "tool" THEN monitor.tools \cup {i} ELSE monitor.tools
    BY <1>1
  <2>2. monitor' = [monitor EXCEPT !.pc = "attach", !.on = i, !.active = TRUE, !.tools = t]
        /\ monitor \in MonitorState
    BY <2>1 DEF on_item_started, IInv, Shape
  <2>3. "attach" \in MonitorPc
    BY DEF MonitorPc, Working, Reading
  <2>4. QED
    BY ONLY <1>1, <2>1, <2>2, <2>3 DEF MonitorState
<1>3. Recv(e, i) /\ MonitorOnly /\ UNCHANGED turn /\ e # "error"
  BY DEF on_item_started
<1>4. Consents'
  BY <1>3, ConsentsStay DEF MonitorOnly, Recv, At
<1>5. QED
  BY <1>2, <1>3, <1>4, MonitorReads DEF MonitorOnly, faults, Reading, IInv, Shape

\* The end of a text block or of a tool call, or an error: the monitor notes it.
LEMMA MonitorNotes ==
  ASSUME IInv, NEW e, NEW k, NEW m \in Nat, NEW t \in SUBSET Nat, NEW f \in BOOLEAN, Recv(e, k),
         monitor' = [monitor EXCEPT !.message = m, !.tools = t, !.failed = f, !.active = TRUE],
         monitor.failed \/ e = "error" => f, UNCHANGED turn, MonitorOnly
  PROVE  IInv'
<1>1. monitor' \in MonitorState /\ monitor'.pc = monitor.pc /\ monitor'.failed = f
  BY DEF IInv, Shape, MonitorState
<1>2. monitor'.pc \in Reading /\ ~ At("approve")
  BY <1>1 DEF Recv, At, Reading
<1>3. Consents'
  BY <1>2, ConsentsStay DEF MonitorOnly
<1>4. QED
  BY <1>1, <1>2, <1>3, MonitorReads DEF MonitorOnly, faults, IInv, Shape

\* The monitor saves the end of an item.
LEMMA OnItemDoneKeeps ==
  ASSUME IInv, on_message_complete \/ on_error \/ (\E i \in Item : on_tool_complete(i))
  PROVE  IInv'
<1> DEFINE Noted(m, t, f) ==
             [monitor EXCEPT !.message = m, !.tools = t, !.failed = f, !.active = TRUE]
<1>1. /\ monitor \in MonitorState /\ monitor.tools \in SUBSET Nat
      /\ monitor.message \in Nat /\ monitor.failed \in BOOLEAN
  BY DEF IInv, Shape, MonitorState
<1>2. MonitorOnly /\ UNCHANGED turn
  BY DEF on_message_complete, on_error, on_tool_complete
<1>3. CASE on_message_complete
  <2>1. monitor' = Noted(0, monitor.tools, monitor.failed) /\ Recv("message_done", 0)
    BY <1>1, <1>3 DEF on_message_complete, MonitorState
  <2>2. 0 \in Nat /\ "message_done" # "error"
    OBVIOUS
  <2>3. QED
    BY <1>1, <1>2, <2>1, <2>2, MonitorNotes
<1>4. CASE on_error
  <2>1. monitor' = Noted(monitor.message, monitor.tools, TRUE) /\ Recv("error", 0)
    BY <1>1, <1>4 DEF on_error, MonitorState
  <2>2. QED
    BY <1>1, <1>2, <2>1, MonitorNotes
<1>5. CASE \E i \in Item : on_tool_complete(i)
  <2>1. PICK i \in Item : on_tool_complete(i)
    BY <1>5
  <2>2. PICK t \in SUBSET Nat : t = monitor.tools \ {i}
    BY <1>1
  <2>3. monitor' = Noted(monitor.message, t, monitor.failed) /\ Recv("tool_done", i)
    BY <1>1, <2>1, <2>2 DEF on_tool_complete, MonitorState
  <2>4. "tool_done" # "error"
    OBVIOUS
  <2>5. QED
    BY <1>1, <1>2, <2>3, <2>4, MonitorNotes
<1>6. QED
  BY <1>3, <1>4, <1>5

\* A question: it is answered at once with the client's word for the thread, or the
\* client is asked.
LEMMA OnApprovalKeeps == ASSUME IInv, NEW i \in Item, on_approval(i) PROVE IInv'
<1>1. i \in Nat /\ monitor \in MonitorState /\ hist \in History /\ approvals \in Seq(Decision)
  BY ItemIsNat DEF IInv, Shape
<1>2. /\ Recv("approval", i) /\ monitor.pc = "recv"
      /\ UNCHANGED <<n, turn, thread, claim, engine, reply, ended, up>>
  BY DEF on_approval, Recv, At, records, faults
<1>3. reply = "none"
  BY <1>2 DEF IInv, Consents, At
<1>4. CASE claim.auto /\ Decide(i, TRUE)
           /\ hist' = [hist EXCEPT !.yes = IF hist.always THEN @ \cup {i} ELSE @]
           /\ monitor' = [monitor EXCEPT !.active = TRUE]
  <2>1. hist.always
    BY <1>4 DEF IInv, Consents
  <2>2. PICK y \in SUBSET Nat : y = hist.yes \cup {i}
    BY <1>1 DEF History
  <2>3. hist' = [hist EXCEPT !.yes = y]
    BY <1>4, <2>1, <2>2
  <2>4. /\ hist' \in History /\ UNCHANGED <<hist.ran, hist.always, hist.error>>
        /\ hist'.yes = hist.yes \cup {i}
    BY ONLY <1>1, <2>2, <2>3 DEF History
  <2>5. monitor' \in MonitorState /\ monitor'.pc = "recv" /\ monitor'.failed = monitor.failed
    BY <1>1, <1>2, <1>4 DEF MonitorState
  <2>6. /\ approvals' \in Seq(Decision)
        /\ \A j \in 1 .. Len(approvals') :
             \/ j \in 1 .. Len(approvals) /\ approvals'[j] = approvals[j]
             \/ approvals'[j].turn = n /\ approvals'[j].id = i
    BY <1>1, <1>4, Decided DEF IInv
  <2>7. \A j \in 1 .. Len(approvals') :
          /\ approvals'[j].turn <= n'
          /\ approvals'[j].turn = n' /\ approvals'[j].allow => approvals'[j].id \in hist'.yes
    BY <1>2, <2>4, <2>6 DEF IInv, Shape, Consents
  <2>8. Consents'
    BY <1>2, <1>3, <2>1, <2>4, <2>7 DEF IInv, Consents, Consent
  <2>9. QED
    BY <1>2, <2>4, <2>5, <2>6, <2>8, MonitorReads DEF Reading
<1>5. CASE monitor' = [monitor EXCEPT !.pc = "approve", !.on = i, !.active = TRUE]
           /\ UNCHANGED <<approvals, hist>>
  <2>1. "approve" \in MonitorPc
    BY DEF MonitorPc, Working, Reading
  <2>2. monitor' \in MonitorState /\ monitor'.pc = "approve" /\ monitor'.failed = monitor.failed
    BY <1>1, <1>5, <2>1 DEF MonitorState
  <2>3. Consents'
    BY <1>2, <1>5, ConsentsStay DEF At
  <2>4. QED
    BY <1>1, <1>2, <1>5, <2>2, <2>3, MonitorReads DEF Reading
<1>6. QED
  BY <1>4, <1>5 DEF on_approval

\* The client answers the pending question: an answer that allows is a consent.
LEMMA DeliverExternalApprovalKeeps ==
  ASSUME IInv, NEW v \in {"allow", "remember", "deny"}, deliver_external_approval(v)
  PROVE  IInv'
<1>1. hist \in History /\ monitor.on \in Nat /\ hist.yes \in SUBSET Nat
  BY DEF IInv, Shape, History, MonitorState
<1>2. /\ monitor.pc = "approve" /\ reply' = v
      /\ UNCHANGED <<n, records, claim, engine, events, approvals, monitor, ended, up>>
  BY DEF deliver_external_approval, At, faults
<1>3. /\ hist' \in History /\ UNCHANGED <<hist.ran, hist.error>>
      /\ hist'.yes = IF v = "deny" THEN hist.yes ELSE hist.yes \cup {monitor.on}
      /\ hist.always \/ v = "remember" => hist'.always
  <2>1. PICK y \in SUBSET Nat : y = IF v = "deny" THEN hist.yes ELSE hist.yes \cup {monitor.on}
    BY <1>1
  <2>2. PICK b \in BOOLEAN : b = (hist.always \/ v = "remember")
    OBVIOUS
  <2>3. hist' = [hist EXCEPT !.yes = y, !.always = b]
    BY <2>1, <2>2 DEF deliver_external_approval
  <2>4. QED
    BY ONLY <1>1, <2>1, <2>2, <2>3 DEF History
<1>4. Shape' /\ Lifecycle' /\ Channel'
  BY <1>2, <1>3 DEF records, IInv, Shape, Lifecycle, Channel, Terminal, Consent
<1>5. Consents'
  <2>1. \A i \in 1 .. Len(approvals') :
          /\ approvals'[i].turn <= n'
          /\ approvals'[i].turn = n' /\ approvals'[i].allow => approvals'[i].id \in hist'.yes
    BY <1>2, <1>3 DEF IInv, Consents
  <2>2. claim'.auto \/ thread' \/ reply' = "remember" => hist'.always
    BY <1>2, <1>3 DEF records, IInv, Consents
  <2>3. QED
    BY <1>2, <1>3, <2>1, <2>2 DEF IInv, Consents, Consent, At
<1>6. Blame'
  BY <1>2, <1>3, BlameStays DEF records
<1>7. QED
  BY <1>4, <1>5, <1>6 DEF IInv

\* The answer, or its absence, is told to the engine.
LEMMA OnDecisionKeeps == ASSUME IInv, on_decision \/ on_timeout PROVE IInv'
<1>1. monitor \in MonitorState /\ monitor.on \in Nat /\ claim \in ClaimState
  BY DEF IInv, Shape, MonitorState
<1>2. /\ monitor.pc = "approve" /\ reply' = "none" /\ UNCHANGED <<n, turn, engine, events, ended, up, hist>>
      /\ monitor' = [monitor EXCEPT !.pc = "recv"]
  BY DEF on_decision, on_timeout, At, Goto, records, faults
<1>3. PICK ok \in BOOLEAN : Decide(monitor.on, ok) /\ (ok => reply \in Consent)
  <2>1. CASE on_decision
    <3>1. Decide(monitor.on, reply # "deny") /\ reply # "none"
      BY <2>1 DEF on_decision
    <3>2. (reply # "deny") \in BOOLEAN
      OBVIOUS
    <3>3. QED
      BY <3>1, <3>2 DEF IInv, Shape, Consent
  <2>2. CASE on_timeout
    BY <2>2 DEF on_timeout
  <2>3. QED
    BY <2>1, <2>2
<1>4. /\ claim' \in ClaimState /\ claim'.held = claim.held /\ thread' \in BOOLEAN
      /\ claim'.auto \/ thread' => claim.auto \/ thread \/ reply = "remember"
  <2>1. CASE on_decision
    <3>1. PICK a \in BOOLEAN : a = (claim.auto \/ reply = "remember")
      OBVIOUS
    <3>2. claim' = [claim EXCEPT !.auto = a]
      BY <2>1, <3>1 DEF on_decision
    <3>3. claim' \in ClaimState /\ claim'.held = claim.held /\ claim'.auto = a
      BY ONLY <1>1, <3>1, <3>2 DEF ClaimState
    <3>4. thread' = (thread \/ reply = "remember")
      BY <2>1 DEF on_decision
    <3>5. QED
      BY <3>1, <3>3, <3>4
  <2>2. CASE on_timeout
    BY <1>1, <2>2 DEF on_timeout, records, IInv, Shape
  <2>3. QED
    BY <2>1, <2>2
<1>5. "recv" \in MonitorPc
  BY DEF MonitorPc, Working, Reading
<1>6. /\ monitor' \in MonitorState /\ monitor'.pc = "recv"
      /\ UNCHANGED <<monitor.failed, monitor.status>>
  BY <1>1, <1>2, <1>5 DEF MonitorState
<1>7. /\ approvals' \in Seq(Decision)
      /\ \A i \in 1 .. Len(approvals') :
           \/ i \in 1 .. Len(approvals) /\ approvals'[i] = approvals[i]
           \/ approvals'[i].turn = n /\ approvals'[i].id = monitor.on /\ approvals'[i].allow = ok
  BY <1>1, <1>3, Decided DEF IInv
<1>8. Shape'
  BY <1>2, <1>4, <1>6, <1>7 DEF IInv, Shape
<1>9. Lifecycle'
  BY <1>2, <1>4, <1>6 DEF IInv, Lifecycle, Terminal, Working, Reading, Ending, Settling
<1>10. Channel'
  BY <1>2, <1>6 DEF IInv, Channel, Drained, Ending
<1>11. Consents'
  <2>1. ok => monitor.on \in hist.yes
    BY <1>3 DEF IInv, Consents
  <2>2. \A i \in 1 .. Len(approvals') :
          /\ approvals'[i].turn <= n'
          /\ approvals'[i].turn = n' /\ approvals'[i].allow => approvals'[i].id \in hist'.yes
    BY <1>2, <1>7, <2>1 DEF IInv, Shape, Consents
  <2>3. claim'.auto \/ thread' \/ reply' = "remember" => hist'.always
    BY <1>2, <1>4 DEF IInv, Consents
  <2>4. QED
    BY <1>2, <2>2, <2>3 DEF IInv, Consents, Consent
<1>12. Blame'
  BY <1>2, <1>6 DEF IInv, Blame, Pending, Reading, Ending
<1>13. QED
  BY <1>8, <1>9, <1>10, <1>11, <1>12 DEF IInv

--------------------------------------------------------------------------------
(* The monitor ends the turn.                                              *)

\* The new item is listed.
LEMMA AttachItemToTurnKeeps == ASSUME IInv, attach_item_to_turn PROVE IInv'
<1>1. monitor \in MonitorState /\ monitor.on \in Nat /\ turn \in TurnState /\ turn.item_ids \in SUBSET Nat
  BY DEF IInv, Shape, MonitorState, TurnState
<1>2. turn' \in TurnState /\ turn'.status = turn.status
  <2>1. PICK l \in SUBSET Nat : l = turn.item_ids \cup {monitor.on}
    BY <1>1
  <2>2. turn' = [turn EXCEPT !.item_ids = l]
    BY <2>1 DEF attach_item_to_turn
  <2>3. QED
    BY ONLY <1>1, <2>1, <2>2 DEF TurnState
<1>3. monitor' \in MonitorState /\ monitor'.pc = "recv" /\ monitor'.failed = monitor.failed
  <2>1. PICK m \in Nat : monitor' = [monitor EXCEPT !.pc = "recv", !.message = m]
    BY <1>1 DEF attach_item_to_turn, MonitorState
  <2>2. "recv" \in MonitorPc
    BY DEF MonitorPc, Working, Reading
  <2>3. QED
    BY ONLY <1>1, <2>1, <2>2 DEF MonitorState
<1>4. monitor.pc = "attach" /\ UNCHANGED events /\ MonitorOnly
  BY DEF attach_item_to_turn, At
<1>5. Lifecycle'
  BY <1>2, <1>3, <1>4 DEF MonitorOnly, faults, IInv, Lifecycle, Terminal, Working, Reading, Ending, Settling
<1>6. Blame'
  BY <1>2, <1>3, <1>4 DEF MonitorOnly, IInv, Blame, Pending, Reading, Ending
<1>7. monitor'.pc \notin Drained
  BY <1>3 DEF Drained, Ending
<1>8. QED
  BY <1>2, <1>3, <1>4, <1>5, <1>6, <1>7, MonitorGoesOn DEF MonitorOnly, IInv, Shape

\* The report: nothing is left in the channel behind it, so that an error has been
\* noted by now.
LEMMA OnTurnCompleteKeeps == ASSUME IInv, NEW s \in Outcome, on_turn_complete(s) PROVE IInv'
<1>1. Recv(s, 0) /\ monitor.pc = "recv" /\ MonitorOnly /\ UNCHANGED turn
  BY DEF on_turn_complete, Recv, At
<1>2. events' \in Seq(Events) /\ events' = <<>> /\ engine.pc \in {"idle", "gone"} /\ ~ Pending("error")
  <2>1. /\ events' \in Seq(Events) /\ events[1].type = s
        /\ Len(events) \in Nat /\ Len(events') \in Nat /\ Len(events) = Len(events') + 1
    BY <1>1, Received DEF IInv
  <2>2. Len(events) = 1 /\ engine.pc \in {"idle", "gone"}
    <3>1. 1 \in 1 .. Len(events)
      BY <2>1
    <3>2. QED
      BY <2>1, <3>1 DEF IInv, Channel
  <2>3. Len(events') = 0
    BY <2>1, <2>2
  <2>4. \A i \in 1 .. Len(events) : events[i].type # "error"
    <3>1. s # "error"
      BY DEF Outcome
    <3>2. \A i \in 1 .. Len(events) : i = 1
      BY <2>2
    <3>3. QED
      BY <2>1, <3>1, <3>2
  <2>5. QED
    BY <2>1, <2>2, <2>3, <2>4 DEF Pending
<1>3. /\ monitor' \in MonitorState /\ monitor'.pc = "status"
      /\ monitor.failed => monitor'.status # "Completed"
  <2>1. PICK t \in Outcome : /\ monitor' = [monitor EXCEPT !.pc = "status", !.status = t]
                             /\ monitor.failed => t # "Completed"
    BY DEF on_turn_complete, reported_status, Outcome
  <2>2. "status" \in MonitorPc /\ monitor \in MonitorState
    BY DEF MonitorPc, Working, Ending, IInv, Shape
  <2>3. QED
    BY ONLY <2>1, <2>2 DEF MonitorState
<1>4. Shape'
  BY <1>1, <1>2, <1>3 DEF MonitorOnly, IInv, Shape
<1>5. Lifecycle'
  BY <1>1, <1>3 DEF MonitorOnly, faults, IInv, Lifecycle, Terminal, Working, Reading, Ending, Settling
<1>6. Channel'
  BY <1>1, <1>2 DEF MonitorOnly, Channel
<1>7. Consents'
  BY <1>1, <1>3, ConsentsStay DEF MonitorOnly, At
<1>8. Blame'
  BY <1>1, <1>2, <1>3 DEF MonitorOnly, IInv, Blame, Reading, Ending
<1>9. QED
  BY <1>4, <1>5, <1>6, <1>7, <1>8 DEF IInv

\* The channel is closed: the monitor ends the turn it was asked to interrupt, or fails.
LEMMA OnClosedKeeps == ASSUME IInv, on_closed PROVE IInv'
<1>1. monitor.pc = "recv" /\ engine.pc = "gone" /\ events = <<>> /\ UNCHANGED <<turn, events>> /\ MonitorOnly
  BY DEF on_closed, At
<1>2. /\ monitor' \in MonitorState
      /\ \/ monitor'.pc = "status" /\ monitor'.status = "Interrupted"
         \/ monitor'.pc = "settle"
  <2>1. {"status", "settle"} \subseteq MonitorPc /\ "Interrupted" \in Outcome /\ monitor \in MonitorState
    BY DEF MonitorPc, Working, Ending, Settling, Outcome, IInv, Shape
  <2>2. QED
    BY <2>1 DEF on_closed, Goto, MonitorState
<1>3. Shape'
  BY <1>1, <1>2 DEF MonitorOnly, IInv, Shape
<1>4. Lifecycle'
  BY <1>1, <1>2 DEF MonitorOnly, faults, IInv, Lifecycle, Terminal, Working, Reading, Ending, Settling
<1>5. Channel'
  BY <1>1 DEF MonitorOnly, IInv, Channel
<1>6. Consents'
  BY <1>1, <1>2, ConsentsStay DEF MonitorOnly, At
<1>7. Blame'
  BY <1>1, <1>2 DEF MonitorOnly, IInv, Blame, Reading, Ending
<1>8. QED
  BY <1>3, <1>4, <1>5, <1>6, <1>7 DEF IInv

\* The status of the turn is settled: it is never improved.
LEMMA TurnStatusKeeps == ASSUME IInv, turn_status \/ close_items PROVE IInv'
<1>1. monitor.pc \in {"status", "close"} /\ UNCHANGED <<turn, events>> /\ MonitorOnly
  BY DEF turn_status, close_items, At
<1>2. /\ monitor' \in MonitorState /\ monitor'.pc \in {"close", "save"}
      /\ monitor'.status = "Completed" => monitor.status = "Completed"
  <2>1. {"close", "save"} \subseteq MonitorPc /\ {"Interrupted", "Failed"} \subseteq Outcome
        /\ monitor \in MonitorState
    BY DEF MonitorPc, Working, Ending, Outcome, IInv, Shape
  <2>2. PICK t \in Outcome, p \in {"close", "save"} :
          /\ monitor' = [monitor EXCEPT !.pc = p, !.status = t]
          /\ t = "Completed" => monitor.status = "Completed"
    BY <2>1 DEF turn_status, close_items, MonitorState
  <2>3. QED
    BY ONLY <2>1, <2>2 DEF MonitorState
<1>3. Lifecycle'
  BY <1>1, <1>2 DEF MonitorOnly, faults, IInv, Lifecycle, Terminal, Working, Reading, Ending, Settling
<1>4. Blame'
  BY <1>1, <1>2 DEF MonitorOnly, IInv, Blame, Reading, Ending
<1>5. monitor.pc \in Drained
  BY <1>1 DEF Drained, Ending
<1>6. QED
  BY <1>1, <1>2, <1>3, <1>4, <1>5, MonitorGoesOn DEF MonitorOnly, IInv, Shape

\* The record of the turn is terminal.
LEMMA SaveTurnKeeps == ASSUME IInv, save_turn PROVE IInv'
<1>1. monitor.pc = "save" /\ UNCHANGED events /\ MonitorOnly /\ monitor.status \in Outcome
  BY DEF save_turn, At, IInv, Shape, MonitorState
<1>2. turn' \in TurnState /\ turn'.status = monitor.status
  BY <1>1 DEF save_turn, IInv, Shape, TurnState
<1>3. monitor' \in MonitorState /\ monitor'.pc = "publish"
  <2>1. "publish" \in MonitorPc
    BY DEF MonitorPc, Drained
  <2>2. QED
    BY <2>1 DEF save_turn, Goto, IInv, Shape, MonitorState
<1>4. Lifecycle'
  BY <1>1, <1>2, <1>3 DEF MonitorOnly, faults, IInv, Lifecycle, Terminal, Working, Reading, Ending, Settling
<1>5. monitor.pc \in Drained /\ monitor.pc \in Ending
  BY <1>1 DEF Drained, Ending
<1>6. Blame'
  BY <1>1, <1>2, <1>3, <1>5 DEF MonitorOnly, IInv, Channel, Blame, Reading, Ending
<1>7. QED
  BY <1>1, <1>2, <1>3, <1>4, <1>5, <1>6, MonitorGoesOn DEF MonitorOnly, IInv, Shape

\* The end is announced, the claim released, or a write fails.
LEMMA EmitCompletedKeeps == ASSUME IInv, emit_completed PROVE IInv'
<1>1. monitor.pc = "publish" /\ ended' = ended + 1 /\ UNCHANGED <<n, records, claim, engine, channels, up, hist>>
  BY DEF emit_completed, At, faults
<1>2. monitor' \in MonitorState /\ monitor'.pc = "release"
  <2>1. "release" \in MonitorPc
    BY DEF MonitorPc, Drained
  <2>2. QED
    BY <2>1 DEF emit_completed, Goto, IInv, Shape, MonitorState
<1>3. Lifecycle'
  BY <1>1, <1>2 DEF records, IInv, Lifecycle, Terminal, Working, Reading, Ending, Settling
<1>4. Blame'
  BY <1>1, <1>2 DEF records, IInv, Blame, Reading, Ending
<1>5. monitor.pc \in Drained /\ ended' \in Nat
  BY <1>1 DEF Drained, IInv, Shape
<1>6. QED
  BY <1>1, <1>2, <1>3, <1>4, <1>5, MonitorGoesOn DEF records, channels, IInv, Shape

\* The monitor gives up its claim of the thread.
LEMMA ReleaseClaimKeeps == ASSUME IInv, release_claim PROVE IInv'
<1>1. /\ monitor.pc = "release" /\ claim' = Unclaimed /\ monitor' = NoMonitor
      /\ UNCHANGED <<n, records, engine, channels, ended, up, hist>>
  BY DEF release_claim, At, faults
<1>2. claim' \in ClaimState /\ ~ claim'.held /\ ~ claim'.auto
  BY <1>1 DEF Unclaimed, ClaimState
<1>3. monitor' \in MonitorState /\ monitor'.pc = "none"
  BY <1>1 DEF NoMonitor, MonitorState, MonitorPc, Drained, Outcome
<1>4. Shape'
  BY <1>1, <1>2, <1>3 DEF records, channels, IInv, Shape
<1>5. Lifecycle'
  BY <1>1, <1>2, <1>3 DEF Lifecycle, Working, Reading, Ending, Settling
<1>6. Channel'
  BY <1>1 DEF channels, IInv, Channel, Drained
<1>7. Consents'
  BY <1>1, <1>2, ConsentsStay DEF records, channels, At
<1>8. Blame'
  BY <1>1, <1>3 DEF records, IInv, Blame, Reading, Ending
<1>9. QED
  BY <1>4, <1>5, <1>6, <1>7, <1>8 DEF IInv

\* A failing write leads to the clean-up.
LEMMA MonitorFailsKeeps == ASSUME IInv, monitor_fails PROVE IInv'
<1>1. /\ monitor.pc \in {"recv", "attach", "close", "save", "publish"}
      /\ UNCHANGED <<n, records, claim, engine, channels, ended, up>>
  BY DEF monitor_fails, At
<1>2. monitor' \in MonitorState /\ monitor'.pc = "settle"
  <2>1. "settle" \in MonitorPc
    BY DEF MonitorPc, Settling
  <2>2. QED
    BY <2>1 DEF monitor_fails, IInv, Shape, MonitorState
<1>3. hist' \in History /\ UNCHANGED <<hist.yes, hist.ran, hist.always, hist.error>>
  BY DEF monitor_fails, At, IInv, Shape, History
<1>4. Lifecycle'
  BY <1>1, <1>2 DEF records, IInv, Lifecycle, Terminal, Working, Reading, Ending, Settling, Outcome
<1>5. Blame'
  BY <1>1, <1>2, <1>3 DEF records, IInv, Blame, Reading, Ending
<1>6. monitor'.pc \notin Drained
  BY <1>2 DEF Drained, Ending
<1>7. QED
  BY <1>1, <1>2, <1>3, <1>4, <1>5, <1>6, MonitorGoesOn DEF records, channels, IInv, Shape

--------------------------------------------------------------------------------
(* The clean-up and the crash.                                             *)

\* The engine is cancelled and the items fail.
LEMMA SettleItemsKeeps == ASSUME IInv, settle_items PROVE IInv'
<1>1. monitor.pc = "settle" /\ engine' = Cancelled
      /\ UNCHANGED <<n, turn, thread, events, approvals, reply, ended, up>>
  BY DEF settle_items, At, channels
<1>2. engine' \in EngineState /\ engine'.pc = engine.pc
  BY <1>1, CancelledTyped DEF IInv
<1>3. claim' \in ClaimState /\ claim'.held = claim.held /\ claim'.auto = claim.auto
  BY DEF settle_items, IInv, Shape, ClaimState
<1>4. monitor' \in MonitorState /\ monitor'.pc = "settle_turn"
  <2>1. "settle_turn" \in MonitorPc
    BY DEF MonitorPc, Settling
  <2>2. QED
    BY <2>1 DEF settle_items, Goto, IInv, Shape, MonitorState
<1>5. hist' \in History /\ UNCHANGED <<hist.yes, hist.ran, hist.always, hist.error>>
  BY DEF settle_items, IInv, Shape, History
<1>6. Shape'
  BY <1>1, <1>2, <1>3, <1>4, <1>5 DEF IInv, Shape
<1>7. Lifecycle'
  BY <1>1, <1>3, <1>4 DEF IInv, Lifecycle, Working, Reading, Ending, Settling
<1>8. Channel'
  BY <1>1, <1>2, <1>4 DEF IInv, Channel, Drained, Ending
<1>9. Consents'
  BY <1>1, <1>3, <1>5, ConsentsStay DEF At
<1>10. Blame'
  BY <1>1, <1>2, <1>4, <1>5 DEF IInv, Blame, Reading, Ending
<1>11. QED
  BY <1>6, <1>7, <1>8, <1>9, <1>10 DEF IInv

\* A turn in progress fails, and only then is its end announced.
LEMMA SettleTurnKeeps == ASSUME IInv, settle_turn PROVE IInv'
<1>1. monitor.pc = "settle_turn" /\ UNCHANGED <<n, thread, claim, engine, channels, ended, up>>
  BY DEF settle_turn, At
<1>2. /\ turn' \in TurnState /\ (turn' = turn \/ turn'.status = "Failed")
      /\ monitor' \in MonitorState
      /\ monitor'.pc = "evict" \/ (monitor'.pc = "settle_announce" /\ turn'.status = "Failed")
  <2>1. "evict" \in MonitorPc /\ "settle_announce" \in MonitorPc /\ "Failed" \in Outcome
    BY DEF MonitorPc, Outcome
  <2>2. PICK p \in {"evict", "settle_announce"} :
          /\ monitor' = [monitor EXCEPT !.pc = p]
          /\ p = "evict" \/ turn' = [turn EXCEPT !.status = "Failed"]
    BY DEF settle_turn, Goto
  <2>3. turn \in TurnState /\ monitor \in MonitorState
    BY DEF IInv, Shape
  <2>4. turn' = turn \/ turn' = [turn EXCEPT !.status = "Failed"]
    BY DEF settle_turn
  <2>5. monitor' \in MonitorState /\ monitor'.pc = p
    BY ONLY <2>1, <2>2, <2>3 DEF MonitorState
  <2>6. turn' = [turn EXCEPT !.status = "Failed"] => turn' \in TurnState /\ turn'.status = "Failed"
    BY ONLY <2>1, <2>3 DEF TurnState
  <2>7. QED
    BY <2>2, <2>3, <2>4, <2>5, <2>6
<1>3. hist' \in History /\ UNCHANGED <<hist.yes, hist.ran, hist.always, hist.error>>
  BY DEF settle_turn, IInv, Shape, History
<1>4. Lifecycle'
  BY <1>1, <1>2 DEF IInv, Lifecycle, Terminal, Working, Reading, Ending, Settling, Outcome
<1>5. Blame'
  BY <1>1, <1>2, <1>3 DEF IInv, Blame, Reading, Ending
<1>6. monitor'.pc \notin Drained
  BY <1>2 DEF Drained, Ending
<1>7. QED
  BY <1>1, <1>2, <1>3, <1>4, <1>5, <1>6, MonitorGoesOn DEF channels, IInv, Shape

\* A failing monitor announces the turn's end.
LEMMA SettleAnnounceKeeps == ASSUME IInv, settle_announce PROVE IInv'
<1>1. monitor.pc = "settle_announce" /\ UNCHANGED <<n, records, claim, engine, channels, up>>
  BY DEF settle_announce, At
<1>2. monitor' \in MonitorState /\ monitor'.pc = "evict"
  <2>1. "evict" \in MonitorPc
    BY DEF MonitorPc
  <2>2. QED
    BY <2>1 DEF settle_announce, Goto, IInv, Shape, MonitorState
<1>3. hist' \in History /\ UNCHANGED <<hist.yes, hist.ran, hist.always, hist.error>>
  BY DEF settle_announce, IInv, Shape, History
<1>4. Lifecycle'
  BY <1>1, <1>2 DEF records, IInv, Lifecycle, Working, Reading, Ending, Settling
<1>5. Blame'
  BY <1>1, <1>2, <1>3 DEF records, IInv, Blame, Reading, Ending
<1>6. monitor'.pc \notin Drained /\ ended' \in Nat
  BY <1>2 DEF Drained, Ending, settle_announce, IInv, Shape
<1>7. QED
  BY <1>1, <1>2, <1>3, <1>4, <1>5, <1>6, MonitorGoesOn DEF records, channels, IInv, Shape

\* What belongs to the turn goes: claim, monitor, engine and channels.
LEMMA GoneKeeps ==
  ASSUME IInv, claim' = Unclaimed, monitor' = NoMonitor, engine' = IdleEngine,
         events' = <<>>, approvals' = <<>>, reply' = "none", UNCHANGED <<n, records, ended, hist>>
  PROVE  IInv'
<1>1. claim' \in ClaimState /\ ~ claim'.held /\ ~ claim'.auto
  BY DEF Unclaimed, ClaimState
<1>2. monitor' \in MonitorState /\ monitor'.pc = "none"
  BY DEF NoMonitor, MonitorState, MonitorPc, Drained, Outcome
<1>3. engine' \in EngineState /\ engine'.pc = "idle"
  BY DEF IdleEngine, EngineState
<1>4. Shape'
  BY <1>1, <1>2, <1>3 DEF records, IInv, Shape
<1>5. Lifecycle'
  BY <1>1, <1>2 DEF Lifecycle, Working, Reading, Ending, Settling
<1>6. Channel'
  BY <1>3 DEF Channel
<1>7. Consents'
  <2>1. claim'.auto \/ thread' \/ reply' = "remember" => hist'.always
    BY <1>1 DEF records, IInv, Consents
  <2>2. QED
    BY <2>1 DEF IInv, Consents, Consent
<1>8. Blame'
  BY <1>2, <1>3 DEF records, IInv, Blame, Reading, Ending
<1>9. QED
  BY <1>4, <1>5, <1>6, <1>7, <1>8 DEF IInv

\* A failing monitor evicts the engine.
LEMMA SettleEvictKeeps == ASSUME IInv, settle_evict PROVE IInv'
<1>1. reply = "none"
  BY DEF settle_evict, IInv, Consents, At
<1>2. QED
  BY <1>1, GoneKeeps DEF settle_evict

\* The process dies.
LEMMA CrashKeeps == ASSUME IInv, crash PROVE IInv'
BY GoneKeeps DEF crash

\* At the next start the turn in progress is interrupted, then its items.
LEMMA RecoverTurnKeeps == ASSUME IInv, recover_turn PROVE IInv'
<1>1. /\ monitor.pc = "none" /\ events = <<>>
      /\ UNCHANGED <<n, thread, claim, engine, channels, ended, hist>>
  BY DEF recover_turn, At, IInv, Channel, Drained
<1>2. CASE UNCHANGED <<turn, monitor>>
  <2>1. Shape' /\ Lifecycle' /\ Channel'
    BY <1>1, <1>2 DEF channels, IInv, Shape, Lifecycle, Channel, Terminal
  <2>2. Consents'
    BY <1>1, <1>2, ConsentsStay DEF channels, At
  <2>3. Blame'
    BY <1>1, <1>2, BlameStays DEF channels
  <2>4. QED
    BY <2>1, <2>2, <2>3 DEF IInv
<1>3. CASE turn' = [turn EXCEPT !.status = "Interrupted"] /\ Goto("recover")
  <2>1. turn' \in TurnState /\ turn'.status = "Interrupted"
    BY <1>3 DEF IInv, Shape, TurnState, Outcome
  <2>2. monitor' \in MonitorState /\ monitor'.pc = "recover"
    <3>1. "recover" \in MonitorPc
      BY DEF MonitorPc, Drained
    <3>2. QED
      BY <1>3, <3>1 DEF Goto, IInv, Shape, MonitorState
  <2>3. Lifecycle'
    BY <1>1, <2>2 DEF IInv, Lifecycle, Working, Reading, Ending, Settling
  <2>4. Blame'
    BY <2>1, <2>2 DEF Blame, Reading, Ending
  <2>5. monitor.pc \in Drained
    BY <1>1 DEF Drained
  <2>6. QED
    BY <1>1, <2>1, <2>2, <2>3, <2>4, <2>5, MonitorGoesOn DEF channels, IInv, Shape
<1>4. QED
  BY <1>2, <1>3 DEF recover_turn

\* The items of an interrupted turn are closed at the restart.
LEMMA RecoverItemsKeeps == ASSUME IInv, recover_items PROVE IInv'
<1>1. /\ monitor.pc = "recover" /\ monitor' = NoMonitor
      /\ UNCHANGED <<n, turn, thread, claim, engine, channels, ended, hist>>
  BY DEF recover_items, At
<1>2. monitor' \in MonitorState /\ monitor'.pc = "none"
  BY <1>1 DEF NoMonitor, MonitorState, MonitorPc, Drained, Outcome
<1>3. Lifecycle'
  BY <1>1, <1>2 DEF IInv, Lifecycle, Working, Reading, Ending, Settling
<1>4. Blame'
  BY <1>1, <1>2 DEF IInv, Blame, Reading, Ending
<1>5. monitor.pc \in Drained
  BY <1>1 DEF Drained
<1>6. QED
  BY <1>1, <1>2, <1>3, <1>4, <1>5, MonitorGoesOn DEF channels, IInv, Shape

--------------------------------------------------------------------------------
(* What a completed turn leaves open.                                      *)

\* What the channel still owes a message that was announced at place j of it (0: it
\* was read): the monitor will not see another message before its end, unless the
\* engine gave it up.
MessageOwed(m, j) ==
  /\ \A k \in (j + 1) .. Len(events) :
       events[k].type = "message" =>
         m \in hist.dropped \/ \E l \in (j + 1) .. (k - 1) : events[l].type = "message_done"
  /\ \/ m = hist.live \/ m \in hist.dropped
     \/ \E l \in (j + 1) .. Len(events) : events[l].type = "message_done"

\* And a call: its end, unless the engine is at it, gave it up, or the turn failed.
CallOwed(c, j) ==
  \/ engine.pc \in Streaming /\ c \in engine.calls
  \/ c \in hist.dropped
  \/ \E l \in (j + 1) .. Len(events) : events[l] = Event("tool_done", c)
  \/ engine.pc \notin Streaming /\ hist.report # "Completed"

Owed ==
  /\ engine.pc \in Streaming \cup {"queued"} => hist.report = "none"
  /\ engine.pc = "queued" => monitor.tools = {}
  /\ \A k \in 1 .. Len(events) :
       /\ events[k].type \in Outcome => events[k].type = hist.report
       /\ events[k].type = "message" => events[k].id # 0 /\ MessageOwed(events[k].id, k)
       /\ events[k].type = "tool" => CallOwed(events[k].id, k)

\* The message the next MessageComplete ends.
Current == IF At("attach") /\ monitor.on \notin monitor.tools THEN monitor.on ELSE monitor.message

\* The monitor knows its open items, and what it saved is listed or about to be.
Tracked ==
  monitor.pc \in Reading =>
    /\ Current # 0 => MessageOwed(Current, 0)
    /\ \A c \in monitor.tools : CallOwed(c, 0)
    /\ \A i \in Item : item[i] = "InProgress" => i \in monitor.tools \cup {Current} \cup hist.dropped
    /\ \A i \in Item : item[i] # "Absent" \/ i \in monitor.tools \cup {monitor.message} =>
         i \in turn.item_ids \/ (At("attach") /\ i = monitor.on)

\* Behind a report of success only the current message is left to be closed.
Closing ==
  monitor.pc \in Ending /\ monitor.status = "Completed" =>
    /\ \A i \in Item : item[i] # "Absent" \/ i = monitor.message => i \in turn.item_ids
    /\ \A i \in Item : item[i] = "InProgress" =>
         i \in hist.dropped \/ (monitor.pc # "save" /\ i = monitor.message)

Items == item \in [Item -> {"Absent", "InProgress"} \cup Outcome]

Accounts == Items /\ Owed /\ Tracked /\ Closing /\ CompletedIsClean

\* What a step of the engine sends, if anything.
Sends(e, k) ==
  \/ Emit(e, k) /\ e \in EventType /\ k \in Nat
  \/ e = "nothing" /\ UNCHANGED events

\* It leaves no message and no call behind without sending its end, giving it up, or
\* failing.
Pays(e, k) ==
  /\ hist.dropped \subseteq hist'.dropped
  /\ e \notin {"message", "message_done"} => hist'.live = hist.live
  /\ e = "message" => k # 0 /\ k = hist'.live /\ hist.live \in hist'.dropped \cup {0}
  /\ e = "tool" => engine'.pc \in Streaming /\ k \in engine'.calls
  /\ \A c \in engine.calls :
       \/ engine'.pc \in Streaming /\ c \in engine'.calls
       \/ c \in hist'.dropped
       \/ e = "tool_done" /\ k = c
       \/ engine'.pc \notin Streaming /\ hist'.report # "Completed"
  /\ engine'.pc # "queued"
  /\ engine'.pc \in Streaming => hist'.report = "none"
  /\ e \in Outcome => hist'.report = e

\* An engine that takes a step keeps the accounts.
LEMMA EnginePays ==
  ASSUME IInv, Accounts, engine.pc \in Streaming, UNCHANGED <<turn, item, monitor>>,
         NEW e, NEW k, Sends(e, k), Pays(e, k)
  PROVE  Accounts'
<1>1. /\ Len(events) \in Nat /\ Len(events') \in Nat
      /\ \A i \in 1 .. Len(events) :
           i \in 1 .. Len(events') /\ events'[i] = events[i] /\ events[i].type \notin Outcome
      /\ \/ e = "nothing" /\ Len(events') = Len(events)
         \/ Len(events') = Len(events) + 1 /\ events'[Len(events')] = Event(e, k)
  <2>1. \A i \in 1 .. Len(events) : events[i].type \notin Outcome
    BY DEF IInv, Channel, Streaming
  <2>2. CASE e = "nothing" /\ UNCHANGED events
    BY <2>1, <2>2 DEF IInv, Shape
  <2>3. CASE Emit(e, k) /\ e \in EventType /\ k \in Nat
    <3>1. Event(e, k) \in Events /\ events' = Append(events, Event(e, k))
      BY <2>3 DEF Event, Events, Emit
    <3>2. QED
      BY <2>1, <3>1 DEF IInv, Shape
  <2>4. QED
    BY <2>2, <2>3 DEF Sends
<1>2. Event(e, k).type = e /\ Event(e, k).id = k
  BY DEF Event
<1>3. ASSUME NEW m, m # 0, NEW j \in 0 .. Len(events), MessageOwed(m, j)
      PROVE  MessageOwed(m, j)'
  <2>1. m = hist.live /\ e = "message" => m \in hist'.dropped
    BY <1>3 DEF Pays
  <2>2. ASSUME NEW i \in (j + 1) .. Len(events')
        PROVE  \/ i \in (j + 1) .. Len(events) /\ events'[i] = events[i]
               \/ i = Len(events) + 1 /\ events'[i] = Event(e, k)
    <3>1. CASE i \in (j + 1) .. Len(events)
      BY <1>1, <3>1
    <3>2. CASE i \notin (j + 1) .. Len(events)
      <4>1. i = Len(events) + 1 /\ i = Len(events')
        BY <1>1, <3>2
      <4>2. QED
        BY <1>1, <4>1
    <3>3. QED
      BY <3>1, <3>2
  <2>3. \A l \in (j + 1) .. Len(events) : l \in (j + 1) .. Len(events') /\ events'[l] = events[l]
    BY <1>1
  <2>4. ASSUME NEW i \in (j + 1) .. Len(events'), events'[i].type = "message"
        PROVE  m \in hist'.dropped \/ \E l \in (j + 1) .. (i - 1) : events'[l].type = "message_done"
    <3>1. CASE i \in (j + 1) .. Len(events) /\ events'[i] = events[i]
      <4>1. m \in hist.dropped \/ \E l \in (j + 1) .. (i - 1) : events[l].type = "message_done"
        BY <1>3, <2>4, <3>1 DEF MessageOwed
      <4>2. \A l \in (j + 1) .. (i - 1) : events'[l] = events[l]
        BY <1>1, <3>1
      <4>3. QED
        BY <4>1, <4>2 DEF Pays
    <3>2. CASE i = Len(events) + 1 /\ e = "message"
      <4>1. \/ m = hist.live \/ m \in hist.dropped
            \/ \E l \in (j + 1) .. Len(events) : events[l].type = "message_done"
        BY <1>3 DEF MessageOwed
      <4>2. \A l \in (j + 1) .. Len(events) : l \in (j + 1) .. (i - 1) /\ events'[l] = events[l]
        BY <1>1, <3>2
      <4>3. QED
        BY <2>1, <3>2, <4>1, <4>2 DEF Pays
    <3>3. QED
      BY <1>2, <2>2, <2>4, <3>1, <3>2
  <2>5. \/ m = hist'.live \/ m \in hist'.dropped
        \/ \E l \in (j + 1) .. Len(events') : events'[l].type = "message_done"
    <3>1. CASE m \in hist.dropped
      BY <3>1 DEF Pays
    <3>2. CASE \E l \in (j + 1) .. Len(events) : events[l].type = "message_done"
      BY <2>3, <3>2
    <3>3. CASE m = hist.live /\ e = "message_done"
      <4>1. Len(events') \in (j + 1) .. Len(events') /\ events'[Len(events')].type = "message_done"
        BY <1>1, <1>2, <3>3
      <4>2. QED
        BY <4>1
    <3>4. CASE m = hist.live /\ e # "message_done"
      BY <2>1, <3>4 DEF Pays
    <3>5. QED
      BY <1>3, <3>1, <3>2, <3>3, <3>4 DEF MessageOwed
  <2>6. QED
    BY <2>4, <2>5 DEF MessageOwed
<1>4. ASSUME NEW c, NEW j \in 0 .. Len(events), CallOwed(c, j)
      PROVE  CallOwed(c, j)'
  <2>1. CASE c \in engine.calls
    <3>1. CASE e = "tool_done" /\ k = c
      <4>1. Len(events') \in (j + 1) .. Len(events') /\ events'[Len(events')] = Event("tool_done", c)
        BY <1>1, <3>1
      <4>2. QED
        BY <4>1 DEF CallOwed, Event
    <3>2. QED
      BY <2>1, <3>1 DEF Pays, CallOwed
  <2>2. CASE c \in hist.dropped
    BY <2>2 DEF Pays, CallOwed
  <2>3. CASE \E l \in (j + 1) .. Len(events) : events[l] = Event("tool_done", c)
    <3>1. PICK l \in (j + 1) .. Len(events) : events[l] = Event("tool_done", c)
      BY <2>3
    <3>2. l \in (j + 1) .. Len(events') /\ events'[l] = Event("tool_done", c)
      BY <1>1, <3>1
    <3>3. QED
      BY <3>2 DEF CallOwed, Event
  <2>4. QED
    BY <1>4, <2>1, <2>2, <2>3 DEF CallOwed
<1>5. Owed'
  <2>1. ASSUME NEW i \in 1 .. Len(events')
        PROVE  /\ events'[i].type \in Outcome => events'[i].type = hist'.report
               /\ events'[i].type = "message" => events'[i].id # 0 /\ MessageOwed(events[i].id, i)'
               /\ events'[i].type = "tool" => CallOwed(events[i].id, i)'
    <3>1. CASE i \in 1 .. Len(events)
      <4>1. PICK m : m = events[i].id
        OBVIOUS
      <4>2. events'[i] = events[i] /\ events[i].type \notin Outcome /\ i \in 0 .. Len(events)
        BY <1>1, <3>1
      <4>3. events[i].type = "message" => m # 0 /\ MessageOwed(m, i)'
        BY <1>3, <3>1, <4>1, <4>2 DEF Accounts, Owed
      <4>4. events[i].type = "tool" => CallOwed(m, i)'
        BY <1>4, <3>1, <4>1, <4>2 DEF Accounts, Owed
      <4>5. QED
        BY <4>1, <4>2, <4>3, <4>4
    <3>2. CASE i = Len(events) + 1 /\ events'[i] = Event(e, k)
      <4>1. events'[i].type = e /\ events'[i].id = k
        BY <1>2, <3>2
      <4>2. e = "message" => MessageOwed(k, i)'
        BY <1>1, <3>2 DEF MessageOwed, Pays
      <4>3. e = "tool" => CallOwed(k, i)'
        BY DEF CallOwed, Pays
      <4>4. QED
        BY <4>1, <4>2, <4>3 DEF Pays
    <3>3. QED
      BY <1>1, <3>1, <3>2
  <2>2. QED
    BY <2>1 DEF Owed, Pays
<1>6. Tracked'
  <2> SUFFICES ASSUME monitor.pc \in Reading PROVE Tracked'
    BY DEF Tracked
  <2>1. PICK m : m = Current
    OBVIOUS
  <2>2. Current' = m
    BY <2>1 DEF Current, At
  <2>3. 0 \in 0 .. Len(events)
    BY <1>1
  <2>4. m # 0 => MessageOwed(m, 0)'
    BY <1>3, <2>1, <2>3 DEF Accounts, Tracked
  <2>5. \A c \in monitor.tools : CallOwed(c, 0)'
    BY <1>4, <2>3 DEF Accounts, Tracked
  <2>6. QED
    BY <2>1, <2>2, <2>4, <2>5 DEF Accounts, Tracked, Pays, At
<1>7. Items' /\ Closing' /\ CompletedIsClean'
  <2>1. monitor.pc \notin Ending /\ turn.status # "Completed"
    BY DEF IInv, Channel, Drained, Blame, Streaming
  <2>2. QED
    BY <2>1 DEF Accounts, Items, Closing, CompletedIsClean
<1>8. QED
  BY <1>5, <1>6, <1>7 DEF Accounts

\* Whatever the engine does, it keeps the accounts (handle_deepseek_turn).
LEMMA EngineAccounts == ASSUME IInv, Accounts, EngineNext \/ engine_dies PROVE Accounts'
<1>1. /\ hist \in History /\ engine \in EngineState
      /\ engine.pc \in Streaming \cup {"queued"} => hist.report = "none"
  BY DEF IInv, Shape, Accounts, Owed
<1>2. UNCHANGED <<turn, item, monitor>>
  BY DEF EngineNext, engine_take, engine_message, engine_tool, engine_error, engine_stream_end,
     engine_retry, engine_next_step, engine_ask, engine_tool_done, engine_verdict,
     engine_wait_cancelled, engine_finish, engine_dies, EngineOnly, records
<1>3. {"message", "message_done", "tool", "tool_done", "error", "approval"} \cup Outcome = EventType
  BY DEF EventType
<1>4. CASE engine_take
  <2>1. /\ engine.pc = "queued" /\ engine'.pc = "stream" /\ events = <<>> /\ UNCHANGED <<events, hist>>
        /\ monitor.tools = {} /\ hist.report = "none"
    BY <1>1, <1>4 DEF engine_take, IdleEngine, IInv, Channel, Accounts, Owed
  <2>2. Owed'
    BY <2>1, <1>2 DEF Owed, Streaming
  <2>3. Tracked'
    BY <1>2, <2>1 DEF Accounts, Tracked, Current, At, MessageOwed
  <2>4. QED
    BY <1>2, <2>1, <2>2, <2>3 DEF Accounts, Items, Closing, CompletedIsClean
<1>5. CASE engine_message
  <2>1. engine.made \in Nat /\ hist.live \in Nat
    BY <1>1 DEF EngineState, History
  <2>2. PICK k \in Nat : k = engine.made + 1
    BY <2>1
  <2>3. /\ engine.pc = "stream" /\ engine'.pc = "stream" /\ engine'.calls = engine.calls
        /\ Emit("message", k)
    BY <1>1, <1>5, <2>2 DEF engine_message, EngineState
  <2>4. /\ hist'.live = k /\ hist'.dropped = hist.dropped \cup ({hist.live} \ {0})
        /\ hist'.report = hist.report
    BY <1>1, <1>5, <2>2 DEF engine_message, History
  <2>5. Pays("message", k)
    BY <1>1, <2>1, <2>2, <2>3, <2>4 DEF Pays, Streaming, Outcome
  <2>6. Sends("message", k) /\ engine.pc \in Streaming
    BY <1>3, <2>2, <2>3 DEF Sends, Streaming
  <2>7. QED
    BY <1>2, <2>5, <2>6, EnginePays
<1>6. CASE engine_tool
  <2>1. engine.made \in Nat
    BY <1>1 DEF EngineState
  <2>2. PICK k \in Nat : k = engine.made + 1
    BY <2>1
  <2>3. /\ engine.pc = "stream" /\ engine'.pc = "stream" /\ engine'.calls = engine.calls \cup {k}
        /\ UNCHANGED hist
    BY <1>1, <1>6, <2>2 DEF engine_tool, EngineState
  <2>4. engine.pc \in Streaming /\ Pays("tool", k) /\ Pays("nothing", k)
    BY <1>1, <2>3 DEF Pays, Streaming, Outcome
  <2>5. Sends("tool", k) \/ Sends("nothing", k)
    BY <1>3, <1>6, <2>2 DEF engine_tool, Sends
  <2>6. QED
    BY <1>2, <2>4, <2>5, EnginePays
<1>7. CASE engine_error
  <2>1. /\ engine.pc = "stream" /\ engine'.pc = "stream" /\ engine'.calls = engine.calls
        /\ UNCHANGED <<hist.live, hist.dropped, hist.report>>
    BY <1>1, <1>7 DEF engine_error, EngineState, History
  <2>2. engine.pc \in Streaming /\ Pays("error", 0) /\ Sends("error", 0)
    BY <1>1, <1>3, <1>7, <2>1 DEF Pays, Streaming, Outcome, Sends, engine_error
  <2>3. QED
    BY <1>2, <2>2, EnginePays
<1>8. ASSUME NEW d, MessageComplete(d), engine.pc \in Streaming, engine'.pc \in Streaming,
             engine'.calls \cup d = engine.calls \cup d, d \subseteq engine.calls
      PROVE  Accounts'
  <2>1. /\ hist'.dropped = hist.dropped \cup d /\ hist'.report = hist.report
        /\ \/ Emit("message_done", 0)
           \/ UNCHANGED events /\ hist'.live = hist.live
    BY <1>1, <1>8 DEF MessageComplete, History
  <2>2. Pays("message_done", 0) /\ (hist'.live = hist.live => Pays("nothing", 0))
    BY <1>1, <1>8, <2>1 DEF Pays, Streaming, Outcome
  <2>3. Sends("message_done", 0) \/ (Sends("nothing", 0) /\ hist'.live = hist.live)
    BY <1>3, <2>1 DEF Sends
  <2>4. QED
    BY <1>2, <1>8, <2>2, <2>3, EnginePays
<1>9. CASE engine_stream_end
  <2>1. /\ engine.pc \in Streaming /\ engine'.pc \in Streaming /\ engine'.calls = engine.calls
        /\ MessageComplete({})
    BY <1>1, <1>9 DEF engine_stream_end, EngineState, Streaming
  <2>2. QED
    BY <1>8, <2>1
<1>10. CASE engine_retry
  <2>1. /\ engine.pc \in Streaming /\ engine'.pc \in Streaming /\ engine'.calls = {}
        /\ MessageComplete(engine.calls)
    BY <1>1, <1>10 DEF engine_retry, EngineState, Streaming
  <2>2. QED
    BY <1>8, <2>1
<1>11. CASE engine_next_step
  <2>1. /\ engine.pc \in Streaming /\ engine'.pc \in Streaming /\ engine'.calls = engine.calls
        /\ UNCHANGED <<events, hist>>
    BY <1>1, <1>11 DEF engine_next_step, EngineState, Streaming
  <2>2. Pays("nothing", 0) /\ Sends("nothing", 0)
    BY <1>1, <2>1 DEF Pays, Streaming, Outcome, Sends
  <2>3. QED
    BY <1>2, <2>1, <2>2, EnginePays
<1>12. CASE engine_ask
  <2>1. PICK c \in engine.calls : Emit("approval", c) /\ engine' = [engine EXCEPT !.pc = "wait", !.asking = c]
    BY <1>12 DEF engine_ask
  <2>2. /\ c \in Nat /\ engine.pc \in Streaming /\ engine'.pc \in Streaming /\ engine'.calls = engine.calls
        /\ UNCHANGED hist
    BY <1>1, <1>12, <2>1 DEF engine_ask, EngineState, Streaming
  <2>3. Pays("approval", c) /\ Sends("approval", c)
    BY <1>1, <1>3, <2>1, <2>2 DEF Pays, Streaming, Outcome, Sends
  <2>4. QED
    BY <1>2, <2>2, <2>3, EnginePays
<1>13. ASSUME NEW c \in Nat, ToolDone(c), engine.pc \in Streaming,
              UNCHANGED <<hist.live, hist.dropped, hist.report>>
       PROVE  Accounts'
  <2>1. engine'.pc \in Streaming /\ engine'.calls = engine.calls \ {c} /\ Emit("tool_done", c)
    BY <1>1, <1>13 DEF ToolDone, EngineState, Streaming
  <2>2. Pays("tool_done", c) /\ Sends("tool_done", c)
    BY <1>1, <1>3, <1>13, <2>1 DEF Pays, Streaming, Outcome, Sends
  <2>3. QED
    BY <1>2, <1>13, <2>2, EnginePays
<1>14. CASE engine_tool_done \/ engine_wait_cancelled
  <2>1. engine.calls \in SUBSET Nat /\ engine.asking \in Nat
    BY <1>1 DEF EngineState
  <2>2. PICK c \in Nat : ToolDone(c)
    BY <1>14, <2>1 DEF engine_tool_done, engine_wait_cancelled
  <2>3. engine.pc \in Streaming /\ UNCHANGED hist
    BY <1>14 DEF engine_tool_done, engine_wait_cancelled, Streaming
  <2>4. QED
    BY <1>13, <2>2, <2>3
<1>15. CASE engine_verdict
  <2>1. engine.pc \in Streaming /\ engine.asking \in Nat
    BY <1>1, <1>15 DEF engine_verdict, Streaming, EngineState
  <2>2. UNCHANGED <<hist.live, hist.dropped, hist.report>>
    BY <1>1, <1>15 DEF engine_verdict, History
  <2>3. CASE ToolDone(engine.asking)
    BY <1>13, <2>1, <2>2, <2>3
  <2>4. CASE UNCHANGED <<engine, events, hist>>
    <3>1. Pays("nothing", 0) /\ Sends("nothing", 0)
      BY <1>1, <2>1, <2>4 DEF Pays, Streaming, Outcome, Sends
    <3>2. QED
      BY <1>2, <2>1, <3>1, EnginePays
  <2>5. QED
    BY <1>15, <2>3, <2>4 DEF engine_verdict
<1>16. ASSUME NEW s \in Outcome, engine_finish(s) PROVE Accounts'
  <2>1. /\ engine.pc \in Streaming /\ engine'.pc = "idle" /\ Emit(s, 0)
        /\ hist'.report = s /\ UNCHANGED <<hist.live, hist.dropped>>
        /\ s = "Completed" => engine.calls = {}
    BY <1>1, <1>16 DEF engine_finish, IdleEngine, Streaming, History
  <2>2. Pays(s, 0)
    BY <2>1 DEF Pays, Streaming, Outcome
  <2>3. Sends(s, 0)
    BY <2>1, <1>3 DEF Sends
  <2>4. QED
    BY <1>2, <2>1, <2>2, <2>3, EnginePays
<1>17. CASE engine_dies
  <2>1. /\ engine.pc \in Streaming /\ engine'.pc = "gone" /\ UNCHANGED <<events, hist>>
    BY <1>17 DEF engine_dies, IdleEngine, Streaming, channels
  <2>2. Pays("nothing", 0) /\ Sends("nothing", 0)
    BY <1>1, <2>1 DEF Pays, Streaming, Outcome, Sends
  <2>3. QED
    BY <1>2, <2>1, <2>2, EnginePays
<1>18. QED
  BY <1>4, <1>5, <1>6, <1>7, <1>9, <1>10, <1>11, <1>12, <1>14, <1>15, <1>16, <1>17 DEF EngineNext

\* The monitor reads an event: what is owed behind it moves up by one place.
LEMMA ReadOwed ==
  ASSUME IInv, Accounts, NEW e, NEW k, Recv(e, k),
         UNCHANGED <<engine, hist.live, hist.dropped, hist.report>>
  PROVE  /\ Owed'
         /\ e \in Outcome => e = hist.report /\ Len(events) = 1
         /\ e = "message" => k # 0 /\ MessageOwed(k, 0)'
         /\ e = "tool" => CallOwed(k, 0)'
         /\ \A m : MessageOwed(m, 0) /\ e = "message" => m \in hist.dropped
         /\ \A m : MessageOwed(m, 0) /\ e # "message_done" => MessageOwed(m, 0)'
         /\ \A c : CallOwed(c, 0) => CallOwed(c, 0)' \/ (e = "tool_done" /\ k = c)
<1>1. /\ Len(events) \in Nat /\ Len(events') \in Nat /\ Len(events) = Len(events') + 1
      /\ \A i \in 1 .. Len(events') : events'[i] = events[i + 1]
  BY Received DEF IInv
<1>2. events[1] = Event(e, k) /\ Event(e, k).type = e /\ Event(e, k).id = k
  BY DEF Recv, Event, IInv, Shape
<1>3. ASSUME NEW m, NEW j \in 0 .. Len(events), MessageOwed(m, j), j = 0 => e # "message_done",
             NEW h \in 0 .. Len(events'), h = IF j = 0 THEN 0 ELSE j - 1
      PROVE  MessageOwed(m, h)'
  <2>1. \A l \in (j + 1) .. Len(events) :
          l = 1 \/ (l - 1 \in (h + 1) .. Len(events') /\ events'[l - 1] = events[l])
    BY <1>1, <1>3
  <2>2. \A l \in (j + 1) .. Len(events) : events[l].type = "message_done" => l # 1
    BY <1>2, <1>3
  <2>3. ASSUME NEW i \in (h + 1) .. Len(events'), events'[i].type = "message"
        PROVE  m \in hist.dropped \/ \E l \in (h + 1) .. (i - 1) : events'[l].type = "message_done"
    <3>1. i + 1 \in (j + 1) .. Len(events) /\ events[i + 1].type = "message"
      BY <1>1, <1>3, <2>3
    <3>2. m \in hist.dropped \/ \E l \in (j + 1) .. (i + 1 - 1) : events[l].type = "message_done"
      BY <1>3, <3>1 DEF MessageOwed
    <3>3. ASSUME NEW l \in (j + 1) .. (i + 1 - 1), events[l].type = "message_done"
          PROVE  l - 1 \in (h + 1) .. (i - 1) /\ events'[l - 1].type = "message_done"
      <4>1. l \in (j + 1) .. Len(events)
        BY <1>1, <1>3, <2>3, <3>3
      <4>2. QED
        BY <1>1, <1>3, <2>1, <2>2, <2>3, <3>3, <4>1
    <3>4. QED
      BY <3>2, <3>3
  <2>4. \/ m = hist.live \/ m \in hist.dropped
        \/ \E l \in (h + 1) .. Len(events') : events'[l].type = "message_done"
    BY <1>3, <2>1, <2>2 DEF MessageOwed
  <2>5. QED
    BY <2>3, <2>4 DEF MessageOwed
<1>4. ASSUME NEW c, NEW j \in 0 .. Len(events), CallOwed(c, j), ~ (j = 0 /\ e = "tool_done" /\ k = c),
             NEW h \in 0 .. Len(events'), h = IF j = 0 THEN 0 ELSE j - 1
      PROVE  CallOwed(c, h)'
  <2>1. CASE \E l \in (j + 1) .. Len(events) : events[l] = Event("tool_done", c)
    <3>1. PICK l \in (j + 1) .. Len(events) : events[l] = Event("tool_done", c)
      BY <2>1
    <3>2. l # 1
      BY <1>2, <1>4, <3>1 DEF Event
    <3>3. l - 1 \in (h + 1) .. Len(events') /\ events'[l - 1] = Event("tool_done", c)
      BY <1>1, <1>4, <3>1, <3>2
    <3>4. QED
      BY <3>3 DEF CallOwed, Event
  <2>2. QED
    BY <1>4, <2>1 DEF CallOwed
<1>5. /\ 0 \in 0 .. Len(events) /\ 0 \in 0 .. Len(events') /\ 1 \in 1 .. Len(events)
      /\ 1 \in 0 .. Len(events)
  BY <1>1
<1>6. engine.pc # "queued"
  BY <1>1 DEF IInv, Channel
<1>7. Owed'
  <2>1. ASSUME NEW i \in 1 .. Len(events')
        PROVE  /\ events'[i].type \in Outcome => events'[i].type = hist'.report
               /\ events'[i].type = "message" => events'[i].id # 0 /\ MessageOwed(events[i].id, i)'
               /\ events'[i].type = "tool" => CallOwed(events[i].id, i)'
    <3>1. PICK m : m = events'[i].id
      OBVIOUS
    <3>2. /\ i + 1 \in 1 .. Len(events) /\ events'[i] = events[i + 1] /\ i + 1 \in 0 .. Len(events)
          /\ i \in 0 .. Len(events') /\ i = IF i + 1 = 0 THEN 0 ELSE i + 1 - 1
          /\ i + 1 # 0
      BY <1>1
    <3>3. /\ events[i + 1].type \in Outcome => events[i + 1].type = hist.report
          /\ events[i + 1].type = "message" => m # 0 /\ MessageOwed(m, i + 1)
          /\ events[i + 1].type = "tool" => CallOwed(m, i + 1)
      BY <3>1, <3>2 DEF Accounts, Owed
    <3>4. MessageOwed(m, i + 1) => MessageOwed(m, i)'
      BY <1>3, <3>2
    <3>5. CallOwed(m, i + 1) => CallOwed(m, i)'
      BY <1>4, <3>2
    <3>6. QED
      BY <3>1, <3>2, <3>3, <3>4, <3>5
  <2>2. QED
    BY <1>6, <2>1 DEF Accounts, Owed
<1>8. e \in Outcome => e = hist.report /\ Len(events) = 1
  BY <1>2, <1>5 DEF Accounts, Owed, IInv, Channel
<1>9. 0 = IF 1 = 0 THEN 0 ELSE 1 - 1
  OBVIOUS
<1>10. e = "message" => k # 0 /\ MessageOwed(k, 0)'
  <2>1. e = "message" => k # 0 /\ MessageOwed(k, 1)
    BY <1>2, <1>5 DEF Accounts, Owed
  <2>2. QED
    BY <1>3, <1>5, <1>9, <2>1
<1>11. e = "tool" => CallOwed(k, 0)'
  <2>1. e = "tool" => CallOwed(k, 1)
    BY <1>2, <1>5 DEF Accounts, Owed
  <2>2. QED
    BY <1>4, <1>5, <1>9, <2>1
<1>12. \A m : MessageOwed(m, 0) /\ e = "message" => m \in hist.dropped
  <2> SUFFICES ASSUME NEW m, MessageOwed(m, 0), e = "message" PROVE m \in hist.dropped
    OBVIOUS
  <2>1. 1 \in (0 + 1) .. Len(events) /\ events[1].type = "message"
    BY <1>2, <1>5
  <2>2. m \in hist.dropped \/ \E l \in (0 + 1) .. (1 - 1) : events[l].type = "message_done"
    BY <2>1 DEF MessageOwed
  <2>3. QED
    BY <2>2
<1>13. \A m : MessageOwed(m, 0) /\ e # "message_done" => MessageOwed(m, 0)'
  BY <1>3, <1>5
<1>14. \A c : CallOwed(c, 0) => CallOwed(c, 0)' \/ (e = "tool_done" /\ k = c)
  BY <1>4, <1>5
<1>15. QED
  BY <1>7, <1>8, <1>10, <1>11, <1>12, <1>13, <1>14

\* The monitor reads the end of a message or a call, an error or a question.
LEMMA StillTracked ==
  ASSUME IInv, Accounts, NEW e, NEW k, Recv(e, k), e \notin {"message", "tool"} \cup Outcome,
         UNCHANGED <<turn, engine, hist.live, hist.dropped, hist.report>>,
         monitor'.pc \in {"recv", "approve"}, monitor'.tools \subseteq monitor.tools,
         e = "tool_done" => k \notin monitor'.tools,
         monitor'.message = 0 \/ (monitor'.message = monitor.message /\ e # "message_done"),
         Items', \A i \in Item : item'[i] # item[i] =>
                   item'[i] # "InProgress" /\ i \in monitor.tools \cup {monitor.message},
         \A i \in Item : item'[i] = "InProgress" =>
           /\ i \in monitor.tools => i \in monitor'.tools
           /\ i = monitor.message => i = monitor'.message
  PROVE  Accounts'
<1>1. /\ monitor.pc = "recv" /\ monitor.pc \in Reading /\ monitor.pc \in Working
      /\ monitor'.pc # "attach" /\ monitor'.pc \notin Ending
  BY DEF Recv, At, Reading, Working, Ending
<1>2. turn.status = "InProgress"
  BY <1>1 DEF IInv, Lifecycle
<1>3. Current = monitor.message /\ Current' = monitor'.message
  BY <1>1 DEF Current, At
<1>4. Owed' /\ (\A m : MessageOwed(m, 0) /\ e # "message_done" => MessageOwed(m, 0)')
      /\ \A c : CallOwed(c, 0) => CallOwed(c, 0)' \/ (e = "tool_done" /\ k = c)
  BY ReadOwed
<1>5. monitor'.message # 0 => MessageOwed(Current, 0)'
  <2>1. PICK m : m = monitor.message
    OBVIOUS
  <2>2. monitor'.message # 0 => MessageOwed(m, 0)'
    BY <1>1, <1>3, <1>4, <2>1 DEF Accounts, Tracked
  <2>3. QED
    BY <1>3, <2>1, <2>2
<1>6. \A c \in monitor'.tools : CallOwed(c, 0)'
  BY <1>1, <1>4 DEF Accounts, Tracked
<1>7. \A i \in Item : item'[i] = "InProgress" => i \in monitor'.tools \cup {Current'} \cup hist'.dropped
  BY <1>1, <1>3 DEF Accounts, Tracked
<1>8. \A i \in Item : item'[i] # "Absent" \/ i \in monitor'.tools \cup {monitor'.message} => i \in turn'.item_ids
  <2>1. 0 \notin Item
    BY TurnAssumption DEF Item
  <2>2. QED
    BY <1>1, <2>1 DEF Accounts, Tracked, At
<1>9. Tracked'
  BY <1>3, <1>5, <1>6, <1>7, <1>8 DEF Tracked
<1>10. QED
  BY <1>1, <1>2, <1>4, <1>9 DEF Accounts, Closing, CompletedIsClean

\* Nothing of the channel is touched.
LEMMA OwedStays ==
  ASSUME Accounts, UNCHANGED <<events, engine.pc, engine.calls, hist.live, hist.dropped, hist.report>>,
         monitor'.tools \in {monitor.tools, {}}
  PROVE  /\ Owed'
         /\ \A m : MessageOwed(m, 0) => MessageOwed(m, 0)'
         /\ \A c : CallOwed(c, 0) => CallOwed(c, 0)'
<1>1. \A m, j : MessageOwed(m, j) => MessageOwed(m, j)'
  BY DEF MessageOwed
<1>2. \A c, j : CallOwed(c, j) => CallOwed(c, j)'
  BY DEF CallOwed, Event
<1>3. ASSUME NEW i \in 1 .. Len(events)
      PROVE  /\ events[i].type = "message" => MessageOwed(events[i].id, i)'
             /\ events[i].type = "tool" => CallOwed(events[i].id, i)'
  <2>1. PICK m : m = events[i].id
    OBVIOUS
  <2>2. m = events'[i].id
    BY <2>1
  <2>3. events[i].type = "message" => MessageOwed(m, i)'
    BY <1>1, <2>1 DEF Accounts, Owed
  <2>4. events[i].type = "tool" => CallOwed(m, i)'
    BY <1>2, <2>1 DEF Accounts, Owed
  <2>5. QED
    BY <2>2, <2>3, <2>4
<1>4. Owed'
  BY <1>3 DEF Accounts, Owed
<1>5. QED
  BY <1>1, <1>2, <1>4

\* Nor are the items and what the monitor knows of them.
LEMMA TrackedStays ==
  ASSUME IInv, Accounts, monitor.pc \in Reading, monitor'.pc \in Reading, UNCHANGED <<turn, item>>,
         UNCHANGED <<monitor.tools, monitor.message, Current>>,
         At("attach") <=> At("attach")', At("attach") => monitor'.on = monitor.on,
         UNCHANGED <<events, engine.pc, engine.calls, hist.live, hist.dropped, hist.report>>
  PROVE  Accounts'
<1>1. PICK m : m = Current
  OBVIOUS
<1>2. Owed' /\ (m # 0 => MessageOwed(m, 0)') /\ \A c \in monitor.tools : CallOwed(c, 0)'
  BY <1>1, OwedStays DEF Accounts, Tracked
<1>3. Tracked'
  BY <1>1, <1>2 DEF Accounts, Tracked
<1>4. monitor'.pc \notin Ending /\ turn.status = "InProgress"
  BY DEF Reading, Ending, Working, IInv, Lifecycle
<1>5. QED
  BY <1>2, <1>3, <1>4 DEF Accounts, Items, Closing, CompletedIsClean

\* The monitor has done with the items.
LEMMA NoMoreTracked ==
  ASSUME Accounts, monitor'.pc \notin Reading \cup Ending, monitor'.tools \in {monitor.tools, {}},
         UNCHANGED <<events, engine.pc, engine.calls, hist.live, hist.dropped, hist.report>>,
         Items', CompletedIsClean'
  PROVE  Accounts'
BY OwedStays DEF Accounts, Tracked, Closing

\* A start event.
LEMMA ItemStartedAccounts ==
  ASSUME IInv, Accounts, NEW i \in Item, NEW e \in {"message", "tool"}, on_item_started(e, i)
  PROVE  Accounts'
<1>1. /\ monitor.pc = "recv" /\ monitor.pc \in Reading /\ monitor.pc \in Working /\ Recv(e, i)
      /\ UNCHANGED <<turn, engine, hist>>
  BY DEF on_item_started, Recv, At, Reading, Working, MonitorOnly
<1>2. /\ monitor'.pc = "attach" /\ monitor'.on = i /\ monitor'.message = monitor.message
      /\ monitor'.tools = IF e = "tool" THEN monitor.tools \cup {i} ELSE monitor.tools
  <2>1. PICK t : t = IF e = "tool" THEN monitor.tools \cup {i} ELSE monitor.tools
    OBVIOUS
  <2>2. monitor' = [monitor EXCEPT !.pc = "attach", !.on = i, !.active = TRUE, !.tools = t]
        /\ monitor \in MonitorState
    BY <2>1 DEF on_item_started, IInv, Shape
  <2>3. QED
    BY ONLY <2>1, <2>2 DEF MonitorState
<1>3. turn.status = "InProgress" /\ Items'
      /\ \A j \in Item : item'[j] = IF j = i THEN "InProgress" ELSE item[j]
  BY <1>1 DEF IInv, Lifecycle, on_item_started, Accounts, Items
<1>4. Current = monitor.message /\ Current' = IF i \in monitor'.tools THEN monitor.message ELSE i
  BY <1>1, <1>2 DEF Current, At
<1>5. PICK m, h : m = Current /\ h = Current'
  OBVIOUS
<1>6. /\ Owed'
      /\ e = "message" => i # 0 /\ MessageOwed(i, 0)'
      /\ e = "tool" => CallOwed(i, 0)'
      /\ MessageOwed(m, 0) => MessageOwed(m, 0)' /\ (e = "message" => m \in hist.dropped)
      /\ \A c : CallOwed(c, 0) => CallOwed(c, 0)'
  BY <1>1, ReadOwed
<1>7. m # 0 => MessageOwed(m, 0)
  BY <1>1, <1>5 DEF Accounts, Tracked
<1>8. h # 0 => MessageOwed(h, 0)'
  BY <1>2, <1>4, <1>5, <1>6, <1>7
<1>9. \A c \in monitor'.tools : CallOwed(c, 0)'
  BY <1>1, <1>2, <1>6 DEF Accounts, Tracked
<1>10. \A j \in Item : item'[j] = "InProgress" => j \in monitor'.tools \cup {h} \cup hist.dropped
  <2>1. 0 \notin Item
    BY TurnAssumption DEF Item
  <2>2. \A j \in Item : item[j] = "InProgress" => j \in monitor.tools \cup {m} \cup hist.dropped
    BY <1>1, <1>5 DEF Accounts, Tracked
  <2>3. QED
    BY <1>2, <1>3, <1>4, <1>5, <1>6, <1>7, <2>1, <2>2
<1>11. \A j \in Item : item'[j] # "Absent" \/ j \in monitor'.tools \cup {monitor'.message} =>
         j \in turn.item_ids \/ j = i
  BY <1>1, <1>2, <1>3 DEF Accounts, Tracked, At
<1>12. Tracked'
  BY <1>1, <1>2, <1>5, <1>8, <1>9, <1>10, <1>11 DEF Tracked, At
<1>13. QED
  BY <1>1, <1>2, <1>3, <1>6, <1>12 DEF Accounts, Closing, CompletedIsClean, Ending

\* The end of a message or a call, an error, a question.
LEMMA EventAccounts ==
  ASSUME IInv, Accounts,
         on_message_complete \/ on_error \/ \E i \in Item : on_tool_complete(i) \/ on_approval(i)
  PROVE  Accounts'
<1>1. /\ monitor \in MonitorState /\ monitor.tools \in SUBSET Nat /\ hist \in History
      /\ item \in [Item -> {"Absent", "InProgress"} \cup Outcome]
  BY DEF IInv, Shape, MonitorState, Accounts, Items
<1>2. {"message_done", "error", "tool_done", "approval"} \cap ({"message", "tool"} \cup Outcome) = {}
  BY DEF Outcome
<1>3. CASE on_message_complete
  <2>1. /\ Recv("message_done", 0) /\ monitor.pc = "recv" /\ UNCHANGED <<turn, engine, hist>>
    BY <1>3 DEF on_message_complete, MonitorOnly, Recv, At
  <2>2. monitor'.pc = "recv" /\ monitor'.tools = monitor.tools /\ monitor'.message = 0
    BY <1>1, <1>3, <2>1 DEF on_message_complete, MonitorState
  <2>3. /\ Items'
        /\ \A j \in Item : item'[j] = IF j = monitor.message THEN "Completed" ELSE item[j]
    <3>1. 0 \notin Item /\ "Completed" \in Outcome
      BY TurnAssumption DEF Item, Outcome
    <3>2. QED
      BY <1>1, <1>3, <3>1 DEF on_message_complete, Items
  <2>4. QED
    BY <1>2, <2>1, <2>2, <2>3, StillTracked
<1>4. CASE on_error
  <2>1. Recv("error", 0) /\ monitor.pc = "recv" /\ UNCHANGED <<turn, item, engine, hist>>
    BY <1>4 DEF on_error, MonitorOnly, Recv, At
  <2>2. monitor'.pc = "recv" /\ monitor'.tools = monitor.tools /\ monitor'.message = monitor.message
    BY <1>1, <1>4, <2>1 DEF on_error, MonitorState
  <2>3. Items'
    BY <1>1, <2>1 DEF Items
  <2>4. QED
    BY <1>2, <2>1, <2>2, <2>3, StillTracked
<1>5. ASSUME NEW i \in Item, on_tool_complete(i) PROVE Accounts'
  <2>1. Recv("tool_done", i) /\ monitor.pc = "recv" /\ UNCHANGED <<turn, engine, hist>>
    BY <1>5 DEF on_tool_complete, MonitorOnly, Recv, At
  <2>2. /\ monitor'.pc = "recv" /\ monitor'.tools = monitor.tools \ {i}
        /\ monitor'.message = monitor.message
    <3>1. PICK t \in SUBSET Nat : t = monitor.tools \ {i}
      BY <1>1
    <3>2. monitor' = [monitor EXCEPT !.tools = t, !.active = TRUE]
      BY <1>5, <3>1 DEF on_tool_complete
    <3>3. QED
      BY <1>1, <2>1, <3>1, <3>2 DEF MonitorState
  <2>3. /\ Items'
        /\ i \notin monitor.tools => item' = item
        /\ i \in monitor.tools => item'[i] \in {"Completed", "Failed"}
        /\ \A j \in Item : j # i => item'[j] = item[j]
    BY <1>1, <1>5 DEF on_tool_complete, Items, Outcome
  <2>4. QED
    BY <1>2, <2>1, <2>2, <2>3, StillTracked
<1>6. ASSUME NEW i \in Item, on_approval(i) PROVE Accounts'
  <2>1. Recv("approval", i) /\ monitor.pc = "recv" /\ UNCHANGED <<turn, item, engine>>
    BY <1>6 DEF on_approval, records, Recv, At
  <2>2. /\ monitor'.pc \in {"recv", "approve"} /\ monitor'.tools = monitor.tools
        /\ monitor'.message = monitor.message
    BY <1>1, <1>6, <2>1 DEF on_approval, MonitorState
  <2>3. UNCHANGED <<hist.live, hist.dropped, hist.report>> /\ Items'
    <3>1. (\E y : hist' = [hist EXCEPT !.yes = y]) \/ UNCHANGED hist
      BY <1>6 DEF on_approval
    <3>2. QED
      BY <1>1, <2>1, <3>1 DEF History, Items
  <2>4. QED
    BY <1>2, <2>1, <2>2, <2>3, StillTracked
<1>7. QED
  BY <1>3, <1>4, <1>5, <1>6

\* The item is listed, and a message is the current one.
LEMMA AttachAccounts == ASSUME IInv, Accounts, attach_item_to_turn PROVE Accounts'
<1>1. /\ monitor.pc = "attach" /\ monitor.pc \in Reading /\ monitor.pc \in Working
      /\ UNCHANGED <<item, events, engine, hist>>
  BY DEF attach_item_to_turn, At, Reading, Working, MonitorOnly
<1>2. /\ monitor \in MonitorState /\ turn \in TurnState /\ turn.status = "InProgress"
  BY <1>1 DEF IInv, Shape, Lifecycle
<1>3. PICK m : m = Current
  OBVIOUS
<1>4. m = IF monitor.on \in monitor.tools THEN monitor.message ELSE monitor.on
  BY <1>1, <1>3 DEF Current, At
<1>5. monitor'.pc = "recv" /\ monitor'.tools = monitor.tools /\ monitor'.message = m
  <2>1. monitor' = [monitor EXCEPT !.pc = "recv", !.message = m]
    BY <1>2, <1>4 DEF attach_item_to_turn, MonitorState
  <2>2. QED
    BY <1>2, <2>1 DEF MonitorState
<1>6. turn'.status = "InProgress" /\ turn'.item_ids = turn.item_ids \cup {monitor.on}
  <2>1. PICK l : l = turn.item_ids \cup {monitor.on}
    OBVIOUS
  <2>2. turn' = [turn EXCEPT !.item_ids = l]
    BY <2>1 DEF attach_item_to_turn
  <2>3. QED
    BY <1>2, <2>1, <2>2 DEF TurnState
<1>7. Owed' /\ (m # 0 => MessageOwed(m, 0)') /\ \A c \in monitor.tools : CallOwed(c, 0)'
  BY <1>1, <1>3, <1>5, OwedStays DEF Accounts, Tracked
<1>8. Current' = m
  BY <1>5 DEF Current, At
<1>9. \A i \in Item : item[i] = "InProgress" => i \in monitor'.tools \cup {m} \cup hist.dropped
  BY <1>1, <1>3, <1>5 DEF Accounts, Tracked
<1>10. \A i \in Item : item[i] # "Absent" \/ i \in monitor'.tools \cup {monitor'.message} => i \in turn'.item_ids
  BY <1>1, <1>4, <1>5, <1>6 DEF Accounts, Tracked
<1>11. Tracked'
  BY <1>1, <1>5, <1>7, <1>8, <1>9, <1>10 DEF Tracked
<1>12. QED
  BY <1>1, <1>5, <1>6, <1>7, <1>11 DEF Accounts, Items, Closing, CompletedIsClean, Ending

\* The report: behind one of success no call is left that was not given up.
LEMMA ReportAccounts ==
  ASSUME IInv, Accounts, NEW s \in Outcome, on_turn_complete(s)
  PROVE  Accounts'
<1>1. /\ monitor.pc = "recv" /\ monitor.pc \in Reading /\ monitor.pc \in Working /\ Recv(s, 0)
      /\ UNCHANGED <<turn, item, engine, hist>>
  BY DEF on_turn_complete, Recv, At, Reading, Working, MonitorOnly
<1>2. /\ Owed' /\ s = hist.report /\ Len(events) = 1
  BY <1>1, ReadOwed
<1>3. /\ monitor'.pc = "status" /\ monitor'.message = monitor.message
      /\ monitor'.status = "Completed" => s = "Completed"
  <2>1. PICK t : t = reported_status(s)
    OBVIOUS
  <2>2. monitor' = [monitor EXCEPT !.pc = "status", !.status = t] /\ monitor \in MonitorState
    BY <2>1 DEF on_turn_complete, IInv, Shape
  <2>3. t = "Completed" => s = "Completed"
    BY <2>1 DEF reported_status
  <2>4. QED
    BY <2>2, <2>3 DEF MonitorState
<1>4. turn.status = "InProgress" /\ engine.pc \notin Streaming
  <2>1. events[1].type = s /\ 1 \in 1 .. Len(events)
    BY <1>1, <1>2, Received DEF IInv
  <2>2. QED
    BY <1>1, <2>1 DEF IInv, Lifecycle, Channel, Streaming
<1>5. s = "Completed" => monitor.tools \subseteq hist.dropped
  <2> SUFFICES ASSUME s = "Completed", NEW c \in monitor.tools PROVE c \in hist.dropped
    OBVIOUS
  <2>1. CallOwed(c, 0)
    BY <1>1 DEF Accounts, Tracked
  <2>2. events[1] = Event(s, 0)
    BY <1>1 DEF Recv, IInv, Shape
  <2>3. \A l \in (0 + 1) .. Len(events) : events[l] # Event("tool_done", c)
    BY <1>2, <2>2 DEF Event
  <2>4. QED
    BY <1>2, <1>4, <2>1, <2>3 DEF CallOwed
<1>6. Current = monitor.message
  BY <1>1 DEF Current, At
<1>7. Closing'
  BY <1>1, <1>3, <1>5, <1>6 DEF Accounts, Tracked, Closing, At
<1>8. QED
  BY <1>1, <1>2, <1>3, <1>4, <1>7 DEF Accounts, Items, Tracked, Reading, CompletedIsClean

\* The message at hand is closed, the status settled and saved.
LEMMA EndingAccounts ==
  ASSUME IInv, Accounts, on_closed \/ turn_status \/ close_items \/ save_turn
  PROVE  Accounts'
<1>1. monitor \in MonitorState /\ turn \in TurnState
      /\ item \in [Item -> {"Absent", "InProgress"} \cup Outcome]
  BY DEF IInv, Shape, Accounts, Items
<1>2. UNCHANGED <<events, engine, hist>> /\ monitor'.tools = monitor.tools
  BY <1>1 DEF on_closed, turn_status, close_items, save_turn, MonitorOnly, Goto, MonitorState
<1>3. Owed'
  BY <1>2, OwedStays
<1>4. CASE on_closed
  <2>1. UNCHANGED <<turn, item>> /\ monitor.pc \in Working
    BY <1>4 DEF on_closed, MonitorOnly, At, Working, Reading
  <2>2. monitor'.pc = "settle" \/ (monitor'.pc = "status" /\ monitor'.status = "Interrupted")
    BY <1>1, <1>4 DEF on_closed, Goto, MonitorState
  <2>3. QED
    BY <1>2, <1>3, <2>1, <2>2 DEF Accounts, Items, Tracked, Reading, Ending, Closing, CompletedIsClean
<1>5. CASE turn_status
  <2>1. UNCHANGED <<turn, item>> /\ monitor.pc = "status"
    BY <1>5 DEF turn_status, MonitorOnly, At
  <2>2. /\ monitor'.pc = "close" /\ monitor'.message = monitor.message
        /\ monitor'.status = "Completed" => monitor.status = "Completed"
    <3>1. PICK t : t = IF claim.interrupt THEN "Interrupted" ELSE monitor.status
      OBVIOUS
    <3>2. monitor' = [monitor EXCEPT !.pc = "close", !.status = t]
      BY <1>1, <1>5, <3>1 DEF turn_status
    <3>3. QED
      BY <1>1, <3>1, <3>2 DEF MonitorState
  <2>3. QED
    BY <1>2, <1>3, <2>1, <2>2 DEF Accounts, Items, Tracked, Reading, Ending, Closing, CompletedIsClean
<1>6. CASE close_items
  <2>1. UNCHANGED turn /\ monitor.pc = "close" /\ turn.status = "InProgress"
    BY <1>6 DEF close_items, MonitorOnly, At, IInv, Lifecycle, Working, Ending
  <2>2. /\ monitor'.pc = "save" /\ monitor'.message = monitor.message
        /\ monitor'.status = "Completed" => monitor.status = "Completed"
    <3>1. PICK t : t = IF monitor.status = "Completed" /\ ~ monitor.active THEN "Failed" ELSE monitor.status
      OBVIOUS
    <3>2. monitor' = [monitor EXCEPT !.pc = "save", !.status = t]
      BY <1>1, <1>6, <3>1 DEF close_items
    <3>3. QED
      BY <1>1, <3>1, <3>2 DEF MonitorState
  <2>3. /\ Items'
        /\ \A i \in Item : IF i = monitor.message THEN item'[i] \in Outcome ELSE item'[i] = item[i]
    <3>1. 0 \notin Item /\ {"Interrupted", "Completed"} \subseteq Outcome
      BY TurnAssumption DEF Item, Outcome
    <3>2. QED
      BY <1>1, <1>6, <3>1 DEF close_items, Items
  <2>4. "InProgress" \notin Outcome /\ "Absent" \notin Outcome
    BY DEF Outcome
  <2>5. QED
    BY <1>2, <1>3, <2>1, <2>2, <2>3, <2>4 DEF Accounts, Tracked, Reading, Ending, Closing, CompletedIsClean
<1>7. CASE save_turn
  <2>1. UNCHANGED item /\ monitor.pc = "save"
    BY <1>7 DEF save_turn, MonitorOnly, At
  <2>2. /\ monitor'.pc = "publish" /\ turn'.status = monitor.status /\ turn'.item_ids = turn.item_ids
    BY <1>1, <1>7 DEF save_turn, Goto, MonitorState, TurnState
  <2>3. \A i \in Item : item[i] \in {"Absent", "InProgress"} \cup Outcome
    BY <1>1
  <2>4. CompletedIsClean'
    BY <1>2, <2>1, <2>2, <2>3 DEF Accounts, Closing, Ending, CompletedIsClean
  <2>5. QED
    BY <1>2, <1>3, <2>1, <2>2, <2>4 DEF Accounts, Items, Tracked, Reading, Ending, Closing
<1>8. QED
  BY <1>4, <1>5, <1>6, <1>7

\* The clean-up, the end of the claim, crash and recovery.
LEMMA CleanUpAccounts ==
  ASSUME IInv, Accounts,
         \/ emit_completed \/ release_claim \/ monitor_fails
         \/ settle_items \/ settle_turn \/ settle_announce
  PROVE  Accounts'
<1>1. /\ monitor \in MonitorState /\ turn \in TurnState /\ hist \in History /\ engine \in EngineState
      /\ item \in [Item -> {"Absent", "InProgress"} \cup Outcome]
  BY DEF IInv, Shape, Accounts, Items
<1>2. /\ monitor'.pc \notin Reading \cup Ending
      /\ monitor'.tools \in {monitor.tools, {}}
  <2>1. (\E p \in {"release", "settle", "settle_turn", "settle_announce", "evict"} :
           monitor' = [monitor EXCEPT !.pc = p]) \/ monitor' = NoMonitor
    BY DEF emit_completed, release_claim, monitor_fails, settle_items, settle_turn, settle_announce, Goto
  <2>2. QED
    BY <1>1, <2>1 DEF MonitorState, NoMonitor, Reading, Ending
<1>3. UNCHANGED <<events, engine.pc, engine.calls, hist.live, hist.dropped, hist.report>>
  <2>1. hist' = hist \/ \E b : hist' = [hist EXCEPT !.lost = b]
    BY DEF emit_completed, release_claim, monitor_fails, settle_items, settle_turn, settle_announce
  <2>2. engine' = engine \/ \E b : engine' = [engine EXCEPT !.cancelled = b]
    BY DEF emit_completed, release_claim, monitor_fails, settle_items, settle_turn, settle_announce, Cancelled
  <2>3. UNCHANGED events
    BY DEF emit_completed, release_claim, monitor_fails, settle_items, settle_turn, settle_announce, channels
  <2>4. QED
    BY <1>1, <2>1, <2>2, <2>3 DEF History, EngineState
<1>4. CASE UNCHANGED <<turn, item>>
  BY <1>2, <1>3, <1>4, NoMoreTracked DEF Accounts, Items, CompletedIsClean
<1>5. CASE settle_items
  <2>1. UNCHANGED turn /\ Items'
        /\ \A i \in Item : item'[i] = item[i] \/ (item[i] = "InProgress" /\ item'[i] = "Failed")
    BY <1>1, <1>5 DEF settle_items, Items, Outcome
  <2>2. CompletedIsClean'
    BY <1>3, <2>1 DEF Accounts, CompletedIsClean, Outcome
  <2>3. QED
    BY <1>2, <1>3, <2>1, <2>2, NoMoreTracked
<1>6. CASE settle_turn
  <2>1. UNCHANGED item /\ (UNCHANGED turn \/ turn'.status = "Failed")
    BY <1>1, <1>6 DEF settle_turn, TurnState
  <2>2. Items' /\ CompletedIsClean'
    BY <1>3, <2>1 DEF Accounts, Items, CompletedIsClean
  <2>3. QED
    BY <1>2, <1>3, <2>2, NoMoreTracked
<1>7. QED
  BY <1>4, <1>5, <1>6 DEF emit_completed, release_claim, monitor_fails, settle_announce, records

\* What does not concern items and events.
LEMMA AsideAccounts ==
  ASSUME IInv, Accounts,
         \/ interrupt_turn \/ spawn_child \/ child_ends \/ on_decision \/ on_timeout
         \/ \E v \in {"allow", "remember", "deny"} : deliver_external_approval(v)
  PROVE  Accounts'
<1>1. /\ monitor \in MonitorState /\ hist \in History /\ engine \in EngineState
  BY DEF IInv, Shape
<1>2. UNCHANGED <<turn, item, events, engine.pc, engine.calls, hist.live, hist.dropped, hist.report>>
  <2>1. hist' = hist \/ \E y, b : hist' = [hist EXCEPT !.yes = y, !.always = b]
    BY DEF interrupt_turn, spawn_child, child_ends, on_decision, on_timeout, deliver_external_approval
  <2>2. engine' = engine \/ \E b : engine' = [engine EXCEPT !.cancelled = b]
    BY DEF interrupt_turn, spawn_child, child_ends, on_decision, on_timeout, deliver_external_approval, Cancelled
  <2>3. UNCHANGED <<turn, item, events>>
    BY DEF interrupt_turn, spawn_child, child_ends, on_decision, on_timeout, deliver_external_approval,
       channels, records
  <2>4. QED
    BY <1>1, <2>1, <2>2, <2>3 DEF History, EngineState
<1>3. CASE UNCHANGED monitor
  <2>1. CASE monitor.pc \in Reading
    BY <1>2, <1>3, <2>1, TrackedStays DEF Current, At
  <2>2. CASE monitor.pc \notin Reading
    <3>1. Owed'
      BY <1>2, <1>3, OwedStays
    <3>2. QED
      BY <1>2, <1>3, <2>2, <3>1 DEF Accounts, Items, Tracked, Closing, CompletedIsClean
  <2>3. QED
    BY <2>1, <2>2
<1>4. CASE on_decision \/ on_timeout
  <2>1. /\ monitor.pc = "approve" /\ monitor'.pc = "recv"
        /\ monitor'.tools = monitor.tools /\ monitor'.message = monitor.message
    BY <1>1, <1>4 DEF on_decision, on_timeout, At, Goto, MonitorState
  <2>2. QED
    BY <1>2, <2>1, TrackedStays DEF Current, At, Reading
<1>5. QED
  BY <1>3, <1>4 DEF interrupt_turn, spawn_child, child_ends, deliver_external_approval

\* Turns begin and processes restart without items at hand and with empty channels.
LEMMA TurnAccounts ==
  ASSUME IInv, Accounts, start_turn \/ settle_evict \/ crash \/ recover_turn \/ recover_items
  PROVE  Accounts'
<1>1. /\ monitor \in MonitorState /\ turn \in TurnState
      /\ item \in [Item -> {"Absent", "InProgress"} \cup Outcome]
  BY DEF IInv, Shape, Accounts, Items
<1>2. CASE start_turn
  <2>1. events' = <<>>
    BY <1>2 DEF start_turn, channels, IInv, Lifecycle, Channel, Drained
  <2>2. /\ monitor'.pc = "recv" /\ monitor'.tools = {} /\ monitor'.message = 0
        /\ engine'.pc = "queued" /\ hist'.report = "none" /\ turn'.status = "InProgress"
        /\ item' = [i \in Item |-> "Absent"]
    BY <1>2 DEF start_turn, NoMonitor, IdleEngine, NoHistory
  <2>3. Owed'
    BY <2>1, <2>2 DEF Owed, Streaming
  <2>4. 0 \notin Item
    BY TurnAssumption DEF Item
  <2>5. Tracked'
    BY <2>2, <2>4 DEF Tracked, Current, At
  <2>6. QED
    BY <2>2, <2>3, <2>5 DEF Accounts, Items, Closing, Ending, CompletedIsClean
<1>3. CASE settle_evict \/ crash
  <2>1. /\ events' = <<>> /\ engine' = IdleEngine /\ monitor' = NoMonitor /\ UNCHANGED <<turn, item, hist>>
    BY <1>3 DEF settle_evict, crash, records
  <2>2. Owed'
    BY <2>1 DEF Owed, IdleEngine, Streaming
  <2>3. QED
    BY <2>1, <2>2 DEF Accounts, Items, Tracked, Reading, Closing, Ending, CompletedIsClean, NoMonitor
<1>4. CASE recover_turn
  <2>1. /\ monitor.pc = "none" /\ UNCHANGED <<item, events, engine, hist>>
    BY <1>4 DEF recover_turn, At, channels
  <2>2. /\ monitor'.pc \in {"none", "recover"} /\ monitor'.tools = monitor.tools
        /\ UNCHANGED turn \/ turn'.status = "Interrupted"
    BY <1>1, <1>4, <2>1 DEF recover_turn, Goto, MonitorState, TurnState
  <2>3. Items' /\ CompletedIsClean'
    BY <2>1, <2>2 DEF Accounts, Items, CompletedIsClean
  <2>4. QED
    BY <2>1, <2>2, <2>3, NoMoreTracked DEF Reading, Ending
<1>5. CASE recover_items
  <2>1. /\ monitor' = NoMonitor /\ UNCHANGED <<turn, events, engine, hist>>
        /\ item' = [i \in Item |-> IF i \in turn.item_ids /\ item[i] = "InProgress"
                                   THEN "Interrupted" ELSE item[i]]
    BY <1>5 DEF recover_items, channels
  <2>2. /\ Items'
        /\ \A i \in Item : item'[i] = item[i] \/ (item[i] = "InProgress" /\ item'[i] = "Interrupted")
    BY <1>1, <2>1 DEF Items, Outcome
  <2>3. CompletedIsClean'
    BY <2>1, <2>2 DEF Accounts, CompletedIsClean, Outcome
  <2>4. QED
    BY <2>1, <2>2, <2>3, NoMoreTracked DEF NoMonitor, Reading, Ending
<1>6. QED
  BY <1>2, <1>3, <1>4, <1>5

\* Every step keeps the accounts.
LEMMA NextAccounts == IInv /\ Accounts /\ [Next]_vars => Accounts'
<1> SUFFICES ASSUME IInv, Accounts, [Next]_vars PROVE Accounts'
  OBVIOUS
<1>1. CASE UNCHANGED vars
  <2>1. UNCHANGED <<turn, item, events, engine, hist, monitor>>
    BY <1>1 DEF vars, records, channels
  <2>2. Owed'
    BY <2>1, OwedStays
  <2>3. Items' /\ Closing' /\ CompletedIsClean'
    BY <2>1 DEF Accounts, Items, Closing, CompletedIsClean
  <2>4. Tracked'
    <3>1. monitor.pc \in Reading => Tracked'
      BY <2>1, TrackedStays DEF Current, At, Accounts
    <3>2. QED
      BY <2>1, <3>1 DEF Tracked
  <2>5. QED
    BY <2>2, <2>3, <2>4 DEF Accounts
<1>2. CASE EngineNext \/ engine_dies
  BY <1>2, EngineAccounts
<1>3. CASE MonitorNext
  BY <1>3, ItemStartedAccounts, EventAccounts, AttachAccounts, AsideAccounts, ReportAccounts,
     EndingAccounts, CleanUpAccounts, TurnAccounts DEF MonitorNext
<1>4. CASE Next /\ ~ EngineNext /\ ~ engine_dies /\ ~ MonitorNext
  BY <1>4, TurnAccounts, AsideAccounts, CleanUpAccounts DEF Next
<1>5. QED
  BY <1>1, <1>2, <1>3, <1>4

--------------------------------------------------------------------------------
(* Theorems.                                                               *)

\* Every step keeps the invariant.
LEMMA NextKeeps == IInv /\ [Next]_vars => IInv'
<1> SUFFICES ASSUME IInv, [Next]_vars PROVE IInv'
  OBVIOUS
<1>1. CASE UNCHANGED vars
  <2>1. UNCHANGED <<n, turn, thread, claim, engine, events, approvals, reply, monitor, ended, up, hist>>
    BY <1>1 DEF vars, records, channels, faults
  <2>2. Shape' /\ Lifecycle' /\ Channel' /\ Blame'
    BY <2>1 DEF IInv, Shape, Lifecycle, Channel, Blame, Terminal, Pending
  <2>3. Consents'
    BY <2>1, ConsentsStay DEF At
  <2>4. QED
    BY <2>2, <2>3 DEF IInv
<1>2. CASE EngineNext
  BY <1>2, EngineTakeKeeps, EngineMessageKeeps, EngineToolKeeps, EngineErrorKeeps, EngineStreamKeeps,
     EngineNextStepKeeps, EngineAskKeeps, EngineToolDoneKeeps, EngineVerdictKeeps, EngineFinishKeeps
  DEF EngineNext
<1>3. CASE MonitorNext
  BY <1>3, OnItemStartedKeeps, OnItemDoneKeeps, OnApprovalKeeps, AttachItemToTurnKeeps, OnDecisionKeeps,
     OnTurnCompleteKeeps, OnClosedKeeps, TurnStatusKeeps, SaveTurnKeeps, EmitCompletedKeeps,
     ReleaseClaimKeeps, SettleItemsKeeps, SettleTurnKeeps, SettleAnnounceKeeps, SettleEvictKeeps
  DEF MonitorNext
<1>4. CASE Next /\ ~ EngineNext /\ ~ MonitorNext
  BY <1>4, StartTurnKeeps, InterruptTurnKeeps, EngineGoneKeeps, MonitorFailsKeeps,
     DeliverExternalApprovalKeeps, CrashKeeps, RecoverTurnKeeps, RecoverItemsKeeps DEF Next
<1>5. QED
  BY <1>1, <1>2, <1>3, <1>4

\* The inductive invariant of a turn, for every number of turns, streams and items,
\* failing writes, dying engines and crashes (handle_deepseek_turn, monitor_turn,
\* settle_claimed_turn_failure, recover_interrupted_state).
THEOREM Invariance == Spec => []IInv
BY InitHolds, NextKeeps, PTL DEF Spec

\* A tool that asked runs only with the client's consent to this tool, whatever
\* timeouts, late answers and interrupts come between (deliver_external_approval,
\* await_tool_approval).
THEOREM ConsentHolds == Spec => []NoToolWithoutApproval
<1>1. IInv => NoToolWithoutApproval
  BY DEF IInv, Consents, NoToolWithoutApproval
<1>2. QED
  BY Invariance, <1>1, PTL

\* A turn in which the engine sent an Error is never recorded as completed, whatever
\* the engine reports after a repeated request (monitor_turn).
THEOREM ErrorIsFinalHolds == Spec => []ErrorIsFinal
<1>1. IInv => ErrorIsFinal
  BY DEF IInv, Blame, ErrorIsFinal
<1>2. QED
  BY Invariance, <1>1, PTL

\* A completed turn lists what it started, and leaves open only what the engine gave
\* up, for every number of text blocks, calls and requests (handle_deepseek_turn,
\* monitor_turn).
THEOREM CompletedIsCleanHolds == Spec => []CompletedIsClean
<1>1. Init => Accounts
  <2> SUFFICES ASSUME Init PROVE Accounts
    OBVIOUS
  <2>1. Owed
    BY DEF Init, Owed, IdleEngine, Streaming
  <2>2. QED
    BY <2>1 DEF Init, Accounts, Items, Tracked, Reading, Closing, Ending, CompletedIsClean, NoMonitor,
       NoRecord
<1>2. Accounts => CompletedIsClean
  BY DEF Accounts
<1>3. QED
  BY InitHolds, NextKeeps, <1>1, NextAccounts, <1>2, PTL DEF Spec

\* A turn ends once: the terminal record never changes, and its end is announced
\* at most once (save_turn, settle_claimed_turn_failure).
THEOREM EndsOnceHolds == Spec => EndsOnce
<1>1. ASSUME IInv, [Next]_vars
      PROVE  [/\ (n' = n /\ Terminal => turn' = turn)
              /\ (ended' > ended => Terminal /\ ended = 0)]_vars
  <2> SUFFICES ASSUME Next
               PROVE  /\ (n' = n /\ Terminal => turn' = turn)
                      /\ (ended' > ended => Terminal /\ ended = 0)
    BY <1>1
  <2>1. n \in Nat /\ ended \in Nat
    BY <1>1 DEF IInv, Shape
  <2>2. CASE UNCHANGED <<turn, ended>>
    BY <2>1, <2>2
  <2>3. CASE start_turn
    BY <2>1, <2>3 DEF start_turn
  <2>4. CASE emit_completed
    BY <1>1, <2>1, <2>4 DEF emit_completed, records, IInv, Lifecycle, At
  <2>5. CASE settle_announce
    BY <1>1, <2>1, <2>5 DEF settle_announce, records, IInv, Lifecycle, At
  <2>6. CASE attach_item_to_turn \/ save_turn
    BY <1>1, <2>1, <2>6 DEF attach_item_to_turn, save_turn, MonitorOnly, IInv, Lifecycle, At, Working,
       Reading, Ending, Terminal, Outcome
  <2>7. CASE settle_turn \/ recover_turn
    BY <1>1, <2>1, <2>7 DEF settle_turn, settle_applies, recover_turn, Terminal, Outcome
  <2>8. EngineNext \/ engine_dies \/ spawn_child \/ child_ends => UNCHANGED <<turn, ended>>
    BY DEF EngineNext, engine_take, engine_message, engine_tool, engine_error, engine_stream_end,
       engine_retry, engine_next_step, engine_ask, engine_tool_done, engine_verdict,
       engine_wait_cancelled, engine_finish, engine_dies, spawn_child, child_ends, EngineOnly, records
  <2>9. MonitorNext => \/ UNCHANGED <<turn, ended>> \/ attach_item_to_turn \/ save_turn
                       \/ emit_completed \/ settle_turn \/ settle_announce
    BY DEF MonitorNext, on_item_started, on_message_complete, on_tool_complete, on_error, on_approval,
       on_decision, on_timeout, on_turn_complete, on_closed, turn_status, close_items, release_claim,
       settle_items, settle_evict, MonitorOnly, records
  <2>10. QED
    BY <2>2, <2>3, <2>4, <2>5, <2>6, <2>7, <2>8, <2>9 DEF Next, interrupt_turn, monitor_fails,
       deliver_external_approval, crash, recover_items, records
<1>2. QED
  BY Invariance, <1>1, PTL DEF Spec, EndsOnce
================================================================================
