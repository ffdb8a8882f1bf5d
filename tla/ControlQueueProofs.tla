------------------------- MODULE ControlQueueProofs --------------------------
(***************************************************************************)
(* Proofs about MachineLink and ControlQueue, for every number of          *)
(* connections, disturbances and steers: the registry names a stream whose *)
(* handler runs, a control the API accepted is accounted for, and a        *)
(* cancelled turn runs on only while a cancel is under way, was lost in a  *)
(* way the code logs, or came before the turn had an executor.             *)
(***************************************************************************)
EXTENDS ControlQueue, TLAPS

\* What the link keeps.
LinkInv == LinkTypeOK /\ RegisteredHandlerRuns

\* The initial state.
LEMMA InitLink == LinkInit => LinkInv
<1> SUFFICES ASSUME LinkInit PROVE LinkInv
  OBVIOUS
<1>1. faults \in 0 .. MaxFaults
  BY LinkAssumption DEF LinkInit
<1>2. LinkTypeOK
  BY <1>1 DEF LinkInit, LinkTypeOK, Phases, ConnectSteps, ByeSteps, ForceSteps, NoStream
<1> QED BY <1>2 DEF LinkInit, LinkInv, RegisteredHandlerRuns

\* ConnectMachine touches neither the streams' handlers nor the registry.
LEMMA StepConnect ==
    ASSUME LinkInv, NEW k \in Conn,
           \/ CallConnect(k) \/ ConnectOnline(k) \/ ConnectReplaces(k) \/ ConnectCreates(k)
           \/ ConnectReplies(k) \/ ConnectFails(k) \/ AbandonConnect
    PROVE  LinkInv'
<1> USE DEF LinkInv, manager
<1>1. UNCHANGED <<srv, registry>>
  BY DEF CallConnect, ConnectOnline, ConnectReplaces, ConnectCreates, ConnectReplies, ConnectFails, AbandonConnect
<1>2. client' \in [phase: Phases, sid: Conn \cup {NoStream}] /\ (client'.phase # "away" => client'.sid \in Conn)
  BY DEF CallConnect, ConnectOnline, ConnectReplaces, ConnectCreates, ConnectReplies, ConnectFails,
         AbandonConnect, LinkTypeOK, Phases
<1>3. connect' \in [Conn -> ConnectSteps]
  BY DEF CallConnect, ConnectOnline, ConnectReplaces, ConnectCreates, ConnectReplies, ConnectFails,
         AbandonConnect, LinkTypeOK, ConnectSteps
<1>4. session' \in [Conn -> {"none", "active", "kicked", "terminated"}]
  BY DEF CallConnect, ConnectOnline, ConnectReplaces, ConnectCreates, ConnectReplies, ConnectFails,
         AbandonConnect, LinkTypeOK, Kicked
<1>5. cli' \in [Conn -> {"none", "up", "broken", "down"}]
  BY DEF CallConnect, ConnectOnline, ConnectReplaces, ConnectCreates, ConnectReplies, ConnectFails,
         AbandonConnect, LinkTypeOK
<1>6. faults' \in 0 .. MaxFaults
  BY LinkAssumption
     DEF CallConnect, ConnectOnline, ConnectReplaces, ConnectCreates, ConnectReplies, ConnectFails,
         AbandonConnect, LinkTypeOK, Fault
<1>7. online' \in BOOLEAN /\ UNCHANGED <<beat, bye, force>>
  BY DEF CallConnect, ConnectOnline, ConnectReplaces, ConnectCreates, ConnectReplies, ConnectFails,
         AbandonConnect, LinkTypeOK
<1> QED BY <1>1, <1>2, <1>3, <1>4, <1>5, <1>6, <1>7 DEF LinkTypeOK, RegisteredHandlerRuns

\* A stream's handler is accepted, registered and ended.
LEMMA StepStream ==
    ASSUME LinkInv, NEW k \in Conn,
           AcceptStream(k) \/ RegisterMachine(k) \/ EndChannel(k) \/ BreakStream(k) \/ PingTimeout(k)
    PROVE  LinkInv'
<1> USE DEF LinkInv, rows
<1>1. UNCHANGED <<client, connect, online, session, beat, bye, force>>
  BY DEF AcceptStream, RegisterMachine, EndChannel, BreakStream, PingTimeout
<1>2. cli' \in [Conn -> {"none", "up", "broken", "down"}]
  BY DEF AcceptStream, RegisterMachine, EndChannel, BreakStream, PingTimeout, LinkTypeOK
<1>3. srv' \in [Conn -> {"none", "checked", "open", "ended"}]
  BY DEF AcceptStream, RegisterMachine, EndChannel, BreakStream, PingTimeout, LinkTypeOK
<1>4. registry' \in Conn \cup {NoStream}
  BY DEF AcceptStream, RegisterMachine, EndChannel, BreakStream, PingTimeout, LinkTypeOK, Unregistered
<1>5. faults' \in 0 .. MaxFaults
  BY LinkAssumption DEF AcceptStream, RegisterMachine, EndChannel, BreakStream, PingTimeout, LinkTypeOK, Fault
<1>6. RegisteredHandlerRuns'
  <2>1. CASE AcceptStream(k)
    BY <2>1 DEF AcceptStream, LinkTypeOK, RegisteredHandlerRuns
  <2>2. CASE RegisterMachine(k)
    BY <2>2 DEF RegisterMachine, LinkTypeOK, RegisteredHandlerRuns
  <2>3. CASE EndChannel(k)
    BY <2>3 DEF EndChannel, LinkTypeOK, RegisteredHandlerRuns, Unregistered
  <2>4. CASE BreakStream(k) \/ PingTimeout(k)
    BY <2>4 DEF BreakStream, PingTimeout, RegisteredHandlerRuns, Unregistered
  <2> QED BY <2>1, <2>2, <2>3, <2>4
<1> QED BY <1>1, <1>2, <1>3, <1>4, <1>5, <1>6 DEF LinkTypeOK

\* Heartbeats and MachineDisconnect only take registry entries away.
LEMMA StepBeat ==
    ASSUME LinkInv, NEW k \in Conn, NEW dying \in BOOLEAN,
           \/ HeartbeatChecks \/ HeartbeatUpdates(k) \/ HeartbeatFails \/ Leave(dying) \/ AbandonDisconnect
           \/ DisconnectTerminates(k) \/ DisconnectOffline(k) \/ DisconnectReplies(k)
    PROVE  LinkInv'
<1> USE DEF LinkInv, manager
<1>1. UNCHANGED <<connect, srv, force>> /\ registry' \in {registry, NoStream}
  BY DEF HeartbeatChecks, HeartbeatUpdates, HeartbeatFails, Leave, AbandonDisconnect,
         DisconnectTerminates, DisconnectOffline, DisconnectReplies
<1>2. client' \in [phase: Phases, sid: Conn \cup {NoStream}] /\ (client'.phase # "away" => client'.sid \in Conn)
  BY DEF HeartbeatChecks, HeartbeatUpdates, HeartbeatFails, Leave, AbandonDisconnect,
         DisconnectTerminates, DisconnectOffline, DisconnectReplies, LinkTypeOK, Phases
<1>3. session' \in [Conn -> {"none", "active", "kicked", "terminated"}]
  BY DEF HeartbeatChecks, HeartbeatUpdates, HeartbeatFails, Leave, AbandonDisconnect,
         DisconnectTerminates, DisconnectOffline, DisconnectReplies, LinkTypeOK
<1>4. cli' \in [Conn -> {"none", "up", "broken", "down"}]
  BY DEF HeartbeatChecks, HeartbeatUpdates, HeartbeatFails, Leave, AbandonDisconnect,
         DisconnectTerminates, DisconnectOffline, DisconnectReplies, LinkTypeOK
<1>5. beat' \subseteq Conn
  BY DEF HeartbeatChecks, HeartbeatUpdates, HeartbeatFails, Leave, AbandonDisconnect,
         DisconnectTerminates, DisconnectOffline, DisconnectReplies, LinkTypeOK
<1>6. bye' \in [Conn -> ByeSteps]
  BY DEF HeartbeatChecks, HeartbeatUpdates, HeartbeatFails, Leave, AbandonDisconnect,
         DisconnectTerminates, DisconnectOffline, DisconnectReplies, LinkTypeOK, ByeSteps
<1>7. faults' \in 0 .. MaxFaults
  BY LinkAssumption
     DEF HeartbeatChecks, HeartbeatUpdates, HeartbeatFails, Leave, AbandonDisconnect,
         DisconnectTerminates, DisconnectOffline, DisconnectReplies, LinkTypeOK, Fault
<1>8. online' \in BOOLEAN
  BY DEF HeartbeatChecks, HeartbeatUpdates, HeartbeatFails, Leave, AbandonDisconnect,
         DisconnectTerminates, DisconnectOffline, DisconnectReplies, LinkTypeOK
<1> QED BY <1>1, <1>2, <1>3, <1>4, <1>5, <1>6, <1>7, <1>8 DEF LinkTypeOK, RegisteredHandlerRuns

\* So do a forced disconnect and a restart, which ends every handler.
LEMMA StepForce ==
    ASSUME LinkInv, NEW step \in ForceSteps,
           ForceKicks \/ ForceOffline \/ ForceCancels(step) \/ ForceUnregisters \/ ForceFails \/ RestartManager
    PROVE  LinkInv'
<1> USE DEF LinkInv
<1>1. registry' \in {registry, NoStream} /\ (srv' = srv \/ registry' = NoStream)
  BY DEF ForceKicks, ForceOffline, ForceCancels, ForceUnregisters, ForceFails, RestartManager
<1>2. client' \in [phase: Phases, sid: Conn \cup {NoStream}] /\ (client'.phase # "away" => client'.sid \in Conn)
  BY DEF ForceKicks, ForceOffline, ForceCancels, ForceUnregisters, ForceFails, RestartManager, LinkTypeOK, Phases
<1>3. connect' \in [Conn -> ConnectSteps]
  BY DEF ForceKicks, ForceOffline, ForceCancels, ForceUnregisters, ForceFails, RestartManager, LinkTypeOK, ConnectSteps
<1>4. session' \in [Conn -> {"none", "active", "kicked", "terminated"}]
  BY DEF ForceKicks, ForceOffline, ForceCancels, ForceUnregisters, ForceFails, RestartManager, LinkTypeOK, Kicked
<1>5. cli' \in [Conn -> {"none", "up", "broken", "down"}]
  BY DEF ForceKicks, ForceOffline, ForceCancels, ForceUnregisters, ForceFails, RestartManager, LinkTypeOK
<1>6. srv' \in [Conn -> {"none", "checked", "open", "ended"}]
  BY DEF ForceKicks, ForceOffline, ForceCancels, ForceUnregisters, ForceFails, RestartManager, LinkTypeOK
<1>7. bye' \in [Conn -> ByeSteps] /\ beat' \subseteq Conn
  BY DEF ForceKicks, ForceOffline, ForceCancels, ForceUnregisters, ForceFails, RestartManager, LinkTypeOK, ByeSteps
<1>8. faults' \in 0 .. MaxFaults
  BY LinkAssumption DEF ForceKicks, ForceOffline, ForceCancels, ForceUnregisters, ForceFails, RestartManager, LinkTypeOK, Fault
<1>9. online' \in BOOLEAN /\ force' \in ForceSteps
  BY DEF ForceKicks, ForceOffline, ForceCancels, ForceUnregisters, ForceFails, RestartManager, LinkTypeOK, ForceSteps
<1> QED BY <1>1, <1>2, <1>3, <1>4, <1>5, <1>6, <1>7, <1>8, <1>9 DEF LinkTypeOK, RegisteredHandlerRuns

\* LinkInv is inductive ...
LEMMA NextLink == LinkInv /\ LinkNext => LinkInv'
<1> SUFFICES ASSUME LinkInv, LinkNext PROVE LinkInv'
  OBVIOUS
<1>1. CASE \E k \in Conn : \/ CallConnect(k) \/ ConnectOnline(k) \/ ConnectReplaces(k) \/ ConnectCreates(k)
                           \/ ConnectReplies(k) \/ ConnectFails(k)
  BY <1>1, StepConnect
<1>2. CASE AbandonConnect
  <2>1. client.sid \in Conn
    BY <1>2 DEF AbandonConnect, LinkInv, LinkTypeOK
  <2> QED BY <1>2, <2>1, StepConnect
<1>3. CASE \E k \in Conn : AcceptStream(k) \/ RegisterMachine(k) \/ EndChannel(k) \/ BreakStream(k) \/ PingTimeout(k)
  BY <1>3, StepStream
<1>4. CASE \E k \in Conn : HeartbeatUpdates(k) \/ DisconnectTerminates(k) \/ DisconnectOffline(k) \/ DisconnectReplies(k)
  BY <1>4, StepBeat
<1>5. CASE HeartbeatChecks \/ HeartbeatFails \/ AbandonDisconnect \/ Leave(TRUE) \/ Leave(FALSE)
  <2>1. client.sid \in Conn
    BY <1>5 DEF HeartbeatChecks, HeartbeatFails, AbandonDisconnect, Leave, LinkInv, LinkTypeOK
  <2> QED BY <1>5, <2>1, StepBeat
<1>6. CASE \/ ForceKicks \/ ForceOffline \/ ForceUnregisters \/ ForceFails \/ RestartManager
           \/ \E step \in ForceSteps : ForceCancels(step)
  BY <1>6, StepForce DEF ForceSteps
<1> QED BY <1>1, <1>2, <1>3, <1>4, <1>5, <1>6 DEF LinkNext, LinkStep

\* ... and survives stuttering.
LEMMA StutterLink == LinkInv /\ UNCHANGED link => LinkInv'
  BY DEF link, LinkInv, LinkTypeOK, RegisteredHandlerRuns

-----------------------------------------------------------------------------
(* The controls.                                                           *)

\* The whole invariant.
AllInv == ControlInv /\ ControlKept /\ CancelStops

\* The types of ctl alone.
CtlTypeOK ==
    /\ status \in {"running", "cancelled", "closed"}
    /\ turn \in Turns
    /\ api \in [Control -> Asked]
    /\ serial \in Nat /\ queue \subseteq Row
    /\ wire \in [Conn -> Seq(Control)]
    /\ reached \subseteq Control /\ dropped \subseteq Control /\ expired \subseteq Control
    /\ ignored \in BOOLEAN
    /\ drain \in [Conn -> Drains]

\* ControlInv speaks of the link and, for the rest, of ctl.
LEMMA Split == ControlInv <=> LinkInv /\ CtlTypeOK /\ GoneAccounted /\ ReachedStops
  BY DEF TypeOK, CtlTypeOK, ControlInv, LinkInv

LEMMA SplitNext == ControlInv' <=> LinkInv' /\ CtlTypeOK' /\ GoneAccounted' /\ ReachedStops'
  BY DEF TypeOK, CtlTypeOK, ControlInv, LinkInv

\* A step of the link alone leaves the controls where they are.
LEMMA LinkOnly ==
    ASSUME AllInv, LinkInv', UNCHANGED ctl
    PROVE  AllInv'
<1>1. CtlTypeOK' /\ GoneAccounted' /\ ReachedStops' /\ ControlKept' /\ CancelStops'
  BY Split DEF AllInv, ctl, CtlTypeOK, GoneAccounted, ReachedStops, ControlKept, CancelStops, OnWire, Controls
<1> QED BY <1>1, SplitNext DEF AllInv

\* A control that is written to the registered stream is on a wire, and so is
\* what was.
LEMMA SentOnWire ==
    ASSUME LinkTypeOK, CtlTypeOK, NEW c \in Control, Sent(c)
    PROVE  /\ wire' \in [Conn -> Seq(Control)]
           /\ OnWire(c)'
           /\ \A d : OnWire(d) => OnWire(d)'
<1> USE DEF Sent
<1>1. registry \in Conn /\ wire \in [Conn -> Seq(Control)]
  BY DEF LinkTypeOK, CtlTypeOK
<1>2. /\ wire'[registry] = Append(wire[registry], c)
      /\ \A k \in Conn \ {registry} : wire'[k] = wire[k]
      /\ wire' \in [Conn -> Seq(Control)]
  BY <1>1
<1>3. /\ Len(wire[registry]) \in Nat
      /\ DOMAIN wire[registry] = 1 .. Len(wire[registry])
      /\ DOMAIN wire'[registry] = 1 .. Len(wire[registry]) + 1
      /\ wire'[registry][Len(wire[registry]) + 1] = c
      /\ \A i \in DOMAIN wire[registry] : wire'[registry][i] = wire[registry][i]
  BY <1>1, <1>2
<1>4. OnWire(c)'
  BY <1>1, <1>3 DEF OnWire
<1>5. ASSUME NEW d, OnWire(d) PROVE OnWire(d)'
  <2>1. PICK k \in Conn : \E i \in DOMAIN wire[k] : wire[k][i] = d
    BY <1>5 DEF OnWire
  <2>2. CASE k = registry
    BY <1>3, <2>1, <2>2 DEF OnWire
  <2>3. CASE k # registry
    BY <1>2, <2>1, <2>3 DEF OnWire
  <2> QED BY <2>2, <2>3
<1> QED BY <1>2, <1>4, <1>5

\* A control stays held when wires and history only grow.
LEMMA HeldGrows ==
    ASSUME GoneAccounted, ReachedStops, UNCHANGED <<reached, turn, ignored>>, dropped \subseteq dropped',
           \A d : OnWire(d) => OnWire(d)',
           \A k \in Conn : drain'[k].gone \subseteq drain[k].gone
    PROVE  GoneAccounted' /\ ReachedStops'
  BY DEF GoneAccounted, ReachedStops

\* An insert keeps the rows that are queued.
LEMMA EnqueuedQueue ==
    ASSUME CtlTypeOK, NEW c \in Control, Enqueued(c)
    PROVE  /\ queue' \subseteq Row /\ serial' \in Nat
           /\ c \in Controls(queue)' /\ Controls(queue) \subseteq Controls(queue)'
<1> DEFINE r == [id |-> serial, ctl |-> c]
<1>1. r \in Row /\ r.ctl = c /\ queue' = queue \cup {r} /\ serial' = serial + 1
  BY DEF CtlTypeOK, Row, Enqueued
<1> HIDE DEF r
<1>2. queue' \subseteq Row /\ serial' \in Nat
  BY <1>1 DEF CtlTypeOK
<1>3. r \in queue' /\ queue \subseteq queue'
  BY <1>1
<1> QED BY <1>1, <1>2, <1>3 DEF Controls

\* The initial state.
LEMMA InitControl == Init => AllInv
<1> SUFFICES ASSUME Init PROVE AllInv
  OBVIOUS
<1>1. LinkInv
  BY InitLink DEF Init
<1>2. NotBegun \in Drains /\ NotBegun.gone = {}
  BY DEF NotBegun, Drains
<1>3. CtlTypeOK
  <2>1. turn \in Turns /\ ignored \in BOOLEAN
    BY DEF Init, Turns
  <2> QED BY <1>2, <2>1 DEF Init, CtlTypeOK, Asked
<1>4. GoneAccounted /\ ReachedStops /\ ControlKept /\ CancelStops
  BY <1>2 DEF Init, GoneAccounted, ReachedStops, ControlKept, CancelStops
<1> QED BY <1>1, <1>3, <1>4, Split DEF AllInv

\* A request is issued: the cancel's state is set together with its request.
LEMMA StepIssue ==
    ASSUME AllInv, CancelCommand \/ \E c \in Control : SteerCommand(c)
    PROVE  AllInv'
<1>0. LinkInv /\ CtlTypeOK /\ GoneAccounted /\ ReachedStops /\ ControlKept /\ CancelStops
  BY Split DEF AllInv
<1>1. LinkInv'
  BY <1>0, StutterLink DEF SteerCommand, CancelCommand
<1>2. CtlTypeOK'
  BY <1>0 DEF SteerCommand, CancelCommand, issued, CtlTypeOK, Asked
<1>3. GoneAccounted' /\ ReachedStops'
  BY <1>0 DEF SteerCommand, CancelCommand, issued, GoneAccounted, ReachedStops, OnWire
<1>4. ControlKept'
  BY <1>0 DEF SteerCommand, CancelCommand, issued, ControlKept, OnWire, CtlTypeOK
<1>5. CancelStops'
  BY <1>0 DEF SteerCommand, CancelCommand, issued, CancelStops, OnWire, CtlTypeOK, Cancels, Control
<1> QED BY <1>1, <1>2, <1>3, <1>4, <1>5, SplitNext DEF AllInv

\* A send that succeeds puts the control on a wire, one that fails keeps the request.
LEMMA StepDeliver ==
    ASSUME AllInv, NEW c \in Control, DeliverControl(c)
    PROVE  AllInv'
<1>0. LinkInv /\ CtlTypeOK /\ GoneAccounted /\ ReachedStops /\ ControlKept /\ CancelStops
  BY Split DEF AllInv
<1>1. LinkInv'
  BY <1>0, StutterLink DEF DeliverControl
<1> DEFINE sent == Sent(c) /\ api' = [api EXCEPT ![c] = "answered"]
<1> DEFINE unsent == SendFails /\ api' = [api EXCEPT ![c] = "unsent"]
<1>a. (sent \/ unsent) /\ UNCHANGED <<status, turn, queue, serial, reached, dropped, expired, ignored, drain>>
  BY DEF DeliverControl, issued
<1>b. /\ wire' \in [Conn -> Seq(Control)]
      /\ \A d : OnWire(d) => OnWire(d)'
      /\ sent => OnWire(c)'
  BY <1>0, <1>a, SentOnWire DEF SendFails, OnWire, CtlTypeOK, LinkInv
<1>c. /\ api' \in [Control -> Asked] /\ api'[c] \in {"answered", "unsent"}
      /\ \A d \in Control \ {c} : api'[d] = api[d]
      /\ api'[c] = "answered" => sent
  BY <1>0, <1>a DEF CtlTypeOK, Asked
<1> HIDE DEF sent, unsent
<1>2. CtlTypeOK'
  BY <1>0, <1>a, <1>b, <1>c DEF CtlTypeOK
<1>3. GoneAccounted' /\ ReachedStops'
  BY <1>0, <1>a, <1>b, HeldGrows
<1>4. ControlKept'
  BY <1>0, <1>a, <1>b, <1>c DEF ControlKept
<1>5. CancelStops'
  BY <1>0, <1>a, <1>b, <1>c DEF CancelStops, Cancels, Control
<1> QED BY <1>1, <1>2, <1>3, <1>4, <1>5, SplitNext DEF AllInv

\* A control whose send failed is queued, or its request says that it was not.
LEMMA StepEnqueue ==
    ASSUME AllInv, NEW c \in Control, EnqueueControl(c)
    PROVE  AllInv'
<1>0. LinkInv /\ CtlTypeOK /\ GoneAccounted /\ ReachedStops /\ ControlKept /\ CancelStops
  BY Split DEF AllInv
<1> DEFINE kept == /\ api' = [api EXCEPT ![c] = "answered"] /\ Enqueued(c)
                   /\ UNCHANGED faults
<1> DEFINE lost == /\ api' = [api EXCEPT ![c] = IF c = Cancel THEN "unqueued" ELSE "refused"]
                   /\ Fault /\ UNCHANGED <<queue, serial>>
<1>a. (kept \/ lost) /\ UNCHANGED <<wires, status, turn, wire, reached, dropped, expired, ignored, drain>>
  BY DEF EnqueueControl, issued
<1>1. LinkInv'
  BY <1>0, <1>a, LinkAssumption DEF wires, Fault, LinkInv, LinkTypeOK, RegisteredHandlerRuns
<1>b. /\ api' \in [Control -> Asked] /\ api'[c] \in {"answered", "unqueued", "refused"}
      /\ \A d \in Control \ {c} : api'[d] = api[d]
      /\ api'[c] = "answered" => kept
  BY <1>0, <1>a DEF CtlTypeOK, Asked
<1>c. /\ queue' \subseteq Row /\ serial' \in Nat
      /\ kept => c \in Controls(queue)'
      /\ Controls(queue) \subseteq Controls(queue)'
  BY <1>0, <1>a, EnqueuedQueue DEF CtlTypeOK, Controls
<1> HIDE DEF kept, lost
<1>2. CtlTypeOK'
  BY <1>0, <1>a, <1>b, <1>c DEF CtlTypeOK
<1>3. GoneAccounted' /\ ReachedStops'
  BY <1>0, <1>a DEF GoneAccounted, ReachedStops, OnWire
<1>4. ControlKept'
  BY <1>0, <1>a, <1>b, <1>c DEF ControlKept, OnWire
<1>5. CancelStops'
  BY <1>0, <1>a, <1>b, <1>c DEF CancelStops, OnWire, Cancels, Control
<1> QED BY <1>1, <1>2, <1>3, <1>4, <1>5, SplitNext DEF AllInv

\* A forced disconnect cancels the command and leaves the cancel to be queued, or gives up.
LEMMA StepForced ==
    ASSUME AllInv, CancelRunningCommandsForMachine \/ ForceGivesUp
    PROVE  AllInv'
<1>0. LinkInv /\ CtlTypeOK /\ GoneAccounted /\ ReachedStops /\ ControlKept /\ CancelStops
  BY Split DEF AllInv
<1>a. Forced \in Control /\ Forced \in Cancels
  BY DEF Control, Cancels
<1>b. /\ UNCHANGED <<turn, queue, serial, wire, reached, dropped, expired, ignored, drain>>
      /\ status' \in {status, "cancelled"}
      /\ api' = api \/ \E a \in {"unsent", "refused"} : api' = [api EXCEPT ![Forced] = a]
      /\ status' # status => api' = [api EXCEPT ![Forced] = "unsent"]
  BY <1>0, <1>a DEF CancelRunningCommandsForMachine, ForceGivesUp, issued, CtlTypeOK
<1>1. LinkInv'
  BY <1>0, StepForce DEF CancelRunningCommandsForMachine, ForceGivesUp, ForceSteps
<1>2. CtlTypeOK'
  BY <1>0, <1>b DEF CtlTypeOK, Asked
<1>3. GoneAccounted' /\ ReachedStops'
  BY <1>0, <1>b DEF GoneAccounted, ReachedStops, OnWire
<1>4. ControlKept'
  BY <1>0, <1>a, <1>b DEF ControlKept, OnWire, CtlTypeOK
<1>5. CancelStops'
  <2>1. ASSUME NEW c \in Cancels, api[c] \in {"sending", "unsent", "unqueued", "refused"}
        PROVE  api'[c] \in {"sending", "unsent", "unqueued", "refused"}
    BY <1>0, <1>a, <1>b, <2>1 DEF CtlTypeOK, Cancels, Control
  <2>2. CASE status' # status
    BY <1>0, <1>a, <1>b, <2>2 DEF CancelStops, CtlTypeOK
  <2>3. CASE status' = status
    BY <1>0, <1>b, <2>1, <2>3 DEF CancelStops, OnWire
  <2> QED BY <2>2, <2>3
<1> QED BY <1>1, <1>2, <1>3, <1>4, <1>5, SplitNext DEF AllInv

\* The cancel of a forced disconnect is queued.
LEMMA StepQueueCancel ==
    ASSUME AllInv, QueueCancelCommands
    PROVE  AllInv'
<1>0. LinkInv /\ CtlTypeOK /\ GoneAccounted /\ ReachedStops /\ ControlKept /\ CancelStops
  BY Split DEF AllInv
<1>a. Forced \in Control /\ Forced \in Cancels
  BY DEF Control, Cancels
<1>b. /\ UNCHANGED <<status, turn, wire, reached, dropped, expired, ignored, drain>>
      /\ \/ UNCHANGED <<queue, serial, api>>
         \/ Enqueued(Forced) /\ api' = [api EXCEPT ![Forced] = "answered"]
  BY DEF QueueCancelCommands, issued
<1>c. /\ queue' \subseteq Row /\ serial' \in Nat /\ Controls(queue) \subseteq Controls(queue)'
      /\ api' = api \/ Forced \in Controls(queue)'
  BY <1>0, <1>a, <1>b, EnqueuedQueue DEF CtlTypeOK, Controls
<1>d. api' \in [Control -> Asked] /\ \A c \in Control \ {Forced} : api'[c] = api[c]
  BY <1>0, <1>a, <1>b DEF CtlTypeOK, Asked
<1>1. LinkInv'
  BY <1>0, StepForce DEF QueueCancelCommands, ForceSteps
<1>2. CtlTypeOK'
  BY <1>0, <1>b, <1>c, <1>d DEF CtlTypeOK
<1>3. GoneAccounted' /\ ReachedStops'
  BY <1>0, <1>b DEF GoneAccounted, ReachedStops, OnWire
<1>4. ControlKept'
  BY <1>0, <1>b, <1>c, <1>d DEF ControlKept, OnWire
<1>5. CancelStops'
  BY <1>0, <1>a, <1>b, <1>c, <1>d DEF CancelStops, OnWire, Cancels, Control
<1> QED BY <1>1, <1>2, <1>3, <1>4, <1>5, SplitNext DEF AllInv

\* A drain begins and lists rows; none counts as gone yet.
LEMMA StepDrainBegins ==
    ASSUME AllInv, NEW k \in Conn, OpenChannel(k) \/ ListPending(k)
    PROVE  AllInv'
<1>0. LinkInv /\ CtlTypeOK /\ GoneAccounted /\ ReachedStops /\ ControlKept /\ CancelStops
  BY Split DEF AllInv
<1>a. UNCHANGED <<status, turn, api, queue, serial, wire, reached, dropped, expired, ignored>>
  BY DEF OpenChannel, ListPending
<1>b. drain' \in [Conn -> Drains] /\ \A j \in Conn : drain'[j].gone \subseteq drain[j].gone
  <2>1. drain \in [Conn -> Drains] /\ queue \in SUBSET Row /\ Finished \in Drains /\ Finished.gone = {}
    BY <1>0 DEF CtlTypeOK, Drains, Finished, NotBegun
  <2>2. CASE OpenChannel(k)
    BY <2>1, <2>2 DEF OpenChannel, Drains
  <2>3. CASE ListPending(k)
    <3> DEFINE next == [drain[k] EXCEPT !.step = "send", !.rows = queue]
    <3>1. next \in Drains /\ next.gone = drain[k].gone
      BY <2>1 DEF Drains
    <3>2. drain' = [drain EXCEPT ![k] = Finished] \/ drain' = [drain EXCEPT ![k] = next]
      BY <2>3 DEF ListPending
    <3> HIDE DEF next
    <3> QED BY <2>1, <3>1, <3>2
  <2> QED BY <2>2, <2>3
<1>1. LinkInv'
  <2>1. CASE OpenChannel(k)
    BY <1>0, <2>1, StepStream DEF OpenChannel
  <2>2. CASE ListPending(k)
    BY <1>0, <2>2, LinkAssumption DEF ListPending, wires, Fault, LinkInv, LinkTypeOK, RegisteredHandlerRuns
  <2> QED BY <2>1, <2>2
<1>2. CtlTypeOK'
  BY <1>0, <1>a, <1>b DEF CtlTypeOK
<1>3. GoneAccounted' /\ ReachedStops'
  BY <1>0, <1>a, <1>b, HeldGrows DEF OnWire
<1>4. ControlKept'
  BY <1>0, <1>a DEF ControlKept, OnWire, Controls
<1>5. CancelStops'
  BY <1>0, <1>a DEF CancelStops, OnWire, Controls
<1> QED BY <1>1, <1>2, <1>3, <1>4, <1>5, SplitNext DEF AllInv

\* A drained row counts as gone only when it was dropped or written to a stream.
LEMMA StepDispatchRow ==
    ASSUME AllInv, NEW k \in Conn, DispatchRow(k)
    PROVE  AllInv'
<1>0. LinkInv /\ CtlTypeOK /\ GoneAccounted /\ ReachedStops /\ ControlKept /\ CancelStops
  BY Split DEF AllInv
<1>a. PICK r \in drain[k].rows : DispatchRow(k)!2!(r)
  BY DEF DispatchRow
<1>b. drain[k] \in Drains /\ r \in Row /\ r.ctl \in Control
  BY <1>0 DEF CtlTypeOK, Drains, Row
<1>c. UNCHANGED <<wires, status, turn, api, queue, serial, reached, expired, ignored>>
  BY DEF DispatchRow
<1>d. /\ dropped \subseteq dropped' /\ dropped' \subseteq Control
      /\ wire' \in [Conn -> Seq(Control)] /\ \A d : OnWire(d) => OnWire(d)'
  <2>1. CASE UNCHANGED wire
    BY <1>0, <1>a, <1>b, <2>1 DEF CtlTypeOK, OnWire
  <2>2. CASE Sent(r.ctl) /\ UNCHANGED dropped
    BY <1>0, <1>b, <2>2, SentOnWire DEF CtlTypeOK, LinkInv
  <2> QED BY <1>a, <2>1, <2>2 DEF SendFails
<1>e. \/ /\ drain' = [drain EXCEPT ![k] = Drained(@, r, TRUE)]
         /\ r.ctl \in dropped' \/ OnWire(r.ctl)'
      \/ drain' = [drain EXCEPT ![k] = Drained(@, r, FALSE)]
  BY <1>0, <1>a, <1>b, SentOnWire DEF LinkInv
<1>f. /\ Drained(drain[k], r, TRUE) \in Drains /\ Drained(drain[k], r, FALSE) \in Drains
      /\ Drained(drain[k], r, TRUE).gone = drain[k].gone \cup {r}
      /\ Drained(drain[k], r, FALSE).gone = drain[k].gone
  BY <1>b DEF Drained, Drains
<1>g. /\ drain' \in [Conn -> Drains]
      /\ \A j \in Conn \ {k} : drain'[j] = drain[j]
      /\ \/ drain'[k].gone = drain[k].gone
         \/ drain'[k].gone = drain[k].gone \cup {r} /\ (r.ctl \in dropped' \/ OnWire(r.ctl)')
  BY <1>0, <1>e, <1>f DEF CtlTypeOK
<1>h. UNCHANGED faults \/ Fault
  BY <1>a
<1>i. faults' \in 0 .. MaxFaults
  BY <1>0, <1>h, LinkAssumption DEF Fault, LinkInv, LinkTypeOK
<1>j. UNCHANGED <<client, connect, online, session, cli, srv, registry, beat, bye, force>>
  BY <1>c DEF wires
<1>1. LinkInv'
  BY <1>0, <1>i, <1>j DEF LinkInv, LinkTypeOK, RegisteredHandlerRuns
<1>2. CtlTypeOK'
  BY <1>0, <1>c, <1>d, <1>g DEF CtlTypeOK
<1>3. GoneAccounted' /\ ReachedStops'
  BY <1>0, <1>c, <1>d, <1>g DEF GoneAccounted, ReachedStops
<1>4. ControlKept'
  BY <1>0, <1>c, <1>d DEF ControlKept, Controls
<1>5. CancelStops'
  BY <1>0, <1>c, <1>d DEF CancelStops, Controls
<1> QED BY <1>1, <1>2, <1>3, <1>4, <1>5, SplitNext DEF AllInv

\* What a drain deletes was dropped, or written to a stream; a cancel that arrived has stopped the turn.
LEMMA StepDeletePending ==
    ASSUME AllInv, NEW k \in Conn, DeletePending(k)
    PROVE  AllInv'
<1>0. LinkInv /\ CtlTypeOK /\ GoneAccounted /\ ReachedStops /\ ControlKept /\ CancelStops
  BY Split DEF AllInv
<1>a. UNCHANGED <<wires, status, turn, api, serial, wire, reached, dropped, expired, ignored>>
  BY DEF DeletePending
<1>b. queue' = queue \ drain[k].gone \/ queue' = queue
  BY DEF DeletePending
<1>c. drain' \in [Conn -> Drains] /\ \A j \in Conn : drain'[j].gone \subseteq drain[j].gone
  <2>1. Finished \in Drains /\ Finished.gone = {}
    BY DEF Finished, NotBegun, Drains
  <2> QED BY <1>0, <2>1 DEF DeletePending, CtlTypeOK
<1>d. \A c \in Controls(queue) : c \in Controls(queue)' \/ c \in reached \cup dropped \/ OnWire(c)
  <2> SUFFICES ASSUME NEW r \in queue, r \notin queue' PROVE r.ctl \in reached \cup dropped \/ OnWire(r.ctl)
    BY DEF Controls
  <2> QED BY <1>0, <1>b DEF GoneAccounted
<1>1. LinkInv'
  BY <1>0, LinkAssumption DEF DeletePending, wires, Fault, LinkInv, LinkTypeOK, RegisteredHandlerRuns
<1>2. CtlTypeOK'
  BY <1>0, <1>a, <1>b, <1>c DEF CtlTypeOK
<1>3. GoneAccounted' /\ ReachedStops'
  BY <1>0, <1>a, <1>c, HeldGrows DEF OnWire
<1>4. ControlKept'
  BY <1>0, <1>a, <1>d DEF ControlKept, OnWire
<1>5. CancelStops'
  BY <1>0, <1>a, <1>d DEF CancelStops, ReachedStops, OnWire
<1> QED BY <1>1, <1>2, <1>3, <1>4, <1>5, SplitNext DEF AllInv

\* An expired row is recorded.
LEMMA StepSweep ==
    ASSUME AllInv, SweepExpiredPendingControl
    PROVE  AllInv'
<1>0. LinkInv /\ CtlTypeOK /\ GoneAccounted /\ ReachedStops /\ ControlKept /\ CancelStops
  BY Split DEF AllInv
<1>a. PICK r \in queue : SweepExpiredPendingControl!2!(r)
  BY DEF SweepExpiredPendingControl
<1>b. UNCHANGED <<wires, status, turn, api, serial, wire, reached, dropped, ignored, drain>> /\ r.ctl \in Control
  BY <1>0 DEF SweepExpiredPendingControl, CtlTypeOK, Row
<1>c. \A c \in Controls(queue) : c \in Controls(queue)' \/ c \in expired'
  BY <1>a DEF Controls
<1>d. expired \subseteq expired' /\ expired' \subseteq Control /\ queue' \subseteq Row
  BY <1>0, <1>a, <1>b DEF CtlTypeOK
<1>1. LinkInv'
  BY <1>0, LinkAssumption DEF SweepExpiredPendingControl, wires, Fault, LinkInv, LinkTypeOK, RegisteredHandlerRuns
<1>2. CtlTypeOK'
  BY <1>0, <1>b, <1>d DEF CtlTypeOK
<1>3. GoneAccounted' /\ ReachedStops'
  BY <1>0, <1>b, HeldGrows DEF OnWire
<1>4. ControlKept'
  BY <1>0, <1>b, <1>c, <1>d DEF ControlKept, OnWire
<1>5. CancelStops'
  BY <1>0, <1>b, <1>c, <1>d DEF CancelStops, OnWire
<1> QED BY <1>1, <1>2, <1>3, <1>4, <1>5, SplitNext DEF AllInv

\* What leaves a wire has reached the machine, and a cancel ends the turn unless
\* that has no executor.
LEMMA StepHandle ==
    ASSUME AllInv, NEW k \in Conn, HandleAgentControl(k)
    PROVE  AllInv'
<1>0. LinkInv /\ CtlTypeOK /\ GoneAccounted /\ ReachedStops /\ ControlKept /\ CancelStops
  BY Split DEF AllInv
<1>a. /\ wire[k] \in Seq(Control) /\ wire[k] # <<>>
      /\ wire' = [wire EXCEPT ![k] = Tail(wire[k])]
      /\ reached' = reached \cup {Head(wire[k])}
      /\ Head(wire[k]) \in Cancels => /\ turn' = IF turn = "running" THEN "over" ELSE turn
                                     /\ ignored' = (turn = "starting")
      /\ Head(wire[k]) \notin Cancels => UNCHANGED <<turn, ignored>>
      /\ UNCHANGED <<link, status, api, queue, serial, dropped, expired, drain>>
  BY <1>0 DEF HandleAgentControl, Received, CtlTypeOK
<1>b. /\ Tail(wire[k]) \in Seq(Control) /\ Head(wire[k]) \in Control
      /\ Len(wire[k]) \in Nat \ {0} /\ DOMAIN wire[k] = 1 .. Len(wire[k])
      /\ DOMAIN Tail(wire[k]) = 1 .. Len(wire[k]) - 1
      /\ Head(wire[k]) = wire[k][1]
      /\ \A i \in 1 .. Len(wire[k]) - 1 : Tail(wire[k])[i] = wire[k][i + 1]
  BY <1>a
<1>c. wire' \in [Conn -> Seq(Control)] /\ wire'[k] = Tail(wire[k]) /\ \A j \in Conn \ {k} : wire'[j] = wire[j]
  BY <1>0, <1>a, <1>b DEF CtlTypeOK
<1>d. ASSUME NEW c, OnWire(c) PROVE OnWire(c)' \/ c = Head(wire[k])
  <2>1. PICK j \in Conn : \E i \in DOMAIN wire[j] : wire[j][i] = c
    BY <1>d DEF OnWire
  <2>2. CASE j # k
    BY <1>c, <2>1, <2>2 DEF OnWire
  <2>3. CASE j = k
    <3>1. PICK i \in 1 .. Len(wire[k]) : wire[k][i] = c
      BY <1>b, <2>1, <2>3
    <3>2. CASE i = 1
      BY <1>b, <3>1, <3>2
    <3>3. CASE i # 1
      <4>1. i - 1 \in 1 .. Len(wire[k]) - 1 /\ (i - 1) + 1 = i
        BY <1>b, <3>3
      <4>2. Tail(wire[k])[i - 1] = c
        BY <1>b, <3>1, <4>1
      <4> QED BY <1>b, <1>c, <4>1, <4>2 DEF OnWire
    <3> QED BY <3>2, <3>3
  <2> QED BY <2>2, <2>3
<1>1. LinkInv'
  BY <1>0, <1>a, StutterLink
<1>2. CtlTypeOK'
  <2>1. turn' \in Turns /\ ignored' \in BOOLEAN
    BY <1>0, <1>a DEF CtlTypeOK, Turns
  <2> QED BY <1>0, <1>a, <1>b, <1>c, <2>1 DEF CtlTypeOK
<1>3. GoneAccounted' /\ ReachedStops'
  <2>1. GoneAccounted'
    BY <1>0, <1>a, <1>d DEF GoneAccounted
  <2>2. ReachedStops'
    <3>1. CASE Head(wire[k]) \notin Cancels
      BY <1>0, <1>a, <3>1 DEF ReachedStops
    <3>2. CASE Head(wire[k]) \in Cancels /\ turn = "starting"
      BY <1>a, <3>2 DEF ReachedStops
    <3>3. CASE Head(wire[k]) \in Cancels /\ turn # "starting"
      <4>1. turn' = "over"
        BY <1>0, <1>a, <3>3 DEF CtlTypeOK, Turns
      <4> QED BY <4>1 DEF ReachedStops
    <3> QED BY <3>1, <3>2, <3>3
  <2> QED BY <2>1, <2>2
<1>4. ControlKept'
  BY <1>0, <1>a, <1>d DEF ControlKept, Controls
<1>5. CancelStops'
  <2>1. CASE Head(wire[k]) \in Cancels
    BY <1>0, <1>a, <2>1 DEF CancelStops, CtlTypeOK, Turns
  <2>2. CASE Head(wire[k]) \notin Cancels
    BY <1>0, <1>a, <1>d, <2>2 DEF CancelStops, Controls
  <2> QED BY <2>1, <2>2
<1> QED BY <1>1, <1>2, <1>3, <1>4, <1>5, SplitNext DEF AllInv

\* A turn that ends, with its machine too, and a command that closes ask for no
\* cancel.
LEMMA StepTurn ==
    ASSUME AllInv, FinishTurn \/ ShutdownMachine \/ CloseCommand
    PROVE  AllInv'
<1>0. LinkInv /\ CtlTypeOK /\ GoneAccounted /\ ReachedStops /\ ControlKept /\ CancelStops
  BY Split DEF AllInv
<1>a. /\ UNCHANGED <<api, queue, serial, wire, reached, dropped, expired, drain>>
      /\ turn' = "over" /\ ignored' \in {ignored, FALSE}
      /\ status' \in {status, "closed"}
  BY <1>0 DEF FinishTurn, ShutdownMachine, CloseCommand, CtlTypeOK
<1>1. LinkInv'
  BY <1>0, StutterLink, NextLink DEF FinishTurn, ShutdownMachine, CloseCommand, LinkNext
<1>2. CtlTypeOK'
  <2>1. turn' \in Turns /\ ignored' \in BOOLEAN
    BY <1>0, <1>a DEF CtlTypeOK, Turns
  <2> QED BY <1>0, <1>a, <2>1 DEF CtlTypeOK
<1>3. GoneAccounted' /\ ReachedStops'
  BY <1>0, <1>a DEF GoneAccounted, ReachedStops, OnWire
<1>4. ControlKept'
  BY <1>0, <1>a DEF ControlKept, OnWire, Controls
<1>5. CancelStops'
  BY <1>a DEF CancelStops
<1> QED BY <1>1, <1>2, <1>3, <1>4, <1>5, SplitNext DEF AllInv

\* A turn that gets its executor has ignored what it had ignored.
LEMMA StepStarts ==
    ASSUME AllInv, StartExecutor
    PROVE  AllInv'
<1>0. LinkInv /\ CtlTypeOK /\ GoneAccounted /\ ReachedStops /\ ControlKept /\ CancelStops
  BY Split DEF AllInv
<1>a. /\ UNCHANGED <<link, status, api, queue, serial, wire, reached, dropped, expired, ignored, drain>>
      /\ turn = "starting" /\ turn' = "running"
  BY DEF StartExecutor
<1>1. LinkInv'
  BY <1>0, <1>a, StutterLink
<1>2. CtlTypeOK'
  BY <1>0, <1>a DEF CtlTypeOK, Turns
<1>3. GoneAccounted' /\ ReachedStops'
  BY <1>0, <1>a DEF GoneAccounted, ReachedStops, OnWire
<1>4. ControlKept'
  BY <1>0, <1>a DEF ControlKept, OnWire, Controls
<1>5. CancelStops'
  BY <1>0, <1>a DEF CancelStops, OnWire, Controls
<1> QED BY <1>1, <1>2, <1>3, <1>4, <1>5, SplitNext DEF AllInv

\* A restart refuses the requests in progress and ends the drains.
LEMMA StepRestart ==
    ASSUME AllInv, Restart
    PROVE  AllInv'
<1>0. LinkInv /\ CtlTypeOK /\ GoneAccounted /\ ReachedStops /\ ControlKept /\ CancelStops
  BY Split DEF AllInv
<1>a. /\ UNCHANGED <<status, turn, queue, serial, wire, reached, dropped, expired, ignored>>
      /\ api' = [c \in Control |-> IF api[c] \in {"sending", "unsent"} THEN "refused" ELSE api[c]]
      /\ drain' = [k \in Conn |-> IF drain[k] = NotBegun THEN NotBegun ELSE Finished]
  BY DEF Restart
<1>b. drain' \in [Conn -> Drains] /\ \A k \in Conn : drain'[k].gone = {}
  BY <1>a DEF NotBegun, Finished, Drains
<1>1. LinkInv'
  BY <1>0, StepForce DEF Restart, ForceSteps
<1>2. CtlTypeOK'
  BY <1>0, <1>a, <1>b DEF CtlTypeOK, Asked
<1>3. GoneAccounted' /\ ReachedStops'
  BY <1>0, <1>a, <1>b DEF GoneAccounted, ReachedStops
<1>4. ControlKept'
  BY <1>0, <1>a DEF ControlKept, OnWire, Controls
<1>5. CancelStops'
  BY <1>0, <1>a DEF CancelStops, OnWire, Controls, Cancels, Control
<1> QED BY <1>1, <1>2, <1>3, <1>4, <1>5, SplitNext DEF AllInv

\* AllInv is inductive.
LEMMA NextControl == AllInv /\ [Next]_vars => AllInv'
<1> SUFFICES ASSUME AllInv, [Next]_vars PROVE AllInv'
  OBVIOUS
<1>0. LinkInv
  BY Split DEF AllInv
<1>1. CASE LinkStep /\ UNCHANGED ctl
  BY <1>0, <1>1, NextLink, LinkOnly DEF LinkNext
<1>2. CASE UNCHANGED vars
  BY <1>0, <1>2, StutterLink, LinkOnly DEF vars
<1>3. CASE Issue
  BY <1>3, StepIssue, StepDeliver, StepEnqueue DEF Issue
<1>4. CASE \E k \in Conn : CloseChannel(k)
  BY <1>0, <1>4, StepStream, LinkOnly DEF CloseChannel
<1>5. CASE \E k \in Conn : OpenChannel(k) \/ ListPending(k) \/ DispatchRow(k) \/ DeletePending(k) \/ HandleAgentControl(k)
  BY <1>5, StepDrainBegins, StepDispatchRow, StepDeletePending, StepHandle
<1>6. CASE CancelRunningCommandsForMachine \/ QueueCancelCommands \/ ForceGivesUp
  BY <1>6, StepForced, StepQueueCancel
<1>7. CASE \/ SweepExpiredPendingControl \/ StartExecutor \/ FinishTurn \/ ShutdownMachine \/ CloseCommand
           \/ Restart
  BY <1>7, StepSweep, StepStarts, StepTurn, StepRestart
<1> QED BY <1>1, <1>2, <1>3, <1>4, <1>5, <1>6, <1>7 DEF Next, Drain

-----------------------------------------------------------------------------
\* RegisterMachine, UnregisterMachineIf and the handlers' cleanup: whatever is
\* sent through the registry goes to a stream whose handler runs.
THEOREM RegistrySound == LinkSpec => []RegisteredHandlerRuns
<1>1. LinkInv /\ [LinkNext]_link => LinkInv'
  BY NextLink, StutterLink
<1>2. LinkInv => RegisteredHandlerRuns
  BY DEF LinkInv
<1> QED BY <1>1, <1>2, InitLink, PTL DEF LinkSpec

\* The strengthened invariant holds throughout.
LEMMA ControlHolds == Spec => []AllInv
<1> QED BY InitControl, NextControl, PTL DEF Spec

\* DispatchPendingAgentControl and DeleteAgentControl: the registry, the queued
\* rows and the drains under way stay consistent.
THEOREM ControlInvariant == Spec => []ControlInv
<1>1. AllInv => ControlInv
  BY DEF AllInv
<1> QED BY <1>1, ControlHolds, PTL

\* deliverAgentControl and DispatchPendingAgentControl: no accepted control is
\* forgotten.
THEOREM ControlsKept == Spec => []ControlKept
<1>1. AllInv => ControlKept
  BY DEF AllInv
<1> QED BY <1>1, ControlHolds, PTL

\* CancelCommand and ForceDisconnectMachine: a cancelled turn is stopped, or the
\* cancel is under way, its loss was logged, or it came before the executor.
THEOREM CancelledTurnStops == Spec => []CancelStops
<1>1. AllInv => CancelStops
  BY DEF AllInv
<1> QED BY <1>1, ControlHolds, PTL
=============================================================================
