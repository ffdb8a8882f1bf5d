----------------------------- MODULE MachineLink -----------------------------
(***************************************************************************)
(* One machine's connection to the manager: ConnectMachine, the heartbeat, *)
(* the MachineChannel control stream and its entry in the dispatcher's     *)
(* registry, MachineDisconnect, ForceDisconnectMachine and the ping        *)
(* monitor.  Connection k stands for the k-th call of ConnectMachine, the  *)
(* session it creates and the one stream the machine opens in it.  Every   *)
(* handler is cut at its database statements and registry operations; a    *)
(* call the machine gives up on goes on in the manager.                    *)
(***************************************************************************)
EXTENDS Naturals

CONSTANTS
    MaxConnect,     \* calls of ConnectMachine
    MaxFaults       \* disturbances: a connection breaks, pings come too late, a call
                    \* is given up, a database statement fails, an operator forces
                    \* the machine off, the manager restarts

ASSUME LinkAssumption == MaxConnect \in Nat /\ MaxFaults \in Nat

Conn     == 1 .. MaxConnect
NoStream == 0

VARIABLES
    client,         \* the machine's Run loop and the session id it holds
    connect,        \* ConnectMachine handlers: the last step they took
    online,         \* machine.status.state is ONLINE
    session,        \* machine_session.state
    cli,            \* the machine's end of a control stream
    srv,            \* the MachineChannel handler of a stream
    registry,       \* registry.machines[machine]: the stream it sends to
    beat,           \* MachineHeartbeat handlers that have checked their session
    bye,            \* MachineDisconnect handlers: the last step they took
    force,          \* ForceDisconnectMachine: the last step it took
    faults          \* disturbances so far

link == <<client, connect, online, session, cli, srv, registry, beat, bye, force, faults>>

Phases       == {"away", "calling", "connected", "beating", "leaving"}
ConnectSteps == {"none", "called", "online", "kicked", "created", "replied", "dead"}
ByeSteps     == {"none", "called", "terminated", "offline", "done"}
ForceSteps   == {"idle", "kicked", "offline", "cancelled", "queued"}

\* Every variable holds a value of its kind; a machine that is not away has a
\* session id.
LinkTypeOK ==
    /\ client \in [phase: Phases, sid: Conn \cup {NoStream}]
    /\ client.phase # "away" => client.sid \in Conn
    /\ connect \in [Conn -> ConnectSteps]
    /\ online \in BOOLEAN
    /\ session \in [Conn -> {"none", "active", "kicked", "terminated"}]
    /\ cli \in [Conn -> {"none", "up", "broken", "down"}]
    /\ srv \in [Conn -> {"none", "checked", "open", "ended"}]
    /\ registry \in Conn \cup {NoStream}
    /\ beat \subseteq Conn
    /\ bye \in [Conn -> ByeSteps]
    /\ force \in ForceSteps
    /\ faults \in 0 .. MaxFaults

LinkInit ==
    /\ client = [phase |-> "away", sid |-> NoStream]
    /\ connect = [k \in Conn |-> "none"]
    /\ online = FALSE
    /\ session = [k \in Conn |-> "none"]
    /\ cli = [k \in Conn |-> "none"] /\ srv = [k \in Conn |-> "none"]
    /\ registry = NoStream
    /\ beat = {} /\ bye = [k \in Conn |-> "none"] /\ force = "idle"
    /\ faults = 0

Fault == faults < MaxFaults /\ faults' = faults + 1

\* TerminateAllMachineSessions
Kicked(s) == [k \in Conn |-> IF s[k] = "active" THEN "kicked" ELSE s[k]]

-----------------------------------------------------------------------------
(* ConnectMachine.                                                         *)

manager == <<online, session, srv, registry, beat, force>>

\* Run: the machine is away and connects once more.
CallConnect(k) ==
    /\ client.phase = "away"
    /\ connect[k] = "none" /\ \A j \in Conn : j < k => connect[j] # "none"
    /\ client' = [phase |-> "calling", sid |-> k]
    /\ connect' = [connect EXCEPT ![k] = "called"]
    /\ UNCHANGED <<manager, cli, bye, faults>>

\* UpdateMachine(ONLINE)
ConnectOnline(k) ==
    /\ connect[k] = "called"
    /\ connect' = [connect EXCEPT ![k] = "online"]
    /\ online' = TRUE
    /\ UNCHANGED <<client, session, cli, srv, registry, beat, bye, force, faults>>

\* TerminateAllMachineSessions("replaced")
ConnectReplaces(k) ==
    /\ connect[k] = "online"
    /\ connect' = [connect EXCEPT ![k] = "kicked"]
    /\ session' = Kicked(session)
    /\ UNCHANGED <<client, online, cli, srv, registry, beat, bye, force, faults>>

\* CreateMachineSession(ACTIVE)
ConnectCreates(k) ==
    /\ connect[k] = "kicked"
    /\ connect' = [connect EXCEPT ![k] = "created"]
    /\ session' = [session EXCEPT ![k] = "active"]
    /\ UNCHANGED <<client, online, cli, srv, registry, beat, bye, force, faults>>

\* The answer: a machine that still waits takes the session and opens its stream.
ConnectReplies(k) ==
    /\ connect[k] = "created"
    /\ connect' = [connect EXCEPT ![k] = "replied"]
    /\ IF client = [phase |-> "calling", sid |-> k]
         THEN client' = [client EXCEPT !.phase = "connected"] /\ cli' = [cli EXCEPT ![k] = "up"]
         ELSE UNCHANGED <<client, cli>>
    /\ UNCHANGED <<manager, bye, faults>>

\* A database statement of the handler fails.
ConnectFails(k) ==
    /\ connect[k] \in {"called", "online", "kicked", "created"} /\ Fault
    /\ connect' = [connect EXCEPT ![k] = "dead"]
    /\ client' = IF client = [phase |-> "calling", sid |-> k] THEN [client EXCEPT !.phase = "away"] ELSE client
    /\ UNCHANGED <<manager, cli, bye>>

\* The call fails on the machine; the handler goes on.
AbandonConnect ==
    /\ client.phase = "calling" /\ Fault
    /\ client' = [client EXCEPT !.phase = "away"]
    /\ UNCHANGED <<manager, connect, cli, bye>>

-----------------------------------------------------------------------------
(* The control stream.                                                     *)

rows == <<connect, online, session, beat, bye, force>>

\* MachineChannel reads the machine row; a machine that is not ONLINE is refused.
AcceptStream(k) ==
    /\ cli[k] # "none" /\ srv[k] = "none"
    /\ srv' = [srv EXCEPT ![k] = IF online THEN "checked" ELSE "ended"]
    /\ cli' = [cli EXCEPT ![k] = IF ~online /\ @ = "up" THEN "broken" ELSE @]
    /\ UNCHANGED <<client, rows, registry, faults>>

\* RegisterMachine: the newest handler to register takes the entry.
RegisterMachine(k) ==
    /\ srv[k] = "checked"
    /\ srv' = [srv EXCEPT ![k] = "open"]
    /\ registry' = k
    /\ UNCHANGED <<client, rows, cli, faults>>

\* Mutant: the handler leaves its entry behind.
NotUnregistered(reg, k) == reg

\* UnregisterMachineIf: only the entry of this very stream is removed.
Unregistered(reg, k) == IF reg = k THEN NoStream ELSE reg

\* The receive loop ends once the machine's end is gone; deferred cleanup.
EndChannel(k) ==
    /\ srv[k] = "open" /\ cli[k] # "up"
    /\ srv' = [srv EXCEPT ![k] = "ended"]
    /\ registry' = Unregistered(registry, k)
    /\ UNCHANGED <<client, rows, cli, faults>>

\* The network connection of a stream breaks.
BreakStream(k) ==
    /\ cli[k] = "up" /\ Fault
    /\ cli' = [cli EXCEPT ![k] = "broken"]
    /\ UNCHANGED <<client, rows, srv, registry>>

\* checkSessionLiveness: no ping in time.  Only the registry entry is removed.
PingTimeout(k) ==
    /\ registry = k
    /\ IF cli[k] = "up" THEN Fault ELSE UNCHANGED faults
    /\ registry' = Unregistered(registry, k)
    /\ UNCHANGED <<client, rows, cli, srv>>

-----------------------------------------------------------------------------
(* Heartbeats and leaving.                                                 *)

\* Mutant: the heartbeat does not look at the session's state.
HeartbeatUnchecked ==
    /\ client.phase = "connected"
    /\ client' = [client EXCEPT !.phase = "beating"]
    /\ beat' = beat \cup {client.sid}
    /\ UNCHANGED <<connect, online, session, cli, srv, registry, bye, force, faults>>

\* Heartbeat: refused unless the session is ACTIVE, and then the machine reconnects.
HeartbeatChecks ==
    /\ client.phase = "connected"
    /\ LET k == client.sid
       IN IF session[k] = "active"
            THEN /\ client' = [client EXCEPT !.phase = "beating"]
                 /\ beat' = beat \cup {k}
                 /\ UNCHANGED cli
            ELSE /\ client' = [client EXCEPT !.phase = "away"]
                 /\ cli' = [cli EXCEPT ![k] = "down"]
                 /\ UNCHANGED beat
    /\ UNCHANGED <<connect, online, session, srv, registry, bye, force, faults>>

\* Mutant: only the session row is touched.
HeartbeatTouches(k) ==
    /\ k \in beat
    /\ beat' = beat \ {k}
    /\ client' = IF client = [phase |-> "beating", sid |-> k]
                   THEN [client EXCEPT !.phase = "connected"] ELSE client
    /\ UNCHANGED <<connect, online, session, cli, srv, registry, bye, force, faults>>

\* UpdateMachine(ONLINE), whatever has happened since the check, and the answer.
HeartbeatUpdates(k) ==
    /\ k \in beat
    /\ beat' = beat \ {k}
    /\ online' = TRUE
    /\ client' = IF client = [phase |-> "beating", sid |-> k]
                   THEN [client EXCEPT !.phase = "connected"] ELSE client
    /\ UNCHANGED <<connect, session, cli, srv, registry, bye, force, faults>>

\* The heartbeat fails or times out: ctrlCancel, and reconnect without Disconnect.
HeartbeatFails ==
    /\ client.phase = "beating" /\ Fault
    /\ client' = [client EXCEPT !.phase = "away"]
    /\ cli' = [cli EXCEPT ![client.sid] = "down"]
    /\ UNCHANGED <<manager, connect, bye>>

\* The stream died, or the machine shuts down: MachineDisconnect is called.
Leave(dying) ==
    /\ client.phase = "connected"
    /\ dying => cli[client.sid] = "broken"
    /\ client' = [client EXCEPT !.phase = "leaving"]
    /\ cli' = [cli EXCEPT ![client.sid] = "down"]
    /\ bye' = [bye EXCEPT ![client.sid] = "called"]
    /\ UNCHANGED <<manager, connect, faults>>

\* disconnectWithTimeout gives up after 5 s; the handler goes on.
AbandonDisconnect ==
    /\ client.phase = "leaving" /\ Fault
    /\ client' = [client EXCEPT !.phase = "away"]
    /\ UNCHANGED <<manager, connect, cli, bye>>

\* TerminateMachineSession
DisconnectTerminates(k) ==
    /\ bye[k] = "called"
    /\ bye' = [bye EXCEPT ![k] = "terminated"]
    /\ session' = [session EXCEPT ![k] = IF @ = "active" THEN "terminated" ELSE @]
    /\ UNCHANGED <<client, connect, online, cli, srv, registry, beat, force, faults>>

\* UpdateMachine(OFFLINE)
DisconnectOffline(k) ==
    /\ bye[k] = "terminated"
    /\ bye' = [bye EXCEPT ![k] = "offline"]
    /\ online' = FALSE
    /\ UNCHANGED <<client, connect, session, cli, srv, registry, beat, force, faults>>

\* UnregisterMachine, whichever stream is registered, and the answer; a
\* database statement that fails ends the handler before that.
DisconnectReplies(k) ==
    /\ \/ bye[k] = "offline" /\ registry' = NoStream /\ UNCHANGED faults
       \/ bye[k] \in {"called", "terminated"} /\ Fault /\ UNCHANGED registry
    /\ bye' = [bye EXCEPT ![k] = "done"]
    /\ client' = IF client = [phase |-> "leaving", sid |-> k] THEN [client EXCEPT !.phase = "away"] ELSE client
    /\ UNCHANGED <<connect, online, session, cli, srv, beat, force>>

-----------------------------------------------------------------------------
(* ForceDisconnectMachine and restarts of the manager.                     *)

ForceKicks ==
    /\ force = "idle" /\ Fault
    /\ force' = "kicked"
    /\ session' = Kicked(session)
    /\ UNCHANGED <<client, connect, online, cli, srv, registry, beat, bye>>

ForceOffline ==
    /\ force = "kicked"
    /\ force' = "offline"
    /\ online' = FALSE
    /\ UNCHANGED <<client, connect, session, cli, srv, registry, beat, bye, faults>>

\* The machine's commands are cancelled, then cancels are queued (ControlQueue).
ForceCancels(step) ==
    /\ <<force, step>> \in {<<"offline", "cancelled">>, <<"cancelled", "queued">>}
    /\ force' = step
    /\ UNCHANGED <<client, connect, online, session, cli, srv, registry, beat, bye, faults>>

ForceUnregisters ==
    /\ force = "queued"
    /\ force' = "idle"
    /\ registry' = NoStream
    /\ UNCHANGED <<client, connect, online, session, cli, srv, beat, bye, faults>>

\* A database statement of ForceDisconnectMachine fails; this belongs to the
\* disturbance that ForceKicks counted.
ForceFails ==
    /\ force # "idle"
    /\ force' = "idle"
    /\ UNCHANGED <<client, connect, online, session, cli, srv, registry, beat, bye, faults>>

\* Every handler ends, every stream breaks, the registry is empty.
RestartManager ==
    /\ Fault
    /\ connect' = [k \in Conn |-> IF connect[k] \in {"none", "replied"} THEN connect[k] ELSE "dead"]
    /\ bye' = [k \in Conn |-> IF bye[k] = "none" THEN "none" ELSE "done"]
    /\ srv' = [k \in Conn |-> IF srv[k] = "none" /\ cli[k] = "none" THEN "none" ELSE "ended"]
    /\ cli' = [k \in Conn |-> IF cli[k] # "up" THEN cli[k]
                             ELSE IF client.phase = "beating" THEN "down" ELSE "broken"]
    /\ registry' = NoStream /\ beat' = {} /\ force' = "idle"
    /\ client' = IF client.phase \in {"calling", "beating", "leaving"} THEN [client EXCEPT !.phase = "away"] ELSE client
    /\ UNCHANGED <<online, session>>

-----------------------------------------------------------------------------
\* The steps that concern the link alone.
LinkStep ==
    \/ \E k \in Conn :
         \/ CallConnect(k) \/ ConnectOnline(k) \/ ConnectReplaces(k) \/ ConnectCreates(k)
         \/ ConnectReplies(k) \/ ConnectFails(k) \/ AcceptStream(k) \/ BreakStream(k) \/ PingTimeout(k)
         \/ HeartbeatUpdates(k)
         \/ DisconnectTerminates(k) \/ DisconnectOffline(k) \/ DisconnectReplies(k)
    \/ AbandonConnect \/ HeartbeatChecks \/ HeartbeatFails \/ AbandonDisconnect
    \/ Leave(TRUE) \/ ForceKicks \/ ForceOffline \/ ForceUnregisters

LinkNext ==
    \/ LinkStep \/ Leave(FALSE) \/ ForceFails \/ RestartManager
    \/ \E step \in ForceSteps : ForceCancels(step)
    \/ \E k \in Conn : RegisterMachine(k) \/ EndChannel(k)

(***************************************************************************)
(* Handlers and the Run loop keep running: a heartbeat is due every 30 s,  *)
(* a broken stream ends both pumps, every call is answered or fails.  The  *)
(* error of a stream stays ready for Run's select while heartbeats go on,  *)
(* hence the strong fairness of Leave(TRUE).                               *)
(***************************************************************************)
LinkFairness ==
    /\ WF_link(HeartbeatChecks) /\ SF_link(Leave(TRUE))
    /\ \A k \in Conn :
         /\ WF_link(CallConnect(k))
         /\ WF_link(ConnectOnline(k) \/ ConnectReplaces(k) \/ ConnectCreates(k) \/ ConnectReplies(k))
         /\ WF_link(AcceptStream(k)) /\ WF_link(RegisterMachine(k)) /\ WF_link(EndChannel(k))
         /\ WF_link(HeartbeatUpdates(k))
         /\ WF_link(DisconnectTerminates(k) \/ DisconnectOffline(k) \/ DisconnectReplies(k))

LinkSpec == LinkInit /\ [][LinkNext]_link /\ LinkFairness

-----------------------------------------------------------------------------
(***************************************************************************)
(* The registry never names a stream whose handler is over: what is sent   *)
(* through it goes to a stream somebody reads, however connects,           *)
(* disconnects, ping timeouts and restarts interleave.                     *)
(***************************************************************************)
RegisteredHandlerRuns == registry # NoStream => srv[registry] = "open"

(***************************************************************************)
(* A machine whose session was kicked or terminated does not stay          *)
(* connected in it: forced disconnects and replaced sessions take effect.  *)
(***************************************************************************)
KickedLeaves ==
    \A k \in Conn :
        (client = [phase |-> "connected", sid |-> k] /\ session[k] # "active")
            ~> (client.sid # k \/ client.phase \in {"away", "leaving"})

(***************************************************************************)
(* While a machine is connected its row does not stay OFFLINE: a late      *)
(* MachineDisconnect or a forced disconnect is repaired by the next        *)
(* heartbeat, or the machine leaves the connection.                        *)
(***************************************************************************)
PresenceHeals ==
    (client.phase = "connected" /\ ~online) ~> (online \/ client.phase \in {"away", "leaving"})
=============================================================================
