---------------------------- MODULE ControlQueue -----------------------------
(***************************************************************************)
(* The control interactions of one running command over the machine's      *)
(* link: steers and a cancel issued through the API, and the cancel that   *)
(* ForceDisconnectMachine queues.  A control is sent on the registered     *)
(* stream or, when that fails, queued; every MachineChannel handler drains *)
(* the queue once, before it receives.  What is sent on a stream whose     *)
(* network connection is dead may be taken for delivered.                  *)
(***************************************************************************)
EXTENDS MachineLink, Sequences

CONSTANT Steers     \* the steers issued for the command

Cancel   == "cancel"
Forced   == "forced"
Cancels  == {Cancel, Forced}
Control  == Steers \cup Cancels

VARIABLES
    status,         \* command.status
    turn,           \* the command's turn on the machine
    api,            \* the request that issues a control
    queue,          \* agent_pending_control: the controls with their row ids
    serial,         \* row ids given out
    wire,           \* controls written to a stream and not yet received
    reached,        \* history: controls the machine's router was given
    dropped,        \* history: controls a drain judged without effect
    expired,        \* history: controls the retention sweep removed
    ignored,        \* history: the turn had no executor when a cancel of it arrived
    drain           \* DispatchPendingAgentControl of a stream

wires == <<client, connect, online, session, cli, srv, registry, beat, bye, force>>
ctl  == <<status, turn, api, queue, serial, wire, reached, dropped, expired, ignored, drain>>
vars == <<link, ctl>>

Asked    == {"new", "sending", "unsent", "answered", "refused", "unqueued"}
Row      == [id: Nat, ctl: Control]
Drains   == [step: {"none", "list", "send", "done"}, rows: SUBSET Row, gone: SUBSET Row]
Turns    == {"starting", "running", "over"}
NotBegun == [step |-> "none", rows |-> {}, gone |-> {}]
Finished == [NotBegun EXCEPT !.step = "done"]

\* Every variable holds a value of its kind.
TypeOK ==
    /\ LinkTypeOK
    /\ status \in {"running", "cancelled", "closed"}
    /\ turn \in Turns
    /\ api \in [Control -> Asked]
    /\ serial \in Nat /\ queue \subseteq Row
    /\ wire \in [Conn -> Seq(Control)]
    /\ reached \subseteq Control /\ dropped \subseteq Control /\ expired \subseteq Control
    /\ ignored \in BOOLEAN
    /\ drain \in [Conn -> Drains]

Init ==
    /\ LinkInit
    /\ status = "running" /\ turn = "starting"
    /\ api = [c \in Control |-> "new"]
    /\ queue = {} /\ serial = 0 /\ wire = [k \in Conn |-> <<>>]
    /\ reached = {} /\ dropped = {} /\ expired = {} /\ ignored = FALSE
    /\ drain = [k \in Conn |-> NotBegun]

Controls(rs) == {r.ctl : r \in rs}

\* EnqueueAgentControl
Enqueued(c) ==
    /\ queue' = queue \cup {[id |-> serial, ctl |-> c]}
    /\ serial' = serial + 1

-----------------------------------------------------------------------------
(* Sending through the registry.                                           *)

\* sendAgentControl writes to the registered stream.
Sent(c) ==
    /\ registry # NoStream
    /\ wire' = [wire EXCEPT ![registry] = Append(@, c)]

\* It fails when no stream is registered or the stream is found dead.
SendFails ==
    /\ registry # NoStream => cli[registry] # "up"
    /\ UNCHANGED wire

-----------------------------------------------------------------------------
(* SteerCommand and CancelCommand.                                         *)

issued == <<reached, dropped, expired, ignored, drain, turn>>

\* A steer needs a running command.
SteerCommand(c) ==
    /\ c \in Steers /\ api[c] = "new" /\ status = "running"
    /\ api' = [api EXCEPT ![c] = "sending"]
    /\ UNCHANGED <<link, status, queue, serial, wire, issued>>

\* The command is marked CANCELED before the cancel is sent.
CancelCommand ==
    /\ api[Cancel] = "new" /\ status = "running"
    /\ status' = "cancelled"
    /\ api' = [api EXCEPT ![Cancel] = "sending"]
    /\ UNCHANGED <<link, queue, serial, wire, issued>>

\* deliverAgentControl tries the stream ...
DeliverControl(c) ==
    /\ api[c] = "sending"
    /\ \/ Sent(c) /\ api' = [api EXCEPT ![c] = "answered"]
       \/ SendFails /\ api' = [api EXCEPT ![c] = "unsent"]
    /\ UNCHANGED <<link, status, queue, serial, issued>>

\* Mutant: a send that failed is answered as if the control had been queued.
ForgetControl(c) ==
    /\ api[c] = "unsent"
    /\ api' = [api EXCEPT ![c] = "answered"]
    /\ UNCHANGED <<link, status, queue, serial, wire, issued>>

\* ... and queues the control when that failed.  When the insert fails too, a
\* steer is refused; CancelCommand logs the failure and answers nonetheless.
EnqueueControl(c) ==
    /\ c # Forced /\ api[c] = "unsent"
    /\ \/ /\ api' = [api EXCEPT ![c] = "answered"]
          /\ Enqueued(c)
          /\ UNCHANGED faults
       \/ /\ api' = [api EXCEPT ![c] = IF c = Cancel THEN "unqueued" ELSE "refused"]
          /\ Fault /\ UNCHANGED <<queue, serial>>
    /\ UNCHANGED <<wires, status, wire, issued>>

\* ForceDisconnectMachine: CancelRunningCommandsForMachine ...
CancelRunningCommandsForMachine ==
    /\ ForceCancels("cancelled")
    /\ IF status = "running"
         THEN status' = "cancelled" /\ api' = [api EXCEPT ![Forced] = "unsent"]
         ELSE UNCHANGED <<status, api>>
    /\ UNCHANGED <<queue, serial, wire, issued>>

\* ... and QueueCancelCommands for what it cancelled ...
QueueCancelCommands ==
    /\ ForceCancels("queued")
    /\ IF api[Forced] = "unsent"
         THEN Enqueued(Forced) /\ api' = [api EXCEPT ![Forced] = "answered"]
         ELSE UNCHANGED <<queue, serial, api>>
    /\ UNCHANGED <<status, wire, issued>>

\* ... unless a statement fails.
ForceGivesUp ==
    /\ ForceFails
    /\ api' = [api EXCEPT ![Forced] = IF @ = "unsent" THEN "refused" ELSE @]
    /\ UNCHANGED <<status, queue, serial, wire, issued>>

-----------------------------------------------------------------------------
(* DispatchPendingAgentControl.                                            *)

\* RegisterMachine, after which the handler drains the queue.
OpenChannel(k) ==
    /\ RegisterMachine(k)
    /\ drain' = [drain EXCEPT ![k].step = "list"]
    /\ UNCHANGED <<status, turn, api, queue, serial, wire, reached, dropped, expired, ignored>>

\* ListAgentPendingControl, in id order; a failure ends the drain.
ListPending(k) ==
    /\ drain[k].step = "list"
    /\ \/ /\ drain' = [drain EXCEPT ![k] = IF queue = {} THEN Finished ELSE [@ EXCEPT !.step = "send", !.rows = queue]]
          /\ UNCHANGED faults
       \/ drain' = [drain EXCEPT ![k] = Finished] /\ Fault
    /\ UNCHANGED <<wires, status, turn, api, queue, serial, wire, reached, dropped, expired, ignored>>

\* A cancel of a closed command, a steer of one that does not run.
Moot(c) == IF c \in Cancels THEN status = "closed" ELSE status # "running"

\* Mutant: a row counts as gone although its send failed.
DrainGone(d, r, gone) == [d EXCEPT !.rows = @ \ {r}, !.gone = @ \cup {r}]

\* A row that was sent or dropped will be deleted; one that was not sent is kept.
Drained(d, r, gone) == [d EXCEPT !.rows = @ \ {r}, !.gone = IF gone THEN @ \cup {r} ELSE @]

\* The next row: dropped when it is moot or when its command or its agent
\* cannot be read, else sent through the registry.
DispatchRow(k) ==
    /\ drain[k].step = "send"
    /\ \E r \in drain[k].rows :
         /\ \A q \in drain[k].rows : r.id <= q.id
         /\ \/ /\ IF Moot(r.ctl) THEN UNCHANGED faults ELSE Fault
               /\ dropped' = dropped \cup {r.ctl}
               /\ drain' = [drain EXCEPT ![k] = Drained(@, r, TRUE)]
               /\ UNCHANGED wire
            \/ /\ ~Moot(r.ctl) /\ Sent(r.ctl)
               /\ drain' = [drain EXCEPT ![k] = Drained(@, r, TRUE)]
               /\ UNCHANGED <<dropped, faults>>
            \/ /\ ~Moot(r.ctl) /\ SendFails
               /\ drain' = [drain EXCEPT ![k] = Drained(@, r, FALSE)]
               /\ UNCHANGED <<dropped, faults>>
    /\ UNCHANGED <<wires, status, turn, api, queue, serial, reached, expired, ignored>>

\* DeleteAgentControl; its failure is logged.
DeletePending(k) ==
    /\ drain[k].step = "send" /\ drain[k].rows = {}
    /\ drain' = [drain EXCEPT ![k] = Finished]
    /\ \/ queue' = queue \ drain[k].gone /\ UNCHANGED faults
       \/ Fault /\ UNCHANGED queue
    /\ UNCHANGED <<wires, status, turn, api, serial, wire, reached, dropped, expired, ignored>>

\* The receive loop starts after the drain, so the handler ends after it.
CloseChannel(k) ==
    /\ EndChannel(k) /\ drain[k].step = "done"
    /\ UNCHANGED ctl

\* The hourly sweep removes rows older than PendingControlTTL.
SweepExpiredPendingControl ==
    /\ Fault
    /\ \E r \in queue :
         /\ \A q \in queue : r.id <= q.id
         /\ expired' = expired \cup {r.ctl}
         /\ queue' = queue \ {r}
    /\ UNCHANGED <<wires, status, turn, api, serial, wire, reached, dropped, ignored, drain>>

-----------------------------------------------------------------------------
(* The machine, and restarts of the manager.                               *)

\* The machine's router takes the next control from a stream.
Received(k) ==
    /\ cli[k] = "up" /\ wire[k] # <<>>
    /\ wire' = [wire EXCEPT ![k] = Tail(@)]
    /\ reached' = reached \cup {Head(wire[k])}

\* Mutant: a cancel is taken for one of a command that is not in flight.
IgnoreControl(k) ==
    /\ Received(k)
    /\ UNCHANGED <<link, status, turn, api, queue, serial, dropped, expired, ignored, drain>>

\* handleAgentControl: a cancel ends the turn it names when that turn has an
\* executor.  Before that - the command is not yet the current one, the turn waits
\* at the barrier, builds its batch or its runtime - the cancel has no effect and
\* is not kept.
HandleAgentControl(k) ==
    /\ Received(k)
    /\ IF Head(wire[k]) \in Cancels
         THEN /\ turn' = IF turn = "running" THEN "over" ELSE turn
              /\ ignored' = (turn = "starting")
         ELSE UNCHANGED <<turn, ignored>>
    /\ UNCHANGED <<link, status, api, queue, serial, dropped, expired, drain>>

\* runSession sets the executor when the runtime is built.
StartExecutor ==
    /\ turn = "starting" /\ turn' = "running"
    /\ UNCHANGED <<link, status, api, queue, serial, wire, reached, dropped, expired, ignored, drain>>

\* The turn ends by itself, without an executor too, or with its runner: one that
\* stopRunner has taken out of the router's map is being stopped and counts as over.
FinishTurn ==
    /\ turn # "over" /\ turn' = "over" /\ ignored' = FALSE
    /\ UNCHANGED <<link, status, api, queue, serial, wire, reached, dropped, expired, drain>>

\* shutdown: the runners are torn down before the machine disconnects.
ShutdownMachine ==
    /\ Leave(FALSE)
    /\ turn' = "over" /\ ignored' = FALSE
    /\ UNCHANGED <<status, api, queue, serial, wire, reached, dropped, expired, drain>>

\* Its result closes a running command.
CloseCommand ==
    /\ turn = "over" /\ status = "running" /\ status' = "closed"
    /\ UNCHANGED <<link, turn, api, queue, serial, wire, reached, dropped, expired, ignored, drain>>

\* Requests in progress fail, drains end.
Restart ==
    /\ RestartManager
    /\ api' = [c \in Control |-> IF api[c] \in {"sending", "unsent"} THEN "refused" ELSE api[c]]
    /\ drain' = [k \in Conn |-> IF drain[k] = NotBegun THEN NotBegun ELSE Finished]
    /\ UNCHANGED <<status, turn, queue, serial, wire, reached, dropped, expired, ignored>>

-----------------------------------------------------------------------------
Issue   == CancelCommand \/ \E c \in Control : SteerCommand(c) \/ DeliverControl(c) \/ EnqueueControl(c)
Drain(k) == OpenChannel(k) \/ ListPending(k) \/ DispatchRow(k) \/ DeletePending(k) \/ CloseChannel(k)

Next ==
    \/ LinkStep /\ UNCHANGED ctl
    \/ Issue \/ CancelRunningCommandsForMachine \/ QueueCancelCommands \/ ForceGivesUp
    \/ \E k \in Conn : Drain(k) \/ HandleAgentControl(k)
    \/ SweepExpiredPendingControl \/ StartExecutor \/ FinishTurn \/ ShutdownMachine \/ CloseCommand \/ Restart

Spec == Init /\ [][Next]_vars

-----------------------------------------------------------------------------
OnWire(c) == \E k \in Conn : \E i \in DOMAIN wire[k] : wire[k][i] = c

(***************************************************************************)
(* A control the API has accepted is never forgotten: it is queued, or was *)
(* written to a stream, or a drain dropped it, or it expired.  No race of  *)
(* senders, drains of two streams and restarts loses it in between.        *)
(***************************************************************************)
ControlKept ==
    \A c \in Control : api[c] = "answered" =>
        c \in Controls(queue) \cup reached \cup dropped \cup expired \/ OnWire(c)

(***************************************************************************)
(* What makes ControlKept and CancelStops inductive: the rows a drain is   *)
(* about to delete have been written to a stream, or were dropped, and a   *)
(* cancel that reached the machine has ended the turn or found it without  *)
(* an executor.                                                            *)
(***************************************************************************)
GoneAccounted ==
    \A k \in Conn : \A r \in drain[k].gone : r.ctl \in reached \cup dropped \/ OnWire(r.ctl)

ReachedStops == \A c \in Cancels : c \in reached => turn = "over" \/ ignored

ControlInv == TypeOK /\ RegisteredHandlerRuns /\ GoneAccounted /\ ReachedStops

(***************************************************************************)
(* The turn of a cancelled command runs on only while a cancel is on its   *)
(* way to the machine, or was lost in a way the code logs: its insert      *)
(* failed, a drain dropped it, it expired, or its stream died with it; or  *)
(* after every cancel that arrived found the turn without an executor.     *)
(***************************************************************************)
CancelStops ==
    status = "cancelled" /\ turn # "over" =>
        \/ ignored
        \/ \E c \in Cancels :
            \/ api[c] \in {"sending", "unsent", "unqueued", "refused"}
            \/ c \in Controls(queue) \cup dropped \cup expired
            \/ OnWire(c)
=============================================================================
