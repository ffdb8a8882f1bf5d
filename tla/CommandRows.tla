----------------------------- MODULE CommandRows -----------------------------
(***************************************************************************)
(* The command rows of one agent under the manager's concurrent handlers:  *)
(* BeginSession mints a command in several statements, UploadCommandData   *)
(* loads a status before the transaction that depends on it, CancelCommand *)
(* checks before it updates, ForceDisconnectMachine cancels what it finds, *)
(* and the stale command reaper sweeps.  Each handler is cut at its        *)
(* database statements and at its uses of the command tracker; PostgreSQL  *)
(* runs each statement or transaction atomically.                          *)
(*                                                                         *)
(* The machine is what CommandPipeline shows it to be: it pulls a command, *)
(* passes the barrier once nothing is unacknowledged, runs the turn, and   *)
(* sends the result until it is acknowledged.  It may give up a call whose *)
(* handler goes on.  Only results change a row's status, so the other      *)
(* records are left out.                                                   *)
(***************************************************************************)
EXTENDS UploadBatch

CONSTANTS
    MaxCommand,     \* commands the manager mints
    MaxRestarts,    \* restarts of the manager
    Handlers        \* UploadCommandData requests the manager handles at once

ASSUME RowsAssumption == MaxCommand \in Nat /\ MaxRestarts \in Nat

Command  == 1 .. MaxCommand
NoneYet  == 0
Outcomes == {Record(c, "result", 1, b) : c \in Command, b \in {"ok", "fail"}}

VARIABLES
    status,         \* command.status, with the failure kind
    mint,           \* how far HandleBeginSession is with each command
    current,        \* commandTracker.current of the agent, 0 when unset
    turn,           \* the drain loop: the command it waits for or runs
    unacked,        \* the result in the machine's outbox
    awaiting,       \* the handler the machine's uploader waits for, {} if none
    upload,         \* the UploadCommandData handlers
    cancelling,     \* CancelCommand calls between their check and their update
    sweep,          \* the commands the reaper's sweep has listed
    machine,        \* "online", "offline" (may come back) or "gone"
    forcing,        \* ForceDisconnectMachine has taken the machine offline
    restarts,       \* restarts of the manager so far
    acked,          \* history: commands whose result was acknowledged
    unreported,     \* history: commands closed by a commit that was taken for failed
    marked          \* history: commands the tracker was set to since the start

vars == <<status, mint, current, turn, unacked, awaiting, upload, cancelling, sweep,
          machine, forcing, restarts, acked, unreported, marked>>

MintSteps == {"none", "requested", "created", "started", "tracked", "replied", "dead"}
Idle      == [cmd |-> NoneYet, phase |-> "idle"]
Free      == [phase |-> "free", rec |-> Poison, st |-> "none", cleans |-> FALSE]

Uploads == [phase: {"free", "loaded", "applied"}, rec: Outcomes \cup {Poison},
            st: Statuses, cleans: BOOLEAN]

\* Every variable holds a value of its kind.
TypeOK ==
    /\ status \in [Command -> Statuses]
    /\ mint \in [Command -> MintSteps]
    /\ current \in Command \cup {NoneYet}
    /\ turn \in [cmd: Command \cup {NoneYet}, phase: {"idle", "begin", "ready"}]
    /\ unacked \subseteq Outcomes
    /\ awaiting \subseteq Handlers
    /\ upload \in [Handlers -> Uploads]
    /\ cancelling \subseteq Command /\ sweep \subseteq Command
    /\ machine \in {"online", "offline", "gone"} /\ forcing \in BOOLEAN
    /\ restarts \in 0 .. MaxRestarts
    /\ acked \subseteq Command /\ unreported \subseteq Command /\ marked \subseteq Command

Init ==
    /\ status = [c \in Command |-> "none"]
    /\ mint = [c \in Command |-> "none"]
    /\ current = NoneYet
    /\ turn = Idle
    /\ unacked = {} /\ awaiting = {}
    /\ upload = [h \in Handlers |-> Free]
    /\ cancelling = {} /\ sweep = {}
    /\ machine = "online" /\ forcing = FALSE /\ restarts = 0
    /\ acked = {} /\ unreported = {} /\ marked = {}

-----------------------------------------------------------------------------
(* HandleBeginSession.  The client may have given up at any point.         *)

handlers == <<unacked, awaiting, upload, cancelling, sweep, machine, forcing, restarts, acked, unreported>>

\* The request passes the check that its machine is ONLINE.
BeginSession(c) ==
    /\ machine = "online" /\ turn = Idle
    /\ mint[c] = "none" /\ \A d \in Command : d < c => mint[d] # "none"
    /\ mint' = [mint EXCEPT ![c] = "requested"]
    /\ turn' = [cmd |-> c, phase |-> "begin"]
    /\ UNCHANGED <<status, current, marked, handlers>>

\* CreateCommand commits the row, RUNNING already, or fails.
CreateCommand(c) ==
    /\ mint[c] = "requested"
    /\ \/ /\ mint' = [mint EXCEPT ![c] = "created"]
          /\ status' = [status EXCEPT ![c] = "running"]
       \/ /\ mint' = [mint EXCEPT ![c] = "dead"]
          /\ UNCHANGED status
    /\ UNCHANGED <<current, turn, marked, handlers>>

\* UpdateCommandStatus has no predicate on the status; its error is logged.
MarkRunning(c) ==
    /\ mint[c] = "created"
    /\ mint' = [mint EXCEPT ![c] = "started"]
    /\ status' \in {status, [status EXCEPT ![c] = "running"]}
    /\ UNCHANGED <<current, turn, marked, handlers>>

\* tracker.set
TrackCommand(c) ==
    /\ mint[c] = "started"
    /\ mint' = [mint EXCEPT ![c] = "tracked"]
    /\ current' = c
    /\ marked' = marked \cup {c}
    /\ UNCHANGED <<status, turn, handlers>>

\* The answer reaches a drain loop that still waits for it, or nobody.
ReplySession(c) ==
    /\ mint[c] = "tracked"
    /\ IF turn = [cmd |-> c, phase |-> "begin"]
         THEN /\ turn' = [turn EXCEPT !.phase = "ready"]
              /\ mint' = [mint EXCEPT ![c] = "replied"]
         ELSE /\ mint' = [mint EXCEPT ![c] = "dead"]
              /\ UNCHANGED turn
    /\ UNCHANGED <<status, current, marked, handlers>>

-----------------------------------------------------------------------------
(* The machine.                                                            *)

rows == <<status, mint, current, upload, cancelling, sweep, forcing, restarts, unreported, marked>>

\* beginSession times out or its connection breaks.
AbandonSession ==
    /\ machine # "gone" /\ turn.phase = "begin"
    /\ turn' = Idle
    /\ UNCHANGED <<rows, unacked, awaiting, machine, acked>>

\* The barrier lets the turn start, and the turn ends with its one result.
FinishTurn(b) ==
    /\ machine # "gone" /\ turn.phase = "ready" /\ unacked = {}
    /\ unacked' = {Record(turn.cmd, "result", 1, b)}
    /\ turn' = Idle
    /\ UNCHANGED <<rows, awaiting, machine, acked>>

\* An upload call fails on the machine; its handler goes on.
AbandonUpload ==
    /\ machine # "gone" /\ awaiting # {}
    /\ awaiting' = {}
    /\ UNCHANGED <<rows, turn, unacked, machine, acked>>

\* The machine connects again, or is lost for good with everything it held.
MachineChanges(m) ==
    /\ \/ machine = "offline" /\ m = "online"
       \/ machine # "gone" /\ m = "gone"
    /\ machine' = m
    /\ turn' = IF m = "gone" THEN Idle ELSE turn
    /\ unacked' = IF m = "gone" THEN {} ELSE unacked
    /\ awaiting' = IF m = "gone" THEN {} ELSE awaiting
    /\ UNCHANGED <<rows, acked>>

-----------------------------------------------------------------------------
(* UploadCommandData.                                                      *)

outside == <<mint, turn, cancelling, sweep, machine, forcing, restarts, marked>>

\* The handler reads the command's status, before its transaction.
LoadStatus(h) ==
    /\ machine = "online" /\ awaiting = {} /\ upload[h] = Free
    /\ \E r \in unacked :
         upload' = [upload EXCEPT ![h] = [phase |-> "loaded", rec |-> r,
                                          st |-> status[r.cmd], cleans |-> FALSE]]
    /\ awaiting' = {h}
    /\ UNCHANGED <<outside, status, current, unacked, acked, unreported>>

\* Mutant: a first terminal is not reported, only a re-grade.
RegradesOnly(st, row, outcome) == st = "unreachable" /\ row = "unreachable"

\* A command is reported to the dispatcher by the status that was loaded; a
\* re-grade only when its row was met.
Reports(st, row, outcome) ==
    \/ st \in LiveStatuses
    \/ st = "unreachable" /\ row = "unreachable" /\ outcome = "completed"

\* The transaction commits.
ApplyResult(h) ==
    /\ upload[h].phase = "loaded"
    /\ LET r  == upload[h].rec
           st == upload[h].st
       IN /\ status' = [status EXCEPT ![r.cmd] = TerminalUpdate(st, @, Outcome(r))]
          /\ upload' = [upload EXCEPT ![h].phase = "applied",
                                      ![h].cleans = Reports(st, status[r.cmd], Outcome(r))]
    /\ UNCHANGED <<outside, current, unacked, awaiting, acked, unreported>>

\* The transaction is rolled back (database error, context cancelled).
FailResult(h) ==
    /\ upload[h].phase = "loaded"
    /\ upload' = [upload EXCEPT ![h] = Free]
    /\ awaiting' = awaiting \ {h}
    /\ UNCHANGED <<outside, status, current, unacked, acked, unreported>>

\* The transaction commits, and Commit returns an error: the request fails
\* without any cleanup, and the retry will find the row closed.
CommitUnknown(h) ==
    /\ upload[h].phase = "loaded"
    /\ LET r  == upload[h].rec
           st == TerminalUpdate(upload[h].st, status[r.cmd], Outcome(r))
       IN /\ status' = [status EXCEPT ![r.cmd] = st]
          /\ unreported' = unreported \cup (IF st # status[r.cmd] THEN {r.cmd} ELSE {})
    /\ upload' = [upload EXCEPT ![h] = Free]
    /\ awaiting' = awaiting \ {h}
    /\ UNCHANGED <<outside, current, unacked, acked>>

\* Mutant: the mark is removed whatever it points at.
ClearedAlways(cur, c) == NoneYet

\* commandTracker.clear
Cleared(cur, c) == IF cur = c THEN NoneYet ELSE cur

\* Terminal cleanup and the answer; the machine evicts what is acknowledged.
AnswerUpload(h) ==
    /\ upload[h].phase = "applied"
    /\ LET c == upload[h].rec.cmd
       IN /\ current' = IF upload[h].cleans THEN Cleared(current, c) ELSE current
          /\ IF h \in awaiting
               THEN /\ unacked' = unacked \ {upload[h].rec}
                    /\ acked' = acked \cup {c}
               ELSE UNCHANGED <<unacked, acked>>
    /\ awaiting' = awaiting \ {h}
    /\ upload' = [upload EXCEPT ![h] = Free]
    /\ UNCHANGED <<outside, status, unreported>>

-----------------------------------------------------------------------------
(* Cancel, forced disconnect, the reaper, a restart of the manager.        *)

others == <<mint, current, turn, unacked, awaiting, upload, restarts, acked, unreported, marked>>

\* CancelCommand reads the row and checks it ...
CheckCancel(c) ==
    /\ status[c] \in LiveStatuses
    /\ cancelling' = cancelling \cup {c}
    /\ UNCHANGED <<others, status, sweep, machine, forcing>>

\* ... and then updates it without looking again, unless the update fails.
MarkCancelled(c) ==
    /\ c \in cancelling
    /\ cancelling' = cancelling \ {c}
    /\ status' \in {status, [status EXCEPT ![c] = "cancelled"]}
    /\ UNCHANGED <<others, sweep, machine, forcing>>

\* ForceDisconnectMachine first takes the machine offline ...
ForceOffline ==
    /\ ~forcing
    /\ machine' = IF machine = "gone" THEN machine ELSE "offline"
    /\ forcing' = TRUE
    /\ UNCHANGED <<others, status, cancelling, sweep>>

CancelRunning(st) == IF st \in LiveStatuses THEN "cancelled" ELSE st

\* ... and then cancels its commands in one guarded statement, which may fail.
CancelRunningCommandsForMachine ==
    /\ forcing
    /\ forcing' = FALSE
    /\ status' \in {status, [c \in Command |-> CancelRunning(status[c])]}
    /\ UNCHANGED <<others, cancelling, sweep, machine>>

\* ListCommands does not select machine_id: a listed command has machine 0.
ListedMachine(c) == 0

machineLost(m) == m # 0 /\ machine # "online"

\* A sweep lists the running commands ...
SweepStaleCommands ==
    /\ sweep = {}
    /\ sweep' = {c \in Command : status[c] = "running"}
    /\ UNCHANGED <<others, status, cancelling, machine, forcing>>

\* The update's predicate: a result that came first is kept.
Reaped(st) == IF st = "running" THEN "unreachable" ELSE st

\* ... and reaps those of lost machines that are still running.
ReapRunningCommand(c) ==
    /\ c \in sweep
    /\ sweep' = sweep \ {c}
    /\ status' = IF machineLost(ListedMachine(c)) THEN [status EXCEPT ![c] = Reaped(@)] ELSE status
    /\ UNCHANGED <<others, cancelling, machine, forcing>>

\* Handlers end where they are and the tracker is empty.
RestartManager ==
    /\ restarts < MaxRestarts /\ restarts' = restarts + 1
    /\ mint' = [c \in Command |-> IF mint[c] \in {"none", "replied"} THEN mint[c] ELSE "dead"]
    /\ current' = NoneYet /\ marked' = {}
    /\ upload' = [h \in Handlers |-> Free] /\ awaiting' = {}
    /\ turn' = IF turn.phase = "begin" THEN Idle ELSE turn
    /\ cancelling' = {} /\ sweep' = {} /\ forcing' = FALSE
    /\ UNCHANGED <<status, unacked, machine, acked, unreported>>

-----------------------------------------------------------------------------
Mint(c) == BeginSession(c) \/ CreateCommand(c) \/ MarkRunning(c) \/ TrackCommand(c) \/ ReplySession(c)

Machine ==
    \/ AbandonSession \/ AbandonUpload
    \/ \E b \in {"ok", "fail"} : FinishTurn(b)
    \/ \E m \in {"online", "gone"} : MachineChanges(m)

Upload(h) == LoadStatus(h) \/ ApplyResult(h) \/ FailResult(h) \/ CommitUnknown(h) \/ AnswerUpload(h)

Admin ==
    \/ \E c \in Command : CheckCancel(c) \/ MarkCancelled(c) \/ ReapRunningCommand(c)
    \/ ForceOffline \/ CancelRunningCommandsForMachine \/ SweepStaleCommands \/ RestartManager

Next ==
    \/ \E c \in Command : Mint(c)
    \/ Machine
    \/ \E h \in Handlers : Upload(h)
    \/ Admin

\* The reaper's ticker runs as long as the manager does.
Fairness ==
    /\ WF_vars(SweepStaleCommands)
    /\ \A c \in Command : WF_vars(ReapRunningCommand(c))

Spec == Init /\ [][Next]_vars /\ Fairness

-----------------------------------------------------------------------------
Closed == {"completed", "failed", "cancelled"}

(***************************************************************************)
(* A result the machine was told is acknowledged (so that it forgets it)   *)
(* has closed its command for good: no handler still under way makes the   *)
(* row live again.                                                         *)
(***************************************************************************)
AckedClosed == \A c \in acked : status[c] \in Closed

(***************************************************************************)
(* The only steps that change the status of a closed command are the two   *)
(* unguarded updates: a cancel that had checked the command while it was   *)
(* live, and the second statement of its own BeginSession.  Late, repeated *)
(* and concurrent results, the forced disconnect and the reaper never do.  *)
(***************************************************************************)
AnchorsStand ==
    [][\A c \in Command :
         status[c] \in Closed /\ status'[c] # status[c] =>
            \/ c \in cancelling /\ status'[c] = "cancelled"
            \/ mint[c] = "created" /\ status'[c] = "running"]_vars

(***************************************************************************)
(* When a result closed a command and no upload of it is in progress, the  *)
(* agent's in-flight mark does not point at it any more, whichever of      *)
(* several concurrent uploads did the work.  The one exception is a commit *)
(* that was reported as an error: no retry reports that terminal again.    *)
(***************************************************************************)
ClosedUntracked ==
    \A c \in Command :
        /\ status[c] \in {"completed", "failed"}
        /\ \A h \in Handlers : upload[h].rec.cmd # c
        => current # c \/ c \in unreported

(***************************************************************************)
(* While a turn runs, the mark set for it since the manager's start is     *)
(* wiped by no late terminal: it points at the turn's command, or at one   *)
(* whose BeginSession the drain loop gave up and which marked itself later.*)
(***************************************************************************)
TrackedTurn ==
    turn.phase = "ready" /\ turn.cmd \in marked =>
        \/ current = turn.cmd
        \/ current # NoneYet /\ mint[current] \in {"tracked", "dead"}

(***************************************************************************)
(* What the handlers may rely on, the inductive invariant of the proofs:   *)
(* how far a command is minted bounds its row and what the machine and the *)
(* upload handlers may hold of it; a handler that loaded a closed row, or  *)
(* has committed, leaves the row closed; and when a result closed the      *)
(* command the mark points at, the handler that will clear it is under way *)
(* or its commit was taken for failed.                                     *)
(***************************************************************************)
MintedRows ==
    \A c \in Command :
        /\ mint[c] \in {"none", "requested"} => status[c] = "none"
        /\ mint[c] \in {"created", "started", "tracked", "replied"} =>
               status[c] \in LiveStatuses \cup Closed
        /\ status[c] \in {"completed", "failed"} => mint[c] = "replied"
        /\ c \in cancelling => status[c] \in LiveStatuses \cup Closed
        /\ status[c] # "unreachable"

HeldResults ==
    /\ turn.phase # "idle" => turn.cmd \in Command
    /\ turn.phase # "idle" => (turn.phase = "ready" <=> mint[turn.cmd] = "replied")
    /\ \A r \in unacked : mint[r.cmd] = "replied" /\ (turn.phase = "ready" => r.cmd # turn.cmd)
    /\ \A c \in acked : mint[c] = "replied" /\ status[c] \in Closed

UploadSound(u) ==
    /\ u.rec \in Outcomes
    /\ mint[u.rec.cmd] = "replied"
    /\ turn.phase = "ready" => u.rec.cmd # turn.cmd
    /\ u.st \in LiveStatuses \cup Closed
    /\ u.st \in Closed \/ u.phase = "applied" => status[u.rec.cmd] \in Closed

UploadsSound == \A h \in Handlers : upload[h].phase # "free" => UploadSound(upload[h])

MarkPending ==
    current # NoneYet /\ status[current] \in {"completed", "failed"} =>
        \/ \E h \in Handlers : upload[h].phase = "applied" /\ upload[h].rec.cmd = current /\ upload[h].cleans
        \/ current \in unreported

TurnMarked ==
    turn.phase # "idle" /\ turn.cmd \in marked /\ mint[turn.cmd] \in {"tracked", "replied"} =>
        \/ current = turn.cmd
        \/ current # NoneYet /\ mint[current] \in {"tracked", "dead"}

RowsInv == TypeOK /\ MintedRows /\ HeldResults /\ UploadsSound /\ MarkPending /\ TurnMarked

(***************************************************************************)
(* dispatcher.go: "the stale-command reaper closes a truly lost command".  *)
(***************************************************************************)
LostCommandClosed ==
    \A c \in Command : (machine = "gone" /\ status[c] = "running") ~> (status[c] # "running")
=============================================================================
