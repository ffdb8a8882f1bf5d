----------------------------- MODULE Supervisor -----------------------------
(***************************************************************************)
(* The machine supervisor: its worker process, the watcher that restarts   *)
(* it, the self-upgrade that swaps the binary underneath both, and the     *)
(* shutdown.  The three run concurrently and share s.mu's fields; each     *)
(* action is what one of them does between two releases of the lock, or    *)
(* one call that touches a file or a process.                              *)
(***************************************************************************)
EXTENDS Naturals

CONSTANTS
    MaxUpgrades,    \* upgrades the manager asks for
    MaxFaults       \* worker crashes and calls that fail

ASSUME SupervisorAssumption == MaxUpgrades \in Nat /\ MaxFaults \in Nat

VARIABLES
    proc,           \* the supervisor's process: alive, replaced by exec, gone
    foreground,     \* relaunch execs in place instead of spawning
    exe,            \* what is at exePath
    old,            \* what is at exePath.old
    worker,         \* the worker process: none, up, or told to stop
    held,           \* workerCmd is set
    taken,          \* whose stopWorker has the handle of the worker there is
    watch,          \* watchWorker
    upgrade,        \* the upgrade goroutine
    run,            \* Run
    paused,         \* workerPaused
    stopping,       \* stopping
    closed,         \* stopWatcher is closed
    addr,           \* whose address is in the addr file
    next,           \* the relaunched supervisor: none, started, serving
    upgrades,       \* upgrades accepted so far
    broken,         \* history: a rollback failed
    faults          \* faults so far

fileVars == <<exe, old, addr>>
flagVars == <<paused, stopping, closed>>
procVars == <<proc, foreground, next>>
workVars == <<worker, held, taken>>
vars == <<procVars, fileVars, workVars, watch, upgrade, run, flagVars, upgrades, broken, faults>>

Binary == {"none", "current", "new"}

\* Every variable holds a value of its kind.
SupervisorTypeOK ==
    /\ proc \in {"alive", "replaced", "gone"} /\ foreground \in BOOLEAN
    /\ exe \in Binary /\ old \in Binary
    /\ worker \in {"none", "up", "term"} /\ held \in BOOLEAN
    /\ taken \in {"none", "upgrade", "run"}
    /\ watch \in {"top", "start", "wait", "join", "check", "paused", "backoff", "gone"}
    /\ upgrade \in {"idle", "download", "pause", "take", "signal", "wait", "aside", "place",
                    "relaunch", "rollback", "resume", "finish", "takeover", "lastsignal", "last", "exit"}
    /\ run \in {"serve", "flag", "close", "take", "signal", "wait", "cleanup", "done"}
    /\ paused \in BOOLEAN /\ stopping \in BOOLEAN /\ closed \in BOOLEAN
    /\ addr \in {"none", "mine", "next"} /\ next \in {"none", "started", "serving"}
    /\ broken \in BOOLEAN /\ upgrades \in 0 .. MaxUpgrades /\ faults \in 0 .. MaxFaults

\* Run has started the control server, removed exePath.old and the watcher runs.
SupervisorInit ==
    /\ proc = "alive" /\ foreground \in BOOLEAN
    /\ exe = "current" /\ old = "none" /\ addr = "mine"
    /\ worker = "none" /\ held = FALSE /\ taken = "none"
    /\ watch = "top" /\ upgrade = "idle" /\ run = "serve"
    /\ paused = FALSE /\ stopping = FALSE /\ closed = FALSE
    /\ next = "none" /\ upgrades = 0 /\ broken = FALSE /\ faults = 0

Alive == proc = "alive"
Fault == faults < MaxFaults /\ faults' = faults + 1

-----------------------------------------------------------------------------
(* The worker process.                                                     *)

\* It exits when it is told to: by the signal, or by the kill after it.  Then a
\* handle that somebody still has is of no worker: signalling it does nothing.
WorkerStops ==
    /\ worker = "term"
    /\ worker' = "none" /\ taken' = "none"
    /\ UNCHANGED <<procVars, fileVars, held, watch, upgrade, run, flagVars, upgrades, broken, faults>>

WorkerCrashes ==
    /\ Fault /\ worker = "up"
    /\ worker' = "none" /\ taken' = "none"
    /\ UNCHANGED <<procVars, fileVars, held, watch, upgrade, run, flagVars, upgrades, broken>>

-----------------------------------------------------------------------------
(* watchWorker.                                                            *)

Watcher(from, to) == Alive /\ watch = from /\ watch' = to

WatchTop ==
    /\ Watcher("top", IF closed THEN "gone" ELSE "start")
    /\ UNCHANGED <<procVars, fileVars, workVars, upgrade, run, flagVars, upgrades, broken, faults>>

NewWorker == worker' = "up" /\ held' = TRUE /\ UNCHANGED taken

\* Mutant: startWorker does not look at stopping.
StartAnyway ==
    /\ Watcher("start", IF exe = "none" THEN "backoff" ELSE "wait")
    /\ IF exe = "none" THEN UNCHANGED workVars ELSE NewWorker
    /\ UNCHANGED <<procVars, fileVars, upgrade, run, flagVars, upgrades, broken, faults>>

\* startWorker refuses while stopping, and fails without a binary.
StartWorker ==
    /\ Watcher("start", IF stopping THEN "gone" ELSE IF exe = "none" THEN "backoff" ELSE "wait")
    /\ IF stopping \/ exe = "none" THEN UNCHANGED workVars ELSE NewWorker
    /\ UNCHANGED <<procVars, fileVars, upgrade, run, flagVars, upgrades, broken, faults>>

SpawnFails ==
    /\ Fault /\ ~ stopping
    /\ Watcher("start", "backoff")
    /\ UNCHANGED <<procVars, fileVars, workVars, upgrade, run, flagVars, upgrades, broken>>

WatchBackoff ==
    /\ Watcher("backoff", IF closed THEN "gone" ELSE "top")
    /\ UNCHANGED <<procVars, fileVars, workVars, upgrade, run, flagVars, upgrades, broken, faults>>

WorkerExited ==
    /\ worker = "none"
    /\ Watcher("wait", "check")
    /\ UNCHANGED <<procVars, fileVars, workVars, upgrade, run, flagVars, upgrades, broken, faults>>

WatcherStopped ==
    /\ closed
    /\ Watcher("wait", "join") \/ Watcher("paused", "gone") \/ (worker = "none" /\ Watcher("join", "gone"))
    /\ UNCHANGED <<procVars, fileVars, workVars, upgrade, run, flagVars, upgrades, broken, faults>>

\* The pause is looked at once after an exit, and then every 200ms.
CheckPaused ==
    /\ \/ Watcher("check", IF paused THEN "paused" ELSE "top")
       \/ ~ paused /\ Watcher("paused", "top")
    /\ UNCHANGED <<procVars, fileVars, workVars, upgrade, run, flagVars, upgrades, broken, faults>>

-----------------------------------------------------------------------------
(* stopWorker, called by install, by upgrade and by Run.                   *)

\* The handle is taken under the lock ...
TakeWorker(who) ==
    /\ held' = FALSE
    /\ taken' = IF held /\ worker # "none" THEN who ELSE taken
    /\ UNCHANGED worker

\* ... which is released before the process, if there was a handle, is told to
\* stop: another stopWorker that comes in between finds nothing to stop ...
AfterTake(signal, else) == IF held THEN signal ELSE else
SignalWorker(who) ==
    /\ worker' = IF taken = who THEN "term" ELSE worker
    /\ UNCHANGED <<held, taken>>

\* ... and waited for.
WorkerDone(who) == taken # who /\ UNCHANGED workVars

-----------------------------------------------------------------------------
(* The upgrade goroutine.                                                  *)

Upgrader(from, to) == Alive /\ upgrade = from /\ upgrade' = to

\* The worker forwards the manager's request; handleUpgrade refuses a second one.
HandleUpgrade ==
    /\ upgrades < MaxUpgrades /\ upgrades' = upgrades + 1
    /\ worker = "up" /\ Upgrader("idle", "download")
    /\ UNCHANGED <<procVars, fileVars, workVars, watch, run, flagVars, broken, faults>>

Download ==
    /\ Upgrader("download", "pause")
    /\ UNCHANGED <<procVars, fileVars, workVars, watch, run, flagVars, upgrades, broken, faults>>

DownloadFails ==
    /\ Fault /\ Upgrader("download", "idle")
    /\ UNCHANGED <<procVars, fileVars, workVars, watch, run, flagVars, upgrades, broken>>

\* install: pause the watcher, stop the worker ...
PauseWorker ==
    /\ Upgrader("pause", "take")
    /\ paused' = TRUE
    /\ UNCHANGED <<procVars, fileVars, workVars, watch, run, stopping, closed, upgrades, broken, faults>>

InstallStops ==
    /\ \/ Upgrader("take", AfterTake("signal", "aside")) /\ TakeWorker("upgrade")
       \/ Upgrader("signal", "wait") /\ SignalWorker("upgrade")
       \/ Upgrader("wait", "aside") /\ WorkerDone("upgrade")
    /\ UNCHANGED <<procVars, fileVars, watch, run, flagVars, upgrades, broken, faults>>

\* ... move the binary aside ...
MoveAside ==
    /\ exe # "none" /\ Upgrader("aside", "place")
    /\ exe' = "none" /\ old' = exe
    /\ UNCHANGED <<procVars, addr, workVars, watch, run, flagVars, upgrades, broken, faults>>

\* (exePath.old is gone even if this fails)
MoveAsideFails ==
    /\ Fault \/ (exe = "none" /\ faults' = faults)
    /\ Upgrader("aside", "resume")
    /\ old' = "none"
    /\ UNCHANGED <<procVars, exe, addr, workVars, watch, run, flagVars, upgrades, broken>>

\* ... and the new one into place.
MoveIntoPlace ==
    /\ Upgrader("place", "relaunch")
    /\ exe' = "new"
    /\ UNCHANGED <<procVars, old, addr, workVars, watch, run, flagVars, upgrades, broken, faults>>

MoveIntoPlaceFails ==
    /\ Fault /\ Upgrader("place", "rollback")
    /\ UNCHANGED <<procVars, fileVars, workVars, watch, run, flagVars, upgrades, broken>>

\* rollback renames exePath.old back over exePath.
Rollback ==
    /\ Upgrader("rollback", "resume")
    /\ IF old = "none" THEN UNCHANGED <<exe, old>> ELSE exe' = old /\ old' = "none"
    /\ UNCHANGED <<procVars, addr, workVars, watch, run, flagVars, upgrades, broken, faults>>

RollbackFails ==
    /\ Fault /\ Upgrader("rollback", "resume")
    /\ broken' = TRUE
    /\ UNCHANGED <<procVars, fileVars, workVars, watch, run, flagVars, upgrades>>

\* relaunch: exec in place, or spawn a detached supervisor.
Relaunch ==
    /\ Upgrader("relaunch", "finish")
    /\ IF foreground THEN proc' = "replaced" ELSE proc' = proc
    /\ next' = "started"
    /\ UNCHANGED <<foreground, fileVars, workVars, watch, run, flagVars, upgrades, broken, faults>>

RelaunchFails ==
    /\ Fault /\ Upgrader("relaunch", "rollback")
    /\ UNCHANGED <<procVars, fileVars, workVars, watch, run, flagVars, upgrades, broken>>

\* Mutant: a failed upgrade leaves the watcher paused.
FailUpgrade ==
    /\ Upgrader("resume", "idle")
    /\ UNCHANGED <<procVars, fileVars, workVars, watch, run, flagVars, upgrades, broken, faults>>

\* resumeWorker and finishUpgrade("failed").
ResumeWorker ==
    /\ Upgrader("resume", "idle")
    /\ paused' = FALSE
    /\ UNCHANGED <<procVars, fileVars, workVars, watch, run, stopping, closed, upgrades, broken, faults>>

\* finishUpgrade("done"): the control endpoint closes, the worker is stopped,
\* the process exits.
FinishUpgrade ==
    /\ \/ Upgrader("finish", "takeover") /\ UNCHANGED workVars
       \/ Upgrader("takeover", AfterTake("lastsignal", "exit")) /\ TakeWorker("upgrade")
       \/ Upgrader("lastsignal", "last") /\ SignalWorker("upgrade")
       \/ Upgrader("last", "exit") /\ WorkerDone("upgrade")
    /\ UNCHANGED <<procVars, fileVars, watch, run, flagVars, upgrades, broken, faults>>

ExitReplaced ==
    /\ Upgrader("exit", "exit")
    /\ proc' = "gone"
    /\ UNCHANGED <<foreground, next, fileVars, workVars, watch, run, flagVars, upgrades, broken, faults>>

\* The relaunched supervisor writes its address and removes exePath.old.
NextServes ==
    /\ next = "started"
    /\ next' = "serving" /\ addr' = "next" /\ old' = "none"
    /\ UNCHANGED <<proc, foreground, exe, workVars, watch, upgrade, run, flagVars, upgrades, broken, faults>>

-----------------------------------------------------------------------------
(* Run's shutdown.                                                         *)

Runner(from, to) == Alive /\ run = from /\ run' = to

\* laelia-machine stop, or a signal.
Shutdown ==
    /\ Runner("serve", "flag")
    /\ UNCHANGED <<procVars, fileVars, workVars, watch, upgrade, flagVars, upgrades, broken, faults>>

SetStopping ==
    /\ Runner("flag", "close")
    /\ stopping' = TRUE
    /\ UNCHANGED <<procVars, fileVars, workVars, watch, upgrade, paused, closed, upgrades, broken, faults>>

CloseWatcher ==
    /\ Runner("close", "take")
    /\ closed' = TRUE
    /\ UNCHANGED <<procVars, fileVars, workVars, watch, upgrade, paused, stopping, upgrades, broken, faults>>

RunStops ==
    /\ \/ Runner("take", AfterTake("signal", "cleanup")) /\ TakeWorker("run")
       \/ Runner("signal", "wait") /\ SignalWorker("run")
       \/ Runner("wait", "cleanup") /\ WorkerDone("run")
    /\ UNCHANGED <<procVars, fileVars, watch, upgrade, flagVars, upgrades, broken, faults>>

\* stopControlServer removes the addr file, and the process ends.
Cleanup ==
    /\ Runner("cleanup", "done")
    /\ addr' = "none"
    /\ proc' = "gone"
    /\ UNCHANGED <<foreground, next, exe, old, workVars, watch, upgrade, flagVars, upgrades, broken, faults>>

-----------------------------------------------------------------------------

WatchStep ==
    \/ WatchTop \/ StartWorker \/ WatchBackoff \/ WorkerExited \/ WatcherStopped \/ CheckPaused

UpgradeStep ==
    \/ Download \/ PauseWorker \/ InstallStops \/ MoveAside \/ MoveIntoPlace \/ Rollback
    \/ Relaunch \/ ResumeWorker \/ FinishUpgrade \/ ExitReplaced

RunStep == SetStopping \/ CloseWatcher \/ RunStops \/ Cleanup

SupervisorNext ==
    \/ WorkerStops \/ WorkerCrashes
    \/ WatchStep \/ SpawnFails
    \/ HandleUpgrade \/ UpgradeStep
    \/ DownloadFails \/ MoveAsideFails \/ MoveIntoPlaceFails \/ RelaunchFails \/ RollbackFails
    \/ NextServes
    \/ Shutdown \/ RunStep

\* Goroutines run, and a worker that is told to stop does.
SupervisorFairness ==
    /\ WF_vars(WorkerStops) /\ WF_vars(WatchStep) /\ WF_vars(UpgradeStep) /\ WF_vars(RunStep)

SupervisorSafe == SupervisorInit /\ [][SupervisorNext]_vars
SupervisorSpec == SupervisorSafe /\ SupervisorFairness

-----------------------------------------------------------------------------
(* Properties.                                                             *)

\* TestStopDoesNotOrphanWorker: when Run has returned no worker is left, or
\* only one whose handle the stopWorker of an upgrade had taken first.  That one
\* may not have been signalled yet, and then it outlives the process.
NoOrphan == run = "done" => worker = "none" \/ taken = "upgrade"

\* rollback: whichever step of an upgrade fails, the binary it started from is
\* at exePath again when it is over, and at no time are both copies gone.
Restored ==
    ~ broken => /\ upgrade \in {"idle", "download"} => exe = "current"
                /\ exe # "none" \/ old # "none"

\* Behind NoOrphan: the watcher waits for the worker that runs, its handle is
\* held until one stopWorker takes it, and who takes it signals it and waits.
WorkerSound ==
    /\ worker # "none" => watch \in {"wait", "join"}
    /\ taken # "none" <=> worker # "none" /\ ~ held
    /\ worker = "term" => taken # "none"
    /\ taken = "upgrade" => upgrade \in {"signal", "lastsignal"} \/ (upgrade \in {"wait", "last"} /\ worker = "term")
    /\ taken = "run" => run = "signal" \/ (run = "wait" /\ worker = "term")
    /\ run \in {"close", "take", "signal", "wait", "cleanup", "done"} => stopping
    /\ run \in {"signal", "wait", "cleanup", "done"} => worker = "none" \/ ~ held

\* Behind Restored: where the two binaries are at each step of an upgrade.
FilesSound ==
    /\ next # "none" => upgrade \in {"finish", "takeover", "lastsignal", "last", "exit"}
    /\ ~ broken =>
         /\ upgrade \in {"idle", "download", "pause", "take", "signal", "wait", "aside", "resume"}
              => exe = "current"
         /\ upgrade \in {"place", "rollback", "relaunch"} => old = "current"
         /\ upgrade \in {"relaunch", "finish", "takeover", "lastsignal", "last", "exit"} => exe = "new"

\* closeControlServer keeps the addr file, through which the new worker polls:
\* the address of a relaunched supervisor is lost only to a shutdown of the
\* replaced one, whose Run had still to return.
AddrKept == (next = "serving" => addr = "next" \/ run = "done") /\ (addr = "none" => run = "done")

\* Behind WorkerReturns: the watcher leaves only when the supervisor stops, and
\* is held back only by an upgrade that has still to resume or to replace it.
WatcherKept ==
    /\ closed \/ watch \in {"join", "gone"} => stopping
    /\ paused => upgrade \notin {"idle", "download", "pause"}

\* The inductive invariant.
SupervisorInv ==
    SupervisorTypeOK /\ WorkerSound /\ FilesSound /\ WatcherKept /\ NoOrphan /\ Restored /\ AddrKept

\* watchWorker: a worker runs again and again, also after a failed upgrade,
\* until the supervisor is shut down or replaced.  A rollback that failed is
\* excepted: exePath may then name no binary, and nothing starts from it.
WorkerReturns == []<>(worker = "up" \/ run # "serve" \/ ~ Alive \/ broken)
=============================================================================
