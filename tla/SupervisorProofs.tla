--------------------------- MODULE SupervisorProofs --------------------------
(***************************************************************************)
(* Proofs about Supervisor, for every number of upgrades and faults:       *)
(* SupervisorInv is inductive, so Run leaves no worker behind but one that *)
(* an upgrade had taken the handle of, and a failed upgrade leaves the     *)
(* binary it started from in place.                                        *)
(***************************************************************************)
EXTENDS Supervisor, TLAPS

\* The initial state.
LEMMA InitSupervisor == SupervisorInit => SupervisorInv
<1> SUFFICES ASSUME SupervisorInit PROVE SupervisorInv
  OBVIOUS
<1>1. upgrades \in 0 .. MaxUpgrades /\ faults \in 0 .. MaxFaults
  BY SupervisorAssumption DEF SupervisorInit
<1>2. SupervisorTypeOK
  BY <1>1 DEF SupervisorInit, SupervisorTypeOK, Binary
<1> QED BY <1>2 DEF SupervisorInit, SupervisorInv, WorkerSound, FilesSound, WatcherKept, NoOrphan,
                         Restored, AddrKept

\* A stopped worker is gone for whoever waits for it.
LEMMA StepWorkerStops == SupervisorInv /\ WorkerStops => SupervisorInv'
<1> SUFFICES ASSUME SupervisorInv, WorkerStops PROVE SupervisorInv'
  OBVIOUS
<1> USE DEF SupervisorInv, WorkerStops, procVars, fileVars, flagVars, workVars
<1>1. SupervisorTypeOK'
  BY DEF SupervisorTypeOK, Binary
<1>2. WorkerSound'
  BY DEF SupervisorTypeOK, WorkerSound
<1>3. FilesSound'
  BY DEF SupervisorTypeOK, FilesSound
<1>4. NoOrphan' /\ Restored'
  BY <1>1, <1>2, <1>3 DEF SupervisorTypeOK, WorkerSound, FilesSound, NoOrphan, Restored
<1>5. WatcherKept' /\ AddrKept'
  BY DEF SupervisorTypeOK, WorkerSound, WatcherKept, AddrKept
<1> QED BY <1>1, <1>2, <1>3, <1>4, <1>5

\* So is a crashed one.
LEMMA StepWorkerCrashes == SupervisorInv /\ WorkerCrashes => SupervisorInv'
<1> SUFFICES ASSUME SupervisorInv, WorkerCrashes PROVE SupervisorInv'
  OBVIOUS
<1> USE DEF SupervisorInv, WorkerCrashes, Fault, procVars, fileVars, flagVars, workVars
<1>1. SupervisorTypeOK'
  BY SupervisorAssumption DEF SupervisorTypeOK, Binary
<1>2. WorkerSound'
  BY DEF SupervisorTypeOK, WorkerSound
<1>3. FilesSound'
  BY DEF SupervisorTypeOK, FilesSound
<1>4. NoOrphan' /\ Restored'
  BY <1>1, <1>2, <1>3 DEF SupervisorTypeOK, WorkerSound, FilesSound, NoOrphan, Restored
<1>5. WatcherKept' /\ AddrKept'
  BY DEF SupervisorTypeOK, WorkerSound, WatcherKept, AddrKept
<1> QED BY <1>1, <1>2, <1>3, <1>4, <1>5

\* The watcher looks whether it was told to stop.
LEMMA StepWatchTop == SupervisorInv /\ WatchTop => SupervisorInv'
<1> SUFFICES ASSUME SupervisorInv, WatchTop PROVE SupervisorInv'
  OBVIOUS
<1> USE DEF SupervisorInv, WatchTop, Watcher, Alive, procVars, fileVars, flagVars, workVars
<1>1. SupervisorTypeOK'
  BY DEF SupervisorTypeOK, Binary
<1>2. WorkerSound'
  BY DEF SupervisorTypeOK, WorkerSound
<1>3. FilesSound'
  BY DEF SupervisorTypeOK, FilesSound
<1>4. NoOrphan' /\ Restored'
  BY <1>1, <1>2, <1>3 DEF SupervisorTypeOK, WorkerSound, FilesSound, NoOrphan, Restored
<1>5. WatcherKept' /\ AddrKept'
  BY DEF SupervisorTypeOK, WorkerSound, WatcherKept, AddrKept
<1> QED BY <1>1, <1>2, <1>3, <1>4, <1>5

\* A worker starts only where none runs, and never once the supervisor is stopping.
LEMMA StepStartWorker == SupervisorInv /\ StartWorker => SupervisorInv'
<1> SUFFICES ASSUME SupervisorInv, StartWorker PROVE SupervisorInv'
  OBVIOUS
<1> USE DEF SupervisorInv, StartWorker, NewWorker, Watcher, Alive, procVars, fileVars, flagVars, workVars
<1>1. SupervisorTypeOK'
  <2>1. worker' \in {"none", "up", "term"} /\ watch' \in {"gone", "backoff", "wait"}
    BY DEF SupervisorTypeOK
  <2>2. held' \in BOOLEAN /\ taken' \in {"none", "upgrade", "run"}
    BY DEF SupervisorTypeOK
  <2> QED BY <2>1, <2>2 DEF SupervisorTypeOK
<1>2. WorkerSound'
  BY DEF SupervisorTypeOK, WorkerSound
<1>3. FilesSound'
  BY DEF SupervisorTypeOK, FilesSound
<1>4. NoOrphan' /\ Restored'
  BY <1>1, <1>2, <1>3 DEF SupervisorTypeOK, WorkerSound, FilesSound, NoOrphan, Restored
<1>5. WatcherKept' /\ AddrKept'
  BY DEF SupervisorTypeOK, WorkerSound, WatcherKept, AddrKept
<1> QED BY <1>1, <1>2, <1>3, <1>4, <1>5

\* The back-off ends.
LEMMA StepWatchBackoff == SupervisorInv /\ WatchBackoff => SupervisorInv'
<1> SUFFICES ASSUME SupervisorInv, WatchBackoff PROVE SupervisorInv'
  OBVIOUS
<1> USE DEF SupervisorInv, WatchBackoff, Watcher, Alive, procVars, fileVars, flagVars, workVars
<1>1. SupervisorTypeOK'
  BY DEF SupervisorTypeOK, Binary
<1>2. WorkerSound'
  BY DEF SupervisorTypeOK, WorkerSound
<1>3. FilesSound'
  BY DEF SupervisorTypeOK, FilesSound
<1>4. NoOrphan' /\ Restored'
  BY <1>1, <1>2, <1>3 DEF SupervisorTypeOK, WorkerSound, FilesSound, NoOrphan, Restored
<1>5. WatcherKept' /\ AddrKept'
  BY DEF SupervisorTypeOK, WorkerSound, WatcherKept, AddrKept
<1> QED BY <1>1, <1>2, <1>3, <1>4, <1>5

\* The watcher sees the exit.
LEMMA StepWorkerExited == SupervisorInv /\ WorkerExited => SupervisorInv'
<1> SUFFICES ASSUME SupervisorInv, WorkerExited PROVE SupervisorInv'
  OBVIOUS
<1> USE DEF SupervisorInv, WorkerExited, Watcher, Alive, procVars, fileVars, flagVars, workVars
<1>1. SupervisorTypeOK'
  BY DEF SupervisorTypeOK, Binary
<1>2. WorkerSound'
  BY DEF SupervisorTypeOK, WorkerSound
<1>3. FilesSound'
  BY DEF SupervisorTypeOK, FilesSound
<1>4. NoOrphan' /\ Restored'
  BY <1>1, <1>2, <1>3 DEF SupervisorTypeOK, WorkerSound, FilesSound, NoOrphan, Restored
<1>5. WatcherKept' /\ AddrKept'
  BY DEF SupervisorTypeOK, WorkerSound, WatcherKept, AddrKept
<1> QED BY <1>1, <1>2, <1>3, <1>4, <1>5

\* A stopped watcher leaves when its worker is gone.
LEMMA StepWatcherStopped == SupervisorInv /\ WatcherStopped => SupervisorInv'
<1> SUFFICES ASSUME SupervisorInv, WatcherStopped PROVE SupervisorInv'
  OBVIOUS
<1> USE DEF SupervisorInv, WatcherStopped, Watcher, Alive, procVars, fileVars, flagVars, workVars
<1>1. SupervisorTypeOK'
  BY DEF SupervisorTypeOK, Binary
<1>2. WorkerSound'
  BY DEF SupervisorTypeOK, WorkerSound
<1>3. FilesSound'
  BY DEF SupervisorTypeOK, FilesSound
<1>4. NoOrphan' /\ Restored'
  BY <1>1, <1>2, <1>3 DEF SupervisorTypeOK, WorkerSound, FilesSound, NoOrphan, Restored
<1>5. WatcherKept' /\ AddrKept'
  BY DEF SupervisorTypeOK, WorkerSound, WatcherKept, AddrKept
<1> QED BY <1>1, <1>2, <1>3, <1>4, <1>5

\* The pause holds the watcher back.
LEMMA StepCheckPaused == SupervisorInv /\ CheckPaused => SupervisorInv'
<1> SUFFICES ASSUME SupervisorInv, CheckPaused PROVE SupervisorInv'
  OBVIOUS
<1> USE DEF SupervisorInv, CheckPaused, Watcher, Alive, procVars, fileVars, flagVars, workVars
<1>1. SupervisorTypeOK'
  BY DEF SupervisorTypeOK, Binary
<1>2. WorkerSound'
  BY DEF SupervisorTypeOK, WorkerSound
<1>3. FilesSound'
  BY DEF SupervisorTypeOK, FilesSound
<1>4. NoOrphan' /\ Restored'
  BY <1>1, <1>2, <1>3 DEF SupervisorTypeOK, WorkerSound, FilesSound, NoOrphan, Restored
<1>5. WatcherKept' /\ AddrKept'
  BY DEF SupervisorTypeOK, WorkerSound, WatcherKept, AddrKept
<1> QED BY <1>1, <1>2, <1>3, <1>4, <1>5

\* A spawn that fails starts nothing.
LEMMA StepSpawnFails == SupervisorInv /\ SpawnFails => SupervisorInv'
<1> SUFFICES ASSUME SupervisorInv, SpawnFails PROVE SupervisorInv'
  OBVIOUS
<1> USE DEF SupervisorInv, SpawnFails, Fault, Watcher, Alive, procVars, fileVars, flagVars, workVars
<1>1. SupervisorTypeOK'
  BY SupervisorAssumption DEF SupervisorTypeOK, Binary
<1>2. WorkerSound'
  BY DEF SupervisorTypeOK, WorkerSound
<1>3. FilesSound'
  BY DEF SupervisorTypeOK, FilesSound
<1>4. NoOrphan' /\ Restored'
  BY <1>1, <1>2, <1>3 DEF SupervisorTypeOK, WorkerSound, FilesSound, NoOrphan, Restored
<1>5. WatcherKept' /\ AddrKept'
  BY DEF SupervisorTypeOK, WorkerSound, WatcherKept, AddrKept
<1> QED BY <1>1, <1>2, <1>3, <1>4, <1>5

\* An upgrade is accepted.
LEMMA StepHandleUpgrade == SupervisorInv /\ HandleUpgrade => SupervisorInv'
<1> SUFFICES ASSUME SupervisorInv, HandleUpgrade PROVE SupervisorInv'
  OBVIOUS
<1> USE DEF SupervisorInv, HandleUpgrade, Upgrader, Alive, procVars, fileVars, flagVars, workVars
<1>1. SupervisorTypeOK'
  BY SupervisorAssumption DEF SupervisorTypeOK, Binary
<1>2. WorkerSound'
  BY DEF SupervisorTypeOK, WorkerSound
<1>3. FilesSound'
  BY DEF SupervisorTypeOK, FilesSound
<1>4. NoOrphan' /\ Restored'
  BY <1>1, <1>2, <1>3 DEF SupervisorTypeOK, WorkerSound, FilesSound, NoOrphan, Restored
<1>5. WatcherKept' /\ AddrKept'
  BY DEF SupervisorTypeOK, WorkerSound, WatcherKept, AddrKept
<1> QED BY <1>1, <1>2, <1>3, <1>4, <1>5

\* The new binary is staged next to the old one.
LEMMA StepDownload == SupervisorInv /\ Download => SupervisorInv'
<1> SUFFICES ASSUME SupervisorInv, Download PROVE SupervisorInv'
  OBVIOUS
<1> USE DEF SupervisorInv, Download, Upgrader, Alive, procVars, fileVars, flagVars, workVars
<1>1. SupervisorTypeOK'
  BY DEF SupervisorTypeOK, Binary
<1>2. WorkerSound'
  BY DEF SupervisorTypeOK, WorkerSound
<1>3. FilesSound'
  BY DEF SupervisorTypeOK, FilesSound
<1>4. NoOrphan' /\ Restored'
  BY <1>1, <1>2, <1>3 DEF SupervisorTypeOK, WorkerSound, FilesSound, NoOrphan, Restored
<1>5. WatcherKept' /\ AddrKept'
  BY DEF SupervisorTypeOK, WorkerSound, WatcherKept, AddrKept
<1> QED BY <1>1, <1>2, <1>3, <1>4, <1>5

\* install raises the pause.
LEMMA StepPauseWorker == SupervisorInv /\ PauseWorker => SupervisorInv'
<1> SUFFICES ASSUME SupervisorInv, PauseWorker PROVE SupervisorInv'
  OBVIOUS
<1> USE DEF SupervisorInv, PauseWorker, Upgrader, Alive, procVars, fileVars, flagVars, workVars
<1>1. SupervisorTypeOK'
  BY DEF SupervisorTypeOK, Binary
<1>2. WorkerSound'
  BY DEF SupervisorTypeOK, WorkerSound
<1>3. FilesSound'
  BY DEF SupervisorTypeOK, FilesSound
<1>4. NoOrphan' /\ Restored'
  BY <1>1, <1>2, <1>3 DEF SupervisorTypeOK, WorkerSound, FilesSound, NoOrphan, Restored
<1>5. WatcherKept' /\ AddrKept'
  BY DEF SupervisorTypeOK, WorkerSound, WatcherKept, AddrKept
<1> QED BY <1>1, <1>2, <1>3, <1>4, <1>5

\* install takes the handle and waits.
LEMMA StepInstallStops == SupervisorInv /\ InstallStops => SupervisorInv'
<1> SUFFICES ASSUME SupervisorInv, InstallStops PROVE SupervisorInv'
  OBVIOUS
<1> USE DEF SupervisorInv, InstallStops, Upgrader, Alive, TakeWorker, AfterTake, SignalWorker,
             WorkerDone, procVars, fileVars, flagVars, workVars
<1>1. SupervisorTypeOK'
  <2>1. worker' \in {"none", "up", "term"} /\ upgrade' \in {"signal", "wait", "aside"}
    BY DEF SupervisorTypeOK
  <2>2. held' \in BOOLEAN /\ taken' \in {"none", "upgrade", "run"}
    BY DEF SupervisorTypeOK
  <2> QED BY <2>1, <2>2 DEF SupervisorTypeOK
<1>2. WorkerSound'
  BY DEF SupervisorTypeOK, WorkerSound
<1>3. FilesSound'
  BY DEF SupervisorTypeOK, FilesSound
<1>4. NoOrphan' /\ Restored'
  BY <1>1, <1>2, <1>3 DEF SupervisorTypeOK, WorkerSound, FilesSound, NoOrphan, Restored
<1>5. WatcherKept' /\ AddrKept'
  BY DEF SupervisorTypeOK, WorkerSound, WatcherKept, AddrKept
<1> QED BY <1>1, <1>2, <1>3, <1>4, <1>5

\* The first rename keeps the binary under its other name.
LEMMA StepMoveAside == SupervisorInv /\ MoveAside => SupervisorInv'
<1> SUFFICES ASSUME SupervisorInv, MoveAside PROVE SupervisorInv'
  OBVIOUS
<1> USE DEF SupervisorInv, MoveAside, Upgrader, Alive, procVars, fileVars, flagVars, workVars
<1>1. SupervisorTypeOK'
  BY DEF SupervisorTypeOK, Binary
<1>2. WorkerSound'
  BY DEF SupervisorTypeOK, WorkerSound
<1>3. FilesSound'
  BY DEF SupervisorTypeOK, FilesSound
<1>4. NoOrphan' /\ Restored'
  BY <1>1, <1>2, <1>3 DEF SupervisorTypeOK, WorkerSound, FilesSound, NoOrphan, Restored
<1>5. WatcherKept' /\ AddrKept'
  BY DEF SupervisorTypeOK, WorkerSound, WatcherKept, AddrKept
<1> QED BY <1>1, <1>2, <1>3, <1>4, <1>5

\* The second rename leaves that copy alone.
LEMMA StepMoveIntoPlace == SupervisorInv /\ MoveIntoPlace => SupervisorInv'
<1> SUFFICES ASSUME SupervisorInv, MoveIntoPlace PROVE SupervisorInv'
  OBVIOUS
<1> USE DEF SupervisorInv, MoveIntoPlace, Upgrader, Alive, procVars, fileVars, flagVars, workVars
<1>1. SupervisorTypeOK'
  BY DEF SupervisorTypeOK, Binary
<1>2. WorkerSound'
  BY DEF SupervisorTypeOK, WorkerSound
<1>3. FilesSound'
  BY DEF SupervisorTypeOK, FilesSound
<1>4. NoOrphan' /\ Restored'
  BY <1>1, <1>2, <1>3 DEF SupervisorTypeOK, WorkerSound, FilesSound, NoOrphan, Restored
<1>5. WatcherKept' /\ AddrKept'
  BY DEF SupervisorTypeOK, WorkerSound, WatcherKept, AddrKept
<1> QED BY <1>1, <1>2, <1>3, <1>4, <1>5

\* rollback puts the kept copy back.
LEMMA StepRollback == SupervisorInv /\ Rollback => SupervisorInv'
<1> SUFFICES ASSUME SupervisorInv, Rollback PROVE SupervisorInv'
  OBVIOUS
<1> USE DEF SupervisorInv, Rollback, Upgrader, Alive, procVars, fileVars, flagVars, workVars
<1>1. SupervisorTypeOK'
  BY DEF SupervisorTypeOK, Binary
<1>2. WorkerSound'
  BY DEF SupervisorTypeOK, WorkerSound
<1>3. FilesSound'
  BY DEF SupervisorTypeOK, FilesSound
<1>4. NoOrphan' /\ Restored'
  BY <1>1, <1>2, <1>3 DEF SupervisorTypeOK, WorkerSound, FilesSound, NoOrphan, Restored
<1>5. WatcherKept' /\ AddrKept'
  BY DEF SupervisorTypeOK, WorkerSound, WatcherKept, AddrKept
<1> QED BY <1>1, <1>2, <1>3, <1>4, <1>5

\* From here on the new binary stays.
LEMMA StepRelaunch == SupervisorInv /\ Relaunch => SupervisorInv'
<1> SUFFICES ASSUME SupervisorInv, Relaunch PROVE SupervisorInv'
  OBVIOUS
<1> USE DEF SupervisorInv, Relaunch, Upgrader, Alive, procVars, fileVars, flagVars, workVars
<1>1. SupervisorTypeOK'
  BY DEF SupervisorTypeOK, Binary
<1>2. WorkerSound'
  BY DEF SupervisorTypeOK, WorkerSound
<1>3. FilesSound'
  BY DEF SupervisorTypeOK, FilesSound
<1>4. NoOrphan' /\ Restored'
  BY <1>1, <1>2, <1>3 DEF SupervisorTypeOK, WorkerSound, FilesSound, NoOrphan, Restored
<1>5. WatcherKept' /\ AddrKept'
  BY DEF SupervisorTypeOK, WorkerSound, WatcherKept, AddrKept
<1> QED BY <1>1, <1>2, <1>3, <1>4, <1>5

\* A failed upgrade lifts the pause.
LEMMA StepResumeWorker == SupervisorInv /\ ResumeWorker => SupervisorInv'
<1> SUFFICES ASSUME SupervisorInv, ResumeWorker PROVE SupervisorInv'
  OBVIOUS
<1> USE DEF SupervisorInv, ResumeWorker, Upgrader, Alive, procVars, fileVars, flagVars, workVars
<1>1. SupervisorTypeOK'
  <2>1. paused' \in BOOLEAN
    BY DEF SupervisorTypeOK
  <2> QED BY <2>1 DEF SupervisorTypeOK
<1>2. WorkerSound'
  BY DEF SupervisorTypeOK, WorkerSound
<1>3. FilesSound'
  BY DEF SupervisorTypeOK, FilesSound
<1>4. NoOrphan' /\ Restored'
  BY <1>1, <1>2, <1>3 DEF SupervisorTypeOK, WorkerSound, FilesSound, NoOrphan, Restored
<1>5. WatcherKept' /\ AddrKept'
  BY DEF SupervisorTypeOK, WorkerSound, WatcherKept, AddrKept
<1> QED BY <1>1, <1>2, <1>3, <1>4, <1>5

\* The replaced supervisor takes the handle and waits.
LEMMA StepFinishUpgrade == SupervisorInv /\ FinishUpgrade => SupervisorInv'
<1> SUFFICES ASSUME SupervisorInv, FinishUpgrade PROVE SupervisorInv'
  OBVIOUS
<1> USE DEF SupervisorInv, FinishUpgrade, Upgrader, Alive, TakeWorker, AfterTake, SignalWorker,
             WorkerDone, procVars, fileVars, flagVars, workVars
<1>1. SupervisorTypeOK'
  <2>1. worker' \in {"none", "up", "term"} /\ upgrade' \in {"takeover", "lastsignal", "last", "exit"}
    BY DEF SupervisorTypeOK
  <2>2. held' \in BOOLEAN /\ taken' \in {"none", "upgrade", "run"}
    BY DEF SupervisorTypeOK
  <2> QED BY <2>1, <2>2 DEF SupervisorTypeOK
<1>2. WorkerSound'
  BY DEF SupervisorTypeOK, WorkerSound
<1>3. FilesSound'
  BY DEF SupervisorTypeOK, FilesSound
<1>4. NoOrphan' /\ Restored'
  BY <1>1, <1>2, <1>3 DEF SupervisorTypeOK, WorkerSound, FilesSound, NoOrphan, Restored
<1>5. WatcherKept' /\ AddrKept'
  BY DEF SupervisorTypeOK, WorkerSound, WatcherKept, AddrKept
<1> QED BY <1>1, <1>2, <1>3, <1>4, <1>5

\* The replaced supervisor exits.
LEMMA StepExitReplaced == SupervisorInv /\ ExitReplaced => SupervisorInv'
<1> SUFFICES ASSUME SupervisorInv, ExitReplaced PROVE SupervisorInv'
  OBVIOUS
<1> USE DEF SupervisorInv, ExitReplaced, Upgrader, Alive, procVars, fileVars, flagVars, workVars
<1>1. SupervisorTypeOK'
  BY DEF SupervisorTypeOK, Binary
<1>2. WorkerSound'
  BY DEF SupervisorTypeOK, WorkerSound
<1>3. FilesSound'
  BY DEF SupervisorTypeOK, FilesSound
<1>4. NoOrphan' /\ Restored'
  BY <1>1, <1>2, <1>3 DEF SupervisorTypeOK, WorkerSound, FilesSound, NoOrphan, Restored
<1>5. WatcherKept' /\ AddrKept'
  BY DEF SupervisorTypeOK, WorkerSound, WatcherKept, AddrKept
<1> QED BY <1>1, <1>2, <1>3, <1>4, <1>5

\* A failed download touches nothing.
LEMMA StepDownloadFails == SupervisorInv /\ DownloadFails => SupervisorInv'
<1> SUFFICES ASSUME SupervisorInv, DownloadFails PROVE SupervisorInv'
  OBVIOUS
<1> USE DEF SupervisorInv, DownloadFails, Fault, Upgrader, Alive, procVars, fileVars, flagVars, workVars
<1>1. SupervisorTypeOK'
  BY SupervisorAssumption DEF SupervisorTypeOK, Binary
<1>2. WorkerSound'
  BY DEF SupervisorTypeOK, WorkerSound
<1>3. FilesSound'
  BY DEF SupervisorTypeOK, FilesSound
<1>4. NoOrphan' /\ Restored'
  BY <1>1, <1>2, <1>3 DEF SupervisorTypeOK, WorkerSound, FilesSound, NoOrphan, Restored
<1>5. WatcherKept' /\ AddrKept'
  BY DEF SupervisorTypeOK, WorkerSound, WatcherKept, AddrKept
<1> QED BY <1>1, <1>2, <1>3, <1>4, <1>5

\* A failed first rename leaves the binary in place.
LEMMA StepMoveAsideFails == SupervisorInv /\ MoveAsideFails => SupervisorInv'
<1> SUFFICES ASSUME SupervisorInv, MoveAsideFails PROVE SupervisorInv'
  OBVIOUS
<1> USE DEF SupervisorInv, MoveAsideFails, Fault, Upgrader, Alive, procVars, fileVars, flagVars, workVars
<1>1. SupervisorTypeOK'
  BY SupervisorAssumption DEF SupervisorTypeOK, Binary
<1>2. WorkerSound'
  BY DEF SupervisorTypeOK, WorkerSound
<1>3. FilesSound'
  BY DEF SupervisorTypeOK, FilesSound
<1>4. NoOrphan' /\ Restored'
  BY <1>1, <1>2, <1>3 DEF SupervisorTypeOK, WorkerSound, FilesSound, NoOrphan, Restored
<1>5. WatcherKept' /\ AddrKept'
  BY DEF SupervisorTypeOK, WorkerSound, WatcherKept, AddrKept
<1> QED BY <1>1, <1>2, <1>3, <1>4, <1>5

\* A failed second rename leads to the rollback.
LEMMA StepMoveIntoPlaceFails == SupervisorInv /\ MoveIntoPlaceFails => SupervisorInv'
<1> SUFFICES ASSUME SupervisorInv, MoveIntoPlaceFails PROVE SupervisorInv'
  OBVIOUS
<1> USE DEF SupervisorInv, MoveIntoPlaceFails, Fault, Upgrader, Alive, procVars, fileVars, flagVars, workVars
<1>1. SupervisorTypeOK'
  BY SupervisorAssumption DEF SupervisorTypeOK, Binary
<1>2. WorkerSound'
  BY DEF SupervisorTypeOK, WorkerSound
<1>3. FilesSound'
  BY DEF SupervisorTypeOK, FilesSound
<1>4. NoOrphan' /\ Restored'
  BY <1>1, <1>2, <1>3 DEF SupervisorTypeOK, WorkerSound, FilesSound, NoOrphan, Restored
<1>5. WatcherKept' /\ AddrKept'
  BY DEF SupervisorTypeOK, WorkerSound, WatcherKept, AddrKept
<1> QED BY <1>1, <1>2, <1>3, <1>4, <1>5

\* So does a relaunch that fails.
LEMMA StepRelaunchFails == SupervisorInv /\ RelaunchFails => SupervisorInv'
<1> SUFFICES ASSUME SupervisorInv, RelaunchFails PROVE SupervisorInv'
  OBVIOUS
<1> USE DEF SupervisorInv, RelaunchFails, Fault, Upgrader, Alive, procVars, fileVars, flagVars, workVars
<1>1. SupervisorTypeOK'
  BY SupervisorAssumption DEF SupervisorTypeOK, Binary
<1>2. WorkerSound'
  BY DEF SupervisorTypeOK, WorkerSound
<1>3. FilesSound'
  BY DEF SupervisorTypeOK, FilesSound
<1>4. NoOrphan' /\ Restored'
  BY <1>1, <1>2, <1>3 DEF SupervisorTypeOK, WorkerSound, FilesSound, NoOrphan, Restored
<1>5. WatcherKept' /\ AddrKept'
  BY DEF SupervisorTypeOK, WorkerSound, WatcherKept, AddrKept
<1> QED BY <1>1, <1>2, <1>3, <1>4, <1>5

\* A rollback that fails is recorded.
LEMMA StepRollbackFails == SupervisorInv /\ RollbackFails => SupervisorInv'
<1> SUFFICES ASSUME SupervisorInv, RollbackFails PROVE SupervisorInv'
  OBVIOUS
<1> USE DEF SupervisorInv, RollbackFails, Fault, Upgrader, Alive, procVars, fileVars, flagVars, workVars
<1>1. SupervisorTypeOK'
  BY SupervisorAssumption DEF SupervisorTypeOK, Binary
<1>2. WorkerSound'
  BY DEF SupervisorTypeOK, WorkerSound
<1>3. FilesSound'
  BY DEF SupervisorTypeOK, FilesSound
<1>4. NoOrphan' /\ Restored'
  BY <1>1, <1>2, <1>3 DEF SupervisorTypeOK, WorkerSound, FilesSound, NoOrphan, Restored
<1>5. WatcherKept' /\ AddrKept'
  BY DEF SupervisorTypeOK, WorkerSound, WatcherKept, AddrKept
<1> QED BY <1>1, <1>2, <1>3, <1>4, <1>5

\* The kept copy goes when the new supervisor serves.
LEMMA StepNextServes == SupervisorInv /\ NextServes => SupervisorInv'
<1> SUFFICES ASSUME SupervisorInv, NextServes PROVE SupervisorInv'
  OBVIOUS
<1> USE DEF SupervisorInv, NextServes, procVars, fileVars, flagVars, workVars
<1>1. SupervisorTypeOK'
  BY DEF SupervisorTypeOK, Binary
<1>2. WorkerSound'
  BY DEF SupervisorTypeOK, WorkerSound
<1>3. FilesSound'
  BY DEF SupervisorTypeOK, FilesSound
<1>4. NoOrphan' /\ Restored'
  BY <1>1, <1>2, <1>3 DEF SupervisorTypeOK, WorkerSound, FilesSound, NoOrphan, Restored
<1>5. WatcherKept' /\ AddrKept'
  BY DEF SupervisorTypeOK, WorkerSound, WatcherKept, AddrKept
<1> QED BY <1>1, <1>2, <1>3, <1>4, <1>5

\* A stop is asked for.
LEMMA StepShutdown == SupervisorInv /\ Shutdown => SupervisorInv'
<1> SUFFICES ASSUME SupervisorInv, Shutdown PROVE SupervisorInv'
  OBVIOUS
<1> USE DEF SupervisorInv, Shutdown, Runner, Alive, procVars, fileVars, flagVars, workVars
<1>1. SupervisorTypeOK'
  BY DEF SupervisorTypeOK, Binary
<1>2. WorkerSound'
  BY DEF SupervisorTypeOK, WorkerSound
<1>3. FilesSound'
  BY DEF SupervisorTypeOK, FilesSound
<1>4. NoOrphan' /\ Restored'
  BY <1>1, <1>2, <1>3 DEF SupervisorTypeOK, WorkerSound, FilesSound, NoOrphan, Restored
<1>5. WatcherKept' /\ AddrKept'
  BY DEF SupervisorTypeOK, WorkerSound, WatcherKept, AddrKept
<1> QED BY <1>1, <1>2, <1>3, <1>4, <1>5

\* The flag is set before the watcher is told.
LEMMA StepSetStopping == SupervisorInv /\ SetStopping => SupervisorInv'
<1> SUFFICES ASSUME SupervisorInv, SetStopping PROVE SupervisorInv'
  OBVIOUS
<1> USE DEF SupervisorInv, SetStopping, Runner, Alive, procVars, fileVars, flagVars, workVars
<1>1. SupervisorTypeOK'
  BY DEF SupervisorTypeOK, Binary
<1>2. WorkerSound'
  BY DEF SupervisorTypeOK, WorkerSound
<1>3. FilesSound'
  BY DEF SupervisorTypeOK, FilesSound
<1>4. NoOrphan' /\ Restored'
  BY <1>1, <1>2, <1>3 DEF SupervisorTypeOK, WorkerSound, FilesSound, NoOrphan, Restored
<1>5. WatcherKept' /\ AddrKept'
  BY DEF SupervisorTypeOK, WorkerSound, WatcherKept, AddrKept
<1> QED BY <1>1, <1>2, <1>3, <1>4, <1>5

\* The watcher is told to stop.
LEMMA StepCloseWatcher == SupervisorInv /\ CloseWatcher => SupervisorInv'
<1> SUFFICES ASSUME SupervisorInv, CloseWatcher PROVE SupervisorInv'
  OBVIOUS
<1> USE DEF SupervisorInv, CloseWatcher, Runner, Alive, procVars, fileVars, flagVars, workVars
<1>1. SupervisorTypeOK'
  BY DEF SupervisorTypeOK, Binary
<1>2. WorkerSound'
  BY DEF SupervisorTypeOK, WorkerSound
<1>3. FilesSound'
  BY DEF SupervisorTypeOK, FilesSound
<1>4. NoOrphan' /\ Restored'
  BY <1>1, <1>2, <1>3 DEF SupervisorTypeOK, WorkerSound, FilesSound, NoOrphan, Restored
<1>5. WatcherKept' /\ AddrKept'
  BY DEF SupervisorTypeOK, WorkerSound, WatcherKept, AddrKept
<1> QED BY <1>1, <1>2, <1>3, <1>4, <1>5

\* Run takes the handle, or somebody else has.
LEMMA StepRunStops == SupervisorInv /\ RunStops => SupervisorInv'
<1> SUFFICES ASSUME SupervisorInv, RunStops PROVE SupervisorInv'
  OBVIOUS
<1> USE DEF SupervisorInv, RunStops, Runner, Alive, TakeWorker, AfterTake, SignalWorker,
             WorkerDone, procVars, fileVars, flagVars, workVars
<1>1. SupervisorTypeOK'
  <2>1. worker' \in {"none", "up", "term"} /\ run' \in {"signal", "wait", "cleanup"}
    BY DEF SupervisorTypeOK
  <2>2. held' \in BOOLEAN /\ taken' \in {"none", "upgrade", "run"}
    BY DEF SupervisorTypeOK
  <2> QED BY <2>1, <2>2 DEF SupervisorTypeOK
<1>2. WorkerSound'
  BY DEF SupervisorTypeOK, WorkerSound
<1>3. FilesSound'
  BY DEF SupervisorTypeOK, FilesSound
<1>4. NoOrphan' /\ Restored'
  BY <1>1, <1>2, <1>3 DEF SupervisorTypeOK, WorkerSound, FilesSound, NoOrphan, Restored
<1>5. WatcherKept' /\ AddrKept'
  BY DEF SupervisorTypeOK, WorkerSound, WatcherKept, AddrKept
<1> QED BY <1>1, <1>2, <1>3, <1>4, <1>5

\* Run returns.
LEMMA StepCleanup == SupervisorInv /\ Cleanup => SupervisorInv'
<1> SUFFICES ASSUME SupervisorInv, Cleanup PROVE SupervisorInv'
  OBVIOUS
<1> USE DEF SupervisorInv, Cleanup, Runner, Alive, procVars, fileVars, flagVars, workVars
<1>1. SupervisorTypeOK'
  BY DEF SupervisorTypeOK, Binary
<1>2. WorkerSound'
  BY DEF SupervisorTypeOK, WorkerSound
<1>3. FilesSound'
  BY DEF SupervisorTypeOK, FilesSound
<1>4. NoOrphan' /\ Restored'
  BY <1>1, <1>2, <1>3 DEF SupervisorTypeOK, WorkerSound, FilesSound, NoOrphan, Restored
<1>5. WatcherKept' /\ AddrKept'
  BY DEF SupervisorTypeOK, WorkerSound, WatcherKept, AddrKept
<1> QED BY <1>1, <1>2, <1>3, <1>4, <1>5

\* SupervisorInv is inductive.
LEMMA NextSupervisor == SupervisorInv /\ [SupervisorNext]_vars => SupervisorInv'
<1> SUFFICES ASSUME SupervisorInv, [SupervisorNext]_vars PROVE SupervisorInv'
  OBVIOUS
<1>1. CASE UNCHANGED vars
  BY <1>1 DEF vars, procVars, fileVars, flagVars, workVars, SupervisorInv, SupervisorTypeOK, WorkerSound,
              FilesSound, WatcherKept, NoOrphan, Restored, AddrKept
<1>2. CASE WatchStep
  BY <1>2, StepWatchTop, StepStartWorker, StepWatchBackoff, StepWorkerExited, StepWatcherStopped,
     StepCheckPaused DEF WatchStep
<1>3. CASE UpgradeStep
  BY <1>3, StepDownload, StepPauseWorker, StepInstallStops, StepMoveAside, StepMoveIntoPlace,
     StepRollback, StepRelaunch, StepResumeWorker, StepFinishUpgrade, StepExitReplaced DEF UpgradeStep
<1>4. CASE RunStep
  BY <1>4, StepSetStopping, StepCloseWatcher, StepRunStops, StepCleanup DEF RunStep
<1> QED BY <1>1, <1>2, <1>3, <1>4, StepWorkerStops, StepWorkerCrashes, StepSpawnFails, StepHandleUpgrade,
           StepDownloadFails, StepMoveAsideFails, StepMoveIntoPlaceFails, StepRelaunchFails,
           StepRollbackFails, StepNextServes, StepShutdown DEF SupervisorNext

-----------------------------------------------------------------------------
\* Worker, watcher, upgrade and shutdown of a supervisor stay consistent.
THEOREM SupervisorInvariant == SupervisorSafe => []SupervisorInv
<1> QED BY InitSupervisor, NextSupervisor, PTL DEF SupervisorSafe

\* Run's shutdown leaves no worker, but for one whose handle an upgrade had
\* taken, signalled or not.
THEOREM NoWorkerOrphaned == SupervisorSafe => []NoOrphan
<1>1. SupervisorInv => NoOrphan
  BY DEF SupervisorInv
<1> QED BY <1>1, SupervisorInvariant, PTL

\* rollback: a failed upgrade restores the binary, and one copy always exists.
THEOREM BinaryRestored == SupervisorSafe => []Restored
<1>1. SupervisorInv => Restored
  BY DEF SupervisorInv
<1> QED BY <1>1, SupervisorInvariant, PTL

\* The safety half of WorkerReturns: the watcher runs until the supervisor is
\* stopped, and nothing but an upgrade under way holds it back.
THEOREM WatcherStays == SupervisorSafe => []WatcherKept
<1>1. SupervisorInv => WatcherKept
  BY DEF SupervisorInv
<1> QED BY <1>1, SupervisorInvariant, PTL
=============================================================================
