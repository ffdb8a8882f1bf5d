--------------------------- MODULE CommandPipeline ---------------------------
(***************************************************************************)
(* The command data path of one agent, end to end: the drain loop takes a  *)
(* command, waits at the turn-start barrier, runs the turn and appends its *)
(* records to the outbox; the uploader reads the log from its cursor,      *)
(* sends one batch at a time and folds the answer into cursor and          *)
(* eviction; the manager applies batches.  The machine may be restarted or *)
(* killed, disks fail, calls are lost, answered too late, or applied after *)
(* the caller gave up.                                                     *)
(*                                                                         *)
(* Simplifications.  One agent (each has its own outbox and uploader).     *)
(* Sizes are counted in records; the byte thresholds that make an Append   *)
(* flush or a fold evict early are free choices.  Backoff and flush-now    *)
(* only decide when an upload starts, which is free here.  The manager     *)
(* applies a batch in one step; CommandRows takes the load of the status   *)
(* apart from the transaction that depends on it.                          *)
(***************************************************************************)
EXTENDS OutboxLog, UploadBatch

CONSTANTS
    MaxCommand,     \* commands the manager mints
    MaxSeq,         \* records of each data kind per turn
    MaxBatch,       \* records per upload request (ReadBatchMaxEntries)
    Cap,            \* records at which EnforceCap drops the log (MaxBytes)
    MaxLog,         \* bound on log and buffer, for the barrier's duplicates
    DataBodies,     \* payloads of progress and event records
    ResultBodies,   \* payloads of the results of finished turns
    Budgets         \* the combinations of faults a behaviour may meet

FaultKinds == {"write", "quarantine", "evict", "net", "begin", "crash", "torn"}

ASSUME BoundsAssumption ==
    /\ MaxCommand \in Nat /\ MaxSeq \in Nat /\ MaxLog \in Nat
    /\ MaxBatch \in Nat \ {0} /\ Cap \in Nat \ {0}
    /\ DataBodies \subseteq {"ok", "bad"} /\ ResultBodies \subseteq Bodies
    /\ Budgets \subseteq [FaultKinds -> Nat]

Command == 1 .. MaxCommand
Recs    == Records(Command)

VARIABLES
    log,        \* the outbox WAL
    buffered,   \* Outbox.buffered: accepted, not yet in the WAL
    readFrom,   \* Uploader.readFrom: the next index to upload
    call,       \* the uploader's UploadCommandData call
    stale,      \* batches of abandoned calls the manager may still apply
    turn,       \* the drain loop and its current turn
    status,     \* command.status on the manager
    stored,     \* rows of command_output and command_event
    sent,       \* history: every record ever appended
    lost,       \* history: records dropped by a named fault or by the cap
    faults      \* faults spent so far

machine == <<log, buffered, readFrom, call, turn>>
manager == <<status, stored>>
vars    == <<log, buffered, readFrom, call, stale, turn, status, stored, sent, lost, faults>>

-----------------------------------------------------------------------------
Phases == {"idle", "barrier", "synthesize", "running", "deliver", "bypass", "starting"}

IdleTurn == [cmd |-> 0, phase |-> "idle", orphans |-> {}, event |-> 0, progress |-> 0,
             res |-> "fail", tries |-> 0]
IdleCall == [st |-> "idle", start |-> 0, recs |-> << >>]

Init ==
    /\ log = EmptyLog /\ buffered = << >> /\ readFrom = 0
    /\ call = IdleCall /\ stale = {} /\ turn = IdleTurn
    /\ status = [c \in Command |-> "none"] /\ stored = {}
    /\ sent = {} /\ lost = {}
    /\ faults = [f \in FaultKinds |-> 0]

Spend(f) == /\ faults' = [faults EXCEPT ![f] = @ + 1]
            /\ \E b \in Budgets : \A g \in FaultKinds : faults'[g] <= b[g]

\* Take over the outcome of an outbox write; the records of a quarantined
\* directory are lost.
Write(o) ==
    /\ log' = o.log
    /\ buffered' = o.buffered
    /\ IF o.fault = "none" THEN UNCHANGED faults ELSE Spend(o.fault)
    /\ lost' = IF o.fault = "quarantine" THEN lost \cup Range(log.recs) ELSE lost

\* deliverTerminal, with `tries` further attempts if the bypass fails too.
Delivering(res, tries) ==
    [turn EXCEPT !.phase = "deliver", !.orphans = {}, !.res = res, !.tries = tries]

-----------------------------------------------------------------------------
(* The drain loop and its turns.                                           *)

\* BeginSession: the manager mints a fresh RUNNING command for the agent.
Mint(c) == /\ status[c] = "none"
           /\ \A d \in Command : d < c => status[d] # "none"
           /\ status' = [status EXCEPT ![c] = "running"]

BeginSession ==
    /\ turn.phase = "idle"
    /\ \E c \in Command : Mint(c) /\ turn' = [IdleTurn EXCEPT !.cmd = c, !.phase = "barrier"]
    /\ UNCHANGED <<log, buffered, readFrom, call, stale, stored, sent, lost, faults>>

\* The manager minted the command but its reply never arrived; the drain
\* loop asks again.
BeginSessionLost ==
    /\ turn.phase = "idle"
    /\ Spend("begin")
    /\ \E c \in Command : Mint(c)
    /\ UNCHANGED <<machine, stale, stored, sent, lost>>

\* WaitClearFor: flush and scan the first shard for records of other
\* commands; pass when there are none.
BarrierPoll ==
    /\ turn.phase = "barrier"
    /\ \E o \in FlushOutcomes(log, buffered) :
         LET shard   == ReadRecords(o.log, MaxBatch, 0)
             others  == CommandsOf(shard) \ {turn.cmd}
             orphans == OrphanGroups(shard) \ {turn.cmd}
         IN  /\ Write(o)
             /\ \/ /\ o.err
                   /\ turn' = Delivering("fail", 0)
                \/ /\ ~o.err /\ others = {}
                   /\ turn' = [turn EXCEPT !.phase = "running"]
                \/ /\ ~o.err /\ others # {} /\ orphans = {} /\ buffered # << >>
                   /\ UNCHANGED turn
                \/ /\ ~o.err /\ orphans # {} /\ Len(o.log.recs) < MaxLog
                   /\ turn' = [turn EXCEPT !.phase = "synthesize", !.orphans = orphans]
    /\ UNCHANGED <<readFrom, call, stale, manager, sent>>

\* Append the terminal of one orphan group the scan found, then scan again.
\* The uploader may have drained the group in the meantime.
BarrierSynthesize ==
    /\ turn.phase = "synthesize"
    /\ \E c \in turn.orphans : \E o \in AppendOutcomes(log, buffered, SyntheticTerminal(c)) :
         /\ Write(o)
         /\ sent' = sent \cup {SyntheticTerminal(c)}
         /\ turn' = IF o.err THEN Delivering("fail", 0)
                    ELSE [turn EXCEPT !.orphans = @ \ {c},
                                      !.phase = IF turn.orphans = {c} THEN "barrier" ELSE @]
    /\ UNCHANGED <<readFrom, call, stale, manager>>

\* One record of the running turn.  The first is the "command started"
\* event.  A failed append aborts the turn, which still owes a terminal, or
\* ends the drain of a runtime that is done: its result follows, after the
\* merged text that drainOutput flushes even then.
AppendRecord(kind) ==
    /\ turn.phase = "running"
    /\ kind = "progress" => turn.event > 0
    /\ turn[kind] < MaxSeq
    /\ \E b \in DataBodies :
         LET r == Record(turn.cmd, kind, turn[kind] + 1, b)
         IN  \E o \in AppendOutcomes(log, buffered, r) :
               /\ Write(o)
               /\ sent' = sent \cup {r}
               /\ turn' \in IF o.err
                            THEN {Delivering("fail", 0), [turn EXCEPT ![kind] = @ + 1]}
                                 \cup {Delivering(x, 1) : x \in ResultBodies}
                            ELSE {[turn EXCEPT ![kind] = @ + 1]}
    /\ UNCHANGED <<readFrom, call, stale, manager>>

\* The runtime is done: its result is delivered after every other record.
\* Before the first event this is a runtime that could not be built.
FinishTurn ==
    /\ turn.phase = "running"
    /\ \/ turn.event = 0 /\ turn' = Delivering("fail", 0)
       \/ turn.event > 0 /\ \E b \in ResultBodies : turn' = Delivering(b, 1)
    /\ UNCHANGED <<log, buffered, readFrom, call, stale, manager, sent, lost, faults>>

\* deliverTerminal: append the result; a log that refuses it leads to the
\* direct upload.
Deliver ==
    /\ turn.phase = "deliver"
    /\ LET r == Record(turn.cmd, "result", 1, turn.res)
       IN  \E o \in AppendOutcomes(log, buffered, r) :
             /\ Write(o)
             /\ sent' = sent \cup {r}
             /\ turn' = IF o.err THEN [turn EXCEPT !.phase = "bypass"] ELSE IdleTurn
    /\ UNCHANGED <<readFrom, call, stale, manager>>

\* BypassUpload: the terminal alone, past the log.
Bypass ==
    /\ turn.phase = "bypass"
    /\ LET batch   == <<Record(turn.cmd, "result", 1, turn.res)>>
           applied == [c \in Command |-> StatusAfter(status[c], status[c], batch, c)]
           again   == IF turn.tries > 0 THEN Delivering(turn.res, turn.tries - 1) ELSE IdleTurn
       IN  \/ /\ ~BatchFails(batch)
              /\ status' = applied /\ turn' = IdleTurn /\ UNCHANGED faults
           \/ /\ BatchFails(batch)
              /\ turn' = again /\ UNCHANGED <<status, faults>>
           \/ /\ Spend("net")
              /\ status' \in {status, IF BatchFails(batch) THEN status ELSE applied}
              /\ turn' = again
    /\ UNCHANGED <<log, buffered, readFrom, call, stale, stored, sent, lost>>

-----------------------------------------------------------------------------
(* The uploader.                                                           *)

\* uploadCycle up to the request: flush, read from the cursor, send.
StartUpload ==
    /\ call.st = "idle" /\ turn.phase # "starting"
    /\ \E o \in FlushOutcomes(log, buffered) :
         LET recs == ReadRecords(o.log, MaxBatch, readFrom)
         IN  /\ Write(o)
             /\ IF o.err \/ recs = << >>
                  THEN buffered # << >> /\ UNCHANGED call
                  ELSE call' = [st |-> "sent", start |-> ReadStart(o.log, readFrom), recs |-> recs]
    /\ UNCHANGED <<readFrom, stale, turn, manager, sent>>

\* ApplyCommandUpload: one transaction, then the reply.  A failed
\* transaction is an error reply: the cursor stays and the batch is retried.
ApplyBatch(batch) ==
    /\ stored' = stored \cup RowsOf(batch)
    /\ status' = [c \in Command |-> StatusAfter(status[c], status[c], batch, c)]

ManagerApply ==
    /\ call.st = "sent"
    /\ IF BatchFails(call.recs)
         THEN call' = IdleCall /\ UNCHANGED manager
         ELSE ApplyBatch(call.recs) /\ call' = [call EXCEPT !.st = "replied"]
    /\ UNCHANGED <<log, buffered, readFrom, stale, turn, sent, lost, faults>>

\* The call fails on the machine: the request was lost, is still on its way,
\* or its reply was lost.
CallFails ==
    /\ call.st # "idle"
    /\ Spend("net")
    /\ call' = IdleCall
    /\ stale' \in {stale} \cup (IF call.st = "sent" THEN {stale \cup {call.recs}} ELSE {})
    /\ UNCHANGED <<log, buffered, readFrom, turn, manager, sent, lost>>

\* An abandoned request reaches the manager after all.
StaleApply ==
    /\ \E batch \in stale :
         /\ stale' = stale \ {batch}
         /\ IF BatchFails(batch) THEN UNCHANGED manager ELSE ApplyBatch(batch)
    /\ UNCHANGED <<machine, sent, lost, faults>>

\* fold and EnforceCap after a successful call.
Fold ==
    /\ call.st = "replied"
    /\ \E reply \in {Reply(call.recs)} : \E n \in 0 .. Len(call.recs) :
         LET boundary == call.start + n - 1
         IN  /\ SettledPrefix(call.recs, reply, n)
             /\ readFrom' = IF n > 0 /\ boundary + 1 > readFrom THEN boundary + 1 ELSE readFrom
             /\ \E due \in {EvictDue(call.recs, n, reply), TRUE}, fails \in BOOLEAN :
                \E evicted \in {IF due /\ n > 0 /\ ~fails THEN EvictThrough(log, boundary) ELSE log} :
                  /\ IF fails THEN due /\ n > 0 /\ Spend("evict") ELSE UNCHANGED faults
                  /\ log' = EnforceCap(evicted, Cap)
                  /\ lost' = IF log' = evicted THEN lost ELSE lost \cup Range(evicted.recs)
    /\ call' = IdleCall
    /\ UNCHANGED <<buffered, stale, turn, manager, sent>>

-----------------------------------------------------------------------------
(* The machine process.                                                    *)

\* A stop in order flushes the buffer first; a crash (or a failed flush)
\* loses it.  The new process starts with a new cursor; a request of the
\* old one may still be on its way.
Restart ==
    /\ Spend("crash")
    /\ log' \in {log, AppendBatch(log, buffered)}
    /\ lost' = IF log' = log THEN lost \cup Range(buffered) ELSE lost
    /\ buffered' = << >> /\ readFrom' = 0 /\ call' = IdleCall
    /\ stale' \in {stale} \cup (IF call.st = "sent" THEN {stale \cup {call.recs}} ELSE {})
    /\ turn' = [IdleTurn EXCEPT !.phase = "starting"]
    /\ UNCHANGED <<manager, sent>>

\* wireOutbox: SynthesizeInterruptedTerminals before the loops start.  An
\* append that fails ends the self-check with a warning.
SelfCheck ==
    /\ turn.phase = "starting"
    /\ LET orphans == OrphanGroups(log.recs \o buffered)
       IN  \/ \E c \in orphans : \E o \in AppendOutcomes(log, buffered, SyntheticTerminal(c)) :
                /\ Write(o)
                /\ sent' = sent \cup {SyntheticTerminal(c)}
                /\ turn' = IF o.err THEN IdleTurn ELSE turn
           \/ /\ orphans = {}
              /\ \E o \in FlushOutcomes(log, buffered) : Write(o)
              /\ turn' = IdleTurn /\ UNCHANGED sent
    /\ UNCHANGED <<readFrom, call, stale, manager>>

\* A frame of the log no longer parses when the process reads it again.
TornRecord ==
    /\ turn.phase = "starting"
    /\ Spend("torn")
    /\ \E k \in DOMAIN log.recs :
         /\ log.recs[k] # Poison
         /\ log' = [base |-> log.base, recs |-> [log.recs EXCEPT ![k] = Poison]]
         /\ lost' = lost \cup {log.recs[k]}
    /\ UNCHANGED <<buffered, readFrom, call, stale, turn, manager, sent>>

-----------------------------------------------------------------------------
\* CancelCommand by a user.
CancelCommand ==
    /\ \E c \in Command : /\ status[c] \in LiveStatuses
                          /\ status' = [status EXCEPT ![c] = "cancelled"]
    /\ UNCHANGED <<machine, stale, stored, sent, lost, faults>>

Next ==
    \/ BeginSession \/ BeginSessionLost \/ BarrierPoll \/ BarrierSynthesize
    \/ \E kind \in DataKinds : AppendRecord(kind)
    \/ FinishTurn \/ Deliver \/ Bypass
    \/ StartUpload \/ ManagerApply \/ CallFails \/ StaleApply \/ Fold
    \/ Restart \/ SelfCheck \/ TornRecord
    \/ CancelCommand

Spec == Init /\ [][Next]_vars
-----------------------------------------------------------------------------
(* Correctness.                                                            *)

TypeOK ==
    /\ log \in [base: Nat, recs: Seq(Recs)]
    /\ buffered \in Seq(Recs)
    /\ readFrom \in Nat
    /\ call \in [st: {"idle", "sent", "replied"}, start: Nat, recs: Seq(Recs)]
    /\ stale \subseteq Seq(Recs)
    /\ turn \in [cmd: 0 .. MaxCommand, phase: Phases, orphans: SUBSET Command, event: Nat, progress: Nat,
                 res: Bodies, tries: Nat]
    /\ turn.phase \notin {"idle", "starting"} => turn.cmd \in Command
    /\ status \in [Command -> Statuses]
    /\ stored \subseteq Command \X DataKinds \X Nat
    /\ sent \subseteq Recs /\ lost \subseteq Recs
    /\ faults \in [FaultKinds -> Nat]

\* The manager has the record: its row is inserted, or its command is closed.
Persisted(r) ==
    IF r.kind \in DataKinds THEN Key(r) \in stored ELSE status[r.cmd] \in TerminalStatuses

\* Nothing more has to be done for the record.
Done(r) == r = Poison \/ Refused(r) \/ Persisted(r)

(***************************************************************************)
(* fold evicts what is settled and ReadRecords skips what the cursor has   *)
(* passed: no record that was appended disappears unless the manager has   *)
(* it, refused it, or a fault or the retention cap dropped it.  Until the  *)
(* log directory is set aside: the cursor survives that reset, so records  *)
(* of the new log below it are skipped and evicted without being sent.     *)
(***************************************************************************)
NoSilentLoss ==
    faults["quarantine"] = 0 =>
      \A r \in sent : Done(r) \/ r \in lost \cup Range(log.recs) \cup Range(buffered)

(***************************************************************************)
(* The upload cursor only ever passes settled records: what lies before it *)
(* in the log is on the manager, so acked records need not be re-sent and  *)
(* eviction up to the cursor is safe.                                      *)
(***************************************************************************)
CursorSettled ==
    faults["quarantine"] = 0 =>
      \A k \in DOMAIN log.recs : log.base + k < readFrom => Done(log.recs[k])

(***************************************************************************)
(* The turn-start barrier (WaitClearFor): while a turn runs, the outbox    *)
(* holds records of that turn only.  (Its scan covers one shard, so it     *)
(* relies on that shard not being torn from end to end.)                   *)
(***************************************************************************)
TurnIsolation ==
    turn.phase = "running" /\ faults["torn"] < MaxBatch =>
      \A r \in Range(log.recs) \cup Range(buffered) : r.cmd = turn.cmd \/ r = Poison

RealResult(c) == Record(c, "result", 1, "ok")

(***************************************************************************)
(* A synthetic FAILED terminal (barrier, self-check, aborted turn) never   *)
(* overtakes the turn's own successful result that the outbox accepted.    *)
(* Until the log directory is set aside: the cursor that survives may skip *)
(* the result in the new log and upload a synthetic one behind it.         *)
(***************************************************************************)
RealResultWins ==
    faults["quarantine"] = 0 =>
      \A c \in Command : status[c] = "failed" => RealResult(c) \notin sent \ lost

(***************************************************************************)
(* The terminal is the last record of its command: once the manager closed *)
(* a command from an upload, all of its progress and events are there      *)
(* (or were refused or lost).  Only the bypass after a disk fault and a    *)
(* user's cancel may close it earlier.                                     *)
(***************************************************************************)
TerminalIsLast ==
    faults["write"] + faults["quarantine"] = 0 =>
      \A r \in sent : status[r.cmd] \in {"completed", "failed"} => Done(r) \/ r \in lost

(***************************************************************************)
(* What WaitClearFor waits for can come: no terminal stays in the log once *)
(* the cursor has passed it.  No later fold would evict it, and a barrier  *)
(* that finds the turn's records complete would wait for ever.  Only an    *)
(* EvictThrough that fails, or a new index space, leaves one there.        *)
(***************************************************************************)
TerminalsAhead ==
    faults["evict"] + faults["quarantine"] = 0 =>
      \A k \in DOMAIN log.recs : log.base + k < readFrom => log.recs[k].kind # "result"

(***************************************************************************)
(* The inductive strengthening behind NoSilentLoss and CursorSettled.      *)
(*                                                                         *)
(* Provenance: whatever is in the outbox or under way was appended by a    *)
(* turn, a barrier or a self-check, for a command that was minted.         *)
(***************************************************************************)
Provenance ==
    /\ Range(log.recs) \cup Range(buffered) \cup Range(call.recs) \subseteq sent \cup {Poison}
    /\ \A r \in sent : r # Poison /\ status[r.cmd] # "none"
    /\ turn.phase \notin {"idle", "starting"} =>
         status[turn.cmd] # "none"
    /\ \A c \in turn.orphans : status[c] # "none"

\* The batch under way is still what the log holds at its indexes, and no
\* unsettled record lies before it.
CallSnapshot ==
    call.st # "idle" =>
      /\ call.start <= LastIndex(log) + 1
      /\ \A k \in DOMAIN call.recs :
           /\ call.start + k - 1 <= LastIndex(log)
           /\ call.start + k - 1 > log.base =>
                log.recs[call.start + k - 1 - log.base] = call.recs[k]
      /\ \A k \in DOMAIN log.recs : log.base + k < call.start => Done(log.recs[k])
      /\ call.st = "replied" => \A k \in DOMAIN call.recs : Done(call.recs[k])

\* Behind TerminalsAhead: the batch under way begins at the cursor, or where the
\* log begins.
CallFromCursor ==
    faults["quarantine"] = 0 /\ call.st # "idle" =>
      call.start <= readFrom \/ call.start <= FirstIndex(log)

PipelineInv ==
    /\ Provenance
    /\ turn.phase = "starting" => call.st = "idle"
    /\ NoSilentLoss
    /\ CursorSettled
    /\ faults["quarantine"] = 0 => CallSnapshot /\ readFrom <= LastIndex(log) + 1

(***************************************************************************)
(* The inductive strengthening behind TurnIsolation, RealResultWins and    *)
(* TerminalIsLast: in which order the records of a command are appended,   *)
(* kept and sent.                                                          *)
(***************************************************************************)
IsResult(r, c) == r.kind = "result" /\ r.cmd = c
IsFailure(r, c) == IsResult(r, c) /\ r.body = "fail"

\* Only a result that was appended closes a command as completed or failed
\* (there is no reaper here).
ResultKnown ==
    \A c \in Command :
      /\ status[c] # "unreachable"
      /\ status[c] = "completed" => \E r \in sent : IsResult(r, c)
      /\ status[c] = "failed" => \E r \in sent : IsFailure(r, c)

\* A turn at the barrier has appended nothing yet, a running turn no result,
\* and a turn that delivers appends the same result every time.
TurnResults ==
    /\ turn.phase \in {"barrier", "synthesize"} =>
         turn.cmd \notin turn.orphans /\ \A r \in sent : r.cmd # turn.cmd
    /\ turn.phase = "running" => \A r \in sent : ~IsResult(r, turn.cmd)
    /\ turn.phase \in {"deliver", "bypass"} =>
         \A r \in sent : IsResult(r, turn.cmd) => r.body = turn.res
    /\ turn.phase = "bypass" => Record(turn.cmd, "result", 1, turn.res) \in sent

\* The buffer holds no torn frame, and an abandoned batch was read from the log.
OutboxSent ==
    /\ Range(buffered) \subseteq sent
    /\ \A batch \in stale : Range(batch) \subseteq sent \cup {Poison}

TornFrames == {log.base + k : k \in {i \in DOMAIN log.recs : log.recs[i] = Poison}}

\* Frames only become unreadable by the fault that tears them.
TornCounted == IsFiniteSet(TornFrames) /\ Cardinality(TornFrames) <= faults["torn"]

Batches == {call.recs} \cup stale

RealLeads(s, c) ==
    \A k \in DOMAIN s : IsFailure(s[k], c) => \E j \in DOMAIN s : j < k /\ s[j] = RealResult(c)

\* The outbox has accepted the command's own result and the manager not seen it.
Unreported(c) == RealResult(c) \in sent \ lost /\ status[c] \notin TerminalStatuses

\* Until then it is before every synthetic one, in the outbox and in a batch.
RealFirst ==
    faults["quarantine"] = 0 =>
      \A c \in Command : Unreported(c) =>
        /\ RealLeads(log.recs, c)
        /\ RealResult(c) \in Range(log.recs) \/ RealLeads(buffered, c)
        /\ \A batch \in Batches : RealLeads(batch, c)

ResultsLast(s) ==
    \A j, k \in DOMAIN s : s[j].kind \in DataKinds /\ IsResult(s[k], s[j].cmd) => j < k

\* No data in s comes behind a result of its command in t.
NoneBehind(t, s) ==
    \A r \in Range(t), d \in Range(s) : d.kind \in DataKinds => ~IsResult(r, d.cmd)

\* A batch with a result leaves no data of its command behind.
BringsData(batch) ==
    \A d \in sent :
      d.kind \in DataKinds /\ (\E r \in Range(batch) : IsResult(r, d.cmd)) =>
        Done(d) \/ d \in lost \cup Range(batch)

\* Without disk faults a result is behind the data of its command in the outbox,
\* and a batch with a result brings all the data that is still needed.
ResultBehindData ==
    faults["write"] + faults["quarantine"] = 0 =>
      /\ turn.phase # "bypass"
      /\ ResultsLast(log.recs) /\ ResultsLast(buffered) /\ NoneBehind(log.recs, buffered)
      /\ \A batch \in Batches : BringsData(batch)

TurnInv ==
    /\ ResultKnown /\ TurnResults /\ OutboxSent /\ TornCounted /\ RealFirst /\ ResultBehindData
    /\ TurnIsolation /\ RealResultWins /\ TerminalIsLast

(***************************************************************************)
(* Fairness: the loops of the runner keep running (Run, drainLoop), and    *)
(* the manager answers a call that is not lost.                            *)
(***************************************************************************)
DrainLoop == BarrierPoll \/ BarrierSynthesize \/ Deliver \/ Bypass \/ SelfCheck
Uploader  == StartUpload \/ Fold

Fairness == WF_vars(DrainLoop) /\ WF_vars(Uploader) /\ WF_vars(ManagerApply)

FairSpec == Spec /\ Fairness

(***************************************************************************)
(* WaitClearFor returns: a turn never waits at the barrier for ever.       *)
(***************************************************************************)
BarrierReleases ==
    turn.phase \in {"barrier", "synthesize"} ~> turn.phase \notin {"barrier", "synthesize"}

(***************************************************************************)
(* Every terminal the outbox accepted closes its command on the manager,   *)
(* unless it is refused or lost.                                           *)
(***************************************************************************)
TerminalReported ==
    \A c \in Command :
      LET terminals == {r \in sent \ lost : r.kind = "result" /\ r.cmd = c /\ ~Refused(r)}
      IN  terminals # {} ~> status[c] # "running" \/ terminals = {}
=============================================================================
