-------------------------- MODULE CommandRowsProofs --------------------------
(***************************************************************************)
(* Proofs about CommandRows, for every number of commands, of concurrent   *)
(* upload handlers and of restarts.  RowsInv is inductive; each action is  *)
(* one lemma, with one step per conjunct it can disturb.                   *)
(***************************************************************************)
EXTENDS CommandRows, TLAPS

\* A result stores one of the two outcomes.
LEMMA OutcomeType == ASSUME NEW r \in Outcomes
                     PROVE  /\ r.cmd \in Command
                            /\ Outcome(r) \in {"completed", "failed"}
  BY DEF Outcomes, Record, Outcome

\* The guarded updates close a live row and leave a closed one alone.
LEMMA UpdateCloses ==
    ASSUME NEW st, NEW row \in LiveStatuses \cup Closed, NEW o \in {"completed", "failed"}
    PROVE  /\ TerminalUpdate(st, row, o) \in LiveStatuses \cup Closed
           /\ row \in Closed => TerminalUpdate(st, row, o) = row
           /\ st \in LiveStatuses => TerminalUpdate(st, row, o) \in Closed
           /\ TerminalUpdate(st, row, o) # row => st \in LiveStatuses /\ TerminalUpdate(st, row, o) = o
  BY DEF TerminalUpdate, LiveStatuses, Closed

\* The initial state.
LEMMA InitRows == Init => RowsInv
<1> SUFFICES ASSUME Init PROVE RowsInv
  OBVIOUS
<1>1. TypeOK
  <2>1. Free \in Uploads
    BY DEF Free, Uploads, Statuses
  <2>2. restarts \in 0 .. MaxRestarts
    BY RowsAssumption DEF Init
  <2>3. turn \in [cmd: Command \cup {NoneYet}, phase: {"idle", "begin", "ready"}]
    BY DEF Init, Idle
  <2> QED BY <2>1, <2>2, <2>3 DEF Init, TypeOK, Statuses, MintSteps
<1>2. MintedRows /\ HeldResults /\ MarkPending /\ TurnMarked
  BY DEF Init, MintedRows, HeldResults, MarkPending, TurnMarked, Idle, NoneYet, LiveStatuses, Closed
<1>3. UploadsSound
  BY DEF Init, UploadsSound, Free
<1> QED BY <1>1, <1>2, <1>3 DEF RowsInv

-----------------------------------------------------------------------------
(* The steps of BeginSession.                                              *)

\* The request.
LEMMA BeginSessionStep == ASSUME RowsInv, NEW c \in Command, BeginSession(c) PROVE RowsInv'
<1> USE DEF RowsInv
<1>1. TypeOK'
  BY DEF TypeOK, BeginSession, handlers, MintSteps
<1>2. MintedRows'
  BY DEF TypeOK, MintedRows, BeginSession, handlers
<1>3. HeldResults'
  BY DEF TypeOK, HeldResults, BeginSession, handlers, Idle, MintSteps, Outcomes, Record
<1>4. UploadsSound'
  BY OutcomeType DEF TypeOK, UploadsSound, UploadSound, BeginSession, handlers
<1>5. MarkPending'
  BY DEF TypeOK, MarkPending, BeginSession, handlers
<1>6. TurnMarked'
  BY DEF TypeOK, TurnMarked, BeginSession, handlers
<1> QED BY <1>1, <1>2, <1>3, <1>4, <1>5, <1>6

\* The insert of the row.
LEMMA CreateCommandStep == ASSUME RowsInv, NEW c \in Command, CreateCommand(c) PROVE RowsInv'
<1> USE DEF RowsInv
<1>1. TypeOK'
  BY DEF TypeOK, CreateCommand, handlers, MintSteps, Statuses, LiveStatuses
<1>2. MintedRows'
  BY DEF TypeOK, MintedRows, CreateCommand, handlers, LiveStatuses
<1>3. HeldResults'
  BY OutcomeType DEF TypeOK, HeldResults, CreateCommand, handlers
<1>4. UploadsSound'
  BY OutcomeType DEF TypeOK, UploadsSound, UploadSound, CreateCommand, handlers
<1>5. MarkPending'
  BY DEF TypeOK, MarkPending, CreateCommand, handlers, NoneYet
<1>6. TurnMarked'
  BY DEF TypeOK, TurnMarked, HeldResults, CreateCommand, handlers, NoneYet
<1> QED BY <1>1, <1>2, <1>3, <1>4, <1>5, <1>6

\* The unguarded update of the row.
LEMMA MarkRunningStep == ASSUME RowsInv, NEW c \in Command, MarkRunning(c) PROVE RowsInv'
<1> USE DEF RowsInv
<1>1. TypeOK'
  BY DEF TypeOK, MarkRunning, handlers, MintSteps, Statuses, LiveStatuses
<1>2. MintedRows'
  BY DEF TypeOK, MintedRows, MarkRunning, handlers, LiveStatuses
<1>3. HeldResults'
  BY OutcomeType DEF TypeOK, HeldResults, MarkRunning, handlers
<1>4. UploadsSound'
  BY OutcomeType DEF TypeOK, UploadsSound, UploadSound, MarkRunning, handlers
<1>5. MarkPending'
  BY DEF TypeOK, MarkPending, MarkRunning, handlers, NoneYet
<1>6. TurnMarked'
  BY DEF TypeOK, TurnMarked, HeldResults, MarkRunning, handlers, NoneYet
<1> QED BY <1>1, <1>2, <1>3, <1>4, <1>5, <1>6

\* The tracker.  The command has no result yet.
LEMMA TrackCommandStep == ASSUME RowsInv, NEW c \in Command, TrackCommand(c) PROVE RowsInv'
<1> USE DEF RowsInv
<1>1. TypeOK'
  BY DEF TypeOK, TrackCommand, handlers, MintSteps
<1>2. MintedRows'
  BY DEF TypeOK, MintedRows, TrackCommand, handlers
<1>3. HeldResults'
  BY OutcomeType DEF TypeOK, HeldResults, TrackCommand, handlers
<1>4. UploadsSound'
  BY OutcomeType DEF TypeOK, UploadsSound, UploadSound, TrackCommand, handlers
<1>5. MarkPending'
  BY DEF TypeOK, MarkPending, MintedRows, TrackCommand, handlers
<1>6. TurnMarked'
  BY DEF TypeOK, TurnMarked, HeldResults, TrackCommand, handlers, NoneYet, Command
<1> QED BY <1>1, <1>2, <1>3, <1>4, <1>5, <1>6

\* The reply.  A command that is only tracked has no record anywhere.
LEMMA ReplySessionStep == ASSUME RowsInv, NEW c \in Command, ReplySession(c) PROVE RowsInv'
<1> USE DEF RowsInv
<1>1. TypeOK'
  BY DEF TypeOK, ReplySession, handlers, MintSteps
<1>2. MintedRows'
  BY DEF TypeOK, MintedRows, ReplySession, handlers
<1>3. HeldResults'
  BY OutcomeType DEF TypeOK, HeldResults, ReplySession, handlers
<1>4. UploadsSound'
  BY OutcomeType DEF TypeOK, UploadsSound, UploadSound, ReplySession, handlers
<1>5. MarkPending'
  BY DEF TypeOK, MarkPending, ReplySession, handlers
<1>6. TurnMarked'
  BY DEF TypeOK, TurnMarked, HeldResults, ReplySession, handlers, NoneYet
<1> QED BY <1>1, <1>2, <1>3, <1>4, <1>5, <1>6

-----------------------------------------------------------------------------
(* The machine.                                                            *)

\* A call given up.
LEMMA AbandonStep == ASSUME RowsInv, AbandonSession \/ AbandonUpload PROVE RowsInv'
<1> USE DEF RowsInv
<1>1. TypeOK'
  BY DEF TypeOK, AbandonSession, AbandonUpload, rows, Idle
<1>2. MintedRows' /\ MarkPending'
  BY DEF MintedRows, MarkPending, AbandonSession, AbandonUpload, rows
<1>3. HeldResults' /\ TurnMarked'
  BY DEF HeldResults, TurnMarked, AbandonSession, AbandonUpload, rows, Idle
<1>4. UploadsSound'
  BY DEF UploadsSound, UploadSound, AbandonSession, AbandonUpload, rows, Idle
<1> QED BY <1>1, <1>2, <1>3, <1>4

\* The end of a turn.
LEMMA FinishTurnStep == ASSUME RowsInv, NEW b \in {"ok", "fail"}, FinishTurn(b) PROVE RowsInv'
<1> USE DEF RowsInv
<1> DEFINE r == Record(turn.cmd, "result", 1, b)
<1>0. r \in Outcomes /\ r.cmd = turn.cmd
  BY DEF FinishTurn, HeldResults, Outcomes, Record
<1> HIDE DEF r
<1>1. unacked' = {r} /\ turn' = Idle
  BY DEF FinishTurn, r
<1>2. TypeOK'
  BY <1>0, <1>1 DEF TypeOK, FinishTurn, rows, Idle
<1>3. MintedRows' /\ MarkPending'
  BY DEF MintedRows, MarkPending, FinishTurn, rows
<1>4. HeldResults'
  BY <1>0, <1>1 DEF HeldResults, FinishTurn, rows, Idle
<1>5. TurnMarked'
  BY <1>1 DEF TurnMarked, Idle
<1>6. UploadsSound'
  BY <1>1 DEF UploadsSound, UploadSound, FinishTurn, rows, Idle
<1> QED BY <1>2, <1>3, <1>4, <1>5, <1>6

\* Connecting again, or being lost.
LEMMA MachineChangesStep == ASSUME RowsInv, NEW m \in {"online", "gone"}, MachineChanges(m) PROVE RowsInv'
<1> USE DEF RowsInv
<1>1. TypeOK'
  BY DEF TypeOK, MachineChanges, rows, Idle
<1>2. MintedRows' /\ MarkPending'
  BY DEF MintedRows, MarkPending, MachineChanges, rows
<1>3. HeldResults' /\ TurnMarked'
  BY DEF HeldResults, TurnMarked, MachineChanges, rows, Idle
<1>4. UploadsSound'
  BY DEF UploadsSound, UploadSound, MachineChanges, rows, Idle
<1> QED BY <1>1, <1>2, <1>3, <1>4

-----------------------------------------------------------------------------
(* The upload handlers.                                                    *)

\* The load: what it reads is the row as it is.
LEMMA LoadStatusStep == ASSUME RowsInv, NEW h \in Handlers, LoadStatus(h) PROVE RowsInv'
<1> USE DEF RowsInv
<1>0. PICK r \in unacked : upload' = [upload EXCEPT ![h] = [phase |-> "loaded", rec |-> r,
                                          st |-> status[r.cmd], cleans |-> FALSE]]
  BY DEF LoadStatus
<1>1. r \in Outcomes /\ r.cmd \in Command /\ status[r.cmd] \in Statuses
  BY OutcomeType DEF TypeOK
<1>2. status[r.cmd] \in LiveStatuses \cup Closed /\ mint[r.cmd] = "replied"
  BY <1>1 DEF HeldResults, MintedRows
<1>3. TypeOK'
  BY <1>0, <1>1 DEF TypeOK, LoadStatus, outside, Uploads
<1>4. MintedRows' /\ HeldResults' /\ TurnMarked'
  BY DEF MintedRows, HeldResults, TurnMarked, LoadStatus, outside
<1>5. MarkPending'
  <2> SUFFICES ASSUME current # NoneYet, status[current] \in {"completed", "failed"}, current \notin unreported
               PROVE  \E g \in Handlers : upload'[g].phase = "applied" /\ upload'[g].rec.cmd = current /\ upload'[g].cleans
    BY DEF MarkPending, LoadStatus, outside
  <2>1. PICK g \in Handlers : upload[g].phase = "applied" /\ upload[g].rec.cmd = current /\ upload[g].cleans
    BY DEF MarkPending
  <2>2. g # h
    BY <2>1 DEF LoadStatus, Free
  <2> QED BY <1>0, <2>1, <2>2 DEF TypeOK
<1>6. UploadsSound'
  <2> SUFFICES ASSUME NEW g \in Handlers, upload'[g].phase # "free"
               PROVE  UploadSound(upload[g])'
    BY DEF UploadsSound
  <2>1. CASE g = h
    BY <1>0, <1>1, <1>2, <2>1 DEF UploadSound, HeldResults, TypeOK, LoadStatus, outside
  <2>2. CASE g # h
    BY <1>0, <2>2 DEF UploadsSound, UploadSound, TypeOK, LoadStatus, outside
  <2> QED BY <2>1, <2>2
<1> QED BY <1>3, <1>4, <1>5, <1>6

\* The commit.  A row the result closes is reported for cleanup.
LEMMA ApplyResultStep == ASSUME RowsInv, NEW h \in Handlers, ApplyResult(h) PROVE RowsInv'
<1> USE DEF RowsInv
<1> DEFINE u   == upload[h]
           c   == u.rec.cmd
           new == TerminalUpdate(u.st, status[c], Outcome(u.rec))
           rep == Reports(u.st, status[c], Outcome(u.rec))
<1>0. u.phase = "loaded" /\ UploadSound(u) /\ c \in Command /\ Outcome(u.rec) \in {"completed", "failed"}
  BY OutcomeType DEF ApplyResult, UploadsSound, UploadSound
<1>1. /\ status' = [status EXCEPT ![c] = new]
      /\ upload' = [upload EXCEPT ![h].phase = "applied", ![h].cleans = rep]
  BY DEF ApplyResult
<1>2. status[c] \in LiveStatuses \cup Closed /\ mint[c] = "replied" /\ u.st \in LiveStatuses \cup Closed
  BY <1>0 DEF MintedRows, UploadSound
<1>3. /\ new \in Closed
      /\ status[c] \in Closed => new = status[c]
      /\ new # status[c] => rep
  BY <1>0, <1>2, UpdateCloses DEF UploadSound, Reports
<1>4. rep \in BOOLEAN
  BY DEF Reports
<1>5. UNCHANGED <<outside, current, unacked, awaiting, acked, unreported>>
  BY DEF ApplyResult
<1> HIDE DEF new, rep
<1>6. TypeOK'
  <2>1. status' \in [Command -> Statuses]
    BY <1>1, <1>3 DEF TypeOK, Closed, Statuses, TerminalStatuses
  <2>2. upload' \in [Handlers -> Uploads]
    <3>1. upload \in [Handlers -> Uploads] /\ u \in Uploads
      BY DEF TypeOK
    <3>2. [u EXCEPT !.phase = "applied", !.cleans = rep] \in Uploads
      BY <1>4, <3>1 DEF Uploads
    <3>3. upload' = [upload EXCEPT ![h] = [u EXCEPT !.phase = "applied", !.cleans = rep]]
      BY <1>1, <3>1
    <3> HIDE DEF u
    <3> QED BY <3>1, <3>2, <3>3
  <2> QED BY <1>5, <2>1, <2>2 DEF TypeOK, outside
<1>7. MintedRows'
  BY <1>0, <1>1, <1>2, <1>3, <1>5 DEF MintedRows, TypeOK, outside, Closed
<1>8. HeldResults'
  BY <1>0, <1>1, <1>3, <1>5 DEF HeldResults, TypeOK, outside
<1>9. UploadsSound'
  <2> SUFFICES ASSUME NEW g \in Handlers, upload'[g].phase # "free"
               PROVE  UploadSound(upload[g])'
    BY DEF UploadsSound
  <2>1. CASE g = h
    BY <1>0, <1>1, <1>3, <1>5, <2>1 DEF UploadSound, TypeOK, Uploads, outside
  <2>2. CASE g # h
    <3>1. upload'[g] = upload[g] /\ UploadSound(upload[g]) /\ upload[g].rec.cmd \in Command
      BY <1>1, <2>2, OutcomeType DEF UploadsSound, UploadSound, TypeOK
    <3>2. status[upload[g].rec.cmd] \in Closed => status'[upload[g].rec.cmd] \in Closed
      BY <1>0, <1>1, <1>3, <3>1 DEF TypeOK
    <3> QED BY <1>5, <3>1, <3>2 DEF UploadSound, outside
  <2> QED BY <2>1, <2>2
<1>10. MarkPending'
  <2> SUFFICES ASSUME current # NoneYet, status'[current] \in {"completed", "failed"}, current \notin unreported
               PROVE  \E g \in Handlers : upload'[g].phase = "applied" /\ upload'[g].rec.cmd = current /\ upload'[g].cleans
    BY <1>5 DEF MarkPending
  <2>1. CASE status[current] \in {"completed", "failed"}
    <3>1. PICK g \in Handlers : upload[g].phase = "applied" /\ upload[g].rec.cmd = current /\ upload[g].cleans
      BY <2>1 DEF MarkPending
    <3>2. g # h
      BY <1>0, <3>1
    <3> QED BY <1>1, <3>1, <3>2 DEF TypeOK
  <2>2. CASE status[current] \notin {"completed", "failed"}
    <3>1. current = c /\ new # status[c]
      BY <1>0, <1>1, <2>2 DEF TypeOK, NoneYet
    <3>2. upload'[h].phase = "applied" /\ upload'[h].rec.cmd = c /\ upload'[h].cleans
      BY <1>1, <1>3, <3>1 DEF TypeOK, Uploads
    <3> QED BY <3>1, <3>2
  <2> QED BY <2>1, <2>2
<1>11. TurnMarked'
  BY <1>5 DEF TurnMarked, outside
<1> QED BY <1>6, <1>7, <1>8, <1>9, <1>10, <1>11

\* The rollback.
LEMMA FailResultStep == ASSUME RowsInv, NEW h \in Handlers, FailResult(h) PROVE RowsInv'
<1> USE DEF RowsInv
<1>1. TypeOK'
  <2>1. Free \in Uploads
    BY DEF Free, Uploads, Statuses
  <2> QED BY <2>1 DEF TypeOK, FailResult, outside
<1>2. MintedRows' /\ HeldResults' /\ TurnMarked'
  BY DEF MintedRows, HeldResults, TurnMarked, FailResult, outside
<1>3. MarkPending'
  BY DEF MarkPending, TypeOK, FailResult, outside
<1>4. UploadsSound'
  BY DEF UploadsSound, UploadSound, TypeOK, FailResult, outside, Free
<1> QED BY <1>1, <1>2, <1>3, <1>4

\* The commit that is taken for failed.  A row it closes is on record.
LEMMA CommitUnknownStep == ASSUME RowsInv, NEW h \in Handlers, CommitUnknown(h) PROVE RowsInv'
<1> USE DEF RowsInv
<1> DEFINE u   == upload[h]
           c   == u.rec.cmd
           new == TerminalUpdate(u.st, status[c], Outcome(u.rec))
<1>0. UploadSound(u) /\ u.phase = "loaded" /\ c \in Command /\ Outcome(u.rec) \in {"completed", "failed"}
  BY OutcomeType DEF CommitUnknown, UploadsSound, UploadSound
<1>1. /\ status' = [status EXCEPT ![c] = new]
      /\ upload' = [upload EXCEPT ![h] = Free]
      /\ unreported' = unreported \cup (IF new # status[c] THEN {c} ELSE {})
  BY DEF CommitUnknown
<1>2. status[c] \in LiveStatuses \cup Closed /\ mint[c] = "replied" /\ u.st \in LiveStatuses \cup Closed
  BY <1>0 DEF MintedRows, UploadSound
<1>3. new \in Closed /\ (status[c] \in Closed => new = status[c])
  BY <1>0, <1>2, UpdateCloses DEF UploadSound
<1>4. UNCHANGED <<outside, current, unacked, acked>> /\ awaiting' \subseteq awaiting
  BY DEF CommitUnknown
<1> HIDE DEF new
<1>5. TypeOK'
  <2>1. Free \in Uploads
    BY DEF Free, Uploads, Statuses
  <2>2. status' \in [Command -> Statuses]
    BY <1>1, <1>3 DEF TypeOK, Closed, Statuses, TerminalStatuses
  <2>3. unreported' \subseteq Command
    BY <1>0, <1>1 DEF TypeOK
  <2>4. upload' \in [Handlers -> Uploads]
    BY <1>1, <2>1 DEF TypeOK
  <2> QED BY <1>4, <2>2, <2>3, <2>4 DEF TypeOK, outside
<1>6. MintedRows'
  BY <1>0, <1>1, <1>2, <1>3, <1>4 DEF MintedRows, TypeOK, outside, Closed
<1>7. HeldResults'
  BY <1>0, <1>1, <1>3, <1>4 DEF HeldResults, TypeOK, outside
<1>8. UploadsSound'
  <2> SUFFICES ASSUME NEW g \in Handlers, upload'[g].phase # "free"
               PROVE  UploadSound(upload[g])'
    BY DEF UploadsSound
  <2>1. g # h
    BY <1>1 DEF TypeOK, Free
  <2>2. upload'[g] = upload[g] /\ UploadSound(upload[g]) /\ upload[g].rec.cmd \in Command
    BY <1>1, <2>1, OutcomeType DEF UploadsSound, UploadSound, TypeOK
  <2>3. status[upload[g].rec.cmd] \in Closed => status'[upload[g].rec.cmd] \in Closed
    BY <1>0, <1>1, <1>3, <2>2 DEF TypeOK
  <2> QED BY <1>4, <2>2, <2>3 DEF UploadSound, outside
<1>9. MarkPending'
  <2> SUFFICES ASSUME current # NoneYet, status'[current] \in {"completed", "failed"}, current \notin unreported'
               PROVE  \E g \in Handlers : upload'[g].phase = "applied" /\ upload'[g].rec.cmd = current /\ upload'[g].cleans
    BY <1>4 DEF MarkPending
  <2>1. status'[current] = status[current]
    BY <1>0, <1>1 DEF TypeOK, NoneYet
  <2>2. PICK g \in Handlers : upload[g].phase = "applied" /\ upload[g].rec.cmd = current /\ upload[g].cleans
    BY <1>1, <2>1 DEF MarkPending
  <2>3. g # h
    BY <1>0, <2>2
  <2> QED BY <1>1, <2>2, <2>3 DEF TypeOK
<1>10. TurnMarked'
  BY <1>4 DEF TurnMarked, outside
<1> QED BY <1>5, <1>6, <1>7, <1>8, <1>9, <1>10

\* The cleanup and the answer.  The mark of a running turn is not cleared: its
\* command has no upload, and neither has a command that was given up.
LEMMA AnswerUploadStep == ASSUME RowsInv, NEW h \in Handlers, AnswerUpload(h) PROVE RowsInv'
<1> USE DEF RowsInv
<1> DEFINE u == upload[h]
           c == u.rec.cmd
<1>0. u.phase = "applied" /\ UploadSound(u) /\ c \in Command
  BY OutcomeType DEF AnswerUpload, UploadsSound, UploadSound
<1>1. upload' = [upload EXCEPT ![h] = Free] /\ UNCHANGED <<outside, status, unreported>>
  BY DEF AnswerUpload
<1>2. current' \in {current, NoneYet} /\ (current' # current => current = c)
  BY DEF AnswerUpload, Cleared
<1>3. u.cleans => current' # c \/ c = NoneYet
  BY DEF AnswerUpload, Cleared
<1>4. unacked' \subseteq unacked /\ acked' \subseteq acked \cup {c} /\ awaiting' \subseteq awaiting
  BY DEF AnswerUpload
<1>5. TypeOK'
  <2>1. Free \in Uploads
    BY DEF Free, Uploads, Statuses
  <2> QED BY <1>0, <1>1, <1>2, <1>4, <2>1 DEF TypeOK, outside
<1>6. MintedRows'
  BY <1>1 DEF MintedRows, outside
<1>7. HeldResults'
  BY <1>0, <1>1, <1>4 DEF HeldResults, UploadSound, outside
<1>8. UploadsSound'
  BY <1>1 DEF UploadsSound, UploadSound, TypeOK, outside, Free
<1>9. MarkPending'
  <2> SUFFICES ASSUME current' # NoneYet, status[current'] \in {"completed", "failed"}, current' \notin unreported
               PROVE  \E g \in Handlers : upload'[g].phase = "applied" /\ upload'[g].rec.cmd = current' /\ upload'[g].cleans
    BY <1>1 DEF MarkPending
  <2>1. current' = current
    BY <1>2
  <2>2. PICK g \in Handlers : upload[g].phase = "applied" /\ upload[g].rec.cmd = current /\ upload[g].cleans
    BY <2>1 DEF MarkPending
  <2>3. g # h
    BY <1>3, <2>1, <2>2
  <2> QED BY <1>1, <2>1, <2>2, <2>3 DEF TypeOK
<1>10. TurnMarked'
  <2>1. turn.phase = "ready" => turn.cmd # c
    BY <1>0 DEF UploadSound
  <2>2. mint[c] = "replied"
    BY <1>0 DEF UploadSound
  <2>3. turn.phase # "idle" /\ turn.cmd = c /\ mint[turn.cmd] \in {"tracked", "replied"} => FALSE
    BY <2>1, <2>2 DEF HeldResults, TypeOK
  <2> QED BY <1>1, <1>2, <2>2, <2>3 DEF TurnMarked, outside
<1> QED BY <1>5, <1>6, <1>7, <1>8, <1>9, <1>10

-----------------------------------------------------------------------------
(* The administrative steps.  They touch the rows only, and no row by more *)
(* than a cancel: live or closed rows become or stay cancelled.            *)

\* A step that only cancels rows which exist.
LEMMA RowStep ==
    ASSUME RowsInv, TypeOK', UNCHANGED others,
           \A c \in Command : \/ status'[c] = status[c]
                              \/ status[c] \in LiveStatuses \cup Closed /\ status'[c] = "cancelled",
           \A c \in cancelling' : c \in cancelling \/ status[c] \in LiveStatuses
    PROVE  RowsInv'
<1> USE DEF RowsInv
<1>1. MintedRows'
  BY DEF MintedRows, others, LiveStatuses, Closed
<1>2. HeldResults'
  BY DEF HeldResults, TypeOK, others, Closed
<1>3. UploadsSound'
  <2> SUFFICES ASSUME NEW g \in Handlers, upload[g].phase # "free"
               PROVE  UploadSound(upload[g])'
    BY DEF UploadsSound, others
  <2>1. UploadSound(upload[g]) /\ upload[g].rec.cmd \in Command
    BY OutcomeType DEF UploadsSound, UploadSound
  <2>2. status[upload[g].rec.cmd] \in Closed => status'[upload[g].rec.cmd] \in Closed
    BY <2>1 DEF Closed
  <2> QED BY <2>1, <2>2 DEF UploadSound, others
<1>4. MarkPending'
  BY DEF MarkPending, TypeOK, others, NoneYet
<1>5. TurnMarked'
  BY DEF TurnMarked, others
<1> QED BY <1>1, <1>2, <1>3, <1>4, <1>5

\* The two steps of CancelCommand.
LEMMA CancelStep == ASSUME RowsInv, NEW c \in Command, CheckCancel(c) \/ MarkCancelled(c) PROVE RowsInv'
<1>1. TypeOK'
  BY DEF RowsInv, TypeOK, CheckCancel, MarkCancelled, others, Statuses, TerminalStatuses
<1>2. \A d \in Command : \/ status'[d] = status[d]
                         \/ status[d] \in LiveStatuses \cup Closed /\ status'[d] = "cancelled"
  BY DEF RowsInv, TypeOK, MintedRows, CheckCancel, MarkCancelled
<1>3. UNCHANGED others /\ \A d \in cancelling' : d \in cancelling \/ status[d] \in LiveStatuses
  BY DEF CheckCancel, MarkCancelled
<1> QED BY <1>1, <1>2, <1>3, RowStep

\* The two steps of ForceDisconnectMachine.
LEMMA ForceStep == ASSUME RowsInv, ForceOffline \/ CancelRunningCommandsForMachine PROVE RowsInv'
<1>1. TypeOK'
  BY ZenonT(40) DEF RowsInv, TypeOK, ForceOffline, CancelRunningCommandsForMachine, CancelRunning, others,
                  Statuses, TerminalStatuses
<1>2. \A d \in Command : \/ status'[d] = status[d]
                         \/ status[d] \in LiveStatuses \cup Closed /\ status'[d] = "cancelled"
  BY DEF ForceOffline, CancelRunningCommandsForMachine, CancelRunning
<1>3. UNCHANGED others /\ \A d \in cancelling' : d \in cancelling \/ status[d] \in LiveStatuses
  BY DEF ForceOffline, CancelRunningCommandsForMachine
<1> QED BY <1>1, <1>2, <1>3, RowStep

\* The sweep.  No listed command has a machine, so none is reaped.
LEMMA SweepStep ==
    ASSUME RowsInv, SweepStaleCommands \/ \E c \in Command : ReapRunningCommand(c) PROVE RowsInv'
<1>1. status' = status
  BY DEF RowsInv, TypeOK, SweepStaleCommands, ReapRunningCommand, machineLost, ListedMachine
<1>2. TypeOK'
  BY <1>1 DEF RowsInv, TypeOK, SweepStaleCommands, ReapRunningCommand, others
<1>3. UNCHANGED others /\ \A d \in cancelling' : d \in cancelling \/ status[d] \in LiveStatuses
  BY DEF SweepStaleCommands, ReapRunningCommand
<1> QED BY <1>1, <1>2, <1>3, RowStep

\* The restart.
LEMMA RestartStep == ASSUME RowsInv, RestartManager PROVE RowsInv'
<1> USE DEF RowsInv
<1>1. TypeOK'
  <2>1. Free \in Uploads
    BY DEF Free, Uploads, Statuses
  <2>2. restarts' \in 0 .. MaxRestarts
    BY RowsAssumption DEF TypeOK, RestartManager
  <2>3. mint' \in [Command -> MintSteps]
    BY DEF TypeOK, RestartManager, MintSteps
  <2> QED BY <2>1, <2>2, <2>3 DEF TypeOK, RestartManager, Idle
<1>2. MintedRows'
  BY DEF MintedRows, TypeOK, RestartManager
<1>3. HeldResults'
  BY OutcomeType DEF HeldResults, TypeOK, RestartManager, Idle
<1>4. UploadsSound' /\ MarkPending' /\ TurnMarked'
  BY DEF UploadsSound, MarkPending, TurnMarked, RestartManager, Free
<1> QED BY <1>1, <1>2, <1>3, <1>4

-----------------------------------------------------------------------------
(* The theorems.                                                           *)

\* Every step of the specification preserves the invariant.
LEMMA RowsStep == RowsInv /\ [Next]_vars => RowsInv'
<1> SUFFICES ASSUME RowsInv, [Next]_vars PROVE RowsInv'
  OBVIOUS
<1>1. ASSUME NEW c \in Command, Mint(c) PROVE RowsInv'
  BY <1>1, BeginSessionStep, CreateCommandStep, MarkRunningStep, TrackCommandStep, ReplySessionStep DEF Mint
<1>2. CASE Machine
  BY <1>2, AbandonStep, FinishTurnStep, MachineChangesStep DEF Machine
<1>3. ASSUME NEW h \in Handlers, Upload(h) PROVE RowsInv'
  BY <1>3, LoadStatusStep, ApplyResultStep, FailResultStep, CommitUnknownStep, AnswerUploadStep DEF Upload
<1>4. CASE Admin
  BY <1>4, CancelStep, ForceStep, SweepStep, RestartStep DEF Admin
<1>5. CASE UNCHANGED vars
  BY <1>5 DEF vars, RowsInv, TypeOK, MintedRows, HeldResults, UploadsSound, UploadSound, MarkPending, TurnMarked
<1> QED BY <1>1, <1>2, <1>3, <1>4, <1>5 DEF Next

\* RowsInv, the inductive invariant of the command rows under their handlers,
\* holds in every reachable state.
THEOREM RowsInvariant == Spec => []RowsInv
<1>1. Init => RowsInv
  BY InitRows
<1>2. RowsInv /\ [Next]_vars => RowsInv'
  BY RowsStep
<1> QED BY <1>1, <1>2, PTL DEF Spec

\* AckedClosed: a command whose result the machine was told is acknowledged
\* stays closed, whatever handlers are still under way.
THEOREM AckedStaysClosed == Spec => []AckedClosed
<1>1. RowsInv => AckedClosed
  BY DEF RowsInv, HeldResults, AckedClosed
<1> QED BY <1>1, RowsInvariant, PTL

\* ClosedUntracked: the tracker forgets every command a result has closed once
\* no upload of it is in progress, with any number of concurrent uploads, unless
\* the commit that closed it was reported as an error.
THEOREM ClosedForgotten == Spec => []ClosedUntracked
<1>1. RowsInv => ClosedUntracked
  BY DEF RowsInv, TypeOK, MarkPending, ClosedUntracked, NoneYet, Command
<1> QED BY <1>1, RowsInvariant, PTL

\* TrackedTurn: no late terminal wipes the mark of the running turn.
THEOREM TurnStaysTracked == Spec => []TrackedTurn
<1>1. RowsInv => TrackedTurn
  BY DEF RowsInv, TypeOK, HeldResults, TurnMarked, TrackedTurn
<1> QED BY <1>1, RowsInvariant, PTL

\* AnchorsStand: besides a cancel that checked too early and the second
\* statement of BeginSession, no step changes a closed command's status.
THEOREM ClosedRowsStand == Spec => AnchorsStand
<1> DEFINE Stands(c) == status[c] \in Closed /\ status'[c] # status[c] =>
                            \/ c \in cancelling /\ status'[c] = "cancelled"
                            \/ mint[c] = "created" /\ status'[c] = "running"
<1>1. RowsInv /\ [Next]_vars => [\A c \in Command : Stands(c)]_vars
  <2> SUFFICES ASSUME RowsInv, Next, NEW c \in Command, status[c] \in Closed, status'[c] # status[c]
               PROVE  \/ c \in cancelling /\ status'[c] = "cancelled"
                      \/ mint[c] = "created" /\ status'[c] = "running"
    OBVIOUS
  <2> USE DEF RowsInv
  <2>1. CASE \E d \in Command : Mint(d)
    BY <2>1 DEF Mint, BeginSession, CreateCommand, MarkRunning, TrackCommand, ReplySession,
                MintedRows, TypeOK, Closed
  <2>2. CASE Machine
    BY <2>2 DEF Machine, AbandonSession, AbandonUpload, FinishTurn, MachineChanges, rows
  <2>3. ASSUME NEW h \in Handlers, Upload(h) PROVE FALSE
    <3>1. CASE ApplyResult(h) \/ CommitUnknown(h)
      <4>1. UploadSound(upload[h]) /\ upload[h].rec \in Outcomes
        BY <3>1 DEF ApplyResult, CommitUnknown, UploadsSound, UploadSound
      <4>2. status' = [status EXCEPT ![upload[h].rec.cmd] =
                         TerminalUpdate(upload[h].st, status[upload[h].rec.cmd], Outcome(upload[h].rec))]
        BY <3>1 DEF ApplyResult, CommitUnknown
      <4>3. c = upload[h].rec.cmd
        BY <4>2 DEF TypeOK
      <4> QED BY <4>1, <4>2, <4>3, OutcomeType, UpdateCloses DEF TypeOK
    <3> QED BY <2>3, <3>1 DEF Upload, LoadStatus, FailResult, AnswerUpload
  <2>4. CASE Admin
    BY <2>4 DEF Admin, CheckCancel, MarkCancelled, ForceOffline, CancelRunningCommandsForMachine,
                CancelRunning, SweepStaleCommands, ReapRunningCommand, RestartManager,
                machineLost, ListedMachine, TypeOK, Closed, LiveStatuses
  <2> QED BY <2>1, <2>2, <2>3, <2>4 DEF Next
<1> QED BY <1>1, RowsInvariant, PTL DEF Spec, AnchorsStand
=============================================================================
