----------------------------- MODULE UploadBatch -----------------------------
(***************************************************************************)
(* What the manager does with one UploadCommandData batch: convert and     *)
(* refuse, insert the rows, apply the terminal result, and answer with a   *)
(* watermark per command and kind.  The batch is the sequence of records   *)
(* read from the outbox; torn frames are dropped before it is sent.        *)
(*                                                                         *)
(* A command's status is one value: "failed" is FAILED with the provenance *)
(* agent_failed, "unreachable" is FAILED with machine_unreachable.         *)
(***************************************************************************)
EXTENDS CommandData

LiveStatuses     == {"pending", "running"}
TerminalStatuses == {"completed", "failed", "unreachable", "cancelled"}
Statuses         == {"none"} \cup LiveStatuses \cup TerminalStatuses

\* convertUploadEntry refuses the entry; the machine never sends it again.
Refused(r) == r.body = "bad"

Accepted(es) == {r \in Range(es) : r # Poison /\ ~Refused(r)}

\* The transaction fails: updateCommandResultSummaryTx numbers its SQL
\* parameters for both columns, also when only one of them is set.
BatchFails(es) == \E r \in Accepted(es) : r.kind = "result" /\ r.body = "summary"

\* Mutant: the event entries of a batch are acked but not inserted.
ProgressRowsOf(es) == {Key(r) : r \in {x \in Accepted(es) : x.kind = "progress"}}

\* The command_output and command_event rows of the batch; the unique index
\* (command_id, seq_no) makes a retransmitted row a no-op.
RowsOf(es) == {Key(r) : r \in {x \in Accepted(es) : x.kind \in DataKinds}}

\* Mutant: the exit code itself is written as the status.
ExitCodeOutcome(r) == IF r.body = "fail" THEN "exit" ELSE "completed"

Outcome(r) == IF r.body = "fail" THEN "failed" ELSE "completed"

\* Mutant: the UPDATE has no status predicate, the last result wins.
LastResultWins(st, row, outcome) == outcome

\* Mutant: only PENDING commands are closed.
ClosesPending(st, row, outcome) == IF st = "pending" /\ row = "pending" THEN outcome ELSE row

\* Mutant: the transition is chosen from the loaded status alone.
TrustsLoaded(st, row, outcome) == IF st \in LiveStatuses THEN outcome ELSE row

(***************************************************************************)
(* The guarded updates of a terminal result.  st is the status loaded      *)
(* before the transaction, row the status the UPDATE's predicate meets.    *)
(***************************************************************************)
TerminalUpdate(st, row, outcome) ==
    IF \/ st \in LiveStatuses /\ row \in LiveStatuses
       \/ st = "unreachable" /\ row = "unreachable"
      THEN outcome
      ELSE row

ResultsOf(es, c) == {i \in DOMAIN es : es[i].kind = "result" /\ es[i].cmd = c /\ ~Refused(es[i])}

\* Only the first result of a batch can pass a guarded update.
StatusAfter(st, row, es, c) ==
    IF ResultsOf(es, c) = {} THEN row
    ELSE TerminalUpdate(st, row, Outcome(es[Min(ResultsOf(es, c))]))

Watermark(es, c, k) ==
    Max({0} \cup {r.seq : r \in {x \in Accepted(es) : x.cmd = c /\ x.kind = k}})

Reply(es) ==
    [acks |-> [c \in {r.cmd : r \in Accepted(es)} |->
                 [progress |-> Watermark(es, c, "progress"),
                  event    |-> Watermark(es, c, "event"),
                  result   |-> ResultsOf(es, c) # {}]],
     rejected |-> {Key(r) : r \in {x \in Range(es) : x # Poison /\ Refused(x)}}]
=============================================================================
