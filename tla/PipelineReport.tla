---------------------------- MODULE PipelineReport ----------------------------
(***************************************************************************)
(* The refinement mapping from CommandPipeline to DurableReport: a record  *)
(* waits while it is in the log or in the buffer, torn frames apart.       *)
(***************************************************************************)
EXTENDS CommandPipeline

Waiting == (Range(log.recs) \cup Range(buffered)) \ {Poison}
Settled == {r \in sent : Done(r)}

Report == INSTANCE DurableReport
            WITH accepted <- sent, waiting <- Waiting, settled <- Settled, dropped <- lost \ {Poison}

(***************************************************************************)
(* The outbox, the uploader and the manager together keep the promise of   *)
(* DurableReport, as long as the log directory is not set aside: every     *)
(* step hands over a record, settles records for good, or lets go of       *)
(* records that are settled or openly dropped.                             *)
(***************************************************************************)
ReportKept == Report!Spec
=============================================================================
