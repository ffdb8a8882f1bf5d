----------------------------- MODULE MCPipeline -----------------------------
(***************************************************************************)
(* Fault budgets for CommandPipeline: each set lists the combinations of   *)
(* faults that one behaviour may meet.                                     *)
(***************************************************************************)
EXTENDS PipelineReport

Once(fs) == [f \in FaultKinds |-> IF f \in fs THEN 1 ELSE 0]

DeliveryFaults == {Once({"net", "crash", "begin", "evict"}), Once({"write", "torn"}),
                   Once({"write", "crash"}), Once({"torn", "crash"})}
LiveFaults     == {Once({"net", "crash"})}
NoFault        == {Once({})}
=============================================================================
