--------------------------- MODULE MCPipelineRun ---------------------------
(***************************************************************************)
(* Instances of PipelineRun for TLC: each instance has a worker.           *)
(***************************************************************************)
EXTENDS PipelineRun, TLC

CONSTANTS i1, i2

WorkerEach == [i \in Instances |-> i]

Interchangeable == Permutations(Instances)
=============================================================================
