--------------------------- MODULE MCExecutionJobs ---------------------------
(***************************************************************************)
(* Values of the constants of ExecutionJobs for model checking.            *)
(***************************************************************************)
EXTENDS ExecutionJobs, TLC

Twice == [j \in Jobs |-> 2]
Thrice == [j \in Jobs |-> 3]

WorkerSymmetry == Permutations(Workers)
==============================================================================
