------------------------------ MODULE MCOffline ------------------------------
(***************************************************************************)
(* The two programs around the filter, each on its own: one plays a        *)
(* recording, the other evaluates what was estimated.  They meet in files  *)
(* only.                                                                   *)
(***************************************************************************)
EXTENDS DatasetRunner, Evaluation

VARIABLE program

run_dataset   == program = "run_dataset"
error_dataset == program = "error_dataset"

\* The program that is not run has nothing to read.
OfflineInit ==
  /\ Init /\ EvaluationInit
  /\ \/ run_dataset /\ truth = <<>>
     \/ error_dataset /\ \A n \in Rigs : num_cams <= n

PlayBack == run_dataset /\ Next /\ UNCHANGED <<program, evaluationVars>>
Evaluate == error_dataset /\ EvaluationNext /\ UNCHANGED <<program, vars>>

OfflineSpec == OfflineInit /\ [][PlayBack \/ Evaluate]_<<program, vars, evaluationVars>>
=============================================================================
