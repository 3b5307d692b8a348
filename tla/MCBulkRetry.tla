----------------------------- MODULE MCBulkRetry ------------------------------
(* Small instances of BulkRetry. *)
EXTENDS BulkRetry, TLC

Symmetry == Permutations(Agent) \cup Permutations(Worker) \cup Permutations(Child)
===============================================================================
