-------------------------- MODULE MCCommandDelivery ---------------------------
(* Small instances of CommandDelivery: a schedule fire, a probe whose agent  *)
(* is fixed, and a destructive command, one of which is issued per behaviour. *)
EXTENDS CommandDelivery, TLC

CONSTANTS fire, probe, purge

MCCommand == {fire, probe, purge}
MCFire == {fire}
MCRedeliverable == {fire, probe}

Symmetry == Permutations(Agent) \cup Permutations(Worker) \cup Permutations(Issuer)
===============================================================================
