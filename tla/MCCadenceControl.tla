--------------------------- MODULE MCCadenceControl ---------------------------
(* Two definitions that share their first occurrence and part after it. *)
EXTENDS CadenceControl, TLC

MCCadence == {{1, 2}, {1, 3}}
Symmetry == Permutations(Scheduler)
===============================================================================
