---------------------------- MODULE MCCadenceSweep ----------------------------
(* One definition: a change of cadence is no different from the other edits. *)
EXTENDS CadenceSweep

MCCadence == {{1, 2}}
===============================================================================
