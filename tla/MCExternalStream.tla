--------------------------- MODULE MCExternalStream ---------------------------
(* Small instances of ExternalStream. *)
EXTENDS ExternalStream
===============================================================================
