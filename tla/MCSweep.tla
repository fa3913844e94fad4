------------------------------ MODULE MCSweep ------------------------------
(* The small instances of Engine, with the record of what restarts found. *)
EXTENDS MCEngine, EngineSweep
=============================================================================
