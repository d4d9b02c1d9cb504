-------------------------------- MODULE MCDAQ --------------------------------
(* Instances of DAQ for TLC. *)
EXTENDS DAQ
=============================================================================
