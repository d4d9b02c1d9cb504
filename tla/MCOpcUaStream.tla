---------------------------- MODULE MCOpcUaStream ----------------------------
(* Instances of OpcUaStream for TLC: one node whose value changes, and one     *)
(* whose value stays as it is.                                                 *)
EXTENDS OpcUaStream, TLC
CONSTANTS busy, static

Versioned == (busy :> 3) @@ (static :> 1)
=============================================================================
