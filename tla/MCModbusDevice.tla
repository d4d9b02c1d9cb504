--------------------------- MODULE MCModbusDevice ---------------------------
(* Instances of ModbusDevice for TLC. *)
EXTENDS ModbusDevice
=============================================================================
