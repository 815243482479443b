--------------------------- MODULE MCModbusServer ---------------------------
(* Instance of ModbusServer for TLC. *)
EXTENDS ModbusServer

CONSTANTS c1, c2, a1, a2
=============================================================================
