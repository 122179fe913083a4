----------------------- MODULE MCControlRegisterFile -----------------------
(* A register file of two registers for TLC. *)
EXTENDS ControlRegisterFile

MCRegisters == 0..1
=============================================================================
