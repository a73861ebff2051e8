-------------------------- MODULE ModbusExecutorMC --------------------------
(***************************************************************************)
(* A small instance of ModbusExecutor: every kind of line, alone or after a *)
(* line of another kind.                                                    *)
(***************************************************************************)
EXTENDS ModbusExecutor

MCVectors == {<<"read">>, <<"write", "readwrite">>, <<"other">>, <<"none", "read", "invalid">>}
=============================================================================
