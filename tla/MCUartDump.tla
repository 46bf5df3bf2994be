----------------------------- MODULE MCUartDump -----------------------------
(***************************************************************************)
(* A small instance of UartDump for TLC: the configuration's bounds.       *)
(***************************************************************************)
EXTENDS UartDump

=============================================================================
