----------------------------- MODULE MCCmdFifo -----------------------------
(* An instance of CmdFifo for TLC: the constants get model values.          *)
EXTENDS CmdFifo, TLC
=============================================================================
