---------------------------- MODULE MCDbSession ----------------------------
(* An instance of DbSession for TLC: the constants get model values.        *)
EXTENDS DbSession, TLC
=============================================================================
