------------------------- MODULE MCClientConnection -------------------------
(* ClientConnection for TLC.                                               *)
EXTENDS ClientConnection
=============================================================================
