----------------------------- MODULE MCLineWire -----------------------------
(* Instances of LineWire for TLC.                                          *)
EXTENDS LineWire

CONSTANTS x

\* Numbers are binary here, so that headers have more than one digit, and
\* the contents look like headers.
Contents == {<<x>>, <<Colon, 1>>, <<1, Colon, 0>>, <<1, 1, Colon, x>>}
=============================================================================
