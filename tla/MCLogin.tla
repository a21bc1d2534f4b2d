------------------------------ MODULE MCLogin -------------------------------
(* Attempts to log in on small constants for TLC.                          *)
EXTENDS Login, TLC
=============================================================================
