---------------------------- MODULE MCConnection ----------------------------
(* Connection on the small instances of the MCConnection*.cfg files: the   *)
(* constants are sets of strings and model values given there.             *)
EXTENDS Connection
=============================================================================
