------------------------- MODULE MCGmailConnection -------------------------
(***************************************************************************)
(* Instances of GmailConnection for TLC.  No symmetry is declared:         *)
(* liveness is checked in the same run as safety.                          *)
(***************************************************************************)
EXTENDS GmailConnection, TLC
=============================================================================
