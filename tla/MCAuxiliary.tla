---------------------------- MODULE MCAuxiliary ----------------------------
(***************************************************************************)
(* Instances of Auxiliary for TLC.  No symmetry is declared: liveness is   *)
(* checked in the same runs.                                               *)
(***************************************************************************)
EXTENDS Auxiliary, TLC
=============================================================================
