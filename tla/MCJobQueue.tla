----------------------------- MODULE MCJobQueue -----------------------------
(***************************************************************************)
(* The instance of JobQueue that TLC checks.  Workers are interchangeable, *)
(* but no symmetry is declared: liveness is checked in the same run.       *)
(***************************************************************************)
EXTENDS JobQueue, TLC
=============================================================================
