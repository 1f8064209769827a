---------------------------- MODULE MCAuthority ----------------------------
(***************************************************************************)
(* An instance of Authority for TLC: one fact with two values, one answer, *)
(* two accounts, and one build besides that of the job; model values of    *)
(* the configuration are all it needs.                                     *)
(***************************************************************************)
EXTENDS Authority
============================================================================
