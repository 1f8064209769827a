---------------------------- MODULE MCListings ----------------------------
(***************************************************************************)
(* An instance of Listings for TLC: the posting names an address, then     *)
(* another text replaces it, whose deadline has passed, and at last it is  *)
(* removed.                                                                *)
(***************************************************************************)
EXTENDS Listings

MCEditions ==
  <<[text |-> 1, listed |-> TRUE, open |-> TRUE], [text |-> 2, listed |-> TRUE, open |-> FALSE],
    [text |-> 2, listed |-> FALSE, open |-> FALSE]>>
===========================================================================
