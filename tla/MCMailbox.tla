----------------------------- MODULE MCMailbox -----------------------------
(***************************************************************************)
(* An instance of Mailbox for TLC: two messages of one account, and a last *)
(* one of another account that cannot be decoded.                          *)
(***************************************************************************)
EXTENDS Mailbox, TLC

CONSTANTS work, home

MCKind == <<"stray", "reply", "unreadable">>
MCHome == <<work, work, home>>
Symmetric == Permutations(Pollers)
=============================================================================
