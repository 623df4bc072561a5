------------------------------- MODULE MCChain -------------------------------
(* An instance of Chain for TLC. *)
EXTENDS Chain, TLC

CONSTANTS n1, n2

TheNodes == <<n1, n2>>
TheAccounts == <<n1, n2, Owner>>
=============================================================================
