-------------------------- MODULE MC_Transaction --------------------------
(* Instances of Transaction for TLC.                                          *)
EXTENDS Transaction

CONSTANTS payer, prog, a, b

OtherAccounts == Permutations({a, b})

SomeData == <<5, 0>>
=============================================================================
