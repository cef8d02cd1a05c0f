------------------------- MODULE MC_TransactionV0 -------------------------
(* Instances of TransactionV0 for TLC: one lookup table that lists a key the  *)
(* instructions may also want as a signer.                                    *)
EXTENDS TransactionV0

CONSTANTS payer, prog, a, b, t1

OneTable == <<[key |-> t1, addresses |-> <<a, prog>>]>>

SomeData == <<5, 0>>
=============================================================================
