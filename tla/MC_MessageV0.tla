---------------------------- MODULE MC_MessageV0 ----------------------------
(* Instances of MessageV0 for TLC.                                            *)
EXTENDS MessageV0

CONSTANTS payer, prog, a, b, c, t1, t2

(* Two tables that share b.  The second also lists the fee payer, which is    *)
(* static all the same, and has c where a byte of four values cannot index it.*)
TwoTables == <<[key |-> t1, addresses |-> <<a, b>>],
               [key |-> t2, addresses |-> <<payer, b, payer, payer, c>>]>>

(* One table with two accounts that are in no other list.                     *)
PlainTable == <<[key |-> t1, addresses |-> <<a, b>>]>>
=============================================================================
