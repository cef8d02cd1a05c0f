------------------------- MODULE AddressLookupTable -------------------------
(* AddressLookupTableAccount::parse: the addresses in the data of a lookup    *)
(* table account, in the layout the code's comments give.                     *)
EXTENDS Integers, Sequences

CONSTANTS
    TagLength,   \* 4: bytes of the type tag
    HeaderBase,  \* 22: bytes up to and with the authority flag, the last one
    KeyLength    \* 32: bytes of a public key

ASSUME LayoutAssumption ==
    /\ KeyLength \in Nat \ {0}
    /\ TagLength \in Nat \ {0} /\ HeaderBase \in Nat /\ HeaderBase > TagLength

(* The tag is 1, in little-endian. *)
IsTable(data) == data[1] = 1 /\ \A i \in 2..TagLength : data[i] = 0

(* Where the addresses start, counted from 0. *)
AddressStart(data) == HeaderBase + (IF data[HeaderBase] = 1 THEN KeyLength ELSE 0)

Rejected == [ok |-> FALSE, addresses |-> <<>>]

ParseTable(data) ==
    LET start == AddressStart(data)
        remaining == Len(data) - start
    IN IF Len(data) < HeaderBase \/ ~IsTable(data) THEN Rejected
       ELSE IF remaining < 0 \/ remaining % KeyLength # 0 THEN Rejected
       ELSE [ok |-> TRUE,
             addresses |-> [i \in 1..(remaining \div KeyLength) |->
                 SubSeq(data, start + (i - 1) * KeyLength + 1, start + i * KeyLength)]]
=============================================================================
