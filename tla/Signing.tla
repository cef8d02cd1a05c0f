------------------------------ MODULE Signing ------------------------------
(* The signature slots of a transaction and the sign() calls that fill them.  *)
(* Transaction and TransactionV0 have the same code for this; only the        *)
(* message they hold differs.  A signature is the key that made it: all of    *)
(* them are over the bytes of the one message, which never changes.           *)
EXTENDS Integers, Sequences

CONSTANTS
    Signatories,  \* the public keys of the keypairs a caller may pass
    MaxSigners,   \* bound: keypairs in one call
    MaxCalls,     \* bound: calls of sign()
    Unsigned      \* a zeroed slot

ASSUME SigningAssumption ==
    /\ Unsigned \notin Signatories
    /\ MaxSigners \in Nat
    /\ MaxCalls \in Nat

VARIABLES
    blockhashOk,  \* the blockhash given to compile decodes to 32 bytes
    constructed,  \* the constructor has run
    slots,        \* _signatures
    signers,      \* the keypairs the running call has still to come to
    numCalls,     \* calls of sign() so far
    tried         \* history: the keypairs some call has come to

signVars == <<blockhashOk, constructed, slots, signers, numCalls, tried>>

SignInit ==
    /\ blockhashOk \in BOOLEAN
    /\ constructed = FALSE
    /\ slots = <<>>
    /\ signers = <<>>
    /\ numCalls = 0
    /\ tried = {}

(* One zeroed slot for each required signature. *)
Construct(numRequiredSignatures) ==
    /\ ~constructed
    /\ constructed' = TRUE
    /\ slots' = [i \in 1..numRequiredSignatures |-> Unsigned]
    /\ UNCHANGED <<blockhashOk, signers, numCalls, tried>>

SignerLists == UNION {[1..n -> Signatories] : n \in 0..MaxSigners}

BetweenCalls == constructed /\ signers = <<>>

(* Every call starts from zeroed slots. *)
BeginSign_ClearsSlots(list) ==
    /\ BetweenCalls /\ numCalls < MaxCalls
    /\ list # <<>> /\ blockhashOk
    /\ signers' = list
    /\ slots' = [i \in DOMAIN slots |-> Unsigned]
    /\ numCalls' = numCalls + 1
    /\ UNCHANGED <<blockhashOk, constructed, tried>>

(* A call with at least one signer, on a message that can be serialized. *)
BeginSign(list) ==
    /\ BetweenCalls /\ numCalls < MaxCalls
    /\ list # <<>> /\ blockhashOk
    /\ signers' = list
    /\ numCalls' = numCalls + 1
    /\ UNCHANGED <<blockhashOk, constructed, slots, tried>>

(* No signers, or serialize() throws on the blockhash: nothing was signed yet. *)
SignThrows(list) ==
    /\ BetweenCalls /\ numCalls < MaxCalls
    /\ list = <<>> \/ ~blockhashOk
    /\ numCalls' = numCalls + 1
    /\ UNCHANGED <<blockhashOk, constructed, slots, signers, tried>>

(* The search starts behind the fee payer. *)
SlotsFor_SkipsFeePayer(keys, pk) == {i \in 2..Len(keys) : i <= Len(slots) /\ keys[i] = pk}

(* The search compares with the key after the slot's. *)
SlotsFor_NextKey(keys, pk) == {i \in 1..(Len(keys) - 1) : i <= Len(slots) /\ keys[i + 1] = pk}

(* The slots whose key is the signer's.  Only keys that have a slot are       *)
(* compared.                                                                  *)
SlotsFor(keys, pk) == {i \in 1..Len(keys) : i <= Len(slots) /\ keys[i] = pk}

(* The next keypair of the call signs the first slot that is its own; one     *)
(* that matches no slot is passed over in silence.                            *)
SignNext(keys) ==
    LET pk == Head(signers)
        own == SlotsFor(keys, pk)
    IN /\ signers # <<>>
       /\ slots' = [i \in DOMAIN slots |->
                       IF i \in own /\ \A j \in own : i <= j THEN pk ELSE slots[i]]
       /\ signers' = Tail(signers)
       /\ tried' = tried \cup {pk}
       /\ UNCHANGED <<blockhashOk, constructed, numCalls>>

-----------------------------------------------------------------------------
(* Properties; the transaction modules say which of them each kind of         *)
(* transaction has.                                                           *)

(* A slot is zeroed or holds the signature of the account it belongs to: the  *)
(* key at the same position of the message (transaction.cpp:42-52, 100-109).  *)
OwnSlots(keys) == \A i \in DOMAIN slots : slots[i] \in {Unsigned, keys[i]}

(* Between calls, every keypair passed so far whose account must sign has     *)
(* signed, in whichever calls and order the keypairs came.                    *)
SignedBy(required) ==
    BetweenCalls => \A pk \in tried \cap required : \E i \in DOMAIN slots : slots[i] = pk
=============================================================================
