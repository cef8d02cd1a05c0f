---------------------------- MODULE Transaction ----------------------------
(* A legacy transaction: the message Message::compile returns, and the slots  *)
(* Transaction keeps for its signatures.                                      *)
EXTENDS Message, Signing, Wire

txVars == <<vars, signVars>>

TxInit == Init /\ SignInit

TxNext ==
    \/ Next /\ UNCHANGED signVars
    \/ /\ pc = "returned"
       /\ \/ Construct(msg.header.numRequiredSignatures)
          \/ \E list \in SignerLists : BeginSign(list) \/ SignThrows(list)
          \/ SignNext(msg.accountKeys)
       /\ UNCHANGED vars

TxSpec == TxInit /\ [][TxNext]_txVars

RequiredSigners == {pk \in Keys : AskedSigner(instructions, feePayer, pk)}

(* See Signing.OwnSlots, for the keys of the message in order of mention.     *)
SlotsOwned == constructed => OwnSlots(msg.accountKeys)

(* With the mentions in canonical order, every required signer that was       *)
(* passed has signed, and nobody else's keypair fills a slot                  *)
(* (transaction.cpp:35-53).                                                   *)
SignersMatchedWhenCanonical ==
    constructed /\ Canonical /\ Cardinality(Signers(accounts)) < ByteRange =>
        /\ SignedBy(RequiredSigners)
        /\ \A i \in DOMAIN slots : slots[i] \in RequiredSigners \cup {Unsigned}

(* The bytes sent are read as the same signatures and message, and as a       *)
(* legacy one, unless so many accounts sign that their number, which comes    *)
(* first, looks like a version (transaction.cpp:55-76, message.cpp:107-136).  *)
ReadsBack ==
    constructed /\ blockhashOk /\ Len(slots) < HighBit =>
        ReadTransaction(SerializeTransaction(slots, msg))
            = Meant(slots, FALSE, [header |-> msg.header, accountKeys |-> msg.accountKeys,
                                   instructions |-> msg.instructions, addressTableLookups |-> <<>>])
=============================================================================
