--------------------------- MODULE TransactionV0 ---------------------------
(* A versioned transaction: the message MessageV0::compile returns, and the   *)
(* slots TransactionV0 keeps for its signatures.                              *)
EXTENDS MessageV0, Signing, Wire

(* Two bytes of a length hold every number of signatures: 256 <= 128 * 128.   *)
ASSUME SignatureCountAssumption == ByteRange <= HighBit * HighBit

txVars == <<vars, signVars>>

TxInit == Init /\ SignInit

TxNext ==
    \/ Next /\ UNCHANGED signVars
    \/ /\ pc = "returned"
       /\ \/ Construct(msg.header.numRequiredSignatures)
          \/ \E list \in SignerLists : BeginSign(list) \/ SignThrows(list)
          \/ SignNext(msg.accountKeys)
       /\ UNCHANGED vars

TxSpec == TxInit /\ [][TxNext]_txVars

RequiredSigners == {pk \in Keys : AskedSigner(instructions, feePayer, pk)}

(* See Signing.OwnSlots, for the static keys of the message.                  *)
SlotsOwned == constructed => OwnSlots(msg.accountKeys)

(* "Match each signer to their position in the account keys list": every      *)
(* required signer that was passed has signed; and once all of them were, no  *)
(* slot is left zeroed, so the transaction can be sent                        *)
(* (transaction.cpp:88-110, with the order made by message_v0.cpp:130-142).   *)
SignersMatched ==
    constructed /\ SignersFit =>
        /\ SignedBy(RequiredSigners)
        /\ BetweenCalls /\ RequiredSigners \subseteq tried =>
               \A i \in DOMAIN slots : slots[i] # Unsigned

(* No later call, and no call that throws, takes a signature back             *)
(* (transaction.cpp:93-110): partial signatures can be collected one call at  *)
(* a time.                                                                    *)
SignaturesStay ==
    [][\A i \in DOMAIN slots : slots[i] # Unsigned => slots'[i] = slots[i]]_txVars

(* The bytes sent, in whatever state of signing, are read as the same         *)
(* signatures, version and message, to the last byte: the serializers of the  *)
(* transaction and of the message agree with each other and with the reader   *)
(* on every length, however many bytes it takes, and on the order of the      *)
(* sections (transaction.cpp:112-135, message_v0.cpp:212-258).                *)
ReadsBack ==
    constructed /\ blockhashOk =>
        ReadTransaction(SerializeTransactionV0(slots, msg)) = Meant(slots, TRUE, msg)
=============================================================================
