-------------------------------- MODULE Wire --------------------------------
(* The serializers of messages and transactions, and a reader of what they    *)
(* write.  A buffer is a sequence of bytes; a public key, a signature and the *)
(* blockhash, whose width never varies, stand in it as one value each.        *)
EXTENDS Integers, SequencesExt

CONSTANTS
    HighBit,    \* 0x80: a length goes on, or a message has a version
    Blockhash,  \* the 32 bytes the recent blockhash decodes to
    Data        \* the data of each instruction

ASSUME WireAssumption == HighBit \in Nat /\ HighBit >= 2 /\ Data \in Seq(Nat)

(* Seven bits at a time, the lowest first. *)
WriteCompactU16(v) ==
    LET from[n \in Nat] == IF n < HighBit THEN <<n>>
                           ELSE <<(n % HighBit) + HighBit>> \o from[n \div HighBit]
    IN from[v]

WithLength(bytes) == WriteCompactU16(Len(bytes)) \o bytes

(* The transactions' own encoder of the same length, for two bytes at most. *)
SignatureCount(n) ==
    IF n < HighBit THEN <<n>> ELSE <<(n % HighBit) + HighBit, n \div HighBit>>

(* The data comes before the accounts. *)
WriteInstruction_DataFirst(ci) ==
    <<ci.programIdIndex>> \o WithLength(Data) \o WithLength(ci.accountIndices)

WriteInstruction(ci) == <<ci.programIdIndex>> \o WithLength(ci.accountIndices) \o WithLength(Data)

(* The lists of a lookup are written in the other order. *)
WriteLookup_ReadonlyFirst(alt) ==
    <<alt.accountKey>> \o WithLength(alt.readonlyIndexes) \o WithLength(alt.writableIndexes)

WriteLookup(alt) ==
    <<alt.accountKey>> \o WithLength(alt.writableIndexes) \o WithLength(alt.readonlyIndexes)

WriteMany(items, Write(_)) ==
    WriteCompactU16(Len(items)) \o FlattenSeq([i \in 1..Len(items) |-> Write(items[i])])

(* Message::serialize, and the first part of MessageV0::serialize. *)
SerializeMessage(m) ==
    <<m.header.numRequiredSignatures, m.header.numReadonlySignedAccounts,
      m.header.numReadonlyUnsignedAccounts>>
    \o WithLength(m.accountKeys) \o <<Blockhash>>
    \o WriteMany(m.instructions, WriteInstruction)

SerializeMessageV0(m) == SerializeMessage(m) \o WriteMany(m.addressTableLookups, WriteLookup)

SerializeTransaction(signatures, m) ==
    SignatureCount(Len(signatures)) \o signatures \o SerializeMessage(m)

SerializeTransactionV0(signatures, m) ==
    SignatureCount(Len(signatures)) \o signatures \o <<HighBit>> \o SerializeMessageV0(m)

-----------------------------------------------------------------------------
(* How a validator reads a transaction (external).  A reader returns what it  *)
(* has read, and the rest.                                                    *)

Read(value, rest) == [value |-> value, rest |-> rest]

ReadLength(bytes) ==
    LET last == CHOOSE i \in 1..Len(bytes) :
                    bytes[i] < HighBit /\ \A j \in 1..(i - 1) : bytes[j] >= HighBit
        from[i \in 1..last] == IF i = last THEN bytes[i]
                               ELSE (bytes[i] - HighBit) + HighBit * from[i + 1]
    IN Read(from[1], SubSeq(bytes, last + 1, Len(bytes)))

(* n items in a row. *)
ReadMany(n, bytes, ReadItem(_)) ==
    LET upto[i \in 0..n] ==
            IF i = 0 THEN Read(<<>>, bytes)
            ELSE LET before == upto[i - 1]
                     item == ReadItem(before.rest)
                 IN Read(Append(before.value, item.value), item.rest)
    IN upto[n]

ReadOne(bytes) == Read(Head(bytes), Tail(bytes))

ReadCounted(bytes, ReadItem(_)) ==
    LET length == ReadLength(bytes) IN ReadMany(length.value, length.rest, ReadItem)

ReadInstruction(bytes) ==
    LET programId == ReadOne(bytes)
        indices == ReadCounted(programId.rest, ReadOne)
        data == ReadCounted(indices.rest, ReadOne)
    IN Read([programIdIndex |-> programId.value, accountIndices |-> indices.value, data |-> data.value],
            data.rest)

ReadLookup(bytes) ==
    LET key == ReadOne(bytes)
        writable == ReadCounted(key.rest, ReadOne)
        readonly == ReadCounted(writable.rest, ReadOne)
    IN Read([accountKey |-> key.value, writableIndexes |-> writable.value,
             readonlyIndexes |-> readonly.value], readonly.rest)

(* The first byte after the signatures tells the two kinds of message apart.  *)
ReadTransaction(bytes) ==
    LET signatures == ReadCounted(bytes, ReadOne)
        versioned == Head(signatures.rest) >= HighBit
        header == ReadMany(3, IF versioned THEN Tail(signatures.rest) ELSE signatures.rest, ReadOne)
        keys == ReadCounted(header.rest, ReadOne)
        blockhash == ReadOne(keys.rest)
        instructions == ReadCounted(blockhash.rest, ReadInstruction)
        lookups == IF versioned THEN ReadCounted(instructions.rest, ReadLookup)
                   ELSE Read(<<>>, instructions.rest)
    IN [signatures |-> signatures.value, versioned |-> versioned, header |-> header.value,
        accountKeys |-> keys.value, blockhash |-> blockhash.value,
        instructions |-> instructions.value, addressTableLookups |-> lookups.value,
        rest |-> lookups.rest]

(* What a reader should find of a transaction. *)
Meant(signatures, versioned, m) ==
    [signatures |-> signatures, versioned |-> versioned,
     header |-> <<m.header.numRequiredSignatures, m.header.numReadonlySignedAccounts,
                  m.header.numReadonlyUnsignedAccounts>>,
     accountKeys |-> m.accountKeys, blockhash |-> Blockhash,
     instructions |-> [i \in 1..Len(m.instructions) |->
         [programIdIndex |-> m.instructions[i].programIdIndex,
          accountIndices |-> m.instructions[i].accountIndices, data |-> Data]],
     addressTableLookups |-> m.addressTableLookups, rest |-> <<>>]
=============================================================================
