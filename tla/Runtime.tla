------------------------------ MODULE Runtime ------------------------------
(* How a Solana validator reads a compiled message.  It is outside this       *)
(* repository: it is modelled from the layout the serializers write           *)
(* (message.cpp:90-94, message_v0.h) and from the ordering comments of        *)
(* message_v0.cpp:39-42.  A legacy message is one with no table lookups.      *)
(*                                                                            *)
(* m is [header, accountKeys, instructions, addressTableLookups]; table(k) is *)
(* the content of the lookup table whose address is k, in chain order.        *)
EXTENDS SequencesExt

(* The addresses at some (0-based) indexes of a table. *)
AddressesAt(addresses, indexes) == [i \in 1..Len(indexes) |-> addresses[indexes[i] + 1]]

(* The accounts the tables load, first every writable one, then the others. *)
LoadedWritable(m, tables) ==
    LET lookups == m.addressTableLookups
    IN FlattenSeq([e \in 1..Len(lookups) |->
           AddressesAt(tables[lookups[e].accountKey], lookups[e].writableIndexes)])

LoadedReadonly(m, tables) ==
    LET lookups == m.addressTableLookups
    IN FlattenSeq([e \in 1..Len(lookups) |->
           AddressesAt(tables[lookups[e].accountKey], lookups[e].readonlyIndexes)])

(* The list that instruction account indexes (0-based) refer to. *)
RuntimeKeys(m, tables) ==
    m.accountKeys \o LoadedWritable(m, tables) \o LoadedReadonly(m, tables)

GrantsSigner(m, idx) == idx < m.header.numRequiredSignatures

GrantsWritable(m, tables, idx) ==
    LET numStatic == Len(m.accountKeys)
        numSigned == m.header.numRequiredSignatures
    IN IF idx < numSigned
       THEN idx < numSigned - m.header.numReadonlySignedAccounts
       ELSE IF idx < numStatic
       THEN idx < numStatic - m.header.numReadonlyUnsignedAccounts
       ELSE idx < numStatic + Len(LoadedWritable(m, tables))
=============================================================================
