----------------------------- MODULE MessageV0 -----------------------------
(* MessageV0::compile: from a list of instructions, a fee payer and the       *)
(* address lookup tables the caller fetched, to a versioned message.          *)
(*                                                                            *)
(* The function is sequential.  It is modelled one loop iteration at a time,  *)
(* and the instructions it is given are revealed as it reads them, so that    *)
(* every instruction list within the bounds is one behaviour.                 *)
EXTENDS AccountKeys, Runtime

CONSTANTS
    Keys,             \* the public keys there are
    ProgramIds,       \* those that instructions invoke
    FeePayers,        \* those that pay
    LookupTables,     \* the `lookupTables` argument: <<[key, addresses], ...>>
    ByteRange,        \* the number of values of a uint8_t
    MaxInstructions,  \* bound: instructions in a message
    MaxAccounts       \* bound: account mentions over all its instructions

ASSUME KeysAssumption ==
    /\ ProgramIds \subseteq Keys
    /\ FeePayers \subseteq Keys
    /\ Len(LookupTables) \in Nat
    /\ DOMAIN LookupTables = 1..Len(LookupTables)
    /\ \A ti \in DOMAIN LookupTables : LookupTables[ti].addresses \in Seq(Keys)
    /\ \A ti, tj \in DOMAIN LookupTables :
           LookupTables[ti].key = LookupTables[tj].key =>
               LookupTables[ti].addresses = LookupTables[tj].addresses
ASSUME ByteAssumption == ByteRange \in Nat \ {0}

VARIABLES
    feePayer,           \* argument
    instructions,       \* argument, as far as the loop at line 108 has read it
    pc,                 \* which part of the function runs
    pass, cursor,       \* position in the loops of that part
    staticAccounts,     \* list of AccountInfo, in order of first mention
    registeredLookups,  \* list of LookupKey
    tableBuckets,       \* per table, the indexes to load from it
    ordered,            \* staticAccounts in canonical order
    virtualKeys,        \* what instruction indexes refer to
    msg                 \* the result

inputs == <<feePayer, instructions>>
collected == <<staticAccounts, registeredLookups, tableBuckets>>
vars == <<inputs, pc, pass, cursor, collected, ordered, virtualKeys, msg>>

Init ==
    /\ feePayer \in FeePayers
    /\ instructions = <<>>
    /\ pc = "collect" /\ pass = 1 /\ cursor = 1
    /\ staticAccounts = FindOrAdd(<<>>, feePayer, TRUE, TRUE)
    /\ registeredLookups = <<>>
    /\ tableBuckets = [ti \in DOMAIN LookupTables |->
                          [writableIdx |-> <<>>, readonlyIdx |-> <<>>]]
    /\ ordered = <<>>
    /\ virtualKeys = <<>>
    /\ msg = EmptyMessage

-----------------------------------------------------------------------------
(* Collecting accounts.                                                       *)

InTable(ti, pk) == Holds(LookupTables[ti].addresses, pk)

InLookup(pk) == \E ti \in DOMAIN LookupTables : InTable(ti, pk)

(* The first table that holds the key. *)
TableOf(pk) ==
    CHOOSE ti \in DOMAIN LookupTables :
        InTable(ti, pk) /\ \A tj \in 1..(ti - 1) : ~InTable(tj, pk)

(* The key's position in that table. *)
AddressOf(pk) == FirstIndex(LookupTables[TableOf(pk)].addresses, pk)

(* The index is kept as an int. *)
FindInLookup_NotNarrowed(pk) == [tableIdx |-> TableOf(pk), addrIdx |-> AddressOf(pk) - 1]

(* Where the search of the tables stops: the table, and the (0-based) address *)
(* index in it, narrowed to a byte.  The code counts tables from 0, this      *)
(* module from 1.                                                             *)
FindInLookup(pk) ==
    [tableIdx |-> TableOf(pk), addrIdx |-> (AddressOf(pk) - 1) % ByteRange]

IsFor(lk, ref) == lk.tableIdx = ref.tableIdx /\ lk.addrIdx = ref.addrIdx

(* The registrations are not searched. *)
Registered_Never(ref) == FALSE

Registered(ref) == \E i \in DOMAIN registeredLookups : IsFor(registeredLookups[i], ref)

(* The next instruction of the list: its program is always a static account. *)
StartInstruction(p) ==
    /\ pc = "collect"
    /\ Len(instructions) < MaxInstructions
    /\ instructions' = Append(instructions, [programId |-> p, accounts |-> <<>>])
    /\ staticAccounts' = FindOrAdd(staticAccounts, p, FALSE, FALSE)
    /\ UNCHANGED <<feePayer, pc, pass, cursor, registeredLookups, tableBuckets,
                   ordered, virtualKeys, msg>>

(* The next account of the instruction being read. *)
ReadAccount(am) ==
    /\ pc = "collect"
    /\ instructions # <<>>
    /\ AccountCount(instructions) < MaxAccounts
    /\ instructions' = WithAccount(instructions, am)
    /\ UNCHANGED <<feePayer, pc, pass, cursor, ordered, virtualKeys, msg>>

(* A signer is looked up like any other account. *)
GoesStatic_IgnoresSigner(am) == LookupTables = <<>> \/ ~InLookup(am.pubkey)

GoesStatic(am) == am.isSigner \/ LookupTables = <<>> \/ ~InLookup(am.pubkey)

AddStaticAccount(am) ==
    /\ GoesStatic(am)
    /\ ReadAccount(am)
    /\ staticAccounts' = FindOrAdd(staticAccounts, am.pubkey, am.isSigner, am.isWritable)
    /\ UNCHANGED <<registeredLookups, tableBuckets>>

(* A first mention of a table address: it goes to the bucket its own mention  *)
(* asks for.                                                                  *)
RegisterLookup(am) ==
    LET ref == FindInLookup(am.pubkey)
    IN /\ ~GoesStatic(am)
       /\ ReadAccount(am)
       /\ ~Registered(ref)
       /\ registeredLookups' = Append(registeredLookups,
              [tableIdx   |-> ref.tableIdx,
               addrIdx    |-> ref.addrIdx,
               isWritable |-> am.isWritable])
       /\ tableBuckets' =
              IF am.isWritable
              THEN [tableBuckets EXCEPT ![ref.tableIdx].writableIdx = Append(@, ref.addrIdx)]
              ELSE [tableBuckets EXCEPT ![ref.tableIdx].readonlyIdx = Append(@, ref.addrIdx)]
       /\ UNCHANGED staticAccounts

(* A later mention: only the registration learns that it is writable; the     *)
(* buckets keep the index where the first mention put it.                     *)
UpgradeLookup(am) ==
    LET ref == FindInLookup(am.pubkey)
    IN /\ ~GoesStatic(am)
       /\ ReadAccount(am)
       /\ Registered(ref)
       /\ registeredLookups' =
              [i \in DOMAIN registeredLookups |->
                  IF IsFor(registeredLookups[i], ref)
                  THEN [registeredLookups[i] EXCEPT !.isWritable = @ \/ am.isWritable]
                  ELSE registeredLookups[i]]
       /\ UNCHANGED <<staticAccounts, tableBuckets>>

EndInstructions ==
    /\ pc = "collect"
    /\ pc' = "order"
    /\ UNCHANGED <<inputs, pass, cursor, collected, ordered, virtualKeys, msg>>

-----------------------------------------------------------------------------
(* Canonical order: four passes over staticAccounts.                          *)

OrderAccount ==
    /\ pc = "order"
    /\ cursor <= Len(staticAccounts)
    /\ ordered' = IF PassOf(staticAccounts[cursor]) = pass
                  THEN Append(ordered, staticAccounts[cursor])
                  ELSE ordered
    /\ cursor' = cursor + 1
    /\ UNCHANGED <<inputs, pc, pass, collected, virtualKeys, msg>>

NextPass ==
    /\ pc = "order"
    /\ cursor > Len(staticAccounts)
    /\ pass < 4
    /\ pass' = pass + 1
    /\ cursor' = 1
    /\ UNCHANGED <<inputs, pc, collected, ordered, virtualKeys, msg>>

BuildHeader ==
    /\ pc = "order"
    /\ cursor > Len(staticAccounts)
    /\ pass = 4
    /\ msg' = [msg EXCEPT !.header = HeaderOf(ordered, ByteRange), !.accountKeys = KeysOf(ordered)]
    /\ virtualKeys' = KeysOf(ordered)
    /\ pc' = "tables" /\ pass' = 1 /\ cursor' = 1
    /\ UNCHANGED <<inputs, collected, ordered>>

-----------------------------------------------------------------------------
(* The combined key list: the writable bucket of every table, then the        *)
(* readonly bucket of every table.                                            *)

BucketKeys(ti, indexes) ==
    [i \in 1..Len(indexes) |-> LookupTables[ti].addresses[indexes[i] + 1]]

AppendBucket ==
    /\ pc = "tables"
    /\ cursor <= Len(LookupTables)
    /\ virtualKeys' = virtualKeys \o
           BucketKeys(cursor, IF pass = 1 THEN tableBuckets[cursor].writableIdx
                                          ELSE tableBuckets[cursor].readonlyIdx)
    /\ cursor' = cursor + 1
    /\ UNCHANGED <<inputs, pc, pass, collected, ordered, msg>>

EndTables ==
    /\ pc = "tables"
    /\ cursor > Len(LookupTables)
    /\ pass' = 3 - pass
    /\ cursor' = 1
    /\ pc' = IF pass = 1 THEN "tables" ELSE "compile"
    /\ UNCHANGED <<inputs, collected, ordered, virtualKeys, msg>>

-----------------------------------------------------------------------------
(* Index-based instructions and the lookup section.                           *)

Needed(instr) == {instr.programId} \cup {instr.accounts[i].pubkey : i \in DOMAIN instr.accounts}

Resolvable == \A n \in DOMAIN instructions : \A pk \in Needed(instructions[n]) : Holds(virtualKeys, pk)

(* One-based indexes. *)
ResolveIndex_OffByOne(pk) == FirstIndex(virtualKeys, pk) % ByteRange

ResolveIndex(pk) == (FirstIndex(virtualKeys, pk) - 1) % ByteRange

CompileInstruction(instr) ==
    [programIdIndex |-> ResolveIndex(instr.programId),
     accountIndices |-> [i \in 1..Len(instr.accounts) |-> ResolveIndex(instr.accounts[i].pubkey)]]

LookupEntry(ti) ==
    [accountKey      |-> LookupTables[ti].key,
     writableIndexes |-> tableBuckets[ti].writableIdx,
     readonlyIndexes |-> tableBuckets[ti].readonlyIdx]

(* A table nothing is loaded from is left out. *)
IsUsed(ti) == tableBuckets[ti].writableIdx # <<>> \/ tableBuckets[ti].readonlyIdx # <<>>

LookupSection ==
    LET upTo[n \in 0..Len(LookupTables)] ==
            IF n = 0 THEN <<>>
            ELSE IF IsUsed(n) THEN Append(upTo[n - 1], LookupEntry(n)) ELSE upTo[n - 1]
    IN upTo[Len(LookupTables)]

Compile ==
    /\ pc = "compile"
    /\ Resolvable
    /\ msg' = [msg EXCEPT
           !.instructions = [n \in 1..Len(instructions) |-> CompileInstruction(instructions[n])],
           !.addressTableLookups = LookupSection]
    /\ pc' = "returned"
    /\ UNCHANGED <<inputs, pass, cursor, collected, ordered, virtualKeys>>

(* "account not found in virtual key list" *)
ThrowUnresolved ==
    /\ pc = "compile"
    /\ ~Resolvable
    /\ pc' = "thrown"
    /\ UNCHANGED <<inputs, pass, cursor, collected, ordered, virtualKeys, msg>>

Finished ==
    /\ pc \in {"returned", "thrown"}
    /\ UNCHANGED vars

Next ==
    \/ \E p \in ProgramIds : StartInstruction(p)
    \/ \E am \in AccountMetas(Keys) : \/ AddStaticAccount(am)
                                      \/ RegisterLookup(am)
                                      \/ UpgradeLookup(am)
    \/ EndInstructions
    \/ OrderAccount \/ NextPass \/ BuildHeader
    \/ AppendBucket \/ EndTables
    \/ Compile \/ ThrowUnresolved
    \/ Finished

Spec == Init /\ [][Next]_vars
-----------------------------------------------------------------------------
(* Properties.                                                                *)

LookupRefs == [tableIdx : DOMAIN LookupTables, addrIdx : 0..(ByteRange - 1), isWritable : BOOLEAN]

Buckets == [writableIdx : Seq(0..(ByteRange - 1)), readonlyIdx : Seq(0..(ByteRange - 1))]

(* Every variable keeps its shape; the header counts, and every index that    *)
(* the buckets and the registrations hold, fit the uint8_t they are stored in.*)
TypeOK ==
    /\ feePayer \in FeePayers
    /\ instructions \in Seq(Instructions(Keys))
    /\ pc \in {"collect", "order", "tables", "compile", "returned", "thrown"}
    /\ pass \in 1..4
    /\ cursor \in Nat \ {0}
    /\ staticAccounts \in Seq(AccountInfos(Keys))
    /\ registeredLookups \in Seq(LookupRefs)
    /\ tableBuckets \in [DOMAIN LookupTables -> Buckets]
    /\ ordered \in Seq(AccountInfos(Keys))
    /\ virtualKeys \in Seq(Keys)
    /\ msg.header \in Headers(ByteRange)
    /\ msg.accountKeys \in Seq(Keys)

(* The lookup tables as the chain holds them, by address.                     *)
TableContents == [k \in {LookupTables[ti].key : ti \in DOMAIN LookupTables} |->
                     LookupTables[CHOOSE ti \in DOMAIN LookupTables : LookupTables[ti].key = k].addresses]

Loads(m) == RuntimeKeys(m, TableContents)

(* The signers can be counted in a byte.                                      *)
SignersFit == Cardinality(Signers(ordered)) < ByteRange

(* The account that pays is the first one and it may be debited, whatever     *)
(* else the instructions say of it and however many other writable signers    *)
(* they name (message_v0.cpp:64-65 and the ordering passes 130-142).          *)
FeePayerFirst ==
    pc = "returned" /\ SignersFit =>
        /\ msg.accountKeys[1] = feePayer
        /\ GrantsSigner(msg, 0)
        /\ GrantsWritable(msg, TableContents, 0)

(* The first numRequiredSignatures static keys are exactly the accounts some  *)
(* instruction (or the fee) wants signed: Transaction allocates one slot per  *)
(* such key and looks no further (message_v0.cpp:130-156).                    *)
SignersFirst ==
    pc = "returned" /\ SignersFit =>
        /\ \A i \in 1..Len(msg.accountKeys) :
               GrantsSigner(msg, i - 1) <=> AskedSigner(instructions, feePayer, msg.accountKeys[i])
        /\ \A pk \in Keys : AskedSigner(instructions, feePayer, pk) => Holds(msg.accountKeys, pk)

(* Each index of a compiled instruction that has not wrapped leads the        *)
(* validator, which rebuilds the combined list from the lookup section, to    *)
(* the account the instruction names; and programs are never loaded from a    *)
(* table (message_v0.cpp:164-203; message_v0.h:28-30).                        *)
IndexesResolve ==
    pc = "returned" =>
        LET Leads(idx, pk) ==
                FirstIndex(virtualKeys, pk) <= ByteRange =>
                    idx < Len(Loads(msg)) /\ Loads(msg)[idx + 1] = pk
        IN \A n \in 1..Len(instructions) :
               LET asked == instructions[n]
                   ci == msg.instructions[n]
               IN /\ Leads(ci.programIdIndex, asked.programId)
                  /\ Holds(msg.accountKeys, asked.programId)
                  /\ \A i \in 1..Len(asked.accounts) :
                         Leads(ci.accountIndices[i], asked.accounts[i].pubkey)

(* No account of the instructions is so far down in its table that a byte     *)
(* cannot hold its index.                                                     *)
AddressesFit ==
    \A am \in Mentions(instructions) :
        InLookup(am.pubkey) => AddressOf(am.pubkey) <= ByteRange

(* The message lets an account be written only if an instruction asked for    *)
(* it, whichever list the account is in (message_v0.cpp:93-105, 130-156).     *)
NoWriteEscalation ==
    pc = "returned" /\ HeaderFits(ordered, ByteRange) /\ AddressesFit =>
        \A i \in 1..Len(Loads(msg)) :
            GrantsWritable(msg, TableContents, i - 1) =>
                AskedWritable(instructions, feePayer, Loads(msg)[i])

(* No table address is loaded twice, by one bucket, by both buckets of a      *)
(* table, or through two tables that share it; and no key is static twice.    *)
(* A validator rejects a message that lists an account twice                  *)
(* (message_v0.cpp:53-62, 89-105).                                            *)
ListedOnce ==
    pc = "returned" /\ AddressesFit =>
        LET numStatic == Len(msg.accountKeys)
            Distinct(lo, hi) == \A i, j \in lo..hi : Loads(msg)[i] = Loads(msg)[j] => i = j
        IN /\ Distinct(1, numStatic)
           /\ Distinct(numStatic + 1, Len(Loads(msg)))

(* Unless an address index wraps, every key an instruction names is in the    *)
(* combined list by the time instructions are compiled: compile never ends in *)
(* "account not found in virtual key list" (message_v0.cpp:177-182).          *)
NeverThrows == AddressesFit => pc # "thrown"

WriteGranted(n, i) ==
    LET am == instructions[n].accounts[i]
    IN am.isWritable => GrantsWritable(msg, TableContents, msg.instructions[n].accountIndices[i])

(* An account some instruction must write, if it is in no lookup table, is    *)
(* writable at the index the instruction uses for it, whatever its other      *)
(* mentions say (message_v0.cpp:53-62, 128-156).                              *)
StaticWritesGranted ==
    pc = "returned" /\ SignersFit /\ Len(virtualKeys) <= ByteRange =>
        \A n \in 1..Len(instructions) : \A i \in 1..Len(instructions[n].accounts) :
            ~InLookup(instructions[n].accounts[i].pubkey) => WriteGranted(n, i)

(* The same for the accounts in lookup tables too: "upgrade writability if    *)
(* needed" (message_v0.cpp:96).                                               *)
WritesGranted ==
    pc = "returned" =>
        \A n \in 1..Len(instructions) : \A i \in 1..Len(instructions[n].accounts) :
            WriteGranted(n, i)

(* "Accounts resolvable via ALTs appear only in the lookup section" and       *)
(* signers, fee payer and programs only among the static keys                 *)
(* (message_v0.h:28-30): no key is in both.                                   *)
StaticOrLookedUp ==
    pc = "returned" =>
        \A i \in 1..Len(msg.accountKeys) :
            \A j \in (Len(msg.accountKeys) + 1)..Len(Loads(msg)) :
                Loads(msg)[i] # Loads(msg)[j]
=============================================================================
