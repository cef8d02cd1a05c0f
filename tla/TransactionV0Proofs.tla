------------------------ MODULE TransactionV0Proofs ------------------------
(* Proofs about the versioned message and transaction, for every set of keys, *)
(* every list of instructions and of lookup tables, every byte width and      *)
(* every list of calls of sign().                                             *)
EXTENDS TransactionV0, TransactionLemmas

-----------------------------------------------------------------------------
(* The inductive invariant.                                                   *)

MsgShape ==
    msg = [header              |-> msg.header,
           accountKeys         |-> msg.accountKeys,
           instructions        |-> msg.instructions,
           addressTableLookups |-> msg.addressTableLookups]

(* The indexes in the buckets are those of table entries. *)
BucketsInTables ==
    \A ti \in DOMAIN LookupTables :
        LET size == Len(LookupTables[ti].addresses)
            w == tableBuckets[ti].writableIdx
            r == tableBuckets[ti].readonlyIdx
        IN /\ \A i \in 1..Len(w) : w[i] < size
           /\ \A i \in 1..Len(r) : r[i] < size

(* Where the loops are. *)
Position ==
    /\ pc = "collect" => pass = 1 /\ cursor = 1 /\ ordered = <<>>
    /\ pc = "order" => cursor <= Len(staticAccounts) + 1
    /\ pc = "tables" => pass \in 1..2 /\ cursor <= Len(LookupTables) + 1

Shape == TypeOK /\ MsgShape /\ BucketsInTables /\ Position

(* The static list has the fee payer at its head, lists no key twice, and     *)
(* marks as signers exactly the accounts that must sign.                      *)
Collected ==
    /\ Len(staticAccounts) > 0
    /\ staticAccounts[1].key = feePayer
    /\ staticAccounts[1].isSigner /\ staticAccounts[1].isWritable
    /\ DistinctKeys(staticAccounts)
    /\ \A i \in 1..Len(staticAccounts) :
           staticAccounts[i].isSigner <=>
               AskedSigner(instructions, feePayer, staticAccounts[i].key)
    /\ \A pk \in Keys : AskedSigner(instructions, feePayer, pk) =>
           \E i \in 1..Len(staticAccounts) : staticAccounts[i].key = pk

(* The ordering passes have come to entry j of the static list. *)
Taken(j) ==
    \/ pc \notin {"collect", "order"}
    \/ PassOf(staticAccounts[j]) < pass
    \/ PassOf(staticAccounts[j]) = pass /\ j < cursor

Sorted ==
    \A i, j \in 1..Len(ordered) : i < j => PassOf(ordered[i]) <= PassOf(ordered[j])

(* The ordered list holds the entries taken so far and no others, sorted, and *)
(* the fee payer leads it.                                                    *)
InOrder ==
    /\ \A i \in 1..Len(ordered) :
           \E j \in 1..Len(staticAccounts) : Taken(j) /\ ordered[i] = staticAccounts[j]
    /\ \A j \in 1..Len(staticAccounts) :
           Taken(j) => \E i \in 1..Len(ordered) : ordered[i] = staticAccounts[j]
    /\ Sorted
    /\ Len(ordered) > 0 => ordered[1] = staticAccounts[1]

(* Once the header is built, it and the key list describe the ordered list.   *)
HeaderBuilt ==
    pc \in {"tables", "compile", "returned", "thrown"} =>
        msg.header = HeaderOf(ordered, ByteRange) /\ msg.accountKeys = KeysOf(ordered)

-----------------------------------------------------------------------------
(* Facts about operators.                                                     *)

LEMMA FindInLookupType ==
    ASSUME NEW pk \in Keys, InLookup(pk)
    PROVE  LET ref == FindInLookup(pk)
           IN /\ ref.tableIdx \in DOMAIN LookupTables
              /\ ref.addrIdx \in 0..(ByteRange - 1)
              /\ ref.addrIdx < Len(LookupTables[ref.tableIdx].addresses)
              /\ AddressOf(pk) <= ByteRange =>
                     LookupTables[ref.tableIdx].addresses[ref.addrIdx + 1] = pk
  <1> DEFINE Hits == {t \in DOMAIN LookupTables : InTable(t, pk)}
             ti == TableOf(pk)
             addresses == LookupTables[ti].addresses
             ai == FirstIndex(addresses, pk)
  <1>1. Hits \in SUBSET Nat /\ Hits # {}
    BY KeysAssumption DEF InLookup
  <1>2. PICK t \in Hits : \A tj \in Hits : t <= tj
    BY <1>1, LeastNumber
  <1>3. \A tj \in 1..(t - 1) : ~InTable(tj, pk)
    BY <1>2, KeysAssumption
  <1>4. \E u \in DOMAIN LookupTables : InTable(u, pk) /\ \A tj \in 1..(u - 1) : ~InTable(tj, pk)
    BY <1>2, <1>3
  <1>5. ti \in DOMAIN LookupTables /\ InTable(ti, pk)
    BY <1>4 DEF TableOf
  <1> HIDE DEF ti
  <1>6. addresses \in Seq(Keys) /\ Holds(addresses, pk)
    BY <1>5, KeysAssumption DEF InTable
  <1>7. Len(addresses) \in Nat
    BY <1>6
  <1>8. ai \in 1..Len(addresses) /\ addresses[ai] = pk
    BY <1>6, <1>7, FirstIndexIsFirst
  <1>9. FindInLookup(pk) = [tableIdx |-> ti, addrIdx |-> (ai - 1) % ByteRange]
    BY DEF FindInLookup, AddressOf, ti
  <1> HIDE DEF ai, addresses
  <1>10. /\ ai - 1 \in Nat
         /\ (ai - 1) % ByteRange \in 0..(ByteRange - 1)
         /\ (ai - 1) % ByteRange <= ai - 1
    <2>1. ai - 1 \in Nat
      BY <1>7, <1>8
    <2> QED
      BY <2>1, ByteOf, ByteAssumption
  <1>11. ai <= ByteRange => (ai - 1) % ByteRange = ai - 1
    BY <1>7, <1>8, <1>10, ByteAssumption
  <1>12. AddressOf(pk) = ai
    BY DEF AddressOf, ai, addresses, ti
  <1> QED
    BY <1>5, <1>7, <1>8, <1>9, <1>10, <1>11, <1>12 DEF addresses

LEMMA BucketKeysType ==
    ASSUME NEW ti \in DOMAIN LookupTables, NEW indexes \in Seq(0..(ByteRange - 1)),
           \A i \in 1..Len(indexes) : indexes[i] < Len(LookupTables[ti].addresses)
    PROVE  /\ BucketKeys(ti, indexes) \in Seq(Keys)
           /\ Len(BucketKeys(ti, indexes)) = Len(indexes)
           /\ \A i \in 1..Len(indexes) :
                  BucketKeys(ti, indexes)[i] = LookupTables[ti].addresses[indexes[i] + 1]
  <1> DEFINE addresses == LookupTables[ti].addresses
  <1>1. addresses \in Seq(Keys)
    BY KeysAssumption
  <1>2. \A i \in 1..Len(indexes) : indexes[i] + 1 \in 1..Len(addresses)
    <2>1. \A i \in 1..Len(indexes) : indexes[i] \in 0..(ByteRange - 1)
      BY ElementOfSeq
    <2> QED
      BY <1>1, <2>1, ByteAssumption
  <1> HIDE DEF addresses
  <1>3. \A i \in 1..Len(indexes) : addresses[indexes[i] + 1] \in Keys
    BY <1>1, <1>2, ElementOfSeq
  <1>4. BucketKeys(ti, indexes) = [i \in 1..Len(indexes) |-> addresses[indexes[i] + 1]]
    BY DEF BucketKeys, addresses
  <1>5. Len(indexes) \in Nat
    OBVIOUS
  <1> QED
    BY <1>3, <1>4, <1>5 DEF addresses

-----------------------------------------------------------------------------
(* Type correctness.                                                          *)

LEMMA InitShape == Init => Shape
  <1> SUFFICES ASSUME Init
               PROVE  Shape
    OBVIOUS
  <1> USE DEF Init
  <1>1. feePayer \in Keys
    BY KeysAssumption
  <1>2. staticAccounts \in Seq(AccountInfos(Keys))
    BY <1>1, InitialAccounts
  <1>3. tableBuckets \in [DOMAIN LookupTables -> Buckets]
    BY DEF Buckets
  <1>4. msg.header \in Headers(ByteRange) /\ msg.accountKeys \in Seq(Keys)
    BY ByteAssumption DEF EmptyMessage, Headers
  <1>5. /\ instructions \in Seq(Instructions(Keys))
        /\ registeredLookups \in Seq(LookupRefs)
        /\ ordered \in Seq(AccountInfos(Keys))
        /\ virtualKeys \in Seq(Keys)
    BY EmptySeq
  <1>b. /\ feePayer \in FeePayers
        /\ pc \in {"collect", "order", "tables", "compile", "returned", "thrown"}
        /\ pass \in 1..4
        /\ cursor \in Nat \ {0}
    OBVIOUS
  <1>a. TypeOK
    <2> HIDE DEF Init
    <2> QED
      BY <1>2, <1>3, <1>4, <1>5, <1>b DEF TypeOK
  <1>6. MsgShape
    BY DEF MsgShape, EmptyMessage
  <1>7. BucketsInTables
    BY DEF BucketsInTables
  <1> QED
    BY <1>a, <1>6, <1>7 DEF Shape, Position

(* One lemma per action that changes what Shape speaks of.                    *)
LEMMA ShapeStartInstruction ==
    ASSUME Shape, NEW p \in ProgramIds, StartInstruction(p)
    PROVE  Shape'
  <1> USE DEF Shape
  <1>1. instructions' \in Seq(Instructions(Keys))
    BY MentionsNewInstruction, KeysAssumption DEF StartInstruction, TypeOK
  <1>2. staticAccounts' \in Seq(AccountInfos(Keys))
    BY FindOrAddType, KeysAssumption DEF StartInstruction, TypeOK
  <1> QED
    BY <1>1, <1>2 DEF StartInstruction, TypeOK, MsgShape, BucketsInTables, Position

LEMMA ShapeReadAccount ==
    ASSUME Shape, NEW am \in AccountMetas(Keys), ReadAccount(am)
    PROVE  instructions' \in Seq(Instructions(Keys))
  BY WithAccountProperties DEF Shape, TypeOK, ReadAccount

LEMMA ShapeAddStaticAccount ==
    ASSUME Shape, NEW am \in AccountMetas(Keys), AddStaticAccount(am)
    PROVE  Shape'
  <1> USE DEF Shape
  <1>1. instructions' \in Seq(Instructions(Keys))
    BY ShapeReadAccount DEF AddStaticAccount
  <1>2. staticAccounts' \in Seq(AccountInfos(Keys))
    BY FindOrAddType DEF AddStaticAccount, AccountMetas, TypeOK
  <1> QED
    BY <1>1, <1>2 DEF AddStaticAccount, ReadAccount, TypeOK, MsgShape, BucketsInTables, Position

LEMMA ShapeRegisterLookup ==
    ASSUME Shape, NEW am \in AccountMetas(Keys), RegisterLookup(am)
    PROVE  Shape'
  <1> USE DEF Shape
  <1> DEFINE ref == FindInLookup(am.pubkey)
             ti == ref.tableIdx
             ai == ref.addrIdx
  <1>1. instructions' \in Seq(Instructions(Keys))
    BY ShapeReadAccount DEF RegisterLookup
  <1>2. /\ ti \in DOMAIN LookupTables
        /\ ai \in 0..(ByteRange - 1)
        /\ ai < Len(LookupTables[ti].addresses)
    BY FindInLookupType DEF RegisterLookup, GoesStatic, AccountMetas
  <1>3. registeredLookups' \in Seq(LookupRefs)
    <2>1. [tableIdx |-> ti, addrIdx |-> ai, isWritable |-> am.isWritable] \in LookupRefs
      BY <1>2 DEF LookupRefs, AccountMetas
    <2> QED
      BY <2>1, AppendProperties DEF RegisterLookup, TypeOK
  <1> DEFINE old == tableBuckets[ti]
             new == tableBuckets'[ti]
  <1>4. old \in Buckets /\ tableBuckets \in [DOMAIN LookupTables -> Buckets]
    BY <1>2 DEF TypeOK
  <1>5. /\ tableBuckets' = [tableBuckets EXCEPT ![ti] = new]
        /\ \/ new = [writableIdx |-> Append(old.writableIdx, ai), readonlyIdx |-> old.readonlyIdx]
           \/ new = [writableIdx |-> old.writableIdx, readonlyIdx |-> Append(old.readonlyIdx, ai)]
    BY <1>2, <1>4 DEF RegisterLookup, Buckets
  <1>6. /\ old.writableIdx \in Seq(0..(ByteRange - 1))
        /\ old.readonlyIdx \in Seq(0..(ByteRange - 1))
    BY <1>4 DEF Buckets
  <1>7. /\ Append(old.writableIdx, ai) \in Seq(0..(ByteRange - 1))
        /\ Append(old.readonlyIdx, ai) \in Seq(0..(ByteRange - 1))
    BY <1>2, <1>6, AppendProperties
  <1>8. new \in Buckets
    <2>1. /\ [writableIdx |-> Append(old.writableIdx, ai), readonlyIdx |-> old.readonlyIdx] \in Buckets
          /\ [writableIdx |-> old.writableIdx, readonlyIdx |-> Append(old.readonlyIdx, ai)] \in Buckets
      BY <1>6, <1>7 DEF Buckets
    <2> HIDE DEF new, old, ai
    <2> QED
      BY <1>5, <2>1
  <1>9. tableBuckets' \in [DOMAIN LookupTables -> Buckets]
    BY <1>2, <1>4, <1>5, <1>8
  <1>10. /\ \A i \in 1..Len(old.writableIdx) : old.writableIdx[i] < Len(LookupTables[ti].addresses)
         /\ \A i \in 1..Len(old.readonlyIdx) : old.readonlyIdx[i] < Len(LookupTables[ti].addresses)
    BY <1>2 DEF BucketsInTables
  <1> HIDE DEF old, new, ti, ai, ref
  <1>11. /\ \A i \in 1..Len(new.writableIdx) : new.writableIdx[i] < Len(LookupTables[ti].addresses)
         /\ \A i \in 1..Len(new.readonlyIdx) : new.readonlyIdx[i] < Len(LookupTables[ti].addresses)
    <2>1. ASSUME NEW list \in Seq(0..(ByteRange - 1)), NEW size,
                 \A i \in 1..Len(list) : list[i] < size, ai < size
          PROVE  \A i \in 1..Len(Append(list, ai)) : Append(list, ai)[i] < size
      BY <1>2, <2>1, AppendProperties
    <2>2. /\ new.writableIdx = old.writableIdx \/ new.writableIdx = Append(old.writableIdx, ai)
          /\ new.readonlyIdx = old.readonlyIdx \/ new.readonlyIdx = Append(old.readonlyIdx, ai)
      BY <1>5
    <2> QED
      BY <1>2, <1>6, <1>10, <2>1, <2>2
  <1>12. BucketsInTables'
    <2>1. ASSUME NEW t \in DOMAIN LookupTables
          PROVE  LET size == Len(LookupTables[t].addresses)
                     w == tableBuckets'[t].writableIdx
                     r == tableBuckets'[t].readonlyIdx
                 IN /\ \A i \in 1..Len(w) : w[i] < size
                    /\ \A i \in 1..Len(r) : r[i] < size
      <3>1. CASE t = ti
        BY <1>11, <3>1 DEF new
      <3>2. CASE t # ti
        <4>1. tableBuckets'[t] = tableBuckets[t]
          BY <1>4, <1>5, <3>2
        <4> QED
          BY <4>1 DEF BucketsInTables
      <3> QED
        BY <3>1, <3>2
    <2> QED
      BY <2>1 DEF BucketsInTables
  <1> QED
    BY <1>1, <1>3, <1>9, <1>12 DEF RegisterLookup, ReadAccount, TypeOK, MsgShape, Position

LEMMA ShapeUpgradeLookup ==
    ASSUME Shape, NEW am \in AccountMetas(Keys), UpgradeLookup(am)
    PROVE  Shape'
  <1> USE DEF Shape
  <1>1. instructions' \in Seq(Instructions(Keys))
    BY ShapeReadAccount DEF UpgradeLookup
  <1>2. registeredLookups' \in Seq(LookupRefs)
    <2> DEFINE ref == FindInLookup(am.pubkey)
               Upgraded(i) == IF IsFor(registeredLookups[i], ref)
                              THEN [registeredLookups[i] EXCEPT !.isWritable = @ \/ am.isWritable]
                              ELSE registeredLookups[i]
    <2>1. registeredLookups \in Seq(LookupRefs)
      BY DEF TypeOK
    <2>2. \A i \in 1..Len(registeredLookups) : registeredLookups[i] \in LookupRefs
      BY <2>1, ElementOfSeq
    <2>3. \A i \in 1..Len(registeredLookups) : Upgraded(i) \in LookupRefs
      BY <2>2 DEF LookupRefs, AccountMetas
    <2>4. registeredLookups' = [i \in 1..Len(registeredLookups) |-> Upgraded(i)]
      BY <2>1 DEF UpgradeLookup
    <2> HIDE DEF Upgraded
    <2> QED
      BY <2>1, <2>3, <2>4
  <1> QED
    BY <1>1, <1>2 DEF UpgradeLookup, ReadAccount, TypeOK, MsgShape, BucketsInTables, Position

LEMMA ShapeOrderAccount ==
    ASSUME Shape, OrderAccount
    PROVE  Shape'
  <1> USE DEF Shape
  <1>1. staticAccounts[cursor] \in AccountInfos(Keys)
    BY ElementOfSeq DEF OrderAccount, TypeOK
  <1>2. ordered' \in Seq(AccountInfos(Keys))
    BY <1>1, AppendProperties DEF OrderAccount, TypeOK
  <1>3. cursor' \in Nat \ {0} /\ cursor' <= Len(staticAccounts) + 1
    BY DEF OrderAccount, TypeOK
  <1> QED
    BY <1>2, <1>3 DEF OrderAccount, TypeOK, MsgShape, BucketsInTables, Position, collected, inputs

LEMMA ShapeBuildHeader ==
    ASSUME Shape, BuildHeader
    PROVE  Shape'
  <1> USE DEF Shape
  <1>1. KeysOf(ordered) \in Seq(Keys)
    BY KeysOfType DEF TypeOK
  <1>2. HeaderOf(ordered, ByteRange) \in Headers(ByteRange)
    BY HeaderType, ByteAssumption DEF TypeOK
  <1>3. msg' = [header              |-> HeaderOf(ordered, ByteRange),
                accountKeys         |-> KeysOf(ordered),
                instructions        |-> msg.instructions,
                addressTableLookups |-> msg.addressTableLookups]
    BY DEF BuildHeader, MsgShape
  <1>4. pass' = 1 /\ cursor' = 1 /\ 1 <= Len(LookupTables) + 1
    BY KeysAssumption DEF BuildHeader
  <1>5. MsgShape'
    BY <1>3 DEF MsgShape
  <1> QED
    BY <1>1, <1>2, <1>3, <1>4, <1>5
    DEF BuildHeader, TypeOK, BucketsInTables, Position, collected, inputs

LEMMA ShapeAppendBucket ==
    ASSUME Shape, AppendBucket
    PROVE  Shape'
  <1> USE DEF Shape
  <1>1. cursor \in DOMAIN LookupTables
    BY KeysAssumption DEF AppendBucket, TypeOK
  <1>2. /\ tableBuckets[cursor].writableIdx \in Seq(0..(ByteRange - 1))
        /\ tableBuckets[cursor].readonlyIdx \in Seq(0..(ByteRange - 1))
    BY <1>1 DEF TypeOK, Buckets
  <1>3. /\ BucketKeys(cursor, tableBuckets[cursor].writableIdx) \in Seq(Keys)
        /\ BucketKeys(cursor, tableBuckets[cursor].readonlyIdx) \in Seq(Keys)
    BY <1>1, <1>2, BucketKeysType DEF BucketsInTables
  <1>4. virtualKeys' \in Seq(Keys)
    BY <1>3, ConcatProperties DEF AppendBucket, TypeOK
  <1>5. cursor' \in Nat \ {0} /\ cursor' <= Len(LookupTables) + 1
    BY KeysAssumption DEF AppendBucket, TypeOK
  <1> QED
    BY <1>4, <1>5 DEF AppendBucket, TypeOK, MsgShape, BucketsInTables, Position, collected, inputs

LEMMA ShapeCompile ==
    ASSUME Shape, Compile
    PROVE  Shape'
  <1> USE DEF Shape
  <1>1. /\ msg'.header = msg.header
        /\ msg'.accountKeys = msg.accountKeys
        /\ MsgShape'
    BY DEF Compile, MsgShape
  <1> QED
    BY <1>1 DEF Compile, TypeOK, BucketsInTables, Position, collected, inputs

LEMMA StepShape == Shape /\ [Next]_vars => Shape'
  <1> SUFFICES ASSUME Shape, [Next]_vars
               PROVE  Shape'
    OBVIOUS
  <1>1. ASSUME NEW p \in ProgramIds, StartInstruction(p)
        PROVE  Shape'
    BY <1>1, ShapeStartInstruction
  <1>2. ASSUME NEW am \in AccountMetas(Keys),
               AddStaticAccount(am) \/ RegisterLookup(am) \/ UpgradeLookup(am)
        PROVE  Shape'
    BY <1>2, ShapeAddStaticAccount, ShapeRegisterLookup, ShapeUpgradeLookup
  <1>3. CASE EndInstructions
    BY <1>3 DEF EndInstructions, Shape, TypeOK, MsgShape, BucketsInTables, Position,
                collected, inputs
  <1>4. CASE OrderAccount
    BY <1>4, ShapeOrderAccount
  <1>5. CASE NextPass
    BY <1>5 DEF NextPass, Shape, TypeOK, MsgShape, BucketsInTables, Position, collected, inputs
  <1>6. CASE BuildHeader
    BY <1>6, ShapeBuildHeader
  <1>7. CASE AppendBucket
    BY <1>7, ShapeAppendBucket
  <1>8. CASE EndTables
    BY <1>8, KeysAssumption DEF EndTables, Shape, TypeOK, MsgShape, BucketsInTables, Position,
                                collected, inputs
  <1>9. CASE Compile
    BY <1>9, ShapeCompile
  <1>10. CASE ThrowUnresolved
    BY <1>10 DEF ThrowUnresolved, Shape, TypeOK, MsgShape, BucketsInTables, Position,
                 collected, inputs
  <1>11. CASE UNCHANGED vars
    BY <1>11 DEF vars, Shape, TypeOK, MsgShape, BucketsInTables, Position, collected, inputs
  <1> QED
    BY <1>1, <1>2, <1>3, <1>4, <1>5, <1>6, <1>7, <1>8, <1>9, <1>10, <1>11
    DEF Next, Finished

LEMMA ShapeInvariant == Spec => []Shape
  BY InitShape, StepShape, PTL DEF Spec

(* Every variable keeps its shape, and everything stored in a byte fits it.   *)
THEOREM TypeCorrect == Spec => []TypeOK
  <1>1. Shape => TypeOK
    BY DEF Shape
  <1> QED
    BY <1>1, ShapeInvariant, PTL

-----------------------------------------------------------------------------
(* The static list.                                                           *)

LEMMA InitCollected == Init => Collected
  <1> SUFFICES ASSUME Init
               PROVE  Collected
    OBVIOUS
  <1>1. feePayer \in Keys
    BY KeysAssumption DEF Init
  <1>2. staticAccounts = <<[key |-> feePayer, isSigner |-> TRUE, isWritable |-> TRUE]>>
    BY <1>1, InitialAccounts DEF Init
  <1>3. Mentions(instructions) = {}
    BY DEF Init, Mentions
  <1>4. \A pk : AskedSigner(instructions, feePayer, pk) <=> pk = feePayer
    BY <1>3 DEF AskedSigner
  <1>5. /\ Len(staticAccounts) = 1
        /\ staticAccounts[1].key = feePayer
        /\ staticAccounts[1].isSigner /\ staticAccounts[1].isWritable
    BY <1>2
  <1> HIDE DEF Init
  <1> QED
    BY <1>4, <1>5 DEF Collected, DistinctKeys

(* Whatever adds a mention of key pk to the static list keeps it right, if    *)
(* the requests grow by the same mention.                                     *)
LEMMA CollectedByFindOrAdd ==
    ASSUME Shape, Collected,
           NEW pk \in Keys, NEW signer \in BOOLEAN, NEW writable \in BOOLEAN,
           staticAccounts' = FindOrAdd(staticAccounts, pk, signer, writable),
           feePayer' = feePayer,
           \A k \in Keys : AskedSigner(instructions', feePayer, k) <=>
                               AskedSigner(instructions, feePayer, k) \/ (k = pk /\ signer)
    PROVE  Collected'
  <1> DEFINE old == staticAccounts
             new == staticAccounts'
             size == Len(staticAccounts)
  <1>1. old \in Seq(AccountInfos(Keys)) /\ DistinctKeys(old)
    BY DEF Shape, TypeOK, Collected
  <1>2. /\ new \in Seq(AccountInfos(Keys))
        /\ Len(new) \in {size, size + 1}
        /\ \A i \in 1..size : new[i].key = old[i].key
        /\ \E i \in 1..Len(new) : new[i].key = pk
        /\ \A i \in (size + 1)..Len(new) : new[i].key = pk
        /\ DistinctKeys(new)
        /\ \A i \in 1..Len(new) :
              /\ new[i].isSigner <=>
                     \/ i <= size /\ old[i].isSigner
                     \/ new[i].key = pk /\ signer
              /\ new[i].isWritable <=>
                     \/ i <= size /\ old[i].isWritable
                     \/ new[i].key = pk /\ writable
    <2>1. new \in Seq(AccountInfos(Keys)) /\ GrownBy(new, old, pk, signer, writable)
      BY <1>1, FindOrAddProperties
    <2> QED
      BY <2>1 DEF GrownBy
  <1>3. size \in Nat /\ size > 0
    BY <1>1 DEF Collected
  <1>4. \A i \in 1..Len(new) : new[i].key \in Keys
    BY <1>2, TypedEntries
  <1>5. new[1].key = feePayer /\ new[1].isSigner /\ new[1].isWritable
    BY <1>2, <1>3 DEF Collected
  <1>6. ASSUME NEW i \in 1..Len(new)
        PROVE  new[i].isSigner <=> AskedSigner(instructions', feePayer, new[i].key)
    <2>1. CASE i \in 1..size
      BY <1>2, <1>3, <1>4, <2>1 DEF Collected
    <2>2. CASE i = size + 1
      <3>1. new[i].key = pk
        BY <1>2, <1>3, <2>2
      <3>2. ~AskedSigner(instructions, feePayer, pk) \/ \E j \in 1..size : old[j].key = pk
        BY DEF Collected
      <3>3. ~\E j \in 1..size : old[j].key = pk
        BY <1>2, <1>3, <2>2, <3>1 DEF DistinctKeys
      <3> QED
        BY <1>2, <1>3, <2>2, <3>1, <3>2, <3>3
    <2> QED
      BY <1>2, <1>3, <2>1, <2>2
  <1>7. ASSUME NEW k \in Keys, AskedSigner(instructions', feePayer, k)
        PROVE  \E i \in 1..Len(new) : new[i].key = k
    BY <1>2, <1>3, <1>7 DEF Collected
  <1> QED
    BY <1>2, <1>3, <1>5, <1>6, <1>7 DEF Collected

LEMMA StepCollected == Shape /\ Collected /\ [Next]_vars => Collected'
  <1> SUFFICES ASSUME Shape, Collected, [Next]_vars
               PROVE  Collected'
    OBVIOUS
  <1>0. instructions \in Seq(Instructions(Keys))
    BY DEF Shape, TypeOK
  <1>1. ASSUME NEW p \in ProgramIds, StartInstruction(p)
        PROVE  Collected'
    <2>1. p \in Keys
      BY KeysAssumption
    <2>2. Mentions(instructions') = Mentions(instructions)
      BY <1>0, <1>1, <2>1, MentionsNewInstruction DEF StartInstruction
    <2>3. \A k \in Keys : AskedSigner(instructions', feePayer, k) <=>
                               AskedSigner(instructions, feePayer, k) \/ (k = p /\ FALSE)
      BY <2>2 DEF AskedSigner
    <2> QED
      BY <1>1, <2>1, <2>3, CollectedByFindOrAdd DEF StartInstruction
  <1>2. ASSUME NEW am \in AccountMetas(Keys), ReadAccount(am)
        PROVE  \A k \in Keys : AskedSigner(instructions', feePayer, k) <=>
                   AskedSigner(instructions, feePayer, k) \/ (k = am.pubkey /\ am.isSigner)
    <2>1. Mentions(instructions') = Mentions(instructions) \cup {am}
      BY <1>0, <1>2, MentionsWithAccount DEF ReadAccount
    <2> QED
      BY <2>1 DEF AskedSigner
  <1>3. ASSUME NEW am \in AccountMetas(Keys), AddStaticAccount(am)
        PROVE  Collected'
    <2>1. am.pubkey \in Keys /\ am.isSigner \in BOOLEAN /\ am.isWritable \in BOOLEAN
      BY DEF AccountMetas
    <2> QED
      BY <1>2, <1>3, <2>1, CollectedByFindOrAdd DEF AddStaticAccount, ReadAccount
  <1>4. ASSUME NEW am \in AccountMetas(Keys), RegisterLookup(am) \/ UpgradeLookup(am)
        PROVE  Collected'
    <2>1. ReadAccount(am) /\ ~am.isSigner /\ UNCHANGED <<feePayer, staticAccounts>>
      BY <1>4 DEF RegisterLookup, UpgradeLookup, GoesStatic, ReadAccount
    <2>2. \A k \in Keys : AskedSigner(instructions', feePayer, k) <=>
                               AskedSigner(instructions, feePayer, k)
      BY <1>2, <2>1
    <2>3. \A i \in 1..Len(staticAccounts) : staticAccounts[i].key \in Keys
      BY TypedEntries DEF Shape, TypeOK
    <2> QED
      BY <2>1, <2>2, <2>3 DEF Collected
  <1>5. CASE UNCHANGED <<feePayer, instructions, staticAccounts>>
    BY <1>5 DEF Collected
  <1> QED
    BY <1>1, <1>3, <1>4, <1>5
    DEF Next, Finished, vars, inputs, collected, EndInstructions, OrderAccount, NextPass,
        BuildHeader, AppendBucket, EndTables, Compile, ThrowUnresolved

-----------------------------------------------------------------------------
(* The ordered list.                                                          *)

LEMMA InitInOrder == Init => InOrder
  <1> SUFFICES ASSUME Init
               PROVE  InOrder
    OBVIOUS
  <1>1. \A j \in 1..Len(staticAccounts) : PassOf(staticAccounts[j]) \in 1..4
    BY InitShape, TypedEntries DEF Shape, TypeOK
  <1>2. pc = "collect" /\ pass = 1 /\ cursor = 1 /\ Len(ordered) = 0
    BY DEF Init
  <1>3. \A j \in 1..Len(staticAccounts) : ~Taken(j)
    BY <1>1, <1>2 DEF Taken
  <1> QED
    BY <1>2, <1>3 DEF InOrder, Sorted

LEMMA OrderAccountInOrder ==
    ASSUME Shape, Collected, InOrder, OrderAccount
    PROVE  InOrder'
  <1> DEFINE all == staticAccounts
             size == Len(all)
             entry == all[cursor]
             taking == PassOf(entry) = pass
  <1>1. /\ all \in Seq(AccountInfos(Keys)) /\ size \in Nat
        /\ ordered \in Seq(AccountInfos(Keys)) /\ Len(ordered) \in Nat
        /\ pass \in 1..4
        /\ cursor \in 1..size
        /\ pc = "order"
    BY DEF Shape, TypeOK, OrderAccount
  <1>2. /\ \A j \in 1..size : PassOf(all[j]) \in 1..4
        /\ \A i \in 1..Len(ordered) : PassOf(ordered[i]) \in 1..4
    BY <1>1, TypedEntries
  <1>3. /\ staticAccounts' = all /\ pass' = pass /\ cursor' = cursor + 1 /\ pc' = "order"
        /\ ordered' = IF taking THEN Append(ordered, entry) ELSE ordered
    BY <1>1 DEF OrderAccount, collected
  <1>4. \A j \in 1..size : Taken(j)' <=> Taken(j) \/ (j = cursor /\ taking)
    BY <1>1, <1>2, <1>3 DEF Taken
  <1>5. ~taking \/ ~Taken(cursor)
    BY <1>1, <1>2 DEF Taken
  <1>6. \A i \in 1..Len(ordered) : PassOf(ordered[i]) <= pass
    <2>1. \A j \in 1..size : Taken(j) => PassOf(all[j]) <= pass
      BY <1>1, <1>2 DEF Taken
    <2> QED
      BY <2>1 DEF InOrder
  <1>7. CASE ~taking
    <2>1. ordered' = ordered
      BY <1>3, <1>7
    <2>2. \A j \in 1..size : Taken(j)' <=> Taken(j)
      BY <1>4, <1>7
    <2> QED
      BY <1>3, <2>1, <2>2 DEF InOrder, Sorted
  <1>8. CASE taking
    <2>1. /\ ordered' = Append(ordered, entry)
          /\ Len(ordered') = Len(ordered) + 1
          /\ \A i \in 1..Len(ordered) : ordered'[i] = ordered[i]
          /\ ordered'[Len(ordered) + 1] = entry
      BY <1>1, <1>2, <1>3, <1>8, TypedEntries
    <2> HIDE DEF entry
    <2>2. ASSUME NEW i \in 1..Len(ordered')
          PROVE  \E j \in 1..size : Taken(j)' /\ ordered'[i] = all[j]
      <3>1. CASE i \in 1..Len(ordered)
        <4>1. PICK j \in 1..size : Taken(j) /\ ordered[i] = all[j]
          BY <3>1 DEF InOrder
        <4> QED
          BY <1>4, <2>1, <3>1, <4>1
      <3>2. CASE i = Len(ordered) + 1
        <4>1. PICK j \in 1..size : j = cursor
          BY <1>1
        <4>2. Taken(j)'
          BY <1>4, <1>8, <4>1
        <4> QED
          BY <2>1, <3>2, <4>1, <4>2 DEF entry
      <3>3. i \in 1..Len(ordered) \/ i = Len(ordered) + 1
        BY <1>1, <2>1
      <3> QED
        BY <3>1, <3>2, <3>3
    <2>3. ASSUME NEW j \in 1..size, Taken(j)'
          PROVE  \E i \in 1..Len(ordered') : ordered'[i] = all[j]
      <3>1. CASE Taken(j)
        <4>1. PICK i \in 1..Len(ordered) : ordered[i] = all[j]
          BY <3>1 DEF InOrder
        <4> QED
          BY <1>1, <2>1, <4>1
      <3>2. CASE j = cursor
        BY <1>1, <2>1, <3>2 DEF entry
      <3> QED
        BY <1>4, <2>3, <3>1, <3>2
    <2>4. Sorted'
      <3>1. ASSUME NEW i \in 1..Len(ordered'), NEW k \in 1..Len(ordered'), i < k
            PROVE  PassOf(ordered'[i]) <= PassOf(ordered'[k])
        <4>1. i \in 1..Len(ordered) /\ ordered'[i] = ordered[i]
          BY <1>1, <2>1, <3>1
        <4>2. CASE k \in 1..Len(ordered)
          BY <2>1, <3>1, <4>1, <4>2 DEF InOrder, Sorted
        <4>3. CASE k = Len(ordered) + 1
          BY <1>6, <1>8, <2>1, <4>1, <4>3
        <4> QED
          BY <1>1, <2>1, <4>2, <4>3
      <3> QED
        BY <3>1 DEF Sorted
    <2>5. ordered'[1] = all[1]
      <3>1. CASE Len(ordered) > 0
        BY <1>1, <2>1, <3>1 DEF InOrder
      <3>2. CASE Len(ordered) = 0
        <4>1. 1 \in 1..size /\ PassOf(all[1]) = 1
          BY <1>1, TypedEntries DEF Collected
        <4>2. ~Taken(1)
          BY <3>2, <4>1 DEF InOrder
        <4>3. cursor = 1
          BY <1>1, <4>1, <4>2 DEF Taken
        <4> QED
          BY <2>1, <3>2, <4>3 DEF entry
      <3> QED
        BY <1>1, <3>1, <3>2
    <2>6. \A i \in 1..Len(ordered') :
              \E j \in 1..Len(staticAccounts') : Taken(j)' /\ ordered'[i] = staticAccounts'[j]
      BY <1>3, <2>2
    <2>7. \A j \in 1..Len(staticAccounts') :
              Taken(j)' => \E i \in 1..Len(ordered') : ordered'[i] = staticAccounts'[j]
      BY <1>3, <2>3
    <2>8. Len(ordered') > 0 => ordered'[1] = staticAccounts'[1]
      BY <1>3, <2>5
    <2> QED
      BY <2>4, <2>6, <2>7, <2>8 DEF InOrder
  <1> QED
    BY <1>7, <1>8

LEMMA StepInOrder ==
    ASSUME Shape, Shape', Collected, InOrder, [Next]_vars
    PROVE  InOrder'
  <1> DEFINE size == Len(staticAccounts)
  <1>1. \A j \in 1..size : PassOf(staticAccounts[j]) \in 1..4
    BY TypedEntries DEF Shape, TypeOK
  <1>2. CASE pc = "collect" /\ ~UNCHANGED vars
    <2>1. pc' \in {"collect", "order"} /\ pass' = 1 /\ cursor' = 1 /\ ordered' = <<>>
      BY <1>2 DEF Next, Finished, StartInstruction, ReadAccount, AddStaticAccount, RegisterLookup,
                  UpgradeLookup, EndInstructions, OrderAccount, NextPass, BuildHeader,
                  AppendBucket, EndTables, Compile, ThrowUnresolved, Shape, Position
    <2>2. \A j \in 1..Len(staticAccounts') : PassOf(staticAccounts'[j]) \in 1..4
      BY TypedEntries DEF Shape, TypeOK
    <2>3. \A j \in 1..Len(staticAccounts') : ~Taken(j)'
      BY <2>1, <2>2 DEF Taken
    <2>4. Len(ordered') = 0
      BY <2>1
    <2> QED
      BY <2>3, <2>4 DEF InOrder, Sorted
  <1>3. CASE OrderAccount
    BY <1>3, OrderAccountInOrder
  <1>4. CASE NextPass
    <2>1. /\ size \in Nat /\ cursor \in Nat /\ cursor > size /\ pass \in 1..4
          /\ pc = "order" /\ pc' = "order" /\ pass' = pass + 1 /\ cursor' = 1
          /\ staticAccounts' = staticAccounts /\ ordered' = ordered
      BY <1>4 DEF NextPass, Shape, TypeOK, collected
    <2>2. \A j \in 1..size : Taken(j)' <=> Taken(j)
      BY <1>1, <2>1 DEF Taken
    <2> QED
      BY <2>1, <2>2 DEF InOrder, Sorted
  <1>5. CASE BuildHeader
    <2>1. /\ size \in Nat /\ cursor \in Nat /\ cursor > size /\ pass = 4
          /\ pc = "order" /\ pc' = "tables"
          /\ staticAccounts' = staticAccounts /\ ordered' = ordered
      BY <1>5 DEF BuildHeader, Shape, TypeOK, collected
    <2>2. \A j \in 1..size : Taken(j) /\ Taken(j)'
      BY <1>1, <2>1 DEF Taken
    <2> QED
      BY <2>1, <2>2 DEF InOrder, Sorted
  <1>6. CASE AppendBucket \/ EndTables \/ Compile \/ ThrowUnresolved
    <2>1. /\ pc \notin {"collect", "order"} /\ pc' \notin {"collect", "order"}
          /\ staticAccounts' = staticAccounts /\ ordered' = ordered
      BY <1>6 DEF AppendBucket, EndTables, Compile, ThrowUnresolved, collected
    <2> QED
      BY <2>1 DEF InOrder, Sorted, Taken
  <1>7. CASE UNCHANGED vars
    BY <1>7 DEF vars, collected, InOrder, Sorted, Taken
  <1> QED
    BY <1>2, <1>3, <1>4, <1>5, <1>6, <1>7
    DEF Next, Finished, StartInstruction, ReadAccount, AddStaticAccount, RegisterLookup,
        UpgradeLookup, EndInstructions

(* No account is taken twice by the passes. *)
LEMMA StepListedOnce ==
    ASSUME Shape, Collected, InOrder, DistinctKeys(ordered), [Next]_vars
    PROVE  DistinctKeys(ordered)'
  <1>1. CASE ordered' = ordered
    BY <1>1 DEF DistinctKeys
  <1>2. CASE OrderAccount /\ ordered' # ordered
    <2> DEFINE entry == staticAccounts[cursor]
               n == Len(ordered)
    <2>1. /\ staticAccounts \in Seq(AccountInfos(Keys)) /\ cursor \in 1..Len(staticAccounts)
          /\ ordered \in Seq(AccountInfos(Keys)) /\ n \in Nat
          /\ PassOf(entry) = pass /\ pc = "order"
          /\ ordered' = Append(ordered, entry)
      BY <1>2 DEF Shape, TypeOK, OrderAccount
    <2>2. entry \in AccountInfos(Keys)
      BY <2>1, ElementOfSeq
    <2>3. /\ Len(ordered') = n + 1
          /\ \A i \in 1..n : ordered'[i] = ordered[i]
          /\ ordered'[n + 1] = entry
      BY <2>1, <2>2
    <2>4. ~Taken(cursor)
      BY <2>1 DEF Taken, Shape, TypeOK
    <2>5. ASSUME NEW i \in 1..n
          PROVE  ordered[i].key # entry.key
      <3>1. PICK j \in 1..Len(staticAccounts) : Taken(j) /\ ordered[i] = staticAccounts[j]
        BY DEF InOrder
      <3> QED
        BY <2>1, <2>4, <3>1 DEF Collected, DistinctKeys
    <2> QED
      BY <2>1, <2>3, <2>5 DEF DistinctKeys
  <1>3. CASE ordered' = <<>>
    BY <1>3 DEF DistinctKeys
  <1> QED
    BY <1>1, <1>2, <1>3
    DEF Next, vars, Finished, StartInstruction, ReadAccount, AddStaticAccount, RegisterLookup,
        UpgradeLookup, EndInstructions, NextPass, BuildHeader, AppendBucket, EndTables, Compile,
        ThrowUnresolved

LEMMA InitHeaderBuilt == Init => HeaderBuilt
  BY DEF Init, HeaderBuilt

LEMMA StepHeaderBuilt == Shape /\ HeaderBuilt /\ [Next]_vars => HeaderBuilt'
  <1> SUFFICES ASSUME Shape, HeaderBuilt, [Next]_vars
               PROVE  HeaderBuilt'
    OBVIOUS
  <1>1. CASE BuildHeader
    BY <1>1 DEF BuildHeader, HeaderBuilt, Shape, MsgShape
  <1>2. CASE Compile
    BY <1>2 DEF Compile, HeaderBuilt, Shape, MsgShape
  <1>3. CASE pc' \in {"collect", "order"}
    BY <1>3 DEF HeaderBuilt
  <1>4. CASE AppendBucket \/ EndTables \/ ThrowUnresolved \/ UNCHANGED vars
    BY <1>4 DEF AppendBucket, EndTables, ThrowUnresolved, vars, HeaderBuilt
  <1> QED
    BY <1>1, <1>2, <1>3, <1>4
    DEF Next, Finished, StartInstruction, ReadAccount, AddStaticAccount, RegisterLookup,
        UpgradeLookup, EndInstructions, OrderAccount, NextPass

(* The invariant the properties of the result rest on.                        *)
IInv == Shape /\ Collected /\ InOrder /\ DistinctKeys(ordered) /\ HeaderBuilt

LEMMA InitIInv == Init => IInv
  <1>1. Init => DistinctKeys(ordered)
    BY DEF Init, DistinctKeys
  <1> QED
    BY <1>1, InitShape, InitCollected, InitInOrder, InitHeaderBuilt DEF IInv

LEMMA StepIInv == IInv /\ [Next]_vars => IInv'
  BY StepShape, StepCollected, StepInOrder, StepListedOnce, StepHeaderBuilt DEF IInv

LEMMA IInvInvariant == Spec => []IInv
  BY InitIInv, StepIInv, PTL DEF Spec

-----------------------------------------------------------------------------
(* The properties of the result.                                              *)

(* The signers of the ordered list are a prefix of it, as long as their       *)
(* number, which the header holds if it fits.                                 *)
LEMMA SignersArePrefix ==
    ASSUME Shape, InOrder
    PROVE  LET k == Cardinality(Signers(ordered))
           IN /\ k \in 0..Len(ordered)
              /\ Signers(ordered) = 1..k
              /\ SignersFit => k % ByteRange = k
  <1> DEFINE n == Len(ordered)
             T == Signers(ordered)
  <1>1. /\ n \in Nat
        /\ \A i \in 1..n : PassOf(ordered[i]) \in 1..4
        /\ \A i \in 1..n : ordered[i].isSigner <=> PassOf(ordered[i]) <= 2
    BY TypedEntries DEF Shape, TypeOK
  <1>2. T \in SUBSET (1..n) /\ \A i \in 1..n : i \in T <=> ordered[i].isSigner
    BY DEF Signers
  <1>3. \A i \in T : \A j \in 1..i : j \in T
    <2>1. ASSUME NEW i \in T, NEW j \in 1..i
          PROVE  j \in T
      <3>1. i \in 1..n /\ j \in 1..n /\ (j < i \/ j = i)
        BY <1>1, <1>2, <2>1
      <3>2. j < i => PassOf(ordered[j]) <= PassOf(ordered[i])
        BY <3>1 DEF InOrder, Sorted
      <3> QED
        BY <1>1, <1>2, <2>1, <3>1, <3>2
    <2> QED
      BY <2>1
  <1> HIDE DEF T, n
  <1>4. PICK k \in 0..n : T = 1..k
    BY <1>1, <1>2, <1>3, PrefixExists
  <1>5. k \in Nat /\ Cardinality(1..k) = k
    <2>1. k \in Nat /\ 1 \in Int /\ k \in Int
      BY <1>1, <1>4
    <2>2. Cardinality(1..k) = IF 1 > k THEN 0 ELSE k - 1 + 1
      BY <2>1, FS_Interval
    <2> QED
      BY <2>1, <2>2
  <1>6. Cardinality(T) = k
    BY <1>4, <1>5
  <1>7. k < ByteRange => k % ByteRange = k
    BY <1>5, ByteAssumption
  <1> QED
    BY <1>4, <1>6, <1>7 DEF T, n, SignersFit

(* Each static account is in the finished ordered list, and nothing else is.  *)
LEMMA OrderedEntries ==
    ASSUME IInv, pc = "returned"
    PROVE  /\ \A i \in 1..Len(ordered) :
                  \E j \in 1..Len(staticAccounts) : ordered[i] = staticAccounts[j]
           /\ \A j \in 1..Len(staticAccounts) :
                  \E i \in 1..Len(ordered) : ordered[i] = staticAccounts[j]
           /\ ordered[1] = staticAccounts[1]
           /\ Len(ordered) \in Nat \ {0}
           /\ \A i \in 1..Len(ordered) : ordered[i].key \in Keys
           /\ msg.header = HeaderOf(ordered, ByteRange)
           /\ Len(msg.accountKeys) = Len(ordered)
           /\ \A i \in 1..Len(ordered) : msg.accountKeys[i] = ordered[i].key
  <1>1. ordered \in Seq(AccountInfos(Keys)) /\ staticAccounts \in Seq(AccountInfos(Keys))
    BY DEF IInv, Shape, TypeOK
  <1>2. /\ Len(ordered) \in Nat
        /\ \A i \in 1..Len(ordered) : ordered[i].key \in Keys
    BY <1>1, TypedEntries
  <1>3. \A j \in 1..Len(staticAccounts) : Taken(j)
    BY DEF Taken
  <1>4. /\ \A i \in 1..Len(ordered) :
               \E j \in 1..Len(staticAccounts) : ordered[i] = staticAccounts[j]
        /\ \A j \in 1..Len(staticAccounts) :
               \E i \in 1..Len(ordered) : ordered[i] = staticAccounts[j]
    BY <1>3 DEF IInv, InOrder
  <1>5. 1 \in 1..Len(staticAccounts)
    BY <1>1 DEF IInv, Collected
  <1>6. Len(ordered) > 0 /\ ordered[1] = staticAccounts[1]
    <2>1. PICK i \in 1..Len(ordered) : ordered[i] = staticAccounts[1]
      BY <1>4, <1>5
    <2>2. Len(ordered) > 0
      BY <1>2, <2>1
    <2> QED
      BY <2>2 DEF IInv, InOrder
  <1>7. msg.header = HeaderOf(ordered, ByteRange) /\ msg.accountKeys = KeysOf(ordered)
    BY DEF IInv, HeaderBuilt
  <1>8. Len(msg.accountKeys) = Len(ordered)
        /\ \A i \in 1..Len(ordered) : msg.accountKeys[i] = ordered[i].key
    BY <1>1, <1>7, KeysOfType
  <1> QED
    BY <1>2, <1>4, <1>6, <1>7, <1>8

LEMMA IInvSignersFirst == IInv => SignersFirst
  <1> SUFFICES ASSUME IInv, pc = "returned", SignersFit
               PROVE  /\ \A i \in 1..Len(msg.accountKeys) :
                             GrantsSigner(msg, i - 1) <=>
                                 AskedSigner(instructions, feePayer, msg.accountKeys[i])
                      /\ \A pk \in Keys : AskedSigner(instructions, feePayer, pk) =>
                             Holds(msg.accountKeys, pk)
    BY DEF SignersFirst
  <1> DEFINE k == Cardinality(Signers(ordered))
  <1>1. k \in 0..Len(ordered) /\ Signers(ordered) = 1..k /\ k % ByteRange = k
    BY SignersArePrefix DEF IInv
  <1>2. msg.header.numRequiredSignatures = k
    BY <1>1, OrderedEntries DEF HeaderOf
  <1>3. Len(ordered) \in Nat /\ Len(msg.accountKeys) = Len(ordered)
    BY OrderedEntries
  <1>4. ASSUME NEW i \in 1..Len(ordered)
        PROVE  GrantsSigner(msg, i - 1) <=> AskedSigner(instructions, feePayer, msg.accountKeys[i])
    <2>1. GrantsSigner(msg, i - 1) <=> i \in 1..k
      BY <1>1, <1>2, <1>3 DEF GrantsSigner
    <2>2. i \in 1..k <=> ordered[i].isSigner
      BY <1>1 DEF Signers
    <2>3. PICK j \in 1..Len(staticAccounts) : ordered[i] = staticAccounts[j]
      BY OrderedEntries
    <2>4. staticAccounts[j].isSigner <=> AskedSigner(instructions, feePayer, staticAccounts[j].key)
      BY DEF IInv, Collected
    <2>5. msg.accountKeys[i] = staticAccounts[j].key
      BY <2>3, OrderedEntries
    <2> QED
      BY <2>1, <2>2, <2>3, <2>4, <2>5
  <1>5. ASSUME NEW pk \in Keys, AskedSigner(instructions, feePayer, pk)
        PROVE  Holds(msg.accountKeys, pk)
    <2>1. PICK j \in 1..Len(staticAccounts) : staticAccounts[j].key = pk
      BY <1>5 DEF IInv, Collected
    <2>2. PICK i \in 1..Len(ordered) : ordered[i] = staticAccounts[j]
      BY OrderedEntries
    <2>3. msg.accountKeys[i] = pk
      BY <2>1, <2>2, OrderedEntries
    <2> QED
      BY <1>3, <2>3 DEF Holds
  <1> QED
    BY <1>3, <1>4, <1>5

LEMMA IInvFeePayerFirst == IInv => FeePayerFirst
  <1> SUFFICES ASSUME IInv, pc = "returned", SignersFit
               PROVE  /\ msg.accountKeys[1] = feePayer
                      /\ GrantsSigner(msg, 0)
                      /\ GrantsWritable(msg, TableContents, 0)
    BY DEF FeePayerFirst
  <1> DEFINE S == Signers(ordered)
             R == Readonly(ordered) \cap S
             k == Cardinality(S)
             r == Cardinality(R)
  <1>1. k \in 0..Len(ordered) /\ S = 1..k /\ k % ByteRange = k /\ Len(ordered) \in Nat \ {0}
    BY SignersArePrefix, OrderedEntries DEF IInv
  <1>2. ordered[1].key = feePayer /\ ordered[1].isSigner /\ ordered[1].isWritable
    BY OrderedEntries DEF IInv, Collected
  <1>3. 1 \in S /\ 1 \notin R
    BY <1>1, <1>2 DEF Signers, Readonly
  <1>4. IsFiniteSet(S) /\ k \in Nat /\ r \in Nat
    BY CountsAreFinite DEF IInv, Shape, TypeOK
  <1>5. R \in SUBSET (S \ {1})
    BY <1>3
  <1> HIDE DEF R, S
  <1>6. r < k
    <2>1. IsFiniteSet(S \ {1}) /\ Cardinality(S \ {1}) = k - 1
      BY <1>3, <1>4, FS_RemoveElement
    <2>2. r <= k - 1
      BY <1>5, <2>1, FS_Subset
    <2> QED
      BY <1>4, <2>2
  <1>7. r % ByteRange <= r /\ r % ByteRange \in Nat
    BY <1>4, ByteOf, ByteAssumption
  <1>8. /\ msg.header.numRequiredSignatures = k
        /\ msg.header.numReadonlySignedAccounts = r % ByteRange
    <2>1. msg.header = HeaderOf(ordered, ByteRange)
      BY OrderedEntries
    <2>2. /\ HeaderOf(ordered, ByteRange).numRequiredSignatures = k % ByteRange
          /\ HeaderOf(ordered, ByteRange).numReadonlySignedAccounts = r % ByteRange
      BY DEF HeaderOf, R, S
    <2> QED
      BY <1>1, <2>1, <2>2
  <1>9. msg.accountKeys[1] = feePayer
    <2>1. \A i \in 1..Len(ordered) : msg.accountKeys[i] = ordered[i].key
      BY OrderedEntries
    <2>2. 1 \in 1..Len(ordered)
      BY <1>1
    <2> QED
      BY <1>2, <2>1, <2>2
  <1> HIDE DEF k, r
  <1>10. 0 < k /\ 0 < k - (r % ByteRange)
    BY <1>4, <1>6, <1>7
  <1> QED
    BY <1>8, <1>9, <1>10 DEF GrantsSigner, GrantsWritable

(* The static keys the header counts as signers are exactly those that must   *)
(* sign, for every list of instructions (message_v0.cpp:53-62, 128-156).      *)
THEOREM SignersComeFirst == Spec => []SignersFirst
  BY IInvInvariant, IInvSignersFirst, PTL

(* The fee payer is the first account and may be debited                      *)
(* (message_v0.cpp:64-65, 128-156).                                           *)
THEOREM FeePayerComesFirst == Spec => []FeePayerFirst
  BY IInvInvariant, IInvFeePayerFirst, PTL

-----------------------------------------------------------------------------
(* Where the keys that were asked for end up.                                 *)

(* The static list holds the key, writable if the mention asks for it. *)
HoldsStatic(pk, writable) ==
    \E j \in 1..Len(staticAccounts) :
        staticAccounts[j].key = pk /\ (writable => staticAccounts[j].isWritable)

(* Every mention was collected: as a static account or as a registration.     *)
Requested ==
    /\ \A am \in Mentions(instructions) :
           /\ GoesStatic(am) => HoldsStatic(am.pubkey, am.isWritable)
           /\ ~GoesStatic(am) => Registered(FindInLookup(am.pubkey))
    /\ \A n \in 1..Len(instructions) : HoldsStatic(instructions[n].programId, FALSE)

(* Every registration has its index in a bucket of its table. *)
Bucketed ==
    \A k \in 1..Len(registeredLookups) :
        LET lk == registeredLookups[k]
            bucket == tableBuckets[lk.tableIdx]
        IN Holds(bucket.writableIdx, lk.addrIdx) \/ Holds(bucket.readonlyIdx, lk.addrIdx)

(* The combined list starts with the static keys, and has the buckets the     *)
(* loops have come by.                                                        *)
Combined ==
    pc \in {"tables", "compile", "returned", "thrown"} =>
        /\ Len(virtualKeys) >= Len(ordered)
        /\ \A i \in 1..Len(ordered) : virtualKeys[i] = ordered[i].key
        /\ \A ti \in DOMAIN LookupTables :
               LET addresses == LookupTables[ti].addresses
                   w == tableBuckets[ti].writableIdx
                   r == tableBuckets[ti].readonlyIdx
               IN /\ pc # "tables" \/ pass = 2 \/ ti < cursor =>
                         \A i \in 1..Len(w) : Holds(virtualKeys, addresses[w[i] + 1])
                  /\ pc # "tables" \/ (pass = 2 /\ ti < cursor) =>
                         \A i \in 1..Len(r) : Holds(virtualKeys, addresses[r[i] + 1])

Indexed ==
    pc = "returned" =>
        /\ Resolvable
        /\ msg.instructions = [n \in 1..Len(instructions) |-> CompileInstruction(instructions[n])]

Reach == Requested /\ Bucketed /\ Combined /\ Indexed

LEMMA InitReach == Init => Reach
  <1> SUFFICES ASSUME Init
               PROVE  Reach
    OBVIOUS
  <1>1. /\ Mentions(instructions) = {} /\ Len(instructions) = 0
        /\ Len(registeredLookups) = 0 /\ pc = "collect"
    BY DEF Init, Mentions
  <1> QED
    BY <1>1 DEF Reach, Requested, Bucketed, Combined, Indexed

(* A mention given to the static list is found there, and those before it     *)
(* still are.                                                                 *)
LEMMA StaticGrows ==
    ASSUME Shape, Collected, NEW pk \in Keys, NEW signer \in BOOLEAN, NEW writable \in BOOLEAN,
           staticAccounts' = FindOrAdd(staticAccounts, pk, signer, writable)
    PROVE  LET HoldsThen(k, w) == \E j \in 1..Len(staticAccounts') :
                   staticAccounts'[j].key = k /\ (w => staticAccounts'[j].isWritable)
           IN HoldsThen(pk, writable) /\ \A k, w : HoldsStatic(k, w) => HoldsThen(k, w)
  <1> DEFINE old == staticAccounts
             new == staticAccounts'
             size == Len(old)
  <1>1. old \in Seq(AccountInfos(Keys)) /\ DistinctKeys(old) /\ size \in Nat
    BY DEF Shape, TypeOK, Collected
  <1>2. GrownBy(new, old, pk, signer, writable)
    BY <1>1, FindOrAddProperties
  <1> HIDE DEF old, new
  <1>3. /\ Len(new) \in {size, size + 1}
        /\ \A i \in 1..size : new[i].key = old[i].key
        /\ \E i \in 1..Len(new) : new[i].key = pk
        /\ \A i \in 1..Len(new) : new[i].isWritable <=>
               (i <= size /\ old[i].isWritable) \/ (new[i].key = pk /\ writable)
    BY <1>2 DEF GrownBy
  <1>4. \E j \in 1..Len(new) : new[j].key = pk /\ (writable => new[j].isWritable)
    BY <1>3
  <1>5. ASSUME NEW k, NEW w, NEW j \in 1..size, old[j].key = k, w => old[j].isWritable
        PROVE  \E i \in 1..Len(new) : new[i].key = k /\ (w => new[i].isWritable)
    <2>1. j \in 1..Len(new) /\ new[j].key = k /\ (w => new[j].isWritable)
      BY <1>1, <1>3, <1>5
    <2> QED
      BY <2>1
  <1>6. ASSUME NEW k, NEW w, HoldsStatic(k, w)
        PROVE  \E i \in 1..Len(new) : new[i].key = k /\ (w => new[i].isWritable)
    <2>1. PICK j \in 1..size : old[j].key = k /\ (w => old[j].isWritable)
      BY <1>6 DEF HoldsStatic, old
    <2> QED
      BY <1>5, <2>1
  <1> DEFINE HoldsThen(k, w) == \E j \in 1..Len(new) : new[j].key = k /\ (w => new[j].isWritable)
  <1>7. HoldsThen(pk, writable) /\ \A k, w : HoldsStatic(k, w) => HoldsThen(k, w)
    BY <1>4, <1>6
  <1> QED
    BY <1>7 DEF new

LEMMA StepRequested == Shape /\ Collected /\ Requested /\ [Next]_vars => Requested'
  <1> SUFFICES ASSUME Shape, Collected, Requested, [Next]_vars
               PROVE  Requested'
    OBVIOUS
  <1> DEFINE HoldsThen(k, w) == \E j \in 1..Len(staticAccounts') :
                 staticAccounts'[j].key = k /\ (w => staticAccounts'[j].isWritable)
             RegisteredThen(ref) == \E i \in DOMAIN registeredLookups' : IsFor(registeredLookups'[i], ref)
  <1>0. instructions \in Seq(Instructions(Keys)) /\ Len(instructions) \in Nat
    BY DEF Shape, TypeOK
  <1>a. ASSUME \A am \in Mentions(instructions') :
                   /\ GoesStatic(am) => HoldsThen(am.pubkey, am.isWritable)
                   /\ ~GoesStatic(am) => RegisteredThen(FindInLookup(am.pubkey)),
               \A n \in 1..Len(instructions') : HoldsThen(instructions'[n].programId, FALSE)
        PROVE  Requested'
    BY <1>a DEF Requested, HoldsStatic, Registered
  <1>b. /\ \A am \in Mentions(instructions) :
               /\ GoesStatic(am) => HoldsStatic(am.pubkey, am.isWritable)
               /\ ~GoesStatic(am) => Registered(FindInLookup(am.pubkey))
        /\ \A n \in 1..Len(instructions) : HoldsStatic(instructions[n].programId, FALSE)
    BY DEF Requested
  <1>1. ASSUME NEW p \in ProgramIds, StartInstruction(p)
        PROVE  Requested'
    <2>1. p \in Keys
      BY KeysAssumption
    <2>2. /\ Mentions(instructions') = Mentions(instructions)
          /\ Len(instructions') = Len(instructions) + 1
          /\ \A n \in 1..Len(instructions) : instructions'[n] = instructions[n]
          /\ instructions'[Len(instructions) + 1].programId = p
          /\ registeredLookups' = registeredLookups
      BY <1>0, <1>1, <2>1, MentionsNewInstruction DEF StartInstruction
    <2>3. HoldsThen(p, FALSE) /\ \A k, w : HoldsStatic(k, w) => HoldsThen(k, w)
      BY <1>1, <2>1, StaticGrows DEF StartInstruction
    <2>4. \A ref : Registered(ref) => RegisteredThen(ref)
      BY <2>2 DEF Registered
    <2>5. \A n \in 1..Len(instructions') : HoldsThen(instructions'[n].programId, FALSE)
      <3> TAKE n \in 1..Len(instructions')
      <3>1. CASE n \in 1..Len(instructions)
        BY <1>b, <2>2, <2>3, <3>1
      <3>2. CASE n = Len(instructions) + 1
        <4>1. instructions'[n].programId = p
          BY <2>2, <3>2
        <4> QED
          BY <2>3, <4>1
      <3> QED
        BY <1>0, <2>2, <3>1, <3>2
    <2> HIDE DEF HoldsThen, RegisteredThen
    <2> QED
      BY <1>a, <1>b, <2>2, <2>3, <2>4, <2>5
  <1>2. ASSUME NEW am \in AccountMetas(Keys), ReadAccount(am)
        PROVE  /\ Mentions(instructions') = Mentions(instructions) \cup {am}
               /\ Len(instructions') = Len(instructions)
               /\ \A n \in 1..Len(instructions) :
                      instructions'[n].programId = instructions[n].programId
    BY <1>0, <1>2, MentionsWithAccount, WithAccountProperties DEF ReadAccount
  <1>3. ASSUME NEW am \in AccountMetas(Keys), AddStaticAccount(am)
        PROVE  Requested'
    <2>1. /\ ReadAccount(am) /\ GoesStatic(am) /\ registeredLookups' = registeredLookups
          /\ am.pubkey \in Keys /\ am.isSigner \in BOOLEAN /\ am.isWritable \in BOOLEAN
          /\ staticAccounts' = FindOrAdd(staticAccounts, am.pubkey, am.isSigner, am.isWritable)
      BY <1>3 DEF AddStaticAccount, AccountMetas
    <2>2. HoldsThen(am.pubkey, am.isWritable) /\ \A k, w : HoldsStatic(k, w) => HoldsThen(k, w)
      BY <2>1, StaticGrows
    <2>3. \A ref : Registered(ref) => RegisteredThen(ref)
      BY <2>1 DEF Registered
    <2> HIDE DEF HoldsThen, RegisteredThen
    <2> QED
      BY <1>2, <1>a, <1>b, <2>1, <2>2, <2>3
  <1>4. ASSUME NEW am \in AccountMetas(Keys), RegisterLookup(am) \/ UpgradeLookup(am)
        PROVE  Requested'
    <2>1. ReadAccount(am) /\ ~GoesStatic(am) /\ staticAccounts' = staticAccounts
      BY <1>4 DEF RegisterLookup, UpgradeLookup
    <2>2. \A k, w : HoldsStatic(k, w) => HoldsThen(k, w)
      BY <2>1 DEF HoldsStatic
    <2>3. registeredLookups \in Seq(LookupRefs)
      BY DEF Shape, TypeOK
    <2>4. /\ RegisteredThen(FindInLookup(am.pubkey))
          /\ \A ref : Registered(ref) => RegisteredThen(ref)
      <3> DEFINE mine == FindInLookup(am.pubkey)
                 size == Len(registeredLookups)
                 new == [tableIdx |-> mine.tableIdx, addrIdx |-> mine.addrIdx,
                         isWritable |-> am.isWritable]
      <3>1. CASE RegisterLookup(am)
        <4>1. registeredLookups' = Append(registeredLookups, new)
          BY <3>1 DEF RegisterLookup
        <4>2. IsFor(new, mine)
          BY DEF IsFor
        <4> HIDE DEF new, mine
        <4>3. /\ DOMAIN registeredLookups = 1..size /\ DOMAIN registeredLookups' = 1..(size + 1)
              /\ \A i \in 1..size : registeredLookups'[i] = registeredLookups[i]
              /\ registeredLookups'[size + 1] = new /\ size \in Nat
          BY <2>3, <4>1
        <4> QED
          BY <4>2, <4>3 DEF Registered, mine
      <3>2. CASE UpgradeLookup(am)
        <4>1. /\ Registered(mine)
              /\ DOMAIN registeredLookups' = DOMAIN registeredLookups
              /\ \A i \in DOMAIN registeredLookups :
                     registeredLookups'[i] =
                         IF IsFor(registeredLookups[i], mine)
                         THEN [registeredLookups[i] EXCEPT !.isWritable = @ \/ am.isWritable]
                         ELSE registeredLookups[i]
          BY <3>2 DEF UpgradeLookup
        <4>2. \A i \in DOMAIN registeredLookups : registeredLookups[i] \in LookupRefs
          BY <2>3, ElementOfSeq
        <4>3. \A i \in DOMAIN registeredLookups :
                  /\ registeredLookups'[i].tableIdx = registeredLookups[i].tableIdx
                  /\ registeredLookups'[i].addrIdx = registeredLookups[i].addrIdx
          BY <4>1, <4>2 DEF LookupRefs
        <4> QED
          BY <4>1, <4>3 DEF Registered, IsFor
      <3> QED
        BY <1>4, <3>1, <3>2
    <2> HIDE DEF HoldsThen, RegisteredThen
    <2> QED
      BY <1>2, <1>a, <1>b, <2>1, <2>2, <2>4
  <1>5. CASE UNCHANGED <<instructions, staticAccounts, registeredLookups>>
    BY <1>5 DEF Requested, HoldsStatic, Registered
  <1> QED
    BY <1>1, <1>3, <1>4, <1>5
    DEF Next, Finished, vars, inputs, collected, EndInstructions, OrderAccount, NextPass,
        BuildHeader, AppendBucket, EndTables, Compile, ThrowUnresolved

LEMMA StepBucketed == Shape /\ Bucketed /\ [Next]_vars => Bucketed'
  <1> SUFFICES ASSUME Shape, Bucketed, [Next]_vars
               PROVE  Bucketed'
    OBVIOUS
  <1> DEFINE size == Len(registeredLookups)
             HasThen(ti, ai) == \/ Holds(tableBuckets'[ti].writableIdx, ai)
                                \/ Holds(tableBuckets'[ti].readonlyIdx, ai)
  <1>0. /\ registeredLookups \in Seq(LookupRefs) /\ size \in Nat
        /\ DOMAIN registeredLookups = 1..size
        /\ tableBuckets \in [DOMAIN LookupTables -> Buckets]
        /\ \A k \in 1..size : registeredLookups[k] \in LookupRefs
    BY ElementOfSeq DEF Shape, TypeOK
  <1>1. ASSUME NEW am \in AccountMetas(Keys), RegisterLookup(am)
        PROVE  Bucketed'
    <2> DEFINE ref == FindInLookup(am.pubkey)
               ti == ref.tableIdx
               ai == ref.addrIdx
               new == [tableIdx |-> ti, addrIdx |-> ai, isWritable |-> am.isWritable]
               w == tableBuckets[ti].writableIdx
               r == tableBuckets[ti].readonlyIdx
    <2>1. ti \in DOMAIN LookupTables /\ ai \in 0..(ByteRange - 1)
      BY <1>1, FindInLookupType DEF RegisterLookup, GoesStatic, AccountMetas
    <2>2. /\ registeredLookups' = Append(registeredLookups, new)
          /\ tableBuckets' =
                 IF am.isWritable
                 THEN [tableBuckets EXCEPT ![ti].writableIdx = Append(@, ai)]
                 ELSE [tableBuckets EXCEPT ![ti].readonlyIdx = Append(@, ai)]
      BY <1>1 DEF RegisterLookup
    <2>3. tableBuckets[ti] \in Buckets /\ w \in Seq(0..(ByteRange - 1)) /\ r \in Seq(0..(ByteRange - 1))
      BY <1>0, <2>1 DEF Buckets
    <2>4. /\ \A t \in DOMAIN LookupTables : t # ti => tableBuckets'[t] = tableBuckets[t]
          /\ \/ tableBuckets'[ti].writableIdx = Append(w, ai) /\ tableBuckets'[ti].readonlyIdx = r
             \/ tableBuckets'[ti].writableIdx = w /\ tableBuckets'[ti].readonlyIdx = Append(r, ai)
      BY <1>0, <2>1, <2>2, <2>3 DEF Buckets
    <2>5. new \in LookupRefs /\ new.tableIdx = ti /\ new.addrIdx = ai
      BY <2>1 DEF LookupRefs, AccountMetas
    <2> HIDE DEF new, w, r, ai, ti, ref
    <2>6. ASSUME NEW list \in Seq(0..(ByteRange - 1))
          PROVE  Holds(Append(list, ai), ai) /\ \A x : Holds(list, x) => Holds(Append(list, ai), x)
      <3>1. /\ Len(Append(list, ai)) = Len(list) + 1 /\ Len(list) \in Nat
            /\ \A i \in 1..Len(list) : Append(list, ai)[i] = list[i]
            /\ Append(list, ai)[Len(list) + 1] = ai
        BY <2>1
      <3> QED
        BY <3>1 DEF Holds
    <2>7. HasThen(ti, ai)
      BY <2>3, <2>4, <2>6
    <2>8. ASSUME NEW t \in DOMAIN LookupTables, NEW x,
                 Holds(tableBuckets[t].writableIdx, x) \/ Holds(tableBuckets[t].readonlyIdx, x)
          PROVE  HasThen(t, x)
      <3>1. CASE t = ti
        BY <2>3, <2>4, <2>6, <2>8, <3>1 DEF w, r
      <3>2. CASE t # ti
        BY <2>4, <2>8, <3>2
      <3> QED
        BY <3>1, <3>2
    <2>9. /\ Len(registeredLookups') = size + 1
          /\ \A k \in 1..size : registeredLookups'[k] = registeredLookups[k]
          /\ registeredLookups'[size + 1] = new
      BY <1>0, <2>2, <2>5
    <2> HIDE DEF HasThen
    <2>10. ASSUME NEW k \in 1..Len(registeredLookups')
           PROVE  HasThen(registeredLookups'[k].tableIdx, registeredLookups'[k].addrIdx)
      <3>1. CASE k \in 1..size
        BY <1>0, <2>8, <2>9, <3>1 DEF Bucketed, LookupRefs
      <3>2. CASE k = size + 1
        BY <2>5, <2>7, <2>9, <3>2
      <3> QED
        BY <1>0, <2>9, <3>1, <3>2
    <2> QED
      BY <2>10 DEF Bucketed, HasThen
  <1>2. ASSUME NEW am \in AccountMetas(Keys), UpgradeLookup(am)
        PROVE  Bucketed'
    <2>1. /\ tableBuckets' = tableBuckets
          /\ registeredLookups' =
                 [i \in 1..size |->
                     IF IsFor(registeredLookups[i], FindInLookup(am.pubkey))
                     THEN [registeredLookups[i] EXCEPT !.isWritable = @ \/ am.isWritable]
                     ELSE registeredLookups[i]]
      BY <1>0, <1>2 DEF UpgradeLookup
    <2>2. /\ Len(registeredLookups') = size
          /\ \A k \in 1..size :
                 /\ registeredLookups'[k].tableIdx = registeredLookups[k].tableIdx
                 /\ registeredLookups'[k].addrIdx = registeredLookups[k].addrIdx
      BY <1>0, <2>1 DEF LookupRefs
    <2> QED
      BY <2>1, <2>2 DEF Bucketed
  <1>3. CASE UNCHANGED <<registeredLookups, tableBuckets>>
    BY <1>3 DEF Bucketed
  <1> QED
    BY <1>1, <1>2, <1>3
    DEF Next, Finished, vars, collected, StartInstruction, AddStaticAccount, EndInstructions,
        OrderAccount, NextPass, BuildHeader, AppendBucket, EndTables, Compile, ThrowUnresolved

(* A bucket joins the combined list. *)
LEMMA StepCombined ==
    ASSUME Shape, Shape', Combined, [Next]_vars
    PROVE  Combined'
  <1> DEFINE n == Len(ordered)
             v == virtualKeys
             Late == {"tables", "compile", "returned", "thrown"}
  <1>0. /\ ordered \in Seq(AccountInfos(Keys)) /\ n \in Nat
        /\ v \in Seq(Keys) /\ Len(v) \in Nat
        /\ pass \in 1..4 /\ cursor \in Nat
        /\ DOMAIN LookupTables = 1..Len(LookupTables) /\ Len(LookupTables) \in Nat
    BY KeysAssumption DEF Shape, TypeOK
  <1>1. CASE BuildHeader
    <2>1. /\ virtualKeys' = KeysOf(ordered) /\ ordered' = ordered
          /\ pc' = "tables" /\ pass' = 1 /\ cursor' = 1
      BY <1>1 DEF BuildHeader
    <2>2. Len(virtualKeys') = n /\ \A i \in 1..n : virtualKeys'[i] = ordered[i].key
      BY <1>0, <2>1, KeysOfType
    <2>3. \A ti \in DOMAIN LookupTables : ~(ti < 1)
      BY <1>0
    <2> QED
      BY <1>0, <2>1, <2>2, <2>3 DEF Combined
  <1>2. CASE AppendBucket
    <2> DEFINE idx == IF pass = 1 THEN tableBuckets[cursor].writableIdx
                                  ELSE tableBuckets[cursor].readonlyIdx
               more == BucketKeys(cursor, idx)
    <2>1. /\ pc = "tables" /\ pc' = "tables" /\ pass' = pass /\ cursor' = cursor + 1
          /\ tableBuckets' = tableBuckets /\ ordered' = ordered
          /\ virtualKeys' = v \o more /\ cursor \in DOMAIN LookupTables /\ pass \in 1..2
      BY <1>0, <1>2 DEF AppendBucket, collected, Shape, TypeOK, Position
    <2>2. idx \in Seq(0..(ByteRange - 1)) /\ \A i \in 1..Len(idx) : idx[i] < Len(LookupTables[cursor].addresses)
      BY <2>1 DEF Shape, TypeOK, Buckets, BucketsInTables
    <2> HIDE DEF idx
    <2>3. /\ more \in Seq(Keys) /\ Len(more) = Len(idx)
          /\ \A i \in 1..Len(idx) : more[i] = LookupTables[cursor].addresses[idx[i] + 1]
      BY <2>1, <2>2, BucketKeysType
    <2> HIDE DEF more
    <2>4. /\ Len(virtualKeys') = Len(v) + Len(more) /\ Len(more) \in Nat
          /\ \A i \in 1..Len(v) : virtualKeys'[i] = v[i]
          /\ \A i \in 1..Len(more) : virtualKeys'[Len(v) + i] = more[i]
      <3>1. Len(more) \in Nat
        BY <2>3
      <3>2. /\ Len(v \o more) = Len(v) + Len(more)
            /\ \A i \in 1..(Len(v) + Len(more)) :
                   (v \o more)[i] = IF i <= Len(v) THEN v[i] ELSE more[i - Len(v)]
        <4>1. v \in Seq(Keys) /\ more \in Seq(Keys)
          BY <1>0, <2>3
        <4> HIDE DEF v
        <4> QED
          BY <4>1, ConcatProperties, Zenon
      <3>3. \A i \in 1..Len(v) : (v \o more)[i] = v[i]
        BY <1>0, <3>1, <3>2
      <3>4. \A i \in 1..Len(more) : (v \o more)[Len(v) + i] = more[i]
        <4> TAKE i \in 1..Len(more)
        <4>1. /\ Len(v) + i \in 1..(Len(v) + Len(more)) /\ ~(Len(v) + i <= Len(v))
              /\ (Len(v) + i) - Len(v) = i
          BY <1>0, <3>1
        <4> QED
          BY <3>2, <4>1
      <3> QED
        BY <2>1, <3>1, <3>2, <3>3, <3>4
    <2>5. \A x : Holds(v, x) => Holds(virtualKeys', x)
      BY <1>0, <2>4 DEF Holds
    <2>6. ASSUME NEW i \in 1..Len(idx)
          PROVE  Holds(virtualKeys', LookupTables[cursor].addresses[idx[i] + 1])
      <3>1. Len(v) + i \in 1..Len(virtualKeys') /\ i \in 1..Len(more)
        BY <1>0, <2>2, <2>3, <2>4
      <3> QED
        BY <2>3, <2>4, <3>1 DEF Holds
    <2>7. /\ Len(virtualKeys') >= n
          /\ \A i \in 1..n : virtualKeys'[i] = ordered[i].key
      BY <1>0, <2>1, <2>4 DEF Combined
    <2>8. ASSUME NEW ti \in DOMAIN LookupTables, pass = 2 \/ ti < cursor + 1,
                 NEW i \in 1..Len(tableBuckets[ti].writableIdx)
          PROVE  Holds(virtualKeys', LookupTables[ti].addresses[tableBuckets[ti].writableIdx[i] + 1])
      <3>1. CASE pass = 2 \/ ti < cursor
        BY <2>1, <2>5, <2>8, <3>1 DEF Combined
      <3>2. CASE pass = 1 /\ ti = cursor
        BY <2>6, <2>8, <3>2 DEF idx
      <3> QED
        BY <1>0, <2>1, <2>8, <3>1, <3>2
    <2>9. ASSUME NEW ti \in DOMAIN LookupTables, pass = 2 /\ ti < cursor + 1,
                 NEW i \in 1..Len(tableBuckets[ti].readonlyIdx)
          PROVE  Holds(virtualKeys', LookupTables[ti].addresses[tableBuckets[ti].readonlyIdx[i] + 1])
      <3>1. CASE ti < cursor
        BY <2>1, <2>5, <2>9, <3>1 DEF Combined
      <3>2. CASE ti = cursor
        BY <2>6, <2>9, <3>2 DEF idx
      <3> QED
        BY <1>0, <2>1, <2>9, <3>1, <3>2
    <2> QED
      BY <2>1, <2>7, <2>8, <2>9 DEF Combined
  <1>3. CASE EndTables
    <2>1. /\ pc = "tables" /\ cursor > Len(LookupTables) /\ pass \in 1..2
          /\ pass' = 3 - pass /\ cursor' = 1
          /\ pc' = IF pass = 1 THEN "tables" ELSE "compile"
          /\ tableBuckets' = tableBuckets /\ ordered' = ordered /\ virtualKeys' = v
      BY <1>3 DEF EndTables, collected, Shape, Position
    <2>2. \A ti \in DOMAIN LookupTables : ti < cursor /\ ~(ti < 1)
      BY <1>0, <2>1
    <2>3. CASE pass = 1
      <3>1. pc' = "tables" /\ pass' = 2 /\ cursor' = 1
        BY <2>1, <2>3
      <3> QED
        BY <2>1, <2>2, <3>1 DEF Combined
    <2>4. CASE pass = 2
      <3>1. pc' = "compile"
        BY <2>1, <2>4
      <3> QED
        BY <2>1, <2>2, <2>4, <3>1 DEF Combined
    <2> QED
      BY <2>1, <2>3, <2>4
  <1>4. CASE Compile \/ ThrowUnresolved
    <2>1. /\ pc = "compile" /\ pc' # "tables"
          /\ tableBuckets' = tableBuckets /\ ordered' = ordered /\ virtualKeys' = v
      BY <1>4 DEF Compile, ThrowUnresolved, collected
    <2> QED
      BY <2>1 DEF Combined
  <1>5. CASE pc' \in {"collect", "order"}
    BY <1>5 DEF Combined
  <1>6. CASE UNCHANGED vars
    BY <1>6 DEF vars, collected, Combined
  <1> QED
    BY <1>1, <1>2, <1>3, <1>4, <1>5, <1>6
    DEF Next, Finished, StartInstruction, ReadAccount, AddStaticAccount, RegisterLookup,
        UpgradeLookup, EndInstructions, OrderAccount, NextPass

LEMMA StepIndexed == Shape /\ Indexed /\ [Next]_vars => Indexed'
  <1> SUFFICES ASSUME Shape, Indexed, [Next]_vars, pc' = "returned"
               PROVE  /\ Resolvable'
                      /\ msg'.instructions = [n \in 1..Len(instructions') |->
                                                 CompileInstruction(instructions[n])']
    BY DEF Indexed
  <1>1. CASE Compile
    BY <1>1 DEF Compile, Shape, MsgShape, inputs, Resolvable, CompileInstruction, ResolveIndex
  <1>2. CASE UNCHANGED vars
    BY <1>2 DEF vars, inputs, Indexed, Resolvable, CompileInstruction, ResolveIndex
  <1> QED
    BY <1>1, <1>2
    DEF Next, Finished, StartInstruction, ReadAccount, AddStaticAccount, RegisterLookup,
        UpgradeLookup, EndInstructions, OrderAccount, NextPass, BuildHeader, AppendBucket,
        EndTables, ThrowUnresolved

LEMMA ReachInvariant == Spec => []Reach
  <1>1. IInv /\ IInv' /\ Reach /\ [Next]_vars => Reach'
    BY StepRequested, StepBucketed, StepCombined, StepIndexed DEF Reach, IInv
  <1> QED
    BY <1>1, InitReach, IInvInvariant, PTL DEF Spec

(* The static accounts are in the finished combined list.                     *)
LEMMA StaticIsCombined ==
    ASSUME IInv, Reach, pc \in {"tables", "compile", "returned", "thrown"},
           NEW j \in 1..Len(staticAccounts)
    PROVE  \E i \in 1..Len(ordered) :
               /\ ordered[i] = staticAccounts[j]
               /\ virtualKeys[i] = staticAccounts[j].key
               /\ i \in 1..Len(virtualKeys)
  <1>1. Taken(j)
    BY DEF Taken
  <1>2. PICK i \in 1..Len(ordered) : ordered[i] = staticAccounts[j]
    BY <1>1 DEF IInv, InOrder
  <1>3. Len(virtualKeys) \in Nat /\ Len(ordered) \in Nat
    BY DEF IInv, Shape, TypeOK
  <1>4. Len(virtualKeys) >= Len(ordered) /\ virtualKeys[i] = ordered[i].key
    BY DEF Reach, Combined
  <1> QED
    BY <1>2, <1>3, <1>4

(* By the time instructions are compiled, all they need is listed.            *)
LEMMA ResolvableInTime ==
    ASSUME IInv, Reach, pc = "compile", AddressesFit
    PROVE  Resolvable
  <1>0. /\ instructions \in Seq(Instructions(Keys)) /\ Len(instructions) \in Nat
        /\ DOMAIN instructions = 1..Len(instructions)
        /\ virtualKeys \in Seq(Keys) /\ registeredLookups \in Seq(LookupRefs)
    BY DEF IInv, Shape, TypeOK
  <1>1. ASSUME NEW pk, NEW w, HoldsStatic(pk, w)
        PROVE  Holds(virtualKeys, pk)
    <2>1. PICK j \in 1..Len(staticAccounts) : staticAccounts[j].key = pk
      BY <1>1 DEF HoldsStatic
    <2>2. PICK i \in 1..Len(virtualKeys) : virtualKeys[i] = pk
      BY <2>1, StaticIsCombined
    <2> QED
      BY <2>2 DEF Holds
  <1>2. ASSUME NEW am \in Mentions(instructions), am \in AccountMetas(Keys), ~GoesStatic(am)
        PROVE  Holds(virtualKeys, am.pubkey)
    <2> DEFINE ref == FindInLookup(am.pubkey)
               ti == ref.tableIdx
               addresses == LookupTables[ti].addresses
               bucket == tableBuckets[ti]
    <2>1. am.pubkey \in Keys /\ InLookup(am.pubkey)
      BY <1>2 DEF AccountMetas, GoesStatic
    <2>2. ti \in DOMAIN LookupTables /\ addresses[ref.addrIdx + 1] = am.pubkey
      BY <2>1, FindInLookupType DEF AddressesFit
    <2>3. PICK k \in 1..Len(registeredLookups) : IsFor(registeredLookups[k], ref)
      BY <1>0, <1>2 DEF Reach, Requested, Registered
    <2>4. registeredLookups[k].tableIdx = ti /\ registeredLookups[k].addrIdx = ref.addrIdx
      BY <2>3 DEF IsFor
    <2>5. Holds(bucket.writableIdx, ref.addrIdx) \/ Holds(bucket.readonlyIdx, ref.addrIdx)
      BY <2>4 DEF Reach, Bucketed
    <2>6. /\ \A i \in 1..Len(bucket.writableIdx) :
                 Holds(virtualKeys, addresses[bucket.writableIdx[i] + 1])
          /\ \A i \in 1..Len(bucket.readonlyIdx) :
                 Holds(virtualKeys, addresses[bucket.readonlyIdx[i] + 1])
      BY <2>2 DEF Reach, Combined
    <2> HIDE DEF ref, addresses, bucket
    <2>7. Holds(virtualKeys, addresses[ref.addrIdx + 1])
      BY <2>5, <2>6 DEF Holds
    <2> QED
      BY <2>2, <2>7
  <1>3. ASSUME NEW n \in 1..Len(instructions), NEW i \in DOMAIN instructions[n].accounts
        PROVE  Holds(virtualKeys, instructions[n].accounts[i].pubkey)
    <2> DEFINE am == instructions[n].accounts[i]
    <2>1. instructions[n] \in Instructions(Keys)
      BY <1>0, ElementOfSeq
    <2>2. instructions[n].accounts \in Seq(AccountMetas(Keys))
      BY <2>1 DEF Instructions
    <2>3. am \in AccountMetas(Keys)
      <3>1. DOMAIN instructions[n].accounts = 1..Len(instructions[n].accounts)
        BY <2>2
      <3> QED
        BY <2>2, <3>1, ElementOfSeq
    <2>4. am \in Mentions(instructions)
      BY <1>0 DEF Mentions
    <2>5. CASE GoesStatic(am)
      BY <1>1, <2>4, <2>5 DEF Reach, Requested
    <2>6. CASE ~GoesStatic(am)
      BY <1>2, <2>3, <2>4, <2>6
    <2> QED
      BY <2>5, <2>6
  <1>4. ASSUME NEW n \in 1..Len(instructions)
        PROVE  Holds(virtualKeys, instructions[n].programId)
    BY <1>1 DEF Reach, Requested
  <1> QED
    BY <1>0, <1>3, <1>4 DEF Resolvable, Needed

(* compile never throws, unless an address index wraps                        *)
(* (message_v0.cpp:177-182).                                                  *)
THEOREM CompileNeverThrows == Spec => []NeverThrows
  <1>1. Init => NeverThrows
    BY DEF Init, NeverThrows
  <1>2. IInv /\ Reach /\ NeverThrows /\ [Next]_vars => NeverThrows'
    <2> SUFFICES ASSUME IInv, Reach, NeverThrows, [Next]_vars, AddressesFit', pc' = "thrown"
                 PROVE  FALSE
      BY DEF NeverThrows
    <2>1. CASE ThrowUnresolved
      <3>1. pc = "compile" /\ ~Resolvable /\ instructions' = instructions
        BY <2>1 DEF ThrowUnresolved, inputs
      <3>2. AddressesFit
        BY <3>1 DEF AddressesFit
      <3> QED
        BY <3>1, <3>2, ResolvableInTime
    <2>2. CASE UNCHANGED vars
      BY <2>2 DEF vars, inputs, NeverThrows, AddressesFit
    <2> QED
      BY <2>1, <2>2 DEF Next, Finished, StartInstruction, ReadAccount, AddStaticAccount,
                        RegisterLookup, UpgradeLookup, EndInstructions, OrderAccount, NextPass,
                        BuildHeader, AppendBucket, EndTables, Compile, IInv, Shape, Position
  <1> QED
    BY <1>1, <1>2, IInvInvariant, ReachInvariant, PTL DEF Spec

(* An account outside the tables that some mention writes may be written at   *)
(* the index its instruction has for it (message_v0.cpp:53-62, 128-156).      *)
THEOREM StaticWritesAreGranted == Spec => []StaticWritesGranted
  <1>1. IInv /\ Reach => StaticWritesGranted
    <2> SUFFICES ASSUME IInv, Reach, pc = "returned", SignersFit, Len(virtualKeys) <= ByteRange,
                        NEW n \in 1..Len(instructions),
                        NEW i \in 1..Len(instructions[n].accounts),
                        ~InLookup(instructions[n].accounts[i].pubkey),
                        instructions[n].accounts[i].isWritable
                 PROVE  GrantsWritable(msg, TableContents, msg.instructions[n].accountIndices[i])
      BY DEF StaticWritesGranted, WriteGranted
    <2> DEFINE am == instructions[n].accounts[i]
               at == FirstIndex(virtualKeys, am.pubkey)
               size == Len(ordered)
               s == Cardinality(Signers(ordered))
               r == Cardinality(Readonly(ordered) \cap Signers(ordered))
               u == Cardinality(Readonly(ordered) \ Signers(ordered))
    <2>0. /\ instructions \in Seq(Instructions(Keys)) /\ Len(instructions) \in Nat
          /\ virtualKeys \in Seq(Keys) /\ Len(virtualKeys) \in Nat
          /\ ordered \in Seq(AccountInfos(Keys)) /\ size \in Nat
      BY DEF IInv, Shape, TypeOK
    <2>1. am \in Mentions(instructions)
      <3>1. instructions[n] \in Instructions(Keys)
        BY <2>0, ElementOfSeq
      <3>2. instructions[n].accounts \in Seq(AccountMetas(Keys))
        BY <3>1 DEF Instructions
      <3>3. n \in DOMAIN instructions /\ i \in DOMAIN instructions[n].accounts
        BY <2>0, <3>2
      <3> QED
        BY <3>3 DEF Mentions
    <2>2. HoldsStatic(am.pubkey, am.isWritable)
      BY <2>1 DEF Reach, Requested, GoesStatic
    <2>3. PICK j \in 1..Len(staticAccounts) :
              staticAccounts[j].key = am.pubkey /\ staticAccounts[j].isWritable
      BY <2>2 DEF HoldsStatic
    <2>4. PICK k \in 1..size : /\ ordered[k] = staticAccounts[j]
                               /\ virtualKeys[k] = am.pubkey
                               /\ k \in 1..Len(virtualKeys)
      BY <2>3, StaticIsCombined
    <2>5. at \in 1..k /\ virtualKeys[at] = am.pubkey
      <3>1. Holds(virtualKeys, am.pubkey)
        BY <2>4 DEF Holds
      <3>2. /\ at \in 1..Len(virtualKeys) /\ virtualKeys[at] = am.pubkey
            /\ \A x \in 1..(at - 1) : virtualKeys[x] # am.pubkey
        BY <2>0, <3>1, FirstIndexIsFirst
      <3> HIDE DEF at
      <3>3. ~(k < at)
        BY <2>0, <2>4, <3>2
      <3> QED
        BY <2>0, <2>4, <3>2, <3>3
    <2> HIDE DEF at
    <2>6. at = k
      <3>1. at \in 1..size
        BY <2>0, <2>4, <2>5
      <3>2. ordered[at].key = virtualKeys[at] /\ ordered[k].key = virtualKeys[k]
        BY <3>1 DEF Reach, Combined
      <3> QED
        BY <2>4, <2>5, <3>1, <3>2 DEF IInv, DistinctKeys
    <2>7. msg.instructions[n].accountIndices[i] = k - 1
      <3>1. msg.instructions[n].accountIndices[i] = (at - 1) % ByteRange
        BY DEF Reach, Indexed, CompileInstruction, ResolveIndex, at
      <3>2. k - 1 \in Nat /\ k - 1 < ByteRange
        BY <2>0, <2>4, ByteAssumption
      <3> QED
        BY <2>6, <3>1, <3>2, ByteOf, ByteAssumption
    <2>8. InPassOrder(ordered)
      BY DEF IInv, InOrder, Sorted, InPassOrder
    <2>9. /\ s \in 0..size /\ r \in 0..s /\ u \in 0..(size - s)
          /\ k <= s => k <= s - r
          /\ k > s => k <= size - u
      BY <2>0, <2>3, <2>4, <2>8, SortedCounts
    <2>10. /\ msg.header.numRequiredSignatures = s % ByteRange
           /\ msg.header.numReadonlySignedAccounts = r % ByteRange
           /\ msg.header.numReadonlyUnsignedAccounts = u % ByteRange
           /\ Len(msg.accountKeys) = size
      <3>1. msg.header = HeaderOf(ordered, ByteRange) /\ Len(msg.accountKeys) = size
        BY OrderedEntries
      <3>2. HeaderOf(ordered, ByteRange) = [numRequiredSignatures       |-> s % ByteRange,
                                            numReadonlySignedAccounts   |-> r % ByteRange,
                                            numReadonlyUnsignedAccounts |-> u % ByteRange]
        BY DEF HeaderOf
      <3> HIDE DEF s, r, u
      <3> QED
        BY <3>1, <3>2
    <2>11. s < ByteRange
      BY DEF SignersFit
    <2> HIDE DEF s, r, u
    <2>12. s % ByteRange = s /\ r % ByteRange = r /\ u % ByteRange \in 0..u
      <3>1. s \in Nat /\ r \in Nat /\ u \in Nat /\ r < ByteRange
        BY <2>0, <2>9, <2>11, ByteAssumption
      <3>2. ASSUME NEW x \in Nat
            PROVE  /\ x % ByteRange \in Nat
                   /\ x % ByteRange <= x
                   /\ x < ByteRange => x % ByteRange = x
        <4>1. x % ByteRange \in 0..(ByteRange - 1) /\ x % ByteRange <= x
          BY ByteOf, ByteAssumption
        <4>2. x < ByteRange => x % ByteRange = x
          BY ByteOf, ByteAssumption
        <4> QED
          BY <4>1, <4>2, ByteAssumption
      <3>3. s % ByteRange = s
        BY <2>11, <3>1, <3>2
      <3>4. r % ByteRange = r
        BY <3>1, <3>2
      <3>5. u % ByteRange \in Nat /\ u % ByteRange <= u
        BY <3>1, <3>2
      <3> QED
        BY <3>1, <3>3, <3>4, <3>5
    <2>13. CASE k <= s
      BY <2>0, <2>4, <2>7, <2>9, <2>10, <2>12, <2>13 DEF GrantsWritable
    <2>14. CASE k > s
      BY <2>0, <2>4, <2>7, <2>9, <2>10, <2>12, <2>14 DEF GrantsWritable
    <2> QED
      BY <2>0, <2>4, <2>9, <2>13, <2>14
  <1> QED
    BY <1>1, IInvInvariant, ReachInvariant, PTL

-----------------------------------------------------------------------------
(* What the lists hold was asked for.                                         *)

(* No entry of the static list may be written unless some mention says so. *)
WritesAsked ==
    \A i \in 1..Len(staticAccounts) :
        staticAccounts[i].isWritable =>
            AskedWritable(instructions, feePayer, staticAccounts[i].key)

(* The indexes of table ti that mentions of no static account, writable ones  *)
(* if that matters, ask for. *)
AskedAt(ti, writable) ==
    {x \in 0..(ByteRange - 1) :
        /\ Registered([tableIdx |-> ti, addrIdx |-> x])
        /\ \E am \in Mentions(instructions) :
               /\ am \in AccountMetas(Keys)
               /\ ~GoesStatic(am)
               /\ FindInLookup(am.pubkey) = [tableIdx |-> ti, addrIdx |-> x]
               /\ writable => am.isWritable}

(* The buckets w and r of a table hold these indexes, each in one of them and *)
(* once. *)
FilledFrom(w, r, writable, any) ==
    /\ \A i \in 1..Len(w) : w[i] \in writable
    /\ \A i \in 1..Len(r) : r[i] \in any
    /\ \A i, j \in 1..Len(w) : w[i] = w[j] => i = j
    /\ \A i, j \in 1..Len(r) : r[i] = r[j] => i = j
    /\ \A i \in 1..Len(w), j \in 1..Len(r) : w[i] # r[j]

Filled ==
    \A ti \in DOMAIN LookupTables :
        FilledFrom(tableBuckets[ti].writableIdx, tableBuckets[ti].readonlyIdx,
                   AskedAt(ti, TRUE), AskedAt(ti, FALSE))

LEMMA InitWritesAsked == Init => WritesAsked
  <1> SUFFICES ASSUME Init
               PROVE  WritesAsked
    OBVIOUS
  <1>1. feePayer \in Keys
    BY KeysAssumption DEF Init
  <1>2. Len(staticAccounts) = 1 /\ staticAccounts[1].key = feePayer
    BY DEF Init, FindOrAdd, KeysOf, Holds
  <1> QED
    BY <1>2 DEF WritesAsked, AskedWritable

(* Adding a mention to the static list lets its key be written only if the    *)
(* mention does.                                                              *)
LEMMA WritesAskedByFindOrAdd ==
    ASSUME Shape, Collected, WritesAsked,
           NEW pk \in Keys, NEW signer \in BOOLEAN, NEW writable \in BOOLEAN,
           staticAccounts' = FindOrAdd(staticAccounts, pk, signer, writable),
           feePayer' = feePayer,
           \A k \in Keys : AskedWritable(instructions, feePayer, k) \/ (k = pk /\ writable)
                               => AskedWritable(instructions', feePayer, k)
    PROVE  WritesAsked'
  <1> DEFINE old == staticAccounts
             new == staticAccounts'
             size == Len(staticAccounts)
  <1>1. old \in Seq(AccountInfos(Keys)) /\ DistinctKeys(old) /\ size \in Nat
    BY DEF Shape, TypeOK, Collected
  <1>2. /\ new \in Seq(AccountInfos(Keys))
        /\ \A i \in 1..size : new[i].key = old[i].key
        /\ \A i \in 1..Len(new) :
              new[i].isWritable <=>
                  (i <= size /\ old[i].isWritable) \/ (new[i].key = pk /\ writable)
    <2>1. new \in Seq(AccountInfos(Keys)) /\ GrownBy(new, old, pk, signer, writable)
      BY <1>1, FindOrAddProperties
    <2> QED
      BY <2>1 DEF GrownBy
  <1>3. ASSUME NEW i \in 1..Len(new), new[i].isWritable
        PROVE  AskedWritable(instructions', feePayer, new[i].key)
    <2>1. new[i].key \in Keys
      BY <1>2, TypedEntries
    <2>2. CASE new[i].key = pk /\ writable
      BY <2>1, <2>2
    <2>3. CASE i <= size /\ old[i].isWritable
      <3>1. i \in 1..size
        BY <1>1, <2>3
      <3>2. AskedWritable(instructions, feePayer, new[i].key)
        BY <1>2, <2>3, <3>1 DEF WritesAsked
      <3> QED
        BY <2>1, <3>2
    <2> QED
      BY <1>2, <1>3, <2>2, <2>3
  <1> QED
    BY <1>3 DEF WritesAsked

(* Later mentions only add to what was asked for.                             *)
LEMMA StepWritesAsked == Shape /\ Collected /\ WritesAsked /\ [Next]_vars => WritesAsked'
  <1> SUFFICES ASSUME Shape, Collected, WritesAsked, [Next]_vars
               PROVE  WritesAsked'
    OBVIOUS
  <1>0. instructions \in Seq(Instructions(Keys))
    BY DEF Shape, TypeOK
  <1>1. ASSUME NEW p \in ProgramIds, StartInstruction(p)
        PROVE  WritesAsked'
    <2>1. p \in Keys
      BY KeysAssumption
    <2>2. Mentions(instructions') = Mentions(instructions)
      BY <1>0, <1>1, <2>1, MentionsNewInstruction DEF StartInstruction
    <2>3. \A k \in Keys : AskedWritable(instructions, feePayer, k) \/ (k = p /\ FALSE)
                               => AskedWritable(instructions', feePayer, k)
      BY <2>2 DEF AskedWritable
    <2> QED
      BY <1>1, <2>1, <2>3, WritesAskedByFindOrAdd DEF StartInstruction
  <1>2. ASSUME NEW am \in AccountMetas(Keys), ReadAccount(am)
        PROVE  \A k \in Keys :
                   AskedWritable(instructions, feePayer, k) \/ (k = am.pubkey /\ am.isWritable)
                       => AskedWritable(instructions', feePayer, k)
    <2>1. Mentions(instructions') = Mentions(instructions) \cup {am}
      BY <1>0, <1>2, MentionsWithAccount DEF ReadAccount
    <2> QED
      BY <2>1 DEF AskedWritable
  <1>3. ASSUME NEW am \in AccountMetas(Keys), AddStaticAccount(am)
        PROVE  WritesAsked'
    <2>1. am.pubkey \in Keys /\ am.isSigner \in BOOLEAN /\ am.isWritable \in BOOLEAN
      BY DEF AccountMetas
    <2> QED
      BY <1>2, <1>3, <2>1, WritesAskedByFindOrAdd DEF AddStaticAccount, ReadAccount
  <1>4. ASSUME NEW am \in AccountMetas(Keys), RegisterLookup(am) \/ UpgradeLookup(am)
        PROVE  WritesAsked'
    <2>1. ReadAccount(am) /\ UNCHANGED <<feePayer, staticAccounts>>
      BY <1>4 DEF RegisterLookup, UpgradeLookup, ReadAccount
    <2>2. \A i \in 1..Len(staticAccounts) : staticAccounts[i].key \in Keys
      BY TypedEntries DEF Shape, TypeOK
    <2> QED
      BY <1>2, <2>1, <2>2 DEF WritesAsked
  <1>5. CASE UNCHANGED <<feePayer, instructions, staticAccounts>>
    BY <1>5 DEF WritesAsked
  <1> QED
    BY <1>1, <1>3, <1>4, <1>5
    DEF Next, Finished, vars, inputs, collected, EndInstructions, OrderAccount, NextPass,
        BuildHeader, AppendBucket, EndTables, Compile, ThrowUnresolved

LEMMA InitFilled == Init => Filled
  <1> SUFFICES ASSUME Init
               PROVE  Filled
    OBVIOUS
  <1>1. ASSUME NEW ti \in DOMAIN LookupTables
        PROVE  /\ 1..Len(tableBuckets[ti].writableIdx) = {}
               /\ 1..Len(tableBuckets[ti].readonlyIdx) = {}
    BY DEF Init
  <1> QED
    BY <1>1 DEF Filled, FilledFrom

(* What was asked for and registered stays so.                                *)
LEMMA AskedForGood ==
    ASSUME Shape, [Next]_vars, NEW ti \in DOMAIN LookupTables, NEW w \in BOOLEAN,
           NEW x \in AskedAt(ti, w)
    PROVE  x \in AskedAt(ti, w)'
  <1>0. /\ instructions \in Seq(Instructions(Keys)) /\ registeredLookups \in Seq(LookupRefs)
        /\ DOMAIN registeredLookups = 1..Len(registeredLookups)
        /\ \A i \in DOMAIN registeredLookups : registeredLookups[i] \in LookupRefs
    BY ElementOfSeq DEF Shape, TypeOK
  <1> DEFINE at == [tableIdx |-> ti, addrIdx |-> x]
  <1>1. ASSUME NEW am \in AccountMetas(Keys), ReadAccount(am)
        PROVE  Mentions(instructions) \subseteq Mentions(instructions')
    BY <1>0, <1>1, MentionsWithAccount DEF ReadAccount
  <1>2. ASSUME NEW p \in ProgramIds, StartInstruction(p)
        PROVE  Mentions(instructions) \subseteq Mentions(instructions')
    BY <1>0, <1>2, MentionsNewInstruction, KeysAssumption DEF StartInstruction
  <1>3. Mentions(instructions) \subseteq Mentions(instructions')
    <2>1. CASE UNCHANGED instructions
      BY <2>1
    <2> QED
      BY <1>1, <1>2, <2>1
      DEF Next, Finished, vars, inputs, AddStaticAccount, RegisterLookup, UpgradeLookup,
          EndInstructions, OrderAccount, NextPass, BuildHeader, AppendBucket, EndTables,
          Compile, ThrowUnresolved
  <1>5. PICK i \in DOMAIN registeredLookups : IsFor(registeredLookups[i], at)
    BY DEF AskedAt, Registered
  <1>6. i \in DOMAIN registeredLookups' /\ IsFor(registeredLookups'[i], at)
    <2>1. ASSUME NEW am \in AccountMetas(Keys), RegisterLookup(am)
          PROVE  i \in DOMAIN registeredLookups' /\ registeredLookups'[i] = registeredLookups[i]
      <3> DEFINE ref == FindInLookup(am.pubkey)
                 new == [tableIdx |-> ref.tableIdx, addrIdx |-> ref.addrIdx,
                         isWritable |-> am.isWritable]
      <3>1. registeredLookups' = Append(registeredLookups, new)
        BY <2>1 DEF RegisterLookup
      <3> HIDE DEF new
      <3> QED
        BY <1>0, <3>1
    <2>2. ASSUME NEW am \in AccountMetas(Keys), UpgradeLookup(am)
          PROVE  /\ i \in DOMAIN registeredLookups'
                 /\ registeredLookups'[i].tableIdx = registeredLookups[i].tableIdx
                 /\ registeredLookups'[i].addrIdx = registeredLookups[i].addrIdx
      <3>1. /\ DOMAIN registeredLookups' = DOMAIN registeredLookups
            /\ registeredLookups'[i] =
                   IF IsFor(registeredLookups[i], FindInLookup(am.pubkey))
                   THEN [registeredLookups[i] EXCEPT !.isWritable = @ \/ am.isWritable]
                   ELSE registeredLookups[i]
        BY <2>2 DEF UpgradeLookup
      <3> QED
        BY <1>0, <3>1 DEF LookupRefs
    <2>3. CASE UNCHANGED registeredLookups
      BY <1>5, <2>3
    <2> QED
      BY <1>5, <2>1, <2>2, <2>3
      DEF IsFor, Next, Finished, vars, collected, StartInstruction, AddStaticAccount,
          EndInstructions, OrderAccount, NextPass, BuildHeader, AppendBucket, EndTables,
          Compile, ThrowUnresolved
  <1> QED
    BY <1>3, <1>6 DEF AskedAt, Registered

(* A bucket may be given an index that neither bucket of its table has.       *)
LEMMA BucketGrows ==
    ASSUME NEW S, NEW w \in Seq(S), NEW r \in Seq(S), NEW writable, NEW any, NEW x \in S,
           FilledFrom(w, r, writable, any),
           \A i \in 1..Len(w) : w[i] # x, \A i \in 1..Len(r) : r[i] # x
    PROVE  /\ x \in writable => FilledFrom(Append(w, x), r, writable, any)
           /\ x \in any => FilledFrom(w, Append(r, x), writable, any)
  <1>1. ASSUME NEW list \in Seq(S)
        PROVE  /\ Len(Append(list, x)) = Len(list) + 1 /\ Len(list) \in Nat
               /\ \A i \in 1..Len(list) : Append(list, x)[i] = list[i]
               /\ Append(list, x)[Len(list) + 1] = x
    OBVIOUS
  <1>2. ASSUME NEW n \in Nat
        PROVE  \A i \in 1..(n + 1) : i \in 1..n \/ i = n + 1
    OBVIOUS
  <1>3. ASSUME x \in writable
        PROVE  FilledFrom(Append(w, x), r, writable, any)
    <2> DEFINE new == Append(w, x)
    <2>1. /\ Len(new) = Len(w) + 1 /\ Len(w) \in Nat
          /\ \A i \in 1..Len(w) : new[i] = w[i]
          /\ new[Len(w) + 1] = x
      BY <1>1
    <2> HIDE DEF new
    <2>2. \A i \in 1..Len(new) : \/ i \in 1..Len(w) /\ new[i] = w[i]
                                 \/ i = Len(w) + 1 /\ new[i] = x
      BY <2>1
    <2>3. \A i \in 1..Len(new) : new[i] \in writable
      BY <1>3, <2>2 DEF FilledFrom
    <2>4. \A i, j \in 1..Len(new) : new[i] = new[j] => i = j
      BY <2>2 DEF FilledFrom
    <2>5. \A i \in 1..Len(new), j \in 1..Len(r) : new[i] # r[j]
      BY <2>2 DEF FilledFrom
    <2>6. FilledFrom(new, r, writable, any)
      BY <2>3, <2>4, <2>5 DEF FilledFrom
    <2> QED
      BY <2>6 DEF new
  <1>4. ASSUME x \in any
        PROVE  FilledFrom(w, Append(r, x), writable, any)
    <2> DEFINE new == Append(r, x)
    <2>1. /\ Len(new) = Len(r) + 1 /\ Len(r) \in Nat
          /\ \A i \in 1..Len(r) : new[i] = r[i]
          /\ new[Len(r) + 1] = x
      BY <1>1
    <2> HIDE DEF new
    <2>2. \A i \in 1..Len(new) : \/ i \in 1..Len(r) /\ new[i] = r[i]
                                 \/ i = Len(r) + 1 /\ new[i] = x
      BY <2>1
    <2>3. \A i \in 1..Len(new) : new[i] \in any
      BY <1>4, <2>2 DEF FilledFrom
    <2>4. \A i, j \in 1..Len(new) : new[i] = new[j] => i = j
      BY <2>2 DEF FilledFrom
    <2>5. \A i \in 1..Len(w), j \in 1..Len(new) : w[i] # new[j]
      BY <2>2 DEF FilledFrom
    <2>6. FilledFrom(w, new, writable, any)
      BY <2>3, <2>4, <2>5 DEF FilledFrom
    <2> QED
      BY <2>6 DEF new
  <1> QED
    BY <1>3, <1>4

(* A registration puts one index into one bucket, which had not been          *)
(* registered and so was in neither.                                          *)
LEMMA RegisterLookupFilled ==
    ASSUME Shape, Filled, NEW am \in AccountMetas(Keys), RegisterLookup(am), [Next]_vars
    PROVE  Filled'
  <1> DEFINE ref == FindInLookup(am.pubkey)
             ti == ref.tableIdx
             x == ref.addrIdx
             w == tableBuckets[ti].writableIdx
             r == tableBuckets[ti].readonlyIdx
             new == [tableIdx |-> ti, addrIdx |-> x, isWritable |-> am.isWritable]
             B == 0..(ByteRange - 1)
  <1>0. /\ instructions \in Seq(Instructions(Keys)) /\ registeredLookups \in Seq(LookupRefs)
        /\ tableBuckets \in [DOMAIN LookupTables -> Buckets]
    BY DEF Shape, TypeOK
  <1>1. ti \in DOMAIN LookupTables /\ x \in B
    BY FindInLookupType DEF RegisterLookup, GoesStatic, AccountMetas
  <1>2. /\ registeredLookups' = Append(registeredLookups, new)
        /\ tableBuckets' =
               IF am.isWritable
               THEN [tableBuckets EXCEPT ![ti].writableIdx = Append(@, x)]
               ELSE [tableBuckets EXCEPT ![ti].readonlyIdx = Append(@, x)]
        /\ ReadAccount(am) /\ ~GoesStatic(am) /\ ~Registered(ref)
    BY DEF RegisterLookup
  <1>3. tableBuckets[ti] \in Buckets /\ w \in Seq(B) /\ r \in Seq(B)
    BY <1>0, <1>1 DEF Buckets
  <1>4. /\ \A t \in DOMAIN LookupTables : t # ti => tableBuckets'[t] = tableBuckets[t]
        /\ am.isWritable => /\ tableBuckets'[ti].writableIdx = Append(w, x)
                            /\ tableBuckets'[ti].readonlyIdx = r
        /\ ~am.isWritable => /\ tableBuckets'[ti].writableIdx = w
                             /\ tableBuckets'[ti].readonlyIdx = Append(r, x)
    BY <1>0, <1>1, <1>2, <1>3 DEF Buckets
  <1>5. new.tableIdx = ti /\ new.addrIdx = x /\ new \in LookupRefs
    BY <1>1 DEF LookupRefs, AccountMetas
  <1>6. ref = [tableIdx |-> ti, addrIdx |-> x]
    BY DEF FindInLookup
  <1>7. am \in Mentions(instructions')
    BY <1>0, <1>2, MentionsWithAccount DEF ReadAccount
  <1>8. Registered([tableIdx |-> ti, addrIdx |-> x])'
    <2> HIDE DEF new, ti, x
    <2>1. /\ Len(registeredLookups) + 1 \in DOMAIN registeredLookups'
          /\ registeredLookups'[Len(registeredLookups) + 1] = new
      BY <1>0, <1>2, <1>5
    <2>2. IsFor(new, [tableIdx |-> ti, addrIdx |-> x])
      BY <1>5 DEF IsFor
    <2> QED
      BY <2>1, <2>2 DEF Registered
  <1>9. x \in AskedAt(ti, FALSE)' /\ (am.isWritable => x \in AskedAt(ti, TRUE)')
    BY <1>1, <1>2, <1>6, <1>7, <1>8 DEF AskedAt
  <1>10. \A t \in DOMAIN LookupTables : /\ AskedAt(t, TRUE) \subseteq AskedAt(t, TRUE)'
                                        /\ AskedAt(t, FALSE) \subseteq AskedAt(t, FALSE)'
    BY AskedForGood
  <1>11. x \notin AskedAt(ti, TRUE) /\ x \notin AskedAt(ti, FALSE)
    BY <1>2, <1>6 DEF AskedAt
  <1> HIDE DEF ref, ti, x, new, B
  <1>12. ASSUME NEW t \in DOMAIN LookupTables
         PROVE  FilledFrom(tableBuckets[t].writableIdx, tableBuckets[t].readonlyIdx,
                           AskedAt(t, TRUE)', AskedAt(t, FALSE)')
    BY <1>10 DEF Filled, FilledFrom
  <1>13. /\ \A i \in 1..Len(w) : w[i] # x
         /\ \A i \in 1..Len(r) : r[i] # x
    <2>1. FilledFrom(w, r, AskedAt(ti, TRUE), AskedAt(ti, FALSE))
      BY <1>1 DEF Filled
    <2> HIDE DEF w, r
    <2> QED
      BY <1>11, <2>1 DEF FilledFrom
  <1>14. FilledFrom(tableBuckets'[ti].writableIdx, tableBuckets'[ti].readonlyIdx,
                    AskedAt(ti, TRUE)', AskedAt(ti, FALSE)')
    <2> DEFINE forWrites == AskedAt(ti, TRUE)'
               forAny == AskedAt(ti, FALSE)'
    <2>1. FilledFrom(w, r, forWrites, forAny)
      BY <1>1, <1>12
    <2>2. x \in forAny /\ (am.isWritable => x \in forWrites)
      BY <1>9
    <2> HIDE DEF w, r, forWrites, forAny
    <2>3. /\ x \in forWrites => FilledFrom(Append(w, x), r, forWrites, forAny)
          /\ FilledFrom(w, Append(r, x), forWrites, forAny)
      BY <1>1, <1>3, <1>13, <2>1, <2>2, BucketGrows
    <2>4. CASE am.isWritable
      BY <1>4, <2>2, <2>3, <2>4 DEF forWrites, forAny
    <2>5. CASE ~am.isWritable
      BY <1>4, <2>3, <2>5 DEF forWrites, forAny
    <2> QED
      BY <2>4, <2>5
  <1>15. ASSUME NEW t \in DOMAIN LookupTables
         PROVE  FilledFrom(tableBuckets'[t].writableIdx, tableBuckets'[t].readonlyIdx,
                           AskedAt(t, TRUE)', AskedAt(t, FALSE)')
    <2>1. CASE t = ti
      BY <1>14, <2>1
    <2>2. CASE t # ti
      <3>1. tableBuckets'[t] = tableBuckets[t]
        BY <1>4, <2>2
      <3> QED
        BY <1>12, <3>1
    <2> QED
      BY <2>1, <2>2
  <1> QED
    BY <1>15 DEF Filled

(* No step puts into a bucket what is there or what nobody asked for.         *)
LEMMA StepFilled == Shape /\ Filled /\ [Next]_vars => Filled'
  <1> SUFFICES ASSUME Shape, Filled, [Next]_vars
               PROVE  Filled'
    OBVIOUS
  <1>1. CASE UNCHANGED tableBuckets
    <2>1. \A t \in DOMAIN LookupTables : /\ AskedAt(t, TRUE) \subseteq AskedAt(t, TRUE)'
                                         /\ AskedAt(t, FALSE) \subseteq AskedAt(t, FALSE)'
      BY AskedForGood
    <2>2. ASSUME NEW t \in DOMAIN LookupTables
          PROVE  FilledFrom(tableBuckets'[t].writableIdx, tableBuckets'[t].readonlyIdx,
                            AskedAt(t, TRUE)', AskedAt(t, FALSE)')
      <3> DEFINE w == tableBuckets[t].writableIdx
                 r == tableBuckets[t].readonlyIdx
                 forWrites == AskedAt(t, TRUE)
                 forAny == AskedAt(t, FALSE)
                 forWrites2 == AskedAt(t, TRUE)'
                 forAny2 == AskedAt(t, FALSE)'
      <3>1. FilledFrom(w, r, forWrites, forAny)
        BY DEF Filled
      <3>2. forWrites \subseteq forWrites2 /\ forAny \subseteq forAny2
        BY <2>1
      <3> HIDE DEF w, r, forWrites, forAny, forWrites2, forAny2
      <3>3. FilledFrom(w, r, forWrites2, forAny2)
        BY <3>1, <3>2 DEF FilledFrom
      <3> QED
        BY <1>1, <3>3 DEF w, r, forWrites2, forAny2
    <2> QED
      BY <2>2 DEF Filled
  <1> QED
    BY <1>1, RegisterLookupFilled
    DEF Next, Finished, vars, collected, StartInstruction, AddStaticAccount, UpgradeLookup,
        EndInstructions, OrderAccount, NextPass, BuildHeader, AppendBucket, EndTables,
        Compile, ThrowUnresolved

-----------------------------------------------------------------------------
(* The combined list, bucket by bucket.                                       *)

(* The keys that each table's buckets load. *)
Writables == [ti \in 1..Len(LookupTables) |-> BucketKeys(ti, tableBuckets[ti].writableIdx)]
Readonlys == [ti \in 1..Len(LookupTables) |-> BucketKeys(ti, tableBuckets[ti].readonlyIdx)]

(* The combined list has the static keys and the buckets the loops have come  *)
(* by, in the order of the loops; the result has the section built from them. *)
Assembled ==
    LET written == Joined(KeysOf(ordered), FlattenSeq(Writables))
    IN /\ pc = "tables" /\ pass = 1 =>
              virtualKeys = Joined(KeysOf(ordered), FirstLists(Writables, cursor - 1))
       /\ pc = "tables" /\ pass = 2 =>
              virtualKeys = Joined(written, FirstLists(Readonlys, cursor - 1))
       /\ pc \in {"compile", "returned", "thrown"} =>
              virtualKeys = Joined(written, FlattenSeq(Readonlys))
       /\ pc = "returned" => msg.addressTableLookups = LookupSection

(* Each table has two lists of keys.                                          *)
LEMMA BucketLists ==
    ASSUME Shape
    PROVE  /\ Writables \in Seq(Seq(Keys)) /\ Len(Writables) = Len(LookupTables)
           /\ Readonlys \in Seq(Seq(Keys)) /\ Len(Readonlys) = Len(LookupTables)
           /\ \A ti \in 1..Len(LookupTables) :
                  /\ Writables[ti] = BucketKeys(ti, tableBuckets[ti].writableIdx)
                  /\ Readonlys[ti] = BucketKeys(ti, tableBuckets[ti].readonlyIdx)
  <1>1. Len(LookupTables) \in Nat /\ DOMAIN LookupTables = 1..Len(LookupTables)
    BY KeysAssumption
  <1>2. ASSUME NEW ti \in 1..Len(LookupTables)
        PROVE  /\ BucketKeys(ti, tableBuckets[ti].writableIdx) \in Seq(Keys)
               /\ BucketKeys(ti, tableBuckets[ti].readonlyIdx) \in Seq(Keys)
    <2>1. /\ tableBuckets[ti].writableIdx \in Seq(0..(ByteRange - 1))
          /\ tableBuckets[ti].readonlyIdx \in Seq(0..(ByteRange - 1))
      BY <1>1 DEF Shape, TypeOK, Buckets
    <2> QED
      BY <1>1, <2>1, BucketKeysType DEF Shape, BucketsInTables
  <1>3. /\ Writables \in [1..Len(LookupTables) -> Seq(Keys)]
        /\ Readonlys \in [1..Len(LookupTables) -> Seq(Keys)]
    BY <1>2 DEF Writables, Readonlys
  <1> QED
    BY <1>1, <1>3 DEF Writables, Readonlys

(* Each bucket goes behind those before it, and nothing else joins the list.  *)
LEMMA StepAssembled == Shape /\ Assembled /\ [Next]_vars => Assembled'
  <1> SUFFICES ASSUME Shape, Assembled, [Next]_vars
               PROVE  Assembled'
    OBVIOUS
  <1> DEFINE k == KeysOf(ordered)
             W == Writables
             R == Readonlys
             N == Len(LookupTables)
             written == Joined(k, FlattenSeq(W))
  <1>0. /\ N \in Nat /\ DOMAIN LookupTables = 1..N /\ cursor \in Nat \ {0}
        /\ k \in Seq(Keys) /\ virtualKeys \in Seq(Keys)
        /\ W \in Seq(Seq(Keys)) /\ Len(W) = N /\ R \in Seq(Seq(Keys)) /\ Len(R) = N
        /\ \A ti \in 1..N : /\ W[ti] = BucketKeys(ti, tableBuckets[ti].writableIdx)
                            /\ R[ti] = BucketKeys(ti, tableBuckets[ti].readonlyIdx)
    BY BucketLists, KeysOfType, KeysAssumption DEF Shape, TypeOK
  <1>1. /\ FirstLists(W, 0) = <<>> /\ FirstLists(W, N) = FlattenSeq(W)
        /\ FirstLists(R, 0) = <<>> /\ FirstLists(R, N) = FlattenSeq(R)
        /\ \A n \in 0..N : FirstLists(W, n) \in Seq(Keys) /\ FirstLists(R, n) \in Seq(Keys)
        /\ \A n \in 1..N : /\ FirstLists(W, n) = Joined(FirstLists(W, n - 1), W[n])
                           /\ FirstLists(R, n) = Joined(FirstLists(R, n - 1), R[n])
        /\ \A n \in 1..N : W[n] \in Seq(Keys) /\ R[n] \in Seq(Keys)
    BY <1>0, FirstListsGrow, ElementOfSeq
  <1>2. UNCHANGED <<ordered, tableBuckets>> =>
            k' = k /\ W' = W /\ R' = R /\ written' = written
    BY DEF Writables, Readonlys
  <1>3. FlattenSeq(W) \in Seq(Keys) /\ written \in Seq(Keys)
    <2>1. N \in 0..N
      BY <1>0
    <2>2. FlattenSeq(W) \in Seq(Keys)
      BY <1>1, <2>1
    <2> HIDE DEF k, W
    <2> QED
      BY <1>0, <2>2, JoinedLists
  <1>4. Assembled' =
           (/\ pc' = "tables" /\ pass' = 1 => virtualKeys' = Joined(k', FirstLists(W', cursor' - 1))
            /\ pc' = "tables" /\ pass' = 2 =>
                   virtualKeys' = Joined(written', FirstLists(R', cursor' - 1))
            /\ pc' \in {"compile", "returned", "thrown"} =>
                   virtualKeys' = Joined(written', FlattenSeq(R'))
            /\ pc' = "returned" => msg'.addressTableLookups = LookupSection')
    BY DEF Assembled
  <1>5. /\ pc = "tables" /\ pass = 1 => virtualKeys = Joined(k, FirstLists(W, cursor - 1))
        /\ pc = "tables" /\ pass = 2 => virtualKeys = Joined(written, FirstLists(R, cursor - 1))
        /\ pc \in {"compile", "returned", "thrown"} => virtualKeys = Joined(written, FlattenSeq(R))
        /\ pc = "returned" => msg.addressTableLookups = LookupSection
    BY DEF Assembled
  <1> HIDE DEF written
  <1>6. CASE BuildHeader
    <2>1. /\ pc' = "tables" /\ pass' = 1 /\ cursor' = 1 /\ virtualKeys' = k
          /\ k' = k /\ W' = W
      BY <1>2, <1>6 DEF BuildHeader, collected
    <2> HIDE DEF k, W, R
    <2>2. virtualKeys' = Joined(k, FirstLists(W, 0))
      BY <1>0, <1>1, <2>1, JoinedLists
    <2>3. cursor' - 1 = 0
      BY <2>1
    <2> QED
      BY <1>4, <2>1, <2>2, <2>3
  <1>7. CASE AppendBucket
    <2>1. /\ pc = "tables" /\ pc' = "tables" /\ pass' = pass /\ cursor' = cursor + 1
          /\ cursor <= N /\ UNCHANGED <<ordered, tableBuckets>>
          /\ virtualKeys' = Joined(virtualKeys,
                 BucketKeys(cursor, IF pass = 1 THEN tableBuckets[cursor].writableIdx
                                                ELSE tableBuckets[cursor].readonlyIdx))
      BY <1>7 DEF AppendBucket, collected, Joined
    <2>2. pass \in 1..2 /\ cursor \in 1..N
      BY <1>0, <2>1 DEF Shape, Position
    <2> HIDE DEF k, W, R, N
    <2>3. k' = k /\ W' = W /\ R' = R /\ written' = written
      BY <1>2, <2>1
    <2>4. cursor' - 1 = cursor /\ cursor - 1 \in 0..N
      BY <1>0, <2>1, <2>2
    <2> DEFINE before == cursor - 1
    <2>5. /\ FirstLists(W, cursor) = Joined(FirstLists(W, before), W[cursor])
          /\ FirstLists(R, cursor) = Joined(FirstLists(R, before), R[cursor])
          /\ FirstLists(W, before) \in Seq(Keys) /\ FirstLists(R, before) \in Seq(Keys)
          /\ W[cursor] \in Seq(Keys) /\ R[cursor] \in Seq(Keys)
      BY <1>1, <2>2, <2>4
    <2> HIDE DEF before
    <2>6. CASE pass = 1
      <3>1. virtualKeys' = Joined(Joined(k, FirstLists(W, before)), W[cursor])
        BY <1>0, <1>5, <2>1, <2>2, <2>6 DEF before
      <3>2. virtualKeys' = Joined(k, FirstLists(W, cursor))
        <4> DEFINE b == FirstLists(W, before)
                   c == W[cursor]
        <4>1. b \in Seq(Keys) /\ c \in Seq(Keys) /\ FirstLists(W, cursor) = Joined(b, c)
          BY <2>5
        <4> HIDE DEF b, c
        <4>2. Joined(Joined(k, b), c) = Joined(k, Joined(b, c))
          BY <1>0, <4>1, JoinedLists
        <4> QED
          BY <3>1, <4>1, <4>2 DEF b, c
      <3> QED
        BY <1>4, <2>1, <2>3, <2>4, <2>6, <3>2
    <2>7. CASE pass = 2
      <3>1. virtualKeys' = Joined(Joined(written, FirstLists(R, before)), R[cursor])
        BY <1>0, <1>5, <2>1, <2>2, <2>7 DEF before
      <3>2. virtualKeys' = Joined(written, FirstLists(R, cursor))
        <4> DEFINE b == FirstLists(R, before)
                   c == R[cursor]
        <4>1. b \in Seq(Keys) /\ c \in Seq(Keys) /\ FirstLists(R, cursor) = Joined(b, c)
          BY <2>5
        <4> HIDE DEF b, c
        <4>2. Joined(Joined(written, b), c) = Joined(written, Joined(b, c))
          BY <1>3, <4>1, JoinedLists
        <4> QED
          BY <3>1, <4>1, <4>2 DEF b, c
      <3> QED
        BY <1>4, <2>1, <2>3, <2>4, <2>7, <3>2
    <2> QED
      BY <2>2, <2>6, <2>7
  <1>8. CASE EndTables
    <2>1. /\ pc = "tables" /\ cursor = N + 1 /\ pass \in 1..2
          /\ pass' = 3 - pass /\ cursor' = 1
          /\ pc' = IF pass = 1 THEN "tables" ELSE "compile"
          /\ UNCHANGED <<ordered, tableBuckets>> /\ virtualKeys' = virtualKeys
      BY <1>0, <1>8 DEF EndTables, collected, Shape, Position
    <2> HIDE DEF k, W, R, N
    <2>2. cursor - 1 = N /\ cursor' - 1 = 0
      BY <1>0, <2>1
    <2>3. k' = k /\ W' = W /\ R' = R /\ written' = written
      BY <1>2, <2>1
    <2>4. CASE pass = 1
      <3>1. virtualKeys' = written
        BY <1>1, <1>5, <2>1, <2>2, <2>4 DEF written
      <3>2. virtualKeys' = Joined(written, FirstLists(R, 0))
        BY <1>1, <1>3, <3>1, JoinedLists
      <3>3. pc' = "tables" /\ pass' = 2
        BY <2>1, <2>4
      <3> QED
        BY <1>4, <2>2, <2>3, <3>2, <3>3
    <2>5. CASE pass = 2
      <3>1. virtualKeys' = Joined(written, FlattenSeq(R))
        BY <1>1, <1>5, <2>1, <2>2, <2>5
      <3>2. pc' = "compile"
        BY <2>1, <2>5
      <3> QED
        BY <1>4, <2>3, <3>1, <3>2
    <2> QED
      BY <2>1, <2>4, <2>5
  <1>9. UNCHANGED tableBuckets => LookupSection' = LookupSection
    BY DEF LookupSection, LookupEntry, IsUsed
  <1>10. CASE Compile \/ ThrowUnresolved
    <2>1. /\ pc = "compile" /\ pc' \in {"returned", "thrown"}
          /\ UNCHANGED <<ordered, tableBuckets>> /\ virtualKeys' = virtualKeys
      BY <1>10 DEF Compile, ThrowUnresolved, collected
    <2>2. pc' = "returned" => msg'.addressTableLookups = LookupSection
      BY <1>10 DEF Compile, ThrowUnresolved, Shape, MsgShape
    <2> HIDE DEF k, W, R, N
    <2> QED
      BY <1>2, <1>4, <1>5, <1>9, <2>1, <2>2
  <1>11. CASE pc' \in {"collect", "order"}
    BY <1>4, <1>11
  <1>12. CASE UNCHANGED vars
    <2>1. /\ UNCHANGED <<ordered, tableBuckets, virtualKeys, pc, pass, cursor, msg>>
      BY <1>12 DEF vars, collected
    <2> HIDE DEF k, W, R, N
    <2> QED
      BY <1>2, <1>4, <1>5, <1>9, <2>1
  <1> QED
    BY <1>6, <1>7, <1>8, <1>10, <1>11, <1>12
    DEF Next, Finished, StartInstruction, ReadAccount, AddStaticAccount, RegisterLookup,
        UpgradeLookup, EndInstructions, OrderAccount, NextPass

LEMMA InitAssembled == Init => Assembled
  BY DEF Init, Assembled

-----------------------------------------------------------------------------
(* The lookup section loads what the combined list has.                       *)

(* A table's content is that of any table with its address.                   *)
LEMMA ContentsOf ==
    ASSUME NEW ti \in DOMAIN LookupTables
    PROVE  TableContents[LookupTables[ti].key] = LookupTables[ti].addresses
  <1> DEFINE k == LookupTables[ti].key
             tj == CHOOSE t \in DOMAIN LookupTables : LookupTables[t].key = k
  <1>1. tj \in DOMAIN LookupTables /\ LookupTables[tj].key = k
    OBVIOUS
  <1>2. LookupTables[tj].addresses = LookupTables[ti].addresses
    <2> HIDE DEF tj
    <2> QED
      BY <1>1, KeysAssumption
  <1>3. TableContents[k] = LookupTables[tj].addresses
    BY DEF TableContents
  <1> QED
    BY <1>2, <1>3

(* The entry of a table loads its two lists; a table that is left out has     *)
(* none.                                                                      *)
LEMMA SectionEntry ==
    ASSUME Shape, NEW ti \in DOMAIN LookupTables
    PROVE  LET entry == LookupEntry(ti)
               addresses == TableContents[entry.accountKey]
           IN /\ AddressesAt(addresses, entry.writableIndexes) = Writables[ti]
              /\ AddressesAt(addresses, entry.readonlyIndexes) = Readonlys[ti]
              /\ ~IsUsed(ti) => Writables[ti] = <<>> /\ Readonlys[ti] = <<>>
  <1> DEFINE w == tableBuckets[ti].writableIdx
             r == tableBuckets[ti].readonlyIdx
  <1>1. ti \in 1..Len(LookupTables)
    BY KeysAssumption
  <1>2. Writables[ti] = BucketKeys(ti, w) /\ Readonlys[ti] = BucketKeys(ti, r)
    BY <1>1, BucketLists
  <1>3. /\ LookupEntry(ti).accountKey = LookupTables[ti].key
        /\ LookupEntry(ti).writableIndexes = w /\ LookupEntry(ti).readonlyIndexes = r
    BY DEF LookupEntry
  <1>4. \A indexes : AddressesAt(LookupTables[ti].addresses, indexes) = BucketKeys(ti, indexes)
    BY DEF AddressesAt, BucketKeys
  <1>5. BucketKeys(ti, <<>>) = <<>>
    BY DEF BucketKeys
  <1>6. ~IsUsed(ti) => w = <<>> /\ r = <<>>
    BY DEF IsUsed
  <1> HIDE DEF w, r
  <1> QED
    BY <1>2, <1>3, <1>4, <1>5, <1>6, ContentsOf

(* What a lookup section is made of. *)
Entries == {LookupEntry(ti) : ti \in DOMAIN LookupTables}

(* What the entries of a section give, one entry after the other. *)
Gives(of, section) == [e \in 1..Len(section) |-> of[section[e]]]

(* An entry added to a section gives its part behind the others.              *)
LEMMA OneMoreEntry ==
    ASSUME NEW of \in [Entries -> Seq(Keys)], NEW section \in Seq(Entries), NEW entry \in Entries
    PROVE  /\ FlattenSeq(Gives(of, section)) \in Seq(Keys)
           /\ FlattenSeq(Gives(of, Append(section, entry))) =
                  Joined(FlattenSeq(Gives(of, section)), of[entry])
  <1> DEFINE longer == Append(section, entry)
             size == Len(section)
             s == Gives(of, section)
             t == Gives(of, longer)
  <1>1. /\ longer \in Seq(Entries) /\ Len(longer) = size + 1 /\ size \in Nat
        /\ \A i \in 1..size : longer[i] = section[i]
        /\ longer[size + 1] = entry
    OBVIOUS
  <1>2. ASSUME NEW list \in Seq(Entries)
        PROVE  /\ Gives(of, list) \in Seq(Seq(Keys)) /\ Len(Gives(of, list)) = Len(list)
               /\ \A e \in 1..Len(list) : Gives(of, list)[e] = of[list[e]]
    <2>1. \A e \in 1..Len(list) : of[list[e]] \in Seq(Keys)
      BY ElementOfSeq
    <2>2. Gives(of, list) \in [1..Len(list) -> Seq(Keys)]
      BY <2>1 DEF Gives
    <2> QED
      BY <2>2 DEF Gives
  <1>3. /\ s \in Seq(Seq(Keys)) /\ Len(s) = size
        /\ \A e \in 1..size : s[e] = of[section[e]]
    BY <1>2
  <1>4. /\ t \in Seq(Seq(Keys)) /\ Len(t) = size + 1
        /\ \A e \in 1..(size + 1) : t[e] = of[longer[e]]
    <2> HIDE DEF longer
    <2> QED
      BY <1>1, <1>2
  <1> HIDE DEF longer, s, t
  <1>5. \A i \in 1..size : t[i] = s[i]
    BY <1>1, <1>3, <1>4
  <1>6. t[size + 1] = of[entry]
    <2>1. size + 1 \in 1..(size + 1)
      BY <1>1
    <2> QED
      BY <1>1, <1>4, <2>1
  <1>7. FlattenSeq(t) = Joined(FlattenSeq(s), t[Len(t)])
    <2>1. Len(t) = Len(s) + 1 /\ \A i \in 1..Len(s) : t[i] = s[i]
      BY <1>1, <1>3, <1>4, <1>5
    <2>2. s \in Seq(Seq(Keys)) /\ t \in Seq(Seq(Keys))
      BY <1>3, <1>4
    <2> QED
      BY <2>1, <2>2, FlattenOneMore
  <1>8. FlattenSeq(s) \in Seq(Keys)
    BY <1>3, FlattenElements
  <1> QED
    BY <1>4, <1>6, <1>7, <1>8 DEF s, t, longer

(* The section is computed table by table.                                    *)
LEMMA SectionRounds ==
    \E u : /\ LookupSection = u[Len(LookupTables)]
           /\ u[0] = <<>>
           /\ \A i \in 1..Len(LookupTables) :
                  u[i] = IF IsUsed(i) THEN Append(u[i - 1], LookupEntry(i)) ELSE u[i - 1]
  <1> DEFINE N == Len(LookupTables)
             T == Seq(Entries)
             base == <<>>
             IsUpTo(h) == h = [n \in 0..N |->
                 IF n = 0 THEN <<>>
                 ELSE IF IsUsed(n) THEN Append(h[n - 1], LookupEntry(n)) ELSE h[n - 1]]
             next == [i \in 1..N |->
                 [L \in T |-> IF IsUsed(i) THEN Append(L, LookupEntry(i)) ELSE L]]
             u == CHOOSE h : IsUpTo(h)
  <1>1. N \in Nat /\ DOMAIN LookupTables = 1..N
    BY KeysAssumption
  <1>2. \A i \in 1..N : LookupEntry(i) \in Entries
    BY <1>1 DEF Entries
  <1>3. next \in [1..N -> [T -> T]] /\ base \in T
    BY <1>2
  <1>4. PICK f \in [0..N -> T] : f[0] = base /\ \A i \in 1..N : f[i] = next[i][f[i - 1]]
    <2> SUFFICES \E f \in [0..N -> T] :
                     f[0] = base /\ \A i \in 1..N : f[i] = next[i][f[i - 1]]
      OBVIOUS
    <2>1. N \in Nat /\ base \in T /\ next \in [1..N -> [T -> T]]
      BY <1>1, <1>3
    <2> HIDE DEF next, N, T, base, IsUpTo, u
    <2> QED
      BY <2>1, RoundsExist
  <1>5. IsUpTo(f)
    <2>1. ASSUME NEW i \in 1..N
          PROVE  f[i] = IF IsUsed(i) THEN Append(f[i - 1], LookupEntry(i)) ELSE f[i - 1]
      <3>1. i - 1 \in 0..N
        BY <1>1
      <3>2. f[i - 1] \in T
        BY <1>4, <3>1
      <3> HIDE DEF T
      <3> QED
        BY <1>4, <3>2
    <2>2. \A n \in 0..N : n = 0 \/ n \in 1..N
      BY <1>1
    <2> HIDE DEF N, T
    <2> QED
      BY <1>4, <2>1, <2>2
  <1>6. IsUpTo(u)
    <2> HIDE DEF IsUpTo
    <2> QED
      BY <1>5
  <1>7. LookupSection = u[N]
    BY DEF LookupSection
  <1> HIDE DEF u
  <1>8. /\ u[0] = <<>>
        /\ \A i \in 1..N : u[i] = IF IsUsed(i) THEN Append(u[i - 1], LookupEntry(i)) ELSE u[i - 1]
    <2>1. \A n \in 0..N : u[n] = IF n = 0 THEN <<>>
                                 ELSE IF IsUsed(n) THEN Append(u[n - 1], LookupEntry(n))
                                 ELSE u[n - 1]
      <3> HIDE DEF N
      <3> QED
        BY <1>6
    <2>2. 0 \in 0..N /\ \A i \in 1..N : i \in 0..N /\ i # 0
      BY <1>1
    <2> QED
      BY <2>1, <2>2
  <1> QED
    BY <1>7, <1>8

(* The section gives what the tables do: the tables it leaves out give        *)
(* nothing.                                                                   *)
LEMMA SectionGives ==
    ASSUME Shape, NEW of \in [Entries -> Seq(Keys)], NEW lists \in Seq(Seq(Keys)),
           Len(lists) = Len(LookupTables),
           \A ti \in DOMAIN LookupTables : /\ of[LookupEntry(ti)] = lists[ti]
                                           /\ ~IsUsed(ti) => lists[ti] = <<>>
    PROVE  /\ LookupSection \in Seq(Entries)
           /\ FlattenSeq(Gives(of, LookupSection)) = FlattenSeq(lists)
  <1> DEFINE N == Len(LookupTables)
             T == Seq(Entries)
  <1>1. N \in Nat /\ DOMAIN LookupTables = 1..N
    BY KeysAssumption
  <1>2. \A i \in 1..N : LookupEntry(i) \in Entries
    BY <1>1 DEF Entries
  <1>7. PICK u : /\ LookupSection = u[N]
                 /\ u[0] = <<>>
                 /\ \A i \in 1..N :
                        u[i] = IF IsUsed(i) THEN Append(u[i - 1], LookupEntry(i)) ELSE u[i - 1]
    BY SectionRounds
  <1>9. /\ FirstLists(lists, 0) = <<>> /\ FirstLists(lists, N) = FlattenSeq(lists)
        /\ \A n \in 0..N : FirstLists(lists, n) \in Seq(Keys)
        /\ \A n \in 1..N : FirstLists(lists, n) = Joined(FirstLists(lists, n - 1), lists[n])
    BY FirstListsGrow
  <1> DEFINE Agrees(n) == u[n] \in T /\ FlattenSeq(Gives(of, u[n])) = FirstLists(lists, n)
             Good == {n \in Nat : n \in 0..N => Agrees(n)}
  <1>10. 0 \in Good
    <2> DEFINE none == Gives(of, <<>>)
    <2>1. none \in Seq(Seq(Keys)) /\ Len(none) = 0
      BY DEF Gives
    <2> HIDE DEF none
    <2>2. FlattenSeq(none) = <<>>
      BY <2>1, FlattenNone
    <2> QED
      BY <1>7, <1>9, <2>2 DEF none
  <1>11. ASSUME NEW n \in Nat, n \in Good
         PROVE  n + 1 \in Good
    <2> DEFINE i == n + 1
    <2>1. i \in Nat /\ i - 1 = n
      OBVIOUS
    <2> SUFFICES ASSUME i \in 0..N
                 PROVE  Agrees(i)
      BY <2>1
    <2>2. i \in 1..N /\ n \in 0..N
      BY <1>1, <2>1
    <2>3. Agrees(n)
      BY <1>11, <2>2
    <2> HIDE DEF i
    <2>4. /\ u[i] = IF IsUsed(i) THEN Append(u[n], LookupEntry(i)) ELSE u[n]
          /\ FirstLists(lists, i) = Joined(FirstLists(lists, n), lists[i])
      BY <1>7, <1>9, <2>1, <2>2
    <2>5. /\ LookupEntry(i) \in Entries
          /\ of[LookupEntry(i)] = lists[i] /\ (~IsUsed(i) => lists[i] = <<>>)
      BY <1>1, <1>2, <2>2
    <2>6. CASE IsUsed(i)
      <3> DEFINE entry == LookupEntry(i)
                 section == u[n]
      <3>1. entry \in Entries /\ section \in Seq(Entries) /\ u[i] = Append(section, entry)
        BY <2>3, <2>4, <2>5, <2>6
      <3> HIDE DEF entry, section
      <3>2. FlattenSeq(Gives(of, u[i])) = Joined(FlattenSeq(Gives(of, section)), of[entry])
        BY <3>1, OneMoreEntry
      <3>3. u[i] \in T
        BY <3>1
      <3> QED
        BY <2>3, <2>4, <2>5, <3>2, <3>3 DEF entry, section
    <2>7. CASE ~IsUsed(i)
      <3>1. u[i] = u[n] /\ lists[i] = <<>>
        BY <2>4, <2>5, <2>7
      <3>2. FirstLists(lists, n) \in Seq(Keys)
        BY <1>9, <2>2
      <3>3. FirstLists(lists, i) = FirstLists(lists, n)
        BY <2>4, <3>1, <3>2, JoinedLists
      <3> QED
        BY <2>3, <3>1, <3>3
    <2> QED
      BY <2>6, <2>7
  <1>12. Agrees(N)
    <2>1. N \in Good
      <3> HIDE DEF Good
      <3> QED
        BY <1>1, <1>10, <1>11, AllNumbers
    <2> QED
      BY <1>1, <2>1
  <1> QED
    BY <1>7, <1>9, <1>12

(* The validator loads from the section the lists that were combined.         *)
LEMMA SectionLoads ==
    ASSUME Shape, msg.addressTableLookups = LookupSection
    PROVE  /\ LoadedWritable(msg, TableContents) = FlattenSeq(Writables)
           /\ LoadedReadonly(msg, TableContents) = FlattenSeq(Readonlys)
  <1> DEFINE ofW == [entry \in Entries |->
                        AddressesAt(TableContents[entry.accountKey], entry.writableIndexes)]
             ofR == [entry \in Entries |->
                        AddressesAt(TableContents[entry.accountKey], entry.readonlyIndexes)]
             L == LookupSection
             W == Writables
             R == Readonlys
  <1>1. /\ W \in Seq(Seq(Keys)) /\ Len(W) = Len(LookupTables)
        /\ R \in Seq(Seq(Keys)) /\ Len(R) = Len(LookupTables)
        /\ DOMAIN LookupTables = 1..Len(LookupTables)
    BY BucketLists, KeysAssumption
  <1> HIDE DEF W, R
  <1>2. ASSUME NEW ti \in DOMAIN LookupTables
        PROVE  /\ LookupEntry(ti) \in Entries
               /\ ofW[LookupEntry(ti)] = W[ti] /\ ofR[LookupEntry(ti)] = R[ti]
               /\ ~IsUsed(ti) => W[ti] = <<>> /\ R[ti] = <<>>
               /\ W[ti] \in Seq(Keys) /\ R[ti] \in Seq(Keys)
    <2>1. LookupEntry(ti) \in Entries
      BY DEF Entries
    <2>2. W[ti] \in Seq(Keys) /\ R[ti] \in Seq(Keys)
      BY <1>1, ElementOfSeq
    <2> QED
      BY <2>1, <2>2, SectionEntry DEF W, R
  <1> HIDE DEF L
  <1>3. ofW \in [Entries -> Seq(Keys)] /\ ofR \in [Entries -> Seq(Keys)]
    <2>1. ASSUME NEW entry \in Entries
          PROVE  ofW[entry] \in Seq(Keys) /\ ofR[entry] \in Seq(Keys)
      <3>1. PICK ti \in DOMAIN LookupTables : entry = LookupEntry(ti)
        BY DEF Entries
      <3> HIDE DEF ofW, ofR
      <3> QED
        BY <1>2, <3>1
    <2> QED
      BY <2>1
  <1> DEFINE w == ofW
             r == ofR
  <1>4. /\ \A entry \in Entries :
               /\ w[entry] = AddressesAt(TableContents[entry.accountKey], entry.writableIndexes)
               /\ r[entry] = AddressesAt(TableContents[entry.accountKey], entry.readonlyIndexes)
    OBVIOUS
  <1> HIDE DEF w, r, ofW, ofR
  <1>5. /\ L \in Seq(Entries)
        /\ FlattenSeq(Gives(w, L)) = FlattenSeq(W)
        /\ FlattenSeq(Gives(r, L)) = FlattenSeq(R)
    BY <1>1, <1>2, <1>3, SectionGives DEF L, w, r
  <1>6. \A e \in 1..Len(L) : L[e] \in Entries
    BY <1>5, ElementOfSeq
  <1>7. /\ Gives(w, L) = [e \in 1..Len(L) |->
                             AddressesAt(TableContents[L[e].accountKey], L[e].writableIndexes)]
        /\ Gives(r, L) = [e \in 1..Len(L) |->
                             AddressesAt(TableContents[L[e].accountKey], L[e].readonlyIndexes)]
    BY <1>4, <1>6 DEF Gives
  <1> QED
    BY <1>5, <1>7 DEF LoadedWritable, LoadedReadonly, L, W, R

-----------------------------------------------------------------------------
(* What the validator makes of the message.                                   *)

Answered == WritesAsked /\ Filled /\ Assembled

LEMMA AnsweredInvariant == Spec => []Answered
  <1>1. Init => Answered
    BY InitWritesAsked, InitFilled, InitAssembled DEF Answered
  <1>2. IInv /\ Answered /\ [Next]_vars => Answered'
    BY StepWritesAsked, StepFilled, StepAssembled DEF Answered, IInv
  <1> QED
    BY <1>1, <1>2, IInvInvariant, PTL DEF Spec

(* The validator sees the list that the compiler resolved indexes in: the     *)
(* static keys, then what the writable and what the readonly buckets load.    *)
LEMMA LoadsIsCombined ==
    ASSUME IInv, Answered, pc = "returned"
    PROVE  /\ Loads(msg) = virtualKeys
           /\ msg.accountKeys = KeysOf(ordered)
           /\ LoadedWritable(msg, TableContents) = FlattenSeq(Writables)
           /\ LoadedReadonly(msg, TableContents) = FlattenSeq(Readonlys)
  <1>1. msg.accountKeys = KeysOf(ordered)
    BY DEF IInv, HeaderBuilt
  <1>2. /\ LoadedWritable(msg, TableContents) = FlattenSeq(Writables)
        /\ LoadedReadonly(msg, TableContents) = FlattenSeq(Readonlys)
    BY SectionLoads DEF IInv, Answered, Assembled
  <1>3. virtualKeys = Joined(Joined(KeysOf(ordered), FlattenSeq(Writables)), FlattenSeq(Readonlys))
    BY DEF Answered, Assembled
  <1>4. Loads(msg) = Joined(Joined(msg.accountKeys, LoadedWritable(msg, TableContents)),
                            LoadedReadonly(msg, TableContents))
    BY DEF Loads, RuntimeKeys, Joined
  <1> QED
    BY <1>1, <1>2, <1>3, <1>4

(* Every entry of that list is a static account or was loaded by a bucket.    *)
LEMMA LoadedElements ==
    ASSUME IInv, Answered, pc = "returned"
    PROVE  LET n == Len(ordered)
               w == FlattenSeq(Writables)
               r == FlattenSeq(Readonlys)
           IN /\ w \in Seq(Keys) /\ r \in Seq(Keys) /\ n \in Nat
              /\ Len(Loads(msg)) = n + Len(w) + Len(r)
              /\ \A i \in 1..Len(Loads(msg)) :
                     \/ i \in 1..n /\ Loads(msg)[i] = ordered[i].key
                     \/ i - n \in 1..Len(w) /\ Loads(msg)[i] = w[i - n]
                     \/ i - n - Len(w) \in 1..Len(r) /\ Loads(msg)[i] = r[i - n - Len(w)]
  <1> DEFINE k == KeysOf(ordered)
             n == Len(ordered)
             w == FlattenSeq(Writables)
             r == FlattenSeq(Readonlys)
             front == k \o w
             all == Loads(msg)
  <1>0. ordered \in Seq(AccountInfos(Keys))
    BY DEF IInv, Shape, TypeOK
  <1>1. /\ n \in Nat /\ k \in Seq(Keys) /\ Len(k) = n
        /\ \A i \in 1..n : k[i] = ordered[i].key
    <2>1. n \in Nat
      BY <1>0
    <2> QED
      BY <1>0, <2>1, KeysOfType
  <1>2. w \in Seq(Keys) /\ r \in Seq(Keys)
    BY BucketLists, FlattenElements DEF IInv
  <1>3. all = front \o r
    BY LoadsIsCombined DEF Loads, RuntimeKeys
  <1> HIDE DEF k, w, r, all
  <1>4. front \in Seq(Keys) /\ Len(front) = n + Len(w)
    <2>1. k \in Seq(Keys) /\ w \in Seq(Keys)
      BY <1>1, <1>2
    <2>2. k \o w \in Seq(Keys) /\ Len(k \o w) = Len(k) + Len(w)
      BY <2>1, ConcatProperties, Zenon
    <2> QED
      BY <1>1, <2>2
  <1>5. \A i \in 1..Len(front) : \/ i \in 1..n /\ front[i] = k[i]
                                 \/ i - n \in 1..Len(w) /\ front[i] = w[i - n]
    <2>1. \A i \in 1..Len(front) : \/ i \in 1..Len(k) /\ front[i] = k[i]
                                   \/ i - Len(k) \in 1..Len(w) /\ front[i] = w[i - Len(k)]
      BY <1>1, <1>2, JoinedElements
    <2> HIDE DEF front
    <2> QED
      BY <1>1, <2>1
  <1> HIDE DEF front
  <1>6. Len(all) = Len(front) + Len(r)
    BY <1>2, <1>3, <1>4, ConcatProperties
  <1>7. \A i \in 1..Len(all) : \/ i \in 1..Len(front) /\ all[i] = front[i]
                               \/ i - Len(front) \in 1..Len(r) /\ all[i] = r[i - Len(front)]
    BY <1>2, <1>3, <1>4, JoinedElements
  <1>8. ASSUME NEW i \in 1..Len(all)
        PROVE  \/ i \in 1..n /\ all[i] = ordered[i].key
               \/ i - n \in 1..Len(w) /\ all[i] = w[i - n]
               \/ i - n - Len(w) \in 1..Len(r) /\ all[i] = r[i - n - Len(w)]
    <2>1. CASE i \in 1..Len(front) /\ all[i] = front[i]
      BY <1>1, <1>5, <2>1
    <2>2. CASE i - Len(front) \in 1..Len(r) /\ all[i] = r[i - Len(front)]
      <3>1. Len(w) \in Nat
        BY <1>2
      <3>2. i - Len(front) = i - n - Len(w)
        BY <1>1, <1>4, <1>6, <3>1
      <3> QED
        BY <2>2, <3>2
    <2> QED
      BY <1>7, <2>1, <2>2
  <1> QED
    BY <1>1, <1>2, <1>4, <1>6, <1>8 DEF w, r, all

(* What a bucket loads is the key of a mention that asked for it, which has   *)
(* that place in the tables.                                                  *)
LEMMA LoadedWasAsked ==
    ASSUME Shape, Filled, AddressesFit, NEW ti \in 1..Len(LookupTables)
    PROVE  LET w == tableBuckets[ti].writableIdx
               r == tableBuckets[ti].readonlyIdx
               Place(pk, x) == FindInLookup(pk) = [tableIdx |-> ti, addrIdx |-> x]
           IN /\ Len(Writables[ti]) = Len(w) /\ Len(Readonlys[ti]) = Len(r)
              /\ \A j \in 1..Len(w) :
                     /\ Place(Writables[ti][j], w[j])
                     /\ \E am \in Mentions(instructions) :
                            am.pubkey = Writables[ti][j] /\ am.isWritable
              /\ \A j \in 1..Len(r) : Place(Readonlys[ti][j], r[j])
  <1> DEFINE w == tableBuckets[ti].writableIdx
             r == tableBuckets[ti].readonlyIdx
             addresses == LookupTables[ti].addresses
  <1>1. ti \in DOMAIN LookupTables
    BY KeysAssumption
  <1>2. /\ w \in Seq(0..(ByteRange - 1)) /\ r \in Seq(0..(ByteRange - 1))
        /\ \A i \in 1..Len(w) : w[i] < Len(addresses)
        /\ \A i \in 1..Len(r) : r[i] < Len(addresses)
    BY <1>1 DEF Shape, TypeOK, Buckets, BucketsInTables
  <1>3. FilledFrom(w, r, AskedAt(ti, TRUE), AskedAt(ti, FALSE))
    BY <1>1 DEF Filled
  <1>4. Writables[ti] = BucketKeys(ti, w) /\ Readonlys[ti] = BucketKeys(ti, r)
    BY BucketLists
  <1> HIDE DEF w, r
  <1>5. /\ Len(Writables[ti]) = Len(w) /\ \A j \in 1..Len(w) : Writables[ti][j] = addresses[w[j] + 1]
        /\ Len(Readonlys[ti]) = Len(r) /\ \A j \in 1..Len(r) : Readonlys[ti][j] = addresses[r[j] + 1]
    BY <1>1, <1>2, <1>4, BucketKeysType
  <1>6. ASSUME NEW writable \in BOOLEAN, NEW x \in AskedAt(ti, writable)
        PROVE  /\ FindInLookup(addresses[x + 1]) = [tableIdx |-> ti, addrIdx |-> x]
               /\ \E am \in Mentions(instructions) :
                      am.pubkey = addresses[x + 1] /\ (writable => am.isWritable)
    <2>1. PICK am \in Mentions(instructions) :
              /\ am \in AccountMetas(Keys) /\ ~GoesStatic(am)
              /\ FindInLookup(am.pubkey) = [tableIdx |-> ti, addrIdx |-> x]
              /\ writable => am.isWritable
      BY DEF AskedAt
    <2>2. am.pubkey \in Keys /\ InLookup(am.pubkey)
      BY <2>1 DEF AccountMetas, GoesStatic
    <2>3. AddressOf(am.pubkey) <= ByteRange
      BY <2>2 DEF AddressesFit
    <2>4. /\ FindInLookup(am.pubkey).tableIdx = ti
          /\ FindInLookup(am.pubkey).addrIdx = x
      BY <2>1
    <2>5. addresses[x + 1] = am.pubkey
      BY <2>2, <2>3, <2>4, FindInLookupType
    <2> QED
      BY <2>1, <2>5
  <1> HIDE DEF addresses
  <1>7. ASSUME NEW j \in 1..Len(w)
        PROVE  /\ FindInLookup(Writables[ti][j]) = [tableIdx |-> ti, addrIdx |-> w[j]]
               /\ \E am \in Mentions(instructions) :
                      am.pubkey = Writables[ti][j] /\ am.isWritable
    <2>1. w[j] \in AskedAt(ti, TRUE)
      BY <1>3 DEF FilledFrom
    <2>2. Writables[ti][j] = addresses[w[j] + 1]
      BY <1>5
    <2> DEFINE x == w[j]
               pk == addresses[x + 1]
    <2>3. /\ FindInLookup(pk) = [tableIdx |-> ti, addrIdx |-> x]
          /\ \E am \in Mentions(instructions) : am.pubkey = pk /\ am.isWritable
      BY <1>6, <2>1
    <2> HIDE DEF x, pk
    <2>4. Writables[ti][j] = pk /\ w[j] = x
      BY <2>2 DEF x, pk
    <2> QED
      BY <2>3, <2>4
  <1>8. ASSUME NEW j \in 1..Len(r)
        PROVE  FindInLookup(Readonlys[ti][j]) = [tableIdx |-> ti, addrIdx |-> r[j]]
    <2>1. r[j] \in AskedAt(ti, FALSE)
      BY <1>3 DEF FilledFrom
    <2> QED
      BY <1>5, <1>6, <2>1
  <1> QED
    BY <1>5, <1>7, <1>8 DEF w, r

-----------------------------------------------------------------------------
(* Theorems about the lookup section.                                         *)

(* The index of a key, if it has not wrapped, leads to it.                    *)
LEMMA IndexLeads ==
    ASSUME IInv, Answered, pc = "returned", NEW pk, Holds(virtualKeys, pk),
           FirstIndex(virtualKeys, pk) <= ByteRange
    PROVE  ResolveIndex(pk) < Len(Loads(msg)) /\ Loads(msg)[ResolveIndex(pk) + 1] = pk
  <1> DEFINE at == FirstIndex(virtualKeys, pk)
  <1>1. virtualKeys \in Seq(Keys) /\ Len(virtualKeys) \in Nat
    BY DEF IInv, Shape, TypeOK
  <1>2. at \in 1..Len(virtualKeys) /\ virtualKeys[at] = pk
    BY <1>1, FirstIndexIsFirst
  <1>3. at <= ByteRange
    OBVIOUS
  <1>4. ResolveIndex(pk) = (at - 1) % ByteRange
    BY DEF ResolveIndex
  <1> HIDE DEF at
  <1>5. at - 1 \in Nat /\ at - 1 < ByteRange
    BY <1>1, <1>2, <1>3, ByteAssumption
  <1>6. ResolveIndex(pk) = at - 1
    BY <1>4, <1>5, ByteOf, ByteAssumption
  <1> QED
    BY <1>1, <1>2, <1>6, LoadsIsCombined

(* Each index of a compiled instruction leads the validator to the account    *)
(* the instruction names, and programs are static accounts                    *)
(* (message_v0.cpp:164-203; message_v0.h:28-30).                              *)
THEOREM IndexesAreResolved == Spec => []IndexesResolve
  <1>1. IInv /\ Reach /\ Answered => IndexesResolve
    <2> SUFFICES ASSUME IInv, Reach, Answered, pc = "returned", NEW n \in 1..Len(instructions)
                 PROVE  LET asked == instructions[n]
                            ci == msg.instructions[n]
                            Leads(idx, pk) == FirstIndex(virtualKeys, pk) <= ByteRange =>
                                idx < Len(Loads(msg)) /\ Loads(msg)[idx + 1] = pk
                        IN /\ Leads(ci.programIdIndex, asked.programId)
                           /\ Holds(msg.accountKeys, asked.programId)
                           /\ \A i \in 1..Len(asked.accounts) :
                                  Leads(ci.accountIndices[i], asked.accounts[i].pubkey)
      BY DEF IndexesResolve
    <2> DEFINE asked == instructions[n]
               ci == msg.instructions[n]
    <2>1. /\ instructions \in Seq(Instructions(Keys)) /\ DOMAIN instructions = 1..Len(instructions)
      BY DEF IInv, Shape, TypeOK
    <2>2. asked.accounts \in Seq(AccountMetas(Keys))
      <3>1. asked \in Instructions(Keys)
        BY <2>1, ElementOfSeq
      <3> QED
        BY <3>1 DEF Instructions
    <2>3. /\ ci.programIdIndex = ResolveIndex(asked.programId)
          /\ \A i \in 1..Len(asked.accounts) :
                 ci.accountIndices[i] = ResolveIndex(asked.accounts[i].pubkey)
      <3>1. ci = CompileInstruction(asked)
        BY DEF Reach, Indexed
      <3> QED
        BY <3>1 DEF CompileInstruction
    <2>4. \A pk \in Needed(asked) : Holds(virtualKeys, pk)
      BY <2>1 DEF Reach, Indexed, Resolvable
    <2>5. /\ asked.programId \in Needed(asked)
          /\ \A i \in 1..Len(asked.accounts) : asked.accounts[i].pubkey \in Needed(asked)
      <3>1. DOMAIN asked.accounts = 1..Len(asked.accounts)
        BY <2>2
      <3> QED
        BY <3>1 DEF Needed
    <2>6. Holds(msg.accountKeys, asked.programId)
      <3>1. HoldsStatic(asked.programId, FALSE)
        BY DEF Reach, Requested
      <3>2. PICK j \in 1..Len(staticAccounts) : staticAccounts[j].key = asked.programId
        BY <3>1 DEF HoldsStatic
      <3>3. PICK i \in 1..Len(ordered) : ordered[i] = staticAccounts[j]
        BY OrderedEntries
      <3>4. /\ msg.accountKeys[i] = asked.programId
            /\ i \in 1..Len(msg.accountKeys)
        BY <3>2, <3>3, OrderedEntries
      <3> QED
        BY <3>4 DEF Holds
    <2> HIDE DEF asked, ci
    <2>7. ASSUME NEW pk, Holds(virtualKeys, pk), FirstIndex(virtualKeys, pk) <= ByteRange
          PROVE  ResolveIndex(pk) < Len(Loads(msg)) /\ Loads(msg)[ResolveIndex(pk) + 1] = pk
      BY <2>7, IndexLeads
    <2>8. /\ FirstIndex(virtualKeys, asked.programId) <= ByteRange =>
                 /\ ci.programIdIndex < Len(Loads(msg))
                 /\ Loads(msg)[ci.programIdIndex + 1] = asked.programId
      BY <2>3, <2>4, <2>5, <2>7
    <2>9. ASSUME NEW i \in 1..Len(asked.accounts),
                 FirstIndex(virtualKeys, asked.accounts[i].pubkey) <= ByteRange
          PROVE  /\ ci.accountIndices[i] < Len(Loads(msg))
                 /\ Loads(msg)[ci.accountIndices[i] + 1] = asked.accounts[i].pubkey
      BY <2>3, <2>4, <2>5, <2>7, <2>9
    <2> QED
      BY <2>6, <2>8, <2>9 DEF asked, ci
  <1> QED
    BY <1>1, IInvInvariant, ReachInvariant, AnsweredInvariant, PTL

(* A static account may be written only if its entry says so.                 *)
LEMMA StaticGrants ==
    ASSUME IInv, pc = "returned", HeaderFits(ordered, ByteRange),
           NEW i \in 1..Len(ordered), GrantsWritable(msg, TableContents, i - 1)
    PROVE  ordered[i].isWritable
  <1> DEFINE n == Len(ordered)
             s == Cardinality(Signers(ordered))
             r == Cardinality(Readonly(ordered) \cap Signers(ordered))
             u == Cardinality(Readonly(ordered) \ Signers(ordered))
  <1>1. ordered \in Seq(AccountInfos(Keys)) /\ InPassOrder(ordered)
    BY DEF IInv, Shape, TypeOK, InOrder, Sorted, InPassOrder
  <1>2. /\ n \in Nat /\ s \in 0..n /\ r \in 0..s /\ u \in 0..(n - s)
        /\ i <= s => (ordered[i].isWritable <=> i <= s - r)
        /\ i > s => (ordered[i].isWritable <=> i <= n - u)
    BY <1>1, SortedCounts
  <1>3. s < ByteRange /\ u < ByteRange
    BY DEF HeaderFits
  <1>4. /\ msg.header.numRequiredSignatures = s % ByteRange
        /\ msg.header.numReadonlySignedAccounts = r % ByteRange
        /\ msg.header.numReadonlyUnsignedAccounts = u % ByteRange
        /\ Len(msg.accountKeys) = n
    <2>1. msg.header = HeaderOf(ordered, ByteRange) /\ Len(msg.accountKeys) = n
      BY OrderedEntries
    <2>2. HeaderOf(ordered, ByteRange) = [numRequiredSignatures       |-> s % ByteRange,
                                          numReadonlySignedAccounts   |-> r % ByteRange,
                                          numReadonlyUnsignedAccounts |-> u % ByteRange]
      BY DEF HeaderOf
    <2> HIDE DEF s, r, u
    <2> QED
      BY <2>1, <2>2
  <1> HIDE DEF s, r, u, n
  <1>5. s % ByteRange = s /\ r % ByteRange = r /\ u % ByteRange = u
    <2>1. s \in Nat /\ r \in Nat /\ u \in Nat /\ r < ByteRange
      BY <1>2, <1>3, ByteAssumption
    <2>2. ASSUME NEW x \in Nat, x < ByteRange
          PROVE  x % ByteRange = x
      BY <2>2, ByteOf, ByteAssumption
    <2> QED
      BY <1>3, <2>1, <2>2
  <1>6. i \in 1..n
    BY DEF n
  <1>7. IF i - 1 < s THEN i - 1 < s - r
        ELSE IF i - 1 < n THEN i - 1 < n - u ELSE TRUE
    BY <1>4, <1>5 DEF GrantsWritable
  <1>8. CASE i <= s
    BY <1>2, <1>6, <1>7, <1>8
  <1>9. CASE i > s
    BY <1>2, <1>6, <1>7, <1>9
  <1> QED
    BY <1>2, <1>6, <1>8, <1>9

(* The message lets an account be written only if an instruction asked for it *)
(* (message_v0.cpp:93-105, 130-156).                                          *)
THEOREM WritesNotEscalated == Spec => []NoWriteEscalation
  <1>1. IInv /\ Answered => NoWriteEscalation
    <2> SUFFICES ASSUME IInv, Answered, pc = "returned", HeaderFits(ordered, ByteRange),
                        AddressesFit, NEW i \in 1..Len(Loads(msg)),
                        GrantsWritable(msg, TableContents, i - 1)
                 PROVE  AskedWritable(instructions, feePayer, Loads(msg)[i])
      BY DEF NoWriteEscalation
    <2> DEFINE n == Len(ordered)
               w == FlattenSeq(Writables)
               r == FlattenSeq(Readonlys)
    <2>1. /\ w \in Seq(Keys) /\ r \in Seq(Keys) /\ n \in Nat
          /\ \/ i \in 1..n /\ Loads(msg)[i] = ordered[i].key
             \/ i - n \in 1..Len(w) /\ Loads(msg)[i] = w[i - n]
             \/ i - n - Len(w) \in 1..Len(r) /\ Loads(msg)[i] = r[i - n - Len(w)]
      BY LoadedElements
    <2>2. CASE i \in 1..n /\ Loads(msg)[i] = ordered[i].key
      <3>1. ordered[i].isWritable
        BY <2>2, StaticGrants
      <3>2. PICK j \in 1..Len(staticAccounts) : ordered[i] = staticAccounts[j]
        BY <2>2, OrderedEntries
      <3> QED
        BY <2>2, <3>1, <3>2 DEF Answered, WritesAsked
    <2>3. CASE i - n \in 1..Len(w) /\ Loads(msg)[i] = w[i - n]
      <3> DEFINE p == i - n
      <3>1. p \in 1..Len(w) /\ Loads(msg)[i] = w[p]
        BY <2>3
      <3> HIDE DEF p
      <3>2. Writables \in Seq(Seq(Keys)) /\ Len(Writables) = Len(LookupTables)
        BY BucketLists DEF IInv
      <3>3. PICK ti \in 1..Len(Writables) : \E j \in 1..Len(Writables[ti]) : w[p] = Writables[ti][j]
        BY <3>1, <3>2, FlattenElements
      <3>4. PICK j \in 1..Len(Writables[ti]) : w[p] = Writables[ti][j]
        BY <3>3
      <3>5. \E am \in Mentions(instructions) :
                am.pubkey = Writables[ti][j] /\ am.isWritable
        BY <3>2, LoadedWasAsked DEF IInv, Answered
      <3> QED
        BY <3>1, <3>4, <3>5 DEF AskedWritable
    <2>4. CASE i - n - Len(w) \in 1..Len(r)
      <3>1. /\ msg.accountKeys = KeysOf(ordered)
            /\ LoadedWritable(msg, TableContents) = w
        BY LoadsIsCombined
      <3>2. Len(msg.accountKeys) = n
        BY OrderedEntries
      <3>3. Len(w) \in Nat /\ Len(r) \in Nat
        BY <2>1
      <3>4. i - 1 >= n + Len(w)
        BY <2>1, <2>4, <3>3
      <3>5. msg.header.numRequiredSignatures <= n
        <4>1. msg.header.numRequiredSignatures = Cardinality(Signers(ordered)) % ByteRange
          BY OrderedEntries DEF HeaderOf
        <4>2. Cardinality(Signers(ordered)) \in 0..n /\ Cardinality(Signers(ordered)) < ByteRange
          BY SignersArePrefix DEF IInv, HeaderFits
        <4>3. Cardinality(Signers(ordered)) % ByteRange = Cardinality(Signers(ordered))
          <5> DEFINE s == Cardinality(Signers(ordered))
          <5>1. s \in Nat /\ s < ByteRange
            BY <2>1, <4>2
          <5> HIDE DEF s
          <5>2. s % ByteRange = s
            BY <5>1, ByteOf, ByteAssumption
          <5> QED
            BY <5>2 DEF s
        <4> QED
          BY <4>1, <4>2, <4>3
      <3>6. msg.header.numRequiredSignatures \in Nat
        BY ByteAssumption DEF IInv, Shape, TypeOK, Headers
      <3> HIDE DEF n, w, r
      <3> QED
        BY <2>1, <3>1, <3>2, <3>3, <3>4, <3>5, <3>6 DEF GrantsWritable
    <2> QED
      BY <2>1, <2>2, <2>3, <2>4
  <1> QED
    BY <1>1, IInvInvariant, AnsweredInvariant, PTL

(* No key is in the buckets twice, for it has one place in the tables and a   *)
(* place is put in a bucket once.                                             *)
LEMMA BucketsApart ==
    ASSUME Shape, Filled, AddressesFit
    PROVE  \A d, e \in 1..Len(LookupTables) :
               /\ \A i \in 1..Len(Writables[d]), j \in 1..Len(Writables[e]) :
                      Writables[d][i] = Writables[e][j] => d = e /\ i = j
               /\ \A i \in 1..Len(Readonlys[d]), j \in 1..Len(Readonlys[e]) :
                      Readonlys[d][i] = Readonlys[e][j] => d = e /\ i = j
               /\ \A i \in 1..Len(Writables[d]), j \in 1..Len(Readonlys[e]) :
                      Writables[d][i] # Readonlys[e][j]
  <1> SUFFICES ASSUME NEW d \in 1..Len(LookupTables), NEW e \in 1..Len(LookupTables)
               PROVE  /\ \A i \in 1..Len(Writables[d]), j \in 1..Len(Writables[e]) :
                             Writables[d][i] = Writables[e][j] => d = e /\ i = j
                      /\ \A i \in 1..Len(Readonlys[d]), j \in 1..Len(Readonlys[e]) :
                             Readonlys[d][i] = Readonlys[e][j] => d = e /\ i = j
                      /\ \A i \in 1..Len(Writables[d]), j \in 1..Len(Readonlys[e]) :
                             Writables[d][i] # Readonlys[e][j]
    OBVIOUS
  <1> DEFINE w(t) == tableBuckets[t].writableIdx
             r(t) == tableBuckets[t].readonlyIdx
             Place(t, x) == [tableIdx |-> t, addrIdx |-> x]
  <1>1. \A t, u, x, y : Place(t, x) = Place(u, y) => t = u /\ x = y
    <2> TAKE t, u, x, y
    <2> HAVE Place(t, x) = Place(u, y)
    <2>1. Place(t, x).tableIdx = Place(u, y).tableIdx /\ Place(t, x).addrIdx = Place(u, y).addrIdx
      OBVIOUS
    <2> QED
      BY <2>1
  <1>2. ASSUME NEW t \in 1..Len(LookupTables)
        PROVE  /\ Len(Writables[t]) = Len(w(t)) /\ Len(Readonlys[t]) = Len(r(t))
               /\ \A j \in 1..Len(w(t)) : FindInLookup(Writables[t][j]) = Place(t, w(t)[j])
               /\ \A j \in 1..Len(r(t)) : FindInLookup(Readonlys[t][j]) = Place(t, r(t)[j])
    BY LoadedWasAsked
  <1>3. /\ \A i, j \in 1..Len(w(d)) : w(d)[i] = w(d)[j] => i = j
        /\ \A i, j \in 1..Len(r(d)) : r(d)[i] = r(d)[j] => i = j
        /\ \A i \in 1..Len(w(d)), j \in 1..Len(r(d)) : w(d)[i] # r(d)[j]
    <2>1. d \in DOMAIN LookupTables
      BY KeysAssumption
    <2> QED
      BY <2>1 DEF Filled, FilledFrom
  <1> HIDE DEF w, r, Place
  <1>4. ASSUME NEW i \in 1..Len(Writables[d]), NEW j \in 1..Len(Writables[e]),
               Writables[d][i] = Writables[e][j]
        PROVE  d = e /\ i = j
    <2>1. Place(d, w(d)[i]) = Place(e, w(e)[j])
      BY <1>2, <1>4
    <2> QED
      BY <1>1, <1>2, <1>3, <2>1
  <1>5. ASSUME NEW i \in 1..Len(Readonlys[d]), NEW j \in 1..Len(Readonlys[e]),
               Readonlys[d][i] = Readonlys[e][j]
        PROVE  d = e /\ i = j
    <2>1. Place(d, r(d)[i]) = Place(e, r(e)[j])
      BY <1>2, <1>5
    <2> QED
      BY <1>1, <1>2, <1>3, <2>1
  <1>6. ASSUME NEW i \in 1..Len(Writables[d]), NEW j \in 1..Len(Readonlys[e]),
               Writables[d][i] = Readonlys[e][j]
        PROVE  FALSE
    <2>1. Place(d, w(d)[i]) = Place(e, r(e)[j])
      BY <1>2, <1>6
    <2> QED
      BY <1>1, <1>2, <1>3, <2>1
  <1> QED
    BY <1>4, <1>5, <1>6

(* No table address is loaded twice and no key is static twice                *)
(* (message_v0.cpp:53-62, 89-105).                                            *)
THEOREM AccountsListedOnce == Spec => []ListedOnce
  <1>1. IInv /\ Answered => ListedOnce
    <2> SUFFICES ASSUME IInv, Answered, pc = "returned", AddressesFit
                 PROVE  LET numStatic == Len(msg.accountKeys)
                            Distinct(lo, hi) ==
                                \A i, j \in lo..hi : Loads(msg)[i] = Loads(msg)[j] => i = j
                        IN /\ Distinct(1, numStatic)
                           /\ Distinct(numStatic + 1, Len(Loads(msg)))
      BY DEF ListedOnce
    <2> DEFINE n == Len(ordered)
               w == FlattenSeq(Writables)
               r == FlattenSeq(Readonlys)
               all == Loads(msg)
    <2>1. /\ w \in Seq(Keys) /\ r \in Seq(Keys) /\ n \in Nat
          /\ Len(all) = n + Len(w) + Len(r)
          /\ \A i \in 1..Len(all) :
                 \/ i \in 1..n /\ all[i] = ordered[i].key
                 \/ i - n \in 1..Len(w) /\ all[i] = w[i - n]
                 \/ i - n - Len(w) \in 1..Len(r) /\ all[i] = r[i - n - Len(w)]
      BY LoadedElements
    <2>2. Len(w) \in Nat /\ Len(r) \in Nat
      BY <2>1
    <2>3. Len(msg.accountKeys) = n
      BY OrderedEntries
    <2>4. /\ Writables \in Seq(Seq(Keys)) /\ Len(Writables) = Len(LookupTables)
          /\ Readonlys \in Seq(Seq(Keys)) /\ Len(Readonlys) = Len(LookupTables)
      BY BucketLists DEF IInv
    <2>5. /\ \A d, e \in 1..Len(Writables) :
                 \A i \in 1..Len(Writables[d]), j \in 1..Len(Writables[e]) :
                     Writables[d][i] = Writables[e][j] => d = e /\ i = j
          /\ \A d, e \in 1..Len(Readonlys) :
                 \A i \in 1..Len(Readonlys[d]), j \in 1..Len(Readonlys[e]) :
                     Readonlys[d][i] = Readonlys[e][j] => d = e /\ i = j
          /\ \A d \in 1..Len(Writables), e \in 1..Len(Readonlys) :
                 \A i \in 1..Len(Writables[d]), j \in 1..Len(Readonlys[e]) :
                     Writables[d][i] # Readonlys[e][j]
      BY <2>4, BucketsApart DEF IInv, Answered
    <2>6. \A p, q \in 1..Len(w) : w[p] = w[q] => p = q
      BY <2>4, <2>5, FlattenDistinct
    <2>7. \A p, q \in 1..Len(r) : r[p] = r[q] => p = q
      BY <2>4, <2>5, FlattenDistinct
    <2>8. ASSUME NEW p \in 1..Len(w), NEW q \in 1..Len(r)
          PROVE  w[p] # r[q]
      <3>1. PICK d \in 1..Len(Writables) : \E i \in 1..Len(Writables[d]) : w[p] = Writables[d][i]
        BY <2>4, FlattenElements
      <3>2. PICK i \in 1..Len(Writables[d]) : w[p] = Writables[d][i]
        BY <3>1
      <3>3. PICK e \in 1..Len(Readonlys) : \E j \in 1..Len(Readonlys[e]) : r[q] = Readonlys[e][j]
        BY <2>4, FlattenElements
      <3>4. PICK j \in 1..Len(Readonlys[e]) : r[q] = Readonlys[e][j]
        BY <3>3
      <3> QED
        BY <2>5, <3>2, <3>4
    <2> HIDE DEF w, r, all, n
    <2>9. ASSUME NEW i \in 1..n, NEW j \in 1..n, all[i] = all[j]
          PROVE  i = j
      <3>1. /\ i \in 1..Len(all) /\ ~(i - n \in 1..Len(w)) /\ ~(i - n - Len(w) \in 1..Len(r))
            /\ j \in 1..Len(all) /\ ~(j - n \in 1..Len(w)) /\ ~(j - n - Len(w) \in 1..Len(r))
        BY <2>1, <2>2
      <3>2. all[i] = ordered[i].key /\ all[j] = ordered[j].key
        BY <2>1, <3>1
      <3> QED
        BY <2>9, <3>2 DEF IInv, DistinctKeys, n
    <2>10. ASSUME NEW i \in (n + 1)..Len(all), NEW j \in (n + 1)..Len(all), all[i] = all[j]
           PROVE  i = j
      <3> DEFINE InW(x) == x - n \in 1..Len(w) /\ all[x] = w[x - n]
                 InR(x) == x - n - Len(w) \in 1..Len(r) /\ all[x] = r[x - n - Len(w)]
      <3>1. (InW(i) \/ InR(i)) /\ (InW(j) \/ InR(j))
        BY <2>1, <2>2
      <3>2. ASSUME NEW x, NEW y, InW(x), InR(y)
            PROVE  all[x] # all[y]
        BY <2>8, <3>2
      <3>3. CASE InW(i) /\ InW(j)
        <4>1. i - n = j - n
          BY <2>6, <2>10, <3>3
        <4> QED
          BY <2>1, <2>2, <4>1
      <3>4. CASE InR(i) /\ InR(j)
        <4>1. i - n - Len(w) = j - n - Len(w)
          BY <2>7, <2>10, <3>4
        <4> QED
          BY <2>1, <2>2, <4>1
      <3> HIDE DEF InW, InR
      <3> QED
        BY <2>10, <3>1, <3>2, <3>3, <3>4
    <2> QED
      BY <2>3, <2>9, <2>10 DEF all
  <1> QED
    BY <1>1, IInvInvariant, AnsweredInvariant, PTL
-----------------------------------------------------------------------------
(* Signing.                                                                   *)

(* The keys do not change once there are slots for them, one per required     *)
(* signature.                                                                 *)
TxInv ==
    /\ IInv
    /\ SigningInv(msg.accountKeys)
    /\ constructed => pc = "returned" /\ Len(slots) = msg.header.numRequiredSignatures

LEMMA InitTxInv == TxInit => TxInv
  <1> SUFFICES ASSUME TxInit
               PROVE  TxInv
    OBVIOUS
  <1>1. IInv
    BY InitIInv DEF TxInit
  <1>2. SigningInv(msg.accountKeys)
    BY SignInitInv DEF TxInit
  <1> QED
    BY <1>1, <1>2 DEF TxInv, TxInit, SignInit

LEMMA KeysTyped ==
    ASSUME IInv
    PROVE  /\ Len(msg.accountKeys) \in Nat
           /\ msg.header.numRequiredSignatures \in Nat
  BY ByteAssumption DEF IInv, Shape, TypeOK, Headers

(* A step of sign() or of the constructor. *)
LEMMA StepSigning ==
    ASSUME TxInv, pc = "returned", UNCHANGED vars,
           \/ Construct(msg.header.numRequiredSignatures)
           \/ \E list \in SignerLists : BeginSign(list) \/ SignThrows(list)
           \/ SignNext(msg.accountKeys)
    PROVE  /\ TxInv'
           /\ \A i \in DOMAIN slots : slots[i] # Unsigned => slots'[i] = slots[i]
  <1> DEFINE Stays == \A i \in DOMAIN slots : slots[i] # Unsigned => slots'[i] = slots[i]
  <1>k. PICK keys : keys = msg.accountKeys
    OBVIOUS
  <1>n. PICK n : n = msg.header.numRequiredSignatures
    OBVIOUS
  <1>1. msg' = msg /\ pc' = pc /\ IInv'
    BY StepIInv DEF TxInv, vars
  <1>2. Len(keys) \in Nat /\ n \in Nat
    BY <1>k, <1>n, KeysTyped DEF TxInv
  <1>3. SigningInv(keys)
    BY <1>k DEF TxInv
  <1>0. ASSUME SignTypeOK', OwnSlots(keys)', TriedSigned(keys)', constructed', Len(slots') = n
        PROVE  TxInv'
    <2>1. msg'.accountKeys = keys /\ msg'.header.numRequiredSignatures = n
      BY <1>1, <1>k, <1>n
    <2> QED
      BY <1>0, <1>1, <2>1 DEF TxInv, SigningInv, OwnSlots, TriedSigned, SlotsFor
  <1>4. CASE Construct(n)
    <2>1. /\ SignTypeOK' /\ OwnSlots(keys)' /\ TriedSigned(keys)'
          /\ constructed' /\ Len(slots') = n /\ slots = <<>>
      BY <1>2, <1>3, <1>4, ConstructInv
    <2> QED
      BY <1>0, <2>1
  <1>5. ASSUME NEW list \in SignerLists, BeginSign(list) \/ SignThrows(list)
        PROVE  TxInv' /\ Stays
    <2>1. constructed
      BY <1>5 DEF BeginSign, SignThrows, BetweenCalls
    <2>2. SignTypeOK' /\ OwnSlots(keys)' /\ TriedSigned(keys)' /\ constructed' /\ slots' = slots
      BY <1>3, <1>5, <2>1, CallInv
    <2>3. Len(slots) = n
      BY <1>n, <2>1 DEF TxInv
    <2> QED
      BY <1>0, <2>2, <2>3
  <1>6. CASE SignNext(keys)
    <2>1. constructed
      BY <1>3, <1>6 DEF SigningInv, SignTypeOK, SignNext
    <2>2. /\ SignTypeOK' /\ OwnSlots(keys)' /\ TriedSigned(keys)' /\ constructed'
          /\ Len(slots') = Len(slots) /\ Stays
      BY <1>2, <1>3, <1>6, SignNextInv
    <2>3. Len(slots) = n
      BY <1>n, <2>1 DEF TxInv
    <2> QED
      BY <1>0, <2>2, <2>3
  <1> QED
    BY <1>4, <1>5, <1>6, <1>k, <1>n

(* A step of compile: there are no slots yet. *)
LEMMA StepCompiling == TxInv /\ [Next]_vars /\ UNCHANGED signVars => TxInv'
  <1> SUFFICES ASSUME TxInv, [Next]_vars, UNCHANGED signVars
               PROVE  TxInv'
    OBVIOUS
  <1>1. IInv'
    BY StepIInv DEF TxInv
  <1>2. CASE ~constructed
    <2>1. PICK keys : keys = msg'.accountKeys
      OBVIOUS
    <2>2. SignTypeOK' /\ OwnSlots(keys)' /\ TriedSigned(keys)'
      BY <1>2, UnconstructedInv DEF TxInv, SigningInv
    <2>3. SigningInv(msg.accountKeys)'
      BY <2>1, <2>2 DEF SigningInv, OwnSlots, TriedSigned, SlotsFor
    <2> QED
      BY <1>1, <1>2, <2>3 DEF TxInv, signVars
  <1>3. CASE constructed
    <2>1. UNCHANGED vars
      BY <1>3 DEF TxInv, Next, Finished, StartInstruction, ReadAccount, AddStaticAccount,
                  RegisterLookup, UpgradeLookup, EndInstructions, OrderAccount, NextPass,
                  BuildHeader, AppendBucket, EndTables, Compile, ThrowUnresolved
    <2>2. msg' = msg /\ pc' = pc
      BY <2>1 DEF vars
    <2> QED
      BY <1>1, <2>2 DEF TxInv, SigningInv, SignTypeOK, OwnSlots, TriedSigned, SlotsFor, signVars
  <1> QED
    BY <1>2, <1>3 DEF TxInv, SigningInv, SignTypeOK

LEMMA StepTxInv == TxInv /\ [TxNext]_txVars => TxInv'
  BY StepSigning, StepCompiling DEF TxNext, txVars

LEMMA TxInvariance == TxSpec => []TxInv
  BY InitTxInv, StepTxInv, PTL DEF TxSpec

(* A slot is zeroed or holds its own account's signature (transaction.cpp:    *)
(* 88-110).                                                                   *)
THEOREM SlotsAreOwned == TxSpec => []SlotsOwned
  <1>1. TxInv => SlotsOwned
    BY DEF TxInv, SigningInv, SlotsOwned
  <1> QED
    BY <1>1, TxInvariance, PTL

(* No call of sign(), whether it throws or not, takes a signature back        *)
(* (transaction.cpp:93-110).                                                  *)
THEOREM SignaturesAreKept == TxSpec => SignaturesStay
  <1>1. TxInv /\ [TxNext]_txVars => (\A i \in DOMAIN slots : slots[i] # Unsigned => slots'[i] = slots[i])
    BY StepSigning DEF TxNext, txVars, signVars
  <1> QED
    BY <1>1, TxInvariance, PTL DEF TxSpec, SignaturesStay

(* Every required signer that was passed has signed, and once all were, no    *)
(* slot is left (transaction.cpp:88-110, message_v0.cpp:130-142).             *)
THEOREM SignersAreMatched == TxSpec => []SignersMatched
  <1>1. TxInv => SignersMatched
    <2> SUFFICES ASSUME TxInv, constructed, SignersFit
                 PROVE  /\ SignedBy(RequiredSigners)
                        /\ BetweenCalls /\ RequiredSigners \subseteq tried =>
                               \A i \in DOMAIN slots : slots[i] # Unsigned
      BY DEF SignersMatched
    <2> DEFINE keys == msg.accountKeys
    <2>1. /\ pc = "returned" /\ IInv /\ SigningInv(keys)
          /\ Len(slots) = msg.header.numRequiredSignatures /\ Len(keys) \in Nat
          /\ Len(slots) \in Nat /\ DOMAIN slots = 1..Len(slots)
      BY KeysTyped DEF TxInv, SigningInv, SignTypeOK
    <2>2. /\ \A i \in 1..Len(keys) :
                 i <= Len(slots) <=> AskedSigner(instructions, feePayer, keys[i])
          /\ \A pk \in RequiredSigners : \E i \in 1..Len(keys) : keys[i] = pk
          /\ Len(slots) <= Len(keys)
      <3>1. SignersFirst
        BY <2>1, IInvSignersFirst
      <3>2. \A i \in 1..Len(keys) : GrantsSigner(msg, i - 1) <=> i <= Len(slots)
        BY <2>1 DEF GrantsSigner
      <3>3. Len(slots) <= Len(keys)
        BY <2>1, SignersArePrefix, OrderedEntries DEF IInv, HeaderOf
      <3> QED
        BY <2>1, <3>1, <3>2, <3>3 DEF SignersFirst, RequiredSigners, Holds
    <2>3. \A i, j \in 1..Len(keys) : keys[i] = keys[j] => i = j
      BY <2>1, OrderedEntries DEF IInv, DistinctKeys
    <2>4. \A i \in 1..Len(keys) : keys[i] \in Keys
      BY <2>1, OrderedEntries
    <2>5. SignedBy(RequiredSigners)
      BY <2>1, <2>2, TriedMeansSigned DEF RequiredSigners
    <2>6. ASSUME BetweenCalls, RequiredSigners \subseteq tried, NEW i \in DOMAIN slots
          PROVE  slots[i] # Unsigned
      <3>1. i \in 1..Len(keys) /\ keys[i] \in RequiredSigners
        BY <2>1, <2>2, <2>4 DEF RequiredSigners
      <3>2. PICK j \in DOMAIN slots : slots[j] = keys[i]
        BY <2>5, <2>6, <3>1 DEF SignedBy
      <3>3. keys[i] # Unsigned
        BY <2>1, <2>6, <3>1, SigningAssumption DEF SigningInv, SignTypeOK
      <3>4. slots[j] = keys[j] /\ j \in 1..Len(keys)
        BY <2>1, <2>2, <3>2, <3>3 DEF SigningInv, OwnSlots
      <3>5. i = j
        BY <2>3, <3>1, <3>2, <3>4
      <3> QED
        BY <3>2, <3>3, <3>5
    <2> QED
      BY <2>5, <2>6
  <1> QED
    BY <1>1, TxInvariance, PTL

-----------------------------------------------------------------------------
(* The bytes that are sent.                                                   *)

(* What is said of the compiler alone holds while transactions are signed.    *)
LEMMA CompilerRuns == TxSpec => Spec
  <1>1. TxInit => Init
    BY DEF TxInit
  <1>2. [TxNext]_txVars => [Next]_vars
    BY DEF TxNext, txVars
  <1> QED
    BY <1>1, <1>2, PTL DEF TxSpec, Spec

(* A lookup section is made of the entries of tables.                         *)
LEMMA SectionType == LookupSection \in Seq(Entries)
  <1> DEFINE N == Len(LookupTables)
  <1>1. N \in Nat /\ DOMAIN LookupTables = 1..N
    BY KeysAssumption
  <1>2. PICK u : /\ LookupSection = u[N]
                 /\ u[0] = <<>>
                 /\ \A i \in 1..N :
                        u[i] = IF IsUsed(i) THEN Append(u[i - 1], LookupEntry(i)) ELSE u[i - 1]
    BY SectionRounds
  <1> DEFINE Typed == {n \in Nat : n <= N => u[n] \in Seq(Entries)}
  <1>3. 0 \in Typed
    <2>1. <<>> \in Seq(Entries)
      OBVIOUS
    <2>2. u[0] \in Seq(Entries)
      BY <1>2, <2>1
    <2> QED
      BY <2>2
  <1>4. ASSUME NEW n \in Nat, n \in Typed
        PROVE  n + 1 \in Typed
    <2> DEFINE i == n + 1
    <2> SUFFICES ASSUME i <= N
                 PROVE  u[i] \in Seq(Entries)
      OBVIOUS
    <2>1. i \in 1..N /\ i - 1 = n /\ u[n] \in Seq(Entries)
      BY <1>1, <1>4
    <2> HIDE DEF i
    <2>2. LookupEntry(i) \in Entries
      BY <1>1, <2>1 DEF Entries
    <2>3. u[i] = IF IsUsed(i) THEN Append(u[n], LookupEntry(i)) ELSE u[n]
      BY <1>2, <2>1
    <2> QED
      BY <2>1, <2>2, <2>3
  <1>5. N \in Typed
    <2> HIDE DEF Typed
    <2> QED
      BY <1>1, <1>3, <1>4, AllNumbers
  <1> QED
    BY <1>1, <1>2, <1>5

(* What a message and its signatures are made of.                             *)
Values ==
    Nat \cup Keys \cup {LookupTables[ti].key : ti \in DOMAIN LookupTables}
        \cup Signatories \cup {Unsigned, Blockhash}

(* So the lookup section of a message is one that can be read back.           *)
LEMMA CompiledSection ==
    ASSUME IInv, Answered, pc = "returned"
    PROVE  msg.addressTableLookups \in Seq(LookupSections(Values))
  <1>1. ASSUME NEW ti \in DOMAIN LookupTables
        PROVE  LookupEntry(ti) \in LookupSections(Values)
    <2>1. /\ tableBuckets[ti].writableIdx \in Seq(0..(ByteRange - 1))
          /\ tableBuckets[ti].readonlyIdx \in Seq(0..(ByteRange - 1))
      BY DEF IInv, Shape, TypeOK, Buckets
    <2>2. 0..(ByteRange - 1) \subseteq Values
      BY ByteAssumption DEF Values
    <2>3. /\ tableBuckets[ti].writableIdx \in Seq(Values)
          /\ tableBuckets[ti].readonlyIdx \in Seq(Values)
      <3> DEFINE bytes == 0..(ByteRange - 1)
      <3>0. bytes \subseteq Values
        BY <2>2
      <3> HIDE DEF bytes
      <3>1. \A s \in Seq(bytes) : s \in Seq(Values)
        BY <3>0
      <3> QED
        BY <2>1, <3>1 DEF bytes
    <2>4. LookupTables[ti].key \in Values
      BY DEF Values
    <2> QED
      BY <2>3, <2>4 DEF LookupEntry, LookupSections
  <1>2. Entries \subseteq LookupSections(Values)
    BY <1>1 DEF Entries
  <1>3. msg.addressTableLookups = LookupSection
    BY DEF Answered, Assembled
  <1> QED
    BY <1>2, <1>3, SectionType

(* A compiled message is one that can be read back.                           *)
LEMMA CompiledIsMessage ==
    ASSUME IInv, Reach, pc = "returned"
    PROVE  IsMessage(msg, Values)
  <1>1. /\ instructions \in Seq(Instructions(Keys)) /\ Len(instructions) \in Nat
        /\ DOMAIN instructions = 1..Len(instructions)
        /\ virtualKeys \in Seq(Keys) /\ Len(virtualKeys) \in Nat
        /\ msg.header \in Headers(ByteRange) /\ msg.accountKeys \in Seq(Keys)
        /\ msg.instructions = [n \in 1..Len(instructions) |-> CompileInstruction(instructions[n])]
    BY DEF IInv, Shape, TypeOK, Reach, Indexed
  <1>2. ASSUME NEW pk, Holds(virtualKeys, pk)
        PROVE  ResolveIndex(pk) \in Nat
    BY <1>1, <1>2, IndexType, ByteAssumption DEF ResolveIndex
  <1>3. ASSUME NEW n \in 1..Len(instructions)
        PROVE  CompileInstruction(instructions[n]) \in CompiledInstructions
    <2> DEFINE asked == instructions[n]
    <2>1. asked \in Instructions(Keys)
      BY <1>1, ElementOfSeq
    <2>2. /\ asked.accounts \in Seq(AccountMetas(Keys)) /\ Len(asked.accounts) \in Nat
          /\ DOMAIN asked.accounts = 1..Len(asked.accounts)
      BY <2>1 DEF Instructions
    <2>3. \A pk \in Needed(asked) : Holds(virtualKeys, pk)
      BY <1>1 DEF Reach, Indexed, Resolvable
    <2>4. /\ ResolveIndex(asked.programId) \in Nat
          /\ \A i \in 1..Len(asked.accounts) : ResolveIndex(asked.accounts[i].pubkey) \in Nat
      <3>1. /\ asked.programId \in Needed(asked)
            /\ \A i \in 1..Len(asked.accounts) : asked.accounts[i].pubkey \in Needed(asked)
        BY <2>2 DEF Needed
      <3> HIDE DEF asked
      <3> QED
        BY <1>2, <2>3, <3>1
    <2> DEFINE indices == [i \in 1..Len(asked.accounts) |-> ResolveIndex(asked.accounts[i].pubkey)]
    <2>5. indices \in Seq(Nat)
      BY <2>2, <2>4
    <2>6. CompileInstruction(asked) = [programIdIndex |-> ResolveIndex(asked.programId),
                                       accountIndices |-> indices]
      BY DEF CompileInstruction
    <2> HIDE DEF indices
    <2> QED
      BY <2>4, <2>5, <2>6 DEF CompiledInstructions
  <1>4. msg.instructions \in Seq(CompiledInstructions)
    BY <1>1, <1>3
  <1>5. msg.accountKeys \in Seq(Values)
    BY <1>1 DEF Values
  <1> QED
    BY <1>1, <1>4, <1>5, ByteAssumption DEF IsMessage, Headers

(* The bytes of a transaction that can be sent are read as its signatures,    *)
(* its version and its message (transaction.cpp:112-135,                      *)
(* message_v0.cpp:212-258).                                                   *)
THEOREM TransactionIsReadBack == TxSpec => []ReadsBack
  <1>1. TxInv /\ Reach /\ Answered => ReadsBack
    <2> SUFFICES ASSUME TxInv, Reach, Answered, constructed
                 PROVE  ReadTransaction(SerializeTransactionV0(slots, msg)) = Meant(slots, TRUE, msg)
      BY DEF ReadsBack
    <2>1. /\ IInv /\ pc = "returned" /\ Len(slots) = msg.header.numRequiredSignatures
          /\ slots \in Seq(Signatories \cup {Unsigned})
      BY DEF TxInv, SigningInv, SignTypeOK
    <2>2. IsMessage(msg, Values) /\ msg.addressTableLookups \in Seq(LookupSections(Values))
      BY <2>1, CompiledIsMessage, CompiledSection
    <2>3. slots \in Seq(Values) /\ Nat \subseteq Values /\ Blockhash \in Values
      BY <2>1 DEF Values
    <2>4. Len(slots) < HighBit * HighBit
      <3>1. Len(slots) \in Nat /\ Len(slots) < ByteRange
        BY <2>1, ByteAssumption DEF IInv, Shape, TypeOK, Headers
      <3> DEFINE limit == HighBit * HighBit
      <3>2. ByteRange <= limit /\ limit \in Nat /\ ByteRange \in Nat
        BY SignatureCountAssumption, WireAssumption, ByteAssumption
      <3> HIDE DEF limit
      <3>3. Len(slots) < limit
        BY <3>1, <3>2
      <3> QED
        BY <3>3 DEF limit
    <2> QED
      BY <2>2, <2>3, <2>4, TransactionV0ReadsBack
  <1> QED
    BY <1>1, TxInvariance, ReachInvariant, AnsweredInvariant, CompilerRuns, PTL
=============================================================================
