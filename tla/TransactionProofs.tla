------------------------- MODULE TransactionProofs -------------------------
(* Proofs about the legacy message and transaction, for every list of         *)
(* instructions, every byte width and every list of calls of sign().          *)
EXTENDS Transaction, TransactionLemmas

-----------------------------------------------------------------------------
(* The inductive invariant of Message::compile.                               *)

MsgShape ==
    msg = [header              |-> msg.header,
           accountKeys         |-> msg.accountKeys,
           instructions        |-> msg.instructions,
           addressTableLookups |-> msg.addressTableLookups]

Lists(list, pk) == \E i \in 1..Len(list) : list[i].key = pk

(* Every key the instructions name is listed; the program of an instruction   *)
(* only once all its accounts were read.                                      *)
AllListed ==
    /\ Lists(accounts, feePayer)
    /\ \A am \in Mentions(instructions) : Lists(accounts, am.pubkey)
    /\ \A n \in 1..Len(instructions) :
           n < Len(instructions) \/ pc # "accounts" => Lists(accounts, instructions[n].programId)

(* The message describes the account list and the instructions. *)
Compiled ==
    pc = "returned" =>
        /\ msg.header = HeaderOf(accounts, ByteRange)
        /\ msg.accountKeys = KeysOf(accounts)
        /\ msg.instructions = [n \in 1..Len(instructions) |-> CompileInstruction(instructions[n])]

MessageInv == TypeOK /\ MsgShape /\ FlagsAddUp /\ AllListed /\ Compiled

LEMMA InitMessageInv == Init => MessageInv
  <1> SUFFICES ASSUME Init
               PROVE  MessageInv
    OBVIOUS
  <1>1. feePayer \in Keys /\ feePayer \in FeePayers
    BY KeysAssumption DEF Init
  <1>2. /\ accounts = <<[key |-> feePayer, isSigner |-> TRUE, isWritable |-> TRUE]>>
        /\ accounts \in Seq(AccountInfos(Keys))
    BY <1>1, InitialAccounts DEF Init
  <1>3. /\ Len(accounts) = 1 /\ accounts[1].key = feePayer
        /\ accounts[1].isSigner /\ accounts[1].isWritable
    BY <1>2
  <1>4. Mentions(instructions) = {} /\ instructions = <<>> /\ Len(instructions) = 0
    BY DEF Init, Mentions
  <1>5. instructions \in Seq(Instructions(Keys)) /\ msg.accountKeys \in Seq(Keys)
    BY <1>4, EmptySeq DEF Init, EmptyMessage
  <1>6. msg.header \in Headers(ByteRange) /\ MsgShape
    BY ByteAssumption DEF Init, EmptyMessage, Headers, MsgShape
  <1>7. pc = "collect"
    BY DEF Init
  <1>8. TypeOK
    BY <1>1, <1>2, <1>3, <1>5, <1>6, <1>7 DEF TypeOK
  <1>9. FlagsAddUp
    BY <1>3, <1>4 DEF FlagsAddUp, AskedSigner, AskedWritable
  <1> QED
    BY <1>3, <1>4, <1>6, <1>7, <1>8, <1>9 DEF MessageInv, AllListed, Lists, Compiled

(* A mention that is added to the list and to the requests keeps both in      *)
(* step.                                                                      *)
LEMMA MentionAddsUp ==
    ASSUME MessageInv, NEW pk \in Keys, NEW signer \in BOOLEAN, NEW writable \in BOOLEAN,
           accounts' = FindOrAdd(accounts, pk, signer, writable),
           feePayer' = feePayer,
           \A k \in Keys : AskedSigner(instructions', feePayer, k) <=>
                               AskedSigner(instructions, feePayer, k) \/ (k = pk /\ signer),
           \A k \in Keys : AskedWritable(instructions', feePayer, k) <=>
                               AskedWritable(instructions, feePayer, k) \/ (k = pk /\ writable)
    PROVE  /\ accounts' \in Seq(AccountInfos(Keys)) \ {<<>>}
           /\ FlagsAddUp'
           /\ Lists(accounts', pk)
           /\ \A k : Lists(accounts, k) => Lists(accounts', k)
  <1> DEFINE old == accounts
             new == accounts'
             size == Len(old)
  <1>1. old \in Seq(AccountInfos(Keys)) /\ DistinctKeys(old) /\ size \in Nat
    BY DEF MessageInv, TypeOK, FlagsAddUp, DistinctKeys
  <1>2. /\ new \in Seq(AccountInfos(Keys))
        /\ GrownBy(new, old, pk, signer, writable)
    BY <1>1, FindOrAddProperties
  <1> HIDE DEF old, new
  <1>3. /\ Len(new) \in {size, size + 1}
        /\ Len(new) > 0
        /\ \A i \in 1..size : new[i].key = old[i].key
        /\ \E i \in 1..Len(new) : new[i].key = pk
        /\ \A i \in (size + 1)..Len(new) : new[i].key = pk
        /\ DistinctKeys(new)
        /\ \A i \in 1..Len(new) :
              /\ new[i].isSigner <=>
                     (i <= size /\ old[i].isSigner) \/ (new[i].key = pk /\ signer)
              /\ new[i].isWritable <=>
                     (i <= size /\ old[i].isWritable) \/ (new[i].key = pk /\ writable)
    BY <1>2 DEF GrownBy
  <1>4. \A i \in 1..Len(new) : new[i].key \in Keys
    BY <1>2, TypedEntries
  <1>5. \A i \in 1..size :
            /\ old[i].isSigner <=> AskedSigner(instructions, feePayer, old[i].key)
            /\ old[i].isWritable <=> AskedWritable(instructions, feePayer, old[i].key)
    BY DEF MessageInv, FlagsAddUp, old
  <1>6. \A k : AskedSigner(instructions, feePayer, k) \/ AskedWritable(instructions, feePayer, k) =>
                   \E i \in 1..size : old[i].key = k
    BY DEF MessageInv, AllListed, Lists, AskedSigner, AskedWritable, old
  <1>7. ASSUME NEW i \in 1..Len(new)
        PROVE  /\ new[i].isSigner <=> AskedSigner(instructions', feePayer, new[i].key)
               /\ new[i].isWritable <=> AskedWritable(instructions', feePayer, new[i].key)
    <2>1. CASE i \in 1..size
      BY <1>1, <1>3, <1>4, <1>5, <2>1
    <2>2. CASE i = size + 1
      <3>1. new[i].key = pk
        BY <1>1, <1>3, <2>2
      <3>2. ~\E j \in 1..size : old[j].key = pk
        BY <1>1, <1>3, <2>2, <3>1 DEF DistinctKeys
      <3>3. ~AskedSigner(instructions, feePayer, pk) /\ ~AskedWritable(instructions, feePayer, pk)
        BY <1>6, <3>2
      <3> QED
        BY <1>1, <1>3, <2>2, <3>1, <3>3
    <2> QED
      BY <1>1, <1>3, <2>1, <2>2
  <1>8. FlagsAddUp'
    BY <1>3, <1>7 DEF FlagsAddUp, DistinctKeys, new
  <1>9. \A k : (\E i \in 1..size : old[i].key = k) => \E i \in 1..Len(new) : new[i].key = k
    BY <1>1, <1>3
  <1>10. new # <<>>
    BY <1>3
  <1> QED
    BY <1>2, <1>3, <1>8, <1>9, <1>10 DEF Lists, new, old

LEMMA StepMessageInv == MessageInv /\ [Next]_vars => MessageInv'
  <1> SUFFICES ASSUME MessageInv, [Next]_vars
               PROVE  MessageInv'
    OBVIOUS
  <1>0. /\ instructions \in Seq(Instructions(Keys))
        /\ accounts \in Seq(AccountInfos(Keys))
        /\ Len(instructions) \in Nat
    BY DEF MessageInv, TypeOK
  <1>1. ASSUME NEW p \in ProgramIds, StartInstruction(p)
        PROVE  MessageInv'
    <2> DEFINE new == [programId |-> p, accounts |-> <<>>]
    <2>1. p \in Keys
      BY KeysAssumption
    <2>2. /\ instructions' = Append(instructions, new)
          /\ pc = "collect" /\ pc' = "accounts"
          /\ UNCHANGED <<feePayer, accounts, msg>>
      BY <1>1 DEF StartInstruction
    <2>3. instructions' \in Seq(Instructions(Keys)) /\ Mentions(instructions') = Mentions(instructions)
      BY <1>0, <2>1, <2>2, MentionsNewInstruction
    <2>4. /\ Len(instructions') = Len(instructions) + 1
          /\ \A n \in 1..Len(instructions) : instructions'[n] = instructions[n]
      BY <1>0, <2>2
    <2>5. TypeOK' /\ MsgShape' /\ Compiled'
      BY <1>0, <2>2, <2>3, <2>4 DEF MessageInv, TypeOK, MsgShape, Compiled
    <2>6. FlagsAddUp'
      BY <2>2, <2>3 DEF MessageInv, FlagsAddUp, AskedSigner, AskedWritable
    <2>7. AllListed'
      BY <1>0, <2>2, <2>3, <2>4 DEF MessageInv, AllListed, Lists
    <2> QED
      BY <2>5, <2>6, <2>7 DEF MessageInv
  <1>2. ASSUME NEW am \in AccountMetas(Keys), RegisterAccount(am)
        PROVE  MessageInv'
    <2>1. /\ instructions' = WithAccount(instructions, am)
          /\ accounts' = FindOrAdd(accounts, am.pubkey, am.isSigner, am.isWritable)
          /\ pc = "accounts" /\ pc' = "accounts" /\ instructions # <<>>
          /\ UNCHANGED <<feePayer, msg>>
      BY <1>2 DEF RegisterAccount, MessageInv, TypeOK
    <2>2. am.pubkey \in Keys /\ am.isSigner \in BOOLEAN /\ am.isWritable \in BOOLEAN
      BY DEF AccountMetas
    <2>3. Mentions(instructions') = Mentions(instructions) \cup {am}
      BY <1>0, <2>1, MentionsWithAccount
    <2>4. /\ instructions' \in Seq(Instructions(Keys))
          /\ Len(instructions') = Len(instructions)
          /\ \A n \in 1..Len(instructions) : instructions'[n].programId = instructions[n].programId
      BY <1>0, <2>1, WithAccountProperties
    <2>5. /\ \A k \in Keys : AskedSigner(instructions', feePayer, k) <=>
                   AskedSigner(instructions, feePayer, k) \/ (k = am.pubkey /\ am.isSigner)
          /\ \A k \in Keys : AskedWritable(instructions', feePayer, k) <=>
                   AskedWritable(instructions, feePayer, k) \/ (k = am.pubkey /\ am.isWritable)
      BY <2>3 DEF AskedSigner, AskedWritable
    <2>6. /\ accounts' \in Seq(AccountInfos(Keys)) \ {<<>>}
          /\ FlagsAddUp' /\ Lists(accounts', am.pubkey)
          /\ \A k : Lists(accounts, k) => Lists(accounts', k)
      BY <2>1, <2>2, <2>5, MentionAddsUp
    <2>7. TypeOK' /\ MsgShape' /\ Compiled'
      <3>1. instructions' # <<>>
        BY <1>0, <2>1, <2>4
      <3> QED
        BY <2>1, <2>4, <2>6, <3>1 DEF MessageInv, TypeOK, MsgShape, Compiled
    <2>8. AllListed'
      <3>1. Lists(accounts', feePayer) /\ \A m \in Mentions(instructions') : Lists(accounts', m.pubkey)
        BY <2>1, <2>3, <2>6 DEF MessageInv, AllListed
      <3>2. \A n \in 1..Len(instructions') :
                n < Len(instructions') \/ pc' # "accounts" => Lists(accounts', instructions'[n].programId)
        BY <2>1, <2>4, <2>6 DEF MessageInv, AllListed
      <3> QED
        BY <2>1, <3>1, <3>2 DEF AllListed
    <2> QED
      BY <2>6, <2>7, <2>8 DEF MessageInv
  <1>3. CASE RegisterProgram
    <2>0. PICK p : p = instructions[Len(instructions)].programId
      OBVIOUS
    <2>1. /\ accounts' = FindOrAdd(accounts, p, FALSE, FALSE)
          /\ pc = "accounts" /\ pc' = "collect" /\ instructions # <<>>
          /\ UNCHANGED <<feePayer, instructions, msg>>
      BY <1>3, <2>0 DEF RegisterProgram, MessageInv, TypeOK
    <2>2. p \in Keys
      <3>1. Len(instructions) \in 1..Len(instructions)
        BY <1>0, <2>1
      <3>2. instructions[Len(instructions)] \in Instructions(Keys)
        BY <1>0, <3>1, ElementOfSeq
      <3> QED
        BY <2>0, <3>2 DEF Instructions
    <2>3. /\ \A k \in Keys : AskedSigner(instructions', feePayer, k) <=>
                   AskedSigner(instructions, feePayer, k) \/ (k = p /\ FALSE)
          /\ \A k \in Keys : AskedWritable(instructions', feePayer, k) <=>
                   AskedWritable(instructions, feePayer, k) \/ (k = p /\ FALSE)
      BY <2>1
    <2>4. /\ accounts' \in Seq(AccountInfos(Keys)) \ {<<>>}
          /\ FlagsAddUp' /\ Lists(accounts', p)
          /\ \A k : Lists(accounts, k) => Lists(accounts', k)
      BY <2>1, <2>2, <2>3, MentionAddsUp
    <2>5. TypeOK' /\ MsgShape' /\ Compiled'
      BY <2>1, <2>4 DEF MessageInv, TypeOK, MsgShape, Compiled
    <2>6. AllListed'
      <3>1. Lists(accounts', feePayer) /\ \A m \in Mentions(instructions) : Lists(accounts', m.pubkey)
        BY <2>1, <2>4 DEF MessageInv, AllListed
      <3>2. \A n \in 1..Len(instructions) : Lists(accounts', instructions[n].programId)
        <4> TAKE n \in 1..Len(instructions)
        <4>1. CASE n < Len(instructions)
          BY <2>4, <4>1 DEF MessageInv, AllListed
        <4>2. CASE n = Len(instructions)
          BY <2>0, <2>4, <4>2
        <4> QED
          BY <1>0, <4>1, <4>2
      <3> QED
        BY <2>1, <3>1, <3>2 DEF AllListed
    <2> QED
      BY <2>4, <2>5, <2>6 DEF MessageInv
  <1>4. CASE Compile
    <2>1. /\ msg' = [header              |-> HeaderOf(accounts, ByteRange),
                     accountKeys         |-> KeysOf(accounts),
                     instructions        |-> [n \in 1..Len(instructions) |->
                                                 CompileInstruction(instructions[n])],
                     addressTableLookups |-> msg.addressTableLookups]
          /\ pc = "collect" /\ pc' = "returned"
          /\ UNCHANGED <<feePayer, instructions, accounts>>
      BY <1>4 DEF Compile, MessageInv, MsgShape
    <2>2. HeaderOf(accounts, ByteRange) \in Headers(ByteRange) /\ KeysOf(accounts) \in Seq(Keys)
      BY <1>0, HeaderType, KeysOfType, ByteAssumption
    <2>3. TypeOK' /\ MsgShape'
      BY <2>1, <2>2 DEF MessageInv, TypeOK, MsgShape
    <2>4. Compiled'
      BY <2>1 DEF Compiled, CompileInstruction, IndexOf
    <2>5. FlagsAddUp' /\ AllListed'
      BY <2>1 DEF MessageInv, FlagsAddUp, AllListed, Lists
    <2> QED
      BY <2>3, <2>4, <2>5 DEF MessageInv
  <1>5. CASE UNCHANGED vars
    BY <1>5 DEF vars, MessageInv, TypeOK, MsgShape, FlagsAddUp, AllListed, Lists, Compiled,
                CompileInstruction, IndexOf
  <1> QED
    BY <1>1, <1>2, <1>3, <1>4, <1>5 DEF Next, Returned

LEMMA MessageInvariance == Spec => []MessageInv
  BY InitMessageInv, StepMessageInv, PTL DEF Spec

(* Everything keeps its shape, and the header counts fit their bytes.         *)
THEOREM TypeCorrect == Spec => []TypeOK
  <1>1. MessageInv => TypeOK
    BY DEF MessageInv
  <1> QED
    BY <1>1, MessageInvariance, PTL

-----------------------------------------------------------------------------
(* What the invariant says of the compiled message.                           *)

LEMMA InvResolves == MessageInv => IndexesResolve
  <1> SUFFICES ASSUME MessageInv, pc = "returned"
               PROVE  IndexesResolve
    BY DEF IndexesResolve
  <1> DEFINE keys == KeysOf(accounts)
             size == Len(accounts)
             Leads(idx, pk) == FirstIndex(keys, pk) <= ByteRange =>
                                   idx < Len(msg.accountKeys) /\ msg.accountKeys[idx + 1] = pk
  <1>1. /\ accounts \in Seq(AccountInfos(Keys)) /\ size \in Nat
        /\ instructions \in Seq(Instructions(Keys)) /\ Len(instructions) \in Nat
        /\ msg.accountKeys = keys
        /\ msg.instructions = [n \in 1..Len(instructions) |-> CompileInstruction(instructions[n])]
    BY DEF MessageInv, TypeOK, Compiled
  <1>2. /\ Len(keys) = size
        /\ \A x : Holds(keys, x) <=> Lists(accounts, x)
    BY <1>1, KeysOfType DEF Lists
  <1>3. ASSUME NEW pk, Lists(accounts, pk)
        PROVE  Leads(IndexOf(pk), pk)
    <2> DEFINE at == FirstIndex(keys, pk)
    <2>1. at \in 1..size /\ keys[at] = pk
      BY <1>1, <1>2, <1>3, FirstIndexIsFirst
    <2>2. IndexOf(pk) = (at - 1) % ByteRange
      BY DEF IndexOf
    <2> HIDE DEF at
    <2>3. at <= ByteRange => (at - 1) % ByteRange = at - 1
      <3>1. at - 1 \in Nat /\ (at <= ByteRange => at - 1 < ByteRange)
        BY <1>1, <2>1, ByteAssumption
      <3> QED
        BY <3>1, ByteOf, ByteAssumption
    <2>4. at <= ByteRange => IndexOf(pk) < size /\ keys[IndexOf(pk) + 1] = pk
      BY <1>1, <2>1, <2>2, <2>3
    <2> QED
      BY <1>1, <1>2, <2>4 DEF at
  <1> HIDE DEF Leads
  <1>4. ASSUME NEW n \in 1..Len(instructions)
        PROVE  /\ Leads(msg.instructions[n].programIdIndex, instructions[n].programId)
               /\ \A i \in 1..Len(instructions[n].accounts) :
                      Leads(msg.instructions[n].accountIndices[i],
                            instructions[n].accounts[i].pubkey)
    <2> DEFINE asked == instructions[n]
    <2>1. /\ msg.instructions[n].programIdIndex = IndexOf(asked.programId)
          /\ \A i \in 1..Len(asked.accounts) :
                 msg.instructions[n].accountIndices[i] = IndexOf(asked.accounts[i].pubkey)
      BY <1>1 DEF CompileInstruction
    <2>2. Lists(accounts, asked.programId)
      BY DEF MessageInv, AllListed
    <2>3. ASSUME NEW i \in 1..Len(asked.accounts)
          PROVE  Lists(accounts, asked.accounts[i].pubkey)
      <3>1. asked.accounts[i] \in Mentions(instructions)
        BY <1>1 DEF Mentions
      <3> QED
        BY <3>1 DEF MessageInv, AllListed
    <2> QED
      BY <1>3, <2>1, <2>2, <2>3
  <1> QED
    BY <1>4 DEF IndexesResolve, Leads

(* In canonical order, the header grants what the entries say.                *)
LEMMA CanonicalHeader ==
    ASSUME MessageInv, pc = "returned", Canonical,
           Cardinality(Signers(accounts)) < ByteRange
    PROVE  LET s == msg.header.numRequiredSignatures
           IN /\ s \in 0..Len(accounts)
              /\ Len(msg.accountKeys) = Len(accounts)
              /\ \A i \in 1..Len(accounts) :
                     /\ msg.accountKeys[i] = accounts[i].key
                     /\ accounts[i].isSigner <=> i <= s
                     /\ HeaderFits(accounts, ByteRange) =>
                            (accounts[i].isWritable <=> GrantsWritable(msg, NoTables, i - 1))
  <1> DEFINE n == Len(accounts)
             s == Cardinality(Signers(accounts))
             r == Cardinality(Readonly(accounts) \cap Signers(accounts))
             u == Cardinality(Readonly(accounts) \ Signers(accounts))
  <1>1. accounts \in Seq(AccountInfos(Keys)) /\ InPassOrder(accounts)
    BY DEF MessageInv, TypeOK, Canonical, InPassOrder
  <1>2. /\ n \in Nat /\ s \in 0..n /\ r \in 0..s /\ u \in 0..(n - s)
        /\ \A i \in 1..n : /\ accounts[i].isSigner <=> i <= s
                           /\ i <= s => (accounts[i].isWritable <=> i <= s - r)
                           /\ i > s => (accounts[i].isWritable <=> i <= n - u)
    BY <1>1, SortedCounts
  <1>3. /\ msg.header.numRequiredSignatures = s % ByteRange
        /\ msg.header.numReadonlySignedAccounts = r % ByteRange
        /\ msg.header.numReadonlyUnsignedAccounts = u % ByteRange
        /\ msg.accountKeys = KeysOf(accounts)
    <2>1. msg.header = HeaderOf(accounts, ByteRange) /\ msg.accountKeys = KeysOf(accounts)
      BY DEF MessageInv, Compiled
    <2>2. HeaderOf(accounts, ByteRange) = [numRequiredSignatures       |-> s % ByteRange,
                                           numReadonlySignedAccounts   |-> r % ByteRange,
                                           numReadonlyUnsignedAccounts |-> u % ByteRange]
      BY DEF HeaderOf
    <2> HIDE DEF s, r, u
    <2> QED
      BY <2>1, <2>2
  <1>4. Len(msg.accountKeys) = n /\ \A i \in 1..n : msg.accountKeys[i] = accounts[i].key
    BY <1>1, <1>3, KeysOfType
  <1>5. HeaderFits(accounts, ByteRange) => u < ByteRange
    BY DEF HeaderFits
  <1>6. s < ByteRange
    OBVIOUS
  <1> HIDE DEF n, s, r, u
  <1>a. s \in Nat /\ r \in Nat /\ u \in Nat /\ r <= s
    BY <1>2
  <1>b. \A x \in Nat : x < ByteRange => x % ByteRange = x
    BY ByteOf, ByteAssumption
  <1>7. s % ByteRange = s /\ r % ByteRange = r
    <2>1. r < ByteRange
      BY <1>6, <1>a, ByteAssumption
    <2> QED
      BY <1>6, <1>a, <1>b, <2>1
  <1>8. HeaderFits(accounts, ByteRange) => u % ByteRange = u
    BY <1>5, <1>a, <1>b
  <1>9. ASSUME NEW i \in 1..n, HeaderFits(accounts, ByteRange)
        PROVE  accounts[i].isWritable <=> GrantsWritable(msg, NoTables, i - 1)
    <2>1. CASE i <= s
      BY <1>2, <1>3, <1>7, <2>1 DEF GrantsWritable
    <2>2. CASE i > s
      BY <1>2, <1>3, <1>4, <1>7, <1>8, <1>9, <2>2 DEF GrantsWritable
    <2> QED
      BY <1>2, <2>1, <2>2
  <1> QED
    BY <1>2, <1>3, <1>4, <1>7, <1>9 DEF n

(* Each index of a compiled instruction that has not wrapped leads to the     *)
(* account the instruction names (message.cpp:67-84).                         *)
THEOREM IndexesAreRight == Spec => []IndexesResolve
  BY InvResolves, MessageInvariance, PTL

(* In canonical order the header grants exactly what was asked                *)
(* (message.cpp:48-65).                                                       *)
THEOREM CanonicalIsExact == Spec => []GrantsExactWhenCanonical
  <1>1. MessageInv => GrantsExactWhenCanonical
    <2> SUFFICES ASSUME MessageInv, pc = "returned", Canonical,
                        HeaderFits(accounts, ByteRange), NEW i \in 1..Len(msg.accountKeys)
                 PROVE  LET pk == msg.accountKeys[i]
                        IN /\ GrantsSigner(msg, i - 1) <=> AskedSigner(instructions, feePayer, pk)
                           /\ GrantsWritable(msg, NoTables, i - 1)
                                  <=> AskedWritable(instructions, feePayer, pk)
      BY DEF GrantsExactWhenCanonical
    <2>1. /\ msg.header.numRequiredSignatures \in Nat
          /\ i \in 1..Len(accounts) /\ i \in Nat
          /\ msg.accountKeys[i] = accounts[i].key
          /\ accounts[i].isSigner <=> i <= msg.header.numRequiredSignatures
          /\ accounts[i].isWritable <=> GrantsWritable(msg, NoTables, i - 1)
      BY CanonicalHeader DEF HeaderFits
    <2>2. /\ accounts[i].isSigner <=> AskedSigner(instructions, feePayer, accounts[i].key)
          /\ accounts[i].isWritable <=> AskedWritable(instructions, feePayer, accounts[i].key)
      BY <2>1 DEF MessageInv, FlagsAddUp
    <2>3. GrantsSigner(msg, i - 1) <=> i <= msg.header.numRequiredSignatures
      BY <2>1 DEF GrantsSigner
    <2> QED
      BY <2>1, <2>2, <2>3
  <1> QED
    BY <1>1, MessageInvariance, PTL

-----------------------------------------------------------------------------
(* Signing.                                                                   *)

(* The keys do not change once there are slots for them, one per required     *)
(* signature.                                                                 *)
TxInv ==
    /\ MessageInv
    /\ SigningInv(msg.accountKeys)
    /\ constructed => pc = "returned" /\ Len(slots) = msg.header.numRequiredSignatures

LEMMA InitTxInv == TxInit => TxInv
  <1> SUFFICES ASSUME TxInit
               PROVE  TxInv
    OBVIOUS
  <1>1. MessageInv
    BY InitMessageInv DEF TxInit
  <1>2. SigningInv(msg.accountKeys)
    BY SignInitInv DEF TxInit
  <1> QED
    BY <1>1, <1>2 DEF TxInv, TxInit, SignInit

(* A step of sign() or of the constructor. *)
LEMMA StepSigning ==
    ASSUME TxInv, pc = "returned", UNCHANGED vars,
           \/ Construct(msg.header.numRequiredSignatures)
           \/ \E list \in SignerLists : BeginSign(list) \/ SignThrows(list)
           \/ SignNext(msg.accountKeys)
    PROVE  TxInv'
  <1>k. PICK keys : keys = msg.accountKeys
    OBVIOUS
  <1>n. PICK n : n = msg.header.numRequiredSignatures
    OBVIOUS
  <1>1. msg' = msg /\ pc' = pc /\ MessageInv'
    BY StepMessageInv DEF TxInv, vars
  <1>2. Len(keys) \in Nat /\ n \in Nat
    BY <1>k, <1>n, ByteAssumption DEF TxInv, MessageInv, TypeOK, Headers
  <1>3. SigningInv(keys)
    BY <1>k DEF TxInv
  <1>0. ASSUME SignTypeOK', OwnSlots(keys)', TriedSigned(keys)', constructed', Len(slots') = n
        PROVE  TxInv'
    <2>1. msg'.accountKeys = keys /\ msg'.header.numRequiredSignatures = n
      BY <1>1, <1>k, <1>n
    <2> QED
      BY <1>0, <1>1, <2>1 DEF TxInv, SigningInv, OwnSlots, TriedSigned, SlotsFor
  <1>4. CASE Construct(n)
    BY <1>0, <1>2, <1>3, <1>4, ConstructInv
  <1>5. ASSUME NEW list \in SignerLists, BeginSign(list) \/ SignThrows(list)
        PROVE  TxInv'
    <2>1. constructed
      BY <1>5 DEF BeginSign, SignThrows, BetweenCalls
    <2>2. SignTypeOK' /\ OwnSlots(keys)' /\ TriedSigned(keys)' /\ constructed' /\ slots' = slots
      BY <1>3, <1>5, <2>1, CallInv
    <2>3. Len(slots) = n
      BY <1>n, <2>1 DEF TxInv
    <2> QED
      BY <1>0, <2>2, <2>3
  <1>6. CASE SignNext(keys)
    <2>1. constructed
      BY <1>3, <1>6 DEF SigningInv, SignTypeOK, SignNext
    <2>2. /\ SignTypeOK' /\ OwnSlots(keys)' /\ TriedSigned(keys)' /\ constructed'
          /\ Len(slots') = Len(slots)
      BY <1>2, <1>3, <1>6, SignNextInv
    <2>3. Len(slots) = n
      BY <1>n, <2>1 DEF TxInv
    <2> QED
      BY <1>0, <2>2, <2>3
  <1> QED
    BY <1>4, <1>5, <1>6, <1>k, <1>n

(* A step of compile: there are no slots yet. *)
LEMMA StepCompiling == TxInv /\ [Next]_vars /\ UNCHANGED signVars => TxInv'
  <1> SUFFICES ASSUME TxInv, [Next]_vars, UNCHANGED signVars
               PROVE  TxInv'
    OBVIOUS
  <1>1. MessageInv'
    BY StepMessageInv DEF TxInv
  <1>2. CASE ~constructed
    <2>1. PICK keys : keys = msg'.accountKeys
      OBVIOUS
    <2>2. SignTypeOK' /\ OwnSlots(keys)' /\ TriedSigned(keys)'
      BY <1>2, UnconstructedInv DEF TxInv, SigningInv
    <2>3. SigningInv(msg.accountKeys)'
      BY <2>1, <2>2 DEF SigningInv, OwnSlots, TriedSigned, SlotsFor
    <2> QED
      BY <1>1, <1>2, <2>3 DEF TxInv, signVars
  <1>3. CASE constructed
    <2>1. UNCHANGED vars
      BY <1>3 DEF TxInv, Next, Returned, StartInstruction, RegisterAccount, RegisterProgram,
                  Compile
    <2>2. msg' = msg /\ pc' = pc
      BY <2>1 DEF vars
    <2> QED
      BY <1>1, <2>2 DEF TxInv, SigningInv, SignTypeOK, OwnSlots, TriedSigned, SlotsFor, signVars
  <1> QED
    BY <1>2, <1>3 DEF TxInv, SigningInv, SignTypeOK

LEMMA StepTxInv == TxInv /\ [TxNext]_txVars => TxInv'
  BY StepSigning, StepCompiling DEF TxNext, txVars

LEMMA TxInvariance == TxSpec => []TxInv
  BY InitTxInv, StepTxInv, PTL DEF TxSpec

(* A slot is zeroed or holds its own account's signature (transaction.cpp:    *)
(* 35-53).                                                                    *)
THEOREM SlotsAreOwned == TxSpec => []SlotsOwned
  <1>1. TxInv => SlotsOwned
    BY DEF TxInv, SigningInv, SlotsOwned
  <1> QED
    BY <1>1, TxInvariance, PTL

(* The flags of the list add up while transactions are built, too             *)
(* (message.cpp:23-46).                                                       *)
THEOREM FlagsAreExact == TxSpec => []FlagsAddUp
  <1>1. TxInv => FlagsAddUp
    BY DEF TxInv, MessageInv
  <1> QED
    BY <1>1, TxInvariance, PTL

(* In canonical order, the required signers that were passed have signed,     *)
(* and nobody else (transaction.cpp:35-53).                                   *)
THEOREM CanonicalSignersMatched == TxSpec => []SignersMatchedWhenCanonical
  <1>1. TxInv => SignersMatchedWhenCanonical
    <2> SUFFICES ASSUME TxInv, constructed, Canonical,
                        Cardinality(Signers(accounts)) < ByteRange
                 PROVE  /\ SignedBy(RequiredSigners)
                        /\ \A i \in DOMAIN slots : slots[i] \in RequiredSigners \cup {Unsigned}
      BY DEF SignersMatchedWhenCanonical
    <2> DEFINE keys == msg.accountKeys
               n == Len(accounts)
    <2>1. /\ pc = "returned" /\ MessageInv /\ SigningInv(keys)
          /\ Len(slots) = msg.header.numRequiredSignatures
          /\ Len(slots) \in Nat /\ DOMAIN slots = 1..Len(slots)
      BY DEF TxInv, SigningInv, SignTypeOK
    <2>2. /\ Len(slots) \in 0..n /\ n \in Nat /\ Len(keys) = n
          /\ \A i \in 1..n : keys[i] = accounts[i].key /\ keys[i] \in Keys
          /\ \A i \in 1..n : accounts[i].isSigner <=> i <= Len(slots)
      BY <2>1, CanonicalHeader, TypedEntries DEF MessageInv, TypeOK
    <2>3. \A i \in 1..n : keys[i] \in RequiredSigners <=> i <= Len(slots)
      BY <2>1, <2>2 DEF MessageInv, FlagsAddUp, RequiredSigners
    <2>4. \A pk \in RequiredSigners : \E i \in 1..n : keys[i] = pk
      BY <2>1, <2>2 DEF MessageInv, AllListed, Lists, RequiredSigners, AskedSigner
    <2>5. SignedBy(RequiredSigners)
      BY <2>1, <2>2, <2>3, <2>4, TriedMeansSigned
    <2>6. \A i \in DOMAIN slots : slots[i] \in {Unsigned, keys[i]} /\ keys[i] \in RequiredSigners
      BY <2>1, <2>2, <2>3 DEF SigningInv, OwnSlots
    <2> QED
      BY <2>5, <2>6
  <1> QED
    BY <1>1, TxInvariance, PTL

-----------------------------------------------------------------------------
(* The bytes that are sent.                                                   *)

(* What a message and its signatures are made of.                             *)
Values == Nat \cup Keys \cup Signatories \cup {Unsigned, Blockhash}

(* A compiled message is one that can be read back. *)
LEMMA CompiledIsMessage ==
    ASSUME MessageInv, pc = "returned"
    PROVE  IsMessage(msg, Values)
  <1>1. /\ instructions \in Seq(Instructions(Keys)) /\ Len(instructions) \in Nat
        /\ accounts \in Seq(AccountInfos(Keys))
        /\ msg.header \in Headers(ByteRange) /\ msg.accountKeys \in Seq(Keys)
        /\ msg.instructions = [n \in 1..Len(instructions) |-> CompileInstruction(instructions[n])]
    BY DEF MessageInv, TypeOK, Compiled
  <1>2. ASSUME NEW pk, Lists(accounts, pk)
        PROVE  IndexOf(pk) \in Nat
    <2>1. Len(KeysOf(accounts)) \in Nat /\ Holds(KeysOf(accounts), pk)
      BY <1>1, <1>2, KeysOfType DEF Lists
    <2> QED
      BY <2>1, IndexType, ByteAssumption DEF IndexOf
  <1>3. ASSUME NEW n \in 1..Len(instructions)
        PROVE  CompileInstruction(instructions[n]) \in CompiledInstructions
    <2> DEFINE asked == instructions[n]
    <2>1. asked \in Instructions(Keys)
      BY <1>1, ElementOfSeq
    <2>2. asked.accounts \in Seq(AccountMetas(Keys)) /\ Len(asked.accounts) \in Nat
      BY <2>1 DEF Instructions
    <2>3. IndexOf(asked.programId) \in Nat
      BY <1>1, <1>2 DEF MessageInv, AllListed
    <2>4. ASSUME NEW i \in 1..Len(asked.accounts)
          PROVE  IndexOf(asked.accounts[i].pubkey) \in Nat
      <3>1. asked.accounts[i] \in Mentions(instructions)
        BY <1>1, <2>2 DEF Mentions
      <3> QED
        BY <1>2, <3>1 DEF MessageInv, AllListed
    <2> DEFINE indices == [i \in 1..Len(asked.accounts) |-> IndexOf(asked.accounts[i].pubkey)]
    <2>5. indices \in Seq(Nat)
      BY <2>2, <2>4
    <2>6. CompileInstruction(asked) = [programIdIndex |-> IndexOf(asked.programId),
                                       accountIndices |-> indices]
      BY DEF CompileInstruction
    <2> HIDE DEF indices
    <2> QED
      BY <2>3, <2>5, <2>6 DEF CompiledInstructions
  <1>4. msg.instructions \in Seq(CompiledInstructions)
    BY <1>1, <1>3
  <1>5. msg.accountKeys \in Seq(Values)
    BY <1>1 DEF Values
  <1> QED
    BY <1>1, <1>4, <1>5, ByteAssumption DEF IsMessage, Headers

(* The bytes of a transaction that can be sent are read as its signatures and *)
(* its message (transaction.cpp:55-76, message.cpp:107-136).                  *)
THEOREM TransactionIsReadBack == TxSpec => []ReadsBack
  <1>1. TxInv => ReadsBack
    <2> DEFINE m == [header |-> msg.header, accountKeys |-> msg.accountKeys,
                     instructions |-> msg.instructions, addressTableLookups |-> <<>>]
    <2> SUFFICES ASSUME TxInv, constructed, Len(slots) < HighBit
                 PROVE  ReadTransaction(SerializeTransaction(slots, msg)) = Meant(slots, FALSE, m)
      BY DEF ReadsBack
    <2>1. /\ MessageInv /\ pc = "returned" /\ Len(slots) = msg.header.numRequiredSignatures
          /\ slots \in Seq(Signatories \cup {Unsigned})
      BY DEF TxInv, SigningInv, SignTypeOK
    <2>2. /\ m.header = msg.header /\ m.accountKeys = msg.accountKeys
          /\ m.instructions = msg.instructions /\ m.addressTableLookups = <<>>
      OBVIOUS
    <2> HIDE DEF m
    <2>3. SerializeTransaction(slots, msg) = SerializeTransaction(slots, m)
      BY <2>2 DEF SerializeTransaction, SerializeMessage
    <2>4. IsMessage(m, Values)
      BY <2>1, <2>2, CompiledIsMessage DEF IsMessage
    <2>5. slots \in Seq(Values) /\ Nat \subseteq Values /\ Blockhash \in Values
      BY <2>1 DEF Values
    <2>6. m.header.numRequiredSignatures = Len(slots) /\ Len(slots) < HighBit
      BY <2>1, <2>2
    <2>7. ReadTransaction(SerializeTransaction(slots, m)) = Meant(slots, FALSE, m)
      BY <2>2, <2>4, <2>5, <2>6, TransactionReadsBack
    <2> QED
      BY <2>3, <2>7
  <1> QED
    BY <1>1, TxInvariance, PTL
=============================================================================
