---------------------------- MODULE AccountKeys ----------------------------
(* What the two message compilers share: an account list in which each       *)
(* public key has one entry, whose signer and writable flags only grow.      *)
(* In MessageV0::compile it is std::vector<AccountInfo>; Message::compile    *)
(* keeps the same three columns in three parallel vectors.                   *)
EXTENDS Integers, Sequences, FiniteSets

(* One entry of the list, and one AccountMeta of an instruction. *)
AccountInfos(keys) == [key : keys, isSigner : BOOLEAN, isWritable : BOOLEAN]
AccountMetas(keys) == [pubkey : keys, isSigner : BOOLEAN, isWritable : BOOLEAN]
Instructions(keys) == [programId : keys, accounts : Seq(AccountMetas(keys))]

(* The keys of the list, in order. *)
KeysOf(accounts) == [i \in 1..Len(accounts) |-> accounts[i].key]

Holds(seq, x) == \E i \in 1..Len(seq) : seq[i] = x

(* The position a linear search from the front stops at. *)
FirstIndex(seq, x) ==
    CHOOSE i \in 1..Len(seq) :
        /\ seq[i] = x
        /\ \A j \in 1..(i - 1) : seq[j] # x

(* The search fails to upgrade a key it finds: the flags of the first mention *)
(* of an account would stand.                                                 *)
FindOrAdd_KeepsFirstFlags(accounts, pk, signer, writable) ==
    IF Holds(KeysOf(accounts), pk)
    THEN accounts
    ELSE Append(accounts, [key |-> pk, isSigner |-> signer, isWritable |-> writable])

(* Find the key's entry and add the requested flags to it, or append one. *)
FindOrAdd(accounts, pk, signer, writable) ==
    IF Holds(KeysOf(accounts), pk)
    THEN LET i == FirstIndex(KeysOf(accounts), pk)
         IN [accounts EXCEPT ![i] =
                [key        |-> pk,
                 isSigner   |-> accounts[i].isSigner \/ signer,
                 isWritable |-> accounts[i].isWritable \/ writable]]
    ELSE Append(accounts, [key |-> pk, isSigner |-> signer, isWritable |-> writable])

(* Readonly signers overtake writable ones. *)
PassOf_ReadonlySignersFirst(a) ==
    IF a.isSigner THEN (IF a.isWritable THEN 2 ELSE 1)
                  ELSE (IF a.isWritable THEN 3 ELSE 4)

(* No pass takes the readonly non-signers. *)
PassOf_NoReadonlyPass(a) ==
    IF a.isSigner THEN (IF a.isWritable THEN 1 ELSE 2)
                  ELSE (IF a.isWritable THEN 3 ELSE 5)

(* The canonical order of a message's accounts, as the pass of                *)
(* message_v0.cpp:128-142 that takes each kind.                               *)
PassOf(a) ==
    IF a.isSigner THEN (IF a.isWritable THEN 1 ELSE 2)
                  ELSE (IF a.isWritable THEN 3 ELSE 4)

Signers(accounts) == {i \in 1..Len(accounts) : accounts[i].isSigner}
Readonly(accounts) == {i \in 1..Len(accounts) : ~accounts[i].isWritable}

(* Readonly signers are not counted. *)
HeaderOf_NoReadonlySigners(accounts, byteRange) ==
    [numRequiredSignatures       |-> Cardinality(Signers(accounts)) % byteRange,
     numReadonlySignedAccounts   |-> 0,
     numReadonlyUnsignedAccounts |->
         Cardinality(Readonly(accounts) \ Signers(accounts)) % byteRange]

(* The three header fields, counted in uint8_t's of byteRange values.         *)
HeaderOf(accounts, byteRange) ==
    [numRequiredSignatures       |-> Cardinality(Signers(accounts)) % byteRange,
     numReadonlySignedAccounts   |->
         Cardinality(Readonly(accounts) \cap Signers(accounts)) % byteRange,
     numReadonlyUnsignedAccounts |->
         Cardinality(Readonly(accounts) \ Signers(accounts)) % byteRange]

(* None of the three counts wraps. *)
HeaderFits(accounts, byteRange) ==
    /\ Cardinality(Signers(accounts)) < byteRange
    /\ Cardinality(Readonly(accounts) \ Signers(accounts)) < byteRange

(* A message under construction: all its fields are empty.                    *)
EmptyMessage ==
    [header |-> [numRequiredSignatures       |-> 0,
                 numReadonlySignedAccounts   |-> 0,
                 numReadonlyUnsignedAccounts |-> 0],
     accountKeys         |-> <<>>,
     instructions        |-> <<>>,
     addressTableLookups |-> <<>>]

Headers(byteRange) ==
    [{"numRequiredSignatures", "numReadonlySignedAccounts", "numReadonlyUnsignedAccounts"}
        -> 0..(byteRange - 1)]

(* The instruction list with one more account in its last instruction. *)
WithAccount(instructions, am) ==
    [instructions EXCEPT ![Len(instructions)].accounts = Append(@, am)]

(* How the caller of compile asked for a key to be used.  The fee payer is    *)
(* always a writable signer.                                                  *)
Mentions(instructions) ==
    UNION {{instructions[n].accounts[i] : i \in DOMAIN instructions[n].accounts} :
               n \in DOMAIN instructions}

AskedSigner(instructions, payer, pk) ==
    pk = payer \/ \E am \in Mentions(instructions) : am.pubkey = pk /\ am.isSigner

AskedWritable(instructions, payer, pk) ==
    pk = payer \/ \E am \in Mentions(instructions) : am.pubkey = pk /\ am.isWritable

AccountCount(instructions) ==
    LET count[n \in 0..Len(instructions)] ==
            IF n = 0 THEN 0 ELSE count[n - 1] + Len(instructions[n].accounts)
    IN count[Len(instructions)]
=============================================================================
