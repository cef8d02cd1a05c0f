------------------------- MODULE TransactionLemmas -------------------------
(* What is proved of the code that both kinds of transaction share: the       *)
(* account list that their compilers build, and the slots that sign() fills,  *)
(* for every list of keys and every number of slots.                          *)
EXTENDS AccountKeys, Signing, Wire, ListProofs, FiniteSetTheorems

DistinctKeys(accounts) ==
    \A i, j \in 1..Len(accounts) : accounts[i].key = accounts[j].key => i = j

(* A search that can succeed stops at the first match.                        *)
LEMMA FirstIndexIsFirst ==
    ASSUME NEW seq, Len(seq) \in Nat, NEW x, Holds(seq, x)
    PROVE  /\ FirstIndex(seq, x) \in 1..Len(seq)
           /\ seq[FirstIndex(seq, x)] = x
           /\ \A j \in 1..(FirstIndex(seq, x) - 1) : seq[j] # x
  <1> DEFINE T == {i \in 1..Len(seq) : seq[i] = x}
  <1>1. T \in SUBSET Nat /\ T # {}
    BY DEF Holds
  <1>2. PICK i \in T : \A j \in T : i <= j
    BY <1>1, LeastNumber
  <1>3. \A j \in 1..(i - 1) : seq[j] # x
    BY <1>2
  <1>4. \E k \in 1..Len(seq) : seq[k] = x /\ \A j \in 1..(k - 1) : seq[j] # x
    BY <1>2, <1>3
  <1> QED
    BY <1>4 DEF FirstIndex

(* The keys of a list of accounts are a list of the same length.              *)
LEMMA KeysOfType ==
    ASSUME NEW K, NEW accounts \in Seq(AccountInfos(K))
    PROVE  /\ KeysOf(accounts) \in Seq(K)
           /\ Len(KeysOf(accounts)) = Len(accounts)
           /\ \A i \in 1..Len(accounts) : KeysOf(accounts)[i] = accounts[i].key
           /\ \A x : Holds(KeysOf(accounts), x) <=>
                         \E i \in 1..Len(accounts) : accounts[i].key = x
  <1>1. Len(accounts) \in Nat
    OBVIOUS
  <1>2. \A i \in 1..Len(accounts) : accounts[i].key \in K
    <2>1. \A i \in 1..Len(accounts) : accounts[i] \in AccountInfos(K)
      BY ElementOfSeq
    <2> QED
      BY <2>1 DEF AccountInfos
  <1>3. KeysOf(accounts) \in Seq(K) /\ Len(KeysOf(accounts)) = Len(accounts)
    BY <1>1, <1>2 DEF KeysOf
  <1>4. \A i \in 1..Len(accounts) : KeysOf(accounts)[i] = accounts[i].key
    BY DEF KeysOf
  <1> QED
    BY <1>3, <1>4 DEF Holds

(* The lookup of an account list upgrades one entry or appends one.           *)
LEMMA FindOrAddResult ==
    ASSUME NEW K, NEW accounts \in Seq(AccountInfos(K)), NEW pk \in K,
           NEW signer \in BOOLEAN, NEW writable \in BOOLEAN
    PROVE  LET result == FindOrAdd(accounts, pk, signer, writable)
               size == Len(accounts)
               asked == [key |-> pk, isSigner |-> signer, isWritable |-> writable]
           IN \/ /\ ~\E i \in 1..size : accounts[i].key = pk
                 /\ result = Append(accounts, asked)
              \/ \E at \in 1..size :
                    /\ accounts[at].key = pk
                    /\ result = [accounts EXCEPT ![at] =
                           [key        |-> pk,
                            isSigner   |-> accounts[at].isSigner \/ signer,
                            isWritable |-> accounts[at].isWritable \/ writable]]
  <1>1. Len(KeysOf(accounts)) = Len(accounts)
    BY KeysOfType
  <1>2. CASE Holds(KeysOf(accounts), pk)
    <2> DEFINE at == FirstIndex(KeysOf(accounts), pk)
    <2>1. at \in 1..Len(accounts) /\ KeysOf(accounts)[at] = pk
      BY <1>1, <1>2, FirstIndexIsFirst
    <2>2. accounts[at].key = pk
      BY <2>1, KeysOfType
    <2> QED
      BY <1>2, <2>1, <2>2 DEF FindOrAdd
  <1>3. CASE ~Holds(KeysOf(accounts), pk)
    BY <1>3, KeysOfType DEF FindOrAdd
  <1> QED
    BY <1>2, <1>3

(* Its result is an account list.                                             *)
LEMMA FindOrAddType ==
    ASSUME NEW K, NEW accounts \in Seq(AccountInfos(K)), NEW pk \in K,
           NEW signer \in BOOLEAN, NEW writable \in BOOLEAN
    PROVE  FindOrAdd(accounts, pk, signer, writable) \in Seq(AccountInfos(K))
  <1> DEFINE result == FindOrAdd(accounts, pk, signer, writable)
             asked == [key |-> pk, isSigner |-> signer, isWritable |-> writable]
             Grown(at) == [key        |-> pk,
                           isSigner   |-> accounts[at].isSigner \/ signer,
                           isWritable |-> accounts[at].isWritable \/ writable]
  <1>1. asked \in AccountInfos(K) /\ \A at : Grown(at) \in AccountInfos(K)
    BY DEF AccountInfos
  <1>2. result = Append(accounts, asked) \/
        \E at \in 1..Len(accounts) : result = [accounts EXCEPT ![at] = Grown(at)]
    BY FindOrAddResult
  <1> HIDE DEF result, asked, Grown
  <1>3. result \in Seq(AccountInfos(K))
    BY <1>1, <1>2, AppendProperties, ExceptSeq
  <1> QED
    BY <1>3 DEF result

(* The list is what one more mention of pk makes of accounts: entries keep    *)
(* their place and key, the key is listed, no key is listed twice, and the    *)
(* flags of each entry grow by what the mention asks and by no more.          *)
GrownBy(result, accounts, pk, signer, writable) ==
    /\ Len(result) \in {Len(accounts), Len(accounts) + 1}
    /\ Len(result) > 0
    /\ \A i \in 1..Len(accounts) : result[i].key = accounts[i].key
    /\ \E i \in 1..Len(result) : result[i].key = pk
    /\ \A i \in (Len(accounts) + 1)..Len(result) : result[i].key = pk
    /\ DistinctKeys(result)
    /\ \A i \in 1..Len(result) :
          /\ result[i].isSigner <=>
                 (i <= Len(accounts) /\ accounts[i].isSigner) \/ (result[i].key = pk /\ signer)
          /\ result[i].isWritable <=>
                 (i <= Len(accounts) /\ accounts[i].isWritable) \/ (result[i].key = pk /\ writable)

(* FindOrAdd keeps the list's type and does to it what GrownBy says.          *)
LEMMA FindOrAddProperties ==
    ASSUME NEW K, NEW accounts \in Seq(AccountInfos(K)), NEW pk \in K,
           NEW signer \in BOOLEAN, NEW writable \in BOOLEAN,
           DistinctKeys(accounts)
    PROVE  /\ FindOrAdd(accounts, pk, signer, writable) \in Seq(AccountInfos(K))
           /\ GrownBy(FindOrAdd(accounts, pk, signer, writable), accounts, pk, signer, writable)
  <1> DEFINE result == FindOrAdd(accounts, pk, signer, writable)
             size == Len(accounts)
             asked == [key |-> pk, isSigner |-> signer, isWritable |-> writable]
             Grown(at) == [key        |-> pk,
                           isSigner   |-> accounts[at].isSigner \/ signer,
                           isWritable |-> accounts[at].isWritable \/ writable]
             Flags(i) ==
                /\ result[i].isSigner <=>
                       (i <= size /\ accounts[i].isSigner) \/ (result[i].key = pk /\ signer)
                /\ result[i].isWritable <=>
                       (i <= size /\ accounts[i].isWritable) \/ (result[i].key = pk /\ writable)
             Goal == /\ result \in Seq(AccountInfos(K))
                     /\ Len(result) \in {size, size + 1}
                     /\ Len(result) > 0
                     /\ \A i \in 1..size : result[i].key = accounts[i].key
                     /\ \E i \in 1..Len(result) : result[i].key = pk
                     /\ \A i \in (size + 1)..Len(result) : result[i].key = pk
                     /\ DistinctKeys(result)
                     /\ \A i \in 1..Len(result) : Flags(i)
  <1>0. size \in Nat /\ asked \in AccountInfos(K)
    BY DEF AccountInfos
  <1>a. \A i \in 1..size : accounts[i] \in AccountInfos(K)
    BY ElementOfSeq
  <1>b. \A i \in 1..size : accounts[i].isSigner \in BOOLEAN /\ accounts[i].isWritable \in BOOLEAN
    BY <1>a DEF AccountInfos
  <1>1. ASSUME ~\E i \in 1..size : accounts[i].key = pk,
               result = Append(accounts, asked)
        PROVE  Goal
    <2>1. /\ result \in Seq(AccountInfos(K))
          /\ Len(result) = size + 1
          /\ \A i \in 1..size : result[i] = accounts[i]
          /\ result[size + 1] = asked
      BY <1>0, <1>1
    <2>2. asked.key = pk /\ asked.isSigner = signer /\ asked.isWritable = writable
      OBVIOUS
    <2> HIDE DEF result, asked
    <2>3. DistinctKeys(result)
      BY <1>0, <1>1, <2>1, <2>2 DEF DistinctKeys
    <2>4. ASSUME NEW i \in 1..Len(result)
          PROVE  Flags(i)
      <3>1. CASE i = size + 1
        BY <1>0, <2>1, <2>2, <3>1
      <3>2. CASE i \in 1..size
        BY <1>0, <1>1, <1>b, <2>1, <3>2
      <3> QED
        BY <1>0, <2>1, <3>1, <3>2
    <2> QED
      BY <1>0, <2>1, <2>2, <2>3, <2>4
  <1>2. ASSUME NEW at \in 1..size,
               accounts[at].key = pk,
               result = [accounts EXCEPT ![at] = Grown(at)]
        PROVE  Goal
    <2>1. Grown(at) \in AccountInfos(K)
      BY DEF AccountInfos
    <2>2. result \in Seq(AccountInfos(K)) /\ Len(result) = size
      BY <1>2, <2>1
    <2>3. result[at] = Grown(at) /\ \A i \in 1..size : i # at => result[i] = accounts[i]
      BY <1>2, <2>1
    <2>4. \A i \in 1..size : accounts[i].key = pk <=> i = at
      BY <1>2 DEF DistinctKeys
    <2>5. /\ Grown(at).key = pk
          /\ Grown(at).isSigner = (accounts[at].isSigner \/ signer)
          /\ Grown(at).isWritable = (accounts[at].isWritable \/ writable)
      OBVIOUS
    <2> HIDE DEF result, Grown
    <2>6. \A i \in 1..size : result[i].key = accounts[i].key
      BY <1>2, <2>3, <2>5
    <2>7. DistinctKeys(result)
      BY <2>2, <2>6 DEF DistinctKeys
    <2>8. ASSUME NEW i \in 1..Len(result)
          PROVE  Flags(i)
      <3>1. CASE i = at
        BY <1>0, <1>2, <1>b, <2>3, <2>5, <3>1
      <3>2. CASE i # at
        <4>1. i \in 1..size /\ result[i] = accounts[i] /\ result[i].key # pk
          BY <2>2, <2>3, <2>4, <3>2
        <4> QED
          BY <1>0, <1>b, <4>1
      <3> QED
        BY <3>1, <3>2
    <2> QED
      BY <1>0, <1>2, <2>2, <2>6, <2>7, <2>8
  <1>3. Goal
    BY <1>1, <1>2, FindOrAddResult
  <1> HIDE DEF result
  <1> QED
    BY <1>3 DEF GrownBy, result

(* A mention is added to the last instruction of the list; nothing else       *)
(* changes.                                                                   *)
LEMMA WithAccountProperties ==
    ASSUME NEW K, NEW instructions \in Seq(Instructions(K)), instructions # <<>>,
           NEW am \in AccountMetas(K)
    PROVE  LET result == WithAccount(instructions, am)
           IN /\ result \in Seq(Instructions(K))
              /\ Len(result) = Len(instructions)
              /\ Len(instructions) \in Nat \ {0}
              /\ \A n \in 1..Len(instructions) :
                     /\ result[n].programId = instructions[n].programId
                     /\ result[n].accounts = IF n = Len(instructions)
                                             THEN Append(instructions[n].accounts, am)
                                             ELSE instructions[n].accounts
  <1> DEFINE last == Len(instructions)
             grown == [instructions[last] EXCEPT !.accounts = Append(@, am)]
             result == WithAccount(instructions, am)
  <1>1. last \in Nat \ {0} /\ last \in 1..last
    OBVIOUS
  <1>2. instructions[last] \in Instructions(K)
    BY <1>1, ElementOfSeq
  <1>3. grown \in Instructions(K)
    <2>1. /\ instructions[last] \in [programId : K, accounts : Seq(AccountMetas(K))]
          /\ instructions[last].accounts \in Seq(AccountMetas(K))
      BY <1>2 DEF Instructions
    <2>2. Append(instructions[last].accounts, am) \in Seq(AccountMetas(K))
      BY <2>1, AppendProperties
    <2> QED
      BY <2>1, <2>2 DEF Instructions
  <1>4. grown.programId = instructions[last].programId
    BY <1>2 DEF Instructions
  <1>5. grown.accounts = Append(instructions[last].accounts, am)
    BY <1>2 DEF Instructions
  <1>6. result = [instructions EXCEPT ![last] = grown]
    BY DEF WithAccount
  <1> HIDE DEF grown, result
  <1>7. result \in Seq(Instructions(K)) /\ Len(result) = last
    BY <1>1, <1>3, <1>6
  <1>8. \A n \in 1..last : result[n] = IF n = last THEN grown ELSE instructions[n]
    BY <1>1, <1>3, <1>6
  <1> QED
    BY <1>1, <1>4, <1>5, <1>7, <1>8 DEF result

(* The mentions of the longer list are those of the shorter and the new one.  *)
LEMMA MentionsWithAccount ==
    ASSUME NEW K, NEW instructions \in Seq(Instructions(K)), instructions # <<>>,
           NEW am \in AccountMetas(K)
    PROVE  Mentions(WithAccount(instructions, am)) = Mentions(instructions) \cup {am}
  <1> DEFINE result == WithAccount(instructions, am)
             last == Len(instructions)
  <1>1. /\ result \in Seq(Instructions(K))
        /\ Len(result) = last
        /\ last \in Nat \ {0}
        /\ \A n \in 1..last :
               /\ result[n].programId = instructions[n].programId
               /\ result[n].accounts = IF n = last
                                       THEN Append(instructions[n].accounts, am)
                                       ELSE instructions[n].accounts
    BY WithAccountProperties
  <1>2. \A n \in 1..last : instructions[n].accounts \in Seq(AccountMetas(K))
    <2>1. \A n \in 1..last : instructions[n] \in Instructions(K)
      BY ElementOfSeq
    <2> QED
      BY <2>1 DEF Instructions
  <1>3. DOMAIN result = 1..last /\ DOMAIN instructions = 1..last
    BY <1>1
  <1> HIDE DEF result
  <1> DEFINE At(list, n) == {list[n].accounts[i] : i \in DOMAIN list[n].accounts}
  <1>4. \A n \in 1..last : n # last => At(result, n) = At(instructions, n)
    BY <1>1
  <1>5. At(result, last) = At(instructions, last) \cup {am}
    <2> DEFINE old == instructions[last].accounts
    <2>1. old \in Seq(AccountMetas(K)) /\ result[last].accounts = Append(old, am)
      <3>1. last \in 1..last
        BY <1>1
      <3> QED
        BY <1>1, <1>2, <3>1
    <2> HIDE DEF old
    <2>2. /\ DOMAIN Append(old, am) = 1..(Len(old) + 1)
          /\ DOMAIN old = 1..Len(old)
          /\ Len(old) \in Nat
          /\ \A i \in 1..Len(old) : Append(old, am)[i] = old[i]
          /\ Append(old, am)[Len(old) + 1] = am
      BY <2>1
    <2>3. {Append(old, am)[i] : i \in DOMAIN Append(old, am)} = {old[i] : i \in DOMAIN old} \cup {am}
      BY <2>2
    <2> QED
      BY <2>1, <2>3 DEF old
  <1>6. Mentions(instructions) = UNION {At(instructions, n) : n \in 1..last}
    BY <1>3 DEF Mentions
  <1>7. Mentions(result) = UNION {At(result, n) : n \in 1..last}
    BY <1>3 DEF Mentions
  <1> HIDE DEF At
  <1>8. last \in 1..last
    BY <1>1
  <1>9. Mentions(result) = Mentions(instructions) \cup {am}
    BY <1>4, <1>5, <1>6, <1>7, <1>8
  <1> QED
    BY <1>9 DEF result

(* An instruction without accounts mentions nothing.                          *)
LEMMA MentionsNewInstruction ==
    ASSUME NEW K, NEW instructions \in Seq(Instructions(K)), NEW p \in K
    PROVE  LET result == Append(instructions, [programId |-> p, accounts |-> <<>>])
           IN result \in Seq(Instructions(K)) /\ Mentions(result) = Mentions(instructions)
  <1> DEFINE new == [programId |-> p, accounts |-> <<>>]
             result == Append(instructions, new)
             size == Len(instructions)
  <1>1. new \in Instructions(K)
    BY DEF Instructions
  <1>2. /\ result \in Seq(Instructions(K))
        /\ DOMAIN result = 1..(size + 1)
        /\ DOMAIN instructions = 1..size
        /\ size \in Nat
        /\ \A n \in 1..size : result[n] = instructions[n]
        /\ result[size + 1] = new
    BY <1>1
  <1> DEFINE At(list, n) == {list[n].accounts[i] : i \in DOMAIN list[n].accounts}
  <1>3. At(result, size + 1) = {}
    BY <1>2
  <1>4. \A n \in 1..size : At(result, n) = At(instructions, n)
    BY <1>2
  <1>5. Mentions(instructions) = UNION {At(instructions, n) : n \in 1..size}
    BY <1>2 DEF Mentions
  <1>6. Mentions(result) = UNION {At(result, n) : n \in 1..(size + 1)}
    BY <1>2 DEF Mentions
  <1> HIDE DEF At, result
  <1>7. Mentions(result) = Mentions(instructions)
    BY <1>2, <1>3, <1>4, <1>5, <1>6
  <1> QED
    BY <1>2, <1>7 DEF result

-----------------------------------------------------------------------------
(* The order of an account list, and what a header counts in it.              *)

LEMMA PassOfType ==
    ASSUME NEW K, NEW a \in AccountInfos(K)
    PROVE  /\ PassOf(a) \in 1..4
           /\ a.isSigner <=> PassOf(a) <= 2
           /\ a.isSigner /\ a.isWritable <=> PassOf(a) = 1
           /\ a.isWritable <=> PassOf(a) \in {1, 3}
  BY DEF PassOf, AccountInfos

LEMMA TypedEntries ==
    ASSUME NEW K, NEW accounts \in Seq(AccountInfos(K))
    PROVE  /\ Len(accounts) \in Nat
           /\ \A i \in 1..Len(accounts) :
                  /\ accounts[i] \in AccountInfos(K)
                  /\ accounts[i].key \in K
                  /\ accounts[i].isSigner \in BOOLEAN
                  /\ accounts[i].isWritable \in BOOLEAN
                  /\ PassOf(accounts[i]) \in 1..4
                  /\ accounts[i].isSigner <=> PassOf(accounts[i]) <= 2
                  /\ accounts[i].isSigner /\ accounts[i].isWritable <=> PassOf(accounts[i]) = 1
                  /\ accounts[i].isWritable <=> PassOf(accounts[i]) \in {1, 3}
  <1>1. \A i \in 1..Len(accounts) : accounts[i] \in AccountInfos(K)
    BY ElementOfSeq
  <1> QED
    BY <1>1, PassOfType DEF AccountInfos

(* The sets the header counts are finite. *)
LEMMA CountsAreFinite ==
    ASSUME NEW K, NEW accounts \in Seq(AccountInfos(K))
    PROVE  /\ IsFiniteSet(Signers(accounts))
           /\ Cardinality(Signers(accounts)) \in Nat
           /\ Cardinality(Readonly(accounts) \cap Signers(accounts)) \in Nat
           /\ Cardinality(Readonly(accounts) \ Signers(accounts)) \in Nat
  <1>1. IsFiniteSet(1..Len(accounts))
    BY FS_Interval
  <1>2. /\ Signers(accounts) \in SUBSET (1..Len(accounts))
        /\ Readonly(accounts) \cap Signers(accounts) \in SUBSET (1..Len(accounts))
        /\ Readonly(accounts) \ Signers(accounts) \in SUBSET (1..Len(accounts))
    BY DEF Signers, Readonly
  <1>3. \A T \in SUBSET (1..Len(accounts)) : IsFiniteSet(T)
    BY <1>1, FS_Subset
  <1>4. \A T \in SUBSET (1..Len(accounts)) : Cardinality(T) \in Nat
    BY <1>3, FS_CardinalityType
  <1> QED
    BY <1>2, <1>3, <1>4

InPassOrder(accounts) ==
    \A i, j \in 1..Len(accounts) : i < j => PassOf(accounts[i]) <= PassOf(accounts[j])

LEMMA UpToPass ==
    ASSUME NEW K, NEW accounts \in Seq(AccountInfos(K)), InPassOrder(accounts), NEW p \in Nat
    PROVE  \E k \in 0..Len(accounts) :
               \A i \in 1..Len(accounts) : PassOf(accounts[i]) <= p <=> i <= k
  <1> DEFINE n == Len(accounts)
             T == {i \in 1..n : PassOf(accounts[i]) <= p}
  <1>1. n \in Nat /\ \A i \in 1..n : PassOf(accounts[i]) \in 1..4
    BY TypedEntries
  <1>2. \A i \in T : \A j \in 1..i : j \in T
    BY <1>1 DEF InPassOrder
  <1>3. T \in SUBSET (1..n)
    OBVIOUS
  <1>5. \A i \in 1..n : i \in T <=> PassOf(accounts[i]) <= p
    OBVIOUS
  <1> HIDE DEF T
  <1>4. PICK k \in 0..n : T = 1..k
    BY <1>1, <1>2, <1>3, PrefixExists
  <1>6. \A i \in 1..n : i \in T <=> i <= k
    BY <1>1, <1>4
  <1> QED
    BY <1>5, <1>6

(* The size of a set of positions that follow each other. *)
LEMMA RangeSize ==
    ASSUME NEW n \in Nat, NEW a \in 0..n, NEW b \in 0..n, a <= b,
           NEW T \in SUBSET (1..n),
           \A i \in 1..n : i \in T <=> a < i /\ i <= b
    PROVE  Cardinality(T) = b - a
  <1>1. \A i \in T : i \in (a + 1)..b
    OBVIOUS
  <1>2. \A i \in (a + 1)..b : i \in T
    OBVIOUS
  <1>3. T = (a + 1)..b
    BY <1>1, <1>2
  <1>4. Cardinality((a + 1)..b) = IF a + 1 > b THEN 0 ELSE b - (a + 1) + 1
    BY FS_Interval
  <1> QED
    BY <1>3, <1>4

(* In an ordered list, the three counts say where the signers end, and where  *)
(* in each half the accounts that may be written end.                         *)
LEMMA SortedCounts ==
    ASSUME NEW K, NEW accounts \in Seq(AccountInfos(K)), InPassOrder(accounts)
    PROVE  LET n == Len(accounts)
               s == Cardinality(Signers(accounts))
               r == Cardinality(Readonly(accounts) \cap Signers(accounts))
               u == Cardinality(Readonly(accounts) \ Signers(accounts))
           IN /\ n \in Nat /\ s \in 0..n /\ r \in 0..s /\ u \in 0..(n - s)
              /\ \A i \in 1..n : /\ accounts[i].isSigner <=> i <= s
                                 /\ i <= s => (accounts[i].isWritable <=> i <= s - r)
                                 /\ i > s => (accounts[i].isWritable <=> i <= n - u)
  <1> DEFINE n == Len(accounts)
             S == Signers(accounts)
             R == Readonly(accounts)
             P == [i \in 1..n |-> PassOf(accounts[i])]
  <1>1. /\ n \in Nat
        /\ \A i \in 1..n : /\ P[i] \in 1..4
                           /\ accounts[i].isSigner <=> P[i] <= 2
                           /\ accounts[i].isWritable <=> P[i] \in {1, 3}
    <2>1. /\ n \in Nat
          /\ \A i \in 1..n : P[i] = PassOf(accounts[i])
      BY TypedEntries
    <2> QED
      BY <2>1, TypedEntries
  <1>2. PICK w \in 0..n : \A i \in 1..n : P[i] <= 1 <=> i <= w
    BY UpToPass
  <1>3. PICK k \in 0..n : \A i \in 1..n : P[i] <= 2 <=> i <= k
    BY UpToPass
  <1>4. PICK m \in 0..n : \A i \in 1..n : P[i] <= 3 <=> i <= m
    BY UpToPass
  <1>5. /\ \A i \in 1..n : i \in S <=> P[i] <= 2
        /\ \A i \in 1..n : i \in R <=> P[i] \in {2, 4}
        /\ S \in SUBSET (1..n) /\ R \in SUBSET (1..n)
    BY <1>1 DEF Signers, Readonly
  <1> HIDE DEF P, S, R, n
  <1>6. w <= k /\ k <= m
    <2>1. ASSUME NEW i \in 1..n
          PROVE  (i <= w => i <= k) /\ (i <= k => i <= m)
      <3>1. P[i] \in 1..4
        BY <1>1
      <3>2. (i <= w <=> P[i] <= 1) /\ (i <= k <=> P[i] <= 2) /\ (i <= m <=> P[i] <= 3)
        BY <1>2, <1>3, <1>4
      <3> QED
        BY <3>1, <3>2
    <2>2. w \in 1..n \/ w = 0
      BY <1>1
    <2>3. k \in 1..n \/ k = 0
      BY <1>1
    <2> QED
      BY <1>1, <2>1, <2>2, <2>3
  <1>7. Cardinality(S) = k
    <2>1. \A i \in 1..n : i \in S <=> 0 < i /\ i <= k
      BY <1>1, <1>3, <1>5
    <2>2. 0 \in 0..n /\ 0 <= k /\ S \in SUBSET (1..n)
      BY <1>1, <1>5
    <2>3. Cardinality(S) = k - 0
      BY <1>1, <2>1, <2>2, RangeSize
    <2> QED
      BY <2>3
  <1>8. Cardinality(R \cap S) = k - w
    <2>1. \A i \in 1..n : i \in R \cap S <=> w < i /\ i <= k
      BY <1>1, <1>2, <1>3, <1>5
    <2>2. R \cap S \in SUBSET (1..n)
      BY <1>5
    <2> QED
      BY <1>1, <1>6, <2>1, <2>2, RangeSize
  <1>9. Cardinality(R \ S) = n - m
    <2>1. \A i \in 1..n : i \in R \ S <=> m < i /\ i <= n
      BY <1>1, <1>3, <1>4, <1>5, <1>6
    <2>2. R \ S \in SUBSET (1..n)
      BY <1>5
    <2>3. n \in 0..n /\ m <= n
      BY <1>1
    <2> QED
      BY <1>1, <2>1, <2>2, <2>3, RangeSize
  <1>11. \A i \in 1..n : /\ accounts[i].isSigner <=> i <= k
                         /\ i <= k => (accounts[i].isWritable <=> i <= w)
                         /\ i > k => (accounts[i].isWritable <=> i <= m)
    BY <1>1, <1>2, <1>3, <1>4
  <1>12. k - (k - w) = w /\ n - (n - m) = m /\ k - w \in 0..k /\ n - m \in 0..(n - k)
    BY <1>1, <1>6
  <1>13. n = Len(accounts) /\ S = Signers(accounts) /\ R = Readonly(accounts)
    BY DEF n, S, R
  <1> DEFINE s == Cardinality(Signers(accounts))
             r == Cardinality(Readonly(accounts) \cap Signers(accounts))
             u == Cardinality(Readonly(accounts) \ Signers(accounts))
  <1>14. s = k /\ r = k - w /\ u = n - m
    BY <1>7, <1>8, <1>9, <1>13
  <1> HIDE DEF s, r, u
  <1>15. /\ n \in Nat /\ s \in 0..n /\ r \in 0..s /\ u \in 0..(n - s)
         /\ \A i \in 1..n : /\ accounts[i].isSigner <=> i <= s
                            /\ i <= s => (accounts[i].isWritable <=> i <= s - r)
                            /\ i > s => (accounts[i].isWritable <=> i <= n - u)
    <2>1. s - r = w /\ n - u = m
      BY <1>12, <1>14
    <2>2. s \in 0..n /\ r \in 0..s /\ u \in 0..(n - s)
      BY <1>12, <1>14
    <2>3. \A i \in 1..n : /\ accounts[i].isSigner <=> i <= s
                          /\ i <= s => (accounts[i].isWritable <=> i <= s - r)
                          /\ i > s => (accounts[i].isWritable <=> i <= n - u)
      BY <1>11, <1>14, <2>1
    <2> QED
      BY <1>1, <2>2, <2>3
  <1> QED
    BY <1>13, <1>15 DEF s, r, u

LEMMA ByteOf ==
    ASSUME NEW n \in Nat, NEW range \in Nat \ {0}
    PROVE  n % range \in 0..(range - 1) /\ n % range <= n /\ (n < range => n % range = n)
  OBVIOUS

LEMMA HeaderType ==
    ASSUME NEW K, NEW accounts \in Seq(AccountInfos(K)), NEW range \in Nat \ {0}
    PROVE  HeaderOf(accounts, range) \in Headers(range)
  <1> DEFINE s == Cardinality(Signers(accounts))
             r == Cardinality(Readonly(accounts) \cap Signers(accounts))
             u == Cardinality(Readonly(accounts) \ Signers(accounts))
  <1>1. /\ s % range \in 0..(range - 1)
        /\ r % range \in 0..(range - 1)
        /\ u % range \in 0..(range - 1)
    BY CountsAreFinite, ByteOf
  <1> QED
    BY <1>1 DEF HeaderOf, Headers

(* The list compile starts with. *)
LEMMA InitialAccounts ==
    ASSUME NEW K, NEW payer \in K
    PROVE  /\ FindOrAdd(<<>>, payer, TRUE, TRUE) =
                  <<[key |-> payer, isSigner |-> TRUE, isWritable |-> TRUE]>>
           /\ FindOrAdd(<<>>, payer, TRUE, TRUE) \in Seq(AccountInfos(K))
  <1> DEFINE entry == [key |-> payer, isSigner |-> TRUE, isWritable |-> TRUE]
  <1>1. <<>> \in Seq(AccountInfos(K)) /\ Len(<<>>) = 0 /\ 1..0 = {}
    OBVIOUS
  <1>2. ~Holds(KeysOf(<<>>), payer)
    BY <1>1, KeysOfType
  <1>3. FindOrAdd(<<>>, payer, TRUE, TRUE) = Append(<<>>, entry)
    BY <1>2 DEF FindOrAdd
  <1>4. entry \in AccountInfos(K)
    BY DEF AccountInfos
  <1> HIDE DEF entry
  <1>5. Append(<<>>, entry) = <<entry>> /\ <<entry>> \in Seq(AccountInfos(K))
    BY <1>4
  <1> QED
    BY <1>3, <1>5 DEF entry

-----------------------------------------------------------------------------
(* The inductive invariant of signing, for the keys of the message.           *)

SignTypeOK ==
    /\ blockhashOk \in BOOLEAN /\ constructed \in BOOLEAN
    /\ slots \in Seq(Signatories \cup {Unsigned})
    /\ signers \in Seq(Signatories)
    /\ tried \in SUBSET Signatories
    /\ ~constructed => slots = <<>> /\ signers = <<>> /\ tried = {}

(* A keypair that was come to and has a slot has signed. *)
TriedSigned(keys) ==
    \A pk \in tried : SlotsFor(keys, pk) # {} => \E i \in DOMAIN slots : slots[i] = pk

SigningInv(keys) == SignTypeOK /\ OwnSlots(keys) /\ TriedSigned(keys)

-----------------------------------------------------------------------------

LEMMA SignInitInv == ASSUME SignInit, NEW keys PROVE SigningInv(keys)
  <1>1. slots = <<>> /\ signers = <<>> /\ tried = {} /\ DOMAIN slots = {}
    BY DEF SignInit
  <1>2. slots \in Seq(Signatories \cup {Unsigned}) /\ signers \in Seq(Signatories)
    BY <1>1
  <1> QED
    BY <1>1, <1>2 DEF SignInit, SigningInv, SignTypeOK, OwnSlots, TriedSigned

(* Before the constructor has run, the keys do not matter. *)
LEMMA UnconstructedInv ==
    ASSUME SignTypeOK, ~constructed, UNCHANGED signVars, NEW keys
    PROVE  SigningInv(keys)'
  BY DEF SignTypeOK, SigningInv, OwnSlots, TriedSigned, signVars

LEMMA ConstructInv ==
    ASSUME NEW keys, SigningInv(keys), NEW n \in Nat, Construct(n)
    PROVE  /\ SignTypeOK' /\ OwnSlots(keys)' /\ TriedSigned(keys)'
           /\ constructed' /\ Len(slots') = n /\ slots = <<>>
  <1>1. /\ slots' = [i \in 1..n |-> Unsigned] /\ slots = <<>>
        /\ constructed' /\ tried' = {} /\ signers' = <<>>
    BY DEF SigningInv, SignTypeOK, Construct
  <1>2. slots' \in Seq(Signatories \cup {Unsigned}) /\ Len(slots') = n /\ DOMAIN slots' = 1..n
    BY <1>1
  <1>3. SignTypeOK'
    BY <1>1, <1>2 DEF SignTypeOK, SigningInv, Construct
  <1> QED
    BY <1>1, <1>2, <1>3 DEF OwnSlots, TriedSigned

(* Calls that begin, and calls that throw, leave the slots alone.             *)
LEMMA CallInv ==
    ASSUME NEW keys, SigningInv(keys), constructed,
           NEW list \in SignerLists, BeginSign(list) \/ SignThrows(list)
    PROVE  SignTypeOK' /\ OwnSlots(keys)' /\ TriedSigned(keys)' /\ constructed' /\ slots' = slots
  <1>1. list \in Seq(Signatories)
    BY SigningAssumption DEF SignerLists
  <1> QED
    BY <1>1 DEF SigningInv, SignTypeOK, OwnSlots, TriedSigned, SlotsFor, BeginSign, SignThrows

(* A keypair fills its first slot, if it has one, and changes no other        *)
(* signature.                                                                 *)
LEMMA SignNextInv ==
    ASSUME NEW keys, Len(keys) \in Nat, SigningInv(keys), SignNext(keys)
    PROVE  /\ SignTypeOK' /\ OwnSlots(keys)' /\ TriedSigned(keys)' /\ constructed'
           /\ Len(slots') = Len(slots)
           /\ \A i \in DOMAIN slots : slots[i] # Unsigned => slots'[i] = slots[i]
  <1> DEFINE pk == Head(signers)
             own == SlotsFor(keys, pk)
             n == Len(slots)
             First(i) == i \in own /\ \A j \in own : i <= j
  <1>1. /\ constructed /\ signers # <<>>
        /\ pk \in Signatories /\ Tail(signers) \in Seq(Signatories)
        /\ n \in Nat /\ DOMAIN slots = 1..n
    BY DEF SigningInv, SignTypeOK, SignNext
  <1>2. slots' = [i \in 1..n |-> IF First(i) THEN pk ELSE slots[i]]
    BY <1>1 DEF SignNext
  <1>3. /\ own \in SUBSET (1..n)
        /\ \A i \in own : keys[i] = pk
    BY <1>1 DEF SlotsFor
  <1>4. \A i \in 1..n : slots[i] \in Signatories \cup {Unsigned} /\ slots[i] \in {Unsigned, keys[i]}
    BY <1>1 DEF SigningInv, SignTypeOK, OwnSlots
  <1>5. signers' = Tail(signers) /\ tried' = tried \cup {pk} /\ constructed' /\ blockhashOk' = blockhashOk
    BY <1>1 DEF SignNext
  <1> HIDE DEF own, pk
  <1>6. /\ DOMAIN slots' = 1..n
        /\ \A i \in 1..n : slots'[i] = IF First(i) THEN pk ELSE slots[i]
    BY <1>2
  <1>7. slots' \in Seq(Signatories \cup {Unsigned}) /\ Len(slots') = n
    <2>1. \A i \in 1..n : (IF First(i) THEN pk ELSE slots[i]) \in Signatories \cup {Unsigned}
      BY <1>1, <1>4
    <2> HIDE DEF First
    <2> QED
      BY <1>1, <1>2, <2>1
  <1>8. SignTypeOK'
    BY <1>1, <1>5, <1>7 DEF SignTypeOK, SigningInv
  <1>9. OwnSlots(keys)'
    BY <1>3, <1>4, <1>6 DEF OwnSlots
  <1>10. \A i \in 1..n : slots[i] # Unsigned => slots'[i] = slots[i]
    BY <1>3, <1>4, <1>6
  <1>11. TriedSigned(keys)'
    <2> SUFFICES ASSUME NEW q \in tried', SlotsFor(keys, q)' # {}
                 PROVE  \E i \in 1..n : slots'[i] = q
      BY <1>6 DEF TriedSigned
    <2>1. SlotsFor(keys, q) # {}
      BY <1>7 DEF SlotsFor
    <2>2. CASE q = pk
      <3>1. own # {} /\ own \in SUBSET Nat
        BY <1>3, <2>1, <2>2 DEF own
      <3>2. PICK i \in own : \A j \in own : i <= j
        BY <3>1, LeastNumber
      <3> QED
        BY <1>3, <1>6, <2>2, <3>2
    <2>3. CASE q \in tried
      <3>1. PICK i \in 1..n : slots[i] = q
        BY <1>1, <2>1, <2>3 DEF SigningInv, TriedSigned
      <3>2. q # Unsigned
        BY <2>3, SigningAssumption DEF SigningInv, SignTypeOK
      <3> QED
        BY <1>10, <3>1, <3>2
    <2> QED
      BY <1>5, <2>2, <2>3
  <1> QED
    BY <1>1, <1>5, <1>7, <1>8, <1>9, <1>10, <1>11

(* Between calls, the required signers that have a slot and were passed have  *)
(* signed.                                                                    *)
LEMMA TriedMeansSigned ==
    ASSUME NEW keys, Len(keys) \in Nat, SigningInv(keys), NEW required,
           \A pk \in required : \E i \in 1..Len(keys) : i <= Len(slots) /\ keys[i] = pk
    PROVE  SignedBy(required)
  BY DEF SigningInv, TriedSigned, SlotsFor, SignedBy

-----------------------------------------------------------------------------
(* The bytes of a message and of a transaction, and what a reader finds in    *)
(* them.                                                                      *)

(* Division by the constant that seven bits stand for.                        *)
LEMMA SevenBits ==
    ASSUME NEW n \in Nat
    PROVE  /\ n \div HighBit \in Nat /\ n % HighBit \in Nat /\ n % HighBit < HighBit
           /\ n = (n % HighBit) + HighBit * (n \div HighBit)
           /\ n >= HighBit => n \div HighBit < n
  BY WireAssumption

(* The encoder computes what its equation says. *)
LEMMA WriteCompactU16Equation ==
    \A n \in Nat : WriteCompactU16(n) =
        IF n < HighBit THEN <<n>>
        ELSE <<(n % HighBit) + HighBit>> \o WriteCompactU16(n \div HighBit)
  <1> DEFINE D == Nat
             T == Seq(Nat)
             size == [n \in Nat |-> n]
             stop == {n \in Nat : n < HighBit}
             base == [n \in Nat |-> <<n>>]
             prev == [n \in Nat |-> n \div HighBit]
             digit(n) == <<(n % HighBit) + HighBit>>
             next == [n \in Nat |-> [t \in Seq(Nat) |-> digit(n) \o t]]
             IsFrom(h) == h = [n \in Nat |-> IF n < HighBit THEN <<n>>
                                             ELSE <<(n % HighBit) + HighBit>> \o h[n \div HighBit]]
  <1>1. size \in [D -> Nat] /\ stop \in SUBSET D /\ base \in [D -> T] /\ prev \in [D -> D]
    BY SevenBits
  <1>2. next \in [D -> [T -> T]]
    <2>1. ASSUME NEW n \in Nat, NEW t \in Seq(Nat)
          PROVE  digit(n) \o t \in Seq(Nat)
      <3>1. digit(n) \in Seq(Nat)
        BY SevenBits, WireAssumption
      <3> HIDE DEF digit
      <3> QED
        BY <3>1, ConcatProperties
    <2> HIDE DEF digit
    <2> QED
      BY <2>1
  <1>3. ASSUME NEW n \in D, n \notin stop
        PROVE  size[prev[n]] < size[n]
    <2>1. n \in Nat /\ n >= HighBit
      BY <1>3, WireAssumption
    <2>2. n \div HighBit \in Nat /\ n \div HighBit < n
      BY <2>1, SevenBits
    <2> QED
      BY <2>1, <2>2
  <1>4. \E f \in [D -> T] : IsRecursion(f, D, stop, base, prev, next)
    <2> HIDE DEF D, T, size, stop, base, prev, next
    <2> QED
      BY <1>1, <1>2, <1>3, RecursionExists
  <1>5. PICK f \in [D -> T] : IsRecursion(f, D, stop, base, prev, next)
    BY <1>4
  <1>6. \A n \in Nat : f[n] = IF n < HighBit THEN <<n>>
                               ELSE <<(n % HighBit) + HighBit>> \o f[n \div HighBit]
    <2> SUFFICES ASSUME NEW n \in Nat
                 PROVE  f[n] = IF n < HighBit THEN <<n>> ELSE digit(n) \o f[n \div HighBit]
      OBVIOUS
    <2>1. f[n] = IF n \in stop THEN base[n] ELSE next[n][f[prev[n]]]
      BY <1>5 DEF IsRecursion
    <2>2. prev[n] = n \div HighBit /\ f[prev[n]] \in Seq(Nat)
      BY <1>1, <1>5
    <2>3. next[n][f[prev[n]]] = digit(n) \o f[prev[n]]
      <3> HIDE DEF digit, prev
      <3> QED
        BY <2>2
    <2>4. base[n] = <<n>> /\ (n \in stop <=> n < HighBit)
      OBVIOUS
    <2> HIDE DEF digit, prev, next, stop, base
    <2> QED
      BY <2>1, <2>2, <2>3, <2>4
  <1>7. IsFrom(f)
    BY <1>5, <1>6
  <1>9. \A v \in Nat : WriteCompactU16(v) = (CHOOSE h : IsFrom(h))[v]
    BY DEF WriteCompactU16
  <1>10. IsFrom(CHOOSE h : IsFrom(h))
    <2> HIDE DEF IsFrom
    <2> QED
      BY <1>7
  <1>11. \A h : IsFrom(h) => \A n \in Nat : h[n] = IF n < HighBit THEN <<n>>
                                ELSE <<(n % HighBit) + HighBit>> \o h[n \div HighBit]
    OBVIOUS
  <1> DEFINE written == CHOOSE h : IsFrom(h)
  <1>12. \A n \in Nat : written[n] = IF n < HighBit THEN <<n>>
                                ELSE <<(n % HighBit) + HighBit>> \o written[n \div HighBit]
    <2> HIDE DEF IsFrom
    <2> QED
      BY <1>10, <1>11
  <1> HIDE DEF written
  <1>13. \A n \in Nat : n \div HighBit \in Nat
    BY SevenBits
  <1>14. ASSUME NEW n \in Nat
         PROVE  WriteCompactU16(n) = IF n < HighBit THEN <<n>>
                    ELSE <<(n % HighBit) + HighBit>> \o WriteCompactU16(n \div HighBit)
    <2>1. WriteCompactU16(n) = written[n]
      BY <1>9 DEF written
    <2>2. WriteCompactU16(n \div HighBit) = written[n \div HighBit]
      BY <1>9, <1>13 DEF written
    <2> QED
      BY <1>12, <2>1, <2>2, Zenon
  <1> QED
    BY <1>14

(* n are the numbers that are left to write before each byte of c. *)
Spells(c, n) ==
    /\ c \in Seq(Nat) /\ n \in Seq(Nat) /\ Len(c) = Len(n) /\ Len(n) >= 1
    /\ n[Len(n)] < HighBit /\ c[Len(n)] = n[Len(n)]
    /\ \A i \in 1..(Len(n) - 1) :
           /\ n[i] >= HighBit /\ c[i] = (n[i] % HighBit) + HighBit
           /\ n[i + 1] = n[i] \div HighBit

(* A byte more in front. *)
LEMMA SpellsMore ==
    ASSUME NEW c, NEW n, Spells(c, n), NEW v \in Nat, v >= HighBit, n[1] = v \div HighBit,
           NEW b, b = (v % HighBit) + HighBit
    PROVE  Spells(<<b>> \o c, <<v>> \o n)
  <1> DEFINE d == <<b>> \o c
             m == <<v>> \o n
  <1>1. c \in Seq(Nat) /\ n \in Seq(Nat) /\ Len(c) = Len(n) /\ Len(n) >= 1 /\ b \in Nat
    BY SevenBits, WireAssumption DEF Spells
  <1>2. /\ d \in Seq(Nat) /\ Len(d) = Len(c) + 1 /\ d[1] = b
        /\ \A i \in 1..Len(c) : d[i + 1] = c[i]
    BY <1>1, InFront
  <1>3. /\ m \in Seq(Nat) /\ Len(m) = Len(n) + 1 /\ m[1] = v
        /\ \A i \in 1..Len(n) : m[i + 1] = n[i]
    BY <1>1, InFront
  <1> HIDE DEF d, m
  <1>0. Len(n) \in 1..Len(n) /\ Len(n) \in 1..Len(c)
    BY <1>1
  <1>4. m[Len(m)] = n[Len(n)] /\ d[Len(m)] = c[Len(n)]
    BY <1>0, <1>1, <1>2, <1>3
  <1>5. ASSUME NEW i \in 1..(Len(m) - 1)
        PROVE  /\ m[i] >= HighBit /\ d[i] = (m[i] % HighBit) + HighBit
               /\ m[i + 1] = m[i] \div HighBit
    <2>1. m[i + 1] = n[i]
      BY <1>3
    <2>2. CASE i = 1
      BY <1>2, <1>3, <2>1, <2>2
    <2>3. CASE i # 1
      <3> DEFINE j == i - 1
      <3>1. j \in 1..(Len(n) - 1) /\ j \in 1..Len(c) /\ j + 1 = i
        BY <1>1, <1>3, <2>3
      <3> HIDE DEF j
      <3>2. m[i] = n[j] /\ d[i] = c[j] /\ n[i] = n[j + 1]
        BY <1>1, <1>2, <1>3, <3>1
      <3>3. /\ n[j] >= HighBit /\ c[j] = (n[j] % HighBit) + HighBit
            /\ n[j + 1] = n[j] \div HighBit
        BY <3>1 DEF Spells
      <3> QED
        BY <2>1, <3>2, <3>3
    <2> QED
      BY <2>2, <2>3
  <1>6. n[Len(n)] < HighBit /\ c[Len(n)] = n[Len(n)]
    BY DEF Spells
  <1>7. Spells(d, m)
    BY <1>1, <1>2, <1>3, <1>4, <1>5, <1>6 DEF Spells
  <1> QED
    BY <1>7 DEF d, m

(* Every length is spelt so.                                                  *)
LEMMA LengthShape ==
    \A v \in Nat : \E n : Spells(WriteCompactU16(v), n) /\ n[1] = v
  <1> DEFINE Spelt(v) == \E n : Spells(WriteCompactU16(v), n) /\ n[1] = v
             Below == {k \in Nat : \A v \in Nat : v < k => Spelt(v)}
  <1>1. 0 \in Below
    OBVIOUS
  <1>2. ASSUME NEW k \in Nat, k \in Below
        PROVE  k + 1 \in Below
    <2> SUFFICES ASSUME NEW v \in Nat, v < k + 1
                 PROVE  Spelt(v)
      <3> HIDE DEF Spelt
      <3> QED
        OBVIOUS
    <2>1. CASE v < HighBit
      <3>1. WriteCompactU16(v) = <<v>>
        BY <2>1, WriteCompactU16Equation
      <3>2. Spells(<<v>>, <<v>>) /\ <<v>>[1] = v
        BY <2>1 DEF Spells
      <3> QED
        BY <3>1, <3>2
    <2>2. CASE ~(v < HighBit)
      <3> DEFINE w == v \div HighBit
                 b == (v % HighBit) + HighBit
                 c == WriteCompactU16(w)
      <3>1. v >= HighBit
        BY <2>2, WireAssumption
      <3>2. w \in Nat /\ w < k
        <4>1. w \in Nat /\ w < v
          BY <3>1, SevenBits
        <4> HIDE DEF w
        <4> QED
          BY <4>1
      <3>3. WriteCompactU16(v) = <<b>> \o c
        BY <2>2, WriteCompactU16Equation
      <3>4. Spelt(w)
        <4> HIDE DEF w, Spelt
        <4> QED
          BY <1>2, <3>2
      <3>5. PICK n : Spells(c, n) /\ n[1] = w
        BY <3>4
      <3>6. Spells(<<b>> \o c, <<v>> \o n)
        <4> HIDE DEF c
        <4> QED
          BY <3>1, <3>5, SpellsMore
      <3>7. (<<v>> \o n)[1] = v
        <4>1. n \in Seq(Nat)
          BY <3>5 DEF Spells
        <4> QED
          BY <4>1, InFront
      <3> HIDE DEF c, b
      <3> QED
        BY <3>3, <3>6, <3>7
    <2> QED
      BY <2>1, <2>2
  <1>3. \A k \in Nat : k \in Below
    <2> HIDE DEF Below
    <2> QED
      BY <1>1, <1>2, AllNumbers
  <1> SUFFICES ASSUME NEW v \in Nat
               PROVE  Spelt(v)
    OBVIOUS
  <1>4. v + 1 \in Nat /\ v < v + 1
    OBVIOUS
  <1> HIDE DEF Spelt
  <1> QED
    BY <1>3, <1>4

(* What a reader of a length finds in what was written, whatever follows.     *)
LEMMA LengthReadsBack ==
    ASSUME NEW K, Nat \subseteq K, NEW v \in Nat, NEW rest \in Seq(K)
    PROVE  ReadLength(Joined(WriteCompactU16(v), rest)) = Read(v, rest)
  <1> DEFINE c == WriteCompactU16(v)
             bytes == Joined(c, rest)
             IsLast(i) == /\ i \in 1..Len(bytes) /\ bytes[i] < HighBit
                          /\ \A j \in 1..(i - 1) : bytes[j] >= HighBit
             last == CHOOSE i \in 1..Len(bytes) :
                         bytes[i] < HighBit /\ \A j \in 1..(i - 1) : bytes[j] >= HighBit
  <1>1. PICK n : Spells(c, n) /\ n[1] = v
    BY LengthShape
  <1> DEFINE size == Len(n)
  <1>2. /\ c \in Seq(Nat) /\ n \in Seq(Nat) /\ Len(c) = size /\ size \in Nat /\ size >= 1
        /\ n[size] < HighBit /\ c[size] = n[size]
        /\ \A i \in 1..(size - 1) :
               /\ n[i] >= HighBit /\ c[i] = (n[i] % HighBit) + HighBit
               /\ n[i + 1] = n[i] \div HighBit
    BY <1>1 DEF Spells
  <1>3. c \in Seq(K)
    BY <1>2
  <1> HIDE DEF c
  <1>4. /\ bytes \in Seq(K) /\ Len(bytes) = Len(c) + Len(rest)
        /\ \A i \in 1..(Len(c) + Len(rest)) :
               bytes[i] = IF i <= Len(c) THEN c[i] ELSE rest[i - Len(c)]
    BY <1>3, ConcatProperties DEF Joined
  <1> HIDE DEF bytes, size
  <1>5. \A i \in 1..size : i \in 1..Len(bytes) /\ bytes[i] = c[i] /\ n[i] \in Nat
    BY <1>2, <1>4 DEF size
  <1>6. bytes[size] < HighBit /\ \A j \in 1..(size - 1) : bytes[j] >= HighBit
    <2>1. bytes[size] < HighBit
      BY <1>2, <1>5
    <2>2. ASSUME NEW j \in 1..(size - 1)
          PROVE  bytes[j] >= HighBit
      <3>1. j \in 1..size /\ n[j] \in Nat
        BY <1>2, <1>5
      <3>2. bytes[j] = (n[j] % HighBit) + HighBit
        BY <1>2, <1>5, <3>1
      <3> QED
        BY <3>1, <3>2, SevenBits, WireAssumption
    <2> QED
      BY <2>1, <2>2
  <1>7. last = size
    <2>1. ASSUME NEW i \in 1..Len(bytes), bytes[i] < HighBit, \A j \in 1..(i - 1) : bytes[j] >= HighBit
          PROVE  i = size
      <3>1. ~(size < i)
        <4> SUFFICES ASSUME size < i
                     PROVE  FALSE
          OBVIOUS
        <4>1. size \in 1..(i - 1)
          BY <1>2
        <4>2. bytes[size] >= HighBit
          BY <2>1, <4>1
        <4>3. bytes[size] \in Nat
          BY <1>2, <1>5
        <4> QED
          BY <1>6, <4>2, <4>3, WireAssumption
      <3>2. ~(i < size)
        <4> SUFFICES ASSUME i < size
                     PROVE  FALSE
          OBVIOUS
        <4>1. i \in 1..(size - 1) /\ i \in 1..size
          BY <1>2
        <4>2. bytes[i] >= HighBit /\ bytes[i] \in Nat
          BY <1>2, <1>5, <1>6, <4>1
        <4> QED
          BY <2>1, <4>2, WireAssumption
      <3>3. i \in Nat /\ size \in Nat
        BY <1>2, <1>4
      <3> QED
        BY <3>1, <3>2, <3>3
    <2>2. size \in 1..Len(bytes)
      BY <1>2, <1>5
    <2> QED
      BY <1>6, <2>1, <2>2
  <1> DEFINE IsFrom(h) == h = [i \in 1..last |-> IF i = last THEN bytes[i]
                               ELSE (bytes[i] - HighBit) + HighBit * h[i + 1]]
  <1>8. ReadLength(bytes) = Read((CHOOSE h : IsFrom(h))[1], SubSeq(bytes, last + 1, Len(bytes)))
    BY DEF ReadLength
  <1>9. n \in Seq(Nat) /\ n[1] = v
    BY <1>1, <1>2
  <1> DEFINE m == [i \in 1..last |-> n[i]]
  <1> HIDE DEF last
  <1>10. IsFrom(m)
    <2>1. ASSUME NEW i \in 1..last, i # last
          PROVE  n[i] = (bytes[i] - HighBit) + HighBit * n[i + 1]
      <3>1. i \in 1..(size - 1) /\ i \in 1..size
        BY <1>2, <1>7, <2>1
      <3>2. n[i] \in Nat /\ bytes[i] = (n[i] % HighBit) + HighBit /\ n[i + 1] = n[i] \div HighBit
        BY <1>2, <1>5, <3>1
      <3>3. n[i] = (n[i] % HighBit) + HighBit * (n[i] \div HighBit) /\ n[i] % HighBit \in Nat
        BY <3>2, SevenBits
      <3> DEFINE r == n[i] % HighBit
                 q == n[i] \div HighBit
      <3>4. (r + HighBit) - HighBit = r
        BY <3>3, WireAssumption
      <3> QED
        BY <3>2, <3>3, <3>4
    <2>2. \A i \in 1..last : i # last => i + 1 \in 1..last
      BY <1>2, <1>7
    <2>3. last \in 1..size /\ bytes[last] = n[last]
      BY <1>2, <1>5, <1>7
    <2>4. ASSUME NEW i \in 1..last
          PROVE  m[i] = IF i = last THEN bytes[i] ELSE (bytes[i] - HighBit) + HighBit * m[i + 1]
      <3>1. CASE i = last
        BY <2>3, <3>1
      <3>2. CASE i # last
        <4>1. m[i] = n[i] /\ m[i + 1] = n[i + 1]
          BY <2>2, <3>2
        <4> HIDE DEF m
        <4> QED
          BY <2>1, <3>2, <4>1
      <3> QED
        BY <3>1, <3>2
    <2> QED
      BY <2>4
  <1>11. ASSUME NEW h, IsFrom(h)
         PROVE  h[1] = v
    <2> DEFINE Same == {k \in Nat : k < size => h[size - k] = n[size - k]}
    <2>1. \A i \in 1..last : h[i] = IF i = last THEN bytes[i]
                               ELSE (bytes[i] - HighBit) + HighBit * h[i + 1]
      BY <1>11
    <2>2. \A i \in 1..last : m[i] = IF i = last THEN bytes[i]
                               ELSE (bytes[i] - HighBit) + HighBit * m[i + 1]
      BY <1>10
    <2>3. \A i \in 1..last : m[i] = n[i]
      OBVIOUS
    <2> HIDE DEF IsFrom, m
    <2>4. 0 \in Same
      <3>1. size \in 1..last /\ size = last /\ size - 0 = size
        BY <1>2, <1>7
      <3>2. h[size] = bytes[size] /\ m[size] = bytes[size]
        BY <2>1, <2>2, <3>1
      <3> QED
        BY <2>3, <3>1, <3>2
    <2>5. ASSUME NEW k \in Nat, k \in Same
          PROVE  k + 1 \in Same
      <3> SUFFICES ASSUME k + 1 < size
                   PROVE  h[size - (k + 1)] = n[size - (k + 1)]
        OBVIOUS
      <3> DEFINE i == size - (k + 1)
      <3>1. i \in 1..last /\ i # last /\ i + 1 \in 1..last /\ i + 1 = size - k /\ k < size
        BY <1>2, <1>7
      <3> HIDE DEF i
      <3>2. h[i + 1] = n[i + 1] /\ m[i + 1] = n[i + 1] /\ m[i] = n[i]
        BY <2>3, <2>5, <3>1
      <3>3. h[i] = (bytes[i] - HighBit) + HighBit * h[i + 1]
        BY <2>1, <3>1
      <3>4. m[i] = (bytes[i] - HighBit) + HighBit * m[i + 1]
        BY <2>2, <3>1
      <3>5. h[i] = n[i]
        BY <3>2, <3>3, <3>4
      <3> QED
        BY <3>5 DEF i
    <2>6. size - 1 \in Same
      <3>1. size - 1 \in Nat
        BY <1>2
      <3> HIDE DEF Same
      <3> QED
        BY <2>4, <2>5, <3>1, AllNumbers
    <2>7. size - 1 < size /\ size - (size - 1) = 1
      BY <1>2
    <2> QED
      BY <1>9, <2>6, <2>7
  <1>12. (CHOOSE h : IsFrom(h))[1] = v
    <2> HIDE DEF IsFrom
    <2> QED
      BY <1>10, <1>11
  <1>13. SubSeq(bytes, last + 1, Len(bytes)) = rest
    <2> DEFINE behind == SubSeq(bytes, last + 1, Len(bytes))
    <2>1. /\ Len(rest) \in Nat /\ Len(c) \in Nat /\ last = Len(c) /\ last \in Nat
          /\ Len(bytes) = last + Len(rest)
      BY <1>2, <1>4, <1>7
    <2>2. behind \in Seq(K) /\ Len(behind) = Len(rest)
          /\ \A i \in 1..Len(rest) : behind[i] = bytes[last + i]
      BY <1>4, <2>1
    <2>3. \A i \in 1..Len(rest) : bytes[last + i] = rest[i]
      BY <1>4, <2>1
    <2> HIDE DEF behind
    <2>4. behind = rest
      BY <2>2, <2>3, SeqEqual
    <2> QED
      BY <2>4 DEF behind
  <1> QED
    BY <1>8, <1>12, <1>13 DEF bytes, c

(* What a reader of a list has after each item, if tails are what each item   *)
(* leaves of the bytes.                                                       *)
Readings(x, tails) == [i \in 0..Len(x) |-> Read(FirstPart(x, i), tails[i])]

(* Each reading is the one before and an item more.                           *)
GoesOn(g, x, tails) ==
    /\ g[0] = Read(<<>>, tails[0])
    /\ \A i \in 1..Len(x) : /\ g[i - 1].rest = tails[i - 1]
                            /\ g[i] = Read(Append(g[i - 1].value, x[i]), tails[i])

(* The readings of a list do. *)
LEMMA ReadingsGoOn ==
    ASSUME NEW V, NEW x \in Seq(V), NEW tails
    PROVE  GoesOn(Readings(x, tails), x, tails)
  <1>1. Len(x) \in Nat
    OBVIOUS
  <1>2. Readings(x, tails)[0] = Read(<<>>, tails[0])
    <2>1. 0 \in 0..Len(x) /\ FirstPart(x, 0) = <<>>
      BY <1>1, FirstElements
    <2> QED
      BY <2>1, Zenon DEF Readings
  <1>3. ASSUME NEW i \in 1..Len(x)
        PROVE  /\ Readings(x, tails)[i - 1].rest = tails[i - 1]
               /\ Readings(x, tails)[i] =
                      Read(Append(Readings(x, tails)[i - 1].value, x[i]), tails[i])
    <2> DEFINE k == i - 1
    <2>1. i \in 0..Len(x) /\ k \in 0..Len(x)
      BY <1>1
    <2>2. FirstPart(x, i) = Append(FirstPart(x, k), x[i])
      BY FirstElements
    <2> HIDE DEF k
    <2>3. Readings(x, tails)[k] = Read(FirstPart(x, k), tails[k])
      BY <2>1, Zenon DEF Readings
    <2>4. Readings(x, tails)[i] = Read(FirstPart(x, i), tails[i])
      BY <2>1, Zenon DEF Readings
    <2>5. Readings(x, tails)[k].rest = tails[k] /\ Readings(x, tails)[k].value = FirstPart(x, k)
      BY <2>3 DEF Read
    <2>6. Readings(x, tails)[i] = Read(Append(Readings(x, tails)[k].value, x[i]), tails[i])
      BY <2>2, <2>4, <2>5, Zenon
    <2> QED
      BY <2>5, <2>6 DEF k
  <1> QED
    BY <1>2, <1>3 DEF GoesOn

(* A reader that goes on so, item by item, has read the list in the end.      *)
LEMMA ReadingsEnd ==
    ASSUME NEW V, NEW x \in Seq(V), NEW tails, NEW h,
           h[0] = Read(<<>>, tails[0]),
           \A i \in 1..Len(x) : h[i - 1].rest = tails[i - 1]
               => h[i] = Read(Append(h[i - 1].value, x[i]), tails[i])
    PROVE  h[Len(x)] = Read(x, tails[Len(x)])
  <1> DEFINE n == Len(x)
             Good == {k \in Nat : k <= n => h[k] = Read(FirstPart(x, k), tails[k])}
  <1>1. n \in Nat
    OBVIOUS
  <1>2. 0 \in Good
    <2>1. FirstPart(x, 0) = <<>>
      BY FirstElements
    <2>2. h[0] = Read(FirstPart(x, 0), tails[0])
      BY <2>1, Zenon
    <2> QED
      BY <2>2
  <1>3. ASSUME NEW k \in Nat, k \in Good
        PROVE  k + 1 \in Good
    <2> DEFINE i == k + 1
    <2> SUFFICES ASSUME i <= n
                 PROVE  h[i] = Read(FirstPart(x, i), tails[i])
      OBVIOUS
    <2>1. i \in 1..n /\ i - 1 = k /\ k <= n
      BY <1>1
    <2>2. h[k] = Read(FirstPart(x, k), tails[k])
      BY <1>3, <2>1
    <2> HIDE DEF i
    <2>3. h[k].rest = tails[k] /\ h[k].value = FirstPart(x, k)
      BY <2>2 DEF Read
    <2>4. h[i] = Read(Append(h[k].value, x[i]), tails[i])
      BY <2>1, <2>3
    <2>5. FirstPart(x, i) = Append(FirstPart(x, k), x[i])
      BY <2>1, FirstElements
    <2> QED
      BY <2>3, <2>4, <2>5, Zenon
  <1>4. h[n] = Read(FirstPart(x, n), tails[n])
    <2> HIDE DEF Good
    <2>1. n \in Good
      BY <1>1, <1>2, <1>3, AllNumbers
    <2> QED
      BY <1>1, <2>1 DEF Good
  <1>5. FirstPart(x, n) = x
    BY FirstElements
  <1> QED
    BY <1>4, <1>5, Zenon

(* A value in front of the rest. *)
LEMMA ReadOneReadsBack ==
    ASSUME NEW K, NEW a \in K, NEW rest \in Seq(K)
    PROVE  ReadOne(Joined(<<a>>, rest)) = Read(a, rest)
  <1> DEFINE all == <<a>> \o rest
  <1>1. /\ all \in Seq(K) /\ Len(all) = Len(rest) + 1 /\ all[1] = a
        /\ \A i \in 1..Len(rest) : all[i + 1] = rest[i]
    BY InFront
  <1> HIDE DEF all
  <1>2. all # <<>> /\ Head(all) = a
    BY <1>1
  <1>3. /\ Tail(all) \in Seq(K) /\ Len(Tail(all)) = Len(rest)
        /\ \A i \in 1..Len(Tail(all)) : Tail(all)[i] = all[i + 1]
    BY <1>1, <1>2, HeadTailProperties
  <1>4. Tail(all) = rest
    BY <1>1, <1>3, SeqEqual
  <1>5. Joined(<<a>>, rest) = all
    BY DEF Joined, all
  <1> QED
    BY <1>2, <1>4, <1>5 DEF ReadOne

(* A list of single values is read back. *)
LEMMA ValuesReadBack ==
    ASSUME NEW K, NEW x \in Seq(K), NEW rest \in Seq(K)
    PROVE  ReadMany(Len(x), Joined(x, rest), ReadOne) = Read(x, rest)
  <1> DEFINE n == Len(x)
             bytes == Joined(x, rest)
             IsUpto(h) == h = [i \in 0..n |->
                 IF i = 0 THEN Read(<<>>, bytes)
                 ELSE LET before == h[i - 1]
                          item == ReadOne(before.rest)
                      IN Read(Append(before.value, item.value), item.rest)]
  <1>1. PICK tails \in [0..n -> Seq(K)] :
            /\ tails[0] = bytes /\ tails[n] = rest
            /\ \A i \in 1..n : tails[i - 1] = Joined(<<x[i]>>, tails[i])
    BY RestOfList
  <1>2. n \in Nat /\ \A i \in 1..n : i \in 0..n /\ x[i] \in K
    BY ElementOfSeq
  <1>3. ASSUME NEW i \in 1..n
        PROVE  ReadOne(tails[i - 1]) = Read(x[i], tails[i])
    BY <1>1, <1>2, ReadOneReadsBack
  <1>4. ReadMany(n, bytes, ReadOne) = (CHOOSE h : IsUpto(h))[n]
    BY DEF ReadMany
  <1> DEFINE g == Readings(x, tails)
  <1>5. IsUpto(g)
    <2>1. DOMAIN g = 0..n /\ g = [i \in 0..n |-> g[i]]
      BY DEF Readings
    <2>2. /\ g[0] = Read(<<>>, bytes)
          /\ \A i \in 1..n : g[i - 1].rest = tails[i - 1]
                             /\ g[i] = Read(Append(g[i - 1].value, x[i]), tails[i])
      <3>1. /\ g[0] = Read(<<>>, tails[0])
            /\ \A i \in 1..n : g[i - 1].rest = tails[i - 1]
                               /\ g[i] = Read(Append(g[i - 1].value, x[i]), tails[i])
        BY ReadingsGoOn DEF GoesOn
      <3> HIDE DEF g, bytes
      <3> QED
        BY <1>1, <3>1
    <2> HIDE DEF g, bytes
    <2>3. ASSUME NEW i \in 0..n
          PROVE  g[i] = IF i = 0 THEN Read(<<>>, bytes)
                 ELSE LET before == g[i - 1]
                          item == ReadOne(before.rest)
                      IN Read(Append(before.value, item.value), item.rest)
      <3>1. CASE i = 0
        BY <2>2, <3>1
      <3>2. CASE i # 0
        <4>1. i \in 1..n
          BY <1>2, <3>2
        <4>2. ReadOne(g[i - 1].rest) = Read(x[i], tails[i])
          BY <1>3, <2>2, <4>1
        <4>3. g[i] = Read(Append(g[i - 1].value, x[i]), tails[i])
          BY <2>2, <4>1
        <4>4. Read(x[i], tails[i]).value = x[i] /\ Read(x[i], tails[i]).rest = tails[i]
          BY DEF Read
        <4> QED
          BY <3>2, <4>2, <4>3, <4>4, Zenon
      <3> QED
        BY <3>1, <3>2
    <2> QED
      BY <2>1, <2>3
  <1>6. ASSUME NEW h, IsUpto(h)
        PROVE  h[n] = Read(x, rest)
    <2>1. h[0] = Read(<<>>, tails[0])
      BY <1>1, <1>2, <1>6
    <2>2. ASSUME NEW i \in 1..n, h[i - 1].rest = tails[i - 1]
          PROVE  h[i] = Read(Append(h[i - 1].value, x[i]), tails[i])
      <3>0. i \in 0..n /\ i # 0
        BY <1>2
      <3>1. h[i] = LET before == h[i - 1]
                       item == ReadOne(before.rest)
                   IN Read(Append(before.value, item.value), item.rest)
        BY <1>6, <3>0, Zenon
      <3>2. ReadOne(h[i - 1].rest) = Read(x[i], tails[i])
        BY <1>3, <2>2
      <3> HIDE DEF IsUpto
      <3> QED
        BY <3>1, <3>2 DEF Read
    <2> HIDE DEF IsUpto
    <2>3. h[n] = Read(x, tails[n])
      BY <2>1, <2>2, ReadingsEnd
    <2> QED
      BY <1>1, <2>3
  <1> HIDE DEF IsUpto
  <1> QED
    BY <1>4, <1>5, <1>6

(* A length is bytes. *)
LEMMA LengthType == \A v \in Nat : WriteCompactU16(v) \in Seq(Nat)
  BY LengthShape DEF Spells

(* A list with its length in front is read back. *)
LEMMA CountedReadBack ==
    ASSUME NEW K, Nat \subseteq K, NEW x \in Seq(K), NEW rest \in Seq(K)
    PROVE  /\ WithLength(x) \in Seq(K)
           /\ ReadCounted(Joined(WithLength(x), rest), ReadOne) = Read(x, rest)
  <1> DEFINE size == Len(x)
             c == WriteCompactU16(size)
             behind == Joined(x, rest)
             bytes == Joined(WithLength(x), rest)
  <1>1. size \in Nat /\ c \in Seq(K)
    BY LengthType
  <1>2. WithLength(x) = Joined(c, x)
    BY DEF WithLength, Joined
  <1> HIDE DEF c
  <1>3. bytes = Joined(c, behind) /\ behind \in Seq(K) /\ WithLength(x) \in Seq(K)
    BY <1>1, <1>2, ThreeJoined
  <1> HIDE DEF behind, bytes, size
  <1>4. ReadLength(bytes) = Read(size, behind)
    BY <1>1, <1>3, LengthReadsBack DEF c
  <1>5. ReadCounted(bytes, ReadOne) = ReadMany(size, behind, ReadOne)
    BY <1>4 DEF ReadCounted, Read
  <1> QED
    BY <1>3, <1>5, ValuesReadBack DEF size, behind, bytes

(* What a reader should find of an instruction. *)
InstructionMeant(ci) ==
    [programIdIndex |-> ci.programIdIndex, accountIndices |-> ci.accountIndices, data |-> Data]

(* An instruction is read back.                                               *)
LEMMA InstructionReadsBack ==
    ASSUME NEW K, Nat \subseteq K, NEW ci, ci.programIdIndex \in Nat, ci.accountIndices \in Seq(Nat),
           NEW rest \in Seq(K)
    PROVE  /\ WriteInstruction(ci) \in Seq(K)
           /\ ReadInstruction(Joined(WriteInstruction(ci), rest)) = Read(InstructionMeant(ci), rest)
  <1> DEFINE program == <<ci.programIdIndex>>
             indices == WithLength(ci.accountIndices)
             data == WithLength(Data)
             written == WriteInstruction(ci)
             bytes == Joined(written, rest)
  <1>1. /\ ci.programIdIndex \in K /\ program \in Seq(K)
        /\ ci.accountIndices \in Seq(K) /\ Data \in Seq(K)
    BY WireAssumption
  <1>2. /\ indices \in Seq(K) /\ data \in Seq(K)
        /\ ReadCounted(Joined(data, rest), ReadOne) = Read(Data, rest)
    BY <1>1, CountedReadBack
  <1>3. written = Joined(Joined(program, indices), data)
    BY DEF WriteInstruction, Joined
  <1> HIDE DEF program, indices, data, written
  <1> DEFINE afterIndices == Joined(data, rest)
             afterProgram == Joined(indices, afterIndices)
  <1>4. afterIndices \in Seq(K)
    BY <1>2, JoinedLists
  <1> HIDE DEF afterIndices
  <1>5. afterProgram \in Seq(K)
    BY <1>2, <1>4, JoinedLists
  <1>6. written \in Seq(K) /\ bytes = Joined(program, afterProgram)
    <2>1. Joined(program, indices) \in Seq(K)
      BY <1>1, <1>2, JoinedLists
    <2>2. written \in Seq(K) /\ bytes = Joined(Joined(program, indices), afterIndices)
      BY <1>2, <1>3, <2>1, JoinedLists DEF afterIndices
    <2> QED
      BY <1>1, <1>2, <1>4, <2>2, JoinedLists
  <1> HIDE DEF bytes, afterProgram
  <1>7. ReadOne(bytes) = Read(ci.programIdIndex, afterProgram)
    BY <1>1, <1>5, <1>6, ReadOneReadsBack DEF program
  <1>8. ReadCounted(afterProgram, ReadOne) = Read(ci.accountIndices, afterIndices)
    BY <1>1, <1>4, CountedReadBack DEF afterProgram, indices
  <1>9. ReadCounted(afterIndices, ReadOne) = Read(Data, rest)
    BY <1>2 DEF afterIndices
  <1>10. ReadInstruction(bytes) = Read(InstructionMeant(ci), rest)
    BY <1>7, <1>8, <1>9 DEF ReadInstruction, InstructionMeant, Read
  <1> QED
    BY <1>6, <1>10 DEF bytes, written

(* What a message says of a lookup table.                                      *)
LookupSections(K) == [accountKey : K, writableIndexes : Seq(K), readonlyIndexes : Seq(K)]

(* A lookup is read back.                                                     *)
LEMMA LookupReadsBack ==
    ASSUME NEW K, Nat \subseteq K, NEW alt \in LookupSections(K), NEW rest \in Seq(K)
    PROVE  /\ WriteLookup(alt) \in Seq(K)
           /\ ReadLookup(Joined(WriteLookup(alt), rest)) = Read(alt, rest)
  <1> DEFINE accountKey == alt.accountKey
             writable == alt.writableIndexes
             readonly == alt.readonlyIndexes
  <1>0. /\ accountKey \in K /\ writable \in Seq(K) /\ readonly \in Seq(K)
        /\ alt = [accountKey |-> accountKey, writableIndexes |-> writable, readonlyIndexes |-> readonly]
    BY DEF LookupSections
  <1> DEFINE key == <<accountKey>>
             first == WithLength(writable)
             second == WithLength(readonly)
             written == WriteLookup(alt)
             bytes == Joined(written, rest)
  <1>1. key \in Seq(K)
    BY <1>0
  <1>2. /\ first \in Seq(K) /\ second \in Seq(K)
        /\ ReadCounted(Joined(second, rest), ReadOne) = Read(readonly, rest)
    BY <1>0, CountedReadBack
  <1>3. written = Joined(Joined(key, first), second)
    BY DEF WriteLookup, Joined
  <1> HIDE DEF accountKey, writable, readonly, key, first, second, written
  <1> DEFINE afterFirst == Joined(second, rest)
             afterKey == Joined(first, afterFirst)
  <1>4. afterFirst \in Seq(K)
    BY <1>2, JoinedLists
  <1> HIDE DEF afterFirst
  <1>5. afterKey \in Seq(K)
    BY <1>2, <1>4, JoinedLists
  <1>6. written \in Seq(K) /\ bytes = Joined(key, afterKey)
    <2>1. Joined(key, first) \in Seq(K)
      BY <1>1, <1>2, JoinedLists
    <2>2. written \in Seq(K) /\ bytes = Joined(Joined(key, first), afterFirst)
      BY <1>2, <1>3, <2>1, JoinedLists DEF afterFirst
    <2> QED
      BY <1>1, <1>2, <1>4, <2>2, JoinedLists
  <1> HIDE DEF bytes, afterKey
  <1>7. ReadOne(bytes) = Read(accountKey, afterKey)
    BY <1>0, <1>5, <1>6, ReadOneReadsBack DEF key
  <1>8. ReadCounted(afterKey, ReadOne) = Read(writable, afterFirst)
    BY <1>0, <1>4, CountedReadBack DEF afterKey, first
  <1>9. ReadCounted(afterFirst, ReadOne) = Read(readonly, rest)
    BY <1>2 DEF afterFirst
  <1>10. ReadLookup(bytes) = Read(alt, rest)
    BY <1>0, <1>7, <1>8, <1>9 DEF ReadLookup, Read
  <1> QED
    BY <1>6, <1>10 DEF bytes, written

(* The instructions of a message: indexes of accounts.                        *)
CompiledInstructions == [programIdIndex : Nat, accountIndices : Seq(Nat)]

(* The instructions of a message are read back. *)
LEMMA InstructionsReadBack ==
    ASSUME NEW K, Nat \subseteq K, NEW items \in Seq(CompiledInstructions), NEW rest \in Seq(K)
    PROVE  /\ WriteMany(items, WriteInstruction) \in Seq(K)
           /\ ReadCounted(Joined(WriteMany(items, WriteInstruction), rest), ReadInstruction)
                  = Read([i \in 1..Len(items) |-> InstructionMeant(items[i])], rest)
  <1> DEFINE n == Len(items)
             s == [i \in 1..n |-> WriteInstruction(items[i])]
             x == [i \in 1..Len(items) |-> InstructionMeant(items[i])]
             c == WriteCompactU16(n)
             body == FlattenSeq(s)
             behind == Joined(body, rest)
             bytes == Joined(WriteMany(items, WriteInstruction), rest)
             IsUpto(h) == h = [i \in 0..n |->
                 IF i = 0 THEN Read(<<>>, behind)
                 ELSE LET before == h[i - 1]
                          item == ReadInstruction(before.rest)
                      IN Read(Append(before.value, item.value), item.rest)]
  <1>1. n \in Nat /\ \A i \in 1..n : i \in 0..n /\ items[i] \in CompiledInstructions
    BY ElementOfSeq
  <1>2. ASSUME NEW i \in 1..n, NEW after \in Seq(K)
        PROVE  /\ s[i] \in Seq(K)
               /\ ReadInstruction(Joined(s[i], after)) = Read(x[i], after)
    <2>1. items[i].programIdIndex \in Nat /\ items[i].accountIndices \in Seq(Nat)
      BY <1>1 DEF CompiledInstructions
    <2> QED
      BY <2>1, InstructionReadsBack
  <1>3. x \in Seq({x[i] : i \in 1..n}) /\ Len(x) = n
    BY <1>1
  <1>4. s \in Seq(Seq(K)) /\ Len(s) = n
    <2>1. <<>> \in Seq(K)
      OBVIOUS
    <2>2. \A i \in 1..n : s[i] \in Seq(K)
      BY <1>2, <2>1
    <2>3. s \in [1..n -> Seq(K)]
      BY <2>2
    <2> QED
      BY <1>1, <2>3
  <1>5. c \in Seq(K) /\ body \in Seq(K)
    <2>1. c \in Seq(K)
      BY <1>1, LengthType
    <2> HIDE DEF s, c
    <2> QED
      BY <1>4, <2>1, FlattenElements
  <1>6. WriteMany(items, WriteInstruction) = Joined(c, body)
    BY DEF WriteMany, Joined
  <1>7. PICK tails \in [0..n -> Seq(K)] :
            /\ tails[0] = behind /\ tails[n] = rest
            /\ \A i \in 1..n : tails[i - 1] = Joined(s[i], tails[i])
    <2> HIDE DEF s, x, c
    <2> QED
      BY <1>4, RestOfChunks
  <1> HIDE DEF s, x, c, body
  <1>8. /\ WriteMany(items, WriteInstruction) \in Seq(K) /\ behind \in Seq(K)
        /\ bytes = Joined(c, behind)
    BY <1>5, <1>6, ThreeJoined
  <1> HIDE DEF behind, bytes
  <1>9. ASSUME NEW i \in 1..n
        PROVE  ReadInstruction(tails[i - 1]) = Read(x[i], tails[i])
    <2>1. tails[i] \in Seq(K) /\ tails[i - 1] = Joined(s[i], tails[i])
      BY <1>1, <1>7
    <2> QED
      BY <1>2, <2>1
  <1>10. ReadMany(n, behind, ReadInstruction) = (CHOOSE h : IsUpto(h))[n]
    BY DEF ReadMany
  <1> DEFINE g == Readings(x, tails)
  <1>11. IsUpto(g)
    <2>1. DOMAIN g = 0..n /\ g = [i \in 0..n |-> g[i]]
      BY <1>3 DEF Readings
    <2>2. /\ g[0] = Read(<<>>, behind)
          /\ \A i \in 1..n : g[i - 1].rest = tails[i - 1]
                             /\ g[i] = Read(Append(g[i - 1].value, x[i]), tails[i])
      <3>1. /\ g[0] = Read(<<>>, tails[0])
            /\ \A i \in 1..n : g[i - 1].rest = tails[i - 1]
                               /\ g[i] = Read(Append(g[i - 1].value, x[i]), tails[i])
        <4> DEFINE V == {x[i] : i \in 1..n}
        <4>1. x \in Seq(V) /\ Len(x) = n
          BY <1>3
        <4> HIDE DEF V, n, x
        <4>2. GoesOn(g, x, tails)
          BY <4>1, ReadingsGoOn
        <4> HIDE DEF g
        <4> QED
          BY <4>1, <4>2 DEF GoesOn
      <3> HIDE DEF g
      <3> QED
        BY <1>7, <3>1
    <2> HIDE DEF g
    <2>3. ASSUME NEW i \in 0..n
          PROVE  g[i] = IF i = 0 THEN Read(<<>>, behind)
                 ELSE LET before == g[i - 1]
                          item == ReadInstruction(before.rest)
                      IN Read(Append(before.value, item.value), item.rest)
      <3>1. CASE i = 0
        BY <2>2, <3>1
      <3>2. CASE i # 0
        <4>1. i \in 1..n
          BY <1>1, <3>2
        <4>2. ReadInstruction(g[i - 1].rest) = Read(x[i], tails[i])
          BY <1>9, <2>2, <4>1
        <4>3. g[i] = Read(Append(g[i - 1].value, x[i]), tails[i])
          BY <2>2, <4>1
        <4>4. Read(x[i], tails[i]).value = x[i] /\ Read(x[i], tails[i]).rest = tails[i]
          BY DEF Read
        <4> QED
          BY <3>2, <4>2, <4>3, <4>4, Zenon
      <3> QED
        BY <3>1, <3>2
    <2> QED
      BY <2>1, <2>3
  <1>12. ASSUME NEW h, IsUpto(h)
         PROVE  h[n] = Read(x, rest)
    <2>1. h[0] = Read(<<>>, tails[0])
      BY <1>1, <1>7, <1>12
    <2>2. ASSUME NEW i \in 1..n, h[i - 1].rest = tails[i - 1]
          PROVE  h[i] = Read(Append(h[i - 1].value, x[i]), tails[i])
      <3>0. i \in 0..n /\ i # 0
        BY <1>1
      <3>1. h[i] = LET before == h[i - 1]
                       item == ReadInstruction(before.rest)
                   IN Read(Append(before.value, item.value), item.rest)
        BY <1>12, <3>0, Zenon
      <3>2. ReadInstruction(h[i - 1].rest) = Read(x[i], tails[i])
        BY <1>9, <2>2
      <3> HIDE DEF IsUpto
      <3> QED
        BY <3>1, <3>2 DEF Read
    <2> HIDE DEF IsUpto, n
    <2>3. h[n] = Read(x, tails[n])
      BY <1>3, <2>1, <2>2, ReadingsEnd
    <2> QED
      BY <1>7, <2>3
  <1>13. ReadMany(n, behind, ReadInstruction) = Read(x, rest)
    <2> HIDE DEF IsUpto
    <2> QED
      BY <1>10, <1>11, <1>12
  <1>14. ReadLength(bytes) = Read(n, behind)
    <2> HIDE DEF n
    <2> QED
      BY <1>1, <1>8, LengthReadsBack DEF c
  <1>15. ReadCounted(bytes, ReadInstruction) = ReadMany(n, behind, ReadInstruction)
    BY <1>14 DEF ReadCounted, Read
  <1> QED
    BY <1>8, <1>13, <1>15 DEF bytes, x

(* So is the section of lookups. *)
LEMMA LookupsReadBack ==
    ASSUME NEW K, Nat \subseteq K, NEW items \in Seq(LookupSections(K)), NEW rest \in Seq(K)
    PROVE  /\ WriteMany(items, WriteLookup) \in Seq(K)
           /\ ReadCounted(Joined(WriteMany(items, WriteLookup), rest), ReadLookup)
                  = Read(items, rest)
  <1> DEFINE n == Len(items)
             s == [i \in 1..n |-> WriteLookup(items[i])]
             x == items
             c == WriteCompactU16(n)
             body == FlattenSeq(s)
             behind == Joined(body, rest)
             bytes == Joined(WriteMany(items, WriteLookup), rest)
             IsUpto(h) == h = [i \in 0..n |->
                 IF i = 0 THEN Read(<<>>, behind)
                 ELSE LET before == h[i - 1]
                          item == ReadLookup(before.rest)
                      IN Read(Append(before.value, item.value), item.rest)]
  <1>1. n \in Nat /\ \A i \in 1..n : i \in 0..n /\ items[i] \in LookupSections(K)
    BY ElementOfSeq
  <1>2. ASSUME NEW i \in 1..n, NEW after \in Seq(K)
        PROVE  /\ s[i] \in Seq(K)
               /\ ReadLookup(Joined(s[i], after)) = Read(x[i], after)
    <2>1. items[i] \in LookupSections(K)
      BY <1>1
    <2> QED
      BY <2>1, LookupReadsBack
  <1>3. x \in Seq({x[i] : i \in 1..n}) /\ Len(x) = n
    BY <1>1
  <1>4. s \in Seq(Seq(K)) /\ Len(s) = n
    <2>1. <<>> \in Seq(K)
      OBVIOUS
    <2>2. \A i \in 1..n : s[i] \in Seq(K)
      BY <1>2, <2>1
    <2>3. s \in [1..n -> Seq(K)]
      BY <2>2
    <2> QED
      BY <1>1, <2>3
  <1>5. c \in Seq(K) /\ body \in Seq(K)
    <2>1. c \in Seq(K)
      BY <1>1, LengthType
    <2> HIDE DEF s, c
    <2> QED
      BY <1>4, <2>1, FlattenElements
  <1>6. WriteMany(items, WriteLookup) = Joined(c, body)
    BY DEF WriteMany, Joined
  <1>7. PICK tails \in [0..n -> Seq(K)] :
            /\ tails[0] = behind /\ tails[n] = rest
            /\ \A i \in 1..n : tails[i - 1] = Joined(s[i], tails[i])
    <2> HIDE DEF s, x, c
    <2> QED
      BY <1>4, RestOfChunks
  <1> HIDE DEF s, x, c, body
  <1>8. /\ WriteMany(items, WriteLookup) \in Seq(K) /\ behind \in Seq(K)
        /\ bytes = Joined(c, behind)
    BY <1>5, <1>6, ThreeJoined
  <1> HIDE DEF behind, bytes
  <1>9. ASSUME NEW i \in 1..n
        PROVE  ReadLookup(tails[i - 1]) = Read(x[i], tails[i])
    <2>1. tails[i] \in Seq(K) /\ tails[i - 1] = Joined(s[i], tails[i])
      BY <1>1, <1>7
    <2> QED
      BY <1>2, <2>1
  <1>10. ReadMany(n, behind, ReadLookup) = (CHOOSE h : IsUpto(h))[n]
    BY DEF ReadMany
  <1> DEFINE g == Readings(x, tails)
  <1>11. IsUpto(g)
    <2>1. DOMAIN g = 0..n /\ g = [i \in 0..n |-> g[i]]
      BY <1>3 DEF Readings
    <2>2. /\ g[0] = Read(<<>>, behind)
          /\ \A i \in 1..n : g[i - 1].rest = tails[i - 1]
                             /\ g[i] = Read(Append(g[i - 1].value, x[i]), tails[i])
      <3>1. /\ g[0] = Read(<<>>, tails[0])
            /\ \A i \in 1..n : g[i - 1].rest = tails[i - 1]
                               /\ g[i] = Read(Append(g[i - 1].value, x[i]), tails[i])
        <4> DEFINE V == {x[i] : i \in 1..n}
        <4>1. x \in Seq(V) /\ Len(x) = n
          BY <1>3
        <4> HIDE DEF V, n, x
        <4>2. GoesOn(g, x, tails)
          BY <4>1, ReadingsGoOn
        <4> HIDE DEF g
        <4> QED
          BY <4>1, <4>2 DEF GoesOn
      <3> HIDE DEF g
      <3> QED
        BY <1>7, <3>1
    <2> HIDE DEF g
    <2>3. ASSUME NEW i \in 0..n
          PROVE  g[i] = IF i = 0 THEN Read(<<>>, behind)
                 ELSE LET before == g[i - 1]
                          item == ReadLookup(before.rest)
                      IN Read(Append(before.value, item.value), item.rest)
      <3>1. CASE i = 0
        BY <2>2, <3>1
      <3>2. CASE i # 0
        <4>1. i \in 1..n
          BY <1>1, <3>2
        <4>2. ReadLookup(g[i - 1].rest) = Read(x[i], tails[i])
          BY <1>9, <2>2, <4>1
        <4>3. g[i] = Read(Append(g[i - 1].value, x[i]), tails[i])
          BY <2>2, <4>1
        <4>4. Read(x[i], tails[i]).value = x[i] /\ Read(x[i], tails[i]).rest = tails[i]
          BY DEF Read
        <4> QED
          BY <3>2, <4>2, <4>3, <4>4, Zenon
      <3> QED
        BY <3>1, <3>2
    <2> QED
      BY <2>1, <2>3
  <1>12. ASSUME NEW h, IsUpto(h)
         PROVE  h[n] = Read(x, rest)
    <2>1. h[0] = Read(<<>>, tails[0])
      BY <1>1, <1>7, <1>12
    <2>2. ASSUME NEW i \in 1..n, h[i - 1].rest = tails[i - 1]
          PROVE  h[i] = Read(Append(h[i - 1].value, x[i]), tails[i])
      <3>0. i \in 0..n /\ i # 0
        BY <1>1
      <3>1. h[i] = LET before == h[i - 1]
                       item == ReadLookup(before.rest)
                   IN Read(Append(before.value, item.value), item.rest)
        BY <1>12, <3>0, Zenon
      <3>2. ReadLookup(h[i - 1].rest) = Read(x[i], tails[i])
        BY <1>9, <2>2
      <3> HIDE DEF IsUpto
      <3> QED
        BY <3>1, <3>2 DEF Read
    <2> HIDE DEF IsUpto, n
    <2>3. h[n] = Read(x, tails[n])
      BY <1>3, <2>1, <2>2, ReadingsEnd
    <2> QED
      BY <1>7, <2>3
  <1>13. ReadMany(n, behind, ReadLookup) = Read(x, rest)
    <2> HIDE DEF IsUpto
    <2> QED
      BY <1>10, <1>11, <1>12
  <1>14. ReadLength(bytes) = Read(n, behind)
    <2> HIDE DEF n
    <2> QED
      BY <1>1, <1>8, LengthReadsBack DEF c
  <1>15. ReadCounted(bytes, ReadLookup) = ReadMany(n, behind, ReadLookup)
    BY <1>14 DEF ReadCounted, Read
  <1> QED
    BY <1>8, <1>13, <1>15 DEF bytes, x

(* The transactions' own encoder of a length writes what the other one does,  *)
(* as long as two bytes are enough.                                           *)
LEMMA SignatureCountIsLength ==
    ASSUME NEW n \in Nat, n < HighBit * HighBit
    PROVE  SignatureCount(n) = WriteCompactU16(n)
  <1>1. CASE n < HighBit
    BY <1>1, WriteCompactU16Equation DEF SignatureCount
  <1>2. CASE ~(n < HighBit)
    <2> DEFINE q == n \div HighBit
               b == (n % HighBit) + HighBit
    <2>1. q \in Nat /\ b \in Nat /\ n = (n % HighBit) + HighBit * q /\ n % HighBit \in Nat
      BY SevenBits, WireAssumption
    <2>2. q < HighBit
      <3> SUFFICES ASSUME q >= HighBit
                   PROVE  FALSE
        BY <2>1, WireAssumption
      <3>1. HighBit * q >= HighBit * HighBit
        BY <2>1, WireAssumption
      <3> QED
        BY <2>1, <3>1, WireAssumption
    <2>3. WriteCompactU16(q) = <<q>>
      BY <2>1, <2>2, WriteCompactU16Equation
    <2>4. WriteCompactU16(n) = <<b>> \o WriteCompactU16(q)
      BY <1>2, WriteCompactU16Equation
    <2>5. SignatureCount(n) = <<b, q>>
      BY <1>2 DEF SignatureCount
    <2> HIDE DEF q, b
    <2>6. <<b>> \o <<q>> = <<b, q>>
      BY <2>1, TwoValues
    <2> QED
      BY <2>3, <2>4, <2>5, <2>6
  <1> QED
    BY <1>1, <1>2

(* The three counts a message starts with.                                    *)
HeaderBytes(m) ==
    <<m.header.numRequiredSignatures, m.header.numReadonlySignedAccounts,
      m.header.numReadonlyUnsignedAccounts>>

(* A message of which every part is what the compilers make. *)
IsMessage(m, K) ==
    /\ m.header.numRequiredSignatures \in Nat /\ m.header.numReadonlySignedAccounts \in Nat
    /\ m.header.numReadonlyUnsignedAccounts \in Nat
    /\ m.accountKeys \in Seq(K)
    /\ m.instructions \in Seq(CompiledInstructions)

(* What a reader should find of the instructions.                             *)
InstructionsMeant(m) == [i \in 1..Len(m.instructions) |-> InstructionMeant(m.instructions[i])]

(* The parts of a message are read one after the other. *)
PartsRead(m, bytes, rest) ==
    \E afterHeader, afterKeys, afterBlockhash :
        /\ ReadMany(3, bytes, ReadOne) = Read(HeaderBytes(m), afterHeader)
        /\ ReadCounted(afterHeader, ReadOne) = Read(m.accountKeys, afterKeys)
        /\ ReadOne(afterKeys) = Read(Blockhash, afterBlockhash)
        /\ ReadCounted(afterBlockhash, ReadInstruction) = Read(InstructionsMeant(m), rest)

(* A message is written as bytes that are read as its parts, and its first    *)
(* byte is the number of signatures it requires.                              *)
LEMMA MessageReadsBack ==
    ASSUME NEW K, Nat \subseteq K, Blockhash \in K, NEW m, IsMessage(m, K), NEW rest \in Seq(K)
    PROVE  /\ SerializeMessage(m) \in Seq(K)
           /\ Joined(SerializeMessage(m), rest) # <<>>
           /\ Head(Joined(SerializeMessage(m), rest)) = m.header.numRequiredSignatures
           /\ PartsRead(m, Joined(SerializeMessage(m), rest), rest)
  <1> DEFINE header == HeaderBytes(m)
             keys == WithLength(m.accountKeys)
             hash == <<Blockhash>>
             instrs == WriteMany(m.instructions, WriteInstruction)
             written == SerializeMessage(m)
             bytes == Joined(written, rest)
             afterBlockhash == Joined(instrs, rest)
             afterKeys == Joined(hash, afterBlockhash)
             afterHeader == Joined(keys, afterKeys)
  <1>1. header \in Seq(K) /\ Len(header) = 3 /\ header[1] = m.header.numRequiredSignatures
    BY DEF HeaderBytes, IsMessage
  <1>2. keys \in Seq(K) /\ hash \in Seq(K) /\ m.accountKeys \in Seq(K)
    BY CountedReadBack DEF IsMessage
  <1>3. /\ instrs \in Seq(K)
        /\ ReadCounted(afterBlockhash, ReadInstruction) = Read(InstructionsMeant(m), rest)
    BY InstructionsReadBack DEF IsMessage, InstructionsMeant
  <1>4. written = Joined(Joined(Joined(header, keys), hash), instrs)
    BY DEF SerializeMessage, HeaderBytes, Joined
  <1> HIDE DEF header, keys, hash, instrs, written
  <1>5. afterBlockhash \in Seq(K)
    BY <1>3, JoinedLists
  <1> HIDE DEF afterBlockhash
  <1>6. afterKeys \in Seq(K)
    BY <1>2, <1>5, JoinedLists
  <1> HIDE DEF afterKeys
  <1>7. afterHeader \in Seq(K)
    BY <1>2, <1>6, JoinedLists
  <1> HIDE DEF afterHeader
  <1>8. written \in Seq(K) /\ bytes = Joined(header, afterHeader)
    <2> DEFINE two == Joined(header, keys)
               three == Joined(two, hash)
    <2>1. two \in Seq(K)
      BY <1>1, <1>2, JoinedLists
    <2>2. three \in Seq(K)
      BY <1>2, <2>1, JoinedLists
    <2>3. written = Joined(three, instrs)
      BY <1>4
    <2> HIDE DEF two, three
    <2>4. written \in Seq(K) /\ bytes = Joined(three, afterBlockhash)
      BY <1>3, <2>2, <2>3, ThreeJoined DEF afterBlockhash
    <2>5. Joined(three, afterBlockhash) = Joined(two, afterKeys)
      BY <1>2, <1>5, <2>1, ThreeJoined DEF three, afterKeys
    <2>6. Joined(two, afterKeys) = Joined(header, afterHeader)
      BY <1>1, <1>2, <1>6, ThreeJoined DEF two, afterHeader
    <2> QED
      BY <2>4, <2>5, <2>6
  <1> HIDE DEF bytes
  <1>9. ReadMany(3, bytes, ReadOne) = Read(header, afterHeader)
    <2>1. ReadMany(Len(header), bytes, ReadOne) = Read(header, afterHeader)
      BY <1>1, <1>7, <1>8, ValuesReadBack
    <2> QED
      BY <1>1, <2>1
  <1>10. ReadCounted(afterHeader, ReadOne) = Read(m.accountKeys, afterKeys)
    BY <1>2, <1>6, CountedReadBack DEF afterHeader, keys
  <1>11. ReadOne(afterKeys) = Read(Blockhash, afterBlockhash)
    BY <1>5, ReadOneReadsBack DEF afterKeys, hash
  <1>12. bytes # <<>> /\ Head(bytes) = m.header.numRequiredSignatures
    <2>1. /\ bytes \in Seq(K) /\ Len(bytes) = Len(header) + Len(afterHeader)
          /\ \A i \in 1..(Len(header) + Len(afterHeader)) :
                 bytes[i] = IF i <= Len(header) THEN header[i] ELSE afterHeader[i - Len(header)]
      BY <1>1, <1>7, <1>8, ConcatProperties DEF Joined
    <2>2. Len(bytes) >= 1 /\ bytes[1] = header[1]
      BY <1>1, <1>7, <2>1
    <2> QED
      BY <1>1, <2>1, <2>2
  <1>13. PartsRead(m, bytes, rest)
    BY <1>3, <1>9, <1>10, <1>11 DEF PartsRead, header
  <1> QED
    BY <1>8, <1>12, <1>13 DEF bytes, written

(* A legacy transaction is read back. *)
LEMMA TransactionReadsBack ==
    ASSUME NEW K, Nat \subseteq K, Blockhash \in K, NEW signatures \in Seq(K), NEW m, IsMessage(m, K),
           m.header.numRequiredSignatures = Len(signatures), Len(signatures) < HighBit,
           m.addressTableLookups = <<>>
    PROVE  ReadTransaction(SerializeTransaction(signatures, m)) = Meant(signatures, FALSE, m)
  <1> DEFINE count == SignatureCount(Len(signatures))
             message == SerializeMessage(m)
             bytes == SerializeTransaction(signatures, m)
             none == <<>>
  <1>0. none \in Seq(K)
    OBVIOUS
  <1>1. /\ message \in Seq(K) /\ message = Joined(message, none)
        /\ message # <<>> /\ Head(message) = Len(signatures)
    <2>1. message \in Seq(K)
      BY <1>0, MessageReadsBack
    <2>2. message = Joined(message, none)
      BY <2>1, JoinedLists
    <2>3. Joined(message, none) # <<>> /\ Head(Joined(message, none)) = Len(signatures)
      BY <1>0, MessageReadsBack
    <2> HIDE DEF message
    <2> QED
      BY <2>1, <2>2, <2>3
  <1>2. PICK afterHeader, afterKeys, afterBlockhash :
            /\ ReadMany(3, message, ReadOne) = Read(HeaderBytes(m), afterHeader)
            /\ ReadCounted(afterHeader, ReadOne) = Read(m.accountKeys, afterKeys)
            /\ ReadOne(afterKeys) = Read(Blockhash, afterBlockhash)
            /\ ReadCounted(afterBlockhash, ReadInstruction) = Read(InstructionsMeant(m), none)
    <2>1. PartsRead(m, Joined(message, none), none)
      BY <1>0, MessageReadsBack
    <2> HIDE DEF message, none
    <2>2. PartsRead(m, message, none)
      BY <1>1, <2>1
    <2> QED
      BY <2>2 DEF PartsRead
  <1> HIDE DEF message
  <1>3. bytes = Joined(WithLength(signatures), message)
    <2>1. Len(signatures) \in Nat /\ Len(signatures) < HighBit * HighBit
      <3>1. Len(signatures) \in Nat
        OBVIOUS
      <3> DEFINE n == Len(signatures)
      <3> HIDE DEF n
      <3>2. n \in Nat /\ n < HighBit => n < HighBit * HighBit
        BY WireAssumption
      <3> QED
        BY <3>1, <3>2 DEF n
    <2>2. count = WriteCompactU16(Len(signatures))
      BY <2>1, SignatureCountIsLength
    <2> QED
      BY <2>2 DEF SerializeTransaction, WithLength, Joined, message
  <1> HIDE DEF bytes
  <1>4. ReadCounted(bytes, ReadOne) = Read(signatures, message)
    BY <1>1, <1>3, CountedReadBack
  <1>5. ~(Head(message) >= HighBit)
    <2> DEFINE n == Len(signatures)
    <2>1. n \in Nat /\ n < HighBit
      OBVIOUS
    <2> HIDE DEF n
    <2>2. ~(n >= HighBit)
      BY <2>1, WireAssumption
    <2> QED
      BY <1>1, <2>2 DEF n
  <1> DEFINE versioned == Head(message) >= HighBit
  <1>6. versioned = FALSE
    BY <1>5
  <1> HIDE DEF versioned
  <1> HIDE DEF none
  <1>7. ReadTransaction(bytes) =
            [signatures |-> signatures, versioned |-> FALSE, header |-> HeaderBytes(m),
             accountKeys |-> m.accountKeys, blockhash |-> Blockhash,
             instructions |-> InstructionsMeant(m), addressTableLookups |-> none, rest |-> none]
    <2> DEFINE sigs == ReadCounted(bytes, ReadOne)
               header == ReadMany(3, IF Head(sigs.rest) >= HighBit THEN Tail(sigs.rest) ELSE sigs.rest, ReadOne)
               keys == ReadCounted(header.rest, ReadOne)
               blockhash == ReadOne(keys.rest)
               instrs == ReadCounted(blockhash.rest, ReadInstruction)
    <2>1. sigs.value = signatures /\ sigs.rest = message /\ (Head(sigs.rest) >= HighBit) = FALSE
      BY <1>4, <1>6 DEF Read, versioned
    <2>2. header.value = HeaderBytes(m) /\ header.rest = afterHeader
      <3> HIDE DEF sigs
      <3>1. header = ReadMany(3, message, ReadOne)
        BY <2>1
      <3> HIDE DEF header
      <3> QED
        BY <1>2, <3>1 DEF Read
    <2>3. keys.value = m.accountKeys /\ keys.rest = afterKeys
      <3> HIDE DEF header
      <3> QED
        BY <1>2, <2>2 DEF Read
    <2>4. blockhash.value = Blockhash /\ blockhash.rest = afterBlockhash
      <3> HIDE DEF keys
      <3> QED
        BY <1>2, <2>3 DEF Read
    <2>5. instrs.value = InstructionsMeant(m) /\ instrs.rest = none
      <3> HIDE DEF blockhash
      <3> QED
        BY <1>2, <2>4 DEF Read
    <2>6. ReadTransaction(bytes) =
            [signatures |-> sigs.value, versioned |-> (Head(sigs.rest) >= HighBit), header |-> header.value,
             accountKeys |-> keys.value, blockhash |-> blockhash.value,
             instructions |-> instrs.value,
             addressTableLookups |-> (IF Head(sigs.rest) >= HighBit THEN ReadCounted(instrs.rest, ReadLookup)
                                      ELSE Read(<<>>, instrs.rest)).value,
             rest |-> (IF Head(sigs.rest) >= HighBit THEN ReadCounted(instrs.rest, ReadLookup)
                       ELSE Read(<<>>, instrs.rest)).rest]
      BY DEF ReadTransaction
    <2> HIDE DEF sigs, header, keys, blockhash, instrs
    <2> QED
      BY <2>1, <2>2, <2>3, <2>4, <2>5, <2>6 DEF Read, none
  <1>8. Meant(signatures, FALSE, m) =
            [signatures |-> signatures, versioned |-> FALSE, header |-> HeaderBytes(m),
             accountKeys |-> m.accountKeys, blockhash |-> Blockhash,
             instructions |-> InstructionsMeant(m), addressTableLookups |-> none, rest |-> none]
    BY DEF Meant, HeaderBytes, InstructionsMeant, InstructionMeant, none
  <1> QED
    BY <1>7, <1>8 DEF bytes

(* So is a versioned one. *)
LEMMA TransactionV0ReadsBack ==
    ASSUME NEW K, Nat \subseteq K, Blockhash \in K, NEW signatures \in Seq(K), NEW m, IsMessage(m, K),
           Len(signatures) < HighBit * HighBit, m.addressTableLookups \in Seq(LookupSections(K))
    PROVE  ReadTransaction(SerializeTransactionV0(signatures, m)) = Meant(signatures, TRUE, m)
  <1> DEFINE count == SignatureCount(Len(signatures))
             version == <<HighBit>>
             instrs == SerializeMessage(m)
             section == WriteMany(m.addressTableLookups, WriteLookup)
             message == Joined(instrs, section)
             versionOn == Joined(version, message)
             bytes == SerializeTransactionV0(signatures, m)
             none == <<>>
  <1>0. none \in Seq(K) /\ HighBit \in K /\ version \in Seq(K)
    BY WireAssumption
  <1>1. /\ section \in Seq(K) /\ instrs \in Seq(K)
        /\ ReadCounted(section, ReadLookup) = Read(m.addressTableLookups, none)
    <2>1. section \in Seq(K) /\ ReadCounted(Joined(section, none), ReadLookup)
                                    = Read(m.addressTableLookups, none)
      BY <1>0, LookupsReadBack
    <2>2. Joined(section, none) = section
      BY <2>1, JoinedLists
    <2>3. instrs \in Seq(K)
      BY <1>0, MessageReadsBack
    <2> HIDE DEF section, instrs, none
    <2> QED
      BY <2>1, <2>2, <2>3
  <1>2. PartsRead(m, message, section)
    <2> HIDE DEF section
    <2> QED
      BY <1>1, MessageReadsBack
  <1>3. message \in Seq(K)
    BY <1>1, JoinedLists
  <1>4. bytes = Joined(WithLength(signatures), versionOn) /\ versionOn \in Seq(K)
    <2>1. Len(signatures) \in Nat
      OBVIOUS
    <2>2. count = WriteCompactU16(Len(signatures))
      BY <2>1, SignatureCountIsLength
    <2> DEFINE first == WithLength(signatures)
    <2>3. bytes = Joined(Joined(first, version), message)
      BY <2>2 DEF SerializeTransactionV0, SerializeMessageV0, WithLength, Joined
    <2>4. first \in Seq(K)
      BY CountedReadBack
    <2> HIDE DEF first, bytes, version, message
    <2> QED
      BY <1>0, <1>3, <2>3, <2>4, ThreeJoined DEF first
  <1> HIDE DEF section, instrs, message, bytes
  <1>5. ReadCounted(bytes, ReadOne) = Read(signatures, versionOn)
    <2> HIDE DEF versionOn
    <2> QED
      BY <1>4, CountedReadBack
  <1>6. Head(versionOn) = HighBit /\ Tail(versionOn) = message
    <2>1. ReadOne(versionOn) = Read(HighBit, message)
      BY <1>0, <1>3, ReadOneReadsBack
    <2> HIDE DEF versionOn
    <2> QED
      BY <2>1 DEF ReadOne, Read
  <1> HIDE DEF versionOn, none
  <1> DEFINE versioned == Head(versionOn) >= HighBit
  <1>7. versioned = TRUE
    BY <1>6, WireAssumption
  <1> HIDE DEF versioned
  <1>8. PICK afterHeader, afterKeys, afterBlockhash :
            /\ ReadMany(3, message, ReadOne) = Read(HeaderBytes(m), afterHeader)
            /\ ReadCounted(afterHeader, ReadOne) = Read(m.accountKeys, afterKeys)
            /\ ReadOne(afterKeys) = Read(Blockhash, afterBlockhash)
            /\ ReadCounted(afterBlockhash, ReadInstruction) = Read(InstructionsMeant(m), section)
    BY <1>2 DEF PartsRead
  <1>9. ReadTransaction(bytes) =
            [signatures |-> signatures, versioned |-> TRUE, header |-> HeaderBytes(m),
             accountKeys |-> m.accountKeys, blockhash |-> Blockhash,
             instructions |-> InstructionsMeant(m), addressTableLookups |-> m.addressTableLookups,
             rest |-> none]
    <2> DEFINE sigs == ReadCounted(bytes, ReadOne)
               header == ReadMany(3, IF Head(sigs.rest) >= HighBit THEN Tail(sigs.rest) ELSE sigs.rest, ReadOne)
               keys == ReadCounted(header.rest, ReadOne)
               blockhash == ReadOne(keys.rest)
               instructions == ReadCounted(blockhash.rest, ReadInstruction)
               lookups == IF Head(sigs.rest) >= HighBit THEN ReadCounted(instructions.rest, ReadLookup)
                          ELSE Read(<<>>, instructions.rest)
    <2>1. sigs.value = signatures /\ sigs.rest = versionOn /\ (Head(sigs.rest) >= HighBit) = TRUE
      BY <1>5, <1>7 DEF Read, versioned
    <2>2. header.value = HeaderBytes(m) /\ header.rest = afterHeader
      <3> HIDE DEF sigs
      <3>1. header = ReadMany(3, message, ReadOne)
        BY <1>6, <2>1
      <3> HIDE DEF header
      <3> QED
        BY <1>8, <3>1 DEF Read
    <2>3. keys.value = m.accountKeys /\ keys.rest = afterKeys
      <3> HIDE DEF header
      <3> QED
        BY <1>8, <2>2 DEF Read
    <2>4. blockhash.value = Blockhash /\ blockhash.rest = afterBlockhash
      <3> HIDE DEF keys
      <3> QED
        BY <1>8, <2>3 DEF Read
    <2>5. instructions.value = InstructionsMeant(m) /\ instructions.rest = section
      <3> HIDE DEF blockhash
      <3> QED
        BY <1>8, <2>4 DEF Read
    <2>6. lookups.value = m.addressTableLookups /\ lookups.rest = none
      <3> HIDE DEF instructions, sigs
      <3>1. lookups = ReadCounted(section, ReadLookup)
        BY <2>1, <2>5
      <3> HIDE DEF lookups
      <3> QED
        BY <1>1, <3>1 DEF Read
    <2>7. ReadTransaction(bytes) =
            [signatures |-> sigs.value, versioned |-> (Head(sigs.rest) >= HighBit), header |-> header.value,
             accountKeys |-> keys.value, blockhash |-> blockhash.value,
             instructions |-> instructions.value,
             addressTableLookups |-> lookups.value, rest |-> lookups.rest]
      BY DEF ReadTransaction
    <2> HIDE DEF sigs, header, keys, blockhash, instructions, lookups
    <2> QED
      BY <2>1, <2>2, <2>3, <2>4, <2>5, <2>6, <2>7
  <1>10. Meant(signatures, TRUE, m) =
            [signatures |-> signatures, versioned |-> TRUE, header |-> HeaderBytes(m),
             accountKeys |-> m.accountKeys, blockhash |-> Blockhash,
             instructions |-> InstructionsMeant(m), addressTableLookups |-> m.addressTableLookups,
             rest |-> none]
    BY DEF Meant, HeaderBytes, InstructionsMeant, InstructionMeant, none
  <1> QED
    BY <1>9, <1>10 DEF bytes

(* An index of an account that is listed is a number.                         *)
LEMMA IndexType ==
    ASSUME NEW seq, Len(seq) \in Nat, NEW x, Holds(seq, x), NEW size \in Nat \ {0}
    PROVE  (FirstIndex(seq, x) - 1) % size \in Nat
  <1> DEFINE at == FirstIndex(seq, x)
  <1>1. at \in 1..Len(seq)
    BY FirstIndexIsFirst
  <1> HIDE DEF at
  <1>2. at - 1 \in Nat
    BY <1>1
  <1> QED
    BY <1>2 DEF at

(* A list of instructions made of such indexes is one a message can have.     *)
LEMMA CompiledType ==
    ASSUME NEW n \in Nat, NEW list,
           list = [i \in 1..n |-> [programIdIndex |-> list[i].programIdIndex,
                                   accountIndices |-> list[i].accountIndices]],
           \A i \in 1..n : list[i].programIdIndex \in Nat /\ list[i].accountIndices \in Seq(Nat)
    PROVE  list \in Seq(CompiledInstructions)
  <1>1. \A i \in 1..n : list[i] \in CompiledInstructions
    BY DEF CompiledInstructions
  <1> QED
    BY <1>1
=============================================================================
