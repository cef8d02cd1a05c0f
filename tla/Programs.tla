------------------------------ MODULE Programs ------------------------------
(* What examples/pda_example.cpp and spl_token_transfer.cpp do before they    *)
(* compile a message: keys are read from their Base58 texts, an address is    *)
(* derived, and an instruction is built that names them.                      *)
EXTENDS PdaSearch, Instructions

CONSTANTS
    Requests  \* [builder, texts, meant, at, numbers, seed]

(* How many keys a builder takes, and the width of each number it takes.      *)
Takes(count, widths) == [keys |-> count, widths |-> widths]

Parameters ==
    [transfer |-> Takes(2, <<8>>),
     createAccount |-> Takes(3, <<8, 8>>),
     assign |-> Takes(2, <<>>),
     allocate |-> Takes(1, <<8>>),
     createAccountWithSeed |-> Takes(4, <<8, 8>>),
     transferWithSeed |-> Takes(4, <<8>>),
     advanceNonceAccount |-> Takes(2, <<>>),
     withdrawNonceAccount |-> Takes(3, <<8>>),
     initializeNonceAccount |-> Takes(2, <<>>),
     authorizeNonceAccount |-> Takes(3, <<>>),
     setComputeUnitLimit |-> Takes(0, <<4>>),
     setComputeUnitPrice |-> Takes(0, <<8>>),
     tokenTransfer |-> Takes(3, <<8>>),
     transferChecked |-> Takes(4, <<8, 1>>),
     mintTo |-> Takes(3, <<8>>),
     burn |-> Takes(3, <<8>>),
     closeAccount |-> Takes(3, <<>>),
     createAssociatedTokenAccount |-> Takes(4, <<>>)]

PublicKeys == [1..KeyLength -> 0..255]

KeyTexts == {Encode(key) : key \in PublicKeys}

(* A number of this width. *)
FitsIn(number, width) == number \in Nat /\ Shifted(number, width, ByteRange) = 0

(* The text is the Base58 of this key, or of none.                            *)
Means(text, key) ==
    IF key = NoKey THEN text \notin KeyTexts ELSE key \in PublicKeys /\ text = Encode(key)

(* The compiler has checked the types of the parameters; at is the one that   *)
(* takes the derived address, or 0.                                           *)
IsRequest(r) ==
    LET size == Len(r.texts)
        types == Parameters[r.builder]
    IN /\ r.builder \in DOMAIN Parameters
       /\ r.texts \in Seq(Seq({Foreign} \cup 0..57)) /\ Len(r.meant) = size
       /\ \A i \in 1..size : Means(r.texts[i], r.meant[i])
       /\ \/ r.at = 0 /\ types.keys = size
          \/ r.at \in 1..types.keys /\ types.keys = size + 1
       /\ Len(r.numbers) = Len(types.widths)
       /\ \A i \in 1..Len(r.numbers) : FitsIn(r.numbers[i], types.widths[i])
       /\ r.seed \in Seq(0..(ByteRange - 1)) /\ FitsIn(Len(r.seed), 4)

ASSUME RequestAssumption == \A r \in Requests : IsRequest(r)

VARIABLES
    request,
    stage,  \* "texts", "search", "built" or "thrown"
    keys,   \* the keys read
    built   \* what the builder did

programVars == <<vars, request, stage, keys, built>>

(* The seeds of an associated token account are three keys.                   *)
ProgramInit ==
    /\ Init
    /\ request \in Requests
    /\ request.builder = "createAssociatedTokenAccount" => seedsFit
    /\ stage = "texts" /\ keys = <<>> /\ built = Thrown

ReadKeys ==
    /\ stage = "texts"
    /\ keys' = [i \in DOMAIN request.texts |-> PublicKeyFromText(request.texts[i])]
    /\ stage' = IF \E i \in DOMAIN keys' : keys'[i] = NoKey THEN "thrown" ELSE "search"
    /\ UNCHANGED <<vars, request, built>>

Search == stage = "search" /\ Next /\ UNCHANGED <<request, stage, keys, built>>

SearchThrows ==
    /\ stage = "search" /\ outcome = "error"
    /\ stage' = "thrown"
    /\ UNCHANGED <<vars, request, keys, built>>

(* What the bump hashes to (external): some key for each. *)
DerivedKey(b) == PublicKeyFromNumber(256 + b)

(* The keys the builder is given. *)
Given == IF request.at = 0 THEN keys ELSE InsertAt(keys, request.at, DerivedKey(bump))

BuildInstruction ==
    LET k == Given
        n == request.numbers
        s == request.seed
    IN CASE request.builder = "transfer" -> Transfer(k, n, s)
         [] request.builder = "createAccount" -> CreateAccount(k, n, s)
         [] request.builder = "assign" -> Assign(k, n, s)
         [] request.builder = "allocate" -> Allocate(k, n, s)
         [] request.builder = "createAccountWithSeed" -> CreateAccountWithSeed(k, n, s)
         [] request.builder = "transferWithSeed" -> TransferWithSeed(k, n, s)
         [] request.builder = "advanceNonceAccount" -> AdvanceNonceAccount(k, n, s)
         [] request.builder = "withdrawNonceAccount" -> WithdrawNonceAccount(k, n, s)
         [] request.builder = "initializeNonceAccount" -> InitializeNonceAccount(k, n, s)
         [] request.builder = "authorizeNonceAccount" -> AuthorizeNonceAccount(k, n, s)
         [] request.builder = "setComputeUnitLimit" -> SetComputeUnitLimit(k, n, s)
         [] request.builder = "setComputeUnitPrice" -> SetComputeUnitPrice(k, n, s)
         [] request.builder = "tokenTransfer" -> TokenTransfer(k, n, s)
         [] request.builder = "transferChecked" -> TransferChecked(k, n, s)
         [] request.builder = "mintTo" -> MintTo(k, n, s)
         [] request.builder = "burn" -> Burn(k, n, s)
         [] request.builder = "closeAccount" -> CloseAccount(k, n, s)
         [] request.builder = "createAssociatedTokenAccount" -> CreateAssociatedTokenAccount(k, n, s)

CallBuilder ==
    /\ stage = "search" /\ outcome = "found"
    /\ built' = BuildInstruction
    /\ stage' = "built"
    /\ UNCHANGED <<vars, request, keys>>

Ended == stage \in {"built", "thrown"} /\ UNCHANGED programVars

ProgramNext == ReadKeys \/ Search \/ SearchThrows \/ CallBuilder \/ Ended

(* The loop of the search does not block. *)
ProgramSpec == ProgramInit /\ [][ProgramNext]_programVars /\ WF_programVars(Search)

-----------------------------------------------------------------------------
(* The program on the chain (external): it reads one field after the other.   *)

Bytes(data, at, width) ==
    [i \in 1..width |-> IF at + i <= Len(data) THEN data[at + i] ELSE 0]

(* The highest byte is the last. *)
UintAt(data, at, width) ==
    LET upto[i \in 0..width] ==
            IF i = 0 THEN 0 ELSE upto[i - 1] * ByteRange + Bytes(data, at, width)[width - i + 1]
    IN upto[width]

Uint(width, value) == [kind |-> "uint", width |-> width, value |-> <<value>>]
Key(key) == [kind |-> "bytes", width |-> KeyLength, value |-> key]
String(s) == [kind |-> "string", width |-> 4, value |-> s]

ReadField(data, acc, field) ==
    LET after == acc.at + field.width
        length == UintAt(data, acc.at, field.width)
        Read(end, value) == [at |-> end, values |-> Append(acc.values, value)]
    IN CASE field.kind = "uint" -> Read(after, <<length>>)
         [] field.kind = "bytes" -> Read(after, Bytes(data, acc.at, field.width))
         [] field.kind = "string" -> Read(after + length, Bytes(data, after, length))

ReadFields(data, fields) ==
    LET upto[i \in 0..Len(fields)] ==
            IF i = 0 THEN [at |-> 0, values |-> <<>>]
            ELSE ReadField(data, upto[i - 1], fields[i])
    IN upto[Len(fields)]

(* What it reads in the data of each instruction, of the keys, the numbers    *)
(* and the seed that the caller passed.                                       *)
Layout(builder, k, n, s) ==
    CASE builder = "transfer" -> <<Uint(4, 2), Uint(8, n[1])>>
      [] builder = "createAccount" -> <<Uint(4, 0), Uint(8, n[1]), Uint(8, n[2]), Key(k[3])>>
      [] builder = "assign" -> <<Uint(4, 1), Key(k[2])>>
      [] builder = "allocate" -> <<Uint(4, 8), Uint(8, n[1])>>
      [] builder = "createAccountWithSeed" ->
             <<Uint(4, 3), Key(k[3]), String(s), Uint(8, n[1]), Uint(8, n[2]), Key(k[4])>>
      [] builder = "transferWithSeed" -> <<Uint(4, 11), Uint(8, n[1]), String(s), Key(k[3])>>
      [] builder = "advanceNonceAccount" -> <<Uint(4, 4)>>
      [] builder = "withdrawNonceAccount" -> <<Uint(4, 5), Uint(8, n[1])>>
      [] builder = "initializeNonceAccount" -> <<Uint(4, 6), Key(k[2])>>
      [] builder = "authorizeNonceAccount" -> <<Uint(4, 7), Key(k[3])>>
      [] builder = "setComputeUnitLimit" -> <<Uint(1, 2), Uint(4, n[1])>>
      [] builder = "setComputeUnitPrice" -> <<Uint(1, 3), Uint(8, n[1])>>
      [] builder = "tokenTransfer" -> <<Uint(1, 3), Uint(8, n[1])>>
      [] builder = "transferChecked" -> <<Uint(1, 12), Uint(8, n[1]), Uint(1, n[2])>>
      [] builder = "mintTo" -> <<Uint(1, 7), Uint(8, n[1])>>
      [] builder = "burn" -> <<Uint(1, 8), Uint(8, n[1])>>
      [] builder = "closeAccount" -> <<Uint(1, 9)>>
      [] builder = "createAssociatedTokenAccount" -> <<>>

-----------------------------------------------------------------------------
(* Properties.                                                                *)

(* A key is read from the text that means it, and its text is that text       *)
(* again, whatever zeros and ones there are in front; a text of another       *)
(* length or alphabet is of no key (base58.cpp:14-44, publicKey.cpp:29-35).   *)
KeysReadBack ==
    \A i \in DOMAIN keys :
        /\ keys[i] = request.meant[i]
        /\ keys[i] # NoKey => Encode(keys[i]) = request.texts[i]

(* Of each length up to a signature's, the input with the most digits. *)
MostDigits == [length \in 1..64 |-> Len(Digits([i \in 1..length |-> 255], 256, 58))]

(* encode() writes its digits into a buffer whose size it estimates, and does *)
(* not check: those of every key that was read fit, and those of the inputs   *)
(* with the most of them (base58.cpp:16-21).                                  *)
EncodeFits ==
    stage # "texts" =>
        /\ \A i \in DOMAIN keys : Len(Digits(keys[i], 256, 58)) <= BufferSize(KeyLength)
        /\ \A length \in DOMAIN MostDigits : MostDigits[length] <= BufferSize(length)

(* A builder that is given keys returns an instruction in whose data the      *)
(* program on the chain reads what the caller passed, at full width, with     *)
(* nothing left over; only those that name the sysvar of recent blockhashes   *)
(* throw: every other literal is of a key (system_program.cpp:27-171,         *)
(* spl_token.cpp:31-156, spl_token.h:31-45, compute_budget.cpp:8-28).         *)
InstructionReadsBack ==
    LET fields == Layout(request.builder, Given, request.numbers, request.seed)
    IN stage = "built" =>
           IF built = Thrown
           THEN request.builder \in {"advanceNonceAccount", "withdrawNonceAccount",
                                     "initializeNonceAccount"}
           ELSE ReadFields(built.data, fields) =
                    [at |-> Len(built.data),
                     values |-> [i \in DOMAIN fields |-> fields[i].value]]

(* "Advance a nonce account's stored nonce": the builders return an           *)
(* instruction (system_program.h:63-76).                                      *)
AlwaysBuilds == stage = "built" => built.how = "built"

(* A search that was begun ends: the count down of the bump cannot wrap       *)
(* around zero (publicKey.cpp:136).                                           *)
SearchEnds == (stage = "search") ~> (outcome # "searching")
=============================================================================
