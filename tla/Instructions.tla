---------------------------- MODULE Instructions ----------------------------
(* The builders of system_program.cpp, spl_token.cpp and compute_budget.cpp.  *)
(* A key is a sequence of bytes; NoKey stands for a constructor that throws.  *)
EXTENDS Base58

CONSTANTS
    KeyLength,  \* 32: bytes of a public key
    ByteRange   \* 256: values of a byte of a number

(* The tag of every instruction is a byte. *)
ASSUME RangeAssumption == KeyLength \in Nat \ {0} /\ ByteRange \in Nat /\ ByteRange > 12

NoKey == <<>>

(* PublicKey(const std::string &) *)
PublicKeyFromText(text) ==
    IF Valid(text) /\ Len(Decode(text)) = KeyLength THEN Decode(text) ELSE NoKey

(* value >> 8 * i *)
Shifted(value, i, range) ==
    LET by[j \in 0..i] == IF j = 0 THEN value ELSE by[j - 1] \div range
    IN by[i]

(* PublicKey(uint64_t) *)
PublicKeyFromNumber(value) ==
    [i \in 1..KeyLength |-> Shifted(value, KeyLength - i, 256) % 256]

(* The keys the builders spell out, in Base58.  The text for the recent       *)
(* blockhashes, "SysvarRecentB1telephones11111111111111111", has an l in it,  *)
(* which is not in the alphabet.                                              *)
Known == [system |-> 0, token |-> 1, associated |-> 2, budget |-> 3, rent |-> 4, recent |-> 5]

KnownText(name) ==
    Encode(PublicKeyFromNumber(Known[name])) \o (IF name = "recent" THEN <<Foreign>> ELSE <<>>)

KnownKey(name) == PublicKeyFromText(KnownText(name))

(* The highest byte is written first. *)
WriteUint_BigEndian(value, width) ==
    [i \in 1..width |-> Shifted(value, width - i, ByteRange) % ByteRange]

(* writeU8, writeU32 and writeU64 *)
WriteUint(value, width) ==
    [i \in 1..width |-> Shifted(value, i - 1, ByteRange) % ByteRange]

U8(value) == WriteUint(value, 1)
U32(value) == WriteUint(value, 4)
U64(value) == WriteUint(value, 8)

WriteString(s) == U32(Len(s)) \o s

Meta(key, isSigner, isWritable) == [key |-> key, isSigner |-> isSigner, isWritable |-> isWritable]

Thrown == [how |-> "thrown"]

Build(program, accounts, data) ==
    IF NoKey \in {KnownKey(program)} \cup {accounts[i].key : i \in DOMAIN accounts} THEN Thrown
    ELSE [how |-> "built", programId |-> KnownKey(program), accounts |-> accounts, data |-> data]

-----------------------------------------------------------------------------
(* One definition per builder: k are the keys it is given, n the numbers, and *)
(* s the seed, in the order of its parameters.                                *)

Transfer(k, n, s) ==
    Build("system", <<Meta(k[1], TRUE, TRUE), Meta(k[2], FALSE, TRUE)>>, U32(2) \o U64(n[1]))

CreateAccount(k, n, s) ==
    Build("system", <<Meta(k[1], TRUE, TRUE), Meta(k[2], TRUE, TRUE)>>,
          U32(0) \o U64(n[1]) \o U64(n[2]) \o k[3])

Assign(k, n, s) == Build("system", <<Meta(k[1], TRUE, TRUE)>>, U32(1) \o k[2])

Allocate(k, n, s) == Build("system", <<Meta(k[1], TRUE, TRUE)>>, U32(8) \o U64(n[1]))

CreateAccountWithSeed(k, n, s) ==
    Build("system", <<Meta(k[1], TRUE, TRUE), Meta(k[2], FALSE, TRUE)>>,
          U32(3) \o k[3] \o WriteString(s) \o U64(n[1]) \o U64(n[2]) \o k[4])

TransferWithSeed(k, n, s) ==
    Build("system", <<Meta(k[1], FALSE, TRUE), Meta(k[2], TRUE, FALSE), Meta(k[4], FALSE, TRUE)>>,
          U32(11) \o U64(n[1]) \o WriteString(s) \o k[3])

Nonce(key) == Meta(key, FALSE, TRUE)
Sysvar(name) == Meta(KnownKey(name), FALSE, FALSE)
Authority(key) == Meta(key, TRUE, FALSE)

AdvanceNonceAccount(k, n, s) ==
    Build("system", <<Nonce(k[1]), Sysvar("recent"), Authority(k[2])>>, U32(4))

WithdrawNonceAccount(k, n, s) ==
    Build("system", <<Nonce(k[1]), Meta(k[3], FALSE, TRUE), Sysvar("recent"), Sysvar("rent"),
                      Authority(k[2])>>, U32(5) \o U64(n[1]))

InitializeNonceAccount(k, n, s) ==
    Build("system", <<Nonce(k[1]), Sysvar("recent"), Sysvar("rent")>>, U32(6) \o k[2])

AuthorizeNonceAccount(k, n, s) ==
    Build("system", <<Nonce(k[1]), Authority(k[2])>>, U32(7) \o k[3])

SetComputeUnitLimit(k, n, s) == Build("budget", <<>>, U8(2) \o U32(n[1]))

SetComputeUnitPrice(k, n, s) == Build("budget", <<>>, U8(3) \o U64(n[1]))

(* Two accounts that are written, and the signer. *)
TokenInstruction(k, data) ==
    Build("token", <<Meta(k[1], FALSE, TRUE), Meta(k[2], FALSE, TRUE), Authority(k[3])>>, data)

TokenTransfer(k, n, s) == TokenInstruction(k, U8(3) \o U64(n[1]))
MintTo(k, n, s) == TokenInstruction(k, U8(7) \o U64(n[1]))
Burn(k, n, s) == TokenInstruction(k, U8(8) \o U64(n[1]))
CloseAccount(k, n, s) == TokenInstruction(k, U8(9))

TransferChecked(k, n, s) ==
    Build("token", <<Meta(k[1], FALSE, TRUE), Meta(k[2], FALSE, FALSE), Meta(k[3], FALSE, TRUE),
                     Authority(k[4])>>, U8(12) \o U64(n[1]) \o U8(n[2]))

CreateAssociatedTokenAccount(k, n, s) ==
    Build("associated",
          <<Meta(k[1], TRUE, TRUE), Meta(k[2], FALSE, TRUE), Meta(k[3], FALSE, FALSE),
            Meta(k[4], FALSE, FALSE), Sysvar("system"), Sysvar("token"), Sysvar("rent")>>, <<>>)
=============================================================================
