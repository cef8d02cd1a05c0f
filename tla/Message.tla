------------------------------ MODULE Message ------------------------------
(* Message::compile: a legacy message from a list of instructions and a fee   *)
(* payer.  Accounts keep the order of their first mention; nothing sorts      *)
(* them.  As in MessageV0, the instructions are revealed as the loop reads    *)
(* them.                                                                      *)
EXTENDS AccountKeys, Runtime

CONSTANTS
    Keys,             \* the public keys there are
    ProgramIds,       \* those that instructions invoke
    FeePayers,        \* those that pay
    ByteRange,        \* the number of values of a uint8_t
    MaxInstructions,  \* bound: instructions in a message
    MaxAccounts       \* bound: account mentions over all its instructions

ASSUME KeysAssumption == ProgramIds \subseteq Keys /\ FeePayers \subseteq Keys
ASSUME ByteAssumption == ByteRange \in Nat \ {0}

VARIABLES
    feePayer,      \* argument
    instructions,  \* argument, as far as the loop at line 42 has read it
    pc,            \* "collect" between instructions, "accounts" within one
    accounts,      \* the vectors orderedKeys, isSigner and isWritable
    msg            \* the result

vars == <<feePayer, instructions, pc, accounts, msg>>

Init ==
    /\ feePayer \in FeePayers
    /\ instructions = <<>>
    /\ pc = "collect"
    /\ accounts = FindOrAdd(<<>>, feePayer, TRUE, TRUE)
    /\ msg = EmptyMessage

StartInstruction(p) ==
    /\ pc = "collect"
    /\ Len(instructions) < MaxInstructions
    /\ instructions' = Append(instructions, [programId |-> p, accounts |-> <<>>])
    /\ pc' = "accounts"
    /\ UNCHANGED <<feePayer, accounts, msg>>

RegisterAccount(am) ==
    /\ pc = "accounts"
    /\ AccountCount(instructions) < MaxAccounts
    /\ instructions' = WithAccount(instructions, am)
    /\ accounts' = FindOrAdd(accounts, am.pubkey, am.isSigner, am.isWritable)
    /\ UNCHANGED <<feePayer, pc, msg>>

(* The program is registered after the accounts of its instruction. *)
RegisterProgram ==
    /\ pc = "accounts"
    /\ accounts' = FindOrAdd(accounts, instructions[Len(instructions)].programId, FALSE, FALSE)
    /\ pc' = "collect"
    /\ UNCHANGED <<feePayer, instructions, msg>>

IndexOf(pk) == (FirstIndex(KeysOf(accounts), pk) - 1) % ByteRange

CompileInstruction(instr) ==
    [programIdIndex |-> IndexOf(instr.programId),
     accountIndices |-> [i \in 1..Len(instr.accounts) |-> IndexOf(instr.accounts[i].pubkey)]]

Compile ==
    /\ pc = "collect"
    /\ msg' = [msg EXCEPT
           !.header = HeaderOf(accounts, ByteRange),
           !.accountKeys = KeysOf(accounts),
           !.instructions = [n \in 1..Len(instructions) |-> CompileInstruction(instructions[n])]]
    /\ pc' = "returned"
    /\ UNCHANGED <<feePayer, instructions, accounts>>

Returned == pc = "returned" /\ UNCHANGED vars

Next ==
    \/ \E p \in ProgramIds : StartInstruction(p)
    \/ \E am \in AccountMetas(Keys) : RegisterAccount(am)
    \/ RegisterProgram
    \/ Compile
    \/ Returned

Spec == Init /\ [][Next]_vars

-----------------------------------------------------------------------------
(* Properties.                                                                *)

NoTables == [k \in {} |-> <<>>]

(* Every variable keeps its shape; the account list is never without the fee  *)
(* payer's entry, and the header counts fit the bytes they are stored in.     *)
TypeOK ==
    /\ feePayer \in FeePayers
    /\ instructions \in Seq(Instructions(Keys))
    /\ pc \in {"collect", "accounts", "returned"}
    /\ pc = "accounts" => instructions # <<>>
    /\ accounts \in Seq(AccountInfos(Keys)) \ {<<>>}
    /\ msg.header \in Headers(ByteRange)
    /\ msg.accountKeys \in Seq(Keys)

(* The entries of the account list stay apart, and the flags of each add up   *)
(* to what all its mentions ask, in whichever order and however often they    *)
(* come (message.cpp:23-46).                                                  *)
FlagsAddUp ==
    /\ \A i, j \in 1..Len(accounts) : accounts[i].key = accounts[j].key => i = j
    /\ \A i \in 1..Len(accounts) :
           LET info == accounts[i]
           IN /\ info.isSigner <=> AskedSigner(instructions, feePayer, info.key)
              /\ info.isWritable <=> AskedWritable(instructions, feePayer, info.key)

(* Each index of a compiled instruction that has not wrapped leads to the     *)
(* account the instruction names (message.cpp:67-84).                         *)
IndexesResolve ==
    pc = "returned" =>
        LET Leads(idx, pk) ==
                FirstIndex(KeysOf(accounts), pk) <= ByteRange =>
                    idx < Len(msg.accountKeys) /\ msg.accountKeys[idx + 1] = pk
        IN \A n \in 1..Len(instructions) :
               LET asked == instructions[n]
                   ci == msg.instructions[n]
               IN /\ Leads(ci.programIdIndex, asked.programId)
                  /\ \A i \in 1..Len(asked.accounts) :
                         Leads(ci.accountIndices[i], asked.accounts[i].pubkey)

Canonical == \A i, j \in 1..Len(accounts) : i < j => PassOf(accounts[i]) <= PassOf(accounts[j])

(* If the mentions happen to come in canonical order, and the counts fit      *)
(* their bytes, the header grants each account exactly the signature and the  *)
(* write access asked for it: the three counts agree with the order of the    *)
(* keys (message.cpp:48-65).                                                  *)
GrantsExactWhenCanonical ==
    pc = "returned" /\ Canonical /\ HeaderFits(accounts, ByteRange) =>
        \A i \in 1..Len(msg.accountKeys) :
            LET pk == msg.accountKeys[i]
            IN /\ GrantsSigner(msg, i - 1) <=> AskedSigner(instructions, feePayer, pk)
               /\ GrantsWritable(msg, NoTables, i - 1) <=> AskedWritable(instructions, feePayer, pk)

(* "Account key ordering: feePayer first, then all signers, then non-signers" *)
(* (message.cpp:17).                                                          *)
SignersBeforeNonSigners ==
    pc = "returned" =>
        \A i, j \in 1..Len(accounts) :
            accounts[j].isSigner /\ i < j => accounts[i].isSigner
=============================================================================
