----------------------------- MODULE Submission -----------------------------
(* examples/transfer_sol.cpp: an airdrop is requested and awaited, then a     *)
(* transfer is signed, sent and awaited.  examples/spl_token_transfer.cpp: a  *)
(* transfer of tokens, to an account that is created first unless it is       *)
(* there, is sent and awaited.  Every request may fail, be answered in full,  *)
(* be answered with the beginning of an answer, or be executed with its       *)
(* answer lost: see RpcClient.  ConfirmTransaction runs for the airdrop and   *)
(* again for the transfer; its cluster variables are those of the one it runs *)
(* for.                                                                       *)
EXTENDS ConfirmTransaction

VARIABLES
    example,   \* the example that runs
    step,      \* the call main() has come to, or its exit status
    funds,     \* the transaction that gave the sender what it sends
    account,   \* the account of the receiver of tokens is there
    creates,   \* the transfer creates it
    accepted,  \* the server has taken the transaction of this phase
    watched,   \* the signature that is awaited, or the blockhash, is whole
    said       \* "confirmed" or "late" was printed of the transfer, or "nothing"

chain == <<funds, account>>
told == <<creates, accepted, watched, said>>
flow == <<example, step, chain, told>>
submissionVars == <<vars, flow>>

Awaiting == step \in {"awaitAirdrop", "awaitTransfer"}
Exited == step \in {"exit0", "exit1"}
OnChain == {"processed", "confirmed", "finalized"}
Tokens == example = "spl_token_transfer"

SubmissionInit ==
    /\ Init
    /\ \/ example = "transfer_sol" /\ step = "airdrop" /\ funds = "unknown"
       \/ Tokens /\ step = "blockhash" /\ funds \in {"unknown", "finalized"}
    /\ account \in BOOLEAN
    /\ creates = FALSE /\ accepted = FALSE /\ watched = FALSE /\ said = "nothing"

-----------------------------------------------------------------------------
(* The cluster and the server.                                                *)

TransactionMoves ==
    /\ (accepted /\ Land) \/ Advance \/ Drop
    /\ UNCHANGED flow

(* The airdrop goes on once main() has. *)
AirdropMoves ==
    /\ step \in {"balance", "blockhash", "sign", "transfer"}
    /\ \/ funds = "processed" /\ funds' \in {"unknown", "confirmed"}
       \/ funds = "confirmed" /\ funds' = "finalized"
    /\ UNCHANGED <<vars, example, step, account, told>>

(* The receiver's account is created or closed by others. *)
AccountMoves ==
    /\ Tokens /\ step \in {"blockhash", "account", "sign", "transfer"}
    /\ account' = ~account
    /\ UNCHANGED <<vars, example, step, funds, told>>

(* Of a signature that was cut there is no status. *)
NothingRead ==
    /\ Awaiting /\ pc = "request" /\ ~watched
    /\ pc' = "answer"
    /\ answer' = "unknown"
    /\ UNCHANGED <<elapsed, phaseStart, cluster, faults, flow>>

StatusRead == Awaiting /\ watched /\ ServerReads /\ UNCHANGED flow

-----------------------------------------------------------------------------
(* main()                                                                     *)

(* A call that returns a signature: executed or not, and what comes of the    *)
(* answer. An exception ends the program.                                     *)
CallForSignature(executable, next) ==
    \E executed \in BOOLEAN, reply \in {"whole", "cut", "error"} :
        /\ executed => executable
        /\ reply # "error" => executed
        /\ accepted' = executed
        /\ watched' = (reply = "whole")
        /\ faults' = (reply # "whole")
        /\ step' = IF reply = "error" THEN "exit1" ELSE next

RequestAirdrop ==
    /\ step = "airdrop"
    /\ CallForSignature(TRUE, "awaitAirdrop")
    /\ UNCHANGED <<elapsed, program, cluster, example, chain, creates, said>>

Await == Awaiting /\ Program /\ UNCHANGED flow

Wait == Awaiting /\ Tick /\ UNCHANGED flow

(* The program goes on without having waited for the airdrop's confirmation. *)
AirdropAwaited_EitherWay ==
    /\ step = "awaitAirdrop" /\ Returned
    /\ step' = "balance"
    /\ funds' = status
    /\ UNCHANGED <<vars, example, account, told>>

AirdropAwaited ==
    /\ step = "awaitAirdrop" /\ Returned
    /\ step' = IF pc = "true" THEN "balance" ELSE "exit1"
    /\ funds' = status
    /\ UNCHANGED <<vars, example, account, told>>

(* getBalance and, at the end, getBalance of both: a number, or an exception. *)
ShowBalance ==
    /\ \/ step = "balance" /\ step' \in {"blockhash", "exit1"}
       \/ step = "final" /\ step' \in {"exit0", "exit1"}
    /\ UNCHANGED <<vars, example, chain, told>>

GetBlockhash ==
    /\ step = "blockhash"
    /\ \E reply \in {"whole", "cut", "error"} :
           /\ step' = IF reply = "error" THEN "exit1" ELSE IF Tokens THEN "account" ELSE "sign"
           /\ watched' = (reply = "whole")
    /\ UNCHANGED <<vars, example, chain, creates, accepted, said>>

(* A failure is not taken for an answer. *)
LookForAccount_TrustsFailure ==
    /\ step = "account"
    /\ \E reply \in {"whole", "cut", "error"} :
           creates' \in CASE reply = "whole" -> {~account}
                         [] reply = "cut" -> {~account, TRUE}
                         [] reply = "error" -> {FALSE}
    /\ step' = "sign"
    /\ UNCHANGED <<vars, example, chain, accepted, watched, said>>

(* What is thrown is swallowed, and a cut answer may have lost the account:   *)
(* both are taken for an account that is not there.                           *)
LookForAccount ==
    /\ step = "account"
    /\ \E reply \in {"whole", "cut", "error"} :
           creates' \in CASE reply = "whole" -> {~account}
                         [] reply = "cut" -> {~account, TRUE}
                         [] reply = "error" -> {TRUE}
    /\ step' = "sign"
    /\ UNCHANGED <<vars, example, chain, accepted, watched, said>>

(* Compiled and signed.  A blockhash that was cut is of another length, which *)
(* sign() throws at, or, with the last character missing, another blockhash.  *)
(* What comes of the simulation that follows is ignored.                      *)
Sign ==
    /\ step = "sign"
    /\ step' \in IF watched THEN {"transfer"} ELSE {"transfer", "exit1"}
    /\ UNCHANGED <<vars, example, chain, told>>

(* The preflight, at "processed", wants a blockhash that the server knows, a  *)
(* sender with lamports, and an account that is there, or is not if it is to  *)
(* be created.                                                                *)
PreflightPasses == watched /\ funds \in OnChain /\ (Tokens => creates = ~account)

(* The signature awaited is still the airdrop's. *)
SendTransfer_SameSignature ==
    /\ step = "transfer"
    /\ CallForSignature(PreflightPasses, "awaitTransfer")
    /\ elapsed' = 0 /\ phaseStart' = 0 /\ pc' = "check" /\ answer' = "unknown"
    /\ status' = funds /\ landedAt' = -1
    /\ UNCHANGED <<example, chain, creates, said>>

(* And the second wait, or the only one, begins. *)
SendTransfer ==
    /\ step = "transfer"
    /\ CallForSignature(PreflightPasses, "awaitTransfer")
    /\ elapsed' = 0 /\ phaseStart' = 0 /\ pc' = "check" /\ answer' = "unknown"
    /\ status' = "unknown" /\ landedAt' = -1
    /\ UNCHANGED <<example, chain, creates, said>>

(* Its being late is printed, and not an error. *)
TransferAwaited ==
    /\ step = "awaitTransfer" /\ Returned
    /\ said' = IF pc = "true" THEN "confirmed" ELSE "late"
    /\ step' = IF Tokens THEN "exit0" ELSE "final"
    /\ UNCHANGED <<vars, example, chain, creates, accepted, watched>>

Main ==
    \/ RequestAirdrop \/ AirdropAwaited \/ ShowBalance \/ GetBlockhash
    \/ LookForAccount \/ Sign \/ SendTransfer \/ TransferAwaited

SubmissionNext ==
    \/ TransactionMoves \/ AirdropMoves \/ AccountMoves \/ StatusRead \/ NothingRead
    \/ Await \/ Wait \/ Main
    \/ Exited /\ UNCHANGED submissionVars

(* As in ConfirmTransaction; the other calls return because a post ends.      *)
SubmissionSpec ==
    /\ SubmissionInit /\ [][SubmissionNext]_submissionVars
    /\ WF_submissionVars(Await \/ StatusRead \/ NothingRead \/ Main)
    /\ WF_submissionVars(Wait)

-----------------------------------------------------------------------------
(* Properties.                                                                *)

(* "Transaction confirmed!" is said of a transfer that the server took, that  *)
(* landed, and whose sender had been funded by a transaction that had landed, *)
(* whatever was lost, cut or dropped in between; and exit status 0 promises   *)
(* that the server took the transfer, and no more (transfer_sol.cpp:58-120,   *)
(* spl_token_transfer.cpp:138-152).                                           *)
SaidTruly ==
    /\ said = "confirmed" => accepted /\ landedAt >= 0 /\ funds \in OnChain
    /\ step = "exit0" => accepted /\ said # "nothing"

(* The transfer is not sent before a poll has found the airdrop on the chain, *)
(* whether or not its own answer is lost (transfer_sol.cpp:64-95).            *)
SentAfterFunding ==
    [][~Tokens /\ step = "transfer" /\ step' # "transfer" =>
           pc = "true" /\ landedAt >= 0]_submissionVars

(* Tokens are sent to an account that is not created on the way only if the   *)
(* server has said that it is there: no failure on the way there, and none    *)
(* that is swallowed, makes an account that is missing look as if it existed  *)
(* (spl_token_transfer.cpp:80-102).                                           *)
MissingIsCreated ==
    [][~creates' /\ step = "account" /\ step' = "sign" => account]_submissionVars

(* main() ends, if its requests do.                                           *)
Exits == <>Exited
=============================================================================
