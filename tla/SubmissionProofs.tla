-------------------------- MODULE SubmissionProofs --------------------------
(* Proofs about ConfirmTransaction, called once, and about Submission, which  *)
(* calls it for one transaction after the other, for every timeout, poll      *)
(* interval and latency that together stay below the range of the uint32_t    *)
(* clock.                                                                     *)
EXTENDS Submission, TLAPS

-----------------------------------------------------------------------------
(* ConfirmTransaction.                                                        *)

(* How far the clock can be in each part of the loop: a poll begins before    *)
(* the timeout, its answer or failure comes MaxLatency later at most, and the *)
(* sleep after it lasts PollInterval.                                         *)
ClockBound ==
    /\ pc = "check" =>
           elapsed = 0 \/ elapsed < TimeoutMs + MaxLatency + PollInterval
    /\ pc \in {"request", "answer"} =>
           phaseStart < TimeoutMs /\ elapsed <= phaseStart + MaxLatency
    /\ pc = "sleep" =>
           phaseStart < TimeoutMs + MaxLatency /\ elapsed <= phaseStart + PollInterval
    /\ pc = "true" => elapsed < TimeoutMs + MaxLatency
    /\ pc = "false" =>
           /\ elapsed >= TimeoutMs
           /\ elapsed = 0 \/ elapsed < TimeoutMs + MaxLatency + PollInterval

(* Without faults, a transaction that has landed is still there, and if it    *)
(* was missed it landed after the server read the status for the last poll.   *)
MissedLately ==
    ~faults /\ landedAt >= 0 =>
        /\ status # "unknown"
        /\ pc = "answer" /\ answer = "unknown" => phaseStart <= landedAt
        /\ pc = "sleep" => phaseStart <= landedAt + MaxLatency
        /\ pc \in {"check", "false"} => elapsed <= landedAt + MaxLatency + PollInterval

IInv ==
    /\ TypeOK
    /\ ClockBound
    /\ MissedLately
    /\ landedAt = -1 => status = "unknown" /\ answer = "unknown"
    /\ pc = "true" => Reported(answer)

LEMMA InitIInv == Init => IInv
  <1> SUFFICES ASSUME Init
               PROVE  IInv
    OBVIOUS
  <1> USE TimeAssumption DEF Init
  <1>1. TypeOK
    <2>1. landedAt \in -1..elapsed
      OBVIOUS
    <2>2. phaseStart \in 0..elapsed /\ elapsed \in Nat /\ elapsed < UintRange
      OBVIOUS
    <2> QED
      BY <2>1, <2>2 DEF TypeOK, Statuses
  <1>2. ClockBound
    BY DEF ClockBound
  <1>3. MissedLately
    BY DEF MissedLately
  <1> QED
    BY <1>1, <1>2, <1>3 DEF IInv

LEMMA StepIInv == IInv /\ [Next]_vars => IInv'
  <1> SUFFICES ASSUME IInv, [Next]_vars
               PROVE  IInv'
    OBVIOUS
  <1> USE TimeAssumption DEF IInv, TypeOK, Statuses, ClockBound, MissedLately,
          program, cluster, Reported
  <1>0. elapsed % UintRange = elapsed
    OBVIOUS
  <1>1. CASE Land
    BY <1>1 DEF Land, Returned
  <1>2. CASE Advance
    BY <1>2 DEF Advance, Returned
  <1>3. CASE Drop
    BY <1>3 DEF Drop, Returned
  <1>4. CASE Tick
    BY <1>4 DEF Tick
  <1>5. CASE ServerReads
    BY <1>5 DEF ServerReads
  <1>6. CASE TimeOut
    BY <1>0, <1>6 DEF TimeOut, Expired
  <1>7. CASE BeginPoll
    BY <1>0, <1>7 DEF BeginPoll, Expired
  <1>8. CASE RequestFails
    BY <1>8 DEF RequestFails
  <1>9. CASE Confirm
    BY <1>9 DEF Confirm
  <1>10. CASE NotYet
    BY <1>10 DEF NotYet
  <1>11. CASE Wake
    BY <1>11 DEF Wake
  <1>12. CASE UNCHANGED vars
    BY <1>12 DEF vars
  <1> QED
    BY <1>1, <1>2, <1>3, <1>4, <1>5, <1>6, <1>7, <1>8, <1>9, <1>10, <1>11, <1>12
    DEF Next, Program

LEMMA Invariance == Spec => []IInv
  BY InitIInv, StepIInv, PTL DEF Spec

(* Type correctness; the clock never reaches the range of its uint32_t.       *)
THEOREM TypeCorrect == Spec => []TypeOK
  <1>1. IInv => TypeOK
    BY DEF IInv
  <1> QED
    BY <1>1, Invariance, PTL

LEMMA IInvImplies == IInv => TrueMeansLanded /\ FalseMeansMissed /\ BoundedOvershoot
  <1> USE TimeAssumption DEF IInv, TypeOK
  <1>1. IInv => TrueMeansLanded
    BY DEF TrueMeansLanded, Reported
  <1>2. IInv => FalseMeansMissed
    BY DEF ClockBound, MissedLately, FalseMeansMissed
  <1>3. IInv => BoundedOvershoot
    BY DEF ClockBound, BoundedOvershoot
  <1> QED
    BY <1>1, <1>2, <1>3

(* confirmTransaction returns true only for a transaction that landed.        *)
THEOREM TrueIsLanded == Spec => []TrueMeansLanded
  BY IInvImplies, Invariance, PTL

(* It returns false only after the timeout, and with no fault on the way only *)
(* if the transaction came too late for the last poll.                        *)
THEOREM FalseIsMissed == Spec => []FalseMeansMissed
  BY IInvImplies, Invariance, PTL

(* It keeps its caller at most one request and one sleep past the timeout.    *)
THEOREM OvershootIsBounded == Spec => []BoundedOvershoot
  BY IInvImplies, Invariance, PTL

-----------------------------------------------------------------------------
(* Submission.                                                                *)

FlowTypeOK ==
    /\ example \in {"transfer_sol", "spl_token_transfer"}
    /\ step \in {"airdrop", "awaitAirdrop", "balance", "blockhash", "account", "sign",
                 "transfer", "awaitTransfer", "final", "exit0", "exit1"}
    /\ funds \in Statuses
    /\ account \in BOOLEAN /\ creates \in BOOLEAN
    /\ accepted \in BOOLEAN /\ watched \in BOOLEAN
    /\ said \in {"nothing", "confirmed", "late"}

(* Only what the server took can land, and a signature that was cut is the    *)
(* fault that excuses the wait for it.                                        *)
Taken ==
    /\ landedAt >= 0 => accepted
    /\ step = "airdrop" => ~accepted
    /\ Awaiting /\ ~watched => faults

(* What main() has seen to by the time it comes to a step. *)
SeenTo ==
    /\ step \in {"airdrop", "awaitAirdrop", "balance", "final"} => ~Tokens
    /\ step = "account" => Tokens
    /\ ~Tokens /\ step \in {"balance", "blockhash", "sign", "transfer"} => pc = "true"
    /\ step \in {"awaitTransfer", "final", "exit0"} => accepted /\ funds \in OnChain
    /\ step \in {"final", "exit0"} => said # "nothing"
    /\ step \notin {"final", "exit0", "exit1"} => said = "nothing"

FlowInv == IInv /\ FlowTypeOK /\ Taken /\ SeenTo /\ SaidTruly

LEMMA InitFlowInv == SubmissionInit => FlowInv
  <1> SUFFICES ASSUME SubmissionInit
               PROVE  FlowInv
    OBVIOUS
  <1>1. IInv
    BY InitIInv DEF SubmissionInit
  <1>2. FlowTypeOK
    BY DEF SubmissionInit, FlowTypeOK, Tokens, Statuses
  <1>3. landedAt = -1 /\ ~accepted /\ said = "nothing" /\ step \in {"airdrop", "blockhash"}
        /\ (step = "airdrop" <=> ~Tokens)
    BY DEF SubmissionInit, Init, Tokens
  <1>4. Taken /\ SeenTo /\ SaidTruly
    BY <1>3 DEF Taken, SeenTo, SaidTruly, Awaiting
  <1> QED
    BY <1>1, <1>2, <1>4 DEF FlowInv

(* A wait for one transaction is ConfirmTransaction's; of a signature that    *)
(* was cut, it only ever learns nothing.                                      *)
LEMMA StepNothingRead == IInv /\ Taken /\ NothingRead => IInv'
  <1> SUFFICES ASSUME IInv, Taken, NothingRead
               PROVE  IInv'
    OBVIOUS
  <1> QED
    BY DEF IInv, TypeOK, Statuses, ClockBound, MissedLately, Reported, Taken, NothingRead,
           cluster, flow

(* A new wait starts as the first one does, but for the fault its signature   *)
(* may bring along.                                                           *)
LEMMA StepSendTransfer == SendTransfer /\ FlowTypeOK => IInv'
  <1> SUFFICES ASSUME SendTransfer, FlowTypeOK
               PROVE  IInv'
    OBVIOUS
  <1>1. faults' \in BOOLEAN
    BY DEF SendTransfer, CallForSignature
  <1>2. /\ elapsed' = 0 /\ phaseStart' = 0 /\ pc' = "check" /\ answer' = "unknown"
        /\ status' = "unknown" /\ landedAt' = -1
    BY DEF SendTransfer
  <1>3. TypeOK'
    BY <1>1, <1>2, TimeAssumption DEF TypeOK, Statuses
  <1> QED
    BY <1>2, <1>3 DEF IInv, ClockBound, MissedLately

LEMMA StepRequestAirdrop == IInv /\ Taken /\ RequestAirdrop => IInv'
  <1> SUFFICES ASSUME IInv, Taken, RequestAirdrop
               PROVE  IInv'
    OBVIOUS
  <1>1. faults' \in BOOLEAN
    BY DEF RequestAirdrop, CallForSignature
  <1> QED
    BY <1>1 DEF IInv, TypeOK, ClockBound, MissedLately, Reported, Taken, RequestAirdrop,
                program, cluster

LEMMA StepConfirm == FlowInv /\ [SubmissionNext]_submissionVars => IInv'
  <1> SUFFICES ASSUME FlowInv, [SubmissionNext]_submissionVars
               PROVE  IInv'
    OBVIOUS
  <1>1. CASE TransactionMoves \/ StatusRead \/ Await \/ Wait
    BY <1>1, StepIInv DEF FlowInv, TransactionMoves, StatusRead, Await, Wait, Next
  <1>2. CASE NothingRead
    BY <1>2, StepNothingRead DEF FlowInv
  <1>3. CASE SendTransfer
    BY <1>3, StepSendTransfer DEF FlowInv
  <1>4. CASE RequestAirdrop
    BY <1>4, StepRequestAirdrop DEF FlowInv
  <1>5. CASE UNCHANGED vars
    BY <1>5, StepIInv DEF FlowInv
  <1> QED
    BY <1>1, <1>2, <1>3, <1>4, <1>5
    DEF SubmissionNext, Main, AirdropMoves, AccountMoves, AirdropAwaited, ShowBalance,
        GetBlockhash, LookForAccount, Sign, TransferAwaited, submissionVars

LEMMA StepFlow == FlowInv /\ [SubmissionNext]_submissionVars =>
                     FlowTypeOK' /\ Taken' /\ SeenTo' /\ SaidTruly'
  <1> SUFFICES ASSUME FlowInv, [SubmissionNext]_submissionVars
               PROVE  FlowTypeOK' /\ Taken' /\ SeenTo' /\ SaidTruly'
    OBVIOUS
  <1>0. /\ pc = "true" => landedAt >= 0
        /\ status \in Statuses
    BY DEF FlowInv, IInv, TypeOK, Reported
  <1> USE <1>0 DEF FlowInv, FlowTypeOK, Taken, SeenTo, SaidTruly, Awaiting, Tokens, OnChain,
          Statuses, chain, told, flow, vars, program, cluster
  <1>1. CASE TransactionMoves
    BY <1>1 DEF TransactionMoves, Land, Advance, Drop, Returned
  <1>2. CASE AirdropMoves
    BY <1>2 DEF AirdropMoves
  <1>3. CASE AccountMoves
    BY <1>3 DEF AccountMoves
  <1>4. CASE StatusRead \/ NothingRead
    BY <1>4 DEF StatusRead, NothingRead, ServerReads
  <1>5. CASE Await
    BY <1>5 DEF Await, Program, TimeOut, BeginPoll, RequestFails, Confirm, NotYet, Wake
  <1>6. CASE Wait
    BY <1>6 DEF Wait, Tick
  <1>7. CASE RequestAirdrop
    BY <1>7 DEF RequestAirdrop, CallForSignature
  <1>8. CASE AirdropAwaited
    BY <1>8 DEF AirdropAwaited, Returned
  <1>9. CASE ShowBalance
    BY <1>9 DEF ShowBalance
  <1>10. CASE GetBlockhash
    BY <1>10 DEF GetBlockhash
  <1>11. CASE LookForAccount
    <2>1. creates' \in BOOLEAN
      BY <1>11 DEF LookForAccount
    <2> QED
      BY <1>11, <2>1 DEF LookForAccount
  <1>12. CASE Sign
    BY <1>12 DEF Sign
  <1>13. CASE SendTransfer
    BY <1>13 DEF SendTransfer, CallForSignature, PreflightPasses
  <1>14. CASE TransferAwaited
    BY <1>14 DEF TransferAwaited, Returned
  <1>15. CASE UNCHANGED submissionVars
    BY <1>15 DEF submissionVars
  <1> QED
    BY <1>1, <1>2, <1>3, <1>4, <1>5, <1>6, <1>7, <1>8, <1>9, <1>10, <1>11, <1>12, <1>13,
       <1>14, <1>15
    DEF SubmissionNext, Main

LEMMA FlowInvariance == SubmissionSpec => []FlowInv
  <1>1. FlowInv /\ [SubmissionNext]_submissionVars => FlowInv'
    BY StepConfirm, StepFlow DEF FlowInv
  <1> QED
    BY <1>1, InitFlowInv, PTL DEF SubmissionSpec

(* A false confirmation says the same of each wait of an example.             *)
THEOREM WaitsMissTruly == SubmissionSpec => [](FalseMeansMissed /\ BoundedOvershoot)
  <1>1. FlowInv => FalseMeansMissed /\ BoundedOvershoot
    BY IInvImplies DEF FlowInv
  <1> QED
    BY <1>1, FlowInvariance, PTL

(* What an example prints and exits with is true of its transfer, whatever is *)
(* lost, cut or dropped (transfer_sol.cpp:58-120, spl_token_transfer.cpp:     *)
(* 138-152).                                                                  *)
THEOREM SpeaksTruly == SubmissionSpec => []SaidTruly
  <1>1. FlowInv => SaidTruly
    BY DEF FlowInv
  <1> QED
    BY <1>1, FlowInvariance, PTL

(* The transfer is not sent before the airdrop was seen on the chain          *)
(* (transfer_sol.cpp:64-95).                                                  *)
THEOREM SendsAfterFunding == SubmissionSpec => SentAfterFunding
  <1>1. FlowInv /\ [SubmissionNext]_submissionVars =>
            (~Tokens /\ step = "transfer" /\ step' # "transfer" => pc = "true" /\ landedAt >= 0)
    BY DEF FlowInv, SeenTo, IInv, TypeOK, Reported
  <1> QED
    BY <1>1, FlowInvariance, PTL DEF SentAfterFunding, SubmissionSpec

(* Tokens go to an account that is there, or created on the way, as far as    *)
(* the example could know (spl_token_transfer.cpp:80-102).                    *)
THEOREM CreatesTheMissing == SubmissionSpec => MissingIsCreated
  <1>1. FlowInv /\ [SubmissionNext]_submissionVars =>
            (~creates' /\ step = "account" /\ step' = "sign" => account)
    <2> SUFFICES ASSUME FlowInv, [SubmissionNext]_submissionVars, ~creates',
                        step = "account", step' = "sign"
                 PROVE  account
      OBVIOUS
    <2>1. LookForAccount
      BY DEF SubmissionNext, submissionVars, flow, Main, TransactionMoves, AirdropMoves,
             AccountMoves, StatusRead, NothingRead, Await, Wait, RequestAirdrop,
             AirdropAwaited, ShowBalance, GetBlockhash, Sign, SendTransfer, TransferAwaited
    <2> QED
      BY <2>1 DEF LookForAccount, FlowInv, FlowTypeOK
  <1> QED
    BY <1>1, FlowInvariance, PTL DEF MissingIsCreated, SubmissionSpec
=============================================================================
