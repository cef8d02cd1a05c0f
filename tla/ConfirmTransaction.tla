------------------------- MODULE ConfirmTransaction -------------------------
(* RpcClient::confirmTransaction: poll the status of a transaction until it   *)
(* is reported or the timeout has passed.  The program runs against the       *)
(* cluster (external), where the transaction lands, is confirmed, finalized,  *)
(* or dropped with its fork, and against an RPC server (external) that reads  *)
(* the status at some moment of a request and whose answer may fail.          *)
EXTENDS Integers

CONSTANTS
    TimeoutMs,     \* argument
    PollInterval,  \* the 2000 ms sleep between polls
    MaxLatency,    \* bound: an RPC request ends, well or not, within this time
    UintRange      \* the number of values of a uint32_t

ASSUME TimeAssumption ==
    /\ TimeoutMs \in Nat /\ PollInterval \in Nat \ {0} /\ MaxLatency \in Nat
    /\ UintRange \in Nat \ {0}
    /\ TimeoutMs + PollInterval + MaxLatency < UintRange

VARIABLES
    elapsed,    \* time since the call
    pc,         \* "check", "request", "answer", "sleep", "true" or "false"
    phaseStart, \* when pc became "request" or "sleep"
    answer,     \* what the server read: a status, or "fault"
    status,     \* the transaction on the cluster
    landedAt,   \* history: when it landed, or -1 (bound: it lands once)
    faults      \* history: a request failed, or the transaction was dropped

program == <<pc, phaseStart, answer>>
cluster == <<status, landedAt>>
vars == <<elapsed, program, cluster, faults>>

Statuses == {"unknown", "processed", "confirmed", "finalized"}

Init ==
    /\ elapsed = 0
    /\ pc = "check" /\ phaseStart = 0 /\ answer = "unknown"
    /\ status = "unknown" /\ landedAt = -1
    /\ faults = FALSE

-----------------------------------------------------------------------------
(* The cluster.                                                               *)

Returned == pc \in {"true", "false"}

Land ==
    /\ ~Returned
    /\ status = "unknown" /\ landedAt = -1
    /\ status' = "processed"
    /\ landedAt' = elapsed
    /\ UNCHANGED <<elapsed, program, faults>>

Advance ==
    /\ ~Returned
    /\ \/ status = "processed" /\ status' = "confirmed"
       \/ status = "confirmed" /\ status' = "finalized"
    /\ UNCHANGED <<elapsed, program, landedAt, faults>>

(* A processed transaction is on a fork that may still be abandoned. *)
Drop ==
    /\ ~Returned
    /\ status = "processed"
    /\ status' = "unknown"
    /\ faults' = TRUE
    /\ UNCHANGED <<elapsed, program, landedAt>>

(* Time passes while the program waits: for an answer, or in its sleep. *)
Tick ==
    /\ \/ pc \in {"request", "answer"} /\ elapsed < phaseStart + MaxLatency
       \/ pc = "sleep" /\ elapsed < phaseStart + PollInterval
    /\ elapsed' = elapsed + 1
    /\ UNCHANGED <<program, cluster, faults>>

-----------------------------------------------------------------------------
(* The program.                                                               *)

(* The deadline is checked against a budget one interval longer. *)
Expired_Late == elapsed % UintRange >= TimeoutMs + PollInterval

(* elapsed is narrowed to a uint32_t before it is compared. *)
Expired == elapsed % UintRange >= TimeoutMs

TimeOut ==
    /\ pc = "check"
    /\ Expired
    /\ pc' = "false"
    /\ UNCHANGED <<elapsed, phaseStart, answer, cluster, faults>>

BeginPoll ==
    /\ pc = "check"
    /\ ~Expired
    /\ pc' = "request"
    /\ phaseStart' = elapsed
    /\ UNCHANGED <<elapsed, answer, cluster, faults>>

(* The server reads the status; the answer is on its way. *)
ServerReads ==
    /\ pc = "request"
    /\ pc' = "answer"
    /\ answer' = status
    /\ UNCHANGED <<elapsed, phaseStart, cluster, faults>>

(* A connection error, a malformed or an error response: whatever the request *)
(* throws is swallowed.                                                       *)
RequestFails ==
    /\ pc \in {"request", "answer"}
    /\ pc' = "sleep"
    /\ phaseStart' = elapsed
    /\ faults' = TRUE
    /\ UNCHANGED <<elapsed, answer, cluster>>

(* Only finality counts. *)
Reported_FinalizedOnly(s) == s = "finalized"

(* A null status counts. *)
Reported_NullToo(s) == s \in {"unknown", "processed", "confirmed", "finalized"}

(* The status is not null and its confirmationStatus is one of the three; its *)
(* err field is not looked at.                                                *)
Reported(s) == s \in {"processed", "confirmed", "finalized"}

Confirm ==
    /\ pc = "answer"
    /\ Reported(answer)
    /\ pc' = "true"
    /\ UNCHANGED <<elapsed, phaseStart, answer, cluster, faults>>

(* The next poll follows at once. *)
NotYet_NoSleep ==
    /\ pc = "answer"
    /\ ~Reported(answer)
    /\ pc' = "check"
    /\ UNCHANGED <<elapsed, phaseStart, answer, cluster, faults>>

NotYet ==
    /\ pc = "answer"
    /\ ~Reported(answer)
    /\ pc' = "sleep"
    /\ phaseStart' = elapsed
    /\ UNCHANGED <<elapsed, answer, cluster, faults>>

Wake ==
    /\ pc = "sleep"
    /\ elapsed = phaseStart + PollInterval
    /\ pc' = "check"
    /\ UNCHANGED <<elapsed, phaseStart, answer, cluster, faults>>

Program == TimeOut \/ BeginPoll \/ RequestFails \/ Confirm \/ NotYet \/ Wake

Next ==
    \/ Land \/ Advance \/ Drop
    \/ Tick
    \/ ServerReads
    \/ Program
    \/ Returned /\ UNCHANGED vars

(* The program's thread keeps running, the server answers, and time passes.   *)
(* Nothing obliges the cluster to do anything.                                *)
Spec == Init /\ [][Next]_vars /\ WF_vars(Program \/ ServerReads) /\ WF_vars(Tick)

-----------------------------------------------------------------------------
(* Properties.                                                                *)

TypeOK ==
    /\ elapsed \in Nat
    /\ pc \in {"check", "request", "answer", "sleep", "true", "false"}
    /\ phaseStart \in 0..elapsed
    /\ answer \in Statuses
    /\ status \in Statuses
    /\ landedAt \in -1..elapsed
    /\ faults \in BOOLEAN
    /\ elapsed < UintRange

(* True is returned only for a transaction that has landed, however polls and *)
(* answers interleave with the cluster (rpc_client.cpp:421-426).              *)
TrueMeansLanded == pc = "true" => landedAt >= 0

(* False is not an early surrender: the timeout is over, and if no request    *)
(* failed and the transaction was not dropped, it landed too late for the     *)
(* last poll that the interval and the latency leave room for                 *)
(* (rpc_client.cpp:412-429).                                                  *)
FalseMeansMissed ==
    pc = "false" =>
        /\ elapsed >= TimeoutMs
        /\ ~faults /\ landedAt >= 0 => landedAt + PollInterval + MaxLatency >= TimeoutMs

(* The caller is not kept longer than one poll and one sleep past the         *)
(* timeout, if requests end in time (rpc_client.cpp:413-428).                 *)
BoundedOvershoot == elapsed < TimeoutMs + PollInterval + MaxLatency \/ TimeoutMs = 0
=============================================================================
