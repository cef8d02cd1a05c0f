----------------------------- MODULE RpcRequest -----------------------------
(* What a caller may rely on when it posts one RPC request: it is executed at *)
(* most once, an answer means that it was, and an error says neither that it  *)
(* was nor that it will not be.                                               *)
VARIABLES
    outcome,  \* what the caller knows
    executed  \* the server has executed the request

vars == <<outcome, executed>>

Init == outcome = "pending" /\ executed = FALSE

Execute == ~executed /\ executed' = TRUE /\ UNCHANGED outcome

Answer == outcome = "pending" /\ executed /\ outcome' = "answer" /\ UNCHANGED executed

(* The body of a response that is not the answer to the request. *)
Refuse == outcome = "pending" /\ outcome' = "refused" /\ UNCHANGED executed

Fail == outcome = "pending" /\ outcome' = "error" /\ UNCHANGED executed

Next == Execute \/ Answer \/ Refuse \/ Fail

Spec == Init /\ [][Next]_vars
=============================================================================
