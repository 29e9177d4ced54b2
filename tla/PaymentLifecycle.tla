-------------------------- MODULE PaymentLifecycle --------------------------
(***************************************************************************)
(* What the payment side of the system promises (README.md, "Payment       *)
(* lifecycle" and "Transactional outbox"): a payment is created once, then *)
(* moves one permitted edge at a time, and each move is announced in the   *)
(* same step.  `announced` is what a consumer of the outbox will be told,  *)
(* in order.  PaymentProcessing is shown to implement this specification.  *)
(***************************************************************************)
EXTENDS Sequences

CONSTANT Payments       \* the payment ids the API may hand out

VARIABLES
    status,             \* the status of each payment, "NONE" before creation
    announced           \* the statuses announced for each payment, in order

lifecycle == <<status, announced>>

(* The edges of the state diagram in README.md. *)
Permitted ==
    {<<"CREATED", "PROCESSING">>,
     <<"PROCESSING", "SUCCEEDED">>, <<"PROCESSING", "FAILED">>,
     <<"FAILED", "PROCESSING">>,
     <<"SUCCEEDED", "REFUND_PENDING">>,
     <<"REFUND_PENDING", "SUCCEEDED">>, <<"REFUND_PENDING", "REFUNDED">>}

Init ==
    /\ status = [p \in Payments |-> "NONE"]
    /\ announced = [p \in Payments |-> <<>>]

Create(p) ==
    /\ status[p] = "NONE"
    /\ status' = [status EXCEPT ![p] = "CREATED"]
    /\ UNCHANGED announced

Move(p) ==
    \E edge \in Permitted :
        /\ status[p] = edge[1]
        /\ status' = [status EXCEPT ![p] = edge[2]]
        /\ announced' = [announced EXCEPT ![p] = Append(@, edge[2])]

Next == \E p \in Payments : Create(p) \/ Move(p)

Spec == Init /\ [][Next]_lifecycle
=============================================================================
