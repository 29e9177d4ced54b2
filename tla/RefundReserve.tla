---------------------------- MODULE RefundReserve ----------------------------
(***************************************************************************)
(* What refunding promises (README.md, "Refunds"): a refund reserves its   *)
(* amount from what is left of its payment, once; from then on it is       *)
(* either spent for good or given back for good.                           *)
(***************************************************************************)
EXTENDS Amounts

CONSTANTS
    Payments,       \* the payments
    Refunds,        \* the refunds clients may ask for, finitely many
    Price,          \* what each payment amounts to, a number of cents
    Nil             \* no payment

VARIABLES
    target,         \* the payment of each refund
    amount,         \* what it asks for
    state           \* what has become of it

reserve == <<target, amount, state>>

ReserveTypeOK ==
    /\ target \in [Refunds -> Payments \cup {Nil}]
    /\ amount \in [Refunds -> 0 .. Price]
    /\ state \in [Refunds -> {"unasked", "held", "spent", "returned"}]

Taken(p) == {r \in Refunds : target[r] = p /\ state[r] \in {"held", "spent"}}

Init ==
    /\ target = [r \in Refunds |-> Nil]
    /\ amount = [r \in Refunds |-> 0]
    /\ state = [r \in Refunds |-> "unasked"]

Hold(r, p, a) ==
    /\ state[r] = "unasked"
    /\ a + Total(amount, Taken(p), Price) <= Price
    /\ target' = [target EXCEPT ![r] = p]
    /\ amount' = [amount EXCEPT ![r] = a]
    /\ state' = [state EXCEPT ![r] = "held"]

Decide(r, fate) ==
    /\ state[r] = "held"
    /\ state' = [state EXCEPT ![r] = fate]
    /\ UNCHANGED <<target, amount>>

Next ==
    \E r \in Refunds :
        \/ \E p \in Payments, a \in 1 .. Price : Hold(r, p, a)
        \/ Decide(r, "spent")
        \/ Decide(r, "returned")

Spec == Init /\ [][Next]_reserve

(* The point of the reserve: what is held and spent never exceeds what was *)
(* paid (README.md:66).                                                    *)
WithinPrice == \A p \in Payments : Total(amount, Taken(p), Price) <= Price
=============================================================================
