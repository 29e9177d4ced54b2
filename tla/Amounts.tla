------------------------------ MODULE Amounts -------------------------------
(* SUM(amount_cents): what the members of a finite set come to, counted    *)
(* cent by cent.  A fold would compute the same; the cardinality of a set  *)
(* of cents is what the theorems about finite sets speak of.               *)
EXTENDS Naturals, FiniteSets

(* The cents of the members of S, none of which is worth more than cap.    *)
Cents(amount, S, cap) ==
    {cent \in S \X (1 .. cap) : cent[2] <= amount[cent[1]]}

Total(amount, S, cap) == Cardinality(Cents(amount, S, cap))
=============================================================================
