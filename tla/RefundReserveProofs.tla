------------------------- MODULE RefundReserveProofs ------------------------
(***************************************************************************)
(* Proofs about RefundReserve, for any refunds, payments and price.        *)
(***************************************************************************)
EXTENDS RefundReserve, AmountTheorems

(* The reserve of a payment is kept of finitely many refunds. *)
LEMMA TakenFinite ==
    ASSUME IsFiniteSet(Refunds)
    PROVE  \A p : IsFiniteSet(Taken(p))
BY FS_Subset DEF Taken

(* Every step keeps every variable typed. *)
LEMMA ReserveStepTyped ==
    ASSUME Price \in Nat, ReserveTypeOK, [Next]_reserve
    PROVE  ReserveTypeOK'
<1> USE DEF ReserveTypeOK
<1>1. ASSUME NEW r \in Refunds, NEW p \in Payments, NEW a \in 1 .. Price,
             Hold(r, p, a)
      PROVE  ReserveTypeOK'
  BY <1>1 DEF Hold
<1>2. ASSUME NEW r \in Refunds, NEW fate \in {"spent", "returned"},
             Decide(r, fate)
      PROVE  ReserveTypeOK'
  BY <1>2 DEF Decide
<1> QED
  BY <1>1, <1>2 DEF Next, reserve

(* A refund that is held fits into what is left, and deciding a refund     *)
(* takes nothing more.                                                     *)
LEMMA ReserveStepWithin ==
    ASSUME IsFiniteSet(Refunds), Price \in Nat,
           ReserveTypeOK, WithinPrice, [Next]_reserve
    PROVE  WithinPrice'
<1>1. ASSUME NEW r \in Refunds, NEW p \in Payments, NEW a \in 1 .. Price,
             Hold(r, p, a)
      PROVE  WithinPrice'
  <2>1. SUFFICES ASSUME NEW q \in Payments
                 PROVE  Total(amount', Taken(q)', Price) <= Price
    BY DEF WithinPrice
  <2>2. /\ r \notin Taken(q)
        /\ \A s \in Taken(q) : amount'[s] = amount[s]
        /\ amount'[r] = a
    BY <1>1 DEF Hold, Taken, ReserveTypeOK
  <2>3. Total(amount', Taken(q), Price) = Total(amount, Taken(q), Price)
    BY <2>2, TotalCongruence
  <2>4. CASE q = p
    <3>1. Taken(q)' = Taken(q) \cup {r}
      BY <1>1, <2>4 DEF Hold, Taken, ReserveTypeOK
    <3>2. Total(amount', Taken(q) \cup {r}, Price)
            = Total(amount', Taken(q), Price) + a
      <4>1. IsFiniteSet(Taken(q)) /\ amount'[r] \in 0 .. Price
        BY <2>2, TakenFinite
      <4>2. Total(amount', Taken(q) \cup {r}, Price)
              = Total(amount', Taken(q), Price) + amount'[r]
        BY <2>2, <4>1, TotalAdd
      <4> QED
        BY <2>2, <4>2
    <3>3. Total(amount, Taken(q), Price) \in Nat
      BY TakenFinite, TotalType
    <3> QED
      BY <1>1, <2>3, <2>4, <3>1, <3>2, <3>3 DEF Hold
  <2>5. CASE q # p
    <3>1. Taken(q)' = Taken(q)
      BY <1>1, <2>5 DEF Hold, Taken, ReserveTypeOK
    <3> QED
      BY <2>3, <3>1 DEF WithinPrice
  <2> QED
    BY <2>4, <2>5
<1>2. ASSUME NEW r \in Refunds, NEW fate \in {"spent", "returned"},
             Decide(r, fate)
      PROVE  WithinPrice'
  <2>1. SUFFICES ASSUME NEW q \in Payments
                 PROVE  Total(amount', Taken(q)', Price) <= Price
    BY DEF WithinPrice
  <2>2. Taken(q)' \in SUBSET Taken(q) /\ amount' = amount
    BY <1>2 DEF Decide, Taken, ReserveTypeOK
  <2>3. Total(amount, Taken(q)', Price) <= Total(amount, Taken(q), Price)
    BY <2>2, TakenFinite, TotalMonotone
  <2>4. /\ Total(amount, Taken(q)', Price) \in Nat
        /\ Total(amount, Taken(q), Price) \in Nat
    <3>1. IsFiniteSet(Taken(q)')
      BY <2>2, TakenFinite, FS_Subset
    <3> QED
      BY <3>1, TakenFinite, TotalType
  <2> QED
    BY <2>2, <2>3, <2>4 DEF WithinPrice
<1>3. CASE UNCHANGED reserve
  BY <1>3 DEF reserve, WithinPrice, Taken
<1> QED
  BY <1>1, <1>2, <1>3 DEF Next

(* Nothing is reserved at the start. *)
LEMMA ReserveInit ==
    ASSUME Price \in Nat, Init
    PROVE  ReserveTypeOK /\ WithinPrice
<1>1. ReserveTypeOK
  BY DEF Init, ReserveTypeOK
<1>2. ASSUME NEW p \in Payments
      PROVE  Total(amount, Taken(p), Price) <= Price
  <2>1. Taken(p) = {}
    BY DEF Init, Taken
  <2>2. Cents(amount, {}, Price) = {}
    BY DEF Cents
  <2> QED
    BY <2>1, <2>2, FS_EmptySet DEF Total
<1> QED
  BY <1>1, <1>2 DEF WithinPrice

(* The promise of refunding keeps its own promise: what is held and spent  *)
(* of a payment never exceeds what was paid (README.md:66).                *)
THEOREM ReserveWithinPrice ==
    ASSUME IsFiniteSet(Refunds), Price \in Nat
    PROVE  Spec => []WithinPrice
<1>1. Init => ReserveTypeOK /\ WithinPrice
  BY ReserveInit
<1>2. ReserveTypeOK /\ WithinPrice /\ [Next]_reserve
        => (ReserveTypeOK /\ WithinPrice)'
  BY ReserveStepTyped, ReserveStepWithin
<1> QED
  BY <1>1, <1>2, PTL DEF Spec
=============================================================================
