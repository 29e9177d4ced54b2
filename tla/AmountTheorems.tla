--------------------------- MODULE AmountTheorems ---------------------------
(***************************************************************************)
(* What Total computes, for any finite set and any amounts.                *)
(***************************************************************************)
EXTENDS Amounts, Integers, FiniteSetTheorems, TLAPS

(* There are finitely many cents, so a total is a number. *)
LEMMA TotalType ==
    ASSUME NEW f, NEW S, IsFiniteSet(S), NEW cap \in Nat
    PROVE  IsFiniteSet(Cents(f, S, cap)) /\ Total(f, S, cap) \in Nat
<1>1. IsFiniteSet(S \X (1 .. cap))
  <2>1. IsFiniteSet(1 .. cap)
    BY FS_Interval
  <2> QED
    BY <2>1, FS_Product
<1>2. Cents(f, S, cap) \in SUBSET (S \X (1 .. cap))
  BY DEF Cents
<1> QED
  BY <1>1, <1>2, FS_Subset, FS_CardinalityType DEF Total

(* Only the amounts of the members count. *)
LEMMA TotalCongruence ==
    ASSUME NEW f, NEW g, NEW S, NEW cap, \A s \in S : f[s] = g[s]
    PROVE  Total(f, S, cap) = Total(g, S, cap)
<1>1. Cents(f, S, cap) = Cents(g, S, cap)
  BY DEF Cents
<1> QED
  BY <1>1 DEF Total

(* A part comes to no more than the whole. *)
LEMMA TotalMonotone ==
    ASSUME NEW f, NEW S, IsFiniteSet(S), NEW R \in SUBSET S, NEW cap \in Nat
    PROVE  Total(f, R, cap) <= Total(f, S, cap)
<1>1. Cents(f, R, cap) \in SUBSET Cents(f, S, cap)
  BY DEF Cents
<1> QED
  BY <1>1, TotalType, FS_Subset DEF Total

(* One more member adds its amount. *)
LEMMA TotalAdd ==
    ASSUME NEW f, NEW S, IsFiniteSet(S), NEW s, s \notin S, NEW cap \in Nat,
           f[s] \in 0 .. cap
    PROVE  Total(f, S \cup {s}, cap) = Total(f, S, cap) + f[s]
<1> DEFINE own == {s} \X (1 .. f[s])
<1>1. IsFiniteSet(own) /\ Cardinality(own) = f[s]
  <2>1. IsFiniteSet({s}) /\ Cardinality({s}) = 1
    BY FS_Singleton
  <2>2. IsFiniteSet(1 .. f[s]) /\ Cardinality(1 .. f[s]) = f[s]
    <3> DEFINE n == f[s]
    <3>1. n \in Nat /\ n \in Int /\ 1 \in Int
      OBVIOUS
    <3> HIDE DEF n
    <3>2. /\ IsFiniteSet(1 .. n)
          /\ Cardinality(1 .. n) = IF 1 > n THEN 0 ELSE n - 1 + 1
      BY <3>1, FS_Interval, Zenon
    <3>3. (IF 1 > n THEN 0 ELSE n - 1 + 1) = n
      BY <3>1
    <3> QED
      BY <3>2, <3>3 DEF n
  <2>3. IsFiniteSet(own) /\ Cardinality(own) = 1 * f[s]
    BY <2>1, <2>2, FS_Product
  <2> QED
    BY <2>3
<1>2. Cents(f, S \cup {s}, cap) = Cents(f, S, cap) \cup own
  BY DEF Cents
<1>3. Cents(f, S, cap) \cap own = {}
  BY DEF Cents
<1>4. IsFiniteSet(Cents(f, S, cap)) /\ Cardinality(Cents(f, S, cap)) \in Nat
  BY TotalType DEF Total
<1> HIDE DEF own
<1>5. Cardinality(Cents(f, S, cap) \cup own)
        = Cardinality(Cents(f, S, cap)) + Cardinality(own)
            - Cardinality(Cents(f, S, cap) \cap own)
  BY <1>1, <1>4, FS_Union
<1>6. Cardinality(Cents(f, S, cap) \cap own) = 0
  BY <1>3, FS_EmptySet
<1>7. Cardinality(Cents(f, S, cap) \cup own)
        = Cardinality(Cents(f, S, cap)) + f[s]
  BY <1>1, <1>4, <1>5, <1>6
<1> QED
  BY <1>2, <1>7 DEF Total
=============================================================================
