---------------------------- MODULE TotalsProofs ----------------------------
(***************************************************************************)
(* What the proofs about budgets need to know of totals.                   *)
(***************************************************************************)
EXTENDS Totals, FiniteSetTheorems, FunctionTheorems, TLAPS

\* Finitely many amounts have finitely many units.
LEMMA UnitsAreFinite ==
    ASSUME NEW S, IsFiniteSet(S), NEW amount, \A x \in S : amount[x] \in Nat
    PROVE  IsFiniteSet(UnitsOf(amount, S))
<1> DEFINE own == [x \in S |-> {x} \X (1..amount[x])]
           sets == {own[x] : x \in S}
<1>1. own \in Surjection(S, sets)
  BY DEF Surjection
<1>2. IsFiniteSet(sets)
  <2> HIDE DEF own, sets
  <2> QED BY <1>1, FS_Surjection
<1>3. \A x \in S : IsFiniteSet({x} \X (1..amount[x]))
  <2> TAKE x \in S
  <2>1. IsFiniteSet({x})
    BY FS_Singleton
  <2>2. IsFiniteSet(1..amount[x])
    BY FS_Interval
  <2> QED BY <2>1, <2>2, FS_Product
<1>4. \A T \in sets : IsFiniteSet(T)
  BY <1>3
<1>5. IsFiniteSet(UNION sets)
  <2> HIDE DEF sets
  <2> QED BY <1>2, <1>4, FS_UNION
<1>6. UnitsOf(amount, S) = UNION sets
  BY DEF UnitsOf
<1> QED BY <1>5, <1>6

LEMMA TotalIsNatural ==
    ASSUME NEW S, IsFiniteSet(S), NEW amount, \A x \in S : amount[x] \in Nat
    PROVE  Total(amount, S) \in Nat
BY UnitsAreFinite, FS_CardinalityType DEF Total

\* Whatever is left out, the total does not grow; and it depends on nothing but the
\* amounts that are summed.
LEMMA TotalIsMonotone ==
    ASSUME NEW S, IsFiniteSet(S), NEW amount, \A x \in S : amount[x] \in Nat,
           NEW T, T \subseteq S, NEW other, \A x \in T : other[x] = amount[x]
    PROVE  Total(other, T) <= Total(amount, S)
<1>1. UnitsOf(other, T) \subseteq UnitsOf(amount, S)
  BY DEF UnitsOf
<1>2. IsFiniteSet(UnitsOf(amount, S))
  BY UnitsAreFinite
<1> QED BY <1>1, <1>2, FS_Subset DEF Total

LEMMA TotalOfNothing == \A amount : Total(amount, {}) = 0
<1>1. \A amount : UnitsOf(amount, {}) = {}
  BY DEF UnitsOf
<1> QED BY <1>1, FS_EmptySet DEF Total

\* One more adds its amount.
LEMMA TotalOfOneMore ==
    ASSUME NEW S, IsFiniteSet(S), NEW x, x \notin S,
           NEW amount, \A y \in S \cup {x} : amount[y] \in Nat
    PROVE  Total(amount, S \cup {x}) = Total(amount, S) + amount[x]
<1> DEFINE own == {x} \X (1..amount[x])
<1>1. IsFiniteSet(UnitsOf(amount, S)) /\ Total(amount, S) \in Nat
  BY UnitsAreFinite, TotalIsNatural
<1>2. IsFiniteSet(own) /\ Cardinality(own) = amount[x]
  <2>1. IsFiniteSet({x}) /\ Cardinality({x}) = 1
    BY FS_Singleton
  <2>2. IsFiniteSet(1..amount[x]) /\ Cardinality(1..amount[x]) = amount[x]
    BY FS_Interval
  <2>3. IsFiniteSet(own) /\ Cardinality(own) = 1 * amount[x]
    BY <2>1, <2>2, FS_Product
  <2> QED BY <2>3
<1>3. UnitsOf(amount, S \cup {x}) = UnitsOf(amount, S) \cup own
  BY DEF UnitsOf
<1>4. UnitsOf(amount, S) \cap own = {}
  BY DEF UnitsOf
<1>5. Cardinality({}) = 0
  BY FS_EmptySet
<1> HIDE DEF own
<1>6. Cardinality(UnitsOf(amount, S) \cup own)
        = Cardinality(UnitsOf(amount, S)) + Cardinality(own)
            - Cardinality(UnitsOf(amount, S) \cap own)
  BY <1>1, <1>2, FS_Union
<1>7. Total(amount, S \cup {x}) = Total(amount, S) + amount[x] - 0
  BY <1>2, <1>3, <1>4, <1>5, <1>6 DEF Total
<1>8. amount[x] \in Nat
  OBVIOUS
<1> QED BY <1>1, <1>7, <1>8

\* Two parts that have nothing in common add up.
LEMMA TotalOfParts ==
    ASSUME NEW S, IsFiniteSet(S), NEW amount, \A x \in S : amount[x] \in Nat,
           NEW T, IsFiniteSet(T), NEW other, \A x \in T : other[x] \in Nat,
           S \cap T = {},
           NEW whole, \A x \in S : whole[x] = amount[x], \A x \in T : whole[x] = other[x]
    PROVE  Total(whole, S \cup T) = Total(amount, S) + Total(other, T)
<1>1. IsFiniteSet(UnitsOf(amount, S)) /\ Total(amount, S) \in Nat
  BY UnitsAreFinite, TotalIsNatural
<1>2. IsFiniteSet(UnitsOf(other, T)) /\ Total(other, T) \in Nat
  BY UnitsAreFinite, TotalIsNatural
<1>3. UnitsOf(whole, S \cup T) = UnitsOf(amount, S) \cup UnitsOf(other, T)
  <2>1. UnitsOf(amount, S) = UNION {{x} \X (1..whole[x]) : x \in S}
    BY DEF UnitsOf
  <2>2. UnitsOf(other, T) = UNION {{x} \X (1..whole[x]) : x \in T}
    BY DEF UnitsOf
  <2> QED BY <2>1, <2>2 DEF UnitsOf
<1>4. UnitsOf(amount, S) \cap UnitsOf(other, T) = {}
  BY DEF UnitsOf
<1>5. Cardinality({}) = 0
  BY FS_EmptySet
<1>6. Cardinality(UnitsOf(amount, S) \cup UnitsOf(other, T))
        = Cardinality(UnitsOf(amount, S)) + Cardinality(UnitsOf(other, T))
            - Cardinality(UnitsOf(amount, S) \cap UnitsOf(other, T))
  BY <1>1, <1>2, FS_Union
<1>7. Total(whole, S \cup T) = Total(amount, S) + Total(other, T) - 0
  BY <1>3, <1>4, <1>5, <1>6 DEF Total
<1> QED BY <1>1, <1>2, <1>7

\* If each amount of one collection is an amount of the other, and no two are the same
\* one, its total is not greater.
LEMMA TotalByName ==
    ASSUME NEW S, IsFiniteSet(S), NEW amount, \A x \in S : amount[x] \in Nat,
           NEW T, NEW name \in [T -> S], \A x, y \in T : name[x] = name[y] => x = y,
           NEW other, \A x \in T : other[x] = amount[name[x]]
    PROVE  Total(other, T) \in Nat /\ Total(other, T) <= Total(amount, S)
<1> DEFINE renamed == [u \in UnitsOf(other, T) |-> <<name[u[1]], u[2]>>]
<1>1. \A u \in UnitsOf(other, T) : u[1] \in T /\ u[2] \in 1..other[u[1]] /\ u = <<u[1], u[2]>>
  BY DEF UnitsOf
<1>2. \A x \in S : \A i \in 1..amount[x] : <<x, i>> \in UnitsOf(amount, S)
  BY DEF UnitsOf
<1>3. \A u \in UnitsOf(other, T) : renamed[u] \in UnitsOf(amount, S)
  BY <1>1, <1>2
<1>4. \A u, w \in UnitsOf(other, T) : renamed[u] = renamed[w] => u = w
  BY <1>1
<1>5. renamed \in [UnitsOf(other, T) -> UnitsOf(amount, S)]
  BY <1>3
<1> HIDE DEF renamed
<1>6. renamed \in Injection(UnitsOf(other, T), UnitsOf(amount, S))
  BY <1>4, <1>5 DEF Injection, IsInjective
<1>7. IsFiniteSet(UnitsOf(amount, S))
  BY UnitsAreFinite
<1>8. IsFiniteSet(UnitsOf(other, T)) /\ Total(other, T) <= Total(amount, S)
  BY <1>6, <1>7, FS_Injection DEF Total
<1> QED BY <1>8, FS_CardinalityType DEF Total
=============================================================================
