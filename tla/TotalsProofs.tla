---------------------------- MODULE TotalsProofs ----------------------------
(***************************************************************************)
(* What totals satisfy, for every finite set and every amounts over it.    *)
(***************************************************************************)
EXTENDS Totals, FiniteSetTheorems, TLAPS

\* Every member of S has an amount.
Amounted(f, S) == \A x \in S : f[x] \in Nat

\* One member holds as many units as its amount.
LEMMA UnitsOfOne ==
    ASSUME NEW x, NEW n \in Nat
    PROVE  IsFiniteSet({x} \X (1 .. n)) /\ Cardinality({x} \X (1 .. n)) = n
<1>1. IsFiniteSet(1 .. n) /\ Cardinality(1 .. n) = n
  BY FS_Interval
<1>2. IsFiniteSet({x}) /\ Cardinality({x}) = 1
  BY FS_Singleton
<1>3. QED
  BY <1>1, <1>2, FS_Product

\* The units of finitely many members are finitely many.
LEMMA TotalIsNat ==
    ASSUME NEW S, IsFiniteSet(S), NEW f, Amounted(f, S)
    PROVE  IsFiniteSet(Units(f, S)) /\ Total(f, S) \in Nat
<1> DEFINE parts == {{x} \X (1 .. f[x]) : x \in S}
           part == [x \in S |-> {x} \X (1 .. f[x])]
<1>1. part \in Surjection(S, parts)
  BY DEF Surjection
<1>2. IsFiniteSet(parts)
  BY <1>1, FS_Surjection
<1>3. ASSUME NEW p \in parts PROVE IsFiniteSet(p)
  <2>1. PICK x \in S : p = {x} \X (1 .. f[x])
    BY <1>3
  <2>2. f[x] \in Nat
    BY DEF Amounted
  <2>3. QED
    BY <2>1, <2>2, UnitsOfOne
<1>4. IsFiniteSet(UNION parts)
  BY <1>2, <1>3, FS_UNION
<1>5. QED
  BY <1>4, FS_CardinalityType DEF Units, Total

\* Nobody holds nothing.
LEMMA TotalOfNobody ==
    ASSUME NEW f
    PROVE  Total(f, {}) = 0
<1>1. Units(f, {}) = {}
  BY DEF Units
<1>2. QED
  BY <1>1, FS_EmptySet DEF Total

\* A total depends only on the amounts of its members.
LEMMA SameTotal ==
    ASSUME NEW S, NEW f, NEW g, \A x \in S : f[x] = g[x]
    PROVE  Total(f, S) = Total(g, S)
BY DEF Total, Units

\* Larger amounts over a larger set have a larger total.
LEMMA TotalGrows ==
    ASSUME NEW S, NEW T, IsFiniteSet(T), NEW f, NEW g, Amounted(f, S), Amounted(g, T),
           \A x \in S : f[x] # 0 => x \in T /\ f[x] <= g[x]
    PROVE  Total(f, S) <= Total(g, T)
<1>1. ASSUME NEW u \in Units(f, S) PROVE u \in Units(g, T)
  <2>1. PICK x \in S : u \in {x} \X (1 .. f[x])
    BY <1>1 DEF Units
  <2>2. f[x] \in Nat /\ f[x] # 0
    BY <2>1 DEF Amounted
  <2>3. x \in T /\ f[x] <= g[x] /\ g[x] \in Nat
    BY <2>2 DEF Amounted
  <2>4. u \in {x} \X (1 .. g[x])
    BY <2>1, <2>2, <2>3
  <2>5. QED
    BY <2>3, <2>4 DEF Units
<1>2. Units(f, S) \in SUBSET Units(g, T)
  BY <1>1
<1>3. QED
  BY <1>2, TotalIsNat, FS_Subset DEF Total

\* A member that is taken out takes its amount with it.
LEMMA TotalWithout ==
    ASSUME NEW S, IsFiniteSet(S), NEW f, Amounted(f, S), NEW x \in S
    PROVE  /\ Total(f, S) = Total(f, S \ {x}) + f[x]
           /\ Total(f, S \ {x}) \in Nat /\ Total(f, S) \in Nat /\ f[x] \in Nat
<1> DEFINE rest == Units(f, S \ {x})
           own == {x} \X (1 .. f[x])
<1>1. IsFiniteSet(S \ {x}) /\ Amounted(f, S \ {x}) /\ f[x] \in Nat
  BY FS_RemoveElement DEF Amounted
<1>2. IsFiniteSet(rest) /\ Cardinality(rest) \in Nat /\ Cardinality(rest) = Total(f, S \ {x})
  BY <1>1, TotalIsNat DEF Total
<1>3. IsFiniteSet(own) /\ Cardinality(own) = f[x]
  BY <1>1, UnitsOfOne
<1>4. rest \cap own = {}
  BY DEF Units
<1>5. Units(f, S) = rest \cup own
  <2>1. Units(f, S) \subseteq rest \cup own
    BY DEF Units
  <2>2. rest \cup own \subseteq Units(f, S)
    BY DEF Units
  <2>3. QED
    BY <2>1, <2>2
<1> HIDE DEF rest, own
<1>6. Cardinality(rest \cup own) = Cardinality(rest) + Cardinality(own) - Cardinality(rest \cap own)
  BY <1>2, <1>3, FS_Union
<1>7. Cardinality(rest \cap own) = 0
  BY <1>4, FS_EmptySet
<1>8. Total(f, S) = Cardinality(rest \cup own)
  BY <1>5 DEF Total
<1>9. QED
  BY <1>1, <1>2, <1>3, <1>6, <1>7, <1>8, TotalIsNat

\* A new member brings its amount.
LEMMA TotalWith ==
    ASSUME NEW S, IsFiniteSet(S), NEW f, Amounted(f, S), NEW x, x \notin S, f[x] \in Nat
    PROVE  /\ Total(f, S \cup {x}) = Total(f, S) + f[x]
           /\ Total(f, S) \in Nat
<1>1. IsFiniteSet(S \cup {x}) /\ Amounted(f, S \cup {x}) /\ (S \cup {x}) \ {x} = S
  BY FS_AddElement DEF Amounted
<1>2. QED
  BY <1>1, TotalWithout

\* No member holds more than all of them.
LEMMA TotalCovers ==
    ASSUME NEW S, IsFiniteSet(S), NEW f, Amounted(f, S)
    PROVE  Total(f, S) \in Nat /\ \A x \in S : f[x] \in Nat /\ f[x] <= Total(f, S)
<1>1. ASSUME NEW x \in S PROVE f[x] \in Nat /\ f[x] <= Total(f, S)
  <2>1. /\ Total(f, S) = Total(f, S \ {x}) + f[x]
        /\ Total(f, S \ {x}) \in Nat /\ f[x] \in Nat
    BY TotalWithout
  <2>2. QED
    BY <2>1
<1>2. QED
  BY <1>1, TotalIsNat

\* When one amount changes, the total changes by the difference.
LEMMA TotalChanges ==
    ASSUME NEW S, IsFiniteSet(S), NEW f, NEW g, Amounted(f, S), Amounted(g, S),
           NEW x \in S, \A y \in S \ {x} : g[y] = f[y]
    PROVE  Total(g, S) = Total(f, S) - f[x] + g[x]
<1>1. Total(g, S \ {x}) = Total(f, S \ {x})
  BY SameTotal
<1>2. /\ Total(f, S) = Total(f, S \ {x}) + f[x]
      /\ Total(g, S) = Total(g, S \ {x}) + g[x]
      /\ Total(f, S \ {x}) \in Nat /\ f[x] \in Nat /\ g[x] \in Nat
  BY TotalWithout
<1>3. QED
  BY <1>1, <1>2

\* The total over some of the members is the total over all of them with zero
\* for the others.
LEMMA TotalOfSome ==
    ASSUME NEW S, NEW T \in SUBSET S, NEW f, NEW g,
           \A x \in T : g[x] = f[x], \A x \in S \ T : g[x] = 0
    PROVE  Total(f, T) = Total(g, S)
<1>1. ASSUME NEW u \in Units(f, T) PROVE u \in Units(g, S)
  BY <1>1 DEF Units
<1>2. ASSUME NEW u \in Units(g, S) PROVE u \in Units(f, T)
  <2>1. PICK x \in S : u \in {x} \X (1 .. g[x])
    BY <1>2 DEF Units
  <2>2. x \in T
    BY <2>1
  <2>3. QED
    BY <2>1, <2>2 DEF Units
<1>3. Units(f, T) = Units(g, S)
  BY <1>1, <1>2
<1>4. QED
  BY <1>3 DEF Total

\* Amounts that are all zero have no total.
LEMMA TotalOfZero ==
    ASSUME NEW S, NEW f, \A x \in S : f[x] = 0
    PROVE  Total(f, S) = 0
<1>1. Units(f, S) = {}
  BY DEF Units
<1>2. QED
  BY <1>1, FS_EmptySet DEF Total

\* The total of ones is the number of members.
LEMMA TotalOfOnes ==
    ASSUME NEW S, IsFiniteSet(S), NEW f, \A x \in S : f[x] = 1
    PROVE  Total(f, S) = Cardinality(S)
<1>1. Units(f, S) = S \X (1 .. 1)
  <2>1. Units(f, S) \subseteq S \X (1 .. 1)
    BY DEF Units
  <2>2. S \X (1 .. 1) \subseteq Units(f, S)
    BY DEF Units
  <2>3. QED
    BY <2>1, <2>2
<1>2. 1 .. 1 = {1}
  OBVIOUS
<1>3. IsFiniteSet({1}) /\ Cardinality({1}) = 1
  BY FS_Singleton
<1>4. Cardinality(S) \in Nat
  BY FS_CardinalityType
<1>5. Cardinality(S \X {1}) = Cardinality(S) * 1
  BY <1>3, FS_Product
<1>6. QED
  BY <1>1, <1>2, <1>4, <1>5 DEF Total

\* The total over two sets that share no member.
LEMMA TotalOfBoth ==
    ASSUME NEW S, NEW T, IsFiniteSet(S), IsFiniteSet(T), S \cap T = {},
           NEW f, Amounted(f, S), Amounted(f, T)
    PROVE  /\ Total(f, S \cup T) = Total(f, S) + Total(f, T)
           /\ Total(f, S) \in Nat /\ Total(f, T) \in Nat
<1>1. /\ IsFiniteSet(Units(f, S)) /\ Total(f, S) \in Nat
      /\ IsFiniteSet(Units(f, T)) /\ Total(f, T) \in Nat
  BY TotalIsNat
<1>2. Units(f, S \cup T) = Units(f, S) \cup Units(f, T)
  BY DEF Units
<1>3. Units(f, S) \cap Units(f, T) = {}
  BY DEF Units
<1>4. Cardinality(Units(f, S) \cup Units(f, T)) = Cardinality(Units(f, S)) + Cardinality(Units(f, T)) - 0
  BY <1>1, <1>3, FS_Union, FS_EmptySet
<1>5. Total(f, S \cup T) = Cardinality(Units(f, S) \cup Units(f, T))
  BY <1>2, Zenon DEF Total
<1>6. Total(f, S \cup T) = Total(f, S) + Total(f, T) - 0
  BY <1>4, <1>5, Zenon DEF Total
<1>7. QED
  BY <1>1, <1>6
=============================================================================
